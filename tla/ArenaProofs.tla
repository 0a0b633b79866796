----------------------------- MODULE ArenaProofs -----------------------------
(***************************************************************************)
(* Proofs about sensible-arena, for every chunk size, header size, set of  *)
(* addresses, of request sizes and of alignments: its chunk lists, the     *)
(* memory it hands out, and its arithmetic in machine words.               *)
(***************************************************************************)
EXTENDS ArenaWidth, SequenceTheorems, TLAPS

-----------------------------------------------------------------------------
(* Linked lists.  Each lemma is about one of the things the arena does to  *)
(* its lists; S is the set of addresses a list may contain.                *)

\* A list is empty exactly when its head is NULL.
LEMMA HeadNull ==
  ASSUME NEW S, NULL \notin S, NEW p, NEW s \in Seq(S), NEW h, Linked(p, s, h)
  PROVE  /\ h = NULL <=> s = <<>>
         /\ s # <<>> => h = s[1] /\ h \in Chunks(s) /\ h \in S /\ Len(s) >= 1
<1>1. CASE s = <<>>
  BY <1>1 DEF Linked
<1>2. CASE s # <<>>
  <2>1. Len(s) \in Nat \ {0} /\ 1 \in 1 .. Len(s)
    BY <1>2, EmptySeq
  <2>2. h = s[1]
    BY <1>2 DEF Linked
  <2>3. s[1] \in S
    BY <2>1, ElementOfSeq
  <2> QED
    BY <1>2, <2>1, <2>2, <2>3 DEF Chunks
<1> QED
  BY <1>1, <1>2

\* A list does not notice changes to the headers of other chunks.
LEMMA LinkedFrame ==
  ASSUME NEW p, NEW q, NEW s, NEW h, Linked(p, s, h),
         \A c \in Chunks(s) : q[c] = p[c]
  PROVE  Linked(q, s, h)
BY DEF Linked, Chunks

\* A chunk put in front of a list, its header pointing to the old head.
LEMMA PushFront ==
  ASSUME NEW S, NULL \notin S, NEW q, NEW s \in Seq(S), NEW h,
         Linked(q, s, h), NoRepeats(s),
         NEW c \in S, c \notin Chunks(s), q[c] = h
  PROVE  LET t == <<c>> \o s
         IN  /\ t \in Seq(S) /\ t # <<>> /\ Len(t) = Len(s) + 1
             /\ Linked(q, t, c)
             /\ NoRepeats(t)
             /\ Chunks(t) = {c} \cup Chunks(s)
             /\ Tail(t) = s
<1> DEFINE t == <<c>> \o s
<1>1. <<c>> \in Seq(S) /\ Len(<<c>>) = 1 /\ <<c>>[1] = c
  OBVIOUS
<1>2. Len(s) \in Nat
  BY LenProperties
<1>3. /\ t \in Seq(S)
      /\ Len(t) = Len(s) + 1
      /\ \A i \in 1 .. Len(s) + 1 : t[i] = IF i <= 1 THEN c ELSE s[i - 1]
  BY <1>1, ConcatProperties
<1> HIDE DEF t
<1>4. t # <<>> /\ t[1] = c
  BY <1>2, <1>3
<1>5. Tail(t) = s
  <2>1. /\ Tail(t) \in Seq(S) /\ Len(Tail(t)) = Len(s)
        /\ \A i \in 1 .. Len(s) : Tail(t)[i] = s[i]
    BY <1>2, <1>3, <1>4, HeadTailProperties
  <2> QED
    BY <2>1, SeqEqual
<1>6. \A i \in 1 .. Len(s) : s[i] \in Chunks(s)
  BY DEF Chunks
<1>7. Linked(q, t, c)
  <2>1. ASSUME NEW i \in 1 .. Len(t)
        PROVE  q[t[i]] = IF i < Len(t) THEN t[i + 1] ELSE NULL
    <3>1. CASE i = 1
      <4>1. CASE s = <<>>
        BY <1>3, <1>4, <3>1, <4>1 DEF Linked
      <4>2. CASE s # <<>>
        BY <1>2, <1>3, <1>4, <3>1, <4>2, EmptySeq DEF Linked
      <4> QED
        BY <4>1, <4>2
    <3>2. CASE i > 1
      <4>1. i - 1 \in 1 .. Len(s) /\ t[i] = s[i - 1]
        BY <1>2, <1>3, <3>2
      <4>2. q[t[i]] = IF i - 1 < Len(s) THEN s[(i - 1) + 1] ELSE NULL
        BY <1>6, <4>1 DEF Linked
      <4> QED
        BY <1>2, <1>3, <4>1, <4>2
    <3> QED
      BY <1>2, <1>3, <3>1, <3>2
  <2> QED
    BY <1>4, <2>1 DEF Linked
<1>8. NoRepeats(t)
  <2> SUFFICES ASSUME NEW i \in 1 .. Len(t), NEW j \in 1 .. Len(t), t[i] = t[j]
               PROVE  i = j
    BY DEF NoRepeats
  <2>1. CASE i = 1 \/ j = 1
    <3>1. \A k \in 1 .. Len(t) : k = 1 \/ (k - 1 \in 1 .. Len(s) /\ t[k] = s[k - 1])
      BY <1>2, <1>3
    <3>2. \A k \in 1 .. Len(t) : k = 1 \/ t[k] # c
      BY <1>6, <3>1
    <3> QED
      BY <1>4, <2>1, <3>2
  <2>2. CASE i > 1 /\ j > 1
    <3>1. i - 1 \in 1 .. Len(s) /\ j - 1 \in 1 .. Len(s) /\ s[i - 1] = s[j - 1]
      BY <1>2, <1>3, <2>2
    <3> QED
      BY <2>2, <3>1 DEF NoRepeats
  <2> QED
    BY <1>2, <1>3, <2>1, <2>2
<1>9. Chunks(t) = {c} \cup Chunks(s)
  <2>1. Chunks(t) \subseteq {c} \cup Chunks(s)
    BY <1>2, <1>3 DEF Chunks
  <2>2. ASSUME NEW i \in 1 .. Len(s)  PROVE s[i] \in Chunks(t)
    <3>1. i + 1 \in 1 .. Len(t) /\ t[i + 1] = s[i]
      BY <1>2, <1>3
    <3> QED
      BY <3>1 DEF Chunks
  <2>3. c \in Chunks(t)
    BY <1>2, <1>3, <1>4 DEF Chunks
  <2> QED
    BY <2>1, <2>2, <2>3 DEF Chunks
<1> QED
  BY <1>3, <1>4, <1>5, <1>7, <1>8, <1>9 DEF t

\* The first chunk taken off a list; the rest starts where its header points.
LEMMA PopFront ==
  ASSUME NEW S, NULL \notin S, NEW p, NEW s \in Seq(S), NEW h,
         Linked(p, s, h), NoRepeats(s), s # <<>>
  PROVE  LET t == Tail(s)
         IN  /\ t \in Seq(S) /\ Len(t) = Len(s) - 1
             /\ Linked(p, t, p[h])
             /\ NoRepeats(t)
             /\ Chunks(t) = Chunks(s) \ {h}
             /\ h = s[1] /\ h \in Chunks(s) /\ h \in S
             /\ \A i \in 1 .. Len(s) - 1 : t[i] = s[i + 1]
<1> DEFINE t == Tail(s)
<1>1. Len(s) \in Nat \ {0} /\ 1 \in 1 .. Len(s)
  BY EmptySeq
<1>2. /\ t \in Seq(S) /\ Len(t) = Len(s) - 1
      /\ \A i \in 1 .. Len(s) - 1 : t[i] = s[i + 1]
  BY HeadTailProperties
<1> HIDE DEF t
<1>3. h = s[1] /\ h \in S /\ h \in Chunks(s)
  BY HeadNull
<1>4. Linked(p, t, p[h])
  <2>1. ASSUME NEW i \in 1 .. Len(t)
        PROVE  p[t[i]] = IF i < Len(t) THEN t[i + 1] ELSE NULL
    <3>1. i + 1 \in 1 .. Len(s) /\ t[i] = s[i + 1]
      BY <1>1, <1>2
    <3>2. p[s[i + 1]] = IF i + 1 < Len(s) THEN s[(i + 1) + 1] ELSE NULL
      BY <3>1 DEF Linked
    <3> QED
      BY <1>1, <1>2, <3>1, <3>2
  <2>2. p[h] = IF t = <<>> THEN NULL ELSE t[1]
    <3>1. p[h] = IF 1 < Len(s) THEN s[1 + 1] ELSE NULL
      BY <1>1, <1>3 DEF Linked
    <3>2. CASE t = <<>>
      <4>1. Len(t) = 0
        BY <3>2, EmptySeq
      <4>2. Len(t) = Len(s) - 1 /\ Len(s) \in Nat
        BY <1>1, <1>2
      <4>3. Len(s) = 1
        BY <4>1, <4>2
      <4>4. p[h] = NULL
        BY <3>1, <4>3
      <4> QED
        BY <3>2, <4>4
    <3>3. CASE t # <<>>
      <4>1. Len(t) \in Nat \ {0}
        BY <1>2, <3>3, EmptySeq
      <4> QED
        BY <1>1, <1>2, <3>1, <3>3, <4>1
    <3> QED
      BY <3>2, <3>3
  <2> QED
    BY <2>1, <2>2 DEF Linked
<1>5. NoRepeats(t)
  <2> SUFFICES ASSUME NEW i \in 1 .. Len(t), NEW j \in 1 .. Len(t), t[i] = t[j]
               PROVE  i = j
    BY DEF NoRepeats
  <2>1. i + 1 \in 1 .. Len(s) /\ j + 1 \in 1 .. Len(s) /\ s[i + 1] = s[j + 1]
    BY <1>1, <1>2
  <2> QED
    BY <2>1 DEF NoRepeats
<1>6. Chunks(t) = Chunks(s) \ {h}
  <2>1. ASSUME NEW i \in 1 .. Len(t) PROVE t[i] \in Chunks(s) \ {h}
    <3>1. i + 1 \in 1 .. Len(s) /\ t[i] = s[i + 1]
      BY <1>1, <1>2
    <3>2. s[i + 1] # s[1]
      BY <1>1, <3>1 DEF NoRepeats
    <3> QED
      BY <1>3, <3>1, <3>2 DEF Chunks
  <2>2. ASSUME NEW i \in 1 .. Len(s), s[i] # h PROVE s[i] \in Chunks(t)
    <3>1. i - 1 \in 1 .. Len(t) /\ t[i - 1] = s[i]
      BY <1>1, <1>2, <1>3, <2>2
    <3> QED
      BY <3>1 DEF Chunks
  <2> QED
    BY <2>1, <2>2 DEF Chunks
<1> QED
  BY <1>2, <1>3, <1>4, <1>5, <1>6 DEF t

\* One list linked in front of another: the last header of the first, which
\* held NULL, now points to the head of the second.
LEMMA LinkInFront ==
  ASSUME NEW S, NULL \notin S, NEW p, NEW q,
         NEW s \in Seq(S), NEW g, Linked(p, s, g), NoRepeats(s), s # <<>>,
         NEW t \in Seq(S), NEW h, Linked(p, t, h), NoRepeats(t), t # <<>>,
         Chunks(s) \cap Chunks(t) = {},
         q[s[Len(s)]] = h,
         \A c \in Chunks(s) \cup Chunks(t) : c # s[Len(s)] => q[c] = p[c]
  PROVE  LET u == s \o t
         IN  /\ u \in Seq(S)
             /\ Linked(q, u, g)
             /\ NoRepeats(u)
             /\ Chunks(u) = Chunks(s) \cup Chunks(t)
<1> DEFINE u == s \o t
<1>1. Len(s) \in Nat \ {0} /\ Len(t) \in Nat \ {0}
  BY EmptySeq
<1>2. /\ u \in Seq(S) /\ Len(u) = Len(s) + Len(t)
      /\ \A i \in 1 .. Len(s) + Len(t) :
           u[i] = IF i <= Len(s) THEN s[i] ELSE t[i - Len(s)]
  BY ConcatProperties
<1> HIDE DEF u
<1>3. /\ \A i \in 1 .. Len(s) : s[i] \in Chunks(s)
      /\ \A i \in 1 .. Len(t) : t[i] \in Chunks(t)
  BY DEF Chunks
<1>4. Linked(q, u, g)
  <2>1. g = IF u = <<>> THEN NULL ELSE u[1]
    BY <1>1, <1>2 DEF Linked
  <2>2. ASSUME NEW i \in 1 .. Len(u)
        PROVE  q[u[i]] = IF i < Len(u) THEN u[i + 1] ELSE NULL
    <3>1. CASE i < Len(s)
      <4>1. i \in 1 .. Len(s) /\ Len(s) \in 1 .. Len(s) /\ u[i] = s[i] /\ u[i + 1] = s[i + 1]
        BY <1>1, <1>2, <3>1
      <4>2. s[i] # s[Len(s)]
        BY <3>1, <4>1 DEF NoRepeats
      <4>3. q[s[i]] = s[i + 1]
        BY <1>3, <3>1, <4>1, <4>2 DEF Linked
      <4> QED
        BY <1>1, <1>2, <3>1, <4>1, <4>3
    <3>2. CASE i = Len(s)
      <4>1. u[i] = s[Len(s)] /\ i < Len(u)
        BY <1>1, <1>2, <3>2
      <4>2. i + 1 \in 1 .. Len(s) + Len(t) /\ ~(i + 1 <= Len(s)) /\ i + 1 - Len(s) = 1
        BY <1>1, <3>2
      <4>3. u[i + 1] = t[1]
        BY <1>2, <4>2
      <4>4. h = t[1]
        BY DEF Linked
      <4> QED
        BY <4>1, <4>3, <4>4
    <3>3. CASE i > Len(s)
      <4>1. i - Len(s) \in 1 .. Len(t) /\ u[i] = t[i - Len(s)]
        BY <1>1, <1>2, <3>3
      <4>2. s[Len(s)] \in Chunks(s)
        BY <1>1, <1>3
      <4>3. q[t[i - Len(s)]] = p[t[i - Len(s)]]
        BY <1>3, <4>1, <4>2
      <4>4. q[u[i]] = IF i - Len(s) < Len(t) THEN t[(i - Len(s)) + 1] ELSE NULL
        BY <4>1, <4>3 DEF Linked
      <4>5. i < Len(u) => u[i + 1] = t[(i - Len(s)) + 1]
        BY <1>1, <1>2, <3>3
      <4> QED
        BY <1>1, <1>2, <4>1, <4>4, <4>5
    <3> QED
      BY <1>1, <1>2, <3>1, <3>2, <3>3
  <2> QED
    BY <2>1, <2>2 DEF Linked
<1>5. NoRepeats(u)
  <2> SUFFICES ASSUME NEW i \in 1 .. Len(u), NEW j \in 1 .. Len(u), u[i] = u[j]
               PROVE  i = j
    BY DEF NoRepeats
  <2>1. CASE i <= Len(s) /\ j <= Len(s)
    BY <1>1, <1>2, <2>1 DEF NoRepeats
  <2>2. CASE i > Len(s) /\ j > Len(s)
    <3>1. /\ i - Len(s) \in 1 .. Len(t) /\ j - Len(s) \in 1 .. Len(t)
          /\ t[i - Len(s)] = t[j - Len(s)]
      BY <1>1, <1>2, <2>2
    <3>2. i - Len(s) = j - Len(s)
      BY <3>1 DEF NoRepeats
    <3> QED
      BY <1>1, <1>2, <3>2
  <2>3. CASE i <= Len(s) /\ j > Len(s)
    <3>1. u[i] \in Chunks(s) /\ u[j] \in Chunks(t)
      BY <1>1, <1>2, <1>3, <2>3
    <3> QED
      BY <3>1
  <2>4. CASE i > Len(s) /\ j <= Len(s)
    <3>1. /\ i - Len(s) \in 1 .. Len(t) /\ u[i] = t[i - Len(s)]
          /\ j \in 1 .. Len(s) /\ u[j] = s[j]
      BY <1>1, <1>2, <2>4
    <3>2. u[i] \in Chunks(t) /\ u[j] \in Chunks(s)
      BY <1>3, <3>1
    <3> QED
      BY <3>2
  <2> QED
    BY <1>1, <1>2, <2>1, <2>2, <2>3, <2>4
<1>6. Chunks(u) = Chunks(s) \cup Chunks(t)
  <2>1. ASSUME NEW i \in 1 .. Len(u) PROVE u[i] \in Chunks(s) \cup Chunks(t)
    <3>1. CASE i <= Len(s)
      <4>1. i \in 1 .. Len(s) /\ u[i] = s[i]
        BY <1>1, <1>2, <3>1
      <4> QED
        BY <1>3, <4>1
    <3>2. CASE i > Len(s)
      <4>1. i - Len(s) \in 1 .. Len(t) /\ u[i] = t[i - Len(s)]
        BY <1>1, <1>2, <3>2
      <4> QED
        BY <1>3, <4>1
    <3> QED
      BY <1>1, <1>2, <3>1, <3>2
  <2>2. ASSUME NEW i \in 1 .. Len(s) PROVE s[i] \in Chunks(u)
    <3>1. i \in 1 .. Len(u) /\ u[i] = s[i]
      BY <1>1, <1>2
    <3> QED
      BY <3>1 DEF Chunks
  <2>3. ASSUME NEW i \in 1 .. Len(t) PROVE t[i] \in Chunks(u)
    <3>1. Len(s) + i \in 1 .. Len(u) /\ Len(s) + i > Len(s) /\ (Len(s) + i) - Len(s) = i
      BY <1>1, <1>2
    <3>2. u[Len(s) + i] = t[i]
      BY <1>1, <1>2, <3>1
    <3> QED
      BY <3>1, <3>2 DEF Chunks
  <2>4. Chunks(u) \subseteq Chunks(s) \cup Chunks(t)
    BY <2>1 DEF Chunks
  <2>5. Chunks(s) \subseteq Chunks(u) /\ Chunks(t) \subseteq Chunks(u)
    BY <2>2, <2>3 DEF Chunks
  <2> QED
    BY <2>4, <2>5
<1> QED
  BY <1>2, <1>4, <1>5, <1>6 DEF u

-----------------------------------------------------------------------------
(* Arithmetic.                                                             *)

LEMMA ModRange ==
  ASSUME NEW x \in Int, NEW a \in Nat \ {0}
  PROVE  x % a \in 0 .. a - 1
OBVIOUS

\* What a request adds to the amount stays below its alignment.
LEMMA PaddingRange ==
  ASSUME NEW r \in Request, top \in Int
  PROVE  /\ r.amount \in Nat /\ r.alignment \in Nat \ {0}
         /\ AmountAndPadding(r) \in Nat
         /\ r.amount <= AmountAndPadding(r)
         /\ AmountAndPadding(r) <= r.amount + r.alignment - 1
<1>1. r.amount \in Nat /\ r.alignment \in Nat \ {0}
  BY ArenaConstants DEF Request
<1>2. top - r.amount \in Int
  BY <1>1
<1>3. (top - r.amount) % r.alignment \in 0 .. r.alignment - 1
  BY <1>1, <1>2, ModRange
<1> QED
  BY <1>1, <1>3 DEF AmountAndPadding, senarena_extra_bytes_needed

LEMMA FreshPaddingRange ==
  ASSUME NEW alignment \in Nat \ {0}
  PROVE  senarena_extra_fresh_bytes_needed(alignment) \in Nat
<1>1. HeaderSize \in Int
  BY ArenaConstants
<1> QED
  BY <1>1, ModRange DEF senarena_extra_fresh_bytes_needed, senarena_extra_bytes_needed

-----------------------------------------------------------------------------
(* The invariant of the chunk lists.                                       *)

\* What the code relies on besides the named properties: the current chunk is
\* malloced, a running senarena_alloc_more has a request, no cursor is left
\* over, and there are no reusable chunks where there is no arena.
Locals ==
  /\ InUse => Current \in heap
  /\ pc = "alloc_more" => req \in Request
  /\ pc \notin {"free_old", "free_fresh"} => cursor = NULL
  /\ pc \in {"none", "exited"} => fresh_chunks = NULL

ChainInv == TypeOK /\ Locals /\ ChainsLinked /\ ChainsOwnHeap /\ JoinInStep

LEMMA ChainInit == Init => ChainInv
<1> SUFFICES ASSUME Init PROVE ChainInv
  OBVIOUS
<1>1. TypeOK
  <2>1. oldChain \in Seq(Addresses) /\ freshChain \in Seq(Addresses)
    BY EmptySeq DEF Init
  <2>2. ptr \in [Addresses -> Addresses \cup {NULL}] /\ capacity \in [Addresses -> Nat]
    BY DEF Init
  <2> QED
    BY <2>1, <2>2 DEF Init, TypeOK, Pcs, NULL
<1>2. Locals /\ JoinInStep
  BY DEF Init, Locals, InUse, JoinInStep
<1>3. ChainsLinked /\ ChainsOwnHeap
  BY DEF Init, ChainsLinked, ChainsOwnHeap, Linked, Chunks, NoRepeats, OldHead, FreshHead, InUse
<1> QED
  BY <1>1, <1>2, <1>3 DEF ChainInv

\* What the invariant says of the two lists while the arena is in use.
LEMMA ListsInUse ==
  ASSUME ChainInv, InUse
  PROVE  /\ NULL \notin Addresses
         /\ oldChain \in Seq(Addresses) /\ freshChain \in Seq(Addresses)
         /\ Linked(ptr, oldChain, Current) /\ Linked(ptr, freshChain, fresh_chunks)
         /\ NoRepeats(oldChain) /\ NoRepeats(freshChain)
         /\ Current \in Addresses /\ Current \in heap /\ oldChain # <<>>
         /\ Current \in Chunks(oldChain) /\ Current \notin Chunks(freshChain)
         /\ ptr[Current] \in Addresses \cup {NULL}
<1>1. /\ NULL \notin Addresses /\ TypeOK
      /\ oldChain \in Seq(Addresses) /\ freshChain \in Seq(Addresses)
      /\ Current \in heap /\ Current \in Addresses
  BY ArenaConstants DEF ChainInv, TypeOK, Locals
<1>2. Linked(ptr, oldChain, Current) /\ Linked(ptr, freshChain, fresh_chunks)
  BY DEF ChainInv, ChainsLinked, OldHead, FreshHead, InUse
<1>3. oldChain # <<>> /\ Current \in Chunks(oldChain)
  BY <1>1, <1>2, HeadNull
<1> QED
  BY <1>1, <1>2, <1>3 DEF ChainInv, ChainsOwnHeap, TypeOK

\* A block malloc returns is none of those still allocated.
LEMMA MallocIsNew ==
  ASSUME TypeOK, NEW chunk, NEW size \in Nat, MayReturn(chunk, size)
  PROVE  chunk \in Addresses /\ chunk \notin heap
<1> SUFFICES ASSUME chunk \in heap PROVE FALSE
  BY DEF MayReturn
<1>1. /\ chunk \in Nat /\ HeaderSize \in Nat \ {0} /\ capacity[chunk] \in Nat
  BY ArenaConstants DEF TypeOK
<1>2. chunk + HeaderSize + size <= chunk \/ chunk + HeaderSize + capacity[chunk] <= chunk
  BY DEF MayReturn, End
<1> QED
  BY <1>1, <1>2

\* Steps that leave heap and both sequences alone.
LEMMA OwnHeapFrame ==
  ASSUME ChainInv, UNCHANGED <<heap, oldChain, freshChain>>
  PROVE  ChainsOwnHeap'
<1>1. ChainsOwnHeap /\ heap' = heap /\ oldChain' = oldChain /\ freshChain' = freshChain
  BY DEF ChainInv
<1> QED
  BY <1>1 DEF ChainsOwnHeap, Chunks, NoRepeats

\* Steps that leave both lists alone and stay inside the use of the arena.
LEMMA ListsUntouched ==
  ASSUME ChainInv, InUse, InUse',
         UNCHANGED <<bottom, fresh_chunks, heapVars, cursor, chainVars>>
  PROVE  ChainsLinked' /\ ChainsOwnHeap' /\ (Current \in heap)'
<1>1. ChainsLinked'
  BY DEF ChainInv, ChainsLinked, OldHead, FreshHead, InUse, Current, heapVars, chainVars, Linked
<1>2. ChainsOwnHeap'
  BY OwnHeapFrame DEF heapVars, chainVars
<1>3. (Current \in heap)'
  BY DEF ChainInv, Locals, Current, heapVars
<1> QED
  BY <1>1, <1>2, <1>3

LEMMA HandOutType ==
  ASSUME NEW address \in Int, NEW r \in Request, live \subseteq Region, HandOut(address, r)
  PROVE  live' \subseteq Region
BY DEF HandOut, Region, Request

\* A list of one chunk.
LEMMA OneChunk ==
  ASSUME NEW S, NEW c \in S, NEW q, q[c] = NULL
  PROVE  /\ <<c>> \in Seq(S) /\ <<c>> # <<>>
         /\ Linked(q, <<c>>, c) /\ NoRepeats(<<c>>) /\ Chunks(<<c>>) = {c}
BY DEF Linked, NoRepeats, Chunks

-----------------------------------------------------------------------------
(* The calls that change no list: one lemma per action.                    *)

LEMMA AllocFastChains ==
  ASSUME ChainInv, NEW r \in Request, AllocFast(r)
  PROVE  ChainInv'
<1>1. TypeOK /\ Locals
  BY DEF ChainInv
<1>2. InUse /\ InUse' /\ UNCHANGED <<pc, bottom, fresh_chunks, heapVars, cursor, chainVars>>
  BY DEF AllocFast, InUse
<1>3. ChainsLinked' /\ ChainsOwnHeap' /\ (Current \in heap)'
  BY <1>2, ListsUntouched
<1>4. top' \in Int
  BY <1>1, PaddingRange DEF AllocFast, TypeOK
<1>5. live' \subseteq Region
  BY <1>1, <1>4, HandOutType DEF AllocFast, TypeOK
<1>6. TypeOK'
  BY <1>1, <1>4, <1>5 DEF AllocFast, TypeOK, heapVars, joinVars, chainVars
<1>7. Locals' /\ JoinInStep'
  BY <1>1, <1>2, <1>3 DEF AllocFast, Locals, InUse, JoinInStep, heapVars, joinVars, chainVars
<1> QED
  BY <1>3, <1>6, <1>7 DEF ChainInv

LEMMA AllocSlowChains ==
  ASSUME ChainInv, NEW r \in Request, AllocSlow(r)
  PROVE  ChainInv'
<1>1. TypeOK /\ Locals
  BY DEF ChainInv
<1>2. InUse /\ InUse' /\ UNCHANGED <<bottom, fresh_chunks, heapVars, cursor, chainVars>>
  BY DEF AllocSlow, InUse, arenaVars
<1>3. ChainsLinked' /\ ChainsOwnHeap' /\ (Current \in heap)'
  BY <1>2, ListsUntouched
<1>4. TypeOK'
  BY <1>1 DEF AllocSlow, TypeOK, Pcs, arenaVars, heapVars, joinVars, chainVars
<1>5. Locals' /\ JoinInStep'
  BY <1>1, <1>2, <1>3 DEF AllocSlow, Locals, InUse, JoinInStep, arenaVars, heapVars
<1> QED
  BY <1>3, <1>4, <1>5 DEF ChainInv

LEMMA MoreFitsChains ==
  ASSUME ChainInv, MoreFits
  PROVE  ChainInv'
<1>1. TypeOK /\ Locals
  BY DEF ChainInv
<1>2. InUse /\ InUse' /\ UNCHANGED <<bottom, fresh_chunks, heapVars, cursor, chainVars>>
  BY DEF MoreFits, InUse
<1>3. ChainsLinked' /\ ChainsOwnHeap' /\ (Current \in heap)'
  BY <1>2, ListsUntouched
<1>4. req \in Request /\ top' \in Int
  BY <1>1, PaddingRange DEF MoreFits, TypeOK, Locals
<1>5. live' \subseteq Region
  BY <1>1, <1>4, HandOutType DEF MoreFits, TypeOK
<1>6. TypeOK'
  BY <1>1, <1>4, <1>5 DEF MoreFits, TypeOK, Pcs, heapVars, joinVars, chainVars
<1>7. Locals' /\ JoinInStep'
  BY <1>1, <1>2, <1>3 DEF MoreFits, Locals, InUse, JoinInStep, heapVars
<1> QED
  BY <1>3, <1>6, <1>7 DEF ChainInv

LEMMA ClearJoinChains ==
  ASSUME ChainInv, ClearJoin
  PROVE  ChainInv'
<1>1. TypeOK /\ Locals
  BY DEF ChainInv
<1>2. InUse /\ InUse' /\ UNCHANGED <<bottom, fresh_chunks, heapVars, cursor, chainVars>>
  BY DEF ClearJoin, InUse
<1>3. ChainsLinked' /\ ChainsOwnHeap' /\ (Current \in heap)'
  BY <1>2, ListsUntouched
<1>4. /\ NULL \notin Addresses
      /\ oldChain \in Seq(Addresses) /\ freshChain \in Seq(Addresses)
      /\ Linked(ptr, oldChain, Current) /\ Linked(ptr, freshChain, fresh_chunks)
      /\ NoRepeats(oldChain) /\ oldChain # <<>>
      /\ Current \in Addresses /\ ptr[Current] \in Addresses \cup {NULL}
  BY <1>2, ListsInUse
<1>5. fresh_chunks # NULL /\ ptr[Current] # NULL
  BY DEF ClearJoin
<1>6. fresh_chunks = freshChain[1] /\ 1 \in 1 .. Len(freshChain) /\ fresh_chunks \in Addresses
  <2>1. freshChain # <<>>
    BY <1>4, <1>5, HeadNull
  <2>2. Len(freshChain) \in Nat \ {0}
    BY <1>4, <2>1, EmptySeq
  <2> QED
    BY <1>4, <2>1, <2>2, HeadNull
<1>7. ptr[Current] = oldChain[2] /\ 2 \in 1 .. Len(oldChain)
  <2>1. Len(oldChain) \in Nat \ {0} /\ Current = oldChain[1]
    BY <1>4, EmptySeq, HeadNull
  <2>2. ptr[Current] = IF 1 < Len(oldChain) THEN oldChain[1 + 1] ELSE NULL
    BY <1>4, <2>1 DEF Linked
  <2> QED
    BY <1>5, <2>1, <2>2
<1>8. TypeOK'
  <2>1. {ptr[fresh_chunks], ptr[ptr[Current]], ptr[Current]} \subseteq Addresses \cup {NULL}
    BY <1>1, <1>4, <1>5, <1>6 DEF TypeOK
  <2>2. top' \in Int
    <3>1. HeaderSize \in Int /\ capacity[Current] \in Int /\ Current \in Int
      BY <1>1, <1>4, ArenaConstants DEF TypeOK
    <3> QED
      BY <3>1 DEF ClearJoin, End
  <2> QED
    BY <1>1, <2>1, <2>2 DEF ClearJoin, TypeOK, Pcs, heapVars, chainVars
<1>9. JoinInStep'
  <2>1. /\ 1 \in 1 .. Len(freshChain') /\ 1 + 1 \in 1 .. Len(oldChain')
        /\ curr_a' = freshChain'[1] /\ curr_b' = oldChain'[1 + 1]
        /\ next_a' = ptr'[curr_a'] /\ next_b' = ptr'[curr_b']
    BY <1>6, <1>7 DEF ClearJoin, heapVars, chainVars
  <2> QED
    BY <2>1 DEF JoinInStep
<1>10. Locals'
  BY <1>1, <1>2, <1>3 DEF ClearJoin, Locals, InUse, heapVars
<1> QED
  BY <1>3, <1>8, <1>9, <1>10 DEF ChainInv

LEMMA JoinStepChains ==
  ASSUME ChainInv, JoinStep
  PROVE  ChainInv'
<1>1. TypeOK /\ Locals
  BY DEF ChainInv
<1>2. InUse /\ InUse' /\ UNCHANGED <<pc, bottom, fresh_chunks, heapVars, cursor, chainVars>>
  BY DEF JoinStep, InUse, arenaVars
<1>3. ChainsLinked' /\ ChainsOwnHeap' /\ (Current \in heap)'
  BY <1>2, ListsUntouched
<1>4. TypeOK'
  <2>1. {ptr[next_a], ptr[next_b]} \subseteq Addresses \cup {NULL}
    BY <1>1 DEF JoinStep, TypeOK
  <2> QED
    BY <1>1, <2>1 DEF JoinStep, TypeOK, arenaVars, heapVars, chainVars
<1>5. JoinInStep'
  <2>1. PICK k \in 1 .. Len(freshChain) :
          /\ k + 1 \in 1 .. Len(oldChain)
          /\ curr_a = freshChain[k] /\ curr_b = oldChain[k + 1]
          /\ next_a = ptr[curr_a] /\ next_b = ptr[curr_b]
    BY DEF JoinStep, ChainInv, JoinInStep
  <2>2. Linked(ptr, oldChain, Current) /\ Linked(ptr, freshChain, fresh_chunks)
    BY <1>2, ListsInUse
  <2>3. Len(freshChain) \in Nat /\ Len(oldChain) \in Nat
    BY <1>1, LenProperties DEF TypeOK
  <2>4. next_a = freshChain[k + 1] /\ k + 1 \in 1 .. Len(freshChain)
    <3>1. ptr[freshChain[k]] = IF k < Len(freshChain) THEN freshChain[k + 1] ELSE NULL
      BY <2>1, <2>2 DEF Linked
    <3> QED
      BY <2>1, <2>3, <3>1 DEF JoinStep
  <2>5. next_b = oldChain[(k + 1) + 1] /\ (k + 1) + 1 \in 1 .. Len(oldChain)
    <3>1. ptr[oldChain[k + 1]] = IF k + 1 < Len(oldChain) THEN oldChain[(k + 1) + 1] ELSE NULL
      BY <2>1, <2>2 DEF Linked
    <3> QED
      BY <2>1, <2>3, <3>1 DEF JoinStep
  <2> QED
    BY <2>4, <2>5 DEF JoinStep, JoinInStep, heapVars, chainVars
<1>6. Locals'
  BY <1>1, <1>2, <1>3 DEF JoinStep, Locals, InUse, arenaVars, heapVars
<1> QED
  BY <1>3, <1>4, <1>5, <1>6 DEF ChainInv

-----------------------------------------------------------------------------
(* The calls that change a list.                                           *)

\* What senarena_chunk_new and the updates around it leave of the types.
LEMMA NewChunk ==
  ASSUME TypeOK, NEW chunk, NEW size \in Nat, NEW p \in Addresses \cup {NULL},
         senarena_chunk_new(chunk, size, p)
  PROVE  /\ chunk \in Addresses /\ chunk \notin heap
         /\ heap' = heap \cup {chunk} /\ heap' \subseteq Addresses
         /\ ptr' \in [Addresses -> Addresses \cup {NULL}]
         /\ capacity' \in [Addresses -> Nat]
         /\ ptr'[chunk] = p
         /\ \A c \in Addresses : c # chunk => ptr'[c] = ptr[c]
BY MallocIsNew DEF senarena_chunk_new, TypeOK

LEMMA NewChains ==
  ASSUME ChainInv, New
  PROVE  ChainInv'
<1>1. TypeOK /\ Locals /\ NULL \notin Addresses
  BY ArenaConstants DEF ChainInv
<1>2. oldChain = <<>> /\ freshChain = <<>> /\ heap = {}
  <2>1. oldChain \in Seq(Addresses) /\ freshChain \in Seq(Addresses) /\ heap \subseteq Addresses
    BY <1>1 DEF TypeOK
  <2>2. Linked(ptr, oldChain, NULL) /\ Linked(ptr, freshChain, NULL)
    BY <1>1 DEF ChainInv, ChainsLinked, New, OldHead, FreshHead, InUse, Locals
  <2>3. oldChain = <<>> /\ freshChain = <<>>
    BY <1>1, <2>1, <2>2, HeadNull
  <2> QED
    BY <2>3 DEF ChainInv, ChainsOwnHeap, Chunks
<1>3. PICK chunk \in Addresses :
        /\ senarena_chunk_new(chunk, DefaultChunkSize, NULL)
        /\ bottom' = chunk + HeaderSize
        /\ top' = chunk + HeaderSize + DefaultChunkSize
        /\ oldChain' = <<chunk>>
  BY DEF New
<1>4. /\ heap' = {chunk}
      /\ ptr' \in [Addresses -> Addresses \cup {NULL}]
      /\ capacity' \in [Addresses -> Nat]
      /\ ptr'[chunk] = NULL
  BY <1>1, <1>2, <1>3, NewChunk, ArenaConstants
<1>5. /\ oldChain' \in Seq(Addresses) /\ Linked(ptr', oldChain', chunk)
      /\ NoRepeats(oldChain') /\ Chunks(oldChain') = {chunk}
  BY <1>3, <1>4, OneChunk
<1>6. chunk \in Nat /\ HeaderSize \in Nat /\ DefaultChunkSize \in Nat /\ Current' = chunk
  BY <1>3, ArenaConstants DEF Current
<1>7. TypeOK'
  BY <1>1, <1>2, <1>3, <1>4, <1>5, <1>6 DEF New, TypeOK, Pcs, joinVars
<1>8. ChainsLinked'
  <2>1. OldHead' = chunk /\ FreshHead' = NULL
    BY <1>6 DEF New, OldHead, FreshHead, InUse
  <2>2. Linked(ptr', freshChain', NULL)
    BY DEF New, Linked
  <2> QED
    BY <1>5, <2>1, <2>2 DEF ChainsLinked
<1>9. ChainsOwnHeap'
  <2>1. Chunks(freshChain') = {} /\ NoRepeats(freshChain')
    BY DEF New, Chunks, NoRepeats
  <2> QED
    BY <1>4, <1>5, <2>1 DEF ChainsOwnHeap
<1>10. Locals' /\ JoinInStep'
  BY <1>1, <1>4, <1>6 DEF New, Locals, JoinInStep, InUse
<1> QED
  BY <1>7, <1>8, <1>9, <1>10 DEF ChainInv

LEMMA MoreLargeChains ==
  ASSUME ChainInv, MoreLarge
  PROVE  ChainInv'
<1> DEFINE extra == senarena_extra_fresh_bytes_needed(req.alignment)
           size  == req.amount + extra
           rest  == Tail(oldChain)
<1>1. TypeOK /\ Locals /\ InUse /\ req \in Request
  BY DEF ChainInv, MoreLarge, InUse, Locals
<1>2. /\ NULL \notin Addresses
      /\ oldChain \in Seq(Addresses) /\ freshChain \in Seq(Addresses)
      /\ Linked(ptr, oldChain, Current) /\ Linked(ptr, freshChain, fresh_chunks)
      /\ NoRepeats(oldChain) /\ NoRepeats(freshChain)
      /\ Current \in Addresses /\ Current \in heap /\ oldChain # <<>>
      /\ Current \in Chunks(oldChain) /\ Current \notin Chunks(freshChain)
      /\ ptr[Current] \in Addresses \cup {NULL}
  BY <1>1, ListsInUse
<1>3. size \in Nat /\ extra \in Nat
  <2>1. req.amount \in Nat /\ req.alignment \in Nat \ {0}
    BY <1>1, ArenaConstants DEF Request
  <2>2. extra \in Nat
    BY <2>1, FreshPaddingRange
  <2> QED
    BY <2>1, <2>2
<1>4. PICK chunk \in Addresses :
        /\ MayReturn(chunk, size)
        /\ heap' = heap \cup {chunk}
        /\ ptr' = [ptr EXCEPT ![chunk] = ptr[Current], ![Current] = chunk]
        /\ capacity' = [capacity EXCEPT ![chunk] = size]
        /\ HandOut(chunk + HeaderSize + extra, req)
        /\ oldChain' = <<Current>> \o (<<chunk>> \o Tail(oldChain))
  BY DEF MoreLarge
<1> HIDE DEF extra, size, rest
<1>5. chunk \notin heap /\ chunk # Current
  BY <1>1, <1>2, <1>3, <1>4, MallocIsNew
<1>6. /\ rest \in Seq(Addresses)
      /\ Linked(ptr, rest, ptr[Current]) /\ NoRepeats(rest)
      /\ Chunks(rest) = Chunks(oldChain) \ {Current}
  BY <1>2, PopFront DEF rest
<1>7. /\ ptr'[chunk] = ptr[Current] /\ ptr'[Current] = chunk
      /\ \A c \in Addresses : c \notin {chunk, Current} => ptr'[c] = ptr[c]
      /\ ptr' \in [Addresses -> Addresses \cup {NULL}]
      /\ capacity' \in [Addresses -> Nat]
  BY <1>1, <1>2, <1>3, <1>4, <1>5 DEF TypeOK
<1>8. /\ heap \subseteq Addresses /\ Chunks(oldChain) \subseteq heap /\ Chunks(freshChain) \subseteq heap
      /\ heap = Chunks(oldChain) \cup Chunks(freshChain)
      /\ Chunks(oldChain) \cap Chunks(freshChain) = {}
  BY <1>1 DEF ChainInv, ChainsOwnHeap, TypeOK
<1> DEFINE behind == <<chunk>> \o rest
<1>9. /\ behind \in Seq(Addresses) /\ Linked(ptr', behind, chunk) /\ NoRepeats(behind)
      /\ Chunks(behind) = {chunk} \cup Chunks(rest)
  <2>1. chunk \notin Chunks(rest)
    BY <1>5, <1>6, <1>8
  <2>2. \A c \in Chunks(rest) : ptr'[c] = ptr[c]
    BY <1>5, <1>6, <1>7, <1>8
  <2>3. Linked(ptr', rest, ptr[Current])
    BY <1>6, <2>2, LinkedFrame
  <2>4. ptr'[chunk] = ptr[Current] /\ rest \in Seq(Addresses) /\ NoRepeats(rest) /\ NULL \notin Addresses
    BY <1>2, <1>6, <1>7
  <2> QED
    BY <2>1, <2>3, <2>4, PushFront
<1> HIDE DEF behind
<1>10. /\ oldChain' \in Seq(Addresses) /\ Linked(ptr', oldChain', Current)
       /\ NoRepeats(oldChain') /\ Chunks(oldChain') = {Current, chunk} \cup Chunks(rest)
  <2>1. Current \notin Chunks(behind)
    BY <1>5, <1>6, <1>9
  <2>2. oldChain' = <<Current>> \o behind
    BY <1>4 DEF behind, rest
  <2>3. ptr'[Current] = chunk /\ Current \in Addresses /\ NULL \notin Addresses
    BY <1>2, <1>7
  <2>4. behind \in Seq(Addresses) /\ Linked(ptr', behind, chunk) /\ NoRepeats(behind)
    BY <1>9
  <2> QED
    BY <1>9, <2>1, <2>2, <2>3, <2>4, PushFront, SMTT(60)
<1>11. Linked(ptr', freshChain, fresh_chunks)
  <2>1. \A c \in Chunks(freshChain) : ptr'[c] = ptr[c]
    BY <1>2, <1>5, <1>7, <1>8
  <2> QED
    BY <1>2, <2>1, LinkedFrame
<1>12. /\ pc' = "idle" /\ req' = NoRequest /\ Current' = Current
       /\ UNCHANGED <<arenaVars, joinVars, cursor, freshChain>>
  BY DEF MoreLarge, Current, arenaVars
<1>13. TypeOK'
  <2>1. chunk + HeaderSize + extra \in Int
    BY <1>3, <1>4, ArenaConstants
  <2>2. live' \subseteq Region
    BY <1>1, <1>4, <2>1, HandOutType DEF TypeOK
  <2> QED
    BY <1>1, <1>4, <1>7, <1>8, <1>10, <1>12, <2>2 DEF TypeOK, Pcs, arenaVars, joinVars
<1>14. ChainsLinked'
  BY <1>10, <1>11, <1>12 DEF ChainsLinked, OldHead, FreshHead, InUse, arenaVars
<1>15. ChainsOwnHeap'
  <2>1. heap' = Chunks(oldChain') \cup Chunks(freshChain')
    BY <1>2, <1>4, <1>6, <1>8, <1>10, <1>12
  <2>2. Chunks(oldChain') \cap Chunks(freshChain') = {}
    BY <1>2, <1>5, <1>6, <1>8, <1>10, <1>12
  <2> QED
    BY <1>2, <1>10, <1>12, <2>1, <2>2 DEF ChainsOwnHeap
<1>16. Locals' /\ JoinInStep'
  BY <1>1, <1>2, <1>4, <1>12 DEF Locals, JoinInStep, InUse, arenaVars
<1> QED
  BY <1>13, <1>14, <1>15, <1>16 DEF ChainInv

LEMMA MoreReuseChains ==
  ASSUME ChainInv, MoreReuse
  PROVE  ChainInv'
<1> DEFINE next == fresh_chunks
<1>1. TypeOK /\ Locals /\ InUse /\ req \in Request
  BY DEF ChainInv, MoreReuse, InUse, Locals
<1>2. /\ NULL \notin Addresses
      /\ oldChain \in Seq(Addresses) /\ freshChain \in Seq(Addresses)
      /\ Linked(ptr, oldChain, Current) /\ Linked(ptr, freshChain, next)
      /\ NoRepeats(oldChain) /\ NoRepeats(freshChain)
      /\ Current \in Addresses /\ oldChain # <<>>
      /\ heap = Chunks(oldChain) \cup Chunks(freshChain)
      /\ Chunks(oldChain) \cap Chunks(freshChain) = {}
  BY <1>1, ListsInUse DEF ChainInv, ChainsOwnHeap
<1>3. /\ next # NULL /\ next \in Addresses
      /\ fresh_chunks' = ptr[next]
      /\ ptr' = [ptr EXCEPT ![next] = Current]
      /\ top' = End(next)
      /\ bottom' = next + HeaderSize
      /\ oldChain' = <<next>> \o oldChain
      /\ freshChain' = Tail(freshChain)
      /\ UNCHANGED <<pc, heap, capacity, req, joinVars, cursor, live>>
  BY <1>1 DEF MoreReuse, TypeOK
<1>4. freshChain # <<>>
  BY <1>2, <1>3, HeadNull
<1> HIDE DEF next
<1>5. /\ freshChain' \in Seq(Addresses)
      /\ Linked(ptr, freshChain', ptr[next]) /\ NoRepeats(freshChain')
      /\ Chunks(freshChain') = Chunks(freshChain) \ {next}
      /\ next \in Chunks(freshChain)
  BY <1>2, <1>3, <1>4, PopFront
<1>6. /\ ptr'[next] = Current
      /\ \A c \in Addresses : c # next => ptr'[c] = ptr[c]
      /\ ptr' \in [Addresses -> Addresses \cup {NULL}]
      /\ fresh_chunks' \in Addresses \cup {NULL}
      /\ heap \subseteq Addresses
  BY <1>1, <1>2, <1>3 DEF TypeOK
<1>7. Linked(ptr', freshChain', fresh_chunks')
  <2>1. \A c \in Chunks(freshChain') : ptr'[c] = ptr[c]
    BY <1>2, <1>5, <1>6
  <2> QED
    BY <1>3, <1>5, <2>1, LinkedFrame
<1>8. /\ oldChain' \in Seq(Addresses) /\ Linked(ptr', oldChain', next)
      /\ NoRepeats(oldChain') /\ Chunks(oldChain') = {next} \cup Chunks(oldChain)
  <2>1. next \notin Chunks(oldChain) /\ \A c \in Chunks(oldChain) : ptr'[c] = ptr[c]
    BY <1>2, <1>5, <1>6
  <2>2. Linked(ptr', oldChain, Current)
    BY <1>2, <2>1, LinkedFrame
  <2>3. /\ ptr'[next] = Current /\ next \in Addresses /\ NULL \notin Addresses
        /\ oldChain \in Seq(Addresses) /\ NoRepeats(oldChain)
    BY <1>2, <1>3, <1>6
  <2>4. oldChain' = <<next>> \o oldChain
    BY <1>3
  <2> QED
    BY <2>1, <2>2, <2>3, <2>4, PushFront
<1>9. Current' = next /\ top' \in Int /\ bottom' \in Int
  <2>1. next \in Int /\ HeaderSize \in Int /\ capacity[next] \in Int
    BY <1>1, <1>3, ArenaConstants DEF TypeOK
  <2> QED
    BY <1>3, <2>1 DEF Current, End
<1>10. TypeOK'
  BY <1>1, <1>3, <1>5, <1>6, <1>8, <1>9 DEF TypeOK, joinVars
<1>11. ChainsLinked'
  BY <1>1, <1>3, <1>7, <1>8, <1>9 DEF MoreReuse, ChainsLinked, OldHead, FreshHead, InUse
<1>12. ChainsOwnHeap'
  BY <1>2, <1>3, <1>5, <1>8 DEF ChainsOwnHeap
<1>13. Locals' /\ JoinInStep'
  BY <1>1, <1>2, <1>3, <1>5, <1>9 DEF MoreReuse, Locals, JoinInStep, InUse
<1> QED
  BY <1>10, <1>11, <1>12, <1>13 DEF ChainInv

LEMMA MoreNewChains ==
  ASSUME ChainInv, MoreNew
  PROVE  ChainInv'
<1>1. TypeOK /\ Locals /\ InUse /\ req \in Request /\ top \in Int
  BY DEF ChainInv, MoreNew, InUse, Locals, TypeOK
<1>2. /\ NULL \notin Addresses
      /\ oldChain \in Seq(Addresses) /\ freshChain \in Seq(Addresses)
      /\ Linked(ptr, oldChain, Current) /\ Linked(ptr, freshChain, fresh_chunks)
      /\ NoRepeats(oldChain) /\ NoRepeats(freshChain)
      /\ Current \in Addresses
      /\ heap = Chunks(oldChain) \cup Chunks(freshChain)
      /\ Chunks(oldChain) \cap Chunks(freshChain) = {}
  BY <1>1, ListsInUse DEF ChainInv, ChainsOwnHeap
<1>3. PICK chunk \in Addresses :
        /\ senarena_chunk_new(chunk, DefaultChunkSize, Current)
        /\ bottom' = chunk + HeaderSize
        /\ top' = bottom' + DefaultChunkSize - AmountAndPadding(req)
        /\ oldChain' = <<chunk>> \o oldChain
  BY DEF MoreNew
<1>4. /\ chunk \notin heap
      /\ heap' = heap \cup {chunk} /\ heap' \subseteq Addresses
      /\ ptr' \in [Addresses -> Addresses \cup {NULL}]
      /\ capacity' \in [Addresses -> Nat]
      /\ ptr'[chunk] = Current
      /\ \A c \in Addresses : c # chunk => ptr'[c] = ptr[c]
  BY <1>1, <1>2, <1>3, NewChunk, ArenaConstants
<1>5. \A c \in heap : ptr'[c] = ptr[c]
  BY <1>1, <1>4 DEF TypeOK
<1>6. Linked(ptr', freshChain, fresh_chunks)
  BY <1>2, <1>5, LinkedFrame
<1>7. /\ oldChain' \in Seq(Addresses) /\ Linked(ptr', oldChain', chunk)
      /\ NoRepeats(oldChain') /\ Chunks(oldChain') = {chunk} \cup Chunks(oldChain)
  <2>1. chunk \notin Chunks(oldChain) /\ Linked(ptr', oldChain, Current)
    BY <1>2, <1>4, <1>5, LinkedFrame
  <2> QED
    BY <1>2, <1>3, <1>4, <2>1, PushFront
<1>8. /\ pc' = "idle" /\ req' = NoRequest
      /\ HandOut(top', req)
      /\ UNCHANGED <<fresh_chunks, joinVars, cursor, freshChain>>
  BY DEF MoreNew
<1>9. Current' = chunk /\ top' \in Int /\ bottom' \in Int
  <2>1. /\ chunk \in Int /\ HeaderSize \in Int /\ DefaultChunkSize \in Int
        /\ AmountAndPadding(req) \in Int
    BY <1>1, <1>3, PaddingRange, ArenaConstants
  <2> QED
    BY <1>3, <2>1 DEF Current
<1>10. TypeOK'
  <2>1. live' \subseteq Region
    BY <1>1, <1>8, <1>9, HandOutType DEF TypeOK
  <2> QED
    BY <1>1, <1>4, <1>7, <1>8, <1>9, <2>1 DEF TypeOK, Pcs, joinVars
<1>11. ChainsLinked'
  BY <1>6, <1>7, <1>8, <1>9 DEF ChainsLinked, OldHead, FreshHead, InUse
<1>12. ChainsOwnHeap'
  BY <1>2, <1>4, <1>7, <1>8 DEF ChainsOwnHeap
<1>13. Locals' /\ JoinInStep'
  BY <1>1, <1>4, <1>8, <1>9 DEF Locals, JoinInStep, InUse
<1> QED
  BY <1>10, <1>11, <1>12, <1>13 DEF ChainInv

LEMMA MallocFailsChains ==
  ASSUME ChainInv, MallocFails
  PROVE  ChainInv'
<1>1. TypeOK /\ Locals
  BY DEF ChainInv
<1>2. /\ pc' = "exited" /\ cursor' = NULL
      /\ top' = NULL /\ bottom' = NULL /\ fresh_chunks' = NULL
      /\ heap' = {} /\ live' = {} /\ req' = NoRequest
      /\ ptr' = [c \in Addresses |-> NULL]
      /\ capacity' = [c \in Addresses |-> 0]
      /\ oldChain' = <<>> /\ freshChain' = <<>>
      /\ UNCHANGED joinVars
  BY <1>1 DEF MallocFails, Locals
<1>3. TypeOK'
  <2>1. oldChain' \in Seq(Addresses) /\ freshChain' \in Seq(Addresses)
    BY <1>2, EmptySeq
  <2>2. ptr' \in [Addresses -> Addresses \cup {NULL}] /\ capacity' \in [Addresses -> Nat]
    BY <1>2
  <2> QED
    BY <1>1, <1>2, <2>1, <2>2 DEF TypeOK, Pcs, NULL, joinVars
<1>4. ChainsLinked' /\ ChainsOwnHeap'
  BY <1>2 DEF ChainsLinked, ChainsOwnHeap, OldHead, FreshHead, InUse, Linked, Chunks, NoRepeats
<1>5. Locals' /\ JoinInStep'
  BY <1>2 DEF Locals, JoinInStep, InUse
<1> QED
  BY <1>3, <1>4, <1>5 DEF ChainInv

\* One list empty: the join is the other one.
LEMMA ClearDirectChains ==
  ASSUME ChainInv, ClearDirect
  PROVE  ChainInv'
<1> DEFINE rest == Tail(oldChain)
           joined == IF fresh_chunks = NULL THEN ptr[Current] ELSE fresh_chunks
<1>1. TypeOK /\ Locals /\ InUse
  BY DEF ChainInv, ClearDirect, InUse
<1>2. /\ NULL \notin Addresses
      /\ oldChain \in Seq(Addresses) /\ freshChain \in Seq(Addresses)
      /\ Linked(ptr, oldChain, Current) /\ Linked(ptr, freshChain, fresh_chunks)
      /\ NoRepeats(oldChain) /\ NoRepeats(freshChain)
      /\ Current \in Addresses /\ Current \in heap /\ oldChain # <<>>
      /\ Current \in Chunks(oldChain) /\ Current \notin Chunks(freshChain)
      /\ ptr[Current] \in Addresses \cup {NULL}
      /\ heap = Chunks(oldChain) \cup Chunks(freshChain)
      /\ Chunks(oldChain) \cap Chunks(freshChain) = {}
  BY <1>1, ListsInUse DEF ChainInv, ChainsOwnHeap
<1>3. /\ fresh_chunks = NULL \/ ptr[Current] = NULL
      /\ top' = End(Current)
      /\ live' = {}
      /\ fresh_chunks' = joined
      /\ oldChain' = <<Current>>
      /\ freshChain' = IF Len(freshChain) < Len(oldChain)
                       THEN freshChain \o rest ELSE rest \o freshChain
      /\ ptr' = [ptr EXCEPT ![Current] = NULL]
      /\ UNCHANGED <<pc, bottom, heap, capacity, req, joinVars, cursor>>
  BY DEF ClearDirect, Cleared
<1>4. /\ rest \in Seq(Addresses)
      /\ Linked(ptr, rest, ptr[Current]) /\ NoRepeats(rest)
      /\ Chunks(rest) = Chunks(oldChain) \ {Current}
  BY <1>2, PopFront
<1> HIDE DEF rest
<1>5. /\ freshChain' \in Seq(Addresses)
      /\ Linked(ptr, freshChain', joined) /\ NoRepeats(freshChain')
      /\ Chunks(freshChain') = Chunks(freshChain) \cup Chunks(rest)
  <2>1. CASE fresh_chunks = NULL
    <3>1. freshChain = <<>> /\ Chunks(freshChain) = {}
      BY <1>2, <2>1, HeadNull DEF Chunks
    <3>2. freshChain' = rest
      BY <1>3, <1>4, <3>1, ConcatEmptySeq
    <3> QED
      BY <1>4, <2>1, <3>1, <3>2
  <2>2. CASE fresh_chunks # NULL
    <3>1. ptr[Current] = NULL
      BY <1>3, <2>2
    <3>2. rest = <<>> /\ Chunks(rest) = {}
      BY <1>2, <1>4, <3>1, HeadNull DEF Chunks
    <3>3. freshChain' = freshChain
      BY <1>2, <1>3, <3>2, ConcatEmptySeq
    <3> QED
      BY <1>2, <2>2, <3>2, <3>3
  <2> QED
    BY <2>1, <2>2
<1>6. /\ ptr'[Current] = NULL
      /\ \A c \in Addresses : c # Current => ptr'[c] = ptr[c]
      /\ ptr' \in [Addresses -> Addresses \cup {NULL}]
      /\ heap \subseteq Addresses
      /\ joined \in Addresses \cup {NULL}
  BY <1>1, <1>2, <1>3 DEF TypeOK
<1> HIDE DEF joined
<1>7. Linked(ptr', freshChain', joined)
  <2>1. \A c \in Chunks(freshChain') : ptr'[c] = ptr[c]
    BY <1>2, <1>4, <1>5, <1>6
  <2> QED
    BY <1>5, <2>1, LinkedFrame
<1>8. /\ oldChain' \in Seq(Addresses) /\ Linked(ptr', oldChain', Current)
      /\ NoRepeats(oldChain') /\ Chunks(oldChain') = {Current}
  BY <1>2, <1>3, <1>6, OneChunk
<1>9. Current' = Current
  BY <1>3 DEF Current
<1>10. TypeOK'
  <2>1. top' \in Int
    <3>1. HeaderSize \in Int /\ capacity[Current] \in Int /\ Current \in Int
      BY <1>1, <1>2, ArenaConstants DEF TypeOK
    <3> QED
      BY <1>3, <3>1 DEF End
  <2> QED
    BY <1>1, <1>3, <1>5, <1>6, <1>8, <2>1 DEF TypeOK, joinVars
<1>11. ChainsLinked'
  BY <1>3, <1>7, <1>8, <1>9 DEF ClearDirect, ChainsLinked, OldHead, FreshHead, InUse
<1>12. ChainsOwnHeap'
  BY <1>2, <1>3, <1>4, <1>5, <1>8 DEF ChainsOwnHeap
<1>13. Locals' /\ JoinInStep'
  BY <1>1, <1>2, <1>3, <1>9 DEF ClearDirect, Locals, JoinInStep, InUse
<1> QED
  BY <1>10, <1>11, <1>12, <1>13 DEF ChainInv

\* The last header of a list.
LEMMA LastIsNull ==
  ASSUME NEW S, NULL \notin S, NEW p, NEW s \in Seq(S), NEW h, Linked(p, s, h),
         NEW k \in 1 .. Len(s)
  PROVE  p[s[k]] = NULL <=> k = Len(s)
<1>1. Len(s) \in Nat
  BY LenProperties
<1>2. p[s[k]] = IF k < Len(s) THEN s[k + 1] ELSE NULL
  BY DEF Linked
<1>3. k < Len(s) => s[k + 1] \in S
  <2>1. k < Len(s) => k + 1 \in 1 .. Len(s)
    BY <1>1
  <2> QED
    BY <2>1, ElementOfSeq
<1> QED
  BY <1>1, <1>2, <1>3

\* The loop stopped at the end of one of the lists, which goes in front.
LEMMA JoinEndChains ==
  ASSUME ChainInv, JoinEnd
  PROVE  ChainInv'
<1> DEFINE rest == Tail(oldChain)
           a == fresh_chunks
           b == ptr[Current]
           last == IF next_a = NULL THEN curr_a ELSE curr_b
           before == IF next_a = NULL THEN freshChain ELSE rest
           behind == IF next_a = NULL THEN rest ELSE freshChain
           first  == IF next_a = NULL THEN a ELSE b
           second == IF next_a = NULL THEN b ELSE a
<1>1. TypeOK /\ Locals /\ InUse
  BY DEF ChainInv, JoinEnd, InUse
<1>2. /\ NULL \notin Addresses
      /\ oldChain \in Seq(Addresses) /\ freshChain \in Seq(Addresses)
      /\ Linked(ptr, oldChain, Current) /\ Linked(ptr, freshChain, a)
      /\ NoRepeats(oldChain) /\ NoRepeats(freshChain)
      /\ Current \in Addresses /\ Current \in heap /\ oldChain # <<>>
      /\ Current \in Chunks(oldChain) /\ Current \notin Chunks(freshChain)
      /\ ptr[Current] \in Addresses \cup {NULL}
      /\ heap = Chunks(oldChain) \cup Chunks(freshChain)
      /\ Chunks(oldChain) \cap Chunks(freshChain) = {}
  BY <1>1, ListsInUse DEF ChainInv, ChainsOwnHeap
<1>3. /\ rest \in Seq(Addresses) /\ Len(rest) = Len(oldChain) - 1
      /\ Linked(ptr, rest, b) /\ NoRepeats(rest)
      /\ Chunks(rest) = Chunks(oldChain) \ {Current}
      /\ \A i \in 1 .. Len(oldChain) - 1 : rest[i] = oldChain[i + 1]
  BY <1>2, PopFront
<1>4. PICK k \in 1 .. Len(freshChain) :
        /\ k + 1 \in 1 .. Len(oldChain)
        /\ curr_a = freshChain[k] /\ curr_b = oldChain[k + 1]
        /\ next_a = ptr[curr_a] /\ next_b = ptr[curr_b]
  BY DEF JoinEnd, ChainInv, JoinInStep
<1>5. Len(freshChain) \in Nat /\ Len(oldChain) \in Nat
  BY <1>2, LenProperties
<1> HIDE DEF rest
<1>6. curr_b = rest[k] /\ k \in 1 .. Len(rest)
  <2>1. Len(rest) = Len(oldChain) - 1
    BY <1>3
  <2>2. k \in 1 .. Len(oldChain) - 1
    BY <1>4, <1>5
  <2> QED
    BY <1>3, <1>4, <2>1, <2>2
<1>7. next_a = NULL <=> k = Len(freshChain)
  BY <1>2, <1>4, LastIsNull
<1>8. next_b = NULL <=> k = Len(rest)
  BY <1>2, <1>3, <1>4, <1>6, LastIsNull
<1>9. next_a = NULL \/ next_b = NULL
  BY DEF JoinEnd
<1>10. last = before[Len(before)] /\ before # <<>> /\ behind # <<>>
  <2>1. freshChain # <<>> /\ rest # <<>>
    BY <1>2, <1>3, <1>4, <1>6, EmptySeq
  <2> QED
    BY <1>4, <1>6, <1>7, <1>8, <1>9, <2>1
<1>11. /\ ptr' = [ptr EXCEPT ![last] = second, ![Current] = NULL]
       /\ fresh_chunks' = first
       /\ oldChain' = <<Current>>
       /\ freshChain' = before \o behind
       /\ pc' = "idle"
       /\ curr_a' = NULL /\ curr_b' = NULL /\ next_a' = NULL /\ next_b' = NULL
       /\ UNCHANGED <<top, bottom, heap, capacity, req, cursor, live>>
  <2>1. /\ fresh_chunks' = first
        /\ oldChain' = <<Current>>
        /\ freshChain' = IF Len(freshChain) < Len(oldChain)
                         THEN freshChain \o rest ELSE rest \o freshChain
    BY DEF JoinEnd, Cleared, rest
  <2>2. Len(freshChain) < Len(oldChain) <=> next_a = NULL
    <3>1. Len(rest) = Len(oldChain) - 1
      BY <1>3
    <3>2. CASE next_a = NULL
      BY <1>4, <1>5, <1>6, <1>7, <3>1, <3>2
    <3>3. CASE next_a # NULL
      <4>1. k = Len(oldChain) - 1 /\ k # Len(freshChain)
        BY <1>7, <1>8, <1>9, <3>1, <3>3
      <4> QED
        BY <1>4, <1>5, <3>3, <4>1
    <3> QED
      BY <3>2, <3>3
  <2>3. freshChain' = before \o behind
    BY <2>1, <2>2
  <2>4. ptr' = [ptr EXCEPT ![last] = second, ![Current] = NULL]
    BY DEF JoinEnd
  <2> QED
    BY <2>1, <2>3, <2>4 DEF JoinEnd
<1>12. /\ before \in Seq(Addresses) /\ behind \in Seq(Addresses)
       /\ Linked(ptr, before, first) /\ Linked(ptr, behind, second)
       /\ NoRepeats(before) /\ NoRepeats(behind)
       /\ Chunks(before) \cap Chunks(behind) = {}
       /\ Chunks(before) \cup Chunks(behind) = heap \ {Current}
  BY <1>2, <1>3
<1>13. last \in Chunks(before) /\ last \in Addresses /\ last # Current
  <2>1. Len(before) \in Nat \ {0}
    BY <1>10, <1>12, EmptySeq
  <2>2. before[Len(before)] \in Chunks(before)
    BY <2>1 DEF Chunks
  <2> QED
    BY <1>1, <1>10, <1>12, <2>2 DEF TypeOK
<1>14. {first, second} \subseteq Addresses \cup {NULL} /\ heap \subseteq Addresses
  BY <1>1, <1>2 DEF TypeOK
<1> HIDE DEF last, before, behind, first, second, a, b
<1>15. /\ ptr'[last] = second /\ ptr'[Current] = NULL
       /\ \A c \in Addresses : c \notin {last, Current} => ptr'[c] = ptr[c]
       /\ ptr' \in [Addresses -> Addresses \cup {NULL}]
  BY <1>1, <1>2, <1>11, <1>13, <1>14 DEF TypeOK
<1>16. /\ freshChain' \in Seq(Addresses) /\ Linked(ptr', freshChain', first)
       /\ NoRepeats(freshChain') /\ Chunks(freshChain') = heap \ {Current}
  <2>1. \A c \in Chunks(before) \cup Chunks(behind) : c # last => ptr'[c] = ptr[c]
    BY <1>12, <1>14, <1>15
  <2>2. /\ before \o behind \in Seq(Addresses)
        /\ Linked(ptr', before \o behind, first)
        /\ NoRepeats(before \o behind)
        /\ Chunks(before \o behind) = Chunks(before) \cup Chunks(behind)
    BY <1>2, <1>10, <1>12, <1>15, <2>1, LinkInFront, SMTT(60)
  <2> QED
    BY <1>11, <1>12, <2>2
<1>17. /\ oldChain' \in Seq(Addresses) /\ Linked(ptr', oldChain', Current)
       /\ NoRepeats(oldChain') /\ Chunks(oldChain') = {Current}
  BY <1>2, <1>11, <1>15, OneChunk
<1>18. Current' = Current
  BY <1>11 DEF Current
<1>19. TypeOK'
  BY <1>1, <1>11, <1>14, <1>15, <1>16, <1>17 DEF TypeOK, Pcs
<1>20. ChainsLinked'
  BY <1>11, <1>16, <1>17, <1>18 DEF ChainsLinked, OldHead, FreshHead, InUse
<1>21. ChainsOwnHeap'
  BY <1>2, <1>11, <1>16, <1>17 DEF ChainsOwnHeap
<1>22. Locals' /\ JoinInStep'
  BY <1>1, <1>2, <1>11, <1>18 DEF JoinEnd, Locals, JoinInStep, InUse
<1> QED
  BY <1>19, <1>20, <1>21, <1>22 DEF ChainInv

LEMMA FreeStartChains ==
  ASSUME ChainInv, FreeStart
  PROVE  ChainInv'
<1>1. TypeOK /\ Locals /\ InUse /\ NULL \notin Addresses
  BY ArenaConstants DEF ChainInv, FreeStart, InUse
<1>2. Current \in Addresses /\ Linked(ptr, oldChain, Current) /\ Linked(ptr, freshChain, fresh_chunks)
  BY <1>1, ListsInUse
<1>3. TypeOK'
  BY <1>1, <1>2 DEF FreeStart, TypeOK, Pcs, arenaVars, heapVars, joinVars, chainVars
<1>4. ChainsLinked'
  BY <1>2 DEF FreeStart, ChainsLinked, OldHead, FreshHead, InUse, arenaVars, heapVars, chainVars, Linked
<1>5. ChainsOwnHeap'
  BY OwnHeapFrame DEF FreeStart, heapVars, chainVars
<1>6. Locals' /\ JoinInStep'
  BY <1>1 DEF FreeStart, Locals, JoinInStep, InUse
<1> QED
  BY <1>3, <1>4, <1>5, <1>6 DEF ChainInv

LEMMA FreeFreshChains ==
  ASSUME ChainInv, FreeFresh
  PROVE  ChainInv'
<1>1. TypeOK /\ Locals
  BY DEF ChainInv
<1>2. TypeOK'
  BY <1>1 DEF FreeFresh, TypeOK, Pcs, arenaVars, heapVars, joinVars, chainVars
<1>3. ChainsLinked'
  BY DEF ChainInv, FreeFresh, ChainsLinked, OldHead, FreshHead, InUse, arenaVars, heapVars, chainVars, Linked
<1>4. ChainsOwnHeap'
  BY OwnHeapFrame DEF FreeFresh, heapVars, chainVars
<1>5. Locals' /\ JoinInStep'
  BY <1>1 DEF FreeFresh, Locals, JoinInStep, InUse
<1> QED
  BY <1>2, <1>3, <1>4, <1>5 DEF ChainInv

LEMMA FreeEndChains ==
  ASSUME ChainInv, FreeEnd
  PROVE  ChainInv'
<1>1. TypeOK /\ Locals
  BY DEF ChainInv
<1>2. TypeOK'
  BY <1>1 DEF FreeEnd, TypeOK, Pcs, NULL, heapVars, joinVars, chainVars
<1>3. ChainsLinked'
  BY DEF ChainInv, FreeEnd, ChainsLinked, OldHead, FreshHead, InUse, heapVars, chainVars, Linked
<1>4. ChainsOwnHeap'
  BY OwnHeapFrame DEF FreeEnd, heapVars, chainVars
<1>5. Locals' /\ JoinInStep'
  BY <1>1 DEF FreeEnd, Locals, JoinInStep, InUse
<1> QED
  BY <1>2, <1>3, <1>4, <1>5 DEF ChainInv

\* The chunk released is the first of the list that is being freed.
LEMMA FreeStepChains ==
  ASSUME ChainInv, FreeStep
  PROVE  ChainInv'
<1>1. TypeOK /\ Locals /\ NULL \notin Addresses /\ cursor \in Addresses
  BY ArenaConstants DEF ChainInv, FreeStep, TypeOK
<1>2. /\ cursor' = ptr[cursor]
      /\ heap' = heap \ {cursor}
      /\ ptr' = [ptr EXCEPT ![cursor] = NULL]
      /\ capacity' = [capacity EXCEPT ![cursor] = 0]
      /\ UNCHANGED <<pc, arenaVars, req, joinVars, live>>
  BY DEF FreeStep, Release
<1>3. /\ ptr' \in [Addresses -> Addresses \cup {NULL}]
      /\ capacity' \in [Addresses -> Nat]
      /\ cursor' \in Addresses \cup {NULL}
      /\ \A c \in Addresses : c # cursor => ptr'[c] = ptr[c]
  BY <1>1, <1>2 DEF TypeOK
<1>4. /\ oldChain \in Seq(Addresses) /\ freshChain \in Seq(Addresses)
      /\ NoRepeats(oldChain) /\ NoRepeats(freshChain)
      /\ heap = Chunks(oldChain) \cup Chunks(freshChain) /\ heap \subseteq Addresses
      /\ Chunks(oldChain) \cap Chunks(freshChain) = {}
  BY <1>1 DEF ChainInv, TypeOK, ChainsOwnHeap
<1>5. CASE pc = "free_old"
  <2>1. Linked(ptr, oldChain, cursor) /\ Linked(ptr, freshChain, fresh_chunks)
    BY <1>5 DEF ChainInv, ChainsLinked, OldHead, FreshHead, InUse
  <2>2. oldChain # <<>>
    BY <1>1, <1>4, <2>1, HeadNull
  <2>3. oldChain' = Tail(oldChain) /\ freshChain' = freshChain
    BY <1>5 DEF FreeStep
  <2>4. /\ oldChain' \in Seq(Addresses) /\ Linked(ptr, oldChain', ptr[cursor])
        /\ NoRepeats(oldChain') /\ Chunks(oldChain') = Chunks(oldChain) \ {cursor}
        /\ cursor \in Chunks(oldChain)
    BY <1>1, <1>4, <2>1, <2>2, <2>3, PopFront
  <2>5. Linked(ptr', oldChain', cursor')
    <3>1. \A c \in Chunks(oldChain') : ptr'[c] = ptr[c]
      BY <1>3, <1>4, <2>4
    <3> QED
      BY <1>2, <2>4, <3>1, LinkedFrame
  <2>6. Linked(ptr', freshChain', fresh_chunks)
    <3>1. \A c \in Chunks(freshChain) : ptr'[c] = ptr[c]
      BY <1>3, <1>4, <2>4
    <3> QED
      BY <2>1, <2>3, <3>1, LinkedFrame
  <2>7. TypeOK'
    BY <1>1, <1>2, <1>3, <1>4, <2>3, <2>4 DEF TypeOK, arenaVars, joinVars
  <2>8. ChainsLinked'
    BY <1>2, <1>5, <2>5, <2>6 DEF ChainsLinked, OldHead, FreshHead, InUse, arenaVars
  <2>9. ChainsOwnHeap'
    BY <1>2, <1>4, <2>3, <2>4 DEF ChainsOwnHeap
  <2>10. Locals' /\ JoinInStep'
    BY <1>1, <1>2, <1>5 DEF Locals, JoinInStep, InUse
  <2> QED
    BY <2>7, <2>8, <2>9, <2>10 DEF ChainInv
<1>6. CASE pc = "free_fresh"
  <2>1. Linked(ptr, oldChain, NULL) /\ Linked(ptr, freshChain, cursor)
    BY <1>6 DEF ChainInv, ChainsLinked, OldHead, FreshHead, InUse
  <2>2. freshChain # <<>>
    BY <1>1, <1>4, <2>1, HeadNull
  <2>3. oldChain' = oldChain /\ freshChain' = Tail(freshChain)
    BY <1>6 DEF FreeStep
  <2>4. /\ freshChain' \in Seq(Addresses) /\ Linked(ptr, freshChain', ptr[cursor])
        /\ NoRepeats(freshChain') /\ Chunks(freshChain') = Chunks(freshChain) \ {cursor}
        /\ cursor \in Chunks(freshChain)
    BY <1>1, <1>4, <2>1, <2>2, <2>3, PopFront
  <2>5. Linked(ptr', freshChain', cursor')
    <3>1. \A c \in Chunks(freshChain') : ptr'[c] = ptr[c]
      BY <1>3, <1>4, <2>4
    <3> QED
      BY <1>2, <2>4, <3>1, LinkedFrame
  <2>6. Linked(ptr', oldChain', NULL)
    <3>1. \A c \in Chunks(oldChain) : ptr'[c] = ptr[c]
      BY <1>3, <1>4, <2>4
    <3> QED
      BY <2>1, <2>3, <3>1, LinkedFrame
  <2>7. TypeOK'
    BY <1>1, <1>2, <1>3, <1>4, <2>3, <2>4 DEF TypeOK, arenaVars, joinVars
  <2>8. ChainsLinked'
    BY <1>2, <1>6, <2>5, <2>6 DEF ChainsLinked, OldHead, FreshHead, InUse
  <2>9. ChainsOwnHeap'
    BY <1>2, <1>4, <2>3, <2>4 DEF ChainsOwnHeap
  <2>10. Locals' /\ JoinInStep'
    BY <1>1, <1>2, <1>6 DEF Locals, JoinInStep, InUse
  <2> QED
    BY <2>7, <2>8, <2>9, <2>10 DEF ChainInv
<1> QED
  BY <1>5, <1>6 DEF FreeStep

LEMMA StutterChains ==
  ASSUME ChainInv, UNCHANGED vars
  PROVE  ChainInv'
<1>1. heap' = heap /\ oldChain' = oldChain /\ freshChain' = freshChain
  BY DEF vars, heapVars, chainVars
<1>2. TypeOK' /\ Locals' /\ JoinInStep'
  BY DEF ChainInv, TypeOK, Locals, JoinInStep, InUse, Current,
         vars, arenaVars, heapVars, joinVars, chainVars
<1>3. ChainsLinked'
  BY DEF ChainInv, ChainsLinked, OldHead, FreshHead, InUse, Current, Linked,
         vars, arenaVars, heapVars, chainVars
<1>4. ChainsOwnHeap'
  BY <1>1, OwnHeapFrame
<1> QED
  BY <1>2, <1>3, <1>4 DEF ChainInv

LEMMA ChainStep == ChainInv /\ [Next]_vars => ChainInv'
<1> SUFFICES ASSUME ChainInv, [Next]_vars PROVE ChainInv'
  OBVIOUS
<1>1. CASE New
  BY <1>1, NewChains
<1>2. ASSUME NEW r \in Request, AllocFast(r) \/ AllocSlow(r) PROVE ChainInv'
  BY <1>2, AllocFastChains, AllocSlowChains
<1>3. CASE ClearDirect
  BY <1>3, ClearDirectChains
<1>4. CASE ClearJoin
  BY <1>4, ClearJoinChains
<1>5. CASE FreeStart
  BY <1>5, FreeStartChains
<1>6. CASE MoreLarge
  BY <1>6, MoreLargeChains
<1>7. CASE MoreReuse
  BY <1>7, MoreReuseChains
<1>8. CASE MoreNew
  BY <1>8, MoreNewChains
<1>9. CASE MoreFits
  BY <1>9, MoreFitsChains
<1>10. CASE MallocFails
  BY <1>10, MallocFailsChains
<1>11. CASE JoinStep
  BY <1>11, JoinStepChains
<1>12. CASE JoinEnd
  BY <1>12, JoinEndChains
<1>13. CASE FreeStep
  BY <1>13, FreeStepChains
<1>14. CASE FreeFresh
  BY <1>14, FreeFreshChains
<1>15. CASE FreeEnd
  BY <1>15, FreeEndChains
<1>16. CASE UNCHANGED vars
  BY <1>16, StutterChains
<1> QED
  BY <1>1, <1>2, <1>3, <1>4, <1>5, <1>6, <1>7, <1>8, <1>9, <1>10, <1>11, <1>12,
     <1>13, <1>14, <1>15, <1>16 DEF Next, Caller, Code, Alloc, Exited

LEMMA ChainInvariant == Spec => []ChainInv
BY ChainInit, ChainStep, PTL DEF Spec

-----------------------------------------------------------------------------
(* The theorems about the chunk lists.                                     *)

\* Every variable keeps the type the code declares for it.
THEOREM ArenaTypes == Spec => []TypeOK
<1>1. ChainInv => TypeOK
  BY DEF ChainInv
<1> QED
  BY <1>1, ChainInvariant, PTL

\* senarena_alloc_more, the join of senarena_clear and the two loops of
\* senarena_free keep both chunk lists linked and ended by NULL.
THEOREM ArenaChainsLinked == Spec => []ChainsLinked
<1>1. ChainInv => ChainsLinked
  BY DEF ChainInv
<1> QED
  BY <1>1, ChainInvariant, PTL

\* They keep every malloced chunk on exactly one of the two lists, once.
THEOREM ArenaChainsOwnHeap == Spec => []ChainsOwnHeap
<1>1. ChainInv => ChainsOwnHeap
  BY DEF ChainInv
<1> QED
  BY <1>1, ChainInvariant, PTL

\* With the lists as they are, every header the code touches next is malloced.
LEMMA ChainSafe ==
  ASSUME ChainInv
  PROVE  NoUseAfterFree
<1>1. /\ TypeOK /\ Locals /\ NULL \notin Addresses
      /\ oldChain \in Seq(Addresses) /\ freshChain \in Seq(Addresses)
      /\ heap = Chunks(oldChain) \cup Chunks(freshChain)
      /\ Linked(ptr, oldChain, OldHead) /\ Linked(ptr, freshChain, FreshHead)
  BY ArenaConstants DEF ChainInv, TypeOK, ChainsOwnHeap, ChainsLinked
<1>2. OldHead \in heap \cup {NULL} /\ FreshHead \in heap \cup {NULL}
  BY <1>1, HeadNull
<1>3. InUse => Current \in heap
  BY <1>1 DEF Locals
<1>4. pc # "free_fresh" => fresh_chunks \in heap \cup {NULL}
  BY <1>2 DEF FreshHead
<1>5. cursor \in heap \cup {NULL}
  BY <1>1, <1>2 DEF OldHead, FreshHead, InUse, Locals
<1>6. ASSUME pc = "join"
      PROVE  {curr_a, curr_b} \subseteq heap /\ {next_a, next_b} \subseteq heap \cup {NULL}
  <2>1. PICK k \in 1 .. Len(freshChain) :
          /\ k + 1 \in 1 .. Len(oldChain)
          /\ curr_a = freshChain[k] /\ curr_b = oldChain[k + 1]
          /\ next_a = ptr[curr_a] /\ next_b = ptr[curr_b]
    BY <1>6 DEF ChainInv, JoinInStep
  <2>2. curr_a \in heap /\ curr_b \in heap
    BY <1>1, <2>1 DEF Chunks
  <2>3. next_a \in heap \cup {NULL}
    <3>1. next_a = IF k < Len(freshChain) THEN freshChain[k + 1] ELSE NULL
      BY <1>1, <2>1 DEF Linked
    <3>2. k < Len(freshChain) => k + 1 \in 1 .. Len(freshChain)
      BY <1>1, LenProperties
    <3> QED
      BY <1>1, <3>1, <3>2 DEF Chunks
  <2>4. next_b \in heap \cup {NULL}
    <3>1. next_b = IF k + 1 < Len(oldChain) THEN oldChain[(k + 1) + 1] ELSE NULL
      BY <1>1, <2>1 DEF Linked
    <3>2. k + 1 < Len(oldChain) => (k + 1) + 1 \in 1 .. Len(oldChain)
      BY <1>1, LenProperties
    <3> QED
      BY <1>1, <3>1, <3>2 DEF Chunks
  <2> QED
    BY <2>2, <2>3, <2>4
<1> QED
  BY <1>3, <1>4, <1>5, <1>6 DEF NoUseAfterFree

\* Without an arena, and when both lists have been freed, the heap is empty.
LEMMA NoChunksLeft ==
  ASSUME ChainInv, pc = "none" \/ (pc = "free_fresh" /\ cursor = NULL)
  PROVE  heap = {}
<1>1. /\ NULL \notin Addresses
      /\ oldChain \in Seq(Addresses) /\ freshChain \in Seq(Addresses)
      /\ Linked(ptr, oldChain, NULL) /\ Linked(ptr, freshChain, NULL)
  BY ArenaConstants DEF ChainInv, TypeOK, Locals, ChainsLinked, OldHead, FreshHead, InUse
<1>2. oldChain = <<>> /\ freshChain = <<>>
  BY <1>1, HeadNull
<1> QED
  BY <1>2 DEF ChainInv, ChainsOwnHeap, Chunks

\* No header of a freed block is ever read, written or freed again.
THEOREM ArenaNoUseAfterFree == Spec => []NoUseAfterFree
<1>1. ChainInv => NoUseAfterFree
  BY ChainSafe
<1> QED
  BY <1>1, ChainInvariant, PTL

\* senarena_free gives every chunk back: the ones in use and the reusable ones.
THEOREM ArenaNothingLeaked == Spec => []NothingLeaked
<1>1. ChainInv => NothingLeaked
  BY NoChunksLeft DEF NothingLeaked
<1> QED
  BY <1>1, ChainInvariant, PTL

-----------------------------------------------------------------------------
(* What a step may never do.                                               *)

\* what a step leaves of the chunks there are
KeepsChunks == heap \subseteq heap' /\ \A c \in heap : capacity'[c] = capacity[c]

\* A new chunk changes neither the others nor their sizes.
LEMMA NewChunkKeepsChunks ==
  ASSUME TypeOK, NEW chunk, NEW size \in Nat, MayReturn(chunk, size),
         heap' = heap \cup {chunk}, capacity' = [capacity EXCEPT ![chunk] = size]
  PROVE  KeepsChunks
<1>1. chunk \notin heap
  BY MallocIsNew
<1> QED
  BY <1>1 DEF TypeOK, KeepsChunks

\* Outside senarena_free no path of a call gives a chunk back to malloc or
\* changes its size, so what was allocated from it stays usable.
THEOREM ArenaChunksOnlyFreedByFree == Spec => ChunksOnlyFreedByFree
<1>1. ChainInv /\ [Next]_vars =>
        [InUse /\ pc' # "exited"
           => heap \subseteq heap' /\ \A c \in heap : capacity'[c] = capacity[c]]_vars
  <2> SUFFICES ASSUME ChainInv, [Next]_vars, InUse, pc' # "exited"
               PROVE  KeepsChunks
    BY DEF KeepsChunks
  <2>1. TypeOK /\ DefaultChunkSize \in Nat
    BY ArenaConstants DEF ChainInv
  <2>2. CASE MoreLarge
    <3> DEFINE size == req.amount + senarena_extra_fresh_bytes_needed(req.alignment)
    <3>1. PICK chunk \in Addresses :
            /\ MayReturn(chunk, size)
            /\ heap' = heap \cup {chunk}
            /\ capacity' = [capacity EXCEPT ![chunk] = size]
      BY <2>2 DEF MoreLarge
    <3>2. size \in Nat
      <4>1. req \in Request
        BY <2>2 DEF ChainInv, MoreLarge, Locals
      <4>2. req.amount \in Nat /\ req.alignment \in Nat \ {0}
        BY <4>1, ArenaConstants DEF Request
      <4> QED
        BY <4>2, FreshPaddingRange
    <3> HIDE DEF size
    <3> QED
      BY <2>1, <3>1, <3>2, NewChunkKeepsChunks
  <2>3. CASE MoreNew
    <3>1. PICK chunk \in Addresses : senarena_chunk_new(chunk, DefaultChunkSize, Current)
      BY <2>3 DEF MoreNew
    <3> QED
      BY <2>1, <3>1, NewChunkKeepsChunks DEF senarena_chunk_new
  <2>4. CASE UNCHANGED <<heap, capacity>>
    BY <2>4 DEF KeepsChunks
  <2>5. \/ MoreLarge \/ MoreNew \/ UNCHANGED <<heap, capacity>>
    <3>1. ~New /\ ~FreeStep /\ ~MallocFails
      BY DEF InUse, New, FreeStep, MallocFails
    <3>2. CASE Alloc \/ MoreFits \/ MoreReuse
      BY <3>2 DEF Alloc, AllocFast, AllocSlow, MoreFits, MoreReuse, heapVars
    <3>3. CASE ClearDirect \/ ClearJoin \/ JoinStep \/ JoinEnd
      BY <3>3 DEF ClearDirect, ClearJoin, JoinStep, JoinEnd, heapVars
    <3>4. CASE FreeStart \/ FreeFresh \/ FreeEnd
      BY <3>4 DEF FreeStart, FreeFresh, FreeEnd, heapVars
    <3>5. CASE UNCHANGED vars
      BY <3>5 DEF vars, heapVars
    <3> QED
      BY <3>1, <3>2, <3>3, <3>4, <3>5 DEF Next, Caller, Code, Exited
  <2> QED
    BY <2>2, <2>3, <2>4, <2>5
<1> QED
  BY <1>1, ChainInvariant, PTL DEF Spec, ChunksOnlyFreedByFree

-----------------------------------------------------------------------------
(***************************************************************************)
(* Proofs about the memory the arena hands out: allocations are inside     *)
(* blocks it owns, apart from each other and from the space it will hand   *)
(* out next.                                                               *)
(*                                                                         *)
(* They need one assumption on the requests.  senarena_alloc_more takes a  *)
(* request that is not large from a new default chunk without looking      *)
(* whether its padding still fits; it does when the alignment is small     *)
(* enough.  (The run ArenaPageAlignment shows what happens otherwise.)     *)
(***************************************************************************)
\* Every request that is not large fits an empty default chunk with the most
\* padding its alignment can ask for.
AlignmentFits ==
  \A amount \in Sizes, alignment \in Alignments :
    amount < DefaultChunkSize \div 4 => amount + alignment - 1 <= DefaultChunkSize

\* No two blocks of malloc share a byte.
BlocksApart ==
  \A c, d \in heap : c # d => Apart(c, End(c), d, End(d))

\* Nothing is held while the lists are joined, nor without an arena.
NothingHeld == pc \notin {"idle", "alloc_more"} => live = {}

RegionInv ==
  /\ BlocksApart /\ NothingHeld
  /\ RegionsDisjoint /\ RegionsInChunks /\ FreeSpaceUnused
  /\ TopAboveBottom

-----------------------------------------------------------------------------
LEMMA RegionInit == Init => RegionInv
BY DEF Init, RegionInv, BlocksApart, NothingHeld, RegionsDisjoint, RegionsInChunks,
       FreeSpaceUnused, TopAboveBottom, InUse

\* The types arithmetic needs.
LEMMA Numbers ==
  ASSUME ChainInv
  PROVE  /\ HeaderSize \in Nat \ {0} /\ DefaultChunkSize \in Nat
         /\ top \in Int /\ bottom \in Int
         /\ \A c \in Addresses : c \in Nat /\ capacity[c] \in Nat
         /\ \A c \in heap : c \in Nat /\ capacity[c] \in Nat
                            /\ End(c) \in Nat /\ End(c) = c + HeaderSize + capacity[c]
         /\ \A r \in live : r.addr \in Int /\ r.size \in Nat
         /\ \A i \in 1 .. Len(freshChain) : freshChain[i] \in heap
         /\ InUse => /\ Current \in heap
                     /\ bottom = Current + HeaderSize
                     /\ \A i \in 1 .. Len(freshChain) : freshChain[i] # Current
<1>1. TypeOK /\ Locals /\ ChainsOwnHeap
  BY DEF ChainInv
<1>2. /\ HeaderSize \in Nat \ {0} /\ DefaultChunkSize \in Nat
      /\ top \in Int /\ bottom \in Int
      /\ \A c \in Addresses : c \in Nat /\ capacity[c] \in Nat
      /\ heap \subseteq Addresses
  BY <1>1, ArenaConstants DEF TypeOK
<1>3. \A r \in live : r.addr \in Int /\ r.size \in Nat
  BY <1>1, ArenaConstants DEF TypeOK, Region
<1>4. \A c \in heap : End(c) \in Nat /\ End(c) = c + HeaderSize + capacity[c]
  BY <1>2 DEF End
<1>5. \A i \in 1 .. Len(freshChain) : freshChain[i] \in heap /\ freshChain[i] \in Chunks(freshChain)
  BY <1>1 DEF ChainsOwnHeap, Chunks
<1>6. InUse => Current \in heap /\ Current \notin Chunks(freshChain) /\ bottom = Current + HeaderSize
  <2>1. bottom = Current + HeaderSize
    BY <1>2 DEF Current
  <2> QED
    BY <2>1, ListsInUse
<1> QED
  BY <1>2, <1>3, <1>4, <1>5, <1>6

-----------------------------------------------------------------------------
(* Handing out memory.                                                     *)

\* A region taken from the top of the current chunk.
LEMMA TakenFromTop ==
  ASSUME ChainInv, RegionInv, InUse, InUse',
         NEW r \in Request, Fits(r),
         top' = top - AmountAndPadding(r),
         HandOut(top', r),
         pc' \in {"idle", "alloc_more"},
         UNCHANGED <<bottom, heapVars, freshChain>>
  PROVE  RegionInv'
<1>1. /\ bottom <= top' /\ top' + r.amount <= top /\ top' <= top
      /\ r.amount \in Nat /\ top' \in Int
  <2>1. top \in Int /\ bottom \in Int
    BY Numbers
  <2>2. AmountAndPadding(r) \in Nat /\ r.amount <= AmountAndPadding(r) /\ r.amount \in Nat
    BY <2>1, PaddingRange
  <2>3. AmountAndPadding(r) <= top - bottom
    BY DEF Fits
  <2> QED
    BY <2>1, <2>2, <2>3
<1>2. /\ Current \in heap /\ bottom = Current + HeaderSize /\ top <= End(Current)
      /\ Current \in Nat /\ HeaderSize \in Nat
  BY Numbers DEF RegionInv, TopAboveBottom
<1>3. heap' = heap /\ capacity' = capacity /\ Current' = Current /\ freshChain' = freshChain /\ bottom' = bottom
  BY DEF heapVars, Current
<1> DEFINE new == [addr |-> top', size |-> r.amount, align |-> r.alignment]
<1>4. live' = live \/ live' = live \cup {new}
  BY DEF HandOut
<1>5. /\ new.addr = top' /\ new.size = r.amount
  OBVIOUS
<1> HIDE DEF new
<1>6. BlocksApart'
  BY <1>3 DEF RegionInv, BlocksApart, End, Apart
<1>7. \A s \in live : Apart(new.addr, new.addr + new.size, s.addr, s.addr + s.size)
                   /\ Apart(s.addr, s.addr + s.size, new.addr, new.addr + new.size)
  <2> SUFFICES ASSUME NEW s \in live
               PROVE  Apart(new.addr, new.addr + new.size, s.addr, s.addr + s.size)
                   /\ Apart(s.addr, s.addr + s.size, new.addr, new.addr + new.size)
    OBVIOUS
  <2>1. s.addr + s.size <= bottom \/ top <= s.addr
    BY DEF RegionInv, FreeSpaceUnused, Apart
  <2>2. s.addr \in Int /\ s.size \in Nat /\ top \in Int /\ bottom \in Int
    BY Numbers
  <2> QED
    BY <1>1, <1>5, <2>1, <2>2 DEF Apart
<1>8. RegionsDisjoint'
  BY <1>4, <1>7 DEF RegionInv, RegionsDisjoint, Apart
<1>9. RegionsInChunks'
  <2>1. Current + HeaderSize <= new.addr /\ new.addr + new.size <= End(Current)
    BY <1>1, <1>2, <1>5, Numbers
  <2>2. \A c \in heap : End(c)' = End(c)
    BY <1>3 DEF End
  <2> QED
    BY <1>2, <1>3, <1>4, <2>1, <2>2 DEF RegionInv, RegionsInChunks
<1>10. FreeSpaceUnused'
  <2>1. ASSUME NEW s \in live
        PROVE  /\ Apart(s.addr, s.addr + s.size, bottom, top')
               /\ \A i \in 1 .. Len(freshChain) :
                    Apart(s.addr, s.addr + s.size, freshChain[i], End(freshChain[i]))
    <3>1. s.addr + s.size <= bottom \/ top <= s.addr
      BY DEF RegionInv, FreeSpaceUnused, Apart
    <3>2. s.addr \in Int /\ s.size \in Nat /\ top \in Int /\ bottom \in Int
      BY Numbers
    <3>3. Apart(s.addr, s.addr + s.size, bottom, top')
      BY <1>1, <3>1, <3>2 DEF Apart
    <3> QED
      BY <3>3 DEF RegionInv, FreeSpaceUnused
  <2>2. Apart(new.addr, new.addr + new.size, bottom, top')
    BY <1>1, <1>5 DEF Apart
  <2>3. ASSUME NEW i \in 1 .. Len(freshChain)
        PROVE  Apart(new.addr, new.addr + new.size, freshChain[i], End(freshChain[i]))
    <3>1. freshChain[i] \in heap /\ freshChain[i] # Current /\ top \in Int
      BY Numbers
    <3>2. \A c \in heap : c \in Nat /\ End(c) \in Nat
      BY Numbers
    <3>3. End(Current) <= freshChain[i] \/ End(freshChain[i]) <= Current
      BY <1>2, <3>1 DEF RegionInv, BlocksApart, Apart
    <3>4. freshChain[i] \in Nat /\ End(freshChain[i]) \in Nat /\ End(Current) \in Nat
      BY <1>2, <3>1, <3>2
    <3>5. Current < new.addr /\ new.addr + new.size <= End(Current)
      BY <1>1, <1>2, <1>5, <3>1, <3>4, Numbers
    <3> QED
      BY <1>1, <1>2, <1>5, <3>3, <3>4, <3>5 DEF Apart
  <2>4. \A i \in 1 .. Len(freshChain) : End(freshChain[i])' = End(freshChain[i])
    BY <1>3 DEF End
  <2> QED
    BY <1>3, <1>4, <2>1, <2>2, <2>3, <2>4 DEF FreeSpaceUnused
<1>11. TopAboveBottom'
  BY <1>1, <1>2, <1>3, Numbers DEF TopAboveBottom, End
<1>12. NothingHeld'
  BY DEF NothingHeld
<1> QED
  BY <1>6, <1>8, <1>9, <1>10, <1>11, <1>12 DEF RegionInv

\* The caller gives everything back, the blocks stay what they are.
LEMMA AllGivenBack ==
  ASSUME ChainInv, RegionInv, live' = {}, TopAboveBottom',
         UNCHANGED <<heap, capacity>>
  PROVE  RegionInv'
<1>1. BlocksApart'
  BY DEF RegionInv, BlocksApart, End, Apart
<1> QED
  BY <1>1 DEF RegionInv, NothingHeld, RegionsDisjoint, RegionsInChunks, FreeSpaceUnused

LEMMA AllocFastRegions ==
  ASSUME ChainInv, RegionInv, NEW r \in Request, AllocFast(r)
  PROVE  RegionInv'
BY TakenFromTop DEF AllocFast, InUse, chainVars

LEMMA MoreFitsRegions ==
  ASSUME ChainInv, RegionInv, MoreFits
  PROVE  RegionInv'
<1>1. req \in Request
  BY DEF ChainInv, Locals, MoreFits
<1> QED
  BY <1>1, TakenFromTop DEF MoreFits, InUse, chainVars

\* A block that malloc returns is apart from every allocation and every block.
LEMMA NewBlock ==
  ASSUME ChainInv, RegionInv, NEW chunk \in Addresses, NEW size \in Nat,
         MayReturn(chunk, size),
         heap' = heap \cup {chunk},
         capacity' = [capacity EXCEPT ![chunk] = size]
  PROVE  /\ BlocksApart'
         /\ chunk \in Nat /\ chunk \notin heap
         /\ End(chunk)' = chunk + HeaderSize + size
         /\ \A c \in heap : capacity'[c] = capacity[c]
         /\ \A c \in heap : chunk + HeaderSize + size <= c \/ End(c) <= chunk
         /\ \A r \in live : r.addr + r.size <= chunk \/ chunk + HeaderSize + size <= r.addr
<1>1. TypeOK
  BY DEF ChainInv
<1>2. chunk \notin heap /\ chunk \in Nat
  BY <1>1, MallocIsNew, ArenaConstants
<1>3. capacity'[chunk] = size /\ \A c \in heap : capacity'[c] = capacity[c]
  BY <1>1, <1>2 DEF TypeOK
<1>4. End(chunk)' = chunk + HeaderSize + size
  BY <1>3 DEF End
<1>5. \A c \in heap : chunk + HeaderSize + size <= c \/ End(c) <= chunk
  BY DEF MayReturn
<1>6. BlocksApart'
  BY <1>2, <1>3, <1>5 DEF RegionInv, BlocksApart, Apart, End
<1>7. ASSUME NEW r \in live
      PROVE  r.addr + r.size <= chunk \/ chunk + HeaderSize + size <= r.addr
  <2>1. PICK c \in heap : c + HeaderSize <= r.addr /\ r.addr + r.size <= End(c)
    BY DEF RegionInv, RegionsInChunks
  <2>2. chunk + HeaderSize + size <= c \/ End(c) <= chunk
    BY <1>5
  <2>3. /\ c \in Nat /\ End(c) \in Nat /\ HeaderSize \in Nat
        /\ r.addr \in Int /\ r.size \in Nat
    BY Numbers
  <2> QED
    BY <1>2, <2>1, <2>2, <2>3
<1> QED
  BY <1>2, <1>3, <1>4, <1>5, <1>6, <1>7

LEMMA NewRegions ==
  ASSUME ChainInv, RegionInv, New
  PROVE  RegionInv'
<1>1. PICK chunk \in Addresses :
        /\ senarena_chunk_new(chunk, DefaultChunkSize, NULL)
        /\ bottom' = chunk + HeaderSize
        /\ top' = chunk + HeaderSize + DefaultChunkSize
  BY DEF New
<1>2. live' = {} /\ pc' = "idle"
  BY DEF New, RegionInv, NothingHeld
<1>3. /\ chunk \in Nat /\ HeaderSize \in Nat /\ DefaultChunkSize \in Nat
      /\ BlocksApart' /\ End(chunk)' = chunk + HeaderSize + DefaultChunkSize
      /\ chunk \in heap'
  BY <1>1, NewBlock, ArenaConstants DEF senarena_chunk_new
<1>4. Current' = chunk
  BY <1>1, <1>3 DEF Current
<1>5. TopAboveBottom'
  BY <1>1, <1>3, <1>4 DEF TopAboveBottom
<1> QED
  BY <1>2, <1>3, <1>5 DEF RegionInv, NothingHeld, RegionsDisjoint, RegionsInChunks, FreeSpaceUnused

\* A large request: the region fills the end of a block of its own.
LEMMA MoreLargeRegions ==
  ASSUME ChainInv, RegionInv, MoreLarge
  PROVE  RegionInv'
<1> DEFINE extra == senarena_extra_fresh_bytes_needed(req.alignment)
           size  == req.amount + extra
<1>1. InUse /\ InUse' /\ req.amount \in Nat /\ extra \in Nat /\ size \in Nat
  <2>1. req \in Request
    BY DEF ChainInv, Locals, MoreLarge
  <2>2. req.amount \in Nat /\ req.alignment \in Nat \ {0}
    BY <2>1, ArenaConstants DEF Request
  <2>3. extra \in Nat
    BY <2>2, FreshPaddingRange
  <2> QED
    BY <2>2, <2>3 DEF MoreLarge, InUse
<1>2. PICK chunk \in Addresses :
        /\ MayReturn(chunk, size)
        /\ heap' = heap \cup {chunk}
        /\ capacity' = [capacity EXCEPT ![chunk] = size]
        /\ HandOut(chunk + HeaderSize + extra, req)
  BY DEF MoreLarge
<1> HIDE DEF size, extra
<1>3. /\ BlocksApart'
      /\ chunk \in Nat /\ chunk \notin heap
      /\ End(chunk)' = chunk + HeaderSize + size
      /\ \A c \in heap : capacity'[c] = capacity[c]
      /\ \A c \in heap : chunk + HeaderSize + size <= c \/ End(c) <= chunk
      /\ \A r \in live : r.addr + r.size <= chunk \/ chunk + HeaderSize + size <= r.addr
  BY <1>1, <1>2, NewBlock
<1>4. top' = top /\ bottom' = bottom /\ Current' = Current /\ freshChain' = freshChain
      /\ pc' = "idle"
  BY DEF MoreLarge, arenaVars, Current
<1> DEFINE new == [addr |-> chunk + HeaderSize + extra, size |-> req.amount, align |-> req.alignment]
<1>5. live' = live \/ live' = live \cup {new}
  BY <1>2 DEF HandOut
<1>6. /\ new.addr = chunk + HeaderSize + extra /\ new.size = req.amount
  OBVIOUS
<1> HIDE DEF new
<1>7. /\ HeaderSize \in Nat /\ new.addr \in Nat /\ new.size \in Nat
      /\ chunk + HeaderSize <= new.addr
      /\ new.addr + new.size = chunk + HeaderSize + size
  BY <1>1, <1>3, <1>6, ArenaConstants DEF size
<1>8. \A c \in heap : new.addr + new.size <= c \/ End(c) <= new.addr
  <2>1. \A c \in heap : c \in Nat /\ End(c) \in Nat
    BY Numbers
  <2> QED
    BY <1>1, <1>3, <1>7, <2>1
<1>9. ASSUME NEW s \in live
      PROVE  Apart(new.addr, new.addr + new.size, s.addr, s.addr + s.size)
          /\ Apart(s.addr, s.addr + s.size, new.addr, new.addr + new.size)
  <2>1. s.addr + s.size <= chunk \/ chunk + HeaderSize + size <= s.addr
    BY <1>3
  <2>2. s.addr \in Int /\ s.size \in Nat
    BY Numbers
  <2> QED
    BY <1>1, <1>3, <1>7, <2>1, <2>2 DEF Apart
<1>10. RegionsDisjoint'
  BY <1>5, <1>9 DEF RegionInv, RegionsDisjoint
<1>11. RegionsInChunks'
  <2>1. chunk \in heap' /\ (chunk + HeaderSize <= new.addr) /\ new.addr + new.size <= End(chunk)'
    BY <1>1, <1>2, <1>3, <1>7
  <2>2. ASSUME NEW s \in live
        PROVE  \E c \in heap' : c + HeaderSize <= s.addr /\ s.addr + s.size <= End(c)'
    <3>1. PICK c \in heap : c + HeaderSize <= s.addr /\ s.addr + s.size <= End(c)
      BY DEF RegionInv, RegionsInChunks
    <3>2. c \in heap' /\ capacity'[c] = capacity[c]
      BY <1>2, <1>3
    <3> QED
      BY <3>1, <3>2 DEF End
  <2> QED
    BY <1>5, <2>1, <2>2 DEF RegionsInChunks
<1>12. FreeSpaceUnused'
  <2>1. Apart(new.addr, new.addr + new.size, bottom, top)
    <3>1. /\ bottom = Current + HeaderSize /\ top <= End(Current) /\ Current \in heap
          /\ Current \in Nat /\ top \in Int /\ End(Current) \in Nat
      BY <1>1, Numbers DEF RegionInv, TopAboveBottom
    <3>2. new.addr + new.size <= Current \/ End(Current) <= new.addr
      BY <1>8, <3>1
    <3> QED
      BY <1>7, <3>1, <3>2 DEF Apart
  <2>2. ASSUME NEW i \in 1 .. Len(freshChain)
        PROVE  /\ Apart(new.addr, new.addr + new.size, freshChain[i], End(freshChain[i]))
               /\ End(freshChain[i])' = End(freshChain[i])
    <3>1. freshChain[i] \in heap
      BY Numbers
    <3>2. capacity'[freshChain[i]] = capacity[freshChain[i]]
      BY <1>3, <3>1
    <3> QED
      BY <1>4, <1>8, <3>1, <3>2 DEF Apart, End
  <2>3. \A s \in live' : /\ Apart(s.addr, s.addr + s.size, bottom, top)
                        /\ \A i \in 1 .. Len(freshChain) :
                             Apart(s.addr, s.addr + s.size, freshChain[i], End(freshChain[i]))
    BY <1>5, <2>1, <2>2 DEF RegionInv, FreeSpaceUnused
  <2> QED
    BY <1>4, <2>2, <2>3 DEF FreeSpaceUnused
<1>13. TopAboveBottom'
  <2>1. Current \in heap /\ bottom <= top /\ top <= End(Current)
    BY <1>1 DEF RegionInv, TopAboveBottom
  <2>2. capacity'[Current] = capacity[Current]
    BY <1>3, <2>1
  <2> QED
    BY <1>2, <1>4, <2>1, <2>2 DEF TopAboveBottom, End
<1> QED
  BY <1>3, <1>4, <1>10, <1>11, <1>12, <1>13 DEF RegionInv, NothingHeld

\* A reusable chunk made current: nothing the caller holds is in it.
LEMMA MoreReuseRegions ==
  ASSUME ChainInv, RegionInv, MoreReuse
  PROVE  RegionInv'
<1> DEFINE next == fresh_chunks
<1>1. /\ InUse /\ InUse' /\ next # NULL
      /\ bottom' = next + HeaderSize /\ top' = End(next)
      /\ freshChain' = Tail(freshChain)
      /\ UNCHANGED <<pc, heap, capacity, live>>
  BY DEF MoreReuse, InUse
<1>2. \A c : End(c)' = End(c)
  BY <1>1 DEF End
<1>3. /\ freshChain \in Seq(Addresses) /\ Linked(ptr, freshChain, next) /\ NULL \notin Addresses
      /\ NoRepeats(freshChain)
  BY <1>1, ListsInUse
<1>4. freshChain # <<>> /\ next = freshChain[1] /\ Len(freshChain) \in Nat \ {0}
  BY <1>1, <1>3, HeadNull, EmptySeq
<1> HIDE DEF next
<1>5. /\ next \in heap /\ next \in Nat /\ capacity[next] \in Nat /\ HeaderSize \in Nat
      /\ End(next) = next + HeaderSize + capacity[next]
  <2>1. next \in heap
    BY <1>4, Numbers
  <2> QED
    BY <2>1, Numbers
<1>6. Current' = next
  BY <1>1, <1>5 DEF Current
<1>7. TopAboveBottom'
  BY <1>1, <1>2, <1>5, <1>6 DEF TopAboveBottom
<1>8. FreeSpaceUnused'
  <2>1. \A i \in 1 .. Len(freshChain') : i + 1 \in 1 .. Len(freshChain) /\ freshChain'[i] = freshChain[i + 1]
    <3>1. /\ Len(freshChain') = Len(freshChain) - 1
          /\ \A i \in 1 .. Len(freshChain') : freshChain'[i] = freshChain[i + 1]
      BY <1>1, <1>3, <1>4, HeadTailProperties
    <3>2. \A i \in 1 .. Len(freshChain) - 1 : i + 1 \in 1 .. Len(freshChain)
      BY <1>4
    <3> QED
      BY <3>1, <3>2
  <2>2. ASSUME NEW r \in live
        PROVE  Apart(r.addr, r.addr + r.size, next + HeaderSize, End(next))
    <3>1. Apart(r.addr, r.addr + r.size, next, End(next))
      BY <1>4 DEF RegionInv, FreeSpaceUnused
    <3>2. r.addr \in Int /\ r.size \in Nat
      BY Numbers
    <3> QED
      BY <1>5, <3>1, <3>2 DEF Apart
  <2>3. ASSUME NEW r \in live, NEW i \in 1 .. Len(freshChain')
        PROVE  Apart(r.addr, r.addr + r.size, freshChain'[i], End(freshChain'[i]))
    BY <2>1 DEF RegionInv, FreeSpaceUnused
  <2> QED
    BY <1>1, <1>2, <2>2, <2>3 DEF FreeSpaceUnused
<1>9. BlocksApart' /\ NothingHeld' /\ RegionsDisjoint'
  BY <1>1, <1>2 DEF RegionInv, BlocksApart, NothingHeld, RegionsDisjoint, MoreReuse
<1>10. RegionsInChunks'
  BY <1>1, <1>2 DEF RegionInv, RegionsInChunks
<1> QED
  BY <1>7, <1>8, <1>9, <1>10 DEF RegionInv

\* A new default chunk: the assumption makes the stale padding fit.
LEMMA MoreNewRegions ==
  ASSUME ChainInv, RegionInv, MoreNew, AlignmentFits
  PROVE  RegionInv'
<1>1. /\ InUse /\ InUse' /\ pc' = "idle" /\ fresh_chunks = NULL
      /\ HandOut(top', req) /\ freshChain' = freshChain
  BY DEF MoreNew, InUse
<1>2. PICK chunk \in Addresses :
        /\ senarena_chunk_new(chunk, DefaultChunkSize, Current)
        /\ bottom' = chunk + HeaderSize
        /\ top' = bottom' + DefaultChunkSize - AmountAndPadding(req)
  BY DEF MoreNew
<1>3. /\ MayReturn(chunk, DefaultChunkSize)
      /\ heap' = heap \cup {chunk}
      /\ capacity' = [capacity EXCEPT ![chunk] = DefaultChunkSize]
  BY <1>2 DEF senarena_chunk_new
<1>4. /\ BlocksApart'
      /\ chunk \in Nat /\ chunk \notin heap
      /\ End(chunk)' = chunk + HeaderSize + DefaultChunkSize
      /\ \A c \in heap : capacity'[c] = capacity[c]
      /\ \A c \in heap : chunk + HeaderSize + DefaultChunkSize <= c \/ End(c) <= chunk
      /\ \A r \in live : r.addr + r.size <= chunk \/ chunk + HeaderSize + DefaultChunkSize <= r.addr
  BY <1>3, NewBlock, ArenaConstants
<1>5. freshChain' = <<>> /\ Len(freshChain') = 0
  BY <1>1, ListsInUse, HeadNull, EmptySeq
<1>6. /\ req.amount \in Nat /\ AmountAndPadding(req) \in Nat
      /\ req.amount <= AmountAndPadding(req) /\ AmountAndPadding(req) <= DefaultChunkSize
  <2>1. req \in Request /\ top \in Int
    BY DEF ChainInv, Locals, MoreNew, TypeOK
  <2>2. /\ req.amount \in Nat /\ req.alignment \in Nat \ {0}
        /\ AmountAndPadding(req) \in Nat
        /\ req.amount <= AmountAndPadding(req)
        /\ AmountAndPadding(req) <= req.amount + req.alignment - 1
    BY <2>1, PaddingRange
  <2>3. ~(req.amount >= DefaultChunkSize \div 4)
    BY DEF MoreNew, IsLarge
  <2>4. DefaultChunkSize \in Nat /\ DefaultChunkSize \div 4 \in Int
    BY ArenaConstants
  <2>5. req.amount < DefaultChunkSize \div 4
    BY <2>2, <2>3, <2>4
  <2>6. req.amount + req.alignment - 1 <= DefaultChunkSize
    BY <2>1, <2>5 DEF AlignmentFits, Request
  <2> QED
    BY <2>2, <2>4, <2>6
<1>7. /\ HeaderSize \in Nat /\ DefaultChunkSize \in Nat
      /\ top' \in Int /\ bottom' <= top' /\ top' + req.amount <= End(chunk)'
      /\ top' <= End(chunk)' /\ Current' = chunk /\ chunk + HeaderSize <= top'
  <2>1. HeaderSize \in Nat /\ DefaultChunkSize \in Nat
    BY ArenaConstants
  <2> QED
    BY <1>2, <1>4, <1>6, <2>1 DEF Current
<1> DEFINE new == [addr |-> top', size |-> req.amount, align |-> req.alignment]
<1>8. live' = live \/ live' = live \cup {new}
  BY <1>1 DEF HandOut
<1>9. new.addr = top' /\ new.size = req.amount
  OBVIOUS
<1> HIDE DEF new
<1>10. ASSUME NEW s \in live
       PROVE  /\ Apart(new.addr, new.addr + new.size, s.addr, s.addr + s.size)
              /\ Apart(s.addr, s.addr + s.size, new.addr, new.addr + new.size)
              /\ Apart(s.addr, s.addr + s.size, bottom', top')
  <2>1. s.addr + s.size <= chunk \/ chunk + HeaderSize + DefaultChunkSize <= s.addr
    BY <1>4
  <2>2. s.addr \in Int /\ s.size \in Nat
    BY Numbers
  <2> QED
    BY <1>2, <1>4, <1>6, <1>7, <1>9, <2>1, <2>2 DEF Apart
<1>11. RegionsDisjoint'
  BY <1>8, <1>10 DEF RegionInv, RegionsDisjoint
<1>12. RegionsInChunks'
  <2>1. chunk \in heap' /\ chunk + HeaderSize <= new.addr /\ new.addr + new.size <= End(chunk)'
    BY <1>3, <1>7, <1>9
  <2>2. ASSUME NEW s \in live
        PROVE  \E c \in heap' : c + HeaderSize <= s.addr /\ s.addr + s.size <= End(c)'
    <3>1. PICK c \in heap : c + HeaderSize <= s.addr /\ s.addr + s.size <= End(c)
      BY DEF RegionInv, RegionsInChunks
    <3>2. c \in heap' /\ capacity'[c] = capacity[c]
      BY <1>3, <1>4
    <3> QED
      BY <3>1, <3>2 DEF End
  <2> QED
    BY <1>8, <2>1, <2>2 DEF RegionsInChunks
<1>13. FreeSpaceUnused'
  <2>1. Apart(new.addr, new.addr + new.size, bottom', top')
    BY <1>6, <1>7, <1>9 DEF Apart
  <2>2. \A s \in live' : Apart(s.addr, s.addr + s.size, bottom', top')
    BY <1>8, <1>10, <2>1
  <2> QED
    BY <1>5, <2>2 DEF FreeSpaceUnused
<1>14. TopAboveBottom'
  BY <1>3, <1>7 DEF TopAboveBottom
<1> QED
  BY <1>1, <1>4, <1>11, <1>12, <1>13, <1>14 DEF RegionInv, NothingHeld

-----------------------------------------------------------------------------
(* Clearing, joining, freeing.                                             *)

LEMMA ClearRegions ==
  ASSUME ChainInv, RegionInv, ClearDirect \/ ClearJoin
  PROVE  RegionInv'
<1>1. /\ InUse /\ live' = {} /\ top' = End(Current)
      /\ bottom' = bottom /\ heap' = heap /\ capacity' = capacity
  BY DEF ClearDirect, ClearJoin, InUse, heapVars
<1>2. Current' = Current /\ End(Current)' = End(Current)
  BY <1>1 DEF Current, End
<1>3. /\ Current \in heap /\ Current \in Nat /\ capacity[Current] \in Nat /\ HeaderSize \in Nat
      /\ bottom = Current + HeaderSize /\ End(Current) = Current + HeaderSize + capacity[Current]
  BY <1>1, Numbers
<1>4. TopAboveBottom'
  BY <1>1, <1>2, <1>3 DEF TopAboveBottom
<1> QED
  BY <1>1, <1>4, AllGivenBack

LEMMA JoinRegions ==
  ASSUME ChainInv, RegionInv, JoinStep \/ JoinEnd
  PROVE  RegionInv'
<1>1. /\ InUse /\ live' = {} /\ top' = top
      /\ bottom' = bottom /\ heap' = heap /\ capacity' = capacity
  BY DEF JoinStep, JoinEnd, InUse, arenaVars, heapVars, RegionInv, NothingHeld
<1>2. Current' = Current /\ End(Current)' = End(Current)
  BY <1>1 DEF Current, End
<1>3. TopAboveBottom'
  BY <1>1, <1>2 DEF RegionInv, TopAboveBottom
<1> QED
  BY <1>1, <1>3, AllGivenBack

LEMMA FreeRegions ==
  ASSUME ChainInv, RegionInv, FreeStart \/ FreeStep \/ FreeFresh \/ FreeEnd \/ MallocFails
  PROVE  RegionInv'
<1>1. live' = {} /\ ~InUse'
  BY DEF FreeStart, FreeStep, FreeFresh, FreeEnd, MallocFails, InUse, RegionInv, NothingHeld
<1>2. heap' \subseteq heap /\ \A c \in heap' : capacity'[c] = capacity[c]
  BY DEF FreeStart, FreeStep, FreeFresh, FreeEnd, MallocFails, Release, heapVars, ChainInv, TypeOK
<1>3. BlocksApart'
  BY <1>2 DEF RegionInv, BlocksApart, End, Apart
<1> QED
  BY <1>1, <1>3 DEF RegionInv, NothingHeld, RegionsDisjoint, RegionsInChunks, FreeSpaceUnused,
                   TopAboveBottom

LEMMA SameRegions ==
  ASSUME ChainInv, RegionInv,
         UNCHANGED <<top, bottom, heap, capacity, live, freshChain>>,
         InUse' => InUse,
         pc' \in {"idle", "alloc_more"} \/ live = {}
  PROVE  RegionInv'
<1>1. \A c : End(c)' = End(c)
  BY DEF End
<1>2. Current' = Current
  BY DEF Current
<1>3. BlocksApart' /\ NothingHeld' /\ RegionsDisjoint' /\ RegionsInChunks'
  BY <1>1 DEF RegionInv, BlocksApart, NothingHeld, RegionsDisjoint, RegionsInChunks
<1>4. FreeSpaceUnused' /\ TopAboveBottom'
  BY <1>1, <1>2 DEF RegionInv, FreeSpaceUnused, TopAboveBottom
<1> QED
  BY <1>3, <1>4 DEF RegionInv

LEMMA RegionStep == AlignmentFits /\ ChainInv /\ RegionInv /\ [Next]_vars => RegionInv'
<1> SUFFICES ASSUME AlignmentFits, ChainInv, RegionInv, [Next]_vars PROVE RegionInv'
  OBVIOUS
<1>1. CASE New
  BY <1>1, NewRegions
<1>2. ASSUME NEW r \in Request, AllocFast(r) PROVE RegionInv'
  BY <1>2, AllocFastRegions
<1>3. ASSUME NEW r \in Request, AllocSlow(r) PROVE RegionInv'
  <2>1. /\ UNCHANGED <<top, bottom, heap, capacity, live, freshChain>>
        /\ InUse /\ pc' = "alloc_more"
    BY <1>3 DEF AllocSlow, InUse, arenaVars, heapVars, chainVars
  <2> QED
    BY <2>1, SameRegions
<1>4. CASE ClearDirect \/ ClearJoin
  BY <1>4, ClearRegions
<1>5. CASE MoreLarge
  BY <1>5, MoreLargeRegions
<1>6. CASE MoreReuse
  BY <1>6, MoreReuseRegions
<1>7. CASE MoreNew
  BY <1>7, MoreNewRegions
<1>8. CASE MoreFits
  BY <1>8, MoreFitsRegions
<1>9. CASE JoinStep \/ JoinEnd
  BY <1>9, JoinRegions
<1>10. CASE FreeStart \/ FreeStep \/ FreeFresh \/ FreeEnd \/ MallocFails
  BY <1>10, FreeRegions
<1>11. CASE UNCHANGED vars
  <2>1. UNCHANGED <<pc, top, bottom, heap, capacity, live, freshChain>>
    BY <1>11 DEF vars, arenaVars, heapVars, chainVars
  <2>2. (InUse' => InUse) /\ (pc' \in {"idle", "alloc_more"} \/ live = {})
    BY <2>1 DEF InUse, RegionInv, NothingHeld
  <2> QED
    BY <2>1, <2>2, SameRegions
<1> QED
  BY <1>1, <1>2, <1>3, <1>4, <1>5, <1>6, <1>7, <1>8, <1>9, <1>10, <1>11
     DEF Next, Caller, Code, Alloc, Exited

LEMMA RegionInvariant == AlignmentFits => (Spec => []RegionInv)
<1>1. AlignmentFits /\ Spec => []RegionInv
  <2>1. AlignmentFits => (ChainInv /\ RegionInv /\ [Next]_vars => RegionInv')
    BY RegionStep
  <2> SUFFICES ASSUME AlignmentFits PROVE Spec => []RegionInv
    OBVIOUS
  <2>2. ChainInv /\ RegionInv /\ [Next]_vars => RegionInv'
    BY <2>1
  <2> QED
    BY RegionInit, ChainInvariant, <2>2, PTL DEF Spec
<1> QED
  BY <1>1

-----------------------------------------------------------------------------
(* The theorems about the memory handed out.                               *)

\* No two allocations the caller still holds share a byte, whichever of the
\* paths of senarena_alloc and senarena_alloc_more served them.
THEOREM ArenaRegionsDisjoint == AlignmentFits => (Spec => []RegionsDisjoint)
<1>1. RegionInv => RegionsDisjoint
  BY DEF RegionInv
<1> SUFFICES ASSUME AlignmentFits PROVE Spec => []RegionsDisjoint
  OBVIOUS
<1>2. Spec => []RegionInv
  BY RegionInvariant
<1> QED
  BY <1>1, <1>2, PTL

\* Every allocation lies in the data bytes of a chunk that is still malloced.
THEOREM ArenaRegionsInChunks == AlignmentFits => (Spec => []RegionsInChunks)
<1>1. RegionInv => RegionsInChunks
  BY DEF RegionInv
<1> SUFFICES ASSUME AlignmentFits PROVE Spec => []RegionsInChunks
  OBVIOUS
<1>2. Spec => []RegionInv
  BY RegionInvariant
<1> QED
  BY <1>1, <1>2, PTL

\* The unsigned difference top - bottom never wraps, and top never leaves the
\* current chunk.
THEOREM ArenaTopAboveBottom == AlignmentFits => (Spec => []TopAboveBottom)
<1>1. RegionInv => TopAboveBottom
  BY DEF RegionInv
<1> SUFFICES ASSUME AlignmentFits PROVE Spec => []TopAboveBottom
  OBVIOUS
<1>2. Spec => []RegionInv
  BY RegionInvariant
<1> QED
  BY <1>1, <1>2, PTL

\* What the arena hands out next, from the current chunk or after making a
\* reusable one current, is nothing the caller still holds.
THEOREM ArenaFreeSpaceUnused == AlignmentFits => (Spec => []FreeSpaceUnused)
<1>1. RegionInv => FreeSpaceUnused
  BY DEF RegionInv
<1> SUFFICES ASSUME AlignmentFits PROVE Spec => []FreeSpaceUnused
  OBVIOUS
<1>2. Spec => []RegionInv
  BY RegionInvariant
<1> QED
  BY <1>1, <1>2, PTL

-----------------------------------------------------------------------------
(* The refinement: one lemma per kind of step.  Each concrete step is one  *)
(* step of the contract, or a stutter.                                     *)

LEMMA ContractStates ==
  /\ pc = "none" => ContractState = "closed"
  /\ InUse => ContractState = "open"
  /\ pc \in {"free_old", "free_fresh"} => ContractState = "closing"
  /\ pc = "exited" => ContractState = "ended"
BY DEF ContractState, InUse

LEMMA ContractInit == Init => Contract!Init
BY ContractStates DEF Init, Contract!Init, Blocks

\* Chunks are told apart by the address of their data.
LEMMA BlocksDiffer ==
  ASSUME ChainInv, NEW c \in Addresses, NEW d \in Addresses, Block(c) = Block(d)
  PROVE  c = d
<1>1. c + HeaderSize = d + HeaderSize
  <2>1. Block(c).addr = c + HeaderSize /\ Block(d).addr = d + HeaderSize
    BY DEF Block
  <2> QED
    BY <2>1
<1>2. c \in Nat /\ d \in Nat /\ HeaderSize \in Nat
  BY Numbers
<1> QED
  BY <1>1, <1>2

\* A step that changes neither the chunks nor their capacities.
LEMMA SameBlocks ==
  ASSUME UNCHANGED <<heap, capacity>>
  PROVE  UNCHANGED Blocks /\ Contract!GrowsAtMostByOne
BY DEF Blocks, Block, Contract!GrowsAtMostByOne

\* A chunk malloced: the arena owns one block more, apart from the others.
LEMMA OneBlockMore ==
  ASSUME ChainInv, RegionInv, NEW chunk \in Addresses, NEW size \in Nat,
         MayReturn(chunk, size),
         heap' = heap \cup {chunk},
         capacity' = [capacity EXCEPT ![chunk] = size]
  PROVE  Contract!GrowsAtMostByOne /\ Blocks' # {}
<1> DEFINE b == [addr |-> chunk + HeaderSize, size |-> size]
<1>1. /\ TypeOK /\ heap \subseteq Addresses /\ HeaderSize \in Nat
      /\ chunk \in Nat /\ chunk \notin heap
      /\ \A c \in heap : capacity'[c] = capacity[c]
      /\ \A c \in heap : chunk + HeaderSize + size <= c \/ End(c) <= chunk
  BY NewBlock, Numbers DEF ChainInv, TypeOK
<1>2. capacity'[chunk] = size
  BY <1>1 DEF TypeOK
<1>3. Block(chunk)' = b
  BY <1>2 DEF Block
<1>4. \A c \in heap : Block(c)' = Block(c)
  BY <1>1 DEF Block
<1>5. Blocks' = Blocks \cup {b}
  BY <1>3, <1>4 DEF Blocks
<1>6. ASSUME NEW c \in heap
      PROVE  Block(c) # b /\ Contract!Disjoint(b, Block(c))
  <2>1. /\ c \in Nat /\ capacity[c] \in Nat /\ End(c) = c + HeaderSize + capacity[c]
        /\ c # chunk
    BY <1>1, Numbers
  <2>2. /\ b.addr = chunk + HeaderSize /\ b.size = size
        /\ Block(c).addr = c + HeaderSize /\ Block(c).size = capacity[c]
    BY DEF Block
  <2>3. Block(c).addr # b.addr
    BY <1>1, <2>1, <2>2
  <2>4. b.addr + b.size <= Block(c).addr \/ Block(c).addr + Block(c).size <= b.addr
    BY <1>1, <2>1, <2>2
  <2> QED
    BY <2>3, <2>4 DEF Contract!Disjoint
<1> HIDE DEF b
<1>7. b \in Blocks' /\ Blocks' \ {b} = Blocks /\ \A c \in Blocks : Contract!Disjoint(b, c)
  BY <1>5, <1>6 DEF Blocks
<1> QED
  BY <1>7 DEF Contract!GrowsAtMostByOne

\* What HandOut gives the caller is what the contract allows, when the invariant
\* holds of the memory after the step.
LEMMA HandedOut ==
  ASSUME ChainInv, ChainInv', RegionInv', InUse, InUse', Contract!GrowsAtMostByOne,
         NEW address, NEW r, HandOut(address, r)
  PROVE  Contract!Allocate
<1> DEFINE new == [addr |-> address, size |-> r.amount, align |-> r.alignment]
<1>1. ContractState = "open" /\ ContractState' = "open"
  BY ContractStates DEF ContractState, InUse
<1>2. CASE UNCHANGED live
  BY <1>1, <1>2 DEF Contract!Allocate
<1>3. CASE live' = live \cup {new}
  <2>1. new \in live' /\ live' \ {new} = live \ {new}
    BY <1>3
  <2> HIDE DEF new
  <2>2. \A s \in live \ {new} : Contract!Disjoint(new, s)
    BY <1>3 DEF RegionInv, RegionsDisjoint, Apart, Contract!Disjoint
  <2>3. \E b \in Blocks' : Contract!Within(new, b)
    <3>1. PICK c \in heap' : c + HeaderSize <= new.addr /\ new.addr + new.size <= End(c)'
      BY <2>1 DEF RegionInv, RegionsInChunks
    <3>2. Block(c)' \in Blocks'
      BY DEF Blocks
    <3>3. Block(c)'.addr = c + HeaderSize /\ Block(c)'.size = capacity'[c]
      BY DEF Block
    <3> QED
      BY <3>1, <3>2, <3>3 DEF Contract!Within, End
  <2> QED
    BY <1>1, <2>1, <2>2, <2>3 DEF Contract!Allocate
<1> QED
  BY <1>2, <1>3 DEF HandOut

\* A step inside a call that neither mallocs nor hands out anything.
LEMMA ContractStutter ==
  ASSUME UNCHANGED <<heap, capacity, live>>, InUse, InUse'
  PROVE  UNCHANGED <<ContractState, Blocks, live>>
BY SameBlocks DEF ContractState, InUse

LEMMA NewMaps ==
  ASSUME ChainInv, RegionInv, New
  PROVE  Contract!Open
<1>1. PICK chunk \in Addresses : senarena_chunk_new(chunk, DefaultChunkSize, NULL)
  BY DEF New
<1>2. Contract!GrowsAtMostByOne /\ Blocks' # {}
  BY <1>1, OneBlockMore, ArenaConstants DEF senarena_chunk_new
<1>3. ContractState = "closed" /\ ContractState' = "open" /\ live' = live
  BY DEF New, ContractState, InUse
<1> QED
  BY <1>2, <1>3 DEF Contract!Open

\* The three paths of senarena_alloc that serve a request, each with the region
\* it hands out.
LEMMA AllocFastMaps ==
  ASSUME ChainInv, ChainInv', RegionInv', NEW r \in Request, AllocFast(r)
  PROVE  Contract!Allocate
<1>1. InUse /\ InUse' /\ HandOut(top', r) /\ Contract!GrowsAtMostByOne
  BY SameBlocks DEF AllocFast, InUse, heapVars
<1> QED
  BY <1>1, HandedOut

LEMMA MoreFitsMaps ==
  ASSUME ChainInv, ChainInv', RegionInv', MoreFits
  PROVE  Contract!Allocate
<1>1. InUse /\ InUse' /\ HandOut(top', req) /\ Contract!GrowsAtMostByOne
  BY SameBlocks DEF MoreFits, InUse, heapVars
<1> QED
  BY <1>1, HandedOut

LEMMA MoreNewMaps ==
  ASSUME ChainInv, RegionInv, ChainInv', RegionInv', MoreNew
  PROVE  Contract!Allocate
<1>1. PICK chunk \in Addresses : senarena_chunk_new(chunk, DefaultChunkSize, Current)
  BY DEF MoreNew
<1>2. Contract!GrowsAtMostByOne
  BY <1>1, OneBlockMore, ArenaConstants DEF senarena_chunk_new
<1>3. InUse /\ InUse' /\ HandOut(top', req)
  BY DEF MoreNew, InUse
<1> QED
  BY <1>2, <1>3, HandedOut

LEMMA MoreLargeMaps ==
  ASSUME ChainInv, RegionInv, ChainInv', RegionInv', MoreLarge
  PROVE  Contract!Allocate
<1> DEFINE extra == senarena_extra_fresh_bytes_needed(req.alignment)
           size  == req.amount + extra
<1>1. InUse /\ InUse' /\ size \in Nat
  <2>1. req \in Request
    BY DEF ChainInv, Locals, MoreLarge
  <2>2. req.amount \in Nat /\ req.alignment \in Nat \ {0}
    BY <2>1, ArenaConstants DEF Request
  <2>3. extra \in Nat
    BY <2>2, FreshPaddingRange
  <2> QED
    BY <2>2, <2>3 DEF MoreLarge, InUse
<1>2. PICK chunk \in Addresses :
        /\ MayReturn(chunk, size)
        /\ heap' = heap \cup {chunk}
        /\ capacity' = [capacity EXCEPT ![chunk] = size]
        /\ HandOut(chunk + HeaderSize + extra, req)
  BY DEF MoreLarge
<1> HIDE DEF size, extra
<1>3. Contract!GrowsAtMostByOne
  BY <1>1, <1>2, OneBlockMore
<1> QED
  BY <1>1, <1>2, <1>3, HandedOut

\* senarena_clear gives everything back in its first step; the join of the lists
\* is invisible to the caller.
LEMMA ClearMaps ==
  ASSUME ClearDirect \/ ClearJoin
  PROVE  Contract!Clear
BY SameBlocks DEF ClearDirect, ClearJoin, heapVars, InUse, ContractState, Contract!Clear

LEMMA FreeStartMaps ==
  ASSUME FreeStart
  PROVE  Contract!Close
BY SameBlocks DEF FreeStart, heapVars, InUse, ContractState, Contract!Close

\* One iteration of the loop of senarena_free_chunk_chain gives one block back.
LEMMA FreeStepMaps ==
  ASSUME ChainInv, RegionInv, FreeStep
  PROVE  Contract!GiveBack
<1>1. cursor \in heap /\ heap \subseteq Addresses /\ capacity \in [Addresses -> Nat]
  <2>1. NoUseAfterFree
    BY ChainSafe
  <2> QED
    BY <2>1 DEF NoUseAfterFree, FreeStep, ChainInv, TypeOK
<1>2. heap' = heap \ {cursor} /\ \A c \in heap' : Block(c)' = Block(c)
  BY <1>1 DEF FreeStep, Release, Block
<1>3. \A c \in heap' : Block(c) # Block(cursor)
  BY <1>1, <1>2, BlocksDiffer
<1>4. Block(cursor) \in Blocks /\ Blocks' = Blocks \ {Block(cursor)}
  BY <1>1, <1>2, <1>3 DEF Blocks
<1>5. ContractState = "closing" /\ ContractState' = "closing" /\ live' = live
  BY DEF FreeStep, ContractState, InUse
<1> QED
  BY <1>4, <1>5 DEF Contract!GiveBack

\* The caller has no arena any more only when no block is left.
LEMMA FreeEndMaps ==
  ASSUME ChainInv, FreeEnd
  PROVE  Contract!Closed
<1>1. heap' = heap /\ capacity' = capacity /\ live' = live /\ pc' = "none"
  BY DEF FreeEnd, heapVars
<1>2. heap = {}
  BY NoChunksLeft DEF FreeEnd
<1>3. Blocks = {} /\ Blocks' = {}
  BY <1>1, <1>2 DEF Blocks
<1>4. ContractState = "closing" /\ ContractState' = "closed"
  BY <1>1 DEF FreeEnd, ContractState, InUse
<1> QED
  BY <1>1, <1>3, <1>4 DEF Contract!Closed

LEMMA MallocFailsMaps ==
  ASSUME MallocFails
  PROVE  Contract!End
<1>1. Blocks' = {} /\ live' = {}
  BY DEF MallocFails, Blocks
<1>2. ContractState \in {"closed", "open"} /\ ContractState' = "ended"
  BY DEF MallocFails, ContractState, InUse
<1> QED
  BY <1>1, <1>2 DEF Contract!End

\* Every step of the arena is a step of its contract, or invisible in it.
LEMMA ContractStep ==
  ChainInv /\ RegionInv /\ ChainInv' /\ RegionInv' /\ [Next]_vars
    => [Contract!Next]_<<ContractState, Blocks, live>>
<1> SUFFICES ASSUME ChainInv, RegionInv, ChainInv', RegionInv', [Next]_vars
             PROVE  Contract!Next \/ UNCHANGED <<ContractState, Blocks, live>>
  OBVIOUS
<1>1. CASE New
  BY <1>1, NewMaps DEF Contract!Next
<1>2. ASSUME NEW r \in Request, AllocFast(r) PROVE Contract!Next
  BY <1>2, AllocFastMaps DEF Contract!Next
<1>3. ASSUME NEW r \in Request, AllocSlow(r)
      PROVE  UNCHANGED <<ContractState, Blocks, live>>
  BY <1>3, ContractStutter DEF AllocSlow, InUse, heapVars
<1>4. CASE ClearDirect \/ ClearJoin
  BY <1>4, ClearMaps DEF Contract!Next
<1>5. CASE MoreLarge
  BY <1>5, MoreLargeMaps DEF Contract!Next
<1>6. CASE MoreNew
  BY <1>6, MoreNewMaps DEF Contract!Next
<1>7. CASE MoreFits
  BY <1>7, MoreFitsMaps DEF Contract!Next
<1>8. CASE MoreReuse \/ JoinStep \/ JoinEnd
  BY <1>8, ContractStutter DEF MoreReuse, JoinStep, JoinEnd, InUse, heapVars
<1>9. CASE FreeStart
  BY <1>9, FreeStartMaps DEF Contract!Next
<1>10. CASE FreeStep
  BY <1>10, FreeStepMaps DEF Contract!Next
<1>11. CASE FreeFresh
  BY <1>11, SameBlocks DEF FreeFresh, heapVars, ContractState, InUse
<1>12. CASE FreeEnd
  BY <1>12, FreeEndMaps DEF Contract!Next
<1>13. CASE MallocFails
  BY <1>13, MallocFailsMaps DEF Contract!Next
<1>14. CASE UNCHANGED vars
  BY <1>14, SameBlocks DEF vars, heapVars, ContractState, InUse
<1> QED
  BY <1>1, <1>2, <1>3, <1>4, <1>5, <1>6, <1>7, <1>8, <1>9, <1>10, <1>11, <1>12, <1>13, <1>14
     DEF Next, Caller, Code, Alloc, Exited

\* The arena, with its two chunk lists, its reuse and its large chunks, keeps the
\* contract of module Region: what senarena_alloc returns is new memory inside a
\* block the arena owns and apart from what the caller holds, senarena_clear keeps
\* every block, senarena_free gives all of them back before it returns.
THEOREM ArenaImplementsRegion == AlignmentFits => (Spec => ArenaKeepsContract)
<1> SUFFICES ASSUME AlignmentFits PROVE Spec => ArenaKeepsContract
  OBVIOUS
<1>1. Spec => []RegionInv
  BY RegionInvariant
<1> QED
  BY <1>1, ChainInvariant, ContractInit, ContractStep, PTL
     DEF Spec, ArenaKeepsContract, Contract!Spec, Contract!vars

-----------------------------------------------------------------------------
(***************************************************************************)
(* Proofs about the machine words of the arena: with the invariants of the *)
(* chunk lists and of the regions, the words stand for the integers, for   *)
(* every word size.                                                        *)
(***************************************************************************)
\* What the system gives every program: blocks start in the lower half of the
\* address space, and no block is larger than that.
WordsSuffice ==
  /\ \A c \in Addresses : c < WordValues \div 2
  /\ HeaderSize + DefaultChunkSize < WordValues \div 2
  /\ \A amount \in Sizes, alignment \in Alignments :
       amount + alignment + HeaderSize < WordValues \div 2

\* Every chunk is smaller than half of the address space, also one made for a
\* large request and reused since.
ChunksSmall == \A c \in heap : HeaderSize + capacity[c] < WordValues \div 2

-----------------------------------------------------------------------------
(* Arithmetic.                                                             *)

LEMMA WordSizes ==
  /\ WordValues \in Nat /\ HeaderSize \in Nat /\ DefaultChunkSize \in Nat
  /\ WordValues \div 2 \in Nat
  /\ WordValues = 2 * (WordValues \div 2)
<1>1. WordValues \in Nat /\ WordValues % 2 = 0
  BY WidthConstants
<1> QED
  BY <1>1, ArenaConstants

\* A number that a word holds is not changed by keeping it in one.
LEMMA WordIsExact ==
  ASSUME NEW n \in Nat, n < WordValues
  PROVE  Word(n) = n
<1>1. WordValues \in Nat \ {0}
  BY WidthConstants
<1> QED
  BY <1>1, SMT DEF Word

\* Nor by taking it for a signed one, in the lower half.
LEMMA SignedIsExact ==
  ASSUME NEW n \in Nat, n < WordValues \div 2
  PROVE  Signed(n) = n
<1>1. WordValues \div 2 \in Nat
  BY WordSizes
<1>2. ~(n >= WordValues \div 2)
  BY <1>1
<1> QED
  BY <1>2 DEF Signed

\* Numbers that differ by a multiple of a leave the same remainder.
LEMMA SameRemainder ==
  ASSUME NEW a \in Nat \ {0}, NEW x \in Int, NEW k \in Int
  PROVE  (x + k * a) % a = x % a
<1>1. /\ (x % a) \in 0 .. a - 1 /\ x \div a \in Int
      /\ x = (x \div a) * a + (x % a)
  BY SMT
<1>2. (x \div a + k) * a = (x \div a) * a + k * a
  BY <1>1, SMT
<1> DEFINE y == x + k * a
           q == x \div a + k
           r == x % a
<1>3. y \in Int /\ q \in Int /\ r \in Int /\ 0 <= r /\ r < a
  BY <1>1, SMT
<1>4. y = q * a + r
  <2>1. (x \div a) * a \in Int /\ k * a \in Int
    BY <1>1, SMT
  <2> QED
    BY <1>1, <1>2, <2>1
<1> HIDE DEF y, q, r
<1>5. /\ (y % a) \in 0 .. a - 1 /\ y \div a \in Int
      /\ y = (y \div a) * a + (y % a)
  BY <1>3, SMT
<1>6. (y \div a - q) * a = r - (y % a)
  <2>1. (y \div a - q) * a = (y \div a) * a - q * a
    BY <1>3, <1>5, SMT
  <2>2. (y \div a) * a \in Int /\ q * a \in Int
    BY <1>3, <1>5, SMT
  <2> QED
    BY <1>3, <1>4, <1>5, <2>1, <2>2
<1>7. y \div a - q = 0
  <2> DEFINE d == y \div a - q
  <2>1. d \in Int /\ d * a = r - (y % a) /\ (y % a) \in Int /\ 0 <= (y % a) /\ (y % a) < a
    BY <1>3, <1>5, <1>6
  <2> HIDE DEF d
  <2>2. d >= 1 => d * a >= a
    BY <2>1, SMT
  <2>3. d <= -1 => d * a <= -a
    BY <2>1, SMT
  <2>4. d = 0
    BY <1>3, <2>1, <2>2, <2>3
  <2> QED
    BY <2>4 DEF d
<1>8. r = y % a
  BY <1>3, <1>5, <1>6, <1>7
<1> QED
  BY <1>8 DEF y, r

\* A word keeps the remainder by a power of two no larger than the number of words.
LEMMA WordKeepsRemainder ==
  ASSUME NEW a \in Alignments, NEW x \in Int
  PROVE  Word(x) % a = x % a
<1>1. a \in Nat \ {0} /\ WordValues \in Nat \ {0} /\ WordValues % a = 0
  BY ArenaConstants, WidthConstants
<1> DEFINE w == x % WordValues
           q == x \div WordValues
           m == WordValues \div a
<1>2. w \in Int /\ q \in Int /\ x = q * WordValues + w
  BY <1>1, SMT
<1>3. m \in Int /\ WordValues = m * a
  BY <1>1, SMT
<1> HIDE DEF w, q, m
<1>4. q * m \in Int /\ (q * m) * a = q * (m * a)
  BY <1>1, <1>2, <1>3, SMT
<1>5. x = w + (q * m) * a
  <2>1. x = q * (m * a) + w
    BY <1>2, <1>3
  <2>2. q * (m * a) \in Int
    BY <1>1, <1>2, <1>3, SMT
  <2> QED
    BY <1>2, <1>4, <2>1, <2>2
<1>6. (w + (q * m) * a) % a = w % a
  BY <1>1, <1>2, <1>4, SameRemainder
<1> QED
  BY <1>5, <1>6 DEF Word, w

-----------------------------------------------------------------------------
(* The size of chunks.                                                     *)

\* The padding of a large request stays below its alignment.
LEMMA FreshPaddingBound ==
  ASSUME NEW alignment \in Nat \ {0}
  PROVE  senarena_extra_fresh_bytes_needed(alignment) \in 0 .. alignment - 1
<1>1. HeaderSize \in Int
  BY ArenaConstants
<1> QED
  BY <1>1, ModRange DEF senarena_extra_fresh_bytes_needed, senarena_extra_bytes_needed

LEMMA NewChunkSmall ==
  ASSUME TypeOK, ChunksSmall, NEW chunk \in Addresses, NEW size \in Nat,
         HeaderSize + size < WordValues \div 2,
         heap' = heap \cup {chunk}, capacity' = [capacity EXCEPT ![chunk] = size]
  PROVE  ChunksSmall'
BY DEF ChunksSmall, TypeOK

LEMMA SmallStep == WordsSuffice /\ ChainInv /\ ChunksSmall /\ [Next]_vars => ChunksSmall'
<1> SUFFICES ASSUME WordsSuffice, ChainInv, ChunksSmall, [Next]_vars PROVE ChunksSmall'
  OBVIOUS
<1>1. TypeOK /\ DefaultChunkSize \in Nat /\ HeaderSize \in Nat /\ WordValues \div 2 \in Nat
  BY WordSizes DEF ChainInv
<1>2. CASE New \/ MoreNew
  <2>1. \E chunk \in Addresses : \E p : senarena_chunk_new(chunk, DefaultChunkSize, p)
    BY <1>2 DEF New, MoreNew
  <2> QED
    BY <1>1, <2>1, NewChunkSmall DEF senarena_chunk_new, WordsSuffice
<1>3. CASE MoreLarge
  <2> DEFINE extra == senarena_extra_fresh_bytes_needed(req.alignment)
             size  == req.amount + extra
  <2>1. req \in Request
    BY <1>3 DEF ChainInv, Locals, MoreLarge
  <2>2. /\ req.amount \in Sizes /\ req.alignment \in Alignments
        /\ req.amount \in Nat /\ req.alignment \in Nat \ {0}
    BY <2>1, ArenaConstants DEF Request
  <2>3. extra \in 0 .. req.alignment - 1
    BY <2>2, FreshPaddingBound
  <2>4. PICK chunk \in Addresses :
          heap' = heap \cup {chunk} /\ capacity' = [capacity EXCEPT ![chunk] = size]
    BY <1>3 DEF MoreLarge
  <2> HIDE DEF extra
  <2>5. req.amount + req.alignment + HeaderSize < WordValues \div 2
    BY <2>2 DEF WordsSuffice
  <2>6. size \in Nat /\ HeaderSize + size < WordValues \div 2
    BY <1>1, <2>2, <2>3, <2>5
  <2> QED
    BY <1>1, <2>4, <2>6, NewChunkSmall
<1>4. CASE UNCHANGED <<heap, capacity>>
  BY <1>4 DEF ChunksSmall
<1>5. CASE FreeStep \/ MallocFails
  BY <1>5, <1>1 DEF FreeStep, MallocFails, Release, ChunksSmall, TypeOK
<1>6. \/ New \/ MoreNew \/ MoreLarge \/ FreeStep \/ MallocFails
      \/ UNCHANGED <<heap, capacity>>
  <2>1. CASE Alloc \/ MoreFits \/ MoreReuse
    BY <2>1 DEF Alloc, AllocFast, AllocSlow, MoreFits, MoreReuse, heapVars
  <2>2. CASE ClearDirect \/ ClearJoin \/ JoinStep \/ JoinEnd
    BY <2>2 DEF ClearDirect, ClearJoin, JoinStep, JoinEnd, heapVars
  <2>3. CASE FreeStart \/ FreeFresh \/ FreeEnd \/ Exited \/ UNCHANGED vars
    BY <2>3 DEF FreeStart, FreeFresh, FreeEnd, Exited, vars, heapVars
  <2> QED
    BY <2>1, <2>2, <2>3 DEF Next, Caller, Code
<1> QED
  BY <1>2, <1>3, <1>4, <1>5, <1>6

-----------------------------------------------------------------------------
(* The tests in words.                                                     *)

LEMMA WordsStandForNumbers ==
  ASSUME WordsSuffice, ChainInv, RegionInv, ChunksSmall
  PROVE  WidthSuffices
<1> SUFFICES ASSUME pc \in {"idle", "alloc_more"},
                    NEW r \in WideRequests,
                    r.amount + r.alignment + HeaderSize < WordValues \div 2
             PROVE  /\ WordFits(r) <=> Fits(r)
                    /\ SignedFits(r) <=> Fits(r)
                    /\ Fits(r) => Word(top - WordAmountAndPadding(r)) = top - AmountAndPadding(r)
                    /\ WordSize(r) >= HeaderSize + r.amount
  BY DEF WidthSuffices
<1> DEFINE half == WordValues \div 2
           padding == senarena_extra_bytes_needed(top - r.amount, r.alignment)
           room == top - bottom
<1>1. half \in Nat /\ WordValues = 2 * half /\ HeaderSize \in Nat
  BY WordSizes
<1>2. r.amount \in Nat /\ r.alignment \in Alignments /\ r.alignment \in Nat \ {0}
  BY WidthConstants, ArenaConstants DEF WideRequests
<1>3. /\ Current \in heap /\ Current \in Nat /\ Current < half
      /\ bottom = Current + HeaderSize /\ bottom <= top
      /\ top <= Current + HeaderSize + capacity[Current]
      /\ capacity[Current] \in Nat /\ HeaderSize + capacity[Current] < half
      /\ top \in Int
  <2>1. InUse /\ TypeOK
    BY DEF InUse, ChainInv
  <2>2. Current \in heap /\ bottom <= top /\ top <= End(Current)
    BY <2>1 DEF RegionInv, TopAboveBottom
  <2> QED
    BY <2>1, <2>2, Numbers DEF ChunksSmall, WordsSuffice, TypeOK
<1>4. padding \in 0 .. r.alignment - 1
  <2>1. top - r.amount \in Int
    BY <1>2, <1>3
  <2> QED
    BY <1>2, <2>1, ModRange DEF senarena_extra_bytes_needed
<1>5. senarena_extra_bytes_needed(Word(top - r.amount), r.alignment) = padding
  <2>1. top - r.amount \in Int
    BY <1>2, <1>3
  <2> QED
    BY <1>2, <2>1, WordKeepsRemainder DEF senarena_extra_bytes_needed
<1>6. AmountAndPadding(r) = r.amount + padding
  BY DEF AmountAndPadding
<1> HIDE DEF half, padding, room
<1>7. /\ r.amount + padding \in Nat /\ r.amount + padding < half
      /\ r.amount + padding < WordValues
  BY <1>1, <1>2, <1>4 DEF half
<1>8. WordAmountAndPadding(r) = r.amount + padding
  BY <1>5, <1>7, WordIsExact DEF WordAmountAndPadding
<1>9. room \in Nat /\ room < half /\ room < WordValues
  BY <1>1, <1>3 DEF room
<1>10. Word(room) = room
  BY <1>9, WordIsExact
<1>11. WordFits(r) <=> Fits(r)
  BY <1>6, <1>8, <1>10 DEF WordFits, Fits, room
<1>12. SignedFits(r) <=> Fits(r)
  <2>1. Signed(r.amount + padding) = r.amount + padding /\ Signed(room) = room
    BY <1>7, <1>9, SignedIsExact DEF half
  <2> QED
    BY <1>6, <1>8, <1>10, <2>1 DEF SignedFits, Fits, room
<1>13. Fits(r) => Word(top - WordAmountAndPadding(r)) = top - AmountAndPadding(r)
  <2> HAVE Fits(r)
  <2>1. r.amount + padding <= top - bottom
    BY <1>6 DEF Fits
  <2>2. top - (r.amount + padding) \in Nat /\ top - (r.amount + padding) < WordValues
    BY <1>1, <1>3, <1>7, <2>1
  <2> QED
    BY <1>6, <1>8, <2>2, WordIsExact
<1>14. WordSize(r) >= HeaderSize + r.amount
  <2> DEFINE extra == senarena_extra_fresh_bytes_needed(r.alignment)
  <2>1. extra \in 0 .. r.alignment - 1
    BY <1>2, FreshPaddingBound
  <2> HIDE DEF extra
  <2>2. /\ r.amount + extra \in Nat /\ r.amount + extra < WordValues
        /\ r.amount + extra + HeaderSize \in Nat
        /\ r.amount + extra + HeaderSize < WordValues
        /\ r.amount + extra + HeaderSize >= HeaderSize + r.amount
    BY <1>1, <1>2, <2>1 DEF half
  <2>3. WordSize(r) = Word(Word(r.amount + extra) + HeaderSize)
    BY DEF WordSize, extra
  <2> QED
    BY <2>2, <2>3, WordIsExact
<1> QED
  BY <1>11, <1>12, <1>13, <1>14

\* In words of any size, for requests below half of the address space, the
\* unsigned test of senarena_alloc and the signed one of senarena_alloc_more decide
\* as the integers of Arena do, top is lowered by what they say, and the block
\* malloced for a large request has room for header, padding and amount.
THEOREM ArenaWidthSuffices ==
  AlignmentFits /\ WordsSuffice => (Spec => []WidthSuffices)
<1> SUFFICES ASSUME AlignmentFits, WordsSuffice PROVE Spec => []WidthSuffices
  OBVIOUS
<1>1. Init => ChunksSmall
  BY DEF Init, ChunksSmall
<1>2. ChainInv /\ ChunksSmall /\ [Next]_vars => ChunksSmall'
  BY SmallStep
<1>3. ChainInv /\ RegionInv /\ ChunksSmall => WidthSuffices
  BY WordsStandForNumbers
<1>4. Spec => []RegionInv
  BY RegionInvariant
<1> QED
  BY <1>1, <1>2, <1>3, <1>4, ChainInvariant, PTL DEF Spec

-----------------------------------------------------------------------------
(***************************************************************************)
(* Proofs about alignment: when what senarena_alloc_more computes from the *)
(* chunk it leaves is right for the chunk it moves to.                     *)
(***************************************************************************)
\* Everything goes in steps of a: the addresses of malloc, the header, the default
\* chunk; a request is a multiple of a, or is a small one aligned to a itself, which
\* its padding makes a multiple.
Grain(a) ==
  /\ MallocAlign % a = 0 /\ HeaderSize % a = 0 /\ DefaultChunkSize % a = 0
  /\ \A alignment \in Alignments : a % alignment = 0
  /\ \A r \in Request : r.amount % a = 0 \/ (r.alignment = a /\ ~IsLarge(r))

\* An arena of one type, or of types whose sizes are multiples of one alignment
\* that every other divides.
AlignmentsAgree == \E a \in Nat \ {0} : Grain(a)

\* Every chunk starts and ends at a multiple of a, and so does the free space.
AlignInv(a) ==
  /\ \A c \in heap : c % a = 0 /\ End(c) % a = 0
  /\ InUse => top % a = 0
  /\ AllocationsAligned

-----------------------------------------------------------------------------
(* Arithmetic.                                                             *)

\* Multiples of a add up to multiples of a, and so do their differences.
LEMMA SumOfMultiples ==
  ASSUME NEW a \in Nat \ {0}, NEW x \in Int, NEW y \in Int, y % a = 0
  PROVE  (x + y) % a = x % a /\ (x - y) % a = x % a
<1> DEFINE k == y \div a
<1>1. k \in Int /\ y = k * a
  BY SMT
<1> HIDE DEF k
<1>2. (x + k * a) % a = x % a
  BY <1>1, SameRemainder
<1>3. (x + (-k) * a) % a = x % a
  <2>1. -k \in Int
    BY <1>1
  <2> QED
    BY <2>1, SameRemainder
<1>4. (-k) * a = -(k * a)
  BY <1>1, SMT
<1>5. x + (-k) * a = x - y
  BY <1>1, <1>4
<1> QED
  BY <1>1, <1>2, <1>3, <1>5

\* A multiple of a multiple of b is a multiple of b.
LEMMA MultipleOfMultiple ==
  ASSUME NEW a \in Nat \ {0}, NEW b \in Nat \ {0}, NEW x \in Int, x % a = 0, a % b = 0
  PROVE  x % b = 0
<1> DEFINE k == x \div a
           m == a \div b
<1>1. k \in Int /\ x = k * a /\ m \in Int /\ a = m * b
  BY SMT
<1> HIDE DEF k, m
<1> DEFINE n == k * m
<1>2. n \in Int /\ x = n * b
  BY <1>1, SMT
<1> HIDE DEF n
<1>3. 0 \in Int /\ 0 % b = 0
  BY SMT
<1>4. (0 + n * b) % b = 0 % b
  BY <1>2, <1>3, SameRemainder
<1>5. 0 + n * b = x
  BY <1>2
<1> QED
  BY <1>3, <1>4, <1>5

\* What is left of a number without its remainder is a multiple.
LEMMA WithoutRemainder ==
  ASSUME NEW a \in Nat \ {0}, NEW x \in Int
  PROVE  (x - (x % a)) % a = 0
<1> DEFINE k == x \div a
           d == x - (x % a)
<1>1. k \in Int /\ x % a \in Int /\ x = k * a + (x % a)
  BY SMT
<1>2. k * a \in Int
  BY <1>1, SMT
<1>3. d = 0 + k * a
  BY <1>1, <1>2
<1>4. 0 % a = 0
  BY SMT
<1>5. (0 + k * a) % a = 0 % a
  BY <1>1, SameRemainder
<1> QED
  BY <1>3, <1>4, <1>5

-----------------------------------------------------------------------------
(* One lemma per way of handing out memory.                                *)

\* From a multiple of a, amount and padding lead down to another.
LEMMA PaddingAligns ==
  ASSUME NEW a \in Nat \ {0}, Grain(a), NEW r \in Request, top \in Int, top % a = 0
  PROVE  AmountAndPadding(r) \in Int /\ AmountAndPadding(r) % a = 0
<1>1. r.amount \in Int /\ r.alignment \in Alignments /\ r.alignment \in Nat \ {0}
  <2>1. r.amount \in Nat /\ r.alignment \in Alignments /\ r.alignment \in Nat \ {0}
    BY ArenaConstants DEF Request
  <2> QED
    BY <2>1
<1> DEFINE x == top - r.amount
           p == x % r.alignment
<1>2. x \in Int /\ x = top - r.amount
  BY <1>1
<1>3. AmountAndPadding(r) = r.amount + p
  BY DEF AmountAndPadding, senarena_extra_bytes_needed
<1> HIDE DEF x
<1>4. p \in Int
  <2>1. p \in 0 .. r.alignment - 1
    BY <1>1, <1>2, ModRange
  <2> QED
    BY <1>1, <2>1
<1>5. CASE r.amount % a = 0
  <2>1. (top - r.amount) % a = 0
    BY <1>1, <1>5, SumOfMultiples
  <2>2. p = 0
    BY <1>1, <1>2, <2>1, MultipleOfMultiple DEF Grain
  <2> QED
    BY <1>1, <1>3, <1>5, <2>2
<1>6. CASE r.alignment = a
  <2>1. (x - p) % a = 0
    BY <1>2, <1>6, WithoutRemainder
  <2> HIDE DEF p
  <2> DEFINE y == x - p
  <2>2. y \in Int /\ y % a = 0 /\ top - y = r.amount + p
    BY <1>1, <1>2, <1>4, <2>1
  <2> HIDE DEF y
  <2>3. (top - y) % a = top % a
    BY <2>2, SumOfMultiples
  <2> QED
    BY <1>1, <1>3, <1>4, <2>2, <2>3
<1> QED
  BY <1>5, <1>6 DEF Grain

\* An address that is a multiple of a is aligned for any request.
LEMMA HandedOutAligned ==
  ASSUME NEW a \in Nat \ {0}, Grain(a), NEW r \in Request, NEW address \in Int,
         address % a = 0, AllocationsAligned, HandOut(address, r)
  PROVE  AllocationsAligned'
<1>1. r.alignment \in Alignments /\ r.alignment \in Nat \ {0}
  BY ArenaConstants DEF Request
<1>2. address % r.alignment = 0
  BY <1>1, MultipleOfMultiple DEF Grain
<1> QED
  BY <1>2 DEF HandOut, AllocationsAligned

\* A block of malloc whose size is a multiple of a starts and ends at one.
LEMMA NewChunkAligned ==
  ASSUME NEW a \in Nat \ {0}, Grain(a), TypeOK, \A c \in heap : c % a = 0 /\ End(c) % a = 0,
         NEW chunk, NEW size \in Nat, size % a = 0, MayReturn(chunk, size),
         heap' = heap \cup {chunk}, capacity' = [capacity EXCEPT ![chunk] = size]
  PROVE  /\ (\A c \in heap : c % a = 0 /\ End(c) % a = 0)'
         /\ (chunk + HeaderSize) % a = 0 /\ (chunk + HeaderSize + size) % a = 0
<1>1. chunk \in Addresses /\ chunk \notin heap
  BY MallocIsNew
<1> DEFINE start == chunk + HeaderSize
<1>2. chunk \in Int /\ HeaderSize \in Int /\ MallocAlign \in Nat \ {0} /\ start \in Int
      /\ size \in Int
  BY <1>1, ArenaConstants
<1>3. chunk % a = 0
  BY <1>2, MultipleOfMultiple DEF MayReturn, Grain
<1>4. start % a = 0
  BY <1>2, <1>3, SumOfMultiples DEF Grain
<1> HIDE DEF start
<1>5. (start + size) % a = 0
  BY <1>2, <1>4, SumOfMultiples
<1>6. End(chunk)' = start + size
  BY <1>1 DEF End, TypeOK, start
<1>7. \A c \in heap : End(c)' = End(c)
  BY <1>1 DEF End, TypeOK
<1>8. \A c \in heap' : c % a = 0 /\ End(c)' % a = 0
  BY <1>3, <1>5, <1>6, <1>7
<1> QED
  BY <1>4, <1>5, <1>8 DEF start

-----------------------------------------------------------------------------
(* The steps.                                                              *)

\* A step that changes no chunk, with top at a multiple of a.
LEMMA SameChunksAligned ==
  ASSUME NEW a, AlignInv(a), UNCHANGED <<heap, capacity>>,
         InUse' => top' % a = 0, AllocationsAligned'
  PROVE  AlignInv(a)'
<1>1. \A c : End(c)' = End(c)
  BY DEF End
<1> QED
  BY <1>1 DEF AlignInv

\* A request served from the top of the current chunk.
LEMMA FromTopAligned ==
  ASSUME NEW a \in Nat \ {0}, Grain(a), ChainInv, AlignInv(a), InUse, NEW r \in Request,
         top' = top - AmountAndPadding(r), HandOut(top', r), UNCHANGED heapVars
  PROVE  AlignInv(a)'
<1>1. top \in Int /\ top % a = 0 /\ AllocationsAligned
  BY DEF ChainInv, TypeOK, AlignInv
<1>2. AmountAndPadding(r) \in Int /\ AmountAndPadding(r) % a = 0
  BY <1>1, PaddingAligns
<1> DEFINE y == AmountAndPadding(r)
<1>3. y \in Int /\ y % a = 0 /\ top' = top - y /\ top' \in Int
  BY <1>1, <1>2
<1> HIDE DEF y
<1>4. (top - y) % a = top % a
  BY <1>1, <1>3, SumOfMultiples
<1>5. top' % a = 0
  BY <1>1, <1>3, <1>4
<1>6. AllocationsAligned'
  BY <1>1, <1>3, <1>5, HandedOutAligned
<1> QED
  BY <1>5, <1>6, SameChunksAligned DEF heapVars

LEMMA NewAligned ==
  ASSUME NEW a \in Nat \ {0}, Grain(a), ChainInv, AlignInv(a), New
  PROVE  AlignInv(a)'
<1>1. DefaultChunkSize \in Nat /\ DefaultChunkSize % a = 0 /\ TypeOK
  BY ArenaConstants DEF Grain, ChainInv
<1>2. PICK chunk \in Addresses :
        /\ MayReturn(chunk, DefaultChunkSize) /\ heap' = heap \cup {chunk}
        /\ capacity' = [capacity EXCEPT ![chunk] = DefaultChunkSize]
        /\ top' = chunk + HeaderSize + DefaultChunkSize
  BY DEF New, senarena_chunk_new
<1>3. /\ (\A c \in heap : c % a = 0 /\ End(c) % a = 0)'
      /\ (chunk + HeaderSize + DefaultChunkSize) % a = 0
  BY <1>1, <1>2, NewChunkAligned DEF AlignInv
<1>4. AllocationsAligned'
  BY DEF AlignInv, AllocationsAligned, New
<1> QED
  BY <1>2, <1>3, <1>4 DEF AlignInv

LEMMA MoreLargeAligned ==
  ASSUME NEW a \in Nat \ {0}, Grain(a), ChainInv, AlignInv(a), MoreLarge
  PROVE  AlignInv(a)'
<1> DEFINE extra == senarena_extra_fresh_bytes_needed(req.alignment)
           size  == req.amount + extra
<1>1. req \in Request /\ IsLarge(req) /\ TypeOK
  BY DEF ChainInv, Locals, MoreLarge
<1>2. req.amount % a = 0
  BY <1>1 DEF Grain
<1>3. /\ req.amount \in Nat /\ req.alignment \in Alignments /\ req.alignment \in Nat \ {0}
      /\ HeaderSize \in Nat \ {0}
  BY <1>1, ArenaConstants DEF Request
<1>4. extra = 0
  <2>1. HeaderSize % req.alignment = 0
    <3>1. HeaderSize \in Int /\ HeaderSize % a = 0 /\ a % req.alignment = 0
      BY <1>3 DEF Grain
    <3> QED
      BY <1>3, <3>1, MultipleOfMultiple
  <2>2. ~(req.alignment > HeaderSize)
    <3>1. req.alignment > HeaderSize => HeaderSize % req.alignment = HeaderSize
      BY <1>3, SMT
    <3> QED
      BY <1>3, <2>1, <3>1
  <2> QED
    BY <2>1, <2>2 DEF senarena_extra_fresh_bytes_needed, senarena_extra_bytes_needed
<1>5. PICK chunk \in Addresses :
        /\ MayReturn(chunk, size) /\ heap' = heap \cup {chunk}
        /\ capacity' = [capacity EXCEPT ![chunk] = size]
        /\ HandOut(chunk + HeaderSize + extra, req)
  BY DEF MoreLarge
<1> HIDE DEF extra
<1>6. size \in Nat /\ size % a = 0
  BY <1>2, <1>3, <1>4
<1> HIDE DEF size
<1>7. /\ (\A c \in heap : c % a = 0 /\ End(c) % a = 0)'
      /\ (chunk + HeaderSize) % a = 0
  BY <1>1, <1>5, <1>6, NewChunkAligned DEF AlignInv
<1>8. AllocationsAligned'
  <2> DEFINE address == chunk + HeaderSize + extra
  <2>1. address = chunk + HeaderSize /\ address \in Int
    BY <1>3, <1>4, ArenaConstants
  <2> HIDE DEF address
  <2>2. HandOut(address, req) /\ address % a = 0 /\ AllocationsAligned
    BY <1>5, <1>7, <2>1 DEF address, AlignInv
  <2> QED
    BY <1>1, <2>1, <2>2, HandedOutAligned
<1>9. InUse /\ top' = top
  BY DEF MoreLarge, InUse, arenaVars
<1> QED
  BY <1>7, <1>8, <1>9 DEF AlignInv

LEMMA MoreNewAligned ==
  ASSUME NEW a \in Nat \ {0}, Grain(a), ChainInv, AlignInv(a), MoreNew
  PROVE  AlignInv(a)'
<1>1. /\ req \in Request /\ TypeOK /\ top \in Int /\ top % a = 0 /\ AllocationsAligned
      /\ DefaultChunkSize \in Nat /\ DefaultChunkSize % a = 0
  BY ArenaConstants DEF ChainInv, TypeOK, Locals, MoreNew, AlignInv, InUse, Grain
<1> DEFINE y == AmountAndPadding(req)
<1>2. y \in Int /\ y % a = 0
  BY <1>1, PaddingAligns
<1>3. PICK chunk \in Addresses :
        /\ MayReturn(chunk, DefaultChunkSize) /\ heap' = heap \cup {chunk}
        /\ capacity' = [capacity EXCEPT ![chunk] = DefaultChunkSize]
        /\ top' = chunk + HeaderSize + DefaultChunkSize - y
  BY DEF MoreNew, senarena_chunk_new
<1>4. HandOut(top', req)
  BY DEF MoreNew
<1> HIDE DEF y
<1>5. /\ (\A c \in heap : c % a = 0 /\ End(c) % a = 0)'
      /\ (chunk + HeaderSize + DefaultChunkSize) % a = 0
  BY <1>1, <1>3, NewChunkAligned DEF AlignInv
<1>6. top' \in Int /\ top' % a = 0
  <2> DEFINE end == chunk + HeaderSize + DefaultChunkSize
  <2>1. end \in Int /\ top' = end - y /\ top' \in Int /\ end % a = 0
    BY <1>2, <1>3, <1>5, ArenaConstants
  <2> HIDE DEF end
  <2>2. (end - y) % a = end % a
    BY <1>2, <2>1, SumOfMultiples
  <2> QED
    BY <2>1, <2>2
<1>7. AllocationsAligned'
  BY <1>1, <1>4, <1>6, HandedOutAligned
<1> QED
  BY <1>5, <1>6, <1>7 DEF AlignInv

\* Chunks end at multiples of a, whether new or reused.
LEMMA EndAligned ==
  ASSUME NEW a, AlignInv(a), NEW c \in heap, UNCHANGED <<heap, capacity>>,
         top' = End(c), live' = live \/ live' = {}
  PROVE  AlignInv(a)'
<1>1. top' % a = 0
  BY DEF AlignInv
<1>2. AllocationsAligned'
  BY DEF AlignInv, AllocationsAligned
<1> QED
  BY <1>1, <1>2, SameChunksAligned

LEMMA AlignStep ==
  ASSUME NEW a \in Nat \ {0}, Grain(a), ChainInv, AlignInv(a), [Next]_vars
  PROVE  AlignInv(a)'
<1>1. CASE New
  BY <1>1, NewAligned
<1>2. ASSUME NEW r \in Request, AllocFast(r) PROVE AlignInv(a)'
  <2>1. InUse /\ top' = top - AmountAndPadding(r) /\ HandOut(top', r) /\ UNCHANGED heapVars
    BY <1>2 DEF AllocFast, InUse
  <2> QED
    BY <2>1, FromTopAligned
<1>3. CASE MoreFits
  <2>1. /\ InUse /\ top' = top - AmountAndPadding(req) /\ HandOut(top', req)
        /\ UNCHANGED heapVars /\ req \in Request
    BY <1>3 DEF MoreFits, InUse, ChainInv, Locals
  <2> QED
    BY <2>1, FromTopAligned
<1>4. CASE MoreLarge
  BY <1>4, MoreLargeAligned
<1>5. CASE MoreNew
  BY <1>5, MoreNewAligned
<1>6. CASE MoreReuse
  <2>1. fresh_chunks \in heap
    BY <1>6, ChainSafe DEF MoreReuse, NoUseAfterFree
  <2>2. UNCHANGED <<heap, capacity, live>> /\ top' = End(fresh_chunks)
    BY <1>6 DEF MoreReuse
  <2> QED
    BY <2>1, <2>2, EndAligned
<1>7. CASE ClearDirect \/ ClearJoin
  <2>1. Current \in heap
    BY <1>7 DEF ClearDirect, ClearJoin, ChainInv, Locals, InUse
  <2>2. UNCHANGED <<heap, capacity>> /\ live' = {} /\ top' = End(Current)
    BY <1>7 DEF ClearDirect, ClearJoin, heapVars
  <2> QED
    BY <2>1, <2>2, EndAligned
<1>8. ASSUME UNCHANGED <<top, heap, capacity, live>>, InUse' => InUse PROVE AlignInv(a)'
  <2>1. (InUse' => top' % a = 0) /\ AllocationsAligned'
    BY <1>8 DEF AlignInv, AllocationsAligned
  <2> QED
    BY <1>8, <2>1, SameChunksAligned
<1>9. ASSUME NEW r \in Request, AllocSlow(r) PROVE AlignInv(a)'
  BY <1>8, <1>9 DEF AllocSlow, InUse, arenaVars, heapVars
<1>10. CASE JoinStep \/ JoinEnd \/ UNCHANGED vars
  BY <1>8, <1>10 DEF JoinStep, JoinEnd, InUse, vars, arenaVars, heapVars
<1>11. CASE FreeStart \/ FreeStep \/ FreeFresh \/ FreeEnd \/ MallocFails
  <2>1. (live' = live \/ live' = {}) /\ ~InUse'
    BY <1>11 DEF FreeStart, FreeStep, FreeFresh, FreeEnd, MallocFails, InUse
  <2>2. heap' \subseteq heap /\ \A c \in heap' : capacity'[c] = capacity[c]
    BY <1>11 DEF FreeStart, FreeStep, FreeFresh, FreeEnd, MallocFails, Release, heapVars, ChainInv, TypeOK
  <2>3. \A c \in heap' : End(c)' = End(c)
    BY <2>2 DEF End
  <2> QED
    BY <2>1, <2>2, <2>3 DEF AlignInv, AllocationsAligned
<1> QED
  BY <1>1, <1>2, <1>3, <1>4, <1>5, <1>6, <1>7, <1>9, <1>10, <1>11
     DEF Next, Caller, Code, Alloc, Exited

\* Every allocation starts at a multiple of its alignment when the alignments
\* of the program agree, although senarena_alloc_more uses in one chunk a padding
\* it computed in another: then both chunks call for the same padding.  For
\* any number of chunks of any sizes, new, large and reused.
THEOREM ArenaAlignsIfAgreed == AlignmentsAgree => (Spec => []AllocationsAligned)
<1> SUFFICES ASSUME AlignmentsAgree PROVE Spec => []AllocationsAligned
  OBVIOUS
<1>1. PICK a \in Nat \ {0} : Grain(a)
  BY DEF AlignmentsAgree
<1>2. Init => AlignInv(a)
  BY DEF Init, AlignInv, InUse, AllocationsAligned
<1>3. ChainInv /\ AlignInv(a) /\ [Next]_vars => AlignInv(a)'
  BY <1>1, AlignStep
<1>4. AlignInv(a) => AllocationsAligned
  BY DEF AlignInv
<1> QED
  BY <1>2, <1>3, <1>4, ChainInvariant, PTL DEF Spec
=============================================================================
