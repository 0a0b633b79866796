---------------------------- MODULE SequenceLemmas ----------------------------
(***************************************************************************)
(* Lemmas about sequences that the proofs of several modules need: the     *)
(* sequence FlattenSeq builds, how often members of a set occur, mapping   *)
(* a function over a sequence, and functions defined by recursion.  What   *)
(* is computed for every length is proved by induction over the set of the *)
(* lengths for which it is right.                                          *)
(***************************************************************************)
EXTENDS SequencesExt, SequenceTheorems, FiniteSetTheorems, WellFoundedInduction, TLAPS

\* Every set of natural numbers that is not empty has a least one.
LEMMA LeastNatural ==
  ASSUME NEW T \in SUBSET Nat, T # {}
  PROVE  \E x \in T : \A y \in T : x <= y
<1> DEFINE R == OpToRel(<, Nat)
<1>1. \A x, y \in Nat : <<y, x>> \in R <=> y < x
  BY DEF OpToRel
<1>2. IsWellFoundedOn(R, Nat)
  BY NatLessThanWellFounded
<1> HIDE DEF R
<1>3. \E x \in T : \A y \in T : ~ (<<y, x>> \in R)
  BY <1>2, WFMin
<1>4. \A x, y \in Nat : x <= y \/ y < x
  OBVIOUS
<1>5. ASSUME NEW x \in T, \A y \in T : ~ (<<y, x>> \in R), NEW y \in T
      PROVE  x <= y
  <2>1. x \in Nat /\ y \in Nat
    OBVIOUS
  <2>2. ~ (y < x)
    BY <1>5, <1>1, <2>1
  <2> QED
    BY <2>1, <2>2, <1>4
<1> QED
  BY <1>3, <1>5

\* Induction over a set of numbers: the library's NatInduction, for a set in
\* place of an operator.
LEMMA SetInduction ==
  ASSUME NEW P, 0 \in P, \A n \in Nat : n \in P => n + 1 \in P
  PROVE  \A n \in Nat : n \in P
<1> DEFINE T == Nat \ P
<1>1. SUFFICES ASSUME T # {} PROVE FALSE
  OBVIOUS
<1>2. PICK x \in T : \A y \in T : x <= y
  BY <1>1, LeastNatural
<1> QED
  BY <1>2

\* f computes FlattenSeq for the first n of seqs
Flattens(f, seqs, n) ==
  f = [k \in 1..n |-> IF k = 1 THEN seqs[k] ELSE f[k-1] \o seqs[k]]

\* What a flattening of the first n does at each of them,
LEMMA FlattensSteps ==
  ASSUME NEW f, NEW seqs, NEW n \in Nat, Flattens(f, seqs, n)
  PROVE  \A k \in 1..n : f[k] = IF k = 1 THEN seqs[k] ELSE f[k-1] \o seqs[k]
  BY DEF Flattens

\* and what does so at each is a flattening.
LEMMA StepsFlatten ==
  ASSUME NEW seqs, NEW n \in Nat, NEW f, f = [k \in 1..n |-> f[k]],
         \A k \in 1..n : f[k] = IF k = 1 THEN seqs[k] ELSE f[k-1] \o seqs[k]
  PROVE  Flattens(f, seqs, n)
  BY DEF Flattens

\* There is a flattening of the first n, for any n.
LEMMA FlattenExists ==
  ASSUME NEW seqs
  PROVE  \A n \in Nat : \E f : Flattens(f, seqs, n)
<1> DEFINE P == {n \in Nat : \E f : Flattens(f, seqs, n)}
<1>1. 0 \in P
  <2> DEFINE f == [k \in 1..0 |-> seqs[k]]
  <2>1. Flattens(f, seqs, 0)
    BY DEF Flattens
  <2> QED
    BY <2>1
<1>2. ASSUME NEW n \in Nat, n \in P PROVE n + 1 \in P
  <2>1. PICK f : Flattens(f, seqs, n)
    BY <1>2
  <2> DEFINE g == [k \in 1..n+1 |-> IF k = n + 1 THEN IF n = 0 THEN seqs[1] ELSE f[n] \o seqs[n+1] ELSE f[k]]
  <2>2. \A k \in 1..n : f[k] = IF k = 1 THEN seqs[k] ELSE f[k-1] \o seqs[k]
    BY <2>1, FlattensSteps
  <2>3. ASSUME NEW k \in 1..n+1
        PROVE  g[k] = IF k = 1 THEN seqs[k] ELSE g[k-1] \o seqs[k]
    <3>1. CASE k = n + 1
      <4>1. CASE n = 0
        BY <3>1, <4>1
      <4>2. CASE n # 0
        <5>1. n \in 1..n+1 /\ n # n + 1 /\ k # 1 /\ k - 1 = n
          BY <3>1, <4>2
        <5>2. g[n] = f[n]
          BY <5>1
        <5>3. g[k] = f[n] \o seqs[k]
          BY <3>1, <4>2
        <5> HIDE DEF g
        <5> QED
          BY <5>1, <5>2, <5>3
      <4> QED
        BY <4>1, <4>2
    <3>2. CASE k # n + 1
      <4>1. k \in 1..n
        BY <3>2
      <4>2. g[k] = f[k]
        BY <3>2
      <4>3. k # 1 => k - 1 \in 1..n+1 /\ k - 1 # n + 1
        BY <4>1
      <4>4. k # 1 => g[k-1] = f[k-1]
        BY <4>3
      <4> HIDE DEF g
      <4> QED
        BY <4>1, <4>2, <4>4, <2>2
    <3> QED
      BY <3>1, <3>2
  <2>4. g = [k \in 1..n+1 |-> g[k]]
    OBVIOUS
  <2> HIDE DEF g
  <2>5. Flattens(g, seqs, n + 1)
    <3>1. \A k \in 1..n+1 : g[k] = IF k = 1 THEN seqs[k] ELSE g[k-1] \o seqs[k]
      BY <2>3
    <3>2. n + 1 \in Nat
      OBVIOUS
    <3> QED
      BY <2>4, <3>1, <3>2, StepsFlatten
  <2> QED
    BY <2>5
<1> HIDE DEF P
<1>3. \A n \in Nat : n \in P
  BY <1>1, <1>2, SetInduction
<1> QED
  BY <1>3 DEF P

\* FlattenSeq takes the last step of one.
LEMMA FlattenSeqIs ==
  ASSUME NEW seqs, Len(seqs) \in Nat, Len(seqs) # 0
  PROVE  \E f : Flattens(f, seqs, Len(seqs)) /\ FlattenSeq(seqs) = f[Len(seqs)]
<1> DEFINE F == CHOOSE f : Flattens(f, seqs, Len(seqs))
<1>1. Flattens(F, seqs, Len(seqs))
  BY FlattenExists
<1>2. FlattenSeq(seqs) = F[Len(seqs)]
  BY DEF FlattenSeq, Flattens
<1> HIDE DEF F
<1> QED
  BY <1>1, <1>2

\* What FlattenSeq computes, and that it does so segment by segment.
LEMMA FlattenEmpty == FlattenSeq(<<>>) = <<>>
  BY DEF FlattenSeq

\* Flattenings agree where their sequences do.
LEMMA FlattensSame ==
  ASSUME NEW S, NEW s \in Seq(S), NEW x \in S, NEW f, NEW g,
         Flattens(f, s, Len(s)), Flattens(g, Append(s, x), Len(s) + 1)
  PROVE  \A k \in 1..Len(s) : f[k] = g[k]
<1> DEFINE P == {n \in Nat : n \in 1..Len(s) => f[n] = g[n]}
<1> Len(s) \in Nat /\ Len(s) + 1 \in Nat
  OBVIOUS
<1>1. \A k \in 1..Len(s) : f[k] = IF k = 1 THEN s[k] ELSE f[k-1] \o s[k]
  BY FlattensSteps
<1>2. \A k \in 1..Len(s) + 1 : g[k] = IF k = 1 THEN Append(s, x)[k] ELSE g[k-1] \o Append(s, x)[k]
  BY DEF Flattens
<1>3. \A k \in 1..Len(s) : Append(s, x)[k] = s[k]
  OBVIOUS
<1>4. 0 \in P
  OBVIOUS
<1>5. ASSUME NEW n \in Nat, n \in P PROVE n + 1 \in P
  <2>1. SUFFICES ASSUME n + 1 \in 1..Len(s) PROVE f[n+1] = g[n+1]
    OBVIOUS
  <2>2. f[n+1] = IF n + 1 = 1 THEN s[n+1] ELSE f[n+1-1] \o s[n+1]
    BY <1>1, <2>1
  <2>3. g[n+1] = IF n + 1 = 1 THEN Append(s, x)[n+1] ELSE g[n+1-1] \o Append(s, x)[n+1]
    BY <1>2, <2>1
  <2>4. n # 0 => f[n] = g[n]
    BY <1>5, <2>1
  <2>5. n + 1 - 1 = n /\ (n + 1 = 1 <=> n = 0) /\ Append(s, x)[n+1] = s[n+1]
    BY <2>1, <1>3
  <2> QED
    BY <2>2, <2>3, <2>4, <2>5
<1> HIDE DEF P
<1>6. \A n \in Nat : n \in P
  BY <1>4, <1>5, SetInduction
<1> QED
  BY <1>6 DEF P

\* A flattened sequence of sequences over S is a sequence over S.
LEMMA FlattenIn ==
  ASSUME NEW S, NEW s \in Seq(Seq(S))
  PROVE  FlattenSeq(s) \in Seq(S)
<1>1. CASE s = <<>>
  <2>1. FlattenSeq(s) = <<>>
    BY <1>1, FlattenEmpty
  <2> QED
    BY <2>1
<1>2. CASE s # <<>>
  <2> Len(s) \in Nat /\ Len(s) # 0
    BY <1>2
  <2>1. PICK f : Flattens(f, s, Len(s)) /\ FlattenSeq(s) = f[Len(s)]
    BY FlattenSeqIs
  <2>2. \A k \in 1..Len(s) : f[k] = IF k = 1 THEN s[k] ELSE f[k-1] \o s[k]
    BY <2>1, FlattensSteps
  <2> DEFINE P == {n \in Nat : n \in 1..Len(s) => f[n] \in Seq(S)}
  <2>3. 0 \in P
    OBVIOUS
  <2>4. ASSUME NEW n \in Nat, n \in P PROVE n + 1 \in P
    <3>1. SUFFICES ASSUME n + 1 \in 1..Len(s) PROVE f[n+1] \in Seq(S)
      OBVIOUS
    <3>2. f[n+1] = IF n + 1 = 1 THEN s[n+1] ELSE f[n+1-1] \o s[n+1]
      BY <2>2, <3>1
    <3>3. s[n+1] \in Seq(S)
      BY <3>1
    <3>4. n # 0 => f[n] \in Seq(S)
      BY <2>4, <3>1
    <3>5. n + 1 - 1 = n /\ (n + 1 = 1 <=> n = 0)
      OBVIOUS
    <3> QED
      BY <3>2, <3>3, <3>4, <3>5, ConcatProperties
  <2> HIDE DEF P
  <2>5. \A n \in Nat : n \in P
    BY <2>3, <2>4, SetInduction
  <2> QED
    BY <2>1, <2>5 DEF P
<1> QED
  BY <1>1, <1>2

\* One more sequence is concatenated.
LEMMA FlattenAppend ==
  ASSUME NEW S, NEW s \in Seq(Seq(S)), NEW x \in Seq(S)
  PROVE  FlattenSeq(Append(s, x)) = FlattenSeq(s) \o x
<1> DEFINE t == Append(s, x)
<1> Len(s) \in Nat /\ Len(t) = Len(s) + 1 /\ Len(t) \in Nat /\ Len(t) # 0
  OBVIOUS
<1>1. t[Len(t)] = x
  OBVIOUS
<1>t. t = Append(s, x)
  OBVIOUS
<1> HIDE DEF t
<1>2. PICK g : Flattens(g, t, Len(t)) /\ FlattenSeq(t) = g[Len(t)]
  BY FlattenSeqIs
<1>3. \A k \in 1..Len(t) : g[k] = IF k = 1 THEN t[k] ELSE g[k-1] \o t[k]
  BY <1>2, FlattensSteps
<1>4. FlattenSeq(t) = IF Len(t) = 1 THEN x ELSE g[Len(s)] \o x
  BY <1>1, <1>2, <1>3
<1>5. CASE s = <<>>
  <2>1. FlattenSeq(t) = x
    BY <1>4, <1>5
  <2>2. FlattenSeq(s) \o x = x
    BY <1>5, FlattenEmpty, ConcatEmptySeq
  <2> QED
    BY <1>t, <2>1, <2>2
<1>6. CASE s # <<>>
  <2> Len(s) # 0 /\ Len(t) # 1
    BY <1>6
  <2>1. PICK f : Flattens(f, s, Len(s)) /\ FlattenSeq(s) = f[Len(s)]
    BY FlattenSeqIs
  <2>2. \A k \in 1..Len(s) : f[k] = g[k]
    BY <1>2, <1>t, <2>1, FlattensSame
  <2>3. f[Len(s)] = g[Len(s)]
    <3>1. Len(s) \in 1..Len(s)
      OBVIOUS
    <3> QED
      BY <2>2, <3>1
  <2> QED
    BY <1>t, <1>4, <2>1, <2>3
<1> QED
  BY <1>5, <1>6

\* A single sequence is its flattening.
LEMMA FlattenOne ==
  ASSUME NEW S, NEW x \in Seq(S)
  PROVE  FlattenSeq(<<x>>) = x
<1>1. <<>> \in Seq(Seq(S)) /\ <<x>> = Append(<<>>, x)
  OBVIOUS
<1>2. FlattenSeq(Append(<<>>, x)) = FlattenSeq(<<>>) \o x
  BY <1>1, FlattenAppend
<1> QED
  BY <1>1, <1>2, FlattenEmpty, ConcatEmptySeq

\* A sequence without its last element.
LEMMA WithoutLast ==
  ASSUME NEW S, NEW s \in Seq(S), s # <<>>
  PROVE  /\ SubSeq(s, 1, Len(s) - 1) \in Seq(S)
         /\ Len(SubSeq(s, 1, Len(s) - 1)) = Len(s) - 1
         /\ \A k \in 1..Len(s) - 1 : SubSeq(s, 1, Len(s) - 1)[k] = s[k]
<1>1. Len(s) \in Nat /\ Len(s) # 0 /\ 1 \in Int /\ Len(s) - 1 \in Int
  OBVIOUS
<1>2. \A k \in 1..Len(s) - 1 : s[k] \in S
  OBVIOUS
<1>3. /\ SubSeq(s, 1, Len(s) - 1) \in Seq(S)
      /\ Len(SubSeq(s, 1, Len(s) - 1)) = IF 1 <= Len(s) - 1 THEN Len(s) - 1 - 1 + 1 ELSE 0
      /\ \A k \in 1..Len(s) - 1 - 1 + 1 : SubSeq(s, 1, Len(s) - 1)[k] = s[1 + k - 1]
  BY <1>1, <1>2, SubSeqProperties
<1>4. Len(s) - 1 - 1 + 1 = Len(s) - 1 /\ \A k \in 1..Len(s) - 1 : 1 + k - 1 = k
  BY <1>1
<1> QED
  BY <1>1, <1>3, <1>4

\* A sequence is its last element behind the others.
LEMMA LastAgain ==
  ASSUME NEW S, NEW s \in Seq(S), s # <<>>
  PROVE  /\ SubSeq(s, 1, Len(s) - 1) \in Seq(S) /\ s[Len(s)] \in S
         /\ s = Append(SubSeq(s, 1, Len(s) - 1), s[Len(s)])
<1> DEFINE t == SubSeq(s, 1, Len(s) - 1)
           x == s[Len(s)]
<1>1. t \in Seq(S) /\ Len(t) = Len(s) - 1 /\ \A k \in 1..Len(s) - 1 : t[k] = s[k]
  BY WithoutLast
<1>2. Len(s) \in Nat /\ Len(s) # 0 /\ x \in S
  OBVIOUS
<1> HIDE DEF t, x
<1>3. /\ Append(t, x) \in Seq(S) /\ Len(Append(t, x)) = Len(s) /\ Append(t, x)[Len(s)] = x
      /\ \A k \in 1..Len(s) - 1 : Append(t, x)[k] = t[k]
  BY <1>1, <1>2
<1>4. \A k \in 1..Len(s) : s[k] = Append(t, x)[k]
  <2> TAKE k \in 1..Len(s)
  <2>1. k = Len(s) \/ k \in 1..Len(s) - 1
    BY <1>2
  <2> QED
    BY <2>1, <1>1, <1>3 DEF x
<1>5. s = Append(t, x)
  BY <1>3, <1>4, SeqEqual
<1> QED
  BY <1>1, <1>2, <1>5 DEF t, x

\* The last of the sequences grows by one element.
LEMMA FlattenExtend ==
  ASSUME NEW S, NEW s \in Seq(Seq(S)), s # <<>>, NEW x \in S,
         NEW t \in Seq(Seq(S)), Len(t) = Len(s), t[Len(t)] = Append(s[Len(s)], x),
         \A k \in 1..Len(s) - 1 : t[k] = s[k]
  PROVE  FlattenSeq(t) = Append(FlattenSeq(s), x)
<1> DEFINE init == SubSeq(s, 1, Len(s) - 1)
           last == s[Len(s)]
           F == FlattenSeq(init)
<1>1. init \in Seq(Seq(S)) /\ last \in Seq(S) /\ s = Append(init, last)
  BY LastAgain
<1>2. SubSeq(t, 1, Len(t) - 1) \in Seq(Seq(S)) /\ t = Append(SubSeq(t, 1, Len(t) - 1), t[Len(t)])
  <2>1. t # <<>>
    OBVIOUS
  <2> QED
    BY <2>1, LastAgain
<1>3. SubSeq(t, 1, Len(t) - 1) = init
  <2>1. /\ Len(init) = Len(s) - 1 /\ \A k \in 1..Len(s) - 1 : init[k] = s[k]
    BY WithoutLast
  <2>2. /\ Len(SubSeq(t, 1, Len(t) - 1)) = Len(t) - 1
        /\ \A k \in 1..Len(t) - 1 : SubSeq(t, 1, Len(t) - 1)[k] = t[k]
    <3>1. t # <<>>
      OBVIOUS
    <3> QED
      BY <3>1, WithoutLast
  <2> DEFINE u == SubSeq(t, 1, Len(t) - 1)
  <2> HIDE DEF u, init
  <2>3. Len(u) = Len(init) /\ \A k \in 1..Len(u) : u[k] = init[k]
    BY <2>1, <2>2 DEF u
  <2>4. u = init
    BY <1>1, <1>2, <2>3, SeqEqual DEF u
  <2> QED
    BY <2>4 DEF u
<1>4. t = Append(init, Append(last, x))
  BY <1>2, <1>3
<1> HIDE DEF init, last
<1>5. F \in Seq(S)
  BY <1>1, FlattenIn
<1>6. Append(last, x) \in Seq(S)
  BY <1>1
<1>7. FlattenSeq(Append(init, last)) = F \o last
  BY <1>1, FlattenAppend
<1>8. FlattenSeq(Append(init, Append(last, x))) = F \o Append(last, x)
  BY <1>1, <1>6, FlattenAppend
<1> HIDE DEF F
<1>9. F \o Append(last, x) = Append(F \o last, x)
  <2> DEFINE a == F \o Append(last, x)
             b == F \o last
  <2>1. a \in Seq(S) /\ Len(a) = Len(F) + Len(Append(last, x))
        /\ \A k \in 1..Len(F) + Len(Append(last, x)) :
             a[k] = IF k <= Len(F) THEN F[k] ELSE Append(last, x)[k - Len(F)]
    BY <1>5, <1>6, ConcatProperties
  <2>2. b \in Seq(S) /\ Len(b) = Len(F) + Len(last)
        /\ \A k \in 1..Len(F) + Len(last) :
             b[k] = IF k <= Len(F) THEN F[k] ELSE last[k - Len(F)]
    BY <1>1, <1>5, ConcatProperties
  <2>3. /\ Len(Append(last, x)) = Len(last) + 1 /\ Append(last, x)[Len(last) + 1] = x
        /\ \A k \in 1..Len(last) : Append(last, x)[k] = last[k]
        /\ Len(last) \in Nat /\ Len(F) \in Nat
    BY <1>1, <1>5
  <2> DEFINE longer == Append(last, x)
  <2> HIDE DEF a, b, longer
  <2>4. /\ Append(b, x) \in Seq(S) /\ Len(Append(b, x)) = Len(F) + Len(last) + 1
        /\ Append(b, x)[Len(F) + Len(last) + 1] = x
        /\ \A k \in 1..Len(F) + Len(last) : Append(b, x)[k] = b[k]
    <3>1. b \in Seq(S)
      BY <2>2
    <3>2. /\ Append(b, x) \in Seq(S) /\ Len(Append(b, x)) = Len(b) + 1
          /\ Append(b, x)[Len(b) + 1] = x
          /\ \A k \in 1..Len(b) : Append(b, x)[k] = b[k]
      BY <3>1
    <3>3. Len(b) = Len(F) + Len(last)
      BY <2>2
    <3> QED
      BY <3>2, <3>3
  <2>5. Len(a) = Len(F) + Len(last) + 1
    BY <2>1, <2>3 DEF longer
  <2>6. \A k \in 1..Len(a) : a[k] = Append(b, x)[k]
    <3> TAKE k \in 1..Len(a)
    <3>0. k \in Nat /\ k >= 1 /\ k <= Len(F) + Len(last) + 1
      BY <2>3, <2>5
    <3>1. CASE k = Len(F) + Len(last) + 1
      <4>1. k - Len(F) = Len(last) + 1 /\ ~(k <= Len(F))
        BY <2>3, <3>1
      <4>2. a[k] = longer[k - Len(F)]
        BY <2>1, <2>3, <2>5, <4>1 DEF longer
      <4>3. longer[Len(last) + 1] = x
        BY <2>3 DEF longer
      <4> QED
        BY <2>4, <3>1, <4>1, <4>2, <4>3
    <3>2. CASE k <= Len(F)
      <4>1. a[k] = F[k] /\ k \in 1..Len(F) + Len(last)
        BY <2>1, <2>3, <2>5, <3>0, <3>2
      <4> QED
        BY <2>2, <2>4, <3>2, <4>1
    <3>3. CASE k > Len(F) /\ k # Len(F) + Len(last) + 1
      <4>1. k - Len(F) \in 1..Len(last) /\ k \in 1..Len(F) + Len(last) /\ ~(k <= Len(F))
        <5> DEFINE m == Len(F)
                   n == Len(last)
        <5>1. m \in Nat /\ n \in Nat /\ k \in Nat /\ k <= m + n + 1 /\ k > m /\ k # m + n + 1
          BY <2>3, <3>0, <3>3
        <5> HIDE DEF m, n
        <5>2. k - m \in 1..n /\ k \in 1..m + n /\ ~(k <= m)
          BY <5>1
        <5> QED
          BY <5>2 DEF m, n
      <4>2. a[k] = longer[k - Len(F)]
        BY <2>1, <2>3, <2>5, <4>1 DEF longer
      <4>3. longer[k - Len(F)] = last[k - Len(F)]
        BY <2>3, <4>1 DEF longer
      <4>4. b[k] = last[k - Len(F)]
        BY <2>2, <4>1
      <4> QED
        BY <2>4, <4>1, <4>2, <4>3, <4>4
    <3>4. k <= Len(F) \/ k > Len(F)
      BY <2>3, <3>0
    <3> QED
      BY <3>1, <3>2, <3>3, <3>4
  <2>7. a = Append(b, x)
    BY <2>1, <2>4, <2>5, <2>6, SeqEqual
  <2> QED
    BY <2>7 DEF a, b
<1> QED
  BY <1>1, <1>4, <1>7, <1>8, <1>9

-----------------------------------------------------------------------------
(* Recursion and counting over a sequence.                                 *)

\* f is a function on 0..n, given by its first value and how each follows from
\* the one before
Recursive(f, base, n, step) ==
  f[0] = base /\ \A k \in 1..n : f[k] = step[<<k, f[k-1]>>]

\* There is such a function.
LEMMA Recursion ==
  ASSUME NEW V, NEW base \in V, NEW n \in Nat, NEW step \in [(1..n) \X V -> V]
  PROVE  \E f \in [0..n -> V] : Recursive(f, base, n, step)
<1> DEFINE Upto(m) == \E f \in [0..m -> V] :
                        f[0] = base /\ \A k \in 1..m : f[k] = step[<<k, f[k-1]>>]
           P == {m \in Nat : m <= n => Upto(m)}
<1>1. 0 \in P
  <2> DEFINE f == [k \in 0..0 |-> base]
  <2>1. f \in [0..0 -> V] /\ f[0] = base /\ \A k \in 1..0 : f[k] = step[<<k, f[k-1]>>]
    OBVIOUS
  <2> HIDE DEF f
  <2> QED
    BY <2>1
<1>2. ASSUME NEW m \in Nat, m \in P PROVE m + 1 \in P
  <2> SUFFICES ASSUME m + 1 <= n PROVE Upto(m + 1)
    OBVIOUS
  <2>1. PICK f \in [0..m -> V] :
          f[0] = base /\ \A k \in 1..m : f[k] = step[<<k, f[k-1]>>]
    BY <1>2
  <2> DEFINE g == [k \in 0..m+1 |-> IF k = m + 1 THEN step[<<m+1, f[m]>>] ELSE f[k]]
  <2>2. f[m] \in V /\ m + 1 \in 1..n
    BY <2>1
  <2>3. step[<<m+1, f[m]>>] \in V
    BY <2>2
  <2>4. g \in [0..m+1 -> V]
    BY <2>1, <2>3
  <2>5. \A k \in 0..m : g[k] = f[k]
    OBVIOUS
  <2>6. g[m+1] = step[<<m+1, f[m]>>]
    OBVIOUS
  <2> HIDE DEF g
  <2>7. g[0] = base
    BY <2>1, <2>5
  <2>8. ASSUME NEW k \in 1..m+1 PROVE g[k] = step[<<k, g[k-1]>>]
    <3>1. CASE k = m + 1
      <4>1. k - 1 = m /\ g[m] = f[m]
        BY <3>1, <2>5
      <4> QED
        BY <3>1, <4>1, <2>6
    <3>2. CASE k # m + 1
      <4>1. k \in 1..m /\ k \in 0..m /\ k - 1 \in 0..m
        BY <3>2
      <4> QED
        BY <4>1, <2>1, <2>5
    <3> QED
      BY <3>1, <3>2
  <2>9. \A k \in 1..m+1 : g[k] = step[<<k, g[k-1]>>]
    BY <2>8
  <2> QED
    BY <2>4, <2>7, <2>9
<1> HIDE DEF P
<1>3. \A m \in Nat : m \in P
  BY <1>1, <1>2, SetInduction
<1>4. Upto(n)
  BY <1>3 DEF P
<1> QED
  BY <1>4 DEF Recursive

\* How many of the first n elements of s are in T.
Occurrences(s, T, n) == Cardinality({k \in 1..n : s[k] \in T})

\* It counts one element at a time.
LEMMA OccurrencesStep ==
  ASSUME NEW s, NEW T, NEW n \in Nat
  PROVE  /\ Occurrences(s, T, 0) = 0
         /\ Occurrences(s, T, n) \in Nat
         /\ s[n+1] \in T => Occurrences(s, T, n + 1) = Occurrences(s, T, n) + 1
         /\ s[n+1] \notin T => Occurrences(s, T, n + 1) = Occurrences(s, T, n)
<1>1. Occurrences(s, T, 0) = 0
  <2>1. {k \in 1..0 : s[k] \in T} = {}
    OBVIOUS
  <2> QED
    BY <2>1, FS_EmptySet DEF Occurrences
<1>2. /\ Occurrences(s, T, n) \in Nat
      /\ s[n+1] \in T => Occurrences(s, T, n + 1) = Occurrences(s, T, n) + 1
      /\ s[n+1] \notin T => Occurrences(s, T, n + 1) = Occurrences(s, T, n)
  <2> DEFINE A == {k \in 1..n : s[k] \in T}
             B == {k \in 1..n+1 : s[k] \in T}
  <2>1. IsFiniteSet(A)
    <3>1. IsFiniteSet(1..n) /\ A \in SUBSET (1..n)
      BY FS_Interval
    <3> HIDE DEF A
    <3> QED
      BY <3>1, FS_Subset
  <2>2. n + 1 \notin A
    OBVIOUS
  <2>3. B = IF s[n+1] \in T THEN A \cup {n + 1} ELSE A
    OBVIOUS
  <2>4. Occurrences(s, T, n) = Cardinality(A) /\ Occurrences(s, T, n + 1) = Cardinality(B)
    BY DEF Occurrences
  <2> HIDE DEF A, B
  <2>5. Cardinality(A) \in Nat /\ Cardinality(A \cup {n + 1}) = Cardinality(A) + 1
    BY <2>1, <2>2, FS_AddElement, FS_CardinalityType
  <2> QED
    BY <2>3, <2>4, <2>5
<1> QED
  BY <1>1, <1>2

\* It depends on the first n elements alone.
LEMMA OccurrencesSame ==
  ASSUME NEW s, NEW t, NEW T, NEW n \in Nat, \A k \in 1..n : s[k] = t[k]
  PROVE  Occurrences(s, T, n) = Occurrences(t, T, n)
<1>1. {k \in 1..n : s[k] \in T} = {k \in 1..n : t[k] \in T}
  OBVIOUS
<1> QED
  BY <1>1 DEF Occurrences

\* It grows by the elements in T.
LEMMA OccurrencesGrow ==
  ASSUME NEW s, NEW T, NEW n \in Nat, NEW m \in 0..n
  PROVE  /\ Occurrences(s, T, m) <= Occurrences(s, T, n)
         /\ m # 0 /\ s[m] \in T => Occurrences(s, T, m) \in 1..Occurrences(s, T, n)
<1> DEFINE A == {k \in 1..m : s[k] \in T}
           B == {k \in 1..n : s[k] \in T}
<1>1. IsFiniteSet(B)
  <2>1. IsFiniteSet(1..n) /\ B \in SUBSET (1..n)
    BY FS_Interval
  <2> HIDE DEF B
  <2> QED
    BY <2>1, FS_Subset
<1>2. A \in SUBSET B
  OBVIOUS
<1>3. Occurrences(s, T, m) = Cardinality(A) /\ Occurrences(s, T, n) = Cardinality(B)
  BY DEF Occurrences
<1> HIDE DEF A, B
<1>4. Occurrences(s, T, m) <= Occurrences(s, T, n)
  BY <1>1, <1>2, <1>3, FS_Subset
<1>5. Occurrences(s, T, m) \in Nat /\ Occurrences(s, T, n) \in Nat
  BY OccurrencesStep
<1>6. ASSUME m # 0, s[m] \in T PROVE Occurrences(s, T, m) >= 1
  <2>1. PICK j \in Nat : j + 1 = m
    <3>1. m - 1 \in Nat /\ m - 1 + 1 = m
      BY <1>6
    <3> QED
      BY <3>1
  <2>2. /\ Occurrences(s, T, j) \in Nat
        /\ s[j+1] \in T => Occurrences(s, T, j + 1) = Occurrences(s, T, j) + 1
    BY OccurrencesStep
  <2> QED
    BY <1>6, <2>1, <2>2
<1> QED
  BY <1>4, <1>5, <1>6

\* What is appended to a part is appended to the whole.
LEMMA ConcatAppend ==
  ASSUME NEW S, NEW s \in Seq(S), NEW t \in Seq(S), NEW x \in S
  PROVE  s \o Append(t, x) = Append(s \o t, x)
<1>1. <<x>> \in Seq(S) /\ s \o t \in Seq(S)
  BY ConcatProperties
<1>2. (s \o t) \o <<x>> = s \o (t \o <<x>>)
  BY <1>1, ConcatAssociative
<1> QED
  BY <1>1, <1>2, AppendIsConcat

\* f of every element
Mapped(f, s) == [k \in 1..Len(s) |-> f[s[k]]]

\* what that means
IsMapped(m, f, s, Y) ==
  m \in Seq(Y) /\ Len(m) = Len(s) /\ \A k \in 1..Len(s) : m[k] = f[s[k]]

\* What mapping a sequence gives.
LEMMA MappedTyped ==
  ASSUME NEW X, NEW Y, NEW f \in [X -> Y], NEW s \in Seq(X)
  PROVE  IsMapped(Mapped(f, s), f, s, Y)
<1> DEFINE e(k) == f[s[k]]
<1>1. Len(s) \in Nat /\ \A k \in 1..Len(s) : e(k) \in Y
  OBVIOUS
<1>2. Mapped(f, s) = [k \in 1..Len(s) |-> e(k)]
  BY DEF Mapped
<1> HIDE DEF e
<1>3. [k \in 1..Len(s) |-> e(k)] \in Seq(Y) /\ Len([k \in 1..Len(s) |-> e(k)]) = Len(s)
      /\ \A k \in 1..Len(s) : [m \in 1..Len(s) |-> e(m)][k] = e(k)
  BY <1>1, IsASeq
<1> QED
  BY <1>2, <1>3 DEF e, IsMapped

\* One more element is mapped by itself.
LEMMA MappedAppend ==
  ASSUME NEW X, NEW Y, NEW f \in [X -> Y], NEW s \in Seq(X), NEW x \in X
  PROVE  Mapped(f, Append(s, x)) = Append(Mapped(f, s), f[x])
<1> DEFINE t == Append(s, x)
           m == Mapped(f, s)
           y == f[x]
<1>1. t \in Seq(X) /\ Len(t) = Len(s) + 1 /\ t[Len(s) + 1] = x /\ \A k \in 1..Len(s) : t[k] = s[k]
  OBVIOUS
<1>2. m \in Seq(Y) /\ Len(m) = Len(s) /\ \A k \in 1..Len(s) : m[k] = f[s[k]]
  <2>1. IsMapped(m, f, s, Y)
    BY MappedTyped
  <2> QED
    BY <2>1 DEF IsMapped
<1>3. y \in Y /\ Len(s) \in Nat
  OBVIOUS
<1>4. Mapped(f, t) \in Seq(Y) /\ Len(Mapped(f, t)) = Len(t)
      /\ \A k \in 1..Len(t) : Mapped(f, t)[k] = f[t[k]]
  <2>1. IsMapped(Mapped(f, t), f, t, Y)
    BY <1>1, MappedTyped
  <2> QED
    BY <2>1 DEF IsMapped
<1> HIDE DEF t, m
<1>y. y = f[x]
  OBVIOUS
<1> HIDE DEF y
<1>5. /\ Append(m, y) \in Seq(Y) /\ Len(Append(m, y)) = Len(s) + 1 /\ Append(m, y)[Len(s) + 1] = y
      /\ \A k \in 1..Len(s) : Append(m, y)[k] = m[k]
  BY <1>2, <1>3, AppendProperties
<1>6. \A k \in 1..Len(t) : Mapped(f, t)[k] = Append(m, y)[k]
  <2> TAKE k \in 1..Len(t)
  <2>1. k = Len(s) + 1 \/ k \in 1..Len(s)
    BY <1>1, <1>3
  <2> QED
    BY <2>1, <1>1, <1>2, <1>4, <1>5, <1>y
<1>7. Mapped(f, t) = Append(m, y)
  BY <1>1, <1>4, <1>5, <1>6, SeqEqual
<1> QED
  BY <1>7 DEF t, m, y
=============================================================================
