------------------------ MODULE SenTestBuffersProofs -------------------------
(***************************************************************************)
(* Proofs about SenTestBuffers, for every initial capacity from two, all   *)
(* texts and any number of them: writes stay in the blocks, recorded       *)
(* strings stay where their starts say, and the path names its segments.   *)
(***************************************************************************)
EXTENDS SenTestBuffers, SequenceLemmas

-----------------------------------------------------------------------------
(* Vectors.                                                                *)

\* a vector with a block of its capacity, of which it uses no more than it has
Block(vec) ==
  /\ vec = [data |-> vec.data, length |-> vec.length, capacity |-> vec.capacity]
  /\ vec.capacity \in Nat /\ vec.capacity >= 2
  /\ vec.length \in Int /\ vec.length <= vec.capacity
  /\ vec.data = [k \in 0..vec.capacity - 1 |-> vec.data[k]]

\* new keeps the first n elements of vec
Keeps(new, vec, n) == \A k \in 0..n - 1 : new.data[k] = vec.data[k]

\* A new vector is empty and has the capacity asked for.
LEMMA NewVectors ==
  ASSUME NEW c \in Nat, c >= 2
  PROVE  Block(NewVector(c)) /\ NewVector(c).length = 0
BY DEF NewVector, Block

\* A larger block keeps the elements.
LEMMA Reallocated ==
  ASSUME NEW vec, Block(vec), NEW c \in Nat, vec.capacity <= c
  PROVE  /\ Block(Realloc(vec, c))
         /\ Realloc(vec, c).length = vec.length
         /\ Realloc(vec, c).capacity = c
         /\ Keeps(Realloc(vec, c), vec, vec.capacity)
BY DEF Realloc, Block, Keeps

\* Half of a capacity of two or more is one or more.
LEMMA Halves ==
  ASSUME NEW c \in Nat, c >= 2
  PROVE  Half(c) \in Nat /\ Half(c) >= 1
BY SMT DEF Half

\* A push appends its element, in the block, and keeps the others.
LEMMA Pushed ==
  ASSUME NEW vec, Block(vec), vec.length \in Nat, NEW elem
  PROVE  /\ Block(Push(vec, elem))
         /\ Push(vec, elem).length = vec.length + 1
         /\ Keeps(Push(vec, elem), vec, vec.length)
         /\ Push(vec, elem).data[vec.length] = elem
<1> DEFINE grown == Realloc(vec, vec.capacity + Half(vec.capacity))
           room == IF vec.length = vec.capacity THEN grown ELSE vec
<1>1. vec.capacity \in Nat /\ vec.capacity >= 2 /\ vec.length <= vec.capacity
  BY DEF Block
<1>2. Half(vec.capacity) \in Nat /\ Half(vec.capacity) >= 1
  BY <1>1, Halves
<1>3. /\ Block(grown) /\ grown.length = vec.length
      /\ grown.capacity = vec.capacity + Half(vec.capacity)
      /\ Keeps(grown, vec, vec.capacity)
  BY <1>1, <1>2, Reallocated
<1>4. /\ Block(room) /\ room.length = vec.length /\ vec.length < room.capacity
      /\ Keeps(room, vec, vec.length)
  <2> HIDE DEF grown
  <2>1. CASE vec.length = vec.capacity
    BY <1>1, <1>2, <1>3, <2>1
  <2>2. CASE vec.length # vec.capacity
    BY <1>1, <2>2 DEF Keeps
  <2> QED
    BY <2>1, <2>2
<1>5. Push(vec, elem) = [room EXCEPT !.data[vec.length] = elem, !.length = @ + 1]
  BY DEF Push
<1> HIDE DEF room
<1>6. Push(vec, elem) = [data |-> [room.data EXCEPT ![vec.length] = elem],
                         length |-> vec.length + 1, capacity |-> room.capacity]
  BY <1>4, <1>5 DEF Block
<1>7. vec.length \in 0..room.capacity - 1
  BY <1>4 DEF Block
<1> DEFINE data == [room.data EXCEPT ![vec.length] = elem]
           new == Push(vec, elem)
<1>8. /\ data = [k \in 0..room.capacity - 1 |-> data[k]]
      /\ data[vec.length] = elem
      /\ \A k \in 0..vec.length - 1 : data[k] = room.data[k]
  <2>1. DOMAIN room.data = 0..room.capacity - 1
    BY <1>4 DEF Block
  <2>2. data = [k \in 0..room.capacity - 1 |->
                  IF k = vec.length THEN elem ELSE room.data[k]]
    BY <2>1, Zenon
  <2>3. \A k \in 0..vec.length - 1 : k \in 0..room.capacity - 1 /\ k # vec.length
    BY <1>4, <1>7 DEF Block
  <2> HIDE DEF data
  <2> QED
    BY <1>7, <2>2, <2>3
<1>9. new.data = data /\ new.length = vec.length + 1 /\ new.capacity = room.capacity
  BY <1>6
<1>10. new = [data |-> new.data, length |-> new.length, capacity |-> new.capacity]
  BY <1>6, <1>9
<1> HIDE DEF data, new
<1>11. Block(new)
  BY <1>4, <1>8, <1>9, <1>10 DEF Block
<1>12. Keeps(new, vec, vec.length) /\ new.data[vec.length] = elem
  BY <1>4, <1>8, <1>9 DEF Keeps
<1> QED
  BY <1>9, <1>11, <1>12 DEF new

\* There is room for a text and its NUL, and the elements are kept.
LEMMA RoomMade ==
  ASSUME NEW vec, Block(vec), NEW n \in Nat
  PROVE  /\ Block(RoomFor(vec, n))
         /\ RoomFor(vec, n).length = vec.length
         /\ vec.length + n + 1 <= RoomFor(vec, n).capacity
         /\ Keeps(RoomFor(vec, n), vec, vec.length)
<1> DEFINE c == Larger(vec.capacity + Half(vec.capacity), vec.length + n + 1)
<1>1. vec.capacity \in Nat /\ vec.capacity >= 2 /\ vec.length \in Int
      /\ vec.length <= vec.capacity
  BY DEF Block
<1>2. Half(vec.capacity) \in Nat
  BY <1>1, Halves
<1>3. c \in Nat /\ vec.capacity <= c /\ vec.length + n + 1 <= c
  BY <1>1, <1>2 DEF Larger
<1>4. /\ Block(Realloc(vec, c)) /\ Realloc(vec, c).length = vec.length
      /\ Realloc(vec, c).capacity = c /\ Keeps(Realloc(vec, c), vec, vec.capacity)
  BY <1>3, Reallocated
<1>5. RoomFor(vec, n) = IF vec.length + n + 1 > vec.capacity THEN Realloc(vec, c) ELSE vec
  BY DEF RoomFor
<1> HIDE DEF c
<1>6. CASE vec.length + n + 1 > vec.capacity
  BY <1>1, <1>3, <1>4, <1>5, <1>6 DEF Keeps
<1>7. CASE ~(vec.length + n + 1 > vec.capacity)
  BY <1>1, <1>5, <1>7 DEF Keeps
<1> QED
  BY <1>6, <1>7
\* Copying a text changes the cells it covers and no other.
LEMMA CopiedText ==
  ASSUME NEW c \in Nat, NEW data, DOMAIN data = 0..c - 1,
         NEW at \in Nat, NEW text, Len(text) \in Nat, at + Len(text) <= c
  PROVE  /\ \A k \in 0..at - 1 : Copied(data, at, text)[k] = data[k]
         /\ \A k \in 1..Len(text) : Copied(data, at, text)[at + k - 1] = text[k]
<1> DEFINE new == Copied(data, at, text)
<1>1. new = [k \in 0..c - 1 |-> IF k \in at..at + Len(text) - 1
                                THEN text[k - at + 1] ELSE data[k]]
  BY DEF Copied
<1> HIDE DEF new
<1>2. \A k \in 0..at - 1 : new[k] = data[k]
  BY <1>1
<1>3. ASSUME NEW k \in 1..Len(text)
      PROVE  new[at + k - 1] = text[k]
  <2>1. at + k - 1 \in 0..c - 1 /\ at + k - 1 \in at..at + Len(text) - 1
    OBVIOUS
  <2>2. (at + k - 1) - at + 1 = k
    OBVIOUS
  <2>3. new[at + k - 1] = text[(at + k - 1) - at + 1]
    BY <1>1, <2>1
  <2> QED
    BY <2>2, <2>3
<1> QED
  BY <1>2, <1>3 DEF new

\* A string is pushed behind the others and is there, ended by its NUL.
LEMMA StringPushed ==
  ASSUME NEW vec, Block(vec), vec.length \in Nat, NEW text \in Seq(STRING)
  PROVE  /\ Block(sentest_vec_char_push_string(vec, text))
         /\ sentest_vec_char_push_string(vec, text).length = vec.length + 1 + Len(text)
         /\ Keeps(sentest_vec_char_push_string(vec, text), vec, vec.length)
         /\ HoldsText(sentest_vec_char_push_string(vec, text), vec.length, text)
<1> DEFINE room == RoomFor(vec, Len(text))
           ended == text \o <<NUL>>
           data == Copied(room.data, vec.length, ended)
           new == sentest_vec_char_push_string(vec, text)
<1>1. Len(text) \in Nat
  OBVIOUS
<1>2. /\ Block(room) /\ room.length = vec.length
      /\ vec.length + Len(text) + 1 <= room.capacity
      /\ Keeps(room, vec, vec.length)
  BY <1>1, RoomMade
<1> HIDE DEF room
<1>3. new = [room EXCEPT !.data = data, !.length = @ + 1 + Len(text)]
  BY DEF sentest_vec_char_push_string, room
<1>4. /\ Len(ended) = Len(text) + 1
      /\ ended[Len(text) + 1] = NUL
      /\ \A k \in 1..Len(text) : ended[k] = text[k]
  <2> DEFINE S == STRING \cup {NUL}
  <2>1. <<NUL>> \in Seq(S) /\ Len(<<NUL>>) = 1 /\ <<NUL>>[1] = NUL
    OBVIOUS
  <2>2. text \in Seq(S)
    BY SeqMonotonic, Zenon
  <2> HIDE DEF S
  <2>3. /\ Len(ended) = Len(text) + 1
        /\ \A k \in 1..Len(text) + 1 :
             ended[k] = IF k <= Len(text) THEN text[k] ELSE <<NUL>>[k - Len(text)]
    BY <2>1, <2>2, ConcatProperties
  <2> QED
    BY <1>1, <2>1, <2>3
<1> HIDE DEF ended
<1>5. /\ data = [k \in 0..room.capacity - 1 |-> data[k]]
      /\ \A k \in 0..vec.length - 1 : data[k] = room.data[k]
      /\ \A k \in 1..Len(ended) : data[vec.length + k - 1] = ended[k]
  <2>1. room.capacity \in Nat /\ DOMAIN room.data = 0..room.capacity - 1
    BY <1>2 DEF Block
  <2>2. vec.length + Len(ended) <= room.capacity
    BY <1>1, <1>2, <1>4, <2>1
  <2> QED
    <3>1. Len(ended) \in Nat
      BY <1>1, <1>4
    <3>2. data = [k \in 0..room.capacity - 1 |-> data[k]]
      BY <2>1 DEF Copied
    <3>3. \A k \in 0..vec.length - 1 : data[k] = room.data[k]
      BY <2>1, <2>2, <3>1, CopiedText
    <3>4. \A k \in 1..Len(ended) : data[vec.length + k - 1] = ended[k]
      BY <2>1, <2>2, <3>1, CopiedText
    <3> QED
      BY <3>2, <3>3, <3>4
<1> HIDE DEF data
<1>6. new = [data |-> data, length |-> vec.length + 1 + Len(text),
             capacity |-> room.capacity]
  BY <1>2, <1>3 DEF Block
<1>7. Block(new)
  <2>1. vec.length + 1 + Len(text) <= room.capacity /\ vec.length + 1 + Len(text) \in Int
    BY <1>1, <1>2 DEF Block
  <2> QED
    BY <1>2, <1>5, <1>6, <2>1 DEF Block
<1>8. new.length = vec.length + 1 + Len(text) /\ new.data = data
  BY <1>6
<1>9. Keeps(new, vec, vec.length)
  BY <1>2, <1>5, <1>8 DEF Keeps
<1>10. HoldsText(new, vec.length, text)
  <2>1. vec.length + Len(text) < new.length
    BY <1>1, <1>8
  <2>2. data[vec.length + Len(text)] = NUL
    <3>1. Len(text) + 1 \in 1..Len(ended)
      BY <1>1, <1>4
    <3>2. vec.length + (Len(text) + 1) - 1 = vec.length + Len(text)
      BY <1>1
    <3>3. data[vec.length + (Len(text) + 1) - 1] = ended[Len(text) + 1]
      BY <1>5, <3>1
    <3> QED
      BY <1>4, <3>2, <3>3
  <2>3. ASSUME NEW k \in 1..Len(text)
        PROVE  data[vec.length + k - 1] = text[k]
    <3>1. k \in 1..Len(ended)
      BY <1>1, <1>4
    <3> QED
      BY <1>4, <1>5, <3>1
  <2> QED
    BY <1>8, <2>1, <2>2, <2>3 DEF HoldsText
<1> QED
  BY <1>7, <1>8, <1>9, <1>10 DEF new

-----------------------------------------------------------------------------
(* The path as a sequence.                                                 *)

\* what texts and paths are made of
Characters == STRING \cup {"/", NUL}

Segment(text) == <<"/">> \o text

\* A sequence of one element.
LEMMA OneIn ==
  ASSUME NEW S, NEW x \in S
  PROVE  <<x>> \in Seq(S) /\ Len(<<x>>) = 1 /\ <<x>>[1] = x
OBVIOUS

\* A segment is one character longer than its text.
LEMMA SegmentIs ==
  ASSUME NEW text \in Seq(Characters)
  PROVE  Segment(text) \in Seq(Characters) /\ Len(Segment(text)) = Len(text) + 1
<1>1. "/" \in Characters
  BY DEF Characters
<1>2. <<"/">> \in Seq(Characters) /\ Len(<<"/">>) = 1
  BY <1>1, OneIn
<1> QED
  BY <1>2, ConcatProperties DEF Segment

\* No segments are no characters,
LEMMA JoinedNone == Joined(<<>>) = <<>>
<1>1. [k \in DOMAIN <<>> |-> <<"/">> \o <<>>[k]] = <<>>
  OBVIOUS
<1> QED
  BY <1>1, FlattenEmpty DEF Joined

\* and one more segment is appended to the path.
LEMMA JoinedAppend ==
  ASSUME NEW texts \in Seq(Seq(Characters)), NEW text \in Seq(Characters)
  PROVE  /\ Joined(texts) \in Seq(Characters)
         /\ Joined(Append(texts, text)) = Joined(texts) \o Segment(text)
<1> DEFINE parts == [k \in DOMAIN texts |-> Segment(texts[k])]
           longer == Append(texts, text)
           more == [k \in DOMAIN longer |-> Segment(longer[k])]
<1>1. Len(texts) \in Nat /\ DOMAIN texts = 1..Len(texts)
  OBVIOUS
<1>2. /\ longer \in Seq(Seq(Characters)) /\ Len(longer) = Len(texts) + 1
      /\ DOMAIN longer = 1..Len(texts) + 1
      /\ \A k \in 1..Len(texts) : longer[k] = texts[k]
      /\ longer[Len(texts) + 1] = text
  OBVIOUS
<1>3. \A k \in 1..Len(texts) : texts[k] \in Seq(Characters) /\ Segment(texts[k]) \in Seq(Characters)
  BY SegmentIs
<1>4. parts \in Seq(Seq(Characters)) /\ Len(parts) = Len(texts)
  BY <1>1, <1>3
<1>5. Segment(text) \in Seq(Characters)
  BY SegmentIs
<1>6. more = Append(parts, Segment(text))
  <2>1. /\ Append(parts, Segment(text)) \in Seq(Seq(Characters))
        /\ Len(Append(parts, Segment(text))) = Len(texts) + 1
        /\ \A k \in 1..Len(texts) : Append(parts, Segment(text))[k] = Segment(texts[k])
        /\ Append(parts, Segment(text))[Len(texts) + 1] = Segment(text)
    BY <1>1, <1>4, <1>5
  <2> HIDE DEF longer, parts
  <2>2. \A k \in 1..Len(texts) + 1 : more[k] = Append(parts, Segment(text))[k]
    <3> SUFFICES ASSUME NEW k \in 1..Len(texts) + 1
                 PROVE  more[k] = Append(parts, Segment(text))[k]
      OBVIOUS
    <3>1. more[k] = Segment(longer[k])
      BY <1>2
    <3>2. CASE k \in 1..Len(texts)
      BY <1>2, <2>1, <3>1, <3>2
    <3>3. CASE k = Len(texts) + 1
      BY <1>2, <2>1, <3>1, <3>3
    <3> HIDE DEF more
    <3>4. k \in 1..Len(texts) \/ k = Len(texts) + 1
      BY <1>1
    <3> QED
      BY <3>2, <3>3, <3>4
  <2> DEFINE other == Append(parts, Segment(text))
  <2>3. other \in Seq(Seq(Characters)) /\ Len(other) = Len(texts) + 1
    BY <2>1
  <2>4. \A k \in 1..Len(texts) + 1 : more[k] = other[k]
    BY <2>2
  <2> HIDE DEF other
  <2>5. other = [k \in 1..Len(texts) + 1 |-> other[k]]
    BY <1>1, <2>3
  <2>6. more = [k \in 1..Len(texts) + 1 |-> more[k]]
    BY <1>2
  <2>7. more = other
    BY <2>4, <2>5, <2>6
  <2> QED
    BY <2>7 DEF other
<1>7. Joined(texts) = FlattenSeq(parts) /\ Joined(longer) = FlattenSeq(more)
  BY DEF Joined, Segment
<1> HIDE DEF parts, longer, more
<1>8. FlattenSeq(parts) \in Seq(Characters)
  BY <1>4, FlattenIn
<1>9. FlattenSeq(Append(parts, Segment(text))) = FlattenSeq(parts) \o Segment(text)
  BY <1>4, <1>5, FlattenAppend
<1> QED
  BY <1>6, <1>7, <1>8, <1>9 DEF longer

\* A segment is pushed in place of the NUL, with a slash before and a NUL behind it.
LEMMA SegmentPushed ==
  ASSUME NEW vec, Block(vec), vec.length \in Nat, vec.length # 0, NEW text \in Seq(Characters)
  PROVE  /\ Block(sentest_vec_char_push_pathseg(vec, text))
         /\ sentest_vec_char_push_pathseg(vec, text).length = vec.length + 1 + Len(text)
         /\ Keeps(sentest_vec_char_push_pathseg(vec, text), vec, vec.length - 1)
         /\ \A k \in 1..Len(text) + 1 :
              sentest_vec_char_push_pathseg(vec, text).data[vec.length - 1 + k - 1]
                = Segment(text)[k]
         /\ sentest_vec_char_push_pathseg(vec, text).data[vec.length + Len(text)] = NUL
<1> DEFINE room == RoomFor(vec, Len(text))
           at == vec.length - 1
           ended == <<"/">> \o text \o <<NUL>>
           data == Copied(room.data, at, ended)
           new == sentest_vec_char_push_pathseg(vec, text)
<1>1. Len(text) \in Nat /\ at \in Nat /\ vec.length = at + 1
  OBVIOUS
<1>2. /\ Block(room) /\ room.length = vec.length
      /\ vec.length + Len(text) + 1 <= room.capacity
      /\ Keeps(room, vec, vec.length)
  BY <1>1, RoomMade
<1> HIDE DEF room
<1>3. new = [room EXCEPT !.data = data, !.length = @ + 1 + Len(text)]
  BY DEF sentest_vec_char_push_pathseg, room
<1>4. /\ Len(ended) = Len(text) + 2
      /\ ended[Len(text) + 2] = NUL
      /\ \A k \in 1..Len(text) + 1 : ended[k] = Segment(text)[k]
  <2>1. <<NUL>> \in Seq(Characters) /\ Len(<<NUL>>) = 1 /\ <<NUL>>[1] = NUL
    <3>1. NUL \in Characters
      BY DEF Characters
    <3> QED
      BY <3>1, OneIn
  <2>2. Segment(text) \in Seq(Characters) /\ Len(Segment(text)) = Len(text) + 1
    BY SegmentIs
  <2>3. ended = Segment(text) \o <<NUL>>
    BY DEF Segment
  <2> HIDE DEF ended
  <2>4. /\ Len(ended) = (Len(text) + 1) + 1
        /\ \A k \in 1..(Len(text) + 1) + 1 :
             ended[k] = IF k <= Len(text) + 1 THEN Segment(text)[k]
                                              ELSE <<NUL>>[k - (Len(text) + 1)]
    BY <2>1, <2>2, <2>3, ConcatProperties
  <2> QED
    BY <1>1, <2>1, <2>4
<1> HIDE DEF ended, at
<1>5. /\ data = [k \in 0..room.capacity - 1 |-> data[k]]
      /\ \A k \in 0..at - 1 : data[k] = room.data[k]
      /\ \A k \in 1..Len(ended) : data[at + k - 1] = ended[k]
  <2>1. room.capacity \in Nat /\ DOMAIN room.data = 0..room.capacity - 1
    BY <1>2 DEF Block
  <2>2. at + Len(ended) <= room.capacity /\ Len(ended) \in Nat
    BY <1>1, <1>2, <1>4, <2>1
  <2>3. data = [k \in 0..room.capacity - 1 |-> data[k]]
    BY <2>1 DEF Copied
  <2>4. \A k \in 0..at - 1 : data[k] = room.data[k]
    BY <1>1, <2>1, <2>2, CopiedText
  <2>5. \A k \in 1..Len(ended) : data[at + k - 1] = ended[k]
    BY <1>1, <2>1, <2>2, CopiedText
  <2> QED
    BY <2>3, <2>4, <2>5
<1> HIDE DEF data
<1>6. new = [data |-> data, length |-> vec.length + 1 + Len(text),
             capacity |-> room.capacity]
  BY <1>2, <1>3 DEF Block
<1>7. Block(new)
  <2>1. vec.length + 1 + Len(text) <= room.capacity /\ vec.length + 1 + Len(text) \in Int
    BY <1>1, <1>2 DEF Block
  <2> QED
    BY <1>2, <1>5, <1>6, <2>1 DEF Block
<1>8. new.length = vec.length + 1 + Len(text) /\ new.data = data
  BY <1>6
<1>9. Keeps(new, vec, at)
  <2>1. \A k \in 0..at - 1 : k \in 0..vec.length - 1
    BY <1>1
  <2> QED
    BY <1>2, <1>5, <1>8, <2>1 DEF Keeps
<1>10. ASSUME NEW k \in 1..Len(text) + 1 PROVE data[at + k - 1] = Segment(text)[k]
  <2>1. k \in 1..Len(ended)
    BY <1>1, <1>4
  <2> QED
    BY <1>4, <1>5, <2>1
<1>11. data[vec.length + Len(text)] = NUL
  <2>1. Len(text) + 2 \in 1..Len(ended) /\ at + (Len(text) + 2) - 1 = vec.length + Len(text)
    BY <1>1, <1>4
  <2>2. data[at + (Len(text) + 2) - 1] = ended[Len(text) + 2]
    BY <1>5, <2>1
  <2> QED
    BY <1>4, <2>1, <2>2
<1>12. Keeps(new, vec, vec.length - 1)
  BY <1>9 DEF at
<1>13. \A k \in 1..Len(text) + 1 : new.data[vec.length - 1 + k - 1] = Segment(text)[k]
  BY <1>8, <1>10 DEF at
<1>14. new.data[vec.length + Len(text)] = NUL
  BY <1>8, <1>11
<1> HIDE DEF new
<1>15. /\ Block(new) /\ new.length = vec.length + 1 + Len(text) /\ Keeps(new, vec, vec.length - 1)
       /\ \A k \in 1..Len(text) + 1 : new.data[vec.length - 1 + k - 1] = Segment(text)[k]
       /\ new.data[vec.length + Len(text)] = NUL
  BY <1>7, <1>8, <1>12, <1>13, <1>14
<1> QED
  BY <1>15 DEF new

-----------------------------------------------------------------------------
(* The inductive invariant.                                                *)

\* the path is that of the segments, and their lengths can be taken off it again
PathIsNamed ==
  /\ segments \in Seq(Seq(Characters))
  /\ \A i \in 1..Len(segments) : path_seg_lengths.data[i - 1] = Len(segments[i])
  /\ PathNamesSegments

\* the strings are where their starts say
StringsAreRecorded ==
  /\ strs.length \in Nat /\ str_starts.length \in Nat
  /\ strings \in Seq(Seq(STRING))
  /\ \A i \in 1..Len(strings) : str_starts.data[i - 1] \in Nat
  /\ StringsStay

\* Inductive: the four vectors are in their blocks, and hold what was pushed and not popped.
BuffersInv ==
  /\ Block(path) /\ Block(path_seg_lengths) /\ Block(strs) /\ Block(str_starts)
  /\ PathIsNamed
  /\ StringsAreRecorded

LEMMA BuffersInit == Init => BuffersInv
<1> SUFFICES ASSUME Init PROVE BuffersInv
  OBVIOUS
<1>1. Block(NewVector(VEC_INITIAL_CAPACITY)) /\ NewVector(VEC_INITIAL_CAPACITY).length = 0
  BY BufferConstants, NewVectors
<1>2. /\ Block(sentest_vec_char_new) /\ sentest_vec_char_new.length = 1
      /\ sentest_vec_char_new.data[0] = NUL
  BY <1>1, Pushed DEF sentest_vec_char_new
<1>3. path = sentest_vec_char_new /\ strs = sentest_vec_char_new
      /\ path_seg_lengths = NewVector(VEC_INITIAL_CAPACITY)
      /\ str_starts = NewVector(VEC_INITIAL_CAPACITY)
      /\ strings = <<>> /\ segments = <<>>
  BY DEF Init
<1>4. PathIsNamed
  <2>1. Joined(segments) = <<>> /\ Len(segments) = 0
    BY <1>3, JoinedNone
  <2>2. HoldsText(path, 0, <<>>)
    BY <1>2, <1>3 DEF HoldsText
  <2> QED
    BY <1>1, <1>2, <1>3, <2>1, <2>2 DEF PathIsNamed, PathNamesSegments
<1>5. StringsAreRecorded
  BY <1>1, <1>2, <1>3 DEF StringsAreRecorded, StringsStay
<1> QED
  BY <1>1, <1>2, <1>3, <1>4, <1>5 DEF BuffersInv

\* A text is a sequence of characters.
LEMMA BuffersText ==
  ASSUME NEW text \in Texts
  PROVE  text \in Seq(STRING) /\ text \in Seq(Characters) /\ Len(text) \in Nat
<1>1. STRING \subseteq Characters
  BY DEF Characters
<1>2. text \in Seq(STRING) /\ Len(text) \in Nat
  BY BufferConstants
<1> QED
  BY <1>1, <1>2, SeqMonotonic, Zenon

\* What the invariant says of the path.
LEMMA PathRead ==
  ASSUME PathIsNamed
  PROVE  LET J == Joined(segments)
         IN  /\ J \in Seq(Characters) /\ Len(J) \in Nat /\ path.length = Len(J) + 1
             /\ path_seg_lengths.length = Len(segments)
             /\ segments \in Seq(Seq(Characters)) /\ Len(segments) \in Nat
             /\ path.data[Len(J)] = NUL
             /\ \A k \in 1..Len(J) : path.data[k - 1] = J[k]
<1>1. segments \in Seq(Seq(Characters)) /\ Len(segments) \in Nat
  BY DEF PathIsNamed
<1>2. <<>> \in Seq(Characters)
  OBVIOUS
<1> DEFINE J == Joined(segments)
<1>3. J \in Seq(Characters) /\ Len(J) \in Nat
  BY <1>1, <1>2, JoinedAppend
<1>4. /\ path_seg_lengths.length = Len(segments) /\ HoldsText(path, 0, J)
      /\ path.length = Len(J) + 1
  BY DEF PathIsNamed, PathNamesSegments
<1> HIDE DEF J
<1>5. path.data[0 + Len(J)] = NUL /\ \A k \in 1..Len(J) : path.data[0 + k - 1] = J[k]
  BY <1>4 DEF HoldsText
<1>6. 0 + Len(J) = Len(J) /\ \A k \in 1..Len(J) : 0 + k - 1 = k - 1
  BY <1>3
<1>7. \A k \in 1..Len(J) : path.data[k - 1] = J[k]
  BY <1>5, <1>6
<1> QED
  BY <1>1, <1>3, <1>4, <1>5, <1>6, <1>7 DEF J

\* A path holds what its cells say.
LEMMA PathHolds ==
  ASSUME NEW vec, NEW text \in Seq(Characters), vec.length = Len(text) + 1,
         vec.data[Len(text)] = NUL, \A k \in 1..Len(text) : vec.data[k - 1] = text[k]
  PROVE  HoldsText(vec, 0, text)
<1>1. Len(text) \in Nat /\ 0 + Len(text) = Len(text) /\ 0 + Len(text) < vec.length
  OBVIOUS
<1>2. ASSUME NEW k \in 1..Len(text) PROVE vec.data[0 + k - 1] = text[k]
  <2>1. 0 + k - 1 = k - 1
    BY <1>1
  <2> QED
    BY <2>1
<1> QED
  BY <1>1, <1>2 DEF HoldsText

\* A path with a segment behind it.
LEMMA WithSegment ==
  ASSUME NEW joined \in Seq(Characters), NEW text \in Seq(Characters)
  PROVE  LET longer == joined \o Segment(text)
             n == Len(joined)
         IN  /\ longer \in Seq(Characters) /\ Len(longer) = n + (Len(text) + 1)
             /\ \A k \in 1..n + (Len(text) + 1) :
                  longer[k] = IF k <= n THEN joined[k] ELSE Segment(text)[k - n]
<1> DEFINE segment == Segment(text)
<1>1. segment \in Seq(Characters) /\ Len(segment) = Len(text) + 1
  BY SegmentIs
<1> HIDE DEF segment
<1>2. /\ joined \o segment \in Seq(Characters)
      /\ Len(joined \o segment) = Len(joined) + Len(segment)
      /\ \A k \in 1..Len(joined) + Len(segment) :
           (joined \o segment)[k] = IF k <= Len(joined) THEN joined[k]
                                                        ELSE segment[k - Len(joined)]
  BY <1>1, ConcatProperties
<1> QED
  BY <1>1, <1>2 DEF segment

\* A segment more is pushed on both vectors,
LEMMA PushPathKeeps ==
  ASSUME BuffersInv, NEW text \in Texts, sentest_push_path(text)
  PROVE  BuffersInv'
<1> DEFINE J == Joined(segments)
           n == Len(J)
           longer == J \o Segment(text)
<1>1. text \in Seq(Characters) /\ Len(text) \in Nat
  BY BuffersText
<1>2. Block(path) /\ Block(path_seg_lengths) /\ PathIsNamed
  BY DEF BuffersInv
<1>3. /\ path' = sentest_vec_char_push_pathseg(path, text)
      /\ path_seg_lengths' = Push(path_seg_lengths, Len(text))
      /\ segments' = Append(segments, text)
      /\ UNCHANGED <<strs, str_starts, strings>>
  BY DEF sentest_push_path
<1>4. /\ J \in Seq(Characters) /\ n \in Nat /\ path.length = n + 1
      /\ path_seg_lengths.length = Len(segments)
      /\ segments \in Seq(Seq(Characters)) /\ Len(segments) \in Nat
      /\ \A k \in 1..n : path.data[k - 1] = J[k]
  BY <1>2, PathRead
<1>5. Segment(text) \in Seq(Characters) /\ Len(Segment(text)) = Len(text) + 1
  BY <1>1, SegmentIs
<1>6. Joined(segments') = longer
  BY <1>1, <1>3, <1>4, JoinedAppend
<1> HIDE DEF J
<1>7. /\ longer \in Seq(Characters) /\ Len(longer) = n + (Len(text) + 1)
      /\ \A k \in 1..n + (Len(text) + 1) :
           longer[k] = IF k <= n THEN J[k] ELSE Segment(text)[k - n]
  BY <1>1, <1>4, WithSegment
<1> HIDE DEF n, longer
<1>8. /\ Block(path') /\ path'.length = path.length + 1 + Len(text)
      /\ Keeps(path', path, path.length - 1)
      /\ \A k \in 1..Len(text) + 1 : path'.data[path.length - 1 + k - 1] = Segment(text)[k]
      /\ path'.data[path.length + Len(text)] = NUL
  <2>1. path.length \in Nat /\ path.length # 0
    BY <1>4
  <2> QED
    BY <1>1, <1>2, <1>3, <2>1, SegmentPushed
<1>9. HoldsText(path', 0, longer) /\ path'.length = Len(longer) + 1
  <2>1. path'.length = Len(longer) + 1 /\ path.length + Len(text) = Len(longer)
    BY <1>1, <1>4, <1>7, <1>8
  <2>2. path'.data[Len(longer)] = NUL
    BY <1>8, <2>1
  <2>3. ASSUME NEW k \in 1..Len(longer) PROVE path'.data[k - 1] = longer[k]
    <3>1. CASE k <= n
      <4>1. k \in 1..n /\ k - 1 \in 0..path.length - 1 - 1 /\ k \in 1..n + (Len(text) + 1)
        BY <1>1, <1>4, <3>1
      <4>2. path'.data[k - 1] = path.data[k - 1]
        BY <1>8, <4>1 DEF Keeps
      <4> QED
        BY <1>4, <1>7, <3>1, <4>1, <4>2
    <3>2. CASE ~(k <= n)
      <4>1. /\ k - n \in 1..Len(text) + 1 /\ path.length - 1 + (k - n) - 1 = k - 1
            /\ k \in 1..n + (Len(text) + 1)
        BY <1>1, <1>4, <1>7, <3>2
      <4>2. path'.data[path.length - 1 + (k - n) - 1] = Segment(text)[k - n]
        BY <1>8, <4>1
      <4> QED
        BY <1>7, <3>2, <4>1, <4>2
    <3> QED
      BY <3>1, <3>2
  <2> QED
    BY <1>7, <2>1, <2>2, <2>3, PathHolds
<1>10. /\ Block(path_seg_lengths')
       /\ path_seg_lengths'.length = path_seg_lengths.length + 1
       /\ Keeps(path_seg_lengths', path_seg_lengths, path_seg_lengths.length)
       /\ path_seg_lengths'.data[path_seg_lengths.length] = Len(text)
  BY <1>2, <1>3, <1>4, Pushed
<1>11. /\ segments' \in Seq(Seq(Characters)) /\ Len(segments') = Len(segments) + 1
       /\ \A i \in 1..Len(segments) : segments'[i] = segments[i]
       /\ segments'[Len(segments) + 1] = text
  BY <1>1, <1>3, <1>4, AppendProperties
<1>12. ASSUME NEW i \in 1..Len(segments')
       PROVE  path_seg_lengths'.data[i - 1] = Len(segments'[i])
  <2>1. i \in 1..Len(segments) \/ i = Len(segments) + 1
    BY <1>4, <1>11
  <2>2. CASE i \in 1..Len(segments)
    <3>1. i - 1 \in 0..path_seg_lengths.length - 1
      BY <1>4, <2>2
    <3> QED
      BY <1>2, <1>10, <1>11, <2>2, <3>1 DEF Keeps, PathIsNamed
  <2>3. CASE i = Len(segments) + 1
    <3>1. i - 1 = path_seg_lengths.length
      BY <1>4, <2>3
    <3> QED
      BY <1>10, <1>11, <2>3, <3>1
  <2> QED
    BY <2>1, <2>2, <2>3
<1>13. path_seg_lengths'.length = Len(segments')
  BY <1>4, <1>10, <1>11
<1>14. PathIsNamed'
  BY <1>6, <1>9, <1>11, <1>12, <1>13 DEF PathIsNamed, PathNamesSegments
<1>15. StringsAreRecorded' /\ Block(strs') /\ Block(str_starts')
  BY <1>3 DEF BuffersInv, StringsAreRecorded, StringsStay, HoldsText
<1> QED
  BY <1>8, <1>10, <1>14, <1>15 DEF BuffersInv, Block

\* and popped again, with its slash.
LEMMA PopPathKeeps ==
  ASSUME BuffersInv, sentest_pop_path
  PROVE  BuffersInv'
<1> DEFINE last == path_seg_lengths.length - 1
           length == path.length - (path_seg_lengths.data[last] + 1)
           rest == SubSeq(segments, 1, Len(segments) - 1)
           text == segments[Len(segments)]
           J == Joined(rest)
           n == Len(J)
<1>1. Block(path) /\ Block(path_seg_lengths) /\ PathIsNamed
  BY DEF BuffersInv
<1>2. /\ path_seg_lengths.length > 0
      /\ path_seg_lengths' = [path_seg_lengths EXCEPT !.length = last]
      /\ path' = [path EXCEPT !.length = length, !.data[length - 1] = NUL]
      /\ segments' = Front(segments)
      /\ UNCHANGED <<strs, str_starts, strings>>
  BY DEF sentest_pop_path
<1>3. /\ path.length = Len(Joined(segments)) + 1 /\ path_seg_lengths.length = Len(segments)
      /\ segments \in Seq(Seq(Characters)) /\ Len(segments) \in Nat
      /\ \A k \in 1..Len(Joined(segments)) : path.data[k - 1] = Joined(segments)[k]
  BY <1>1, PathRead
<1>4. segments # <<>>
  BY <1>2, <1>3
<1>5. /\ rest \in Seq(Seq(Characters)) /\ text \in Seq(Characters)
      /\ segments = Append(rest, text)
      /\ Len(rest) = Len(segments) - 1
      /\ \A k \in 1..Len(segments) - 1 : rest[k] = segments[k]
  BY <1>3, <1>4, LastAgain, WithoutLast
<1>6. segments' = rest
  BY <1>2 DEF Front
<1> HIDE DEF rest, text
<1>7. J \in Seq(Characters) /\ n \in Nat /\ Joined(segments) = J \o Segment(text)
  BY <1>5, JoinedAppend
<1>8. Segment(text) \in Seq(Characters) /\ Len(Segment(text)) = Len(text) + 1 /\ Len(text) \in Nat
  BY <1>5, SegmentIs
<1> HIDE DEF J
<1>9. /\ Len(Joined(segments)) = n + (Len(text) + 1)
      /\ \A k \in 1..n : Joined(segments)[k] = J[k]
  <2>1. /\ Len(J \o Segment(text)) = n + (Len(text) + 1)
        /\ \A k \in 1..n + (Len(text) + 1) :
             (J \o Segment(text))[k] = IF k <= n THEN J[k] ELSE Segment(text)[k - n]
    BY <1>5, <1>7, WithSegment
  <2> HIDE DEF n
  <2>2. \A k \in 1..n : k \in 1..n + (Len(text) + 1) /\ k <= n
    BY <1>7, <1>8
  <2> QED
    BY <1>7, <2>1, <2>2
<1> HIDE DEF n
<1>10. path_seg_lengths.data[last] = Len(text)
  <2>1. Len(segments) \in 1..Len(segments) /\ Len(segments) - 1 = last
    BY <1>2, <1>3
  <2> HIDE DEF last
  <2> QED
    BY <1>1, <2>1 DEF PathIsNamed, text
<1>11. length = n + 1
  BY <1>3, <1>7, <1>8, <1>9, <1>10
<1>12. last = Len(rest) /\ last \in Nat /\ last <= path_seg_lengths.capacity
  BY <1>1, <1>2, <1>3, <1>5 DEF Block
<1> HIDE DEF last, length
<1>13. path_seg_lengths' = [data |-> path_seg_lengths.data, length |-> last,
                            capacity |-> path_seg_lengths.capacity]
  BY <1>1, <1>2 DEF Block
<1>14. Block(path_seg_lengths)'
  BY <1>1, <1>12, <1>13 DEF Block
<1>15. ASSUME NEW i \in 1..Len(rest) PROVE path_seg_lengths'.data[i - 1] = Len(rest[i])
  <2>1. i \in 1..Len(segments) /\ i \in 1..Len(segments) - 1
    BY <1>3, <1>5
  <2> QED
    BY <1>1, <1>5, <1>13, <2>1 DEF PathIsNamed
<1> DEFINE data == [path.data EXCEPT ![length - 1] = NUL]
<1>16. path' = [data |-> data, length |-> length, capacity |-> path.capacity]
  BY <1>1, <1>2 DEF Block
<1>17. n <= path.capacity - 1 /\ n + 1 <= path.capacity /\ path.capacity \in Nat
  BY <1>1, <1>3, <1>7, <1>8, <1>9 DEF Block
<1>18. /\ data = [k \in 0..path.capacity - 1 |-> data[k]]
       /\ data[n] = NUL /\ \A k \in 1..n : data[k - 1] = path.data[k - 1]
  <2>1. length - 1 = n /\ n \in 0..path.capacity - 1
    BY <1>7, <1>11, <1>17
  <2>2. DOMAIN path.data = 0..path.capacity - 1
    BY <1>1 DEF Block
  <2>3. data = [k \in 0..path.capacity - 1 |-> IF k = n THEN NUL ELSE path.data[k]]
    BY <2>1, <2>2, Zenon
  <2>4. \A k \in 1..n : k - 1 \in 0..path.capacity - 1 /\ k - 1 # n
    BY <1>7, <1>17
  <2> HIDE DEF data
  <2> QED
    BY <2>1, <2>3, <2>4
<1> HIDE DEF data
<1>19. path'.data = data /\ path'.length = n + 1 /\ path'.capacity = path.capacity
  BY <1>11, <1>16
<1>20. Block(path)'
  BY <1>1, <1>7, <1>16, <1>17, <1>18, <1>19 DEF Block
<1>21. HoldsText(path', 0, J)
  <2>1. ASSUME NEW k \in 1..n PROVE path'.data[k - 1] = J[k]
    <3>1. k \in 1..Len(Joined(segments))
      BY <1>7, <1>8, <1>9
    <3> QED
      BY <1>3, <1>9, <1>18, <1>19, <3>1
  <2>2. path'.length = Len(J) + 1 /\ path'.data[Len(J)] = NUL
        /\ \A k \in 1..Len(J) : path'.data[k - 1] = J[k]
    BY <1>18, <1>19, <2>1 DEF n
  <2> QED
    BY <1>7, <2>2, PathHolds
<1>22. path_seg_lengths'.length = Len(rest) /\ Joined(segments') = J /\ path'.length = Len(J) + 1
  BY <1>6, <1>12, <1>13, <1>19 DEF J, n
<1>23. PathIsNamed'
  BY <1>5, <1>6, <1>15, <1>21, <1>22 DEF PathIsNamed, PathNamesSegments
<1>24. (StringsAreRecorded /\ Block(strs) /\ Block(str_starts))'
  BY <1>2 DEF BuffersInv, StringsAreRecorded, StringsStay, HoldsText, Block
<1> QED
  BY <1>14, <1>20, <1>23, <1>24 DEF BuffersInv

\* A string is pushed behind the others, which stay where they are.
LEMMA PushStringKeeps ==
  ASSUME BuffersInv, NEW text \in Texts, sentest_push_string(text)
  PROVE  BuffersInv'
<1>1. text \in Seq(STRING) /\ Len(text) \in Nat
  BY BufferConstants
<1>2. Block(strs) /\ Block(str_starts) /\ StringsAreRecorded
      /\ strs.length \in Nat /\ str_starts.length \in Nat
      /\ str_starts.length = Len(strings) /\ strings \in Seq(Seq(STRING))
  BY DEF BuffersInv, StringsAreRecorded, StringsStay
<1>3. /\ str_starts' = Push(str_starts, strs.length)
      /\ strs' = sentest_vec_char_push_string(strs, text)
      /\ strings' = Append(strings, text)
      /\ UNCHANGED <<path, path_seg_lengths, segments>>
  BY DEF sentest_push_string
<1>4. /\ Block(str_starts') /\ str_starts'.length = str_starts.length + 1
      /\ Keeps(str_starts', str_starts, str_starts.length)
      /\ str_starts'.data[str_starts.length] = strs.length
  BY <1>2, <1>3, Pushed
<1>5. /\ Block(strs') /\ strs'.length = strs.length + 1 + Len(text)
      /\ Keeps(strs', strs, strs.length)
      /\ HoldsText(strs', strs.length, text)
  BY <1>1, <1>2, <1>3, StringPushed
<1>6. /\ strings' \in Seq(Seq(STRING))
      /\ Len(strings') = Len(strings) + 1
      /\ \A i \in 1..Len(strings) : strings'[i] = strings[i]
      /\ strings'[Len(strings) + 1] = text
  BY <1>1, <1>2, <1>3, AppendProperties
<1>7. ASSUME NEW i \in 1..Len(strings')
      PROVE  str_starts'.data[i - 1] \in Nat
             /\ HoldsText(strs', str_starts'.data[i - 1], strings'[i])
  <2>1. i \in 1..Len(strings) \/ i = Len(strings) + 1
    BY <1>2, <1>6
  <2>2. CASE i = Len(strings) + 1
    <3>1. i - 1 = str_starts.length
      BY <1>2, <2>2
    <3> QED
      BY <1>2, <1>4, <1>5, <1>6, <2>2, <3>1
  <2>3. CASE i \in 1..Len(strings)
    <3> DEFINE at == str_starts.data[i - 1]
    <3>1. i - 1 \in 0..str_starts.length - 1
      BY <1>2, <2>3
    <3>2. str_starts'.data[i - 1] = at /\ strings'[i] = strings[i]
      BY <1>4, <1>6, <2>3, <3>1 DEF Keeps
    <3>3. at \in Nat /\ HoldsText(strs, at, strings[i])
      BY <1>2, <2>3 DEF StringsAreRecorded, StringsStay
    <3>4. strings[i] \in Seq(STRING) /\ Len(strings[i]) \in Nat
      BY <1>2, <2>3
    <3> HIDE DEF at
    <3>5. /\ at + Len(strings[i]) < strs.length
          /\ strs.data[at + Len(strings[i])] = NUL
          /\ \A k \in 1..Len(strings[i]) : strs.data[at + k - 1] = strings[i][k]
      BY <3>3 DEF HoldsText
    <3>6. at + Len(strings[i]) < strs'.length
      BY <1>1, <1>2, <1>5, <3>3, <3>4, <3>5
    <3>7. strs'.data[at + Len(strings[i])] = NUL
      <4>1. at + Len(strings[i]) \in 0..strs.length - 1
        BY <1>2, <3>3, <3>4, <3>5
      <4> QED
        BY <1>5, <3>5, <4>1 DEF Keeps
    <3>8. ASSUME NEW k \in 1..Len(strings[i])
          PROVE  strs'.data[at + k - 1] = strings[i][k]
      <4>1. at + k - 1 \in 0..strs.length - 1
        BY <1>2, <3>3, <3>4, <3>5
      <4> QED
        BY <1>5, <3>5, <4>1 DEF Keeps
    <3> QED
      BY <3>2, <3>3, <3>6, <3>7, <3>8 DEF HoldsText
  <2> QED
    BY <2>1, <2>2, <2>3
<1>8. StringsAreRecorded'
  BY <1>1, <1>2, <1>4, <1>5, <1>6, <1>7 DEF StringsAreRecorded, StringsStay
<1>9. Block(path') /\ Block(path_seg_lengths') /\ PathIsNamed'
  BY <1>3 DEF BuffersInv, PathIsNamed, PathNamesSegments
<1>10. Block(strs)' /\ Block(str_starts)'
  BY <1>4, <1>5 DEF Block
<1> QED
  BY <1>8, <1>9, <1>10 DEF BuffersInv

LEMMA BuffersStep == BuffersInv /\ [Next]_vars => BuffersInv'
<1> SUFFICES ASSUME BuffersInv, [Next]_vars PROVE BuffersInv'
  OBVIOUS
<1>1. CASE Next
  BY <1>1, PushPathKeeps, PopPathKeeps, PushStringKeeps DEF Next
<1>2. CASE UNCHANGED vars
  BY <1>2 DEF vars, BuffersInv, PathIsNamed, PathNamesSegments, StringsAreRecorded,
              StringsStay, HoldsText, Block
<1> QED
  BY <1>1, <1>2

LEMMA BuffersAlways == Spec => []BuffersInv
  BY BuffersInit, BuffersStep, PTL DEF Spec

-----------------------------------------------------------------------------
(* The theorems.                                                           *)

\* No vector ever uses more than its block: growing by half, or by what a text
\* needs, always makes enough room, for every initial capacity from two.
THEOREM BuffersInBlocks == Spec => []InBlocks
<1>1. BuffersInv => InBlocks
  BY DEF BuffersInv, Block, InBlocks, IsVector
<1> QED
  BY <1>1, BuffersAlways, PTL

\* However many strings are recorded and however often their block moves, each
\* stays where its start says.
THEOREM BuffersStringsStay == Spec => []StringsStay
<1>1. BuffersInv => StringsStay
  BY DEF BuffersInv, StringsAreRecorded
<1> QED
  BY <1>1, BuffersAlways, PTL

\* The path always names the segments pushed and not popped, for texts of any length and
\* any number of them, however often the block moves and is cut back.
THEOREM BuffersPathNamesSegments == Spec => []PathNamesSegments
<1>1. BuffersInv => PathNamesSegments
  BY DEF BuffersInv, PathIsNamed
<1> QED
  BY <1>1, BuffersAlways, PTL
=============================================================================
