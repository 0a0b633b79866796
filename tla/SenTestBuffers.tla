--------------------------- MODULE SenTestBuffers ----------------------------
(***************************************************************************)
(* The vectors of sensible-test in their blocks of memory: the path with   *)
(* the lengths of its segments, and the strings of the record with their   *)
(* starts.  SenTest takes them for sequences; here blocks have capacities, *)
(* are reallocated when full and hold Unset where nothing was written.     *)
(*                                                                         *)
(* Indices count from zero, as in C.                                       *)
(***************************************************************************)
EXTENDS Integers, Sequences, SequencesExt

CONSTANTS
  VEC_INITIAL_CAPACITY,
  Texts,       \* names of groups and tests, and messages
  MaxSegments, \* bound: how many loops are inside each other
  MaxStrings   \* bound: how many strings are recorded

NUL == "NUL"
Unset == "unset"

ASSUME BufferConstants ==
  /\ VEC_INITIAL_CAPACITY \in Nat /\ VEC_INITIAL_CAPACITY >= 2
  /\ Texts \subseteq Seq(STRING)
  /\ \A text \in Texts : \A k \in 1..Len(text) : text[k] \notin {NUL, Unset}
  /\ MaxSegments \in Nat /\ MaxStrings \in Nat

VARIABLES
  path, path_seg_lengths, \* vectors: data, length and capacity
  strs, str_starts,
  segments,               \* auxiliary: the segments pushed and not popped
  strings                 \* auxiliary: the strings recorded

vars == <<path, path_seg_lengths, strs, str_starts, segments, strings>>

-----------------------------------------------------------------------------
(* Vectors.                                                                *)

Larger(a, b) == IF a > b THEN a ELSE b

NewVector(capacity) ==
  [data |-> [k \in 0..capacity - 1 |-> Unset], length |-> 0, capacity |-> capacity]

\* realloc keeps what was in the block
Realloc(vec, capacity) ==
  [data |-> [k \in 0..capacity - 1 |->
               IF k < vec.capacity THEN vec.data[k] ELSE Unset],
   length |-> vec.length, capacity |-> capacity]

Half(capacity) == capacity \div 2

\* sentest_vec_size_t_push, and the same of the other element types
Push(vec, elem) ==
  LET room == IF vec.length = vec.capacity
              THEN Realloc(vec, vec.capacity + Half(vec.capacity))
              ELSE vec
  IN  [room EXCEPT !.data[vec.length] = elem, !.length = @ + 1]

\* Wrong on purpose (as every Wrong... below): a variant of the next definition
\* with a mistake, for which a run must find a property violated.
\* Here a text longer than half the block gets no more than half.
WrongRoomFor(vec, length) ==
  IF vec.length + length + 1 > vec.capacity
  THEN Realloc(vec, vec.capacity + Half(vec.capacity))
  ELSE vec

\* room for a text and its NUL in a vector of characters
RoomFor(vec, length) ==
  IF vec.length + length + 1 > vec.capacity
  THEN Realloc(vec, Larger(vec.capacity + Half(vec.capacity), vec.length + length + 1))
  ELSE vec

\* memcpy of text to data[at]
Copied(data, at, text) ==
  [k \in DOMAIN data |-> IF k \in at..at + Len(text) - 1 THEN text[k - at + 1]
                                                         ELSE data[k]]

\* one NUL, which the first segment replaces
sentest_vec_char_new == Push(NewVector(VEC_INITIAL_CAPACITY), NUL)

sentest_vec_char_push_pathseg(vec, text) ==
  LET room == RoomFor(vec, Len(text))
  IN  [room EXCEPT !.data = Copied(@, vec.length - 1, <<"/">> \o text \o <<NUL>>),
                   !.length = @ + 1 + Len(text)]

sentest_vec_char_push_string(vec, text) ==
  LET room == RoomFor(vec, Len(text))
  IN  [room EXCEPT !.data = Copied(@, vec.length, text \o <<NUL>>),
                   !.length = @ + 1 + Len(text)]

-----------------------------------------------------------------------------
(* Operations.                                                             *)

Init ==
  /\ path = sentest_vec_char_new
  /\ strs = sentest_vec_char_new
  /\ path_seg_lengths = NewVector(VEC_INITIAL_CAPACITY)
  /\ str_starts = NewVector(VEC_INITIAL_CAPACITY)
  /\ segments = <<>> /\ strings = <<>>

sentest_push_path(text) ==
  /\ Len(segments) < MaxSegments
  /\ path' = sentest_vec_char_push_pathseg(path, text)
  /\ path_seg_lengths' = Push(path_seg_lengths, Len(text))
  /\ segments' = Append(segments, text)
  /\ UNCHANGED <<strs, str_starts, strings>>

\* the slash before the segment stays
Wrong_sentest_pop_path ==
  /\ path_seg_lengths.length > 0
  /\ LET last == path_seg_lengths.length - 1
         length == path.length - path_seg_lengths.data[last]
     IN  /\ path_seg_lengths' = [path_seg_lengths EXCEPT !.length = last]
         /\ path' = [path EXCEPT !.length = length, !.data[length - 1] = NUL]
  /\ segments' = Front(segments)
  /\ UNCHANGED <<strs, str_starts, strings>>

sentest_pop_path ==
  /\ path_seg_lengths.length > 0
  /\ LET last == path_seg_lengths.length - 1
         length == path.length - (path_seg_lengths.data[last] + 1)
     IN  /\ path_seg_lengths' = [path_seg_lengths EXCEPT !.length = last]
         /\ path' = [path EXCEPT !.length = length, !.data[length - 1] = NUL]
  /\ segments' = Front(segments)
  /\ UNCHANGED <<strs, str_starts, strings>>

\* the start is taken when the string has been copied
Wrong_sentest_push_string(text) ==
  /\ Len(strings) < MaxStrings
  /\ strs' = sentest_vec_char_push_string(strs, text)
  /\ str_starts' = Push(str_starts, strs'.length)
  /\ strings' = Append(strings, text)
  /\ UNCHANGED <<path, path_seg_lengths, segments>>

sentest_push_string(text) ==
  /\ Len(strings) < MaxStrings
  /\ str_starts' = Push(str_starts, strs.length)
  /\ strs' = sentest_vec_char_push_string(strs, text)
  /\ strings' = Append(strings, text)
  /\ UNCHANGED <<path, path_seg_lengths, segments>>

Next ==
  \/ \E text \in Texts : sentest_push_path(text) \/ sentest_push_string(text)
  \/ sentest_pop_path

Spec == Init /\ [][Next]_vars

-----------------------------------------------------------------------------
(* Properties.                                                             *)

\* the block has the cells it is said to have, and the elements are in it
IsVector(vec) ==
  /\ DOMAIN vec.data = 0..vec.capacity - 1
  /\ vec.length <= vec.capacity

\* What was written lies in the block, in every vector: every push made the room
\* it used, whatever the length of the text, and the capacity it notes is that
\* of the block.
InBlocks ==
  /\ IsVector(path) /\ IsVector(path_seg_lengths)
  /\ IsVector(strs) /\ IsVector(str_starts)

\* the C string at data[at] is text
HoldsText(vec, at, text) ==
  /\ at + Len(text) < vec.length
  /\ vec.data[at + Len(text)] = NUL
  /\ \A k \in 1..Len(text) : vec.data[at + k - 1] = text[k]

\* the path of some segments, each behind a slash
Joined(texts) == FlattenSeq([k \in DOMAIN texts |-> <<"/">> \o texts[k]])

\* The path that is matched and printed always names the open groups and test,
\* whatever was pushed, popped and pushed over it before.
PathNamesSegments ==
  /\ path_seg_lengths.length = Len(segments)
  /\ HoldsText(path, 0, Joined(segments))
  /\ path.length = Len(Joined(segments)) + 1

\* Each recorded string stays where its start says, while strs moves as it grows.
StringsStay ==
  /\ str_starts.length = Len(strings)
  /\ \A i \in 1..Len(strings) : HoldsText(strs, str_starts.data[i - 1], strings[i])
=============================================================================
