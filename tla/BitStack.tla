------------------------------ MODULE BitStack -------------------------------
(***************************************************************************)
(* What sensible-bitvec promises: a stack of bits that can also be read    *)
(* and written at any position, counted from its bottom.  The caller sees  *)
(* its last call, with the value it passed, and what the call returned.    *)
(***************************************************************************)
EXTENDS Integers, Sequences

VARIABLES
  bits,   \* the bits, the bottom first
  call,   \* the last call: its operation, the bit passed and the position
  result  \* what the last pop or get returned

Called(operation, value, n) == [operation |-> operation, value |-> value, n |-> n]

Init ==
  /\ bits = <<>>
  /\ call = Called("none", FALSE, 0)
  /\ result = FALSE

Push(value) ==
  /\ bits' = Append(bits, value)
  /\ call' = Called("push", value, Len(bits))
  /\ UNCHANGED result

Pop ==
  /\ bits # <<>>
  /\ result' = bits[Len(bits)]
  /\ bits' = SubSeq(bits, 1, Len(bits) - 1)
  /\ call' = Called("pop", FALSE, Len(bits) - 1)

Get(n) ==
  /\ n < Len(bits)
  /\ result' = bits[n + 1]
  /\ call' = Called("get", FALSE, n)
  /\ UNCHANGED bits

Set(value, n) ==
  /\ n < Len(bits)
  /\ bits' = [bits EXCEPT ![n + 1] = value]
  /\ call' = Called("set", value, n)
  /\ UNCHANGED result

\* the vector is made, or freed
Empty(operation) ==
  /\ bits' = <<>>
  /\ call' = Called(operation, FALSE, 0)
  /\ UNCHANGED result

Next ==
  \/ \E value \in BOOLEAN : Push(value)
  \/ Pop
  \/ \E n \in 0..Len(bits) - 1 : Get(n)
  \/ \E n \in 0..Len(bits) - 1, value \in BOOLEAN : Set(value, n)
  \/ Empty("new") \/ Empty("free")

Spec == Init /\ [][Next]_<<bits, call, result>>
=============================================================================
