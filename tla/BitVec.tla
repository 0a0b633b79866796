------------------------------- MODULE BitVec --------------------------------
(***************************************************************************)
(* sensible-bitvec: bits packed into cells of CellBits bits (CHAR_BIT) in  *)
(* a block of capacity cells that grows by half.  What malloc and realloc  *)
(* leave in new cells is arbitrary.                                        *)
(*                                                                         *)
(* get and set take the struct by value; it is the caller's current one.   *)
(***************************************************************************)
EXTENDS Integers, Sequences

CONSTANTS
  CellBits,       \* SENSIBLE_BITVECTOR_CELL_BITS
  CapacitiesBits, \* arguments of senbitvec_new
  MaxLength       \* bound: how many bits there are at most

ASSUME BitVecConstants ==
  /\ CellBits \in Nat \ {0}
  /\ CapacitiesBits \subseteq Nat
  /\ MaxLength \in Nat

VARIABLES
  length,   \* in bits
  capacity, \* in cells; 0 when there is no block
  data,     \* the cells of the block
  call,     \* auxiliary: the last call of the caller
  result    \* what the last pop or get returned

vars == <<length, capacity, data, call, result>>

Called(operation, value, n) ==
  call' = [operation |-> operation, value |-> value, n |-> n]

Cell == [0..CellBits - 1 -> BOOLEAN]
Cells(n) == [0..n - 1 -> Cell]
Larger(a, b) == IF a > b THEN a ELSE b

BITSLOT(b) == b \div CellBits
BITTEST(cells, b) == cells[BITSLOT(b)][b % CellBits]
BITNSLOTS(nb) == (nb + CellBits - 1) \div CellBits

\* Wrong on purpose (as every Wrong... below): a variant of the next definition
\* with a mistake, for which a run must find a property violated.
\* Here bits are added, never cleared.
WrongWritten(cells, b, value) ==
  [cells EXCEPT ![BITSLOT(b)][b % CellBits] = @ \/ value]

\* SENSIBLE_BITSET or SENSIBLE_BITCLEAR
Written(cells, b, value) == [cells EXCEPT ![BITSLOT(b)][b % CellBits] = value]

Init ==
  /\ length = 0 /\ capacity = 0
  /\ data = <<>>
  /\ call = [operation |-> "none", value |-> FALSE, n |-> 0]
  /\ result = FALSE

\* the cells the bits need and no more
WrongFirstCapacity(capacity_bits) == Larger(BITNSLOTS(capacity_bits), 1)

\* two cells at least: growing by half needs them
FirstCapacity(capacity_bits) == Larger(BITNSLOTS(capacity_bits), 2)

senbitvec_new(capacity_bits) ==
  /\ capacity = 0
  /\ length' = 0
  /\ capacity' = FirstCapacity(capacity_bits)
  /\ data' \in Cells(capacity')
  /\ Called("new", FALSE, 0)
  /\ UNCHANGED result

IsFull == BITNSLOTS(length + 1) > capacity

\* a push with room, and one that reallocates: senbitvec_reserve_one, then the
\* bit is written and counted
PushInPlace(value) ==
  /\ capacity > 0 /\ length < MaxLength
  /\ ~IsFull
  /\ data' = Written(data, length, value)
  /\ length' = length + 1
  /\ Called("push", value, length)
  /\ UNCHANGED <<capacity, result>>

\* the new capacity noted, the block as it was
WrongPushGrowing(value) ==
  /\ capacity > 0 /\ length < MaxLength
  /\ IsFull
  /\ capacity' = capacity + capacity \div 2
  /\ data' = Written(data, length, value)
  /\ length' = length + 1
  /\ Called("push", value, length)
  /\ UNCHANGED result

PushGrowing(value) ==
  /\ capacity > 0 /\ length < MaxLength
  /\ IsFull
  /\ capacity' = capacity + capacity \div 2
  /\ \E fresh \in Cells(capacity \div 2) :
       data' = Written([k \in 0..capacity' - 1 |->
                          IF k < capacity THEN data[k] ELSE fresh[k - capacity]],
                       length, value)
  /\ length' = length + 1
  /\ Called("push", value, length)
  /\ UNCHANGED result

senbitvec_pop ==
  /\ length > 0
  /\ length' = length - 1
  /\ Called("pop", FALSE, length - 1)
  /\ result' = BITTEST(data, length - 1)
  /\ UNCHANGED <<capacity, data>>

senbitvec_get(n) ==
  /\ n < length
  /\ result' = BITTEST(data, n)
  /\ Called("get", FALSE, n)
  /\ UNCHANGED <<length, capacity, data>>

senbitvec_set(value, n) ==
  /\ n < length
  /\ data' = Written(data, n, value)
  /\ Called("set", value, n)
  /\ UNCHANGED <<length, capacity, result>>

senbitvec_free ==
  /\ capacity > 0
  /\ length' = 0 /\ capacity' = 0
  /\ data' = <<>>
  /\ Called("free", FALSE, 0)
  /\ UNCHANGED result

Next ==
  \/ \E capacity_bits \in CapacitiesBits : senbitvec_new(capacity_bits)
  \/ \E value \in BOOLEAN : PushInPlace(value) \/ PushGrowing(value)
  \/ senbitvec_pop
  \/ \E n \in 0..length - 1 : senbitvec_get(n)
  \/ \E n \in 0..length - 1, value \in BOOLEAN : senbitvec_set(value, n)
  \/ senbitvec_free

Spec == Init /\ [][Next]_vars

-----------------------------------------------------------------------------
(* Type invariant and the room for the bits.                               *)

TypeOK ==
  /\ length \in Nat
  /\ capacity \in Nat
  /\ data \in Cells(capacity)
  /\ call \in [operation : {"none", "new", "push", "pop", "get", "set", "free"},
             value : BOOLEAN, n : Nat]
  /\ result \in BOOLEAN

\* Every bit there is lies in the block, so that pop, get and set, which do not
\* look at the capacity, stay inside it.
BitsInBlock == BITNSLOTS(length) <= capacity

-----------------------------------------------------------------------------
(* The abstract vector.                                                    *)

Bits == [n \in 1..length |-> BITTEST(data, n - 1)]
Stack == INSTANCE BitStack WITH bits <- Bits

\* The packed cells implement the stack of bits: no operation disturbs a bit
\* beside its own, and growth keeps them all.
IsBitStack == Stack!Spec
=============================================================================
