---------------------------- MODULE BitVecProofs -----------------------------
(***************************************************************************)
(* Proofs about BitVec, for every number of bits in a cell and every       *)
(* capacity asked for: the bits stay inside the block, and the vector      *)
(* implements the stack of bits of BitStack.                               *)
(***************************************************************************)
EXTENDS BitVec, SequenceTheorems, TLAPS

-----------------------------------------------------------------------------
(* Arithmetic of slots.                                                    *)

\* The slot of a bit is a natural number, and its place in the slot is one of
\* the places of a cell.
LEMMA Places ==
  ASSUME NEW b \in Nat
  PROVE  BITSLOT(b) \in Nat /\ b % CellBits \in 0..CellBits - 1
  BY BitVecConstants, SMT DEF BITSLOT

\* Two bits in the same place of the same slot are the same bit.
LEMMA PlacesDiffer ==
  ASSUME NEW a \in Nat, NEW b \in Nat,
         BITSLOT(a) = BITSLOT(b), a % CellBits = b % CellBits
  PROVE  a = b
  BY BitVecConstants, SMT DEF BITSLOT

\* A bit below n lies in one of the slots that n bits need.
LEMMA SlotOfBit ==
  ASSUME NEW n \in Nat, NEW b \in Nat, b < n
  PROVE  BITSLOT(b) < BITNSLOTS(n)
<1>1. b \div CellBits <= (n - 1) \div CellBits
  BY BitVecConstants, SMT
<1>2. (n - 1 + CellBits) \div CellBits = (n - 1) \div CellBits + 1
  BY BitVecConstants, SMT
<1> QED
  BY <1>1, <1>2, BitVecConstants, SMT DEF BITSLOT, BITNSLOTS

\* The number of slots is natural, grows with the bits, by one at most for one
\* bit, and no bits need none.
LEMMA Slots ==
  ASSUME NEW n \in Nat
  PROVE  /\ BITNSLOTS(n) \in Nat
         /\ BITNSLOTS(n) <= BITNSLOTS(n + 1)
         /\ BITNSLOTS(n + 1) <= BITNSLOTS(n) + 1
         /\ BITNSLOTS(0) = 0
<1>1. /\ BITNSLOTS(n) \in Nat
      /\ BITNSLOTS(0) = 0
  BY BitVecConstants, SMT DEF BITNSLOTS
<1>2. BITNSLOTS(n + 1) <= BITNSLOTS(n) + 1
  BY BitVecConstants, SMT DEF BITNSLOTS
<1>3. BITNSLOTS(n) <= BITNSLOTS(n + 1)
  BY BitVecConstants, SMT DEF BITNSLOTS
<1> QED
  BY <1>1, <1>2, <1>3

-----------------------------------------------------------------------------
(* What writing a bit does to the cells.                                   *)

\* The cells keep their form.
LEMMA WrittenIsCells ==
  ASSUME NEW c \in Nat, NEW cells \in Cells(c), NEW b \in Nat, NEW value \in BOOLEAN
  PROVE  Written(cells, b, value) \in Cells(c)
  BY Places DEF Written, Cells, Cell

\* The bit that is written is there, and every other bit is what it was.
LEMMA WrittenBits ==
  ASSUME NEW c \in Nat, NEW cells \in Cells(c), NEW value \in BOOLEAN,
         NEW b \in Nat, BITSLOT(b) < c,
         NEW a \in Nat, BITSLOT(a) < c
  PROVE  BITTEST(Written(cells, b, value), a) =
           IF a = b THEN value ELSE BITTEST(cells, a)
<1>1. BITSLOT(a) \in 0..c - 1 /\ BITSLOT(b) \in 0..c - 1
  BY Places
<1>2. a % CellBits \in 0..CellBits - 1 /\ b % CellBits \in 0..CellBits - 1
  BY Places
<1>3. CASE a = b
  BY <1>1, <1>2, <1>3 DEF Written, BITTEST, Cells, Cell
<1>4. CASE a # b
  <2>1. BITSLOT(a) # BITSLOT(b) \/ a % CellBits # b % CellBits
    BY <1>4, PlacesDiffer
  <2> QED
    BY <1>1, <1>2, <1>4, <2>1 DEF Written, BITTEST, Cells, Cell
<1> QED
  BY <1>3, <1>4

-----------------------------------------------------------------------------
(* The inductive invariant: a block has at least two cells, so that half   *)
(* of them is one cell at least, and without a block there are no bits.    *)

BlockInv ==
  /\ TypeOK
  /\ BitsInBlock
  /\ capacity > 0 => capacity >= 2
  /\ capacity = 0 => length = 0

LEMMA BlockInit == Init => BlockInv
<1> SUFFICES ASSUME Init PROVE BlockInv
  OBVIOUS
<1>1. data \in Cells(capacity)
  BY BitVecConstants DEF Init, Cells, Cell
<1>2. BITNSLOTS(length) = 0
  BY Slots DEF Init
<1>3. length = 0 /\ capacity = 0 /\ result = FALSE
  BY DEF Init
<1>4. call = [operation |-> "none", value |-> FALSE, n |-> 0]
  BY DEF Init
<1>5. TypeOK
  BY <1>1, <1>3, <1>4 DEF TypeOK
<1> QED
  BY <1>2, <1>3, <1>5 DEF BlockInv, BitsInBlock

\* The cells a growing push starts from are cells of the larger block, and the
\* old bits are in them.
GrownCells(c, more) ==
  [k \in 0..c - 1 |-> IF k < capacity THEN data[k] ELSE more[k - capacity]]

LEMMA GrownIsCells ==
  ASSUME BlockInv, NEW more \in Cells(capacity \div 2)
  PROVE  /\ capacity + capacity \div 2 \in Nat
         /\ GrownCells(capacity + capacity \div 2, more) \in Cells(capacity + capacity \div 2)
<1> DEFINE half == capacity \div 2
<1>1. capacity \in Nat /\ half \in Nat
  BY SMT DEF BlockInv, TypeOK
<1>2. data \in [0..capacity - 1 -> Cell] /\ more \in [0..half - 1 -> Cell]
  BY DEF BlockInv, TypeOK, Cells
<1>3. ASSUME NEW k \in 0..(capacity + half) - 1
      PROVE  (IF k < capacity THEN data[k] ELSE more[k - capacity]) \in Cell
  <2> HIDE DEF half
  <2>1. CASE k < capacity
    BY <1>1, <1>2, <2>1
  <2>2. CASE ~(k < capacity)
    <3>1. k - capacity \in 0..half - 1
      BY <1>1, <2>2
    <3> QED
      BY <1>2, <2>2, <3>1
  <2> QED
    BY <2>1, <2>2
<1> QED
  BY <1>1, <1>3 DEF GrownCells, Cells

LEMMA BlockStep == BlockInv /\ [Next]_vars => BlockInv'
<1> SUFFICES ASSUME BlockInv, [Next]_vars PROVE BlockInv'
  OBVIOUS
<1> USE DEF BlockInv
<1>1. /\ length \in Nat /\ capacity \in Nat /\ data \in Cells(capacity)
      /\ result \in BOOLEAN
      /\ BITNSLOTS(length) <= capacity
  BY DEF TypeOK, BitsInBlock
<1>2. ASSUME NEW b \in Nat, b < length
      PROVE  BITTEST(data, b) \in BOOLEAN
  <2>1. BITSLOT(b) \in 0..capacity - 1 /\ b % CellBits \in 0..CellBits - 1
    <3>1. BITSLOT(b) \in Nat /\ b % CellBits \in 0..CellBits - 1
      BY Places
    <3>2. BITSLOT(b) < BITNSLOTS(length) /\ BITNSLOTS(length) \in Nat
      BY <1>1, <1>2, SlotOfBit, Slots
    <3> QED
      BY <1>1, <3>1, <3>2
  <2> QED
    BY <1>1, <2>1 DEF BITTEST, Cells, Cell
<1>3. ASSUME NEW capacity_bits \in CapacitiesBits, senbitvec_new(capacity_bits)
      PROVE  BlockInv'
  <2>1. capacity' \in Nat /\ capacity' >= 2
    BY <1>3, BitVecConstants, Slots DEF senbitvec_new, FirstCapacity, Larger
  <2> QED
    BY <1>1, <1>3, <2>1, Slots DEF senbitvec_new, TypeOK, BitsInBlock, Called
<1>4. ASSUME NEW value \in BOOLEAN, PushInPlace(value)
      PROVE  BlockInv'
  <2>1. data' \in Cells(capacity')
    BY <1>1, <1>4, WrittenIsCells DEF PushInPlace
  <2>2. BITNSLOTS(length + 1) <= capacity
    BY <1>1, <1>4, Slots DEF PushInPlace, IsFull
  <2> QED
    BY <1>1, <1>4, <2>1, <2>2 DEF PushInPlace, TypeOK, BitsInBlock, Called
<1>5. ASSUME NEW value \in BOOLEAN, PushGrowing(value)
      PROVE  BlockInv'
  <2>1. PICK more \in Cells(capacity \div 2) :
          data' = Written(GrownCells(capacity', more), length, value)
    BY <1>5 DEF PushGrowing, GrownCells
  <2>2. capacity' = capacity + capacity \div 2
    BY <1>5 DEF PushGrowing
  <2>3. capacity' \in Nat /\ GrownCells(capacity', more) \in Cells(capacity')
    BY <2>2, GrownIsCells
  <2>4. data' \in Cells(capacity')
    BY <1>1, <2>1, <2>3, WrittenIsCells
  <2>5. capacity >= 2
    BY <1>5 DEF PushGrowing
  <2>6. capacity' >= capacity + 1
    BY <1>1, <2>2, <2>5
  <2>7. BITNSLOTS(length + 1) <= capacity'
    BY <1>1, <2>3, <2>6, Slots
  <2>8. length' = length + 1 /\ result' = result
    BY <1>5 DEF PushGrowing
  <2>9. call' = [operation |-> "push", value |-> value, n |-> length]
    BY <1>5 DEF PushGrowing, Called
  <2> QED
    BY <1>1, <2>3, <2>4, <2>5, <2>6, <2>7, <2>8, <2>9 DEF TypeOK, BitsInBlock
<1>6. CASE senbitvec_pop
  <2>1. length' \in Nat /\ length' + 1 = length
    BY <1>1, <1>6 DEF senbitvec_pop
  <2>2. BITNSLOTS(length') <= capacity
    <3>1. BITNSLOTS(length') \in Nat /\ BITNSLOTS(length') <= BITNSLOTS(length' + 1)
      BY <2>1, Slots
    <3>2. BITNSLOTS(length' + 1) = BITNSLOTS(length) /\ BITNSLOTS(length) \in Nat
      BY <1>1, <2>1, Slots
    <3> QED
      BY <1>1, <3>1, <3>2
  <2>3. result' \in BOOLEAN
    BY <1>1, <1>2, <1>6, <2>1 DEF senbitvec_pop
  <2> QED
    BY <1>1, <1>6, <2>1, <2>2, <2>3 DEF senbitvec_pop, TypeOK, BitsInBlock, Called
<1>7. ASSUME NEW n \in 0..length - 1, senbitvec_get(n)
      PROVE  BlockInv'
  BY <1>1, <1>2, <1>7 DEF senbitvec_get, TypeOK, BitsInBlock, Called
<1>8. ASSUME NEW n \in 0..length - 1, NEW value \in BOOLEAN, senbitvec_set(value, n)
      PROVE  BlockInv'
  <2>1. data' \in Cells(capacity)
    BY <1>1, <1>8, WrittenIsCells DEF senbitvec_set
  <2> QED
    BY <1>1, <1>8, <2>1 DEF senbitvec_set, TypeOK, BitsInBlock, Called
<1>9. CASE senbitvec_free
  BY <1>1, <1>9, Slots, BitVecConstants
     DEF senbitvec_free, TypeOK, BitsInBlock, Called, Cells, Cell
<1>10. CASE UNCHANGED vars
  BY <1>10 DEF vars, TypeOK, BitsInBlock
<1> QED
  BY <1>3, <1>4, <1>5, <1>6, <1>7, <1>8, <1>9, <1>10 DEF Next

LEMMA BlockAlways == Spec => []BlockInv
  BY BlockInit, BlockStep, PTL DEF Spec

\* The variables of BitVec keep their types: there are always capacity cells.
THEOREM BitVecTypes == Spec => []TypeOK
<1>1. BlockInv => TypeOK
  BY DEF BlockInv
<1> QED
  BY <1>1, BlockAlways, PTL

\* Every bit lies in the block, so pop, get and set never leave it, whatever the
\* size of a cell and the capacity asked for.
THEOREM BitVecBitsInBlock == Spec => []BitsInBlock
<1>1. BlockInv => BitsInBlock
  BY DEF BlockInv
<1> QED
  BY <1>1, BlockAlways, PTL

-----------------------------------------------------------------------------
(* The bits as a sequence, and what the operations do to it.               *)

BitsOf(cells, len) == [n \in 1..len |-> BITTEST(cells, n - 1)]

\* A bit that there is lies in the block.
LEMMA BitInBlock ==
  ASSUME NEW c \in Nat, NEW len \in Nat, BITNSLOTS(len) <= c,
         NEW b \in Nat, b < len
  PROVE  BITSLOT(b) < c
<1>1. BITSLOT(b) < BITNSLOTS(len) /\ BITNSLOTS(len) \in Nat /\ BITSLOT(b) \in Nat
  BY SlotOfBit, Slots, Places
<1> QED
  BY <1>1

\* The bits form a sequence as long as the vector says.
LEMMA BitsAreSequence ==
  ASSUME NEW c \in Nat, NEW cells \in Cells(c), NEW len \in Nat,
         BITNSLOTS(len) <= c
  PROVE  /\ BitsOf(cells, len) \in Seq(BOOLEAN)
         /\ Len(BitsOf(cells, len)) = len
         /\ \A n \in 1..len : BitsOf(cells, len)[n] = BITTEST(cells, n - 1)
<1>1. ASSUME NEW n \in 1..len
      PROVE  BITTEST(cells, n - 1) \in BOOLEAN
  <2>1. n - 1 \in Nat /\ n - 1 < len
    OBVIOUS
  <2>2. BITSLOT(n - 1) \in Nat /\ (n - 1) % CellBits \in 0..CellBits - 1
    BY <2>1, Places
  <2>3. BITSLOT(n - 1) < c
    BY <2>1, BitInBlock
  <2>4. BITSLOT(n - 1) \in 0..c - 1
    BY <2>2, <2>3
  <2>5. cells[BITSLOT(n - 1)] \in Cell
    BY <2>4 DEF Cells
  <2> QED
    BY <2>2, <2>5 DEF BITTEST, Cell
<1> QED
  BY <1>1 DEF BitsOf

\* Cells that keep the bits and hold one more hold the sequence of a push.
LEMMA BitsPushed ==
  ASSUME NEW c \in Nat, NEW cells \in Cells(c), NEW len \in Nat,
         BITNSLOTS(len) <= c,
         NEW d \in Nat, NEW new \in Cells(d), BITNSLOTS(len + 1) <= d,
         NEW value \in BOOLEAN,
         \A b \in 0..len - 1 : BITTEST(new, b) = BITTEST(cells, b),
         BITTEST(new, len) = value
  PROVE  BitsOf(new, len + 1) = Append(BitsOf(cells, len), value)
<1> DEFINE s == BitsOf(cells, len)
           t == BitsOf(new, len + 1)
           u == Append(s, value)
<1>1. /\ s \in Seq(BOOLEAN)
      /\ Len(s) = len
      /\ \A n \in 1..len : s[n] = BITTEST(cells, n - 1)
  BY BitsAreSequence
<1>2. len + 1 \in Nat
  OBVIOUS
<1>3. /\ t \in Seq(BOOLEAN)
      /\ Len(t) = len + 1
      /\ \A n \in 1..len + 1 : t[n] = BITTEST(new, n - 1)
  BY <1>2, BitsAreSequence
<1> HIDE DEF s, t
<1>4. /\ u \in Seq(BOOLEAN)
      /\ Len(u) = len + 1
      /\ \A n \in 1..len : u[n] = s[n]
      /\ u[len + 1] = value
  BY <1>1, AppendProperties
<1> HIDE DEF u
<1>5. ASSUME NEW n \in 1..len + 1
      PROVE  t[n] = u[n]
  <2>1. n \in 1..len \/ n = len + 1
    OBVIOUS
  <2>2. CASE n \in 1..len
    <3>1. n - 1 \in 0..len - 1
      BY <2>2
    <3> QED
      BY <1>1, <1>3, <1>4, <2>2, <3>1
  <2>3. CASE n = len + 1
    <3>1. n - 1 = len
      BY <2>3
    <3> QED
      BY <1>3, <1>4, <2>3, <3>1
  <2> QED
    BY <2>1, <2>2, <2>3
<1>6. t = u
  BY <1>3, <1>4, <1>5, SeqEqual
<1> QED
  BY <1>6 DEF s, t, u

\* With a bit less, the sequence is the one before without its last.
LEMMA BitsPopped ==
  ASSUME NEW c \in Nat, NEW cells \in Cells(c), NEW len \in Nat,
         BITNSLOTS(len + 1) <= c
  PROVE  /\ BitsOf(cells, len) = SubSeq(BitsOf(cells, len + 1), 1, len)
         /\ BitsOf(cells, len + 1)[len + 1] = BITTEST(cells, len)
<1> DEFINE s == BitsOf(cells, len)
           t == BitsOf(cells, len + 1)
           u == SubSeq(t, 1, len)
<1>1. BITNSLOTS(len) \in Nat /\ BITNSLOTS(len + 1) \in Nat
      /\ BITNSLOTS(len) <= BITNSLOTS(len + 1)
  BY Slots
<1>2. BITNSLOTS(len) <= c
  BY <1>1
<1>3. /\ s \in Seq(BOOLEAN)
      /\ Len(s) = len
      /\ \A n \in 1..len : s[n] = BITTEST(cells, n - 1)
  BY <1>2, BitsAreSequence
<1>4. len + 1 \in Nat
  OBVIOUS
<1>5. /\ t \in Seq(BOOLEAN)
      /\ Len(t) = len + 1
      /\ \A n \in 1..len + 1 : t[n] = BITTEST(cells, n - 1)
  BY <1>4, BitsAreSequence
<1> HIDE DEF s, t
<1>6. \A n \in 1..len : t[n] \in BOOLEAN
  BY <1>5
<1>7. /\ u \in Seq(BOOLEAN)
      /\ Len(u) = len
      /\ \A n \in 1..len : u[n] = t[n]
  BY <1>6, SubSeqProperties
<1> HIDE DEF u
<1>8. s = u
  BY <1>3, <1>5, <1>7, SeqEqual
<1>9. t[len + 1] = BITTEST(cells, len)
  BY <1>5
<1> QED
  BY <1>8, <1>9 DEF s, t, u

\* Writing a bit that there is replaces that element of the sequence.
LEMMA BitsSet ==
  ASSUME NEW c \in Nat, NEW cells \in Cells(c), NEW len \in Nat,
         BITNSLOTS(len) <= c,
         NEW b \in 0..len - 1, NEW value \in BOOLEAN
  PROVE  BitsOf(Written(cells, b, value), len) =
           [BitsOf(cells, len) EXCEPT ![b + 1] = value]
<1> DEFINE s == BitsOf(cells, len)
           t == BitsOf(Written(cells, b, value), len)
           u == [s EXCEPT ![b + 1] = value]
<1>1. /\ s \in Seq(BOOLEAN)
      /\ Len(s) = len
      /\ \A n \in 1..len : s[n] = BITTEST(cells, n - 1)
  BY BitsAreSequence
<1>2. Written(cells, b, value) \in Cells(c)
  BY WrittenIsCells
<1>3. /\ t \in Seq(BOOLEAN)
      /\ Len(t) = len
      /\ \A n \in 1..len : t[n] = BITTEST(Written(cells, b, value), n - 1)
  BY <1>2, BitsAreSequence
<1> HIDE DEF s, t
<1>4. /\ u \in Seq(BOOLEAN)
      /\ Len(u) = len
      /\ \A n \in 1..len : u[n] = IF n = b + 1 THEN value ELSE s[n]
  BY <1>1, ExceptSeq
<1> HIDE DEF u
<1>5. ASSUME NEW n \in 1..len
      PROVE  t[n] = u[n]
  <2>1. n - 1 \in Nat /\ n - 1 < len /\ b \in Nat /\ b < len
    OBVIOUS
  <2>2. BITSLOT(n - 1) < c /\ BITSLOT(b) < c
    BY <2>1, BitInBlock
  <2>3. BITTEST(Written(cells, b, value), n - 1) =
          IF n - 1 = b THEN value ELSE BITTEST(cells, n - 1)
    BY <2>1, <2>2, WrittenBits
  <2>4. n - 1 = b <=> n = b + 1
    OBVIOUS
  <2> QED
    BY <1>1, <1>3, <1>4, <2>3, <2>4
<1>6. t = u
  BY <1>3, <1>4, <1>5, SeqEqual
<1> QED
  BY <1>6 DEF s, t, u

-----------------------------------------------------------------------------
(* The packed cells implement the stack: the mapping of states and steps.  *)

\* The vector of an initial state is empty.
LEMMA BitsInit == Init => Stack!Init
<1> SUFFICES ASSUME Init PROVE Stack!Init
  OBVIOUS
<1>1. length = 0
  BY DEF Init
<1>2. Bits = <<>>
  BY <1>1 DEF Bits
<1> QED
  BY <1>2 DEF Init, Stack!Init, Stack!Called

\* A push, whether the block has room or grows, is a push of the stack.
LEMMA PushMaps ==
  ASSUME BlockInv, BlockInv', NEW value \in BOOLEAN,
         PushInPlace(value) \/ PushGrowing(value)
  PROVE  Stack!Push(value)
<1>1. length \in Nat /\ capacity \in Nat /\ data \in Cells(capacity)
      /\ BITNSLOTS(length) <= capacity
  BY DEF BlockInv, TypeOK, BitsInBlock
<1>2. length' = length + 1 /\ capacity' \in Nat /\ data' \in Cells(capacity')
      /\ BITNSLOTS(length + 1) <= capacity'
  BY DEF BlockInv, TypeOK, BitsInBlock, PushInPlace, PushGrowing
<1>3. \A b \in 0..length - 1 : BITSLOT(b) \in 0..capacity - 1
  <2> SUFFICES ASSUME NEW b \in 0..length - 1
               PROVE  BITSLOT(b) \in 0..capacity - 1
    OBVIOUS
  <2>1. b \in Nat /\ b < length
    BY <1>1
  <2>2. BITSLOT(b) \in Nat /\ BITSLOT(b) < capacity
    BY <1>1, <2>1, BitInBlock, Places
  <2> QED
    BY <1>1, <2>2
<1>4. PICK cells \in Cells(capacity') :
        /\ data' = Written(cells, length, value)
        /\ capacity' >= capacity
        /\ \A k \in 0..capacity - 1 : cells[k] = data[k]
  <2>1. CASE PushInPlace(value)
    BY <1>1, <2>1 DEF PushInPlace
  <2>2. CASE PushGrowing(value)
    <3>1. PICK more \in Cells(capacity \div 2) :
            data' = Written(GrownCells(capacity', more), length, value)
      BY <2>2 DEF PushGrowing, GrownCells
    <3>2. capacity' = capacity + capacity \div 2 /\ capacity \div 2 \in Nat
      BY <1>1, <2>2, SMT DEF PushGrowing
    <3>3. GrownCells(capacity', more) \in Cells(capacity')
      BY <1>1, <3>1, <3>2, GrownIsCells
    <3>4. \A k \in 0..capacity - 1 : GrownCells(capacity', more)[k] = data[k]
      BY <1>1, <3>2 DEF GrownCells
    <3> QED
      BY <1>1, <3>1, <3>2, <3>3, <3>4
  <2> QED
    BY <2>1, <2>2
<1>5. BITSLOT(length) < capacity'
  BY <1>1, <1>2, BitInBlock
<1>6. BITTEST(data', length) = value
  BY <1>1, <1>2, <1>4, <1>5, WrittenBits
<1>7. ASSUME NEW b \in 0..length - 1
      PROVE  BITTEST(data', b) = BITTEST(data, b)
  <2>1. b \in Nat /\ b # length
    BY <1>1
  <2>2. BITSLOT(b) < capacity'
    BY <1>1, <1>2, <1>3, <1>4
  <2>3. BITTEST(data', b) = BITTEST(cells, b)
    BY <1>1, <1>2, <1>4, <1>5, <2>1, <2>2, WrittenBits
  <2>4. BITSLOT(b) \in 0..capacity - 1
    BY <1>3
  <2>5. cells[BITSLOT(b)] = data[BITSLOT(b)]
    BY <1>4, <2>4
  <2>6. BITTEST(cells, b) = BITTEST(data, b)
    BY <2>5 DEF BITTEST
  <2> QED
    BY <2>3, <2>6
<1>8. BitsOf(data', length + 1) = Append(BitsOf(data, length), value)
  BY <1>1, <1>2, <1>6, <1>7, BitsPushed
<1>9. Bits' = Append(Bits, value) /\ Len(Bits) = length
  <2>1. Bits = BitsOf(data, length)
    BY DEF Bits, BitsOf
  <2>2. Bits' = BitsOf(data', length + 1)
    BY <1>2 DEF Bits, BitsOf
  <2>3. Len(BitsOf(data, length)) = length
    BY <1>1, BitsAreSequence
  <2> QED
    BY <1>8, <2>1, <2>2, <2>3
<1>10. call' = [operation |-> "push", value |-> value, n |-> length]
       /\ result' = result
  BY DEF PushInPlace, PushGrowing, Called
<1> QED
  BY <1>9, <1>10 DEF Stack!Push, Stack!Called

\* A pop takes the last bit off and returns it.
LEMMA PopMaps ==
  ASSUME BlockInv, senbitvec_pop
  PROVE  Stack!Pop
<1>1. length \in Nat /\ capacity \in Nat /\ data \in Cells(capacity)
      /\ BITNSLOTS(length) <= capacity /\ length > 0
  BY DEF BlockInv, TypeOK, BitsInBlock, senbitvec_pop
<1>2. length' = length - 1 /\ data' = data /\ result' = BITTEST(data, length - 1)
      /\ call' = [operation |-> "pop", value |-> FALSE, n |-> length - 1]
  BY DEF senbitvec_pop, Called
<1>3. length' \in Nat /\ length = length' + 1
  BY <1>1, <1>2
<1>4. BITNSLOTS(length' + 1) <= capacity
  BY <1>1, <1>3
<1>5. /\ BitsOf(data, length') = SubSeq(BitsOf(data, length' + 1), 1, length')
      /\ BitsOf(data, length' + 1)[length' + 1] = BITTEST(data, length')
  BY <1>1, <1>3, <1>4, BitsPopped
<1>6. Len(Bits) = length /\ Bits = BitsOf(data, length)
  BY <1>1, BitsAreSequence DEF Bits, BitsOf
<1>7. Bits' = BitsOf(data, length')
  BY <1>2 DEF Bits, BitsOf
<1>8. Bits' = SubSeq(Bits, 1, Len(Bits) - 1)
  BY <1>2, <1>3, <1>5, <1>6, <1>7
<1>9. result' = Bits[Len(Bits)]
  BY <1>2, <1>3, <1>5, <1>6
<1>10. Bits # <<>>
  BY <1>1, <1>6
<1> QED
  BY <1>2, <1>6, <1>8, <1>9, <1>10 DEF Stack!Pop, Stack!Called

\* A get returns the bit asked for.
LEMMA GetMaps ==
  ASSUME BlockInv, NEW n \in 0..length - 1, senbitvec_get(n)
  PROVE  n \in 0..Len(Bits) - 1 /\ Stack!Get(n)
<1>1. length \in Nat /\ capacity \in Nat /\ data \in Cells(capacity)
      /\ BITNSLOTS(length) <= capacity
  BY DEF BlockInv, TypeOK, BitsInBlock
<1>2. Len(Bits) = length /\ \A m \in 1..length : Bits[m] = BITTEST(data, m - 1)
  BY <1>1, BitsAreSequence DEF Bits, BitsOf
<1>3. Bits[n + 1] = BITTEST(data, n)
  <2>1. n + 1 \in 1..length /\ (n + 1) - 1 = n
    BY <1>1
  <2> QED
    BY <1>2, <2>1
<1>4. Bits' = Bits
  BY DEF senbitvec_get, Bits
<1>5. result' = BITTEST(data, n) /\ n < length
      /\ call' = [operation |-> "get", value |-> FALSE, n |-> n]
  BY DEF senbitvec_get, Called
<1>6. Stack!Get(n)
  BY <1>2, <1>3, <1>4, <1>5 DEF Stack!Get, Stack!Called
<1> QED
  BY <1>2, <1>6

\* A set replaces the bit asked for and no other.
LEMMA SetMaps ==
  ASSUME BlockInv, NEW n \in 0..length - 1, NEW value \in BOOLEAN,
         senbitvec_set(value, n)
  PROVE  n \in 0..Len(Bits) - 1 /\ Stack!Set(value, n)
<1>1. length \in Nat /\ capacity \in Nat /\ data \in Cells(capacity)
      /\ BITNSLOTS(length) <= capacity
  BY DEF BlockInv, TypeOK, BitsInBlock
<1>2. Len(Bits) = length /\ Bits = BitsOf(data, length)
  BY <1>1, BitsAreSequence DEF Bits, BitsOf
<1>3. length' = length /\ data' = Written(data, n, value) /\ result' = result
      /\ n < length /\ call' = [operation |-> "set", value |-> value, n |-> n]
  BY DEF senbitvec_set, Called
<1>4. Bits' = BitsOf(Written(data, n, value), length)
  BY <1>3 DEF Bits, BitsOf
<1>5. Bits' = [Bits EXCEPT ![n + 1] = value]
  BY <1>1, <1>2, <1>4, BitsSet
<1>6. Stack!Set(value, n)
  BY <1>2, <1>3, <1>5 DEF Stack!Set, Stack!Called
<1> QED
  BY <1>2, <1>6

\* A new vector is empty, and so is a freed one.
LEMMA NewMaps ==
  ASSUME NEW capacity_bits, senbitvec_new(capacity_bits)
  PROVE  Stack!Empty("new")
<1>1. Bits' = <<>>
  BY DEF senbitvec_new, Bits
<1> QED
  BY <1>1 DEF senbitvec_new, Called, Stack!Empty, Stack!Called

LEMMA FreeMaps == senbitvec_free => Stack!Empty("free")
<1> SUFFICES ASSUME senbitvec_free PROVE Stack!Empty("free")
  OBVIOUS
<1>1. Bits' = <<>>
  BY DEF senbitvec_free, Bits
<1> QED
  BY <1>1 DEF senbitvec_free, Called, Stack!Empty, Stack!Called

\* Every step of the cells is a step of the stack.
LEMMA BitsStep ==
  BlockInv /\ BlockInv' /\ [Next]_vars => [Stack!Next]_<<Bits, call, result>>
<1> SUFFICES ASSUME BlockInv, BlockInv', [Next]_vars
             PROVE  [Stack!Next]_<<Bits, call, result>>
  OBVIOUS
<1>1. ASSUME NEW capacity_bits \in CapacitiesBits, senbitvec_new(capacity_bits)
      PROVE  Stack!Next
  BY <1>1, NewMaps DEF Stack!Next
<1>2. ASSUME NEW value \in BOOLEAN, PushInPlace(value) \/ PushGrowing(value)
      PROVE  Stack!Next
  BY <1>2, PushMaps DEF Stack!Next
<1>3. CASE senbitvec_pop
  BY <1>3, PopMaps DEF Stack!Next
<1>4. ASSUME NEW n \in 0..length - 1, senbitvec_get(n)
      PROVE  Stack!Next
  BY <1>4, GetMaps DEF Stack!Next
<1>5. ASSUME NEW n \in 0..length - 1, NEW value \in BOOLEAN, senbitvec_set(value, n)
      PROVE  Stack!Next
  BY <1>5, SetMaps DEF Stack!Next
<1>6. CASE senbitvec_free
  BY <1>6, FreeMaps DEF Stack!Next
<1>7. CASE UNCHANGED vars
  BY <1>7 DEF vars, Bits
<1> QED
  BY <1>1, <1>2, <1>3, <1>4, <1>5, <1>6, <1>7 DEF Next

\* The vector of packed cells implements the stack of bits: whatever the size of
\* a cell, no push, set, pop or growth disturbs a bit beside its own, and pop and
\* get return what was put there.
THEOREM BitVecIsBitStack == Spec => IsBitStack
  BY BitsInit, BitsStep, BlockAlways, PTL DEF Spec, IsBitStack, Stack!Spec
=============================================================================
