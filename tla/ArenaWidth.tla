----------------------------- MODULE ArenaWidth ------------------------------
(***************************************************************************)
(* The arithmetic of sensible-arena in machine words.  Arena computes with *)
(* integers; the code computes with uintptr_t and size_t in the header and *)
(* with intptr_t in senarena_alloc_more.  Here are its tests as the words  *)
(* have them, and up to which amounts the integers stand for them.         *)
(***************************************************************************)
EXTENDS Arena

CONSTANTS
  WordValues,  \* 2^64, the number of values of an uintptr_t
  WideAmounts  \* the amounts asked for here; bound: for TLC a small set

ASSUME WidthConstants ==
  /\ WordValues \in Nat \ {0} /\ WordValues % 2 = 0
  /\ \A a \in Alignments : WordValues % a = 0
  /\ WideAmounts \subseteq Nat

WideRequests == [amount : WideAmounts, alignment : Alignments]

Word(n) == n % WordValues

\* an intptr_t, from the word with the same bits
Signed(word) == IF word >= WordValues \div 2 THEN word - WordValues ELSE word

\* amount_and_padding of senarena_alloc
WordAmountAndPadding(r) ==
  Word(r.amount + senarena_extra_bytes_needed(Word(top - r.amount), r.alignment))

\* Wrong on purpose: a variant of the next definition with a mistake, for which a
\* run must find a property violated.  Here the room is what the padding leaves.
WrongWordFits(r) ==
  LET padding == senarena_extra_bytes_needed(Word(top - r.amount), r.alignment)
  IN  r.amount <= Word(Word(top - bottom) - padding)

\* the test of senarena_alloc: unsigned
WordFits(r) == WordAmountAndPadding(r) <= Word(top - bottom)

\* the test of senarena_alloc_more: signed
SignedFits(r) == Signed(WordAmountAndPadding(r)) <= Signed(Word(top - bottom))

\* the argument of malloc in senarena_chunk_new, for a large request
WordSize(r) ==
  Word(Word(r.amount + senarena_extra_fresh_bytes_needed(r.alignment)) + HeaderSize)

\* Nothing wraps around for requests below half of the address space: the fast
\* and the slow path agree on what fits, also when top is less than the amount,
\* what fits is what fits by the integers, and a large chunk is malloced with room
\* for header, padding and amount.
WidthSuffices ==
  pc \in {"idle", "alloc_more"} =>
    \A r \in WideRequests :
      r.amount + r.alignment + HeaderSize < WordValues \div 2 =>
        /\ WordFits(r) <=> Fits(r)
        /\ SignedFits(r) <=> Fits(r)
        /\ Fits(r) => Word(top - WordAmountAndPadding(r)) = top - AmountAndPadding(r)
        /\ WordSize(r) >= HeaderSize + r.amount
=============================================================================
