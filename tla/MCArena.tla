------------------------------- MODULE MCArena -------------------------------
(* Small instances of Arena for model checking.  Sizes are scaled down: a    *)
(* header of 2 or 4, which is also the malloc alignment, stands for the 16   *)
(* and 16 of a 64-bit system, a default chunk of 8 or 16 bytes for 4080.     *)
EXTENDS ArenaWidth

\* Blocks far enough apart for the largest chunk of the runs.  66 is no
\* multiple of 4, so a chunk there is not aligned as one at 36 is.
ThreeBlocks == {36, 66, 96}
FiveBlocks == {20, 40, 60, 80, 102}

\* Multiples of 4, the malloc alignment of the runs about alignment.
AlignedBlocks == {40, 68, 100, 132}

\* Amounts around the room of a chunk, around addresses and up to half of the 256
\* addresses of the runs.
SomeAmounts == {0, 1, 2, 5, 6, 37, 66, 98, 118} \cup 120..123
=============================================================================
