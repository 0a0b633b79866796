------------------------------ MODULE MCBitVec -------------------------------
(* Small instances of BitVec for model checking: cells of two bits instead   *)
(* of eight, and blocks that grow twice (2, 3, 4 cells).                     *)
EXTENDS BitVec
=============================================================================
