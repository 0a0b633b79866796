------------------------------- MODULE MCTiming ------------------------------
(* Small instances of sensible-timing for model checking: a second of six   *)
(* nanoseconds, a microsecond of two and a millisecond of two microseconds,  *)
(* integers of five bits, a DWORD of nine values, and doubles of three bits, *)
(* so that few seconds are a double and some times are out of range.         *)
EXTENDS TimingWindows

MCGarbage == {ns_to_timespec(17)}
MCPowersOfTwo == {2^e : e \in 0..14}
=============================================================================
