-------------------------- MODULE MCSenTestBuffers ---------------------------
(* A small instance of SenTestBuffers for model checking: blocks that start  *)
(* with two cells and texts of no and three characters, so that blocks       *)
(* grow by half and by the length of a text.                                 *)
EXTENDS SenTestBuffers

MCTexts == {<<>>, <<"a", "b", "c">>}
=============================================================================
