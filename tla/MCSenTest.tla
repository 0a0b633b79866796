------------------------------ MODULE MCSenTest ------------------------------
(* Small instances of SenTestReport for model checking.                      *)
EXTENDS SenTestReport

\* Two names of one and two characters: each occurs in paths of the other, and
\* the shorter leaves a stale end behind in the path buffer.
ShortNames == {<<"a">>, <<"b", "a">>}
OneReason == {<<"r">>}

\* No filter and a JUnit file; no filter; a filter inside a name, one across two
\* names, one for the start of a name.
ConfigsOfAllKinds ==
  {[filter_str |-> NULL, junit_output_path |-> TRUE]}
    \cup [filter_str : {NULL, <<"b">>, <<"a", "/", "a">>, <<"/", "b">>},
          junit_output_path : {FALSE}]
=============================================================================
