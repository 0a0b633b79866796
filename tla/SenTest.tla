------------------------------- MODULE SenTest -------------------------------
(***************************************************************************)
(* sensible-test, while tests run: the calls behind the sentest and        *)
(* sentest_group loops and the assertions, and what they record.           *)
(* SenTestReport adds sentest_finish, which reads the record back.         *)
(*                                                                         *)
(* The caller is a program of nested for loops, bodies; it may open any    *)
(* group or test next, assert, or leave a body.  Strings are sequences of  *)
(* characters, C strings end at the first NUL of a buffer; offsets count   *)
(* from one.  Buffers grow as needed.                                      *)
(***************************************************************************)
EXTENDS Integers, Sequences, FiniteSets

CONSTANTS
  Names,      \* names of groups and tests
  Reasons,    \* formatted messages of failing asserts
  Configs,    \* values of sentest_config: filter_str, NULL or a string, and
              \* whether junit_output_path is given
  MaxRecords, \* bound: starts of groups and tests, and failures
  MaxBodies   \* bound: loops inside each other

NUL == "NUL"
NULL == <<NUL>>  \* no C string is this sequence

\* struct sentest_config, but for colour and output
Config == [filter_str : Seq(STRING), junit_output_path : BOOLEAN]

ASSUME TestConstants ==
  /\ \A s \in Names \cup Reasons : s \in Seq(STRING) /\ NUL \notin {s[k] : k \in 1..Len(s)}
  /\ NULL \notin Names \cup Reasons
  /\ Configs \subseteq Config
  /\ MaxRecords \in Nat /\ MaxBodies \in Nat

VARIABLES
  pc,                  \* "calls" while tests run, then a loop of sentest_finish
  config,              \* filter_str and junit_output_path of sentest_config
  bodies,              \* the caller's for loops, outermost first
  path,                \* the path buffer: data and length
  path_seg_lengths,    \* length of each segment pushed on path
  depth,               \* groups the harness counts as open
  tests_passed, tests_filtered_out, tests_run,
  actions,             \* the record: what happened,
  strs, str_starts,    \* and a string for each entering and failure
  current_failed, in_test, should_exit_group,
  groups,              \* auxiliary: each group's name and true totals
  cases,               \* auxiliary: each test that ran, its groups and failures
  skipped,             \* auxiliary: each test that was filtered out
  broke                \* auxiliary: whether the caller left a body by break

pathVars    == <<path, path_seg_lengths>>
counterVars == <<tests_passed, tests_filtered_out, tests_run>>
recordVars  == <<actions, strs, str_starts>>
flagVars    == <<current_failed, in_test, should_exit_group>>
trueVars    == <<groups, cases, skipped, broke>>
harnessVars == <<config, pathVars, depth, counterVars, recordVars, flagVars>>
callVars    == <<bodies, harnessVars, trueVars>>

-----------------------------------------------------------------------------
(* Strings and buffers.                                                    *)

\* the C string that starts at offset k of data
CString(data, k) ==
  LET end == CHOOSE e \in k..Len(data) :
               data[e] = NUL /\ \A f \in k..e-1 : data[f] # NUL
  IN  SubSeq(data, k, end - 1)

\* strstr(string, part) != NULL
Occurs(part, string) ==
  \E k \in 0..Len(string) - Len(part) : SubSeq(string, k + 1, k + Len(part)) = part

\* sentest_vec_char_push_pathseg: the NUL becomes a slash
PushSegment(buffer, segment) ==
  [data |-> SubSeq(buffer.data, 1, buffer.length - 1)
              \o <<"/">> \o segment \o <<NUL>>
              \o SubSeq(buffer.data, buffer.length + Len(segment) + 2, Len(buffer.data)),
   length |-> buffer.length + Len(segment) + 1]

\* the string is not ended where it now ends
WrongPopSegment(buffer, seg_length) ==
  [data |-> buffer.data, length |-> buffer.length - (seg_length + 1)]

\* the end of sentest_pop_path: what was behind the new end stays in the buffer
PopSegment(buffer, seg_length) ==
  LET length == buffer.length - (seg_length + 1)
  IN  [data |-> [buffer.data EXCEPT ![length] = NUL], length |-> length]

sentest_push_path(segment) ==
  /\ path' = PushSegment(path, segment)
  /\ path_seg_lengths' = Append(path_seg_lengths, Len(segment))

sentest_pop_path ==
  LET last == Len(path_seg_lengths)
  IN  /\ path' = PopSegment(path, path_seg_lengths[last])
      /\ path_seg_lengths' = SubSeq(path_seg_lengths, 1, last - 1)

\* sentest_vec_test_action_push and sentest_push_string
Record(action, string) ==
  /\ actions' = Append(actions, action)
  /\ str_starts' = Append(str_starts, Len(strs) + 1)
  /\ strs' = strs \o string \o <<NUL>>

RecordLeave(action) ==
  /\ actions' = Append(actions, action)
  /\ UNCHANGED <<strs, str_starts>>

Filtering == config.filter_str # NULL

\* Wrong on purpose (as every Wrong... of this module): a variant of the next
\* definition with a mistake, for which a run must find a property violated.
\* Here the path of the groups alone is looked at.
WrongMatches(name) == ~Filtering \/ Occurs(config.filter_str, CString(path.data, 1))

\* the test of sentest_start_internal, on the path with the test's name pushed
Matches(name) ==
  \/ ~Filtering
  \/ Occurs(config.filter_str, CString(PushSegment(path, name).data, 1))

-----------------------------------------------------------------------------
(* The caller: its innermost loop, and what it knows of its own tests.     *)

Innermost == bodies[Len(bodies)]
Outer == SubSeq(bodies, 1, Len(bodies) - 1)
At(place) == [bodies EXCEPT ![Len(bodies)].at = place]

\* the caller's own code runs: the innermost body, or the code outside all loops
InBody == pc = "calls" /\ (bodies # <<>> => Innermost.at = "body")
InBodyOf(kind) == InBody /\ bodies # <<>> /\ Innermost.kind = kind
AtCondition(kind) ==
  pc = "calls" /\ bodies # <<>> /\ Innermost.kind = kind /\ Innermost.at = "condition"

Enter(kind, name, number) ==
  bodies' = Append(bodies, [kind |-> kind, name |-> name, at |-> "condition",
                            runs |-> 0, number |-> number])

OpenNames == [k \in 1..Len(bodies) |-> bodies[k].name]
HasRoom == Len(str_starts) + Len(skipped) < MaxRecords

Init ==
  /\ pc = "calls"
  /\ config \in Configs
  /\ bodies = <<>>
  /\ path = [data |-> <<NUL>>, length |-> 1]
  /\ path_seg_lengths = <<>>
  /\ depth = 0
  /\ tests_passed = 0 /\ tests_filtered_out = 0 /\ tests_run = 0
  /\ actions = <<>>
  /\ strs = <<NUL>> /\ str_starts = <<>>
  /\ current_failed = FALSE /\ in_test = FALSE /\ should_exit_group = FALSE
  /\ groups = <<>> /\ cases = <<>> /\ skipped = <<>> /\ broke = FALSE

-----------------------------------------------------------------------------
(* sentest_group: for (group_start; group_should_continue; group_end)      *)

sentest_group_start(name) ==
  /\ InBody /\ HasRoom /\ Len(bodies) < MaxBodies
  /\ ~in_test
  /\ depth' = depth + 1
  /\ IF Filtering THEN sentest_push_path(name) ELSE UNCHANGED pathVars
  /\ should_exit_group' = FALSE
  /\ Record("GROUP_ENTER", name)
  /\ groups' = Append(groups, [name |-> name, tests |-> 0, failures |-> 0])
  /\ Enter("group", name, Len(groups) + 1)
  /\ UNCHANGED <<pc, config, counterVars, current_failed, in_test, cases, skipped, broke>>

\* the condition of the loop: the flag, which all loops share, is taken down
sentest_group_should_continue ==
  /\ AtCondition("group")
  /\ should_exit_group' = FALSE
  /\ bodies' = IF should_exit_group
               THEN Outer
               ELSE [At("body") EXCEPT ![Len(bodies)].runs = @ + 1]
  /\ UNCHANGED <<pc, config, pathVars, depth, counterVars, recordVars,
                 current_failed, in_test, trueVars>>

\* the body ran to its end, or the caller wrote continue
sentest_group_end ==
  /\ InBodyOf("group")
  /\ ~in_test
  /\ IF Filtering THEN sentest_pop_path ELSE UNCHANGED pathVars
  /\ depth' = depth - 1
  /\ should_exit_group' = TRUE
  /\ RecordLeave("GROUP_LEAVE")
  /\ bodies' = At("condition")
  /\ UNCHANGED <<pc, config, counterVars, current_failed, in_test, trueVars>>

-----------------------------------------------------------------------------
(* sentest: for (start_internal; test_should_continue; end_internal)       *)

\* the path with the name of the test pushed and popped again
PathAfterMatching(name) == PopSegment(PushSegment(path, name), Len(name))

\* sentest_start_internal, for a test the filter leaves out
TestSkipped(name) ==
  /\ InBody /\ HasRoom /\ Len(bodies) < MaxBodies
  /\ ~in_test /\ depth > 0
  /\ ~Matches(name)
  /\ path' = PathAfterMatching(name)
  /\ tests_filtered_out' = tests_filtered_out + 1
  /\ Enter("test", name, 0)
  /\ skipped' = Append(skipped, [groups |-> OpenNames, name |-> name])
  /\ UNCHANGED <<pc, config, path_seg_lengths, depth, tests_passed, tests_run,
                 recordVars, flagVars, groups, cases, broke>>

\* sentest_start_internal, for a test that runs
TestStart(name) ==
  /\ InBody /\ HasRoom /\ Len(bodies) < MaxBodies
  /\ ~in_test /\ depth > 0
  /\ Matches(name)
  /\ path' = IF Filtering THEN PathAfterMatching(name) ELSE path
  /\ current_failed' = FALSE
  /\ in_test' = TRUE
  /\ Record("TEST_ENTER", name)
  /\ Enter("test", name, Len(cases) + 1)
  /\ cases' = Append(cases, [groups |-> OpenNames, name |-> name, reasons |-> <<>>])
  /\ UNCHANGED <<pc, config, path_seg_lengths, depth, counterVars,
                 should_exit_group, groups, skipped, broke>>

sentest_test_should_continue ==
  /\ AtCondition("test")
  /\ bodies' = IF in_test
               THEN [At("body") EXCEPT ![Len(bodies)].runs = @ + 1]
               ELSE Outer
  /\ UNCHANGED <<pc, harnessVars, trueVars>>

\* The macros a test asserts with, each with the condition its caller computes:
\* that two values are equal, or, for assert and assertf, what should be true.
Assertions == {"assert", "assert_eq", "assert_neq", "assert_eq_fmt", "assertf", "failf"}

\* what the caller claims with an assertion holds
ClaimHolds(assertion, condition) ==
  CASE assertion = "failf"      -> FALSE
    [] assertion = "assert_neq" -> ~condition
    [] OTHER                    -> condition

\* the condition read as in the other assertions
WrongAssertFails(assertion, condition) == ~condition \/ assertion = "failf"

\* the tests of the three ..._internal functions before they report a failure
AssertFails(assertion, condition) ==
  \/ assertion = "failf"
  \/ assertion \in {"assert", "assert_eq", "assert_eq_fmt", "assertf"} /\ ~condition
  \/ assertion = "assert_neq" /\ condition

\* sentest_vfailf_internal and sentest_fail_with
sentest_fail_with(reason) ==
  /\ current_failed' = TRUE
  /\ Record("TEST_FAIL", reason)

\* an assertion in a test; only the caller knows if it should hold
MakeAssertion(assertion, condition, reason) ==
  /\ InBody /\ HasRoom
  /\ in_test
  /\ IF AssertFails(assertion, condition)
     THEN sentest_fail_with(reason)
     ELSE UNCHANGED <<current_failed, recordVars>>
  /\ cases' = IF ClaimHolds(assertion, condition) THEN cases
              ELSE [cases EXCEPT ![Len(cases)].reasons = Append(@, reason)]
  /\ UNCHANGED <<pc, config, bodies, pathVars, depth, counterVars, in_test,
                 should_exit_group, groups, skipped, broke>>

\* the true totals of the groups around the test that ends
Totals(failures) ==
  LET around == {bodies[k].number : k \in 1..Len(bodies) - 1}
  IN  [g \in 1..Len(groups) |->
        IF g \in around
        THEN [groups[g] EXCEPT !.tests = @ + 1, !.failures = @ + failures]
        ELSE groups[g]]

\* in_test stays set
WrongTestEnd ==
  /\ InBodyOf("test")
  /\ tests_passed' = IF current_failed THEN tests_passed ELSE tests_passed + 1
  /\ tests_run' = tests_run + 1
  /\ RecordLeave("TEST_LEAVE")
  /\ bodies' = At("condition")
  /\ groups' = Totals(IF cases[Innermost.number].reasons = <<>> THEN 0 ELSE 1)
  /\ UNCHANGED <<pc, config, pathVars, depth, tests_filtered_out, flagVars,
                 cases, skipped, broke>>

sentest_end_internal ==
  /\ InBodyOf("test")
  /\ tests_passed' = IF current_failed THEN tests_passed ELSE tests_passed + 1
  /\ tests_run' = tests_run + 1
  /\ in_test' = FALSE
  /\ RecordLeave("TEST_LEAVE")
  /\ bodies' = At("condition")
  /\ groups' = Totals(IF cases[Innermost.number].reasons = <<>> THEN 0 ELSE 1)
  /\ UNCHANGED <<pc, config, pathVars, depth, tests_filtered_out, current_failed,
                 should_exit_group, cases, skipped, broke>>

-----------------------------------------------------------------------------
(* Callers that do what the loops are not made for.                        *)

\* break or goto out of a body: the end call of the loop is never made.  Callers
\* that want a JUnit file are left out: its totals would be popped off an empty
\* stack, which is undefined behaviour.
Break ==
  /\ ~config.junit_output_path
  /\ InBody /\ bodies # <<>>
  /\ bodies' = Outer
  /\ broke' = TRUE
  /\ UNCHANGED <<pc, harnessVars, groups, cases, skipped>>

\* the asserts of group_start, start_internal, group_end and fail_with
AssertStops ==
  /\ InBody
  /\ \/ HasRoom /\ in_test                  \* a group or test is started
     \/ HasRoom /\ ~in_test /\ depth = 0    \* a test is started
     \/ HasRoom /\ ~in_test                 \* a failure outside of tests
     \/ InBodyOf("group") /\ in_test        \* a group ends
  /\ pc' = "aborted"
  /\ UNCHANGED callVars

Calls ==
  \/ \E name \in Names : \/ sentest_group_start(name)
                        \/ TestSkipped(name)
                        \/ TestStart(name)
  \/ \E assertion \in Assertions, condition \in BOOLEAN, reason \in Reasons :
       MakeAssertion(assertion, condition, reason)
  \/ sentest_group_should_continue
  \/ sentest_group_end
  \/ sentest_test_should_continue
  \/ sentest_end_internal
  \/ Break
  \/ AssertStops
=============================================================================
