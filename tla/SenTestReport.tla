---------------------------- MODULE SenTestReport ----------------------------
(***************************************************************************)
(* sensible-test, sentest_finish: the record of SenTest is read three      *)
(* times, to print the failures, to compute the totals of the groups from  *)
(* its end to its start, and to write the JUnit file.  One step handles    *)
(* one action of the record.                                               *)
(***************************************************************************)
EXTENDS SenTest, SequencesExt

VARIABLES
  i,            \* the loop's index into actions, from one
  str_ind,      \* the index into str_starts, from one
  had_failure,  \* the result of sentest_print_failures, then the exit code
  printed,      \* what it printed: a path and a reason each
  max_depth, num_groups,
  nesting,      \* depth of the scan and of the writing loop
  aggs,         \* totals of the groups, in the order they are computed
  current, agg_stack, failed, \* locals of the loop that computes them
  agg_ind,      \* index into aggs of the next group to be written
  class_path,   \* names of the groups around the place that is written
  document      \* the JUnit file: its elements, start and end tags alike

printVars   == <<had_failure, printed>>
scanVars    == <<max_depth, num_groups>>
totalVars   == <<aggs, current, agg_stack, failed>>
writeVars   == <<agg_ind, class_path, document>>
finishVars  == <<i, str_ind, nesting, printVars, scanVars, totalVars, writeVars>>
vars        == <<pc, callVars, finishVars>>

NoTests == [tests |-> 0, failures |-> 0]

ReportInit ==
  /\ Init
  /\ i = 1 /\ str_ind = 1 /\ nesting = 0
  /\ had_failure = FALSE /\ printed = <<>>
  /\ max_depth = 0 /\ num_groups = 0
  /\ aggs = <<>> /\ current = NoTests /\ agg_stack = <<>> /\ failed = FALSE
  /\ agg_ind = 0 /\ class_path = <<>> /\ document = <<>>

\* the next string of the record
NextString == CString(strs, str_starts[str_ind])

\* the loop named p is at an action out of kinds
Reading(p, kinds) == pc = p /\ i <= Len(actions) /\ actions[i] \in kinds

-----------------------------------------------------------------------------
(* sentest_print_failures                                                  *)

\* sentest_finish is called after the last loop
Finish ==
  /\ pc = "calls" /\ bodies = <<>>
  /\ pc' = "print"
  /\ UNCHANGED <<callVars, finishVars>>

\* the name of a group or test becomes part of the path again
PrintEnter ==
  /\ Reading("print", {"GROUP_ENTER", "TEST_ENTER"})
  /\ sentest_push_path(NextString)
  /\ i' = i + 1 /\ str_ind' = str_ind + 1
  /\ UNCHANGED <<pc, config, bodies, depth, counterVars, recordVars, flagVars,
                 trueVars, nesting, printVars, scanVars, totalVars, writeVars>>

\* the name of a test stays on the path
WrongPrintLeave ==
  /\ Reading("print", {"GROUP_LEAVE", "TEST_LEAVE"})
  /\ IF actions[i] = "GROUP_LEAVE" THEN sentest_pop_path ELSE UNCHANGED pathVars
  /\ i' = i + 1
  /\ UNCHANGED <<pc, config, bodies, depth, counterVars, recordVars, flagVars,
                 trueVars, str_ind, nesting, printVars, scanVars, totalVars, writeVars>>

PrintLeave ==
  /\ Reading("print", {"GROUP_LEAVE", "TEST_LEAVE"})
  /\ sentest_pop_path
  /\ i' = i + 1
  /\ UNCHANGED <<pc, config, bodies, depth, counterVars, recordVars, flagVars,
                 trueVars, str_ind, nesting, printVars, scanVars, totalVars, writeVars>>

PrintFail ==
  /\ Reading("print", {"TEST_FAIL"})
  /\ had_failure' = TRUE
  /\ printed' = Append(printed, [path |-> CString(path.data, 1), reason |-> NextString])
  /\ i' = i + 1 /\ str_ind' = str_ind + 1
  /\ UNCHANGED <<pc, callVars, nesting, scanVars, totalVars, writeVars>>

\* the end of the loop; without an output path the JUnit file is not written
PrintEnd ==
  /\ pc = "print" /\ i > Len(actions)
  /\ pc' = IF config.junit_output_path THEN "scan" ELSE "done"
  /\ i' = 1 /\ str_ind' = 1
  /\ UNCHANGED <<callVars, nesting, printVars, scanVars, totalVars, writeVars>>

-----------------------------------------------------------------------------
(* sentest_write_results: how deep groups are nested, and their number     *)

Scan ==
  /\ pc = "scan" /\ i <= Len(actions)
  /\ CASE actions[i] = "GROUP_ENTER" ->
            nesting' = nesting + 1 /\ num_groups' = num_groups + 1 /\ UNCHANGED max_depth
       [] actions[i] = "GROUP_LEAVE" ->
            /\ max_depth' = IF max_depth > nesting THEN max_depth ELSE nesting
            /\ nesting' = nesting - 1
            /\ UNCHANGED num_groups
       [] OTHER -> UNCHANGED <<nesting, scanVars>>
  /\ i' = i + 1
  /\ UNCHANGED <<pc, callVars, str_ind, printVars, totalVars, writeVars>>

ScanEnd ==
  /\ pc = "scan" /\ i > Len(actions)
  /\ pc' = "total"
  /\ i' = Len(actions)
  /\ UNCHANGED <<callVars, str_ind, nesting, printVars, scanVars, totalVars, writeVars>>

-----------------------------------------------------------------------------
(* sentest_write_results: the totals, from the last action to the first    *)

Totalling(kind) == pc = "total" /\ i > 0 /\ actions[i] = kind

\* the counts of what follows the group on its level wait on the stack
TotalLeaveGroup ==
  /\ Totalling("GROUP_LEAVE")
  /\ agg_stack' = Append(agg_stack, current)
  /\ current' = NoTests
  /\ i' = i - 1
  /\ UNCHANGED <<pc, callVars, str_ind, nesting, printVars, scanVars, aggs,
                 failed, writeVars>>

\* the group's counts are saved with those of its level already added
WrongTotalEnterGroup ==
  /\ Totalling("GROUP_ENTER")
  /\ LET inner == Last(agg_stack)
     IN  current' = [tests    |-> current.tests + inner.tests,
                     failures |-> current.failures + inner.failures]
  /\ aggs' = Append(aggs, current')
  /\ agg_stack' = Front(agg_stack)
  /\ i' = i - 1
  /\ UNCHANGED <<pc, callVars, str_ind, nesting, printVars, scanVars, failed, writeVars>>

TotalEnterGroup ==
  /\ Totalling("GROUP_ENTER")
  /\ aggs' = Append(aggs, current)
  /\ LET inner == Last(agg_stack)
     IN  current' = [tests    |-> current.tests + inner.tests,
                     failures |-> current.failures + inner.failures]
  /\ agg_stack' = Front(agg_stack)
  /\ i' = i - 1
  /\ UNCHANGED <<pc, callVars, str_ind, nesting, printVars, scanVars, failed, writeVars>>

TotalLeaveTest ==
  /\ Totalling("TEST_LEAVE")
  /\ current' = [current EXCEPT !.tests = @ + 1]
  /\ failed' = FALSE
  /\ i' = i - 1
  /\ UNCHANGED <<pc, callVars, str_ind, nesting, printVars, scanVars, aggs,
                 agg_stack, writeVars>>

TotalFail ==
  /\ Totalling("TEST_FAIL")
  /\ failed' = TRUE
  /\ i' = i - 1
  /\ UNCHANGED <<pc, callVars, str_ind, nesting, printVars, scanVars, aggs,
                 current, agg_stack, writeVars>>

\* a test counts as one failure however many of its asserts fail
TotalEnterTest ==
  /\ Totalling("TEST_ENTER")
  /\ current' = IF failed THEN [current EXCEPT !.failures = @ + 1] ELSE current
  /\ failed' = FALSE
  /\ i' = i - 1
  /\ UNCHANGED <<pc, callVars, str_ind, nesting, printVars, scanVars, aggs,
                 agg_stack, writeVars>>

\* fopen returned NULL, which nothing looks at: the first fprintf stops the program
OpenFails ==
  /\ pc = "total" /\ i = 0
  /\ pc' = "crashed"
  /\ UNCHANGED <<callVars, finishVars>>

\* the totals of all groups head the file
TotalEnd ==
  /\ pc = "total" /\ i = 0
  /\ document' = <<[tag |-> "testsuites", tests |-> current.tests,
                    failures |-> current.failures]>>
  /\ agg_ind' = num_groups
  /\ nesting' = 1
  /\ i' = 1
  /\ pc' = "write"
  /\ UNCHANGED <<callVars, str_ind, printVars, scanVars, totalVars, class_path>>

-----------------------------------------------------------------------------
(* sentest_write_results: the elements of the file, in order               *)

Write(element) == document' = Append(document, element)

WriteSuite ==
  /\ Reading("write", {"GROUP_ENTER"})
  /\ Write([tag |-> "testsuite", name |-> NextString,
            tests |-> aggs[agg_ind].tests, failures |-> aggs[agg_ind].failures])
  /\ class_path' = Append(class_path, NextString)
  /\ agg_ind' = agg_ind - 1
  /\ nesting' = nesting + 1
  /\ i' = i + 1 /\ str_ind' = str_ind + 1
  /\ UNCHANGED <<pc, callVars, printVars, scanVars, totalVars>>

WriteCase ==
  /\ Reading("write", {"TEST_ENTER"})
  /\ Write([tag |-> "testcase", name |-> NextString, classname |-> class_path])
  /\ i' = i + 1 /\ str_ind' = str_ind + 1
  /\ UNCHANGED <<pc, callVars, nesting, printVars, scanVars, totalVars, agg_ind, class_path>>

WriteCaseEnd ==
  /\ Reading("write", {"TEST_LEAVE"})
  /\ Write([tag |-> "/testcase"])
  /\ i' = i + 1
  /\ UNCHANGED <<pc, callVars, str_ind, nesting, printVars, scanVars, totalVars,
                 agg_ind, class_path>>

\* the block for GROUP_LEAVE at the head of the loop left out
WrongWriteSuiteEnd ==
  /\ Reading("write", {"GROUP_LEAVE"})
  /\ Write([tag |-> "/testsuite"])
  /\ i' = i + 1
  /\ UNCHANGED <<pc, callVars, str_ind, nesting, printVars, scanVars, totalVars,
                 agg_ind, class_path>>

WriteSuiteEnd ==
  /\ Reading("write", {"GROUP_LEAVE"})
  /\ Write([tag |-> "/testsuite"])
  /\ class_path' = Front(class_path)
  /\ nesting' = nesting - 1
  /\ i' = i + 1
  /\ UNCHANGED <<pc, callVars, str_ind, printVars, scanVars, totalVars, agg_ind>>

WriteFail ==
  /\ Reading("write", {"TEST_FAIL"})
  /\ Write([tag |-> "failure", text |-> NextString])
  /\ i' = i + 1 /\ str_ind' = str_ind + 1
  /\ UNCHANGED <<pc, callVars, nesting, printVars, scanVars, totalVars, agg_ind, class_path>>

\* the end of the file and of sentest_finish
WriteEnd ==
  /\ pc = "write" /\ i > Len(actions)
  /\ Write([tag |-> "/testsuites"])
  /\ pc' = "done"
  /\ UNCHANGED <<callVars, i, str_ind, nesting, printVars, scanVars, totalVars,
                 agg_ind, class_path>>

\* the program went on to exit, or an assert stopped it
Stopped == pc \in {"done", "aborted", "crashed"} /\ UNCHANGED vars

Next ==
  \/ Calls /\ UNCHANGED finishVars
  \/ Finish
  \/ PrintEnter \/ PrintLeave \/ PrintFail \/ PrintEnd
  \/ Scan \/ ScanEnd
  \/ TotalLeaveGroup \/ TotalEnterGroup
  \/ TotalLeaveTest \/ TotalFail \/ TotalEnterTest \/ TotalEnd \/ OpenFails
  \/ WriteSuite \/ WriteCase \/ WriteCaseEnd \/ WriteSuiteEnd \/ WriteFail \/ WriteEnd
  \/ Stopped

Spec == ReportInit /\ [][Next]_vars

-----------------------------------------------------------------------------
(* What the calls keep true.                                               *)

Kinds == {"GROUP_ENTER", "TEST_ENTER", "GROUP_LEAVE", "TEST_LEAVE", "TEST_FAIL"}
Aggregate == [tests : Nat, failures : Nat]

\* Type invariant, with the bounds of the arrays of sentest_write_results: the
\* stack and the indentation are allocated for max_depth, the totals for
\* num_groups, and every index stays inside them.
TypeOK ==
  /\ pc \in {"calls", "print", "scan", "total", "write", "done", "aborted", "crashed"}
  /\ config \in Configs /\ broke \in BOOLEAN
  /\ path.length \in 1..Len(path.data)
  /\ path_seg_lengths \in Seq(Nat)
  /\ depth \in Nat
  /\ tests_passed \in Nat /\ tests_filtered_out \in Nat /\ tests_run \in Nat
  /\ actions \in Seq(Kinds) /\ str_starts \in Seq(1..Len(strs))
  /\ \A flag \in {current_failed, in_test, should_exit_group, failed, had_failure} :
       flag \in BOOLEAN
  /\ pc \in {"total", "write"} => Len(agg_stack) <= max_depth /\ Len(aggs) <= num_groups
  /\ pc = "write" => agg_ind \in 0..num_groups /\ nesting \in 1..max_depth + 1
  /\ current \in Aggregate /\ aggs \in Seq(Aggregate) /\ agg_stack \in Seq(Aggregate)

\* "/" and a name for each of names: how path spells them
Spell(names) == FlattenSeq([k \in 1..Len(names) |-> <<"/">> \o names[k]])

\* names of the caller's loops that are group bodies entered and not yet ended
OpenGroups ==
  LET ended == bodies # <<>> /\ (Innermost.kind = "test" \/ should_exit_group)
  IN  IF ended THEN SubSeq(OpenNames, 1, Len(bodies) - 1) ELSE OpenNames

\* With a filter, the C string in path names exactly the groups that are open
\* around the caller, whatever was pushed and popped before; the filter is
\* compared with this path.  (Here, as below, for callers that write no break.)
PathIsWhereWeAre ==
  pc = "calls" /\ Filtering /\ ~broke => CString(path.data, 1) = Spell(OpenGroups)

\* Exactly the tests whose full path contains filter_str run, and the others are
\* counted, wherever the match lies, in a group's name, in the test's or across
\* the slash between two (sensible-test.h: "Only run tests with paths that
\* contain this string").
FilterSelects ==
  Filtering /\ ~broke =>
    /\ \A k \in 1..Len(cases) :
         Occurs(config.filter_str, Spell(Append(cases[k].groups, cases[k].name)))
    /\ \A k \in 1..Len(skipped) :
         ~Occurs(config.filter_str, Spell(Append(skipped[k].groups, skipped[k].name)))
    /\ tests_filtered_out = Len(skipped)

\* The library knows where the caller is, although all loops share the flags
\* should_exit_group and in_test: the body of a group runs once, that of a test
\* once or, filtered out, never; and the asserts stop only callers that are wrong,
\* as in_test is set exactly in a test that runs, depth zero exactly in no group.
FlagsFollowLoops ==
  ~broke =>
    /\ \A k \in 1..Len(bodies) :
         bodies[k].runs <= 1 /\ (k < Len(bodies) => bodies[k].runs = 1 /\ bodies[k].at = "body")
    /\ InBody =>
         /\ in_test <=> bodies # <<>> /\ Innermost.kind = "test"
         /\ depth = Cardinality({k \in 1..Len(bodies) : bodies[k].kind = "group"})

-----------------------------------------------------------------------------
(* What sentest_finish reports.                                            *)

\* every failure of the run, in order, under the path of its test
TrueFailures ==
  FlattenSeq([k \in 1..Len(cases) |->
    [r \in 1..Len(cases[k].reasons) |->
       [path |-> Spell(Append(cases[k].groups, cases[k].name)),
        reason |-> cases[k].reasons[r]]]])

\* The failures printed so far are those of the first assertions that did not hold,
\* each under the path of the test it is in; when printing is over, none is missing,
\* also where the JUnit file cannot be opened and the program stops.
FailuresPrinted ==
  ~broke =>
    /\ IsPrefix(printed, TrueFailures)
    /\ pc \in {"scan", "total", "write", "done", "crashed"} => printed = TrueFailures

\* The exit code tells whether any assert failed in any test, also for callers
\* who leave loops by break, as long as no assert of the library stops them.
ExitCodeTells ==
  pc = "done" => (had_failure <=> \E k \in 1..Len(cases) : cases[k].reasons # <<>>)

\* the elements of the file with one of tags, in order
Elements(tags) ==
  FlattenSeq([k \in 1..Len(document) |->
                IF document[k].tag \in tags THEN <<document[k]>> ELSE <<>>])

\* the start tags the JUnit file should have for tests and failures
TrueCases ==
  FlattenSeq([k \in 1..Len(cases) |->
    <<[tag |-> "testcase", name |-> cases[k].name, classname |-> cases[k].groups]>>
      \o [r \in 1..Len(cases[k].reasons) |->
            [tag |-> "failure", text |-> cases[k].reasons[r]]]])

\* The JUnit file gives every group the number of tests and of failed tests in it
\* and in the groups inside it, and the whole file those of the run, with which
\* the counters tests_run and tests_passed agree.
JUnitTotals ==
  pc = "done" /\ config.junit_output_path =>
    /\ Elements({"testsuite"}) =
         [g \in 1..Len(groups) |->
            [tag |-> "testsuite", name |-> groups[g].name,
             tests |-> groups[g].tests, failures |-> groups[g].failures]]
    /\ document[1].tests = tests_run
    /\ document[1].failures = tests_run - tests_passed
    /\ tests_run = Len(cases)
    /\ tests_passed = Cardinality({k \in 1..Len(cases) : cases[k].reasons = <<>>})

\* The start tags of tests and failures in the JUnit file are, in order, those of
\* every test that ran, in the class of its groups, each followed by those of its
\* own failures.
JUnitCases ==
  pc = "done" /\ config.junit_output_path =>
    Elements({"testcase", "failure"}) = TrueCases

=============================================================================
