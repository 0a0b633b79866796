------------------------- MODULE SenTestTotalsProofs -------------------------
(***************************************************************************)
(* Proofs about the totals of the JUnit file that sentest_finish writes.   *)
(* They are computed backwards, from a stack that grows at the ends of     *)
(* groups; here they are shown to be the counts of the record between the  *)
(* start and the end of each group, and these to be those of the run.      *)
(***************************************************************************)
EXTENDS SenTestProofs

-----------------------------------------------------------------------------
(* The counts of the run: those of the record.                             *)

\* tests that ended with the first k actions, and those of them and of the one that
\* runs in which an assert failed: the first failure behind the start counts
FirstFails(acts) ==
  [k \in 1..Len(acts) |-> k > 1 /\ acts[k] = "TEST_FAIL" /\ acts[k-1] = "TEST_ENTER"]
TestsTo(k) == Occurrences(actions, {"TEST_LEAVE"}, k)
FailuresTo(k) == Occurrences(FirstFails(actions), {TRUE}, k)

\* tests among the first k that no assert failed in
PassedTo(k) == Occurrences([m \in 1..Len(cases) |-> cases[m].reasons], {<<>>}, k)

\* the test that runs has failed
Pending == IF in_test /\ current_failed THEN 1 ELSE 0

\* A test is recorded as its start, its failures and its end.
OrderInv ==
  /\ in_test => /\ actions # <<>>
                /\ \/ actions[Len(actions)] = "TEST_ENTER" /\ ~current_failed
                   \/ actions[Len(actions)] = "TEST_FAIL" /\ current_failed
  /\ ~in_test => actions = <<>> \/ actions[Len(actions)] \notin {"TEST_ENTER", "TEST_FAIL"}
  /\ \A k \in 1..Len(actions) :
       actions[k] \in {"TEST_FAIL", "TEST_LEAVE"}
         <=> k > 1 /\ actions[k-1] \in {"TEST_ENTER", "TEST_FAIL"}

\* The counters are those of the record and of the tests that ran.
RunInv ==
  /\ current_failed \in BOOLEAN /\ tests_run \in Nat /\ tests_passed \in Nat
  /\ in_test => (current_failed <=> cases[Len(cases)].reasons # <<>>)
  /\ tests_run = TestsTo(Len(actions))
  /\ tests_run - tests_passed + Pending = FailuresTo(Len(actions))
  /\ Len(cases) = IF in_test THEN tests_run + 1 ELSE tests_run
  /\ PassedTo(tests_run) = tests_passed

\* what a call does to the record, and to the counters with it
CallRecorded(kind) ==
  /\ Logged(kind)
  /\ kind \in {"TEST_FAIL", "TEST_LEAVE"} <=> in_test
  /\ in_test' \in BOOLEAN
  /\ in_test' <=> kind \in {"TEST_ENTER", "TEST_FAIL"}
  /\ kind # "TEST_LEAVE" => UNCHANGED <<tests_run, tests_passed>>
  /\ kind \notin {"GROUP_ENTER", "TEST_LEAVE"} => UNCHANGED groups
  /\ kind \notin {"TEST_ENTER", "TEST_FAIL"} => UNCHANGED <<cases, current_failed>>

CallsRecorded ==
  \/ UNCHANGED <<actions, strs, str_starts, cases, groups, tests_run, tests_passed, in_test,
                 current_failed>>
  \/ CallRecorded("GROUP_ENTER") /\ \E name \in Names : sentest_group_start(name)
  \/ /\ CallRecorded("TEST_ENTER") /\ current_failed' = FALSE
     /\ \E test \in Case : cases' = Append(cases, test) /\ test.reasons = <<>>
  \/ /\ CallRecorded("TEST_FAIL") /\ current_failed' = TRUE
     /\ \E reason \in Reasons :
          cases' = [cases EXCEPT ![Len(cases)].reasons = Append(@, reason)]
  \/ /\ CallRecorded("TEST_LEAVE")
     /\ tests_run' = tests_run + 1
     /\ tests_passed' = IF current_failed THEN tests_passed ELSE tests_passed + 1
     /\ sentest_end_internal
  \/ CallRecorded("GROUP_LEAVE")

\* Every call is one of these.
LEMMA CallsAreRecorded ==
  ASSUME CallsInv, Calls
  PROVE  CallsRecorded
<1> RecordInv /\ AccountInv /\ LoopsInv /\ in_test \in BOOLEAN
  BY DEF CallsInv, LoopsInv, LoopTypes
<1>1. ASSUME NEW name \in Names, sentest_group_start(name) PROVE CallsRecorded
  <2>1. Logged("GROUP_ENTER")
    BY <1>1, GroupStartAccount
  <2>2. ~in_test /\ in_test' = in_test /\ UNCHANGED <<tests_run, tests_passed, cases, current_failed>>
    BY <1>1 DEF sentest_group_start, counterVars
  <2> QED
    BY <1>1, <2>1, <2>2 DEF CallsRecorded, CallRecorded
<1>2. ASSUME NEW name \in Names, TestSkipped(name) PROVE CallsRecorded
  BY <1>2 DEF TestSkipped, CallsRecorded, recordVars, flagVars
<1>3. ASSUME NEW name \in Names, TestStart(name) PROVE CallsRecorded
  <2> DEFINE new == [groups |-> OpenNames, name |-> name, reasons |-> <<>>]
  <2>1. Logged("TEST_ENTER")
    BY <1>3, TestStartAccount
  <2>2. /\ ~in_test /\ in_test' = TRUE /\ current_failed' = FALSE /\ cases' = Append(cases, new)
        /\ UNCHANGED <<tests_run, tests_passed, groups>>
    BY <1>3 DEF TestStart, counterVars
  <2>3. new \in Case /\ new.reasons = <<>>
    BY OpenNamesTyped DEF Case
  <2> HIDE DEF new
  <2> QED
    BY <2>1, <2>2, <2>3 DEF CallsRecorded, CallRecorded
<1>4. ASSUME NEW assertion \in Assertions, NEW condition \in BOOLEAN, NEW reason \in Reasons,
             MakeAssertion(assertion, condition, reason)
      PROVE  CallsRecorded
  <2>1. /\ in_test /\ in_test' = in_test /\ UNCHANGED <<tests_run, tests_passed, groups>>
        /\ cases' = IF ClaimHolds(assertion, condition) THEN cases
                    ELSE [cases EXCEPT ![Len(cases)].reasons = Append(@, reason)]
    BY <1>4 DEF MakeAssertion, counterVars
  <2>2. CASE ClaimHolds(assertion, condition)
    <3>1. UNCHANGED <<recordVars, cases, current_failed>>
      BY <1>4, <2>2, AssertionRecord
    <3> QED
      BY <2>1, <3>1 DEF CallsRecorded, recordVars
  <2>3. CASE ~ClaimHolds(assertion, condition)
    <3>1. Logged("TEST_FAIL")
      BY <1>4, <2>3, AssertionRecord
    <3>2. current_failed' = TRUE
      BY <1>4, <2>3, FailsUnlessHolds DEF MakeAssertion, sentest_fail_with
    <3> QED
      BY <2>1, <2>3, <3>1, <3>2 DEF CallsRecorded, CallRecorded
  <2> QED
    BY <2>2, <2>3
<1>5. CASE sentest_group_should_continue \/ sentest_test_should_continue \/ AssertStops
  BY <1>5 DEF sentest_group_should_continue, sentest_test_should_continue, AssertStops,
     trueVars, harnessVars, callVars, recordVars, counterVars, flagVars, CallsRecorded
<1>6. CASE sentest_group_end
  <2>1. Logged("GROUP_LEAVE")
    BY <1>6, GroupEndAccount
  <2>2. /\ ~in_test /\ in_test' = in_test
        /\ UNCHANGED <<tests_run, tests_passed, cases, groups, current_failed>>
    BY <1>6 DEF sentest_group_end, counterVars, trueVars
  <2> QED
    BY <2>1, <2>2 DEF CallsRecorded, CallRecorded
<1>7. CASE sentest_end_internal
  <2>1. Logged("TEST_LEAVE")
    BY <1>7, TestEndAccount
  <2>2. /\ in_test' = FALSE /\ tests_run' = tests_run + 1
        /\ tests_passed' = IF current_failed THEN tests_passed ELSE tests_passed + 1
        /\ UNCHANGED <<cases, current_failed>>
    BY <1>7 DEF sentest_end_internal
  <2>3. in_test
    BY <1>7 DEF sentest_end_internal, InBodyOf, InBody, LoopsInv, InnermostInv
  <2> QED
    BY <1>7, <2>1, <2>2, <2>3 DEF CallsRecorded, CallRecorded
<1>8. CASE Break
  BY <1>8 DEF Break, harnessVars, recordVars, counterVars, flagVars, CallsRecorded
<1> QED
  BY <1>1, <1>2, <1>3, <1>4, <1>5, <1>6, <1>7, <1>8 DEF Calls

\* the counts when an action is recorded
LEMMA CountsGrow ==
  ASSUME RecordInv, NEW kind \in Kinds, Logged(kind)
  PROVE  /\ Len(actions) \in Nat /\ Len(actions') = Len(actions) + 1
         /\ actions'[Len(actions) + 1] = kind /\ actions' # <<>>
         /\ \A k \in 1..Len(actions) : actions'[k] = actions[k]
         /\ \A k \in 0..Len(actions) : /\ TestsTo(k)' = TestsTo(k) /\ TestsTo(k) \in Nat
                                       /\ FailuresTo(k)' = FailuresTo(k) /\ FailuresTo(k) \in Nat
                                       /\ Entered(k)' = Entered(k) /\ Entered(k) \in Nat
         /\ TestsTo(Len(actions))' =
              IF kind = "TEST_LEAVE" THEN TestsTo(Len(actions)) + 1 ELSE TestsTo(Len(actions))
         /\ FailuresTo(Len(actions))' =
              IF kind = "TEST_FAIL" /\ actions # <<>> /\ actions[Len(actions)] = "TEST_ENTER"
              THEN FailuresTo(Len(actions)) + 1 ELSE FailuresTo(Len(actions))
         /\ Entered(Len(actions))' =
              IF kind = "GROUP_ENTER" THEN Entered(Len(actions)) + 1 ELSE Entered(Len(actions))
<1>0. PICK n \in Nat : n = Len(actions)
  BY DEF RecordInv
<1>1. actions \in Seq(Kinds) /\ actions' = Append(actions, kind)
  BY DEF RecordInv, Logged
<1>2. /\ n \in Nat /\ Len(actions') = n + 1 /\ actions'[n + 1] = kind /\ actions' # <<>>
      /\ \A k \in 1..n : actions'[k] = actions[k]
      /\ actions # <<>> <=> n > 0
  BY <1>0, <1>1
<1>3. \A k \in 1..n : FirstFails(actions')[k] = FirstFails(actions)[k]
  <2> TAKE k \in 1..n
  <2>1. k \in 1..Len(actions) /\ k \in 1..Len(actions') /\ (k > 1 => k - 1 \in 1..n)
    BY <1>0, <1>2
  <2> QED
    BY <1>2, <2>1 DEF FirstFails
<1>4. FirstFails(actions')[n+1] <=> n > 0 /\ kind = "TEST_FAIL" /\ actions[n] = "TEST_ENTER"
  <2>1. PICK m \in 1..Len(actions') : m = n + 1 /\ m - 1 = n /\ (m > 1 <=> n > 0)
    BY <1>2
  <2>2. FirstFails(actions')[m] = (m > 1 /\ actions'[m] = "TEST_FAIL" /\ actions'[m-1] = "TEST_ENTER")
    BY DEF FirstFails
  <2>3. n > 0 => actions'[n] = actions[n]
    BY <1>2
  <2> QED
    BY <1>2, <2>1, <2>2, <2>3
<1>f. FirstFails(actions')[n+1] \in BOOLEAN
  <2>1. n + 1 \in 1..Len(actions')
    BY <1>2
  <2> QED
    BY <2>1 DEF FirstFails
<1>5. ASSUME NEW k \in 0..n
      PROVE  /\ TestsTo(k)' = TestsTo(k) /\ TestsTo(k) \in Nat
             /\ FailuresTo(k)' = FailuresTo(k) /\ FailuresTo(k) \in Nat
             /\ Entered(k)' = Entered(k) /\ Entered(k) \in Nat
  <2>1. k \in Nat /\ \A j \in 1..k : j \in 1..n
    BY <1>2
  <2>2. /\ \A j \in 1..k : actions'[j] = actions[j]
        /\ \A j \in 1..k : FirstFails(actions')[j] = FirstFails(actions)[j]
    BY <1>2, <1>3, <2>1
  <2>3. \A T : Occurrences(actions', T, k) = Occurrences(actions, T, k)
    BY <2>1, <2>2, OccurrencesSame
  <2>4. \A T : Occurrences(FirstFails(actions'), T, k) = Occurrences(FirstFails(actions), T, k)
    BY <2>1, <2>2, OccurrencesSame
  <2>5. \A s, T : Occurrences(s, T, k) \in Nat
    BY <2>1, OccurrencesStep
  <2> QED
    BY <2>3, <2>4, <2>5 DEF TestsTo, FailuresTo, Entered
<1>6. \A T : /\ kind \in T => Occurrences(actions', T, n + 1) = Occurrences(actions', T, n) + 1
             /\ kind \notin T => Occurrences(actions', T, n + 1) = Occurrences(actions', T, n)
  BY <1>2, OccurrencesStep
<1>7. LET s == FirstFails(actions')
      IN  /\ s[n+1] \in {TRUE} => Occurrences(s, {TRUE}, n + 1) = Occurrences(s, {TRUE}, n) + 1
          /\ s[n+1] \notin {TRUE} => Occurrences(s, {TRUE}, n + 1) = Occurrences(s, {TRUE}, n)
  BY <1>2, OccurrencesStep
<1>8. n \in 0..n
  BY <1>2
<1>9. /\ TestsTo(n)' = TestsTo(n) /\ FailuresTo(n)' = FailuresTo(n) /\ Entered(n)' = Entered(n)
  BY <1>5, <1>8
<1>10. /\ TestsTo(Len(actions))' = Occurrences(actions', {"TEST_LEAVE"}, n + 1)
       /\ FailuresTo(Len(actions))' = Occurrences(FirstFails(actions'), {TRUE}, n + 1)
       /\ Entered(Len(actions))' = Occurrences(actions', {"GROUP_ENTER"}, n + 1)
  BY <1>2 DEF TestsTo, FailuresTo, Entered
<1>11. TestsTo(Len(actions))' = IF kind = "TEST_LEAVE" THEN TestsTo(n) + 1 ELSE TestsTo(n)
  <2>1. Occurrences(actions', {"TEST_LEAVE"}, n) = TestsTo(n)
    BY <1>9 DEF TestsTo
  <2> QED
    BY <1>6, <1>10, <2>1
<1>12. Entered(Len(actions))' = IF kind = "GROUP_ENTER" THEN Entered(n) + 1 ELSE Entered(n)
  <2>1. Occurrences(actions', {"GROUP_ENTER"}, n) = Entered(n)
    BY <1>9 DEF Entered
  <2> QED
    BY <1>6, <1>10, <2>1
<1>13. FailuresTo(Len(actions))' =
         IF kind = "TEST_FAIL" /\ actions # <<>> /\ actions[n] = "TEST_ENTER"
         THEN FailuresTo(n) + 1 ELSE FailuresTo(n)
  <2>1. Occurrences(FirstFails(actions'), {TRUE}, n) = FailuresTo(n)
    BY <1>9 DEF FailuresTo
  <2>2. CASE FirstFails(actions')[n+1] = TRUE
    BY <1>2, <1>4, <1>7, <1>10, <2>1, <2>2
  <2>3. CASE FirstFails(actions')[n+1] = FALSE
    BY <1>2, <1>4, <1>7, <1>10, <2>1, <2>3
  <2> QED
    BY <1>f, <2>2, <2>3
<1> QED
  BY <1>0, <1>2, <1>5, <1>11, <1>12, <1>13

\* Steps that record nothing keep both.
LEMMA OrderStutter ==
  ASSUME OrderInv, RunInv,
         UNCHANGED <<actions, cases, tests_run, tests_passed, in_test, current_failed>>
  PROVE  OrderInv' /\ RunInv'
<1>1. OrderInv'
  BY DEF OrderInv
<1>2. /\ \A k : TestsTo(k)' = TestsTo(k) /\ FailuresTo(k)' = FailuresTo(k) /\ PassedTo(k)' = PassedTo(k)
      /\ Pending' = Pending
  BY DEF TestsTo, FailuresTo, PassedTo, Pending
<1>3. /\ TestsTo(Len(actions))' = TestsTo(Len(actions))
      /\ FailuresTo(Len(actions))' = FailuresTo(Len(actions))
      /\ PassedTo(tests_run)' = PassedTo(tests_run)
  BY DEF TestsTo, FailuresTo, PassedTo
<1>4. RunInv'
  BY <1>2, <1>3 DEF RunInv
<1> QED
  BY <1>1, <1>4

\* An action is recorded where it may stand.
LEMMA OrderKept ==
  ASSUME RecordInv, OrderInv, NEW kind \in Kinds, CallRecorded(kind),
         kind = "TEST_ENTER" => current_failed' = FALSE,
         kind = "TEST_FAIL" => current_failed' = TRUE
  PROVE  OrderInv'
<1>0. PICK n \in Nat : n = Len(actions)
  BY DEF RecordInv
<1>1. /\ Len(actions') = n + 1 /\ actions'[n + 1] = kind /\ actions' # <<>>
      /\ \A k \in 1..n : actions'[k] = actions[k]
      /\ actions # <<>> <=> n > 0
  BY <1>0, CountsGrow DEF CallRecorded, RecordInv
<1>2. /\ kind \in {"TEST_FAIL", "TEST_LEAVE"} <=> in_test
      /\ in_test' <=> kind \in {"TEST_ENTER", "TEST_FAIL"}
  BY DEF CallRecorded
<1>3. in_test <=> n > 0 /\ actions[n] \in {"TEST_ENTER", "TEST_FAIL"}
  BY <1>0, <1>1 DEF OrderInv
<1>4. \A k \in 1..n + 1 : actions'[k] \in {"TEST_FAIL", "TEST_LEAVE"}
                            <=> k > 1 /\ actions'[k-1] \in {"TEST_ENTER", "TEST_FAIL"}
  <2> TAKE k \in 1..n + 1
  <2>1. CASE k = n + 1
    <3>1. k - 1 = n /\ (k > 1 <=> n > 0) /\ (n > 0 => actions'[n] = actions[n])
      BY <1>1, <2>1
    <3> QED
      BY <1>1, <1>2, <1>3, <2>1, <3>1
  <2>2. CASE k # n + 1
    <3>1. k \in 1..n /\ (k > 1 => k - 1 \in 1..n)
      BY <2>2
    <3>2. actions'[k] = actions[k] /\ (k > 1 => actions'[k-1] = actions[k-1])
      BY <1>1, <3>1
    <3> QED
      BY <1>0, <3>1, <3>2 DEF OrderInv
  <2> QED
    BY <2>1, <2>2
<1> QED
  BY <1>1, <1>2, <1>4 DEF OrderInv, Kinds

\* how the number of passed tests grows
LEMMA PassedIs ==
  ASSUME NEW seq, NEW n \in Nat
  PROVE  LET reasons == [m \in 1..n + 1 |-> seq[m].reasons]
         IN  Occurrences(reasons, {<<>>}, n + 1) =
               IF seq[n+1].reasons = <<>> THEN Occurrences(reasons, {<<>>}, n) + 1
               ELSE Occurrences(reasons, {<<>>}, n)
<1> DEFINE reasons == [m \in 1..n + 1 |-> seq[m].reasons]
<1>1. n + 1 \in 1..n + 1
  OBVIOUS
<1>2. reasons[n+1] = seq[n+1].reasons
  BY <1>1
<1> HIDE DEF reasons
<1>3. /\ reasons[n+1] \in {<<>>} => Occurrences(reasons, {<<>>}, n + 1) = Occurrences(reasons, {<<>>}, n) + 1
      /\ reasons[n+1] \notin {<<>>} => Occurrences(reasons, {<<>>}, n + 1) = Occurrences(reasons, {<<>>}, n)
  BY OccurrencesStep
<1>4. Occurrences(reasons, {<<>>}, n + 1) =
        IF seq[n+1].reasons = <<>> THEN Occurrences(reasons, {<<>>}, n) + 1
        ELSE Occurrences(reasons, {<<>>}, n)
  BY <1>2, <1>3
<1> QED
  BY <1>4 DEF reasons

\* The tests before the first m that stay, stay counted.
LEMMA PassedSame ==
  ASSUME NEW m \in Nat, m <= Len(cases), m <= Len(cases'), Len(cases) \in Nat, Len(cases') \in Nat,
         \A k \in 1..m : cases'[k] = cases[k]
  PROVE  PassedTo(m)' = PassedTo(m)
<1> DEFINE a == [k \in 1..Len(cases) |-> cases[k].reasons]
           b == [k \in 1..Len(cases') |-> cases'[k].reasons]
<1>1. \A k \in 1..m : b[k] = a[k]
  <2> TAKE k \in 1..m
  <2>1. k \in 1..Len(cases) /\ k \in 1..Len(cases')
    OBVIOUS
  <2> QED
    BY <2>1
<1>2. PassedTo(m)' = Occurrences(b, {<<>>}, m) /\ PassedTo(m) = Occurrences(a, {<<>>}, m)
  BY DEF PassedTo
<1> HIDE DEF a, b
<1> QED
  BY <1>1, <1>2, OccurrencesSame

\* Every call keeps both,
LEMMA RunKept ==
  ASSUME CallsInv, CallsInv', OrderInv, RunInv, CallsRecorded
  PROVE  OrderInv' /\ RunInv'
<1> RecordInv /\ RecordInv'
  BY DEF CallsInv
<1>c. /\ cases \in Seq(Case) /\ cases' \in Seq(Case) /\ Len(cases) \in Nat /\ Len(cases') \in Nat
      /\ in_test \in BOOLEAN /\ in_test' \in BOOLEAN
  BY DEF CallsInv, AccountInv, LoopsInv, LoopTypes
<1>r. /\ tests_run \in Nat /\ tests_passed \in Nat /\ current_failed \in BOOLEAN
      /\ tests_run = TestsTo(Len(actions)) /\ PassedTo(tests_run) = tests_passed
      /\ tests_run - tests_passed + Pending = FailuresTo(Len(actions))
      /\ Len(cases) = IF in_test THEN tests_run + 1 ELSE tests_run
      /\ in_test => (current_failed <=> cases[Len(cases)].reasons # <<>>)
  BY DEF RunInv
<1>0. PICK n \in Nat : n = tests_run
  BY <1>r
<1>1. CASE UNCHANGED <<actions, strs, str_starts, cases, groups, tests_run, tests_passed, in_test,
                       current_failed>>
  BY <1>1, OrderStutter
<1>2. ASSUME NEW kind \in {"GROUP_ENTER", "GROUP_LEAVE"}, CallRecorded(kind)
      PROVE  OrderInv' /\ RunInv'
  <2>1. kind \in Kinds /\ kind \notin {"TEST_ENTER", "TEST_LEAVE", "TEST_FAIL"}
    BY DEF Kinds
  <2>2. /\ UNCHANGED <<tests_run, tests_passed, cases, current_failed>> /\ ~in_test /\ ~in_test'
    BY <1>2, <2>1 DEF CallRecorded
  <2>3. /\ TestsTo(Len(actions))' = TestsTo(Len(actions))
        /\ FailuresTo(Len(actions))' = FailuresTo(Len(actions))
    BY <1>2, <2>1, CountsGrow DEF CallRecorded
  <2>4. Pending' = 0 /\ Pending = 0 /\ PassedTo(tests_run)' = PassedTo(tests_run)
    BY <2>2 DEF Pending, PassedTo
  <2>5. RunInv'
    BY <1>r, <2>2, <2>3, <2>4 DEF RunInv
  <2> QED
    BY <1>2, <2>1, <2>5, OrderKept
<1>3. CASE /\ CallRecorded("TEST_ENTER") /\ current_failed' = FALSE
           /\ \E test \in Case : cases' = Append(cases, test) /\ test.reasons = <<>>
  <2>1. /\ "TEST_ENTER" \in Kinds /\ UNCHANGED <<tests_run, tests_passed>> /\ ~in_test /\ in_test'
    BY <1>3 DEF CallRecorded, Kinds
  <2>2. /\ TestsTo(Len(actions))' = TestsTo(Len(actions))
        /\ FailuresTo(Len(actions))' = FailuresTo(Len(actions))
    BY <1>3, <2>1, CountsGrow DEF CallRecorded
  <2>3. Pending' = 0 /\ Pending = 0
    BY <1>3, <2>1 DEF Pending
  <2>4. PICK test \in Case : cases' = Append(cases, test) /\ test.reasons = <<>>
    BY <1>3
  <2>5. /\ Len(cases) = n /\ Len(cases') = n + 1 /\ cases'[n+1].reasons = <<>>
        /\ \A k \in 1..n : cases'[k] = cases[k]
    BY <1>0, <1>c, <1>r, <2>1, <2>4
  <2>6. PassedTo(tests_run)' = PassedTo(tests_run)
    <3>1. PassedTo(n)' = PassedTo(n)
      BY <1>c, <2>5, PassedSame
    <3>2. PassedTo(tests_run)' = PassedTo(n)'
      BY <1>0, <2>1 DEF PassedTo
    <3> QED
      BY <1>0, <3>1, <3>2
  <2>7. RunInv'
    BY <1>0, <1>3, <1>r, <2>1, <2>2, <2>3, <2>5, <2>6 DEF RunInv
  <2> QED
    BY <1>3, <2>1, <2>7, OrderKept
<1>4. CASE /\ CallRecorded("TEST_FAIL") /\ current_failed' = TRUE
           /\ \E reason \in Reasons :
                cases' = [cases EXCEPT ![Len(cases)].reasons = Append(@, reason)]
  <2>1. /\ "TEST_FAIL" \in Kinds /\ UNCHANGED <<tests_run, tests_passed>> /\ in_test /\ in_test'
    BY <1>4 DEF CallRecorded, Kinds
  <2>2. /\ TestsTo(Len(actions))' = TestsTo(Len(actions))
        /\ FailuresTo(Len(actions))' =
             IF actions # <<>> /\ actions[Len(actions)] = "TEST_ENTER"
             THEN FailuresTo(Len(actions)) + 1 ELSE FailuresTo(Len(actions))
    BY <1>4, <2>1, CountsGrow DEF CallRecorded
  <2>3. /\ current_failed => FailuresTo(Len(actions))' = FailuresTo(Len(actions))
        /\ ~current_failed => FailuresTo(Len(actions))' = FailuresTo(Len(actions)) + 1
    BY <2>1, <2>2 DEF OrderInv
  <2>4. Pending' = 1 /\ Pending = IF current_failed THEN 1 ELSE 0
    BY <1>4, <2>1 DEF Pending
  <2>5. tests_run' - tests_passed' + Pending' = FailuresTo(Len(actions))'
    BY <1>r, <2>1, <2>3, <2>4
  <2>6. PICK reason \in Reasons : cases' = [cases EXCEPT ![Len(cases)].reasons = Append(@, reason)]
    BY <1>4
  <2>7. Len(cases) = n + 1
    BY <1>0, <1>r, <2>1
  <2> DEFINE last == [cases[n+1] EXCEPT !.reasons = Append(@, reason)]
  <2>8. last.reasons # <<>>
    <3>1. cases[n+1] \in Case
      BY <1>c, <2>7
    <3>2. cases[n+1].reasons \in Seq(Reasons)
      BY <3>1 DEF Case
    <3>3. last.reasons = Append(cases[n+1].reasons, reason)
      BY <3>1 DEF Case
    <3> HIDE DEF last
    <3> QED
      BY <3>2, <3>3
  <2>9. cases' = [cases EXCEPT ![n+1] = last]
    BY <2>6, <2>7
  <2> HIDE DEF last
  <2>10. /\ Len(cases') = n + 1 /\ cases'[n+1] = last
         /\ \A k \in 1..n : cases'[k] = cases[k]
    BY <1>c, <2>7, <2>9
  <2>11. PassedTo(tests_run)' = PassedTo(tests_run)
    <3>1. PassedTo(n)' = PassedTo(n)
      BY <1>c, <2>7, <2>10, PassedSame
    <3>2. PassedTo(tests_run)' = PassedTo(n)'
      BY <1>0, <2>1 DEF PassedTo
    <3> QED
      BY <1>0, <3>1, <3>2
  <2>12. RunInv'
    BY <1>0, <1>4, <1>r, <2>1, <2>2, <2>5, <2>8, <2>10, <2>11 DEF RunInv
  <2> QED
    BY <1>4, <2>1, <2>12, OrderKept
<1>5. CASE /\ CallRecorded("TEST_LEAVE")
           /\ tests_run' = tests_run + 1
           /\ tests_passed' = IF current_failed THEN tests_passed ELSE tests_passed + 1
  <2>1. /\ "TEST_LEAVE" \in Kinds /\ UNCHANGED <<cases, current_failed>> /\ in_test /\ ~in_test'
    BY <1>5 DEF CallRecorded, Kinds
  <2>2. /\ TestsTo(Len(actions))' = TestsTo(Len(actions)) + 1
        /\ FailuresTo(Len(actions))' = FailuresTo(Len(actions))
    BY <1>5, <2>1, CountsGrow DEF CallRecorded
  <2>3. Pending' = 0 /\ Pending = IF current_failed THEN 1 ELSE 0
    BY <2>1 DEF Pending
  <2>4. tests_run' - tests_passed' + Pending' = FailuresTo(Len(actions))'
    BY <1>5, <1>r, <2>2, <2>3
  <2>5. Len(cases) = n + 1
    BY <1>0, <1>r, <2>1
  <2>6. PassedTo(n + 1) = IF cases[n+1].reasons = <<>> THEN PassedTo(n) + 1 ELSE PassedTo(n)
    BY <2>5, PassedIs DEF PassedTo
  <2>7. PassedTo(tests_run)' = PassedTo(n + 1)
    BY <1>0, <1>5, <2>1 DEF PassedTo
  <2>8. PassedTo(tests_run)' = tests_passed'
    BY <1>0, <1>5, <1>r, <2>1, <2>5, <2>6, <2>7
  <2>9. RunInv'
    BY <1>5, <1>r, <2>1, <2>2, <2>4, <2>5, <2>8, <1>0 DEF RunInv
  <2> QED
    BY <1>5, <2>1, <2>9, OrderKept
<1> QED
  BY <1>1, <1>2, <1>3, <1>4, <1>5 DEF CallsRecorded

\* and every step;
LEMMA RunStep ==
  ASSUME CallsInv, OrderInv, RunInv, [Next]_vars
  PROVE  OrderInv' /\ RunInv'
<1>1. ASSUME UNCHANGED callerVars PROVE OrderInv' /\ RunInv'
  <2>1. UNCHANGED <<actions, cases, tests_run, tests_passed, in_test, current_failed>>
    BY <1>1 DEF callerVars, recordVars, trueVars, counterVars, flagVars
  <2> QED
    BY <2>1, OrderStutter
<1>2. ASSUME UNCHANGED vars PROVE UNCHANGED callerVars
  BY <1>2 DEF vars, callVars, harnessVars, callerVars
<1>3. ASSUME Calls PROVE OrderInv' /\ RunInv'
  BY <1>3, CallsAreRecorded, CallsKeepInv, RunKept
<1> QED
  BY <1>1, <1>2, <1>3, StepsOfNext, FinishingReads

\* they hold at the start.
LEMMA InitRun ==
  ASSUME ReportInit
  PROVE  OrderInv /\ RunInv
<1>1. /\ actions = <<>> /\ cases = <<>> /\ in_test = FALSE /\ current_failed = FALSE
      /\ tests_run = 0 /\ tests_passed = 0
  BY DEF ReportInit, Init
<1>2. OrderInv
  BY <1>1 DEF OrderInv
<1>3. TestsTo(0) = 0 /\ FailuresTo(0) = 0 /\ PassedTo(0) = 0
  BY OccurrencesStep DEF TestsTo, FailuresTo, PassedTo
<1>4. Len(actions) = 0 /\ Len(cases) = 0 /\ Pending = 0
  BY <1>1 DEF Pending
<1>5. RunInv
  <2>1. current_failed \in BOOLEAN
    BY <1>1
  <2>2. /\ TestsTo(Len(actions)) = 0 /\ FailuresTo(Len(actions)) = 0 /\ PassedTo(tests_run) = 0
    BY <1>1, <1>3, <1>4
  <2> QED
    BY <1>1, <1>4, <2>1, <2>2 DEF RunInv
<1> QED
  BY <1>2, <1>5

-----------------------------------------------------------------------------
(* The counts of the groups: those of the record between their ends.       *)

\* where groups start; those no end is on record for; the end of a group
GroupStarts == {e \in 1..Len(actions) : actions[e] = "GROUP_ENTER"}
IsOpen(e) == \A p \in e..Len(actions) : Deep(p) >= Deep(e)
EndsAt(e, q) == Deep(q) < Deep(e) /\ \A p \in e..q - 1 : Deep(p) >= Deep(e)

\* The numbers that the caller's loops carry are those of the open groups.
NumbersInv ==
  ~broke =>
    /\ in_test => Innermost.number = Len(cases)
    /\ Len(groups) = Entered(Len(actions))
    /\ \A e \in GroupStarts : IsOpen(e) => bodies[Deep(e)].number = Entered(e)
    /\ \A k \in 1..Deep(Len(actions)) :
         \E e \in GroupStarts : Deep(e) = k /\ IsOpen(e) /\ bodies[k].number = Entered(e)

\* the group that starts at e has the tests that ended since, and those that failed
CountedNow(e) ==
  /\ groups[Entered(e)].tests = tests_run - TestsTo(e)
  /\ groups[Entered(e)].failures = tests_run - tests_passed - FailuresTo(e)

\* it has those on record between its start and its end, at q
Counted(e, q) ==
  /\ groups[Entered(e)].tests = TestsTo(q) - TestsTo(e)
  /\ groups[Entered(e)].failures = FailuresTo(q) - FailuresTo(e)

GroupsInv ==
  ~broke =>
    \A e \in GroupStarts :
      /\ groups[Entered(e)].name = Text(e)
      /\ IsOpen(e) => CountedNow(e)
      /\ \A q \in e..Len(actions) : EndsAt(e, q) => Counted(e, q)

\* DeepMoves, for the next state too.
LEMMA DeepMovesNext ==
  RecordInv /\ LeftInv =>
    /\ \A k \in 0..Len(actions) : Deep(k) \in Nat
    /\ \A k \in 1..Len(actions) :
         /\ actions[k] = "GROUP_ENTER" => Deep(k) = Deep(k-1) + 1
         /\ actions[k] = "GROUP_LEAVE" => Deep(k) = Deep(k-1) - 1 /\ Deep(k-1) >= 1
         /\ actions[k] \notin {"GROUP_ENTER", "GROUP_LEAVE"} => Deep(k) = Deep(k-1)
  BY DeepMoves

\* how deep groups are nested when an action is recorded
LEMMA DeepGrows ==
  ASSUME RecordInv, LeftInv, RecordInv', LeftInv', NEW kind \in Kinds, Logged(kind)
  PROVE  /\ \A k \in 0..Len(actions) : Deep(k)' = Deep(k) /\ Deep(k) \in Nat
         /\ Deep(Len(actions)) \in Nat /\ Deep(Len(actions))' \in Nat
         /\ kind = "GROUP_ENTER" => Deep(Len(actions))' = Deep(Len(actions)) + 1
         /\ kind = "GROUP_LEAVE" => Deep(Len(actions))' = Deep(Len(actions)) - 1
         /\ kind \notin {"GROUP_ENTER", "GROUP_LEAVE"} =>
              Deep(Len(actions))' = Deep(Len(actions))
<1>0. PICK n \in Nat : n = Len(actions)
  BY DEF RecordInv
<1>1. Len(actions') = n + 1 /\ actions'[n + 1] = kind
  BY <1>0, CountsGrow
<1>2. \A k \in 0..n : GroupsAround'[k] = GroupsAround[k]
  BY <1>0, AroundGrows DEF Grows
<1>3. \A k \in 0..n : Deep(k)' = Deep(k)
  BY <1>2 DEF Deep
<1>4. \A k \in 0..n : Deep(k) \in Nat
  BY <1>0, DeepMovesNext
<1>5. (/\ \A k \in 0..Len(actions) : Deep(k) \in Nat
       /\ \A k \in 1..Len(actions) :
            /\ actions[k] = "GROUP_ENTER" => Deep(k) = Deep(k-1) + 1
            /\ actions[k] = "GROUP_LEAVE" => Deep(k) = Deep(k-1) - 1 /\ Deep(k-1) >= 1
            /\ actions[k] \notin {"GROUP_ENTER", "GROUP_LEAVE"} => Deep(k) = Deep(k-1))'
  BY DeepMovesNext, PTL
<1>6. PICK m \in Nat : m = n + 1
  OBVIOUS
<1>7. m \in 1..Len(actions') /\ m \in 0..Len(actions') /\ m - 1 = n /\ actions'[m] = kind /\ n \in 0..n
  BY <1>1, <1>6
<1>8. /\ Deep(m)' \in Nat
      /\ kind = "GROUP_ENTER" => Deep(m)' = Deep(m-1)' + 1
      /\ kind = "GROUP_LEAVE" => Deep(m)' = Deep(m-1)' - 1
      /\ kind \notin {"GROUP_ENTER", "GROUP_LEAVE"} => Deep(m)' = Deep(m-1)'
  BY <1>5, <1>7
<1>9. Deep(m-1)' = Deep(n)' /\ Deep(Len(actions)) = Deep(n) /\ Deep(Len(actions))' = Deep(m)'
  BY <1>0, <1>1, <1>6, <1>7 DEF Deep
<1>10. Deep(n)' = Deep(n) /\ Deep(n) \in Nat
  BY <1>3, <1>4, <1>7
<1> QED
  BY <1>0, <1>3, <1>4, <1>8, <1>9, <1>10

\* what is open, and what has ended, when an action is recorded
LEMMA OpenGrows ==
  ASSUME RecordInv, LeftInv, RecordInv', LeftInv', NEW kind \in Kinds, Logged(kind),
         NEW e \in 1..Len(actions)
  PROVE  /\ IsOpen(e)' <=> IsOpen(e) /\ Deep(Len(actions))' >= Deep(e)
         /\ \A q \in e..Len(actions) : EndsAt(e, q)' <=> EndsAt(e, q)
         /\ \A q \in {Len(actions) + 1} :
              EndsAt(e, q)' <=> IsOpen(e) /\ Deep(Len(actions))' < Deep(e)
<1>0. PICK n \in Nat : n = Len(actions)
  BY DEF RecordInv
<1>1. Len(actions') = n + 1
  BY <1>0, CountsGrow
<1>2. \A k \in 0..n : Deep(k)' = Deep(k) /\ Deep(k) \in Nat
  BY <1>0, DeepGrows
<1>3. PICK m \in Nat : m = n + 1
  OBVIOUS
<1>4. Deep(Len(actions))' = Deep(m)'
  BY <1>1, <1>3 DEF Deep
<1>5. e \in 1..n /\ e \in 0..n /\ Deep(e)' = Deep(e) /\ \A p \in e..n : Deep(p)' = Deep(p)
  BY <1>0, <1>2
<1>6. IsOpen(e) <=> \A p \in e..n : Deep(p) >= Deep(e)
  BY <1>0 DEF IsOpen
<1>7. IsOpen(e)' <=> \A p \in e..m : Deep(p)' >= Deep(e)'
  BY <1>1, <1>3 DEF IsOpen
<1>8. IsOpen(e)' <=> IsOpen(e) /\ Deep(m)' >= Deep(e)
  <2>1. \A p \in e..m : p = m \/ p \in e..n
    BY <1>3, <1>5
  <2>2. m \in e..m /\ \A p \in e..n : p \in e..m
    BY <1>3, <1>5
  <2> QED
    BY <1>5, <1>6, <1>7, <2>1, <2>2
<1>9. ASSUME NEW q \in e..n PROVE EndsAt(e, q)' <=> EndsAt(e, q)
  <2>1. q \in e..n /\ \A p \in e..q - 1 : p \in e..n
    BY <1>5
  <2> QED
    BY <1>5, <2>1 DEF EndsAt
<1>10. EndsAt(e, m)' <=> IsOpen(e) /\ Deep(m)' < Deep(e)
  <2>1. m - 1 = n
    BY <1>3
  <2>2. EndsAt(e, m)' <=> Deep(m)' < Deep(e)' /\ \A p \in e..n : Deep(p)' >= Deep(e)'
    BY <2>1 DEF EndsAt
  <2> QED
    BY <1>5, <1>6, <2>2
<1> QED
  BY <1>0, <1>3, <1>4, <1>8, <1>9, <1>10

\* No two groups have the same number.
LEMMA EnteredOnce ==
  ASSUME RecordInv
  PROVE  /\ \A e \in GroupStarts : Entered(e) \in 1..Entered(Len(actions))
         /\ \A e, f \in GroupStarts : Entered(e) = Entered(f) => e = f
<1>1. Len(actions) \in Nat
  BY DEF RecordInv
<1>2. \A e \in GroupStarts : Entered(e) \in 1..Entered(Len(actions))
  <2> TAKE e \in GroupStarts
  <2>1. e \in 0..Len(actions) /\ e # 0 /\ actions[e] \in {"GROUP_ENTER"}
    BY <1>1 DEF GroupStarts
  <2> QED
    BY <1>1, <2>1, OccurrencesGrow DEF Entered
<1>3. ASSUME NEW e \in GroupStarts, NEW f \in GroupStarts, e < f
      PROVE  Entered(e) < Entered(f)
  <2>1. PICK m \in Nat : f = m + 1
    <3>1. f \in 1..Len(actions)
      BY DEF GroupStarts
    <3>2. f - 1 \in Nat /\ f = f - 1 + 1
      BY <3>1, <1>1
    <3> QED
      BY <3>2
  <2>2. e \in 0..m
    BY <1>1, <1>3, <2>1 DEF GroupStarts
  <2>3. Entered(e) <= Entered(m)
    BY <2>2, OccurrencesGrow DEF Entered
  <2>4. Entered(m + 1) = Entered(m) + 1 /\ Entered(m) \in Nat
    <3>1. actions[m+1] \in {"GROUP_ENTER"}
      BY <2>1 DEF GroupStarts
    <3> QED
      BY <3>1, OccurrencesStep DEF Entered
  <2>5. Entered(e) \in Nat
    BY <2>2, OccurrencesStep DEF Entered
  <2> QED
    BY <2>1, <2>3, <2>4, <2>5
<1>4. ASSUME NEW e \in GroupStarts, NEW f \in GroupStarts, Entered(e) = Entered(f)
      PROVE  e = f
  <2>1. e \in Nat /\ f \in Nat /\ Entered(e) \in Nat /\ Entered(f) \in Nat
    <3>1. Entered(Len(actions)) \in Nat
      BY <1>1, OccurrencesStep DEF Entered
    <3> QED
      BY <1>1, <1>2, <3>1 DEF GroupStarts
  <2>2. ~ (e < f) /\ ~ (f < e)
    BY <1>3, <1>4, <2>1
  <2> QED
    BY <2>1, <2>2
<1> QED
  BY <1>2, <1>4

\* The groups that are open on record are the caller's.
LEMMA DeepIsOpen ==
  ASSUME CallsInv, HistoryInv, ~broke
  PROVE  /\ Deep(Len(actions)) = NumberOpen /\ NumberOpen \in 0..Len(bodies)
         /\ Len(bodies) \in Nat
<1>1. Len(bodies) \in Nat
  BY DEF CallsInv, LoopsInv, LoopTypes
<1>2. NumberOpen \in 0..Len(bodies)
  <2>1. CASE bodies = <<>>
    BY <2>1 DEF NumberOpen
  <2>2. CASE bodies # <<>>
    <3>1. Len(bodies) # 0
      BY <2>2 DEF CallsInv, LoopsInv, LoopTypes
    <3> QED
      BY <1>1, <3>1 DEF NumberOpen
  <2> QED
    BY <2>1, <2>2
<1>3. depth = NumberOpen
  BY DEF CallsInv, LoopsInv
<1>4. Deep(Len(actions)) = depth
  BY DEF HistoryInv, NowInv, Deep, TopGroups
<1> QED
  BY <1>1, <1>2, <1>3, <1>4

\* what is at the bottom of the bodies stays there
LEMMA NumbersKept ==
  ASSUME LoopsInv, Calls, ~broke, ~broke'
  PROVE  \A k \in 1..NumberOpen : bodies'[k].number = bodies[k].number
<1>1. bodies \in Seq(Loop) /\ Len(bodies) \in Nat
  BY DEF LoopsInv, LoopTypes
<1>2. bodies # <<>> => Len(bodies) # 0
  BY <1>1
<1>3. \A k \in 1..NumberOpen : k \in 1..Len(bodies)
  BY <1>1, <1>2 DEF NumberOpen
<1>4. ASSUME NEW kind, NEW name, NEW number, Enter(kind, name, number)
      PROVE  \A k \in 1..NumberOpen : bodies'[k].number = bodies[k].number
  <2> DEFINE new == [kind |-> kind, name |-> name, at |-> "condition", runs |-> 0, number |-> number]
  <2>1. bodies' = Append(bodies, new)
    BY <1>4 DEF Enter
  <2> HIDE DEF new
  <2>2. \A k \in 1..Len(bodies) : bodies'[k] = bodies[k]
    BY <1>1, <2>1
  <2> QED
    BY <1>3, <2>2
<1>5. ASSUME NEW loop \in Loop, bodies' = [bodies EXCEPT ![Len(bodies)] = loop], bodies # <<>>,
             loop.number = Innermost.number
      PROVE  \A k \in 1..NumberOpen : bodies'[k].number = bodies[k].number
  <2>1. \A k \in 1..Len(bodies) : bodies'[k] = IF k = Len(bodies) THEN loop ELSE bodies[k]
    BY <1>1, <1>5
  <2> QED
    BY <1>3, <1>5, <2>1 DEF Innermost
<1>6. ASSUME bodies' = Outer, bodies # <<>>, NumberOpen = Len(bodies) - 1
      PROVE  \A k \in 1..NumberOpen : bodies'[k].number = bodies[k].number
  <2>1. \A k \in 1..Len(bodies) - 1 : bodies'[k] = bodies[k]
    BY <1>1, <1>6, WithoutLast DEF Outer
  <2> QED
    BY <1>6, <2>1
<1>7. ASSUME bodies' = bodies
      PROVE  \A k \in 1..NumberOpen : bodies'[k].number = bodies[k].number
  BY <1>7
<1>8. ASSUME NEW name \in Names, sentest_group_start(name) \/ TestSkipped(name) \/ TestStart(name)
      PROVE  \A k \in 1..NumberOpen : bodies'[k].number = bodies[k].number
  BY <1>4, <1>8 DEF sentest_group_start, TestSkipped, TestStart
<1>9. CASE sentest_group_end \/ sentest_end_internal
  <2>1. bodies # <<>> /\ bodies' = At("condition")
    BY <1>9 DEF sentest_group_end, sentest_end_internal, InBodyOf
  <2> QED
    BY <1>5, <2>1, Moves
<1>10. CASE sentest_group_should_continue
  <2>1. bodies # <<>>
    BY <1>10 DEF sentest_group_should_continue, AtCondition
  <2>2. CASE should_exit_group
    <3>1. bodies' = Outer /\ NumberOpen = Len(bodies) - 1
      BY <1>10, <2>1, <2>2 DEF sentest_group_should_continue, NumberOpen
    <3> QED
      BY <1>6, <2>1, <3>1
  <2>3. CASE ~should_exit_group
    <3>1. bodies' = [At("body") EXCEPT ![Len(bodies)].runs = @ + 1]
      BY <1>10, <2>3 DEF sentest_group_should_continue
    <3> QED
      BY <1>5, <2>1, <3>1, RunsOn
  <2> QED
    BY <2>2, <2>3
<1>11. CASE sentest_test_should_continue
  <2>1. bodies # <<>> /\ Innermost.kind = "test"
    BY <1>11 DEF sentest_test_should_continue, AtCondition
  <2>2. CASE ~in_test
    <3>1. bodies' = Outer /\ NumberOpen = Len(bodies) - 1
      BY <1>11, <2>1, <2>2 DEF sentest_test_should_continue, NumberOpen
    <3> QED
      BY <1>6, <2>1, <3>1
  <2>3. CASE in_test
    <3>1. bodies' = [At("body") EXCEPT ![Len(bodies)].runs = @ + 1]
      BY <1>11, <2>3 DEF sentest_test_should_continue
    <3> QED
      BY <1>5, <2>1, <3>1, RunsOn
  <2> QED
    BY <2>2, <2>3
<1>12. CASE AssertStops
  BY <1>7, <1>12 DEF AssertStops, callVars
<1>13. ASSUME NEW assertion \in Assertions, NEW condition \in BOOLEAN, NEW reason \in Reasons,
             MakeAssertion(assertion, condition, reason)
      PROVE  \A k \in 1..NumberOpen : bodies'[k].number = bodies[k].number
  BY <1>7, <1>13 DEF MakeAssertion
<1>14. ~Break
  BY DEF Break
<1> QED
  BY <1>8, <1>9, <1>10, <1>11, <1>12, <1>13, <1>14 DEF Calls

\* A test that runs knows its number.
LEMMA TestNumbered ==
  ASSUME CallsInv, CallsInv', Calls, ~broke, ~broke', in_test => Innermost.number = Len(cases), in_test'
  PROVE  bodies'[Len(bodies')].number = Len(cases')
<1>1. bodies \in Seq(Loop) /\ Len(bodies) \in Nat /\ cases \in Seq(Case) /\ LoopsInv
  BY DEF CallsInv, LoopsInv, LoopTypes, AccountInv
<1>2. ASSUME NEW loop \in Loop, bodies' = [bodies EXCEPT ![Len(bodies)] = loop], bodies # <<>>,
             loop.number = Innermost.number, in_test, Len(cases') = Len(cases)
      PROVE  bodies'[Len(bodies')].number = Len(cases')
  <2>1. Len(bodies) \in 1..Len(bodies)
    BY <1>1, <1>2
  <2>2. Len(bodies') = Len(bodies) /\ bodies'[Len(bodies)] = loop
    BY <1>1, <1>2, <2>1
  <2> QED
    BY <1>2, <2>2
<1>3. ASSUME NEW name \in Names, TestStart(name)
      PROVE  bodies'[Len(bodies')].number = Len(cases')
  <2> DEFINE new == [kind |-> "test", name |-> name, at |-> "condition", runs |-> 0,
                     number |-> Len(cases) + 1]
             test == [groups |-> OpenNames, name |-> name, reasons |-> <<>>]
  <2>1. bodies' = Append(bodies, new) /\ cases' = Append(cases, test)
    BY <1>3 DEF TestStart, Enter
  <2>2. new.number = Len(cases) + 1
    OBVIOUS
  <2> HIDE DEF new, test
  <2>3. Len(cases') = Len(cases) + 1 /\ Len(bodies') = Len(bodies) + 1
        /\ bodies'[Len(bodies) + 1] = new
    BY <1>1, <2>1
  <2> QED
    BY <2>2, <2>3
<1>4. ASSUME NEW assertion \in Assertions, NEW condition \in BOOLEAN, NEW reason \in Reasons,
             MakeAssertion(assertion, condition, reason)
      PROVE  bodies'[Len(bodies')].number = Len(cases')
  <2>1. in_test /\ bodies' = bodies /\ Len(cases') = Len(cases)
    BY <1>1, <1>4 DEF MakeAssertion
  <2> QED
    BY <2>1 DEF Innermost
<1>5. CASE sentest_test_should_continue
  <2>1. in_test /\ bodies # <<>> /\ Len(cases') = Len(cases)
        /\ bodies' = [At("body") EXCEPT ![Len(bodies)].runs = @ + 1]
    BY <1>5 DEF sentest_test_should_continue, AtCondition, harnessVars, flagVars, trueVars
  <2> QED
    BY <1>1, <1>2, <2>1, RunsOn
<1>6. CASE AssertStops
  <2>1. in_test /\ bodies' = bodies /\ Len(cases') = Len(cases)
    BY <1>6 DEF AssertStops, callVars, harnessVars, flagVars, trueVars
  <2> QED
    BY <2>1 DEF Innermost
<1>7. ASSUME sentest_group_should_continue PROVE FALSE
  <2>1. in_test' = in_test /\ bodies # <<>> /\ Innermost.kind = "group" /\ Innermost.at = "condition"
    BY <1>7 DEF sentest_group_should_continue, AtCondition
  <2> QED
    BY <1>1, <2>1 DEF LoopsInv, InnermostInv
<1>8. /\ ~sentest_group_end /\ ~sentest_end_internal /\ ~Break
      /\ \A name \in Names : ~sentest_group_start(name) /\ ~TestSkipped(name)
  BY DEF sentest_group_end, sentest_end_internal, Break, sentest_group_start, TestSkipped, flagVars
<1> QED
  BY <1>3, <1>4, <1>5, <1>6, <1>7, <1>8 DEF Calls

\* A call keeps the record or adds one action.
LEMMA CallKinds ==
  ASSUME CallsRecorded
  PROVE  \/ UNCHANGED <<actions, strs, str_starts, cases, groups, tests_run, tests_passed, in_test,
                        current_failed>>
         \/ \E kind \in Kinds : CallRecorded(kind)
  BY DEF CallsRecorded, Kinds

\* the number of groups is that on record
LEMMA GroupsEntered ==
  ASSUME CallsInv, CallsRecorded, Len(groups) = Entered(Len(actions))
  PROVE  Len(groups') = Entered(Len(actions))'
<1>1. RecordInv /\ groups \in Seq(Total)
  BY DEF CallsInv, AccountInv
<1>2. CASE UNCHANGED <<actions, strs, str_starts, cases, groups, tests_run, tests_passed, in_test,
                       current_failed>>
  BY <1>2 DEF Entered
<1>3. ASSUME NEW kind \in Kinds, CallRecorded(kind), kind \notin {"GROUP_ENTER", "TEST_LEAVE"}
      PROVE  Len(groups') = Entered(Len(actions))'
  <2>1. groups' = groups /\ Logged(kind) /\ kind # "GROUP_ENTER"
    BY <1>3 DEF CallRecorded
  <2>2. Entered(Len(actions))' = Entered(Len(actions))
    BY <1>1, <2>1, CountsGrow
  <2> QED
    BY <2>1, <2>2
<1>4. ASSUME CallRecorded("GROUP_ENTER"), NEW name \in Names, sentest_group_start(name)
      PROVE  Len(groups') = Entered(Len(actions))'
  <2>1. Logged("GROUP_ENTER") /\ "GROUP_ENTER" \in Kinds
    BY <1>4 DEF CallRecorded, Kinds
  <2>2. Entered(Len(actions))' = Entered(Len(actions)) + 1
    BY <1>1, <2>1, CountsGrow
  <2> DEFINE new == [name |-> name, tests |-> 0, failures |-> 0]
  <2>3. groups' = Append(groups, new)
    BY <1>4 DEF sentest_group_start
  <2> HIDE DEF new
  <2> QED
    BY <1>1, <2>2, <2>3
<1>5. ASSUME CallRecorded("TEST_LEAVE"), sentest_end_internal
      PROVE  Len(groups') = Entered(Len(actions))'
  <2>1. Logged("TEST_LEAVE") /\ "TEST_LEAVE" \in Kinds
    BY <1>5 DEF CallRecorded, Kinds
  <2>2. Entered(Len(actions))' = Entered(Len(actions))
    BY <1>1, <2>1, CountsGrow
  <2>3. Len(groups') = Len(groups)
    <3>1. PICK failures : groups' = Totals(failures)
      BY <1>5 DEF sentest_end_internal
    <3> DEFINE after(g) == IF g \in {bodies[k].number : k \in 1..Len(bodies) - 1}
                           THEN [groups[g] EXCEPT !.tests = @ + 1, !.failures = @ + failures]
                           ELSE groups[g]
    <3>2. groups' = [g \in 1..Len(groups) |-> after(g)]
      BY <3>1 DEF Totals
    <3> HIDE DEF after
    <3> QED
      BY <1>1, <3>2
  <2> QED
    BY <2>2, <2>3
<1>6. {"TEST_ENTER", "TEST_FAIL", "GROUP_LEAVE"} \subseteq Kinds
  BY DEF Kinds
<1> QED
  BY <1>2, <1>3, <1>4, <1>5, <1>6 DEF CallsRecorded

\* Every call keeps the numbers of the groups,
LEMMA NumbersCalls ==
  ASSUME CallsInv, CallsInv', HistoryInv, HistoryInv', NumbersInv, Calls
  PROVE  NumbersInv'
<1> SUFFICES ASSUME ~broke' PROVE NumbersInv'
  BY DEF NumbersInv
<1>1. /\ ~broke /\ RecordInv /\ RecordInv' /\ LeftInv /\ LeftInv' /\ CallsRecorded /\ LoopsInv
      /\ bodies \in Seq(Loop) /\ groups \in Seq(Total)
  <2>1. ~broke
    BY CallsMove
  <2>2. RecordInv /\ RecordInv' /\ LeftInv /\ LeftInv' /\ LoopsInv
    BY DEF CallsInv, HistoryInv
  <2>3. bodies \in Seq(Loop) /\ groups \in Seq(Total)
    BY DEF CallsInv, LoopsInv, LoopTypes, AccountInv
  <2> QED
    BY <2>1, <2>2, <2>3, CallsAreRecorded
<1>2. /\ in_test => Innermost.number = Len(cases)
      /\ Len(groups) = Entered(Len(actions))
      /\ \A e \in GroupStarts : IsOpen(e) => bodies[Deep(e)].number = Entered(e)
      /\ \A k \in 1..Deep(Len(actions)) :
           \E e \in GroupStarts : Deep(e) = k /\ IsOpen(e) /\ bodies[k].number = Entered(e)
  BY <1>1 DEF NumbersInv
<1>3. in_test' => Innermost'.number = Len(cases')
  BY <1>1, <1>2, TestNumbered DEF Innermost
<1>4. Len(groups') = Entered(Len(actions))'
  BY <1>1, <1>2, GroupsEntered
<1>5. /\ Deep(Len(actions)) = NumberOpen /\ NumberOpen \in 0..Len(bodies)
      /\ \A k \in 1..Deep(Len(actions)) : bodies'[k].number = bodies[k].number
      /\ Len(bodies) \in Nat
  BY <1>1, DeepIsOpen, NumbersKept
<1>0. PICK n \in Nat : n = Len(actions)
  BY <1>1 DEF RecordInv
<1>d. PICK d \in Nat : d = Deep(Len(actions))
  BY <1>5
<1>6. \A e \in GroupStarts : /\ e \in 1..n /\ e \in 1..Len(actions) /\ actions[e] = "GROUP_ENTER"
                             /\ Deep(e) \in Nat /\ Deep(e) >= 1
                             /\ IsOpen(e) => Deep(e) \in 1..d
  <2> TAKE e \in GroupStarts
  <2>1. e \in 1..n /\ e \in 1..Len(actions) /\ actions[e] = "GROUP_ENTER"
    BY <1>0 DEF GroupStarts
  <2>2. e - 1 \in 0..Len(actions) /\ e \in 0..Len(actions) /\ n \in e..Len(actions)
    BY <1>0, <2>1
  <2>3. Deep(e) \in Nat /\ Deep(e - 1) \in Nat /\ Deep(e) = Deep(e - 1) + 1
    BY <1>1, <2>1, <2>2, DeepMoves
  <2>4. Deep(n) = d
    BY <1>0, <1>d
  <2>5. IsOpen(e) => Deep(n) >= Deep(e)
    BY <2>2 DEF IsOpen
  <2> QED
    BY <2>1, <2>3, <2>4, <2>5
<1>7. CASE UNCHANGED <<actions, strs, str_starts, cases, groups, tests_run, tests_passed, in_test,
                       current_failed>>
  <2>1. GroupsAround' = GroupsAround
    BY <1>1, <1>7, AroundStutter DEF recordVars
  <2>2. /\ \A k : Deep(k)' = Deep(k) /\ Entered(k)' = Entered(k) /\ (IsOpen(k)' <=> IsOpen(k))
        /\ GroupStarts' = GroupStarts /\ Deep(Len(actions))' = d
    BY <1>7, <1>d, <2>1 DEF Deep, Entered, IsOpen, GroupStarts
  <2>3. \A e \in GroupStarts : IsOpen(e) => bodies'[Deep(e)].number = Entered(e)
    BY <1>2, <1>5, <1>6, <1>d
  <2>4. \A k \in 1..d : \E e \in GroupStarts : Deep(e) = k /\ IsOpen(e) /\ bodies'[k].number = Entered(e)
    BY <1>2, <1>5, <1>d
  <2>5. \A e \in GroupStarts' : IsOpen(e)' => bodies'[Deep(e)'].number = Entered(e)'
    BY <2>2, <2>3
  <2>6. \A k \in 1..Deep(Len(actions))' :
          \E e \in GroupStarts' : Deep(e)' = k /\ IsOpen(e)' /\ bodies'[k].number = Entered(e)'
    BY <2>2, <2>4
  <2> QED
    BY <1>3, <1>4, <2>5, <2>6 DEF NumbersInv
<1>8. ASSUME NEW kind \in Kinds, CallRecorded(kind),
             kind = "GROUP_ENTER" => \E name \in Names : sentest_group_start(name)
      PROVE  NumbersInv'
  <2>0. PICK m \in Nat : m = n + 1
    OBVIOUS
  <2>1. Logged(kind)
    BY <1>8 DEF CallRecorded
  <2>2. /\ Len(actions') = m /\ actions'[m] = kind /\ \A k \in 1..n : actions'[k] = actions[k]
        /\ \A k \in 0..n : Entered(k)' = Entered(k)
        /\ Entered(Len(actions))' = IF kind = "GROUP_ENTER" THEN Entered(n) + 1 ELSE Entered(n)
    BY <1>0, <1>1, <2>0, <2>1, CountsGrow
  <2>3. /\ \A k \in 0..n : Deep(k)' = Deep(k)
        /\ Deep(Len(actions))' \in Nat
        /\ kind = "GROUP_ENTER" => Deep(Len(actions))' = d + 1
        /\ kind = "GROUP_LEAVE" => Deep(Len(actions))' = d - 1
        /\ kind \notin {"GROUP_ENTER", "GROUP_LEAVE"} => Deep(Len(actions))' = d
    BY <1>0, <1>1, <1>d, <2>1, DeepGrows
  <2>4. Entered(m)' = Entered(Len(actions))' /\ Deep(m)' = Deep(Len(actions))'
    BY <2>2 DEF Entered, Deep
  <2>5. \A e \in 1..n : IsOpen(e)' <=> IsOpen(e) /\ Deep(m)' >= Deep(e)
    BY <1>0, <1>1, <2>1, <2>4, OpenGrows
  <2>6. \A e \in GroupStarts' : e \in GroupStarts \/ (e = m /\ kind = "GROUP_ENTER")
    <3> TAKE e \in GroupStarts'
    <3>1. e \in 1..m /\ actions'[e] = "GROUP_ENTER"
      BY <2>2 DEF GroupStarts
    <3>2. e \in 1..n \/ e = m
      BY <2>0, <3>1
    <3> QED
      BY <1>0, <2>2, <3>1, <3>2 DEF GroupStarts
  <2>7. /\ GroupStarts \subseteq GroupStarts'
        /\ kind = "GROUP_ENTER" => m \in GroupStarts'
    <3>1. m \in 1..Len(actions') /\ \A e \in 1..n : e \in 1..Len(actions')
      BY <2>0, <2>2
    <3> QED
      BY <1>6, <2>2, <3>1 DEF GroupStarts
  <2>8. kind = "GROUP_ENTER" => bodies'[d+1].number = Entered(m)'
    <3> SUFFICES ASSUME kind = "GROUP_ENTER" PROVE bodies'[d+1].number = Entered(m)'
      OBVIOUS
    <3>1. PICK name \in Names : sentest_group_start(name)
      BY <1>8
    <3> DEFINE new == [kind |-> "group", name |-> name, at |-> "condition", runs |-> 0,
                       number |-> Len(groups) + 1]
    <3>2. bodies' = Append(bodies, new) /\ InBody /\ ~in_test
      BY <3>1 DEF sentest_group_start, Enter
    <3>3. new.number = Len(groups) + 1
      OBVIOUS
    <3> HIDE DEF new
    <3>4. d = Len(bodies)
      <4>1. NumberOpen = Len(bodies)
        BY <1>1, <3>2, InGroups DEF NumberOpen
      <4> QED
        BY <1>5, <1>d, <4>1
    <3>5. bodies'[d + 1] = new
      BY <1>1, <1>5, <3>2, <3>4
    <3>6. Entered(m)' = Len(groups) + 1
      BY <1>0, <1>2, <2>2, <2>4
    <3> QED
      BY <3>3, <3>5, <3>6
  <2>9. ASSUME NEW e \in GroupStarts', IsOpen(e)'
        PROVE  bodies'[Deep(e)'].number = Entered(e)'
    <3>1. CASE e \in GroupStarts
      <4>1. e \in 1..n /\ e \in 0..n /\ Deep(e) \in 1..d
        BY <1>6, <2>5, <2>9, <3>1
      <4>2. Deep(e)' = Deep(e) /\ Entered(e)' = Entered(e)
        BY <2>2, <2>3, <4>1
      <4>3. IsOpen(e)
        BY <2>5, <2>9, <4>1
      <4> QED
        BY <1>2, <1>5, <1>d, <3>1, <4>1, <4>2, <4>3
    <3>2. CASE e = m /\ kind = "GROUP_ENTER"
      BY <2>3, <2>4, <2>8, <3>2
    <3> QED
      BY <2>6, <3>1, <3>2
  <2>10. ASSUME NEW k \in 1..Deep(Len(actions))'
         PROVE  \E e \in GroupStarts' : Deep(e)' = k /\ IsOpen(e)' /\ bodies'[k].number = Entered(e)'
    <3>1. CASE k \in 1..d
      <4>1. PICK e \in GroupStarts : Deep(e) = k /\ IsOpen(e) /\ bodies[k].number = Entered(e)
        BY <1>2, <1>d, <3>1
      <4>2. e \in 1..n /\ e \in 0..n
        BY <1>6
      <4>3. Deep(e)' = Deep(e) /\ Entered(e)' = Entered(e) /\ bodies'[k].number = bodies[k].number
        BY <1>5, <1>d, <2>2, <2>3, <3>1, <4>2
      <4>4. IsOpen(e)'
        BY <2>3, <2>4, <2>5, <2>10, <4>1, <4>2
      <4> QED
        BY <2>7, <4>1, <4>3, <4>4
    <3>2. CASE k \notin 1..d
      <4>1. kind = "GROUP_ENTER" /\ k = d + 1
        BY <2>3, <2>10, <3>2
      <4>2. IsOpen(m)'
        <5>1. \A p \in m..Len(actions') : p = m
          BY <2>2
        <5>2. Deep(m)' \in Nat
          BY <2>3, <2>4
        <5> QED
          BY <5>1, <5>2 DEF IsOpen
      <4> QED
        BY <2>3, <2>4, <2>7, <2>8, <4>1, <4>2
    <3> QED
      BY <3>1, <3>2
  <2> QED
    BY <1>3, <1>4, <2>9, <2>10 DEF NumbersInv
<1>9. {"GROUP_ENTER", "TEST_ENTER", "TEST_FAIL", "TEST_LEAVE", "GROUP_LEAVE"} \subseteq Kinds
  BY DEF Kinds
<1> QED
  BY <1>1, <1>7, <1>8, <1>9 DEF CallsRecorded

\* What is derived from the record stays when a step only reads it.
LEMMA ReadsOnly ==
  ASSUME CallsInv, [Next]_vars, ~Calls
  PROVE  /\ UNCHANGED <<actions, bodies, broke, groups, cases, in_test, current_failed,
                        tests_run, tests_passed, GroupsAround>>
         /\ \A k : /\ Deep(k)' = Deep(k) /\ Entered(k)' = Entered(k) /\ Text(k)' = Text(k)
                   /\ TestsTo(k)' = TestsTo(k) /\ FailuresTo(k)' = FailuresTo(k)
                   /\ (IsOpen(k)' <=> IsOpen(k))
         /\ GroupStarts' = GroupStarts
<1>1. UNCHANGED callerVars
  <2>1. UNCHANGED vars => UNCHANGED callerVars
    BY DEF vars, callVars, harnessVars, callerVars
  <2> QED
    BY <2>1, StepsOfNext, FinishingReads
<1>2. /\ UNCHANGED <<actions, bodies, broke, groups, cases, in_test, current_failed,
                     tests_run, tests_passed>>
      /\ UNCHANGED recordVars
  BY <1>1 DEF callerVars, recordVars, trueVars, flagVars, counterVars
<1>3. GroupsAround' = GroupsAround /\ \A k : Text(k)' = Text(k)
  BY <1>2, AroundStutter, RecordStutter DEF CallsInv
<1>4. \A k : /\ Deep(k)' = Deep(k) /\ Entered(k)' = Entered(k)
             /\ TestsTo(k)' = TestsTo(k) /\ FailuresTo(k)' = FailuresTo(k)
             /\ (IsOpen(k)' <=> IsOpen(k))
  BY <1>2, <1>3 DEF Deep, Entered, TestsTo, FailuresTo, IsOpen
<1>5. GroupStarts' = GroupStarts
  BY <1>2 DEF GroupStarts
<1> QED
  BY <1>2, <1>3, <1>4, <1>5

\* and every step.
LEMMA NumbersStep ==
  ASSUME CallsInv, HistoryInv, NumbersInv, [Next]_vars
  PROVE  NumbersInv'
<1>1. CASE Calls
  BY <1>1, NumbersCalls, CallsInvStep, HistoryStep
<1>2. CASE ~Calls
  <2>1. /\ UNCHANGED <<actions, bodies, broke, groups, cases, in_test>>
        /\ \A k : Deep(k)' = Deep(k) /\ Entered(k)' = Entered(k) /\ (IsOpen(k)' <=> IsOpen(k))
        /\ GroupStarts' = GroupStarts
    BY <1>2, ReadsOnly
  <2>2. /\ Entered(Len(actions))' = Entered(Len(actions))
        /\ Deep(Len(actions))' = Deep(Len(actions)) /\ Innermost' = Innermost
    <3>1. /\ Entered(Len(actions))' = Occurrences(actions', {"GROUP_ENTER"}, Len(actions'))
          /\ Deep(Len(actions))' = Len(GroupsAround'[Len(actions')])
      BY DEF Entered, Deep
    <3>2. GroupsAround' = GroupsAround
      BY <1>2, ReadsOnly
    <3> QED
      BY <2>1, <3>1, <3>2 DEF Innermost, Entered, Deep
  <2>3. CASE broke
    BY <2>1, <2>3 DEF NumbersInv
  <2>4. CASE ~broke
    <3>1. /\ in_test' => Innermost'.number = Len(cases')
          /\ Len(groups') = Entered(Len(actions))'
      BY <2>1, <2>2, <2>4 DEF NumbersInv
    <3>2. \A e \in GroupStarts' : IsOpen(e)' => bodies'[Deep(e)'].number = Entered(e)'
      BY <2>1, <2>2, <2>4 DEF NumbersInv
    <3>3. \A k \in 1..Deep(Len(actions))' :
            \E e \in GroupStarts' : Deep(e)' = k /\ IsOpen(e)' /\ bodies'[k].number = Entered(e)'
      <4> TAKE k \in 1..Deep(Len(actions))'
      <4>1. PICK e \in GroupStarts : Deep(e) = k /\ IsOpen(e) /\ bodies[k].number = Entered(e)
        BY <2>2, <2>4 DEF NumbersInv
      <4> QED
        BY <2>1, <4>1
    <3> QED
      BY <3>1, <3>2, <3>3 DEF NumbersInv
  <2> QED
    BY <2>3, <2>4
<1> QED
  BY <1>1, <1>2

\* There are no groups at the start.
LEMMA InitNumbers ==
  ASSUME ReportInit
  PROVE  NumbersInv /\ GroupsInv
<1>1. actions = <<>> /\ groups = <<>> /\ in_test = FALSE /\ Len(actions) = 0 /\ Len(groups) = 0
  BY DEF ReportInit, Init
<1>2. RecordInv /\ HistoryInv
  BY InitCalls, InitHistory DEF CallsInv
<1>3. Deep(0) = 0 /\ Entered(0) = 0
  BY <1>2, DeepMoves DEF HistoryInv
<1>4. GroupStarts = {}
  BY <1>1 DEF GroupStarts
<1>5. Deep(Len(actions)) = 0 /\ Entered(Len(actions)) = 0
  BY <1>1, <1>3
<1> QED
  BY <1>1, <1>4, <1>5 DEF NumbersInv, GroupsInv

\* A group that is counted when a call is recorded stays counted: at its end it has
\* what was counted until then.
LEMMA CountedOn ==
  ASSUME RecordInv, LeftInv, RecordInv', LeftInv', RunInv', NEW kind \in Kinds, CallRecorded(kind),
         NEW e \in GroupStarts,
         groups'[Entered(e)].name = Text(e),
         IsOpen(e) => /\ groups'[Entered(e)].tests = tests_run' - TestsTo(e)
                      /\ groups'[Entered(e)].failures = tests_run' - tests_passed' - FailuresTo(e),
         \A q \in e..Len(actions) :
           EndsAt(e, q) => /\ groups'[Entered(e)].tests = TestsTo(q) - TestsTo(e)
                           /\ groups'[Entered(e)].failures = FailuresTo(q) - FailuresTo(e)
  PROVE  /\ groups'[Entered(e)'].name = Text(e)'
         /\ IsOpen(e)' => CountedNow(e)'
         /\ \A q \in e..Len(actions') : EndsAt(e, q)' => Counted(e, q)'
<1>0. PICK n \in Nat : n = Len(actions)
  BY DEF RecordInv
<1>m. PICK m \in Nat : m = n + 1
  OBVIOUS
<1>1. e \in 1..n /\ e \in 1..Len(actions) /\ e \in 0..n /\ actions[e] = "GROUP_ENTER"
  BY <1>0 DEF GroupStarts
<1>2. Logged(kind) /\ in_test' \in BOOLEAN /\ (in_test' <=> kind \in {"TEST_ENTER", "TEST_FAIL"})
  BY DEF CallRecorded
<1>3. Text(e)' = Text(e)
  BY <1>1, <1>2 DEF Logged, Stringed, Enters
<1>4. /\ Len(actions') = m
      /\ \A k \in 0..n : /\ TestsTo(k)' = TestsTo(k) /\ FailuresTo(k)' = FailuresTo(k)
                         /\ Entered(k)' = Entered(k)
  BY <1>0, <1>m, <1>2, CountsGrow
<1>5. /\ \A k \in 0..n : Deep(k)' = Deep(k) /\ Deep(k) \in Nat
      /\ kind = "GROUP_ENTER" => Deep(Len(actions))' = Deep(n) + 1
      /\ kind \notin {"GROUP_ENTER", "GROUP_LEAVE"} => Deep(Len(actions))' = Deep(n)
  BY <1>0, <1>2, DeepGrows
<1>6. /\ Deep(m)' = Deep(Len(actions))' /\ TestsTo(m)' = TestsTo(Len(actions))'
      /\ FailuresTo(m)' = FailuresTo(Len(actions))'
  BY <1>4 DEF Deep, TestsTo, FailuresTo
<1>7. /\ IsOpen(e)' => IsOpen(e)
      /\ \A q \in e..n : EndsAt(e, q)' <=> EndsAt(e, q)
      /\ EndsAt(e, m)' => IsOpen(e) /\ Deep(m)' < Deep(e)
  BY <1>0, <1>m, <1>1, <1>2, <1>6, OpenGrows
<1>8. /\ TestsTo(e)' = TestsTo(e) /\ FailuresTo(e)' = FailuresTo(e) /\ Entered(e)' = Entered(e)
      /\ Deep(e) \in Nat
  BY <1>1, <1>4, <1>5
<1>9. ASSUME IsOpen(e)' PROVE CountedNow(e)'
  BY <1>7, <1>8, <1>9 DEF CountedNow
<1>10. ASSUME NEW q \in e..n, EndsAt(e, q)' PROVE Counted(e, q)'
  <2>1. q \in 0..n
    BY <1>1
  <2>2. TestsTo(q)' = TestsTo(q) /\ FailuresTo(q)' = FailuresTo(q)
    BY <1>4, <2>1
  <2>3. EndsAt(e, q)
    BY <1>7, <1>10
  <2> QED
    BY <1>0, <1>8, <2>2, <2>3 DEF Counted
<1>11. ASSUME EndsAt(e, m)' PROVE Counted(e, m)'
  <2>1. IsOpen(e) /\ Deep(m)' < Deep(e)
    BY <1>7, <1>11
  <2>2. Deep(n) >= Deep(e) /\ Deep(n) \in Nat
    <3>1. n \in e..Len(actions) /\ n \in 0..n
      BY <1>0, <1>1
    <3> QED
      BY <1>5, <2>1, <3>1 DEF IsOpen
  <2>3. kind = "GROUP_LEAVE"
    BY <1>5, <1>6, <1>8, <2>1, <2>2
  <2>4. Pending' = 0
    BY <1>2, <2>3 DEF Pending
  <2>5. /\ tests_run' = TestsTo(m)' /\ tests_run' - tests_passed' = FailuresTo(m)'
        /\ tests_run' \in Nat /\ tests_passed' \in Nat
    BY <1>6, <2>4 DEF RunInv
  <2> QED
    BY <1>8, <2>1, <2>5 DEF Counted
<1>12. \A q \in e..Len(actions') : q \in e..n \/ q = m
  BY <1>m, <1>1, <1>4
<1> QED
  BY <1>3, <1>8, <1>9, <1>10, <1>11, <1>12

\* The groups around a test that ends are those open on record.
LEMMA AroundIsOpen ==
  ASSUME CallsInv, HistoryInv, NumbersInv, ~broke, sentest_end_internal, NEW e \in GroupStarts
  PROVE  Entered(e) \in {bodies[k].number : k \in 1..Len(bodies) - 1} <=> IsOpen(e)
<1>1. RecordInv /\ LeftInv /\ LoopsInv
  BY DEF CallsInv, HistoryInv
<1>2. bodies # <<>> /\ Innermost.kind = "test"
  BY DEF sentest_end_internal, InBodyOf
<1>3. Deep(Len(actions)) = Len(bodies) - 1 /\ Len(bodies) \in Nat
  <2>1. NumberOpen = Len(bodies) - 1
    BY <1>2 DEF NumberOpen
  <2> QED
    BY <2>1, DeepIsOpen
<1>4. ASSUME IsOpen(e) PROVE \E k \in 1..Len(bodies) - 1 : bodies[k].number = Entered(e)
  <2>1. e \in 1..Len(actions) /\ actions[e] = "GROUP_ENTER" /\ Len(actions) \in Nat
    BY <1>1 DEF GroupStarts, RecordInv
  <2>2. e - 1 \in 0..Len(actions) /\ e \in 0..Len(actions) /\ Len(actions) \in e..Len(actions)
    BY <2>1
  <2>3. Deep(e) \in Nat /\ Deep(e-1) \in Nat /\ Deep(e) = Deep(e-1) + 1
    BY <1>1, <2>1, <2>2, DeepMoves
  <2>4. Deep(Len(actions)) >= Deep(e)
    BY <1>4, <2>2 DEF IsOpen
  <2>5. Deep(e) \in 1..Len(bodies) - 1
    BY <1>3, <2>3, <2>4
  <2>6. bodies[Deep(e)].number = Entered(e)
    BY <1>4 DEF NumbersInv
  <2> QED
    BY <2>5, <2>6
<1>5. ASSUME NEW k \in 1..Len(bodies) - 1, bodies[k].number = Entered(e) PROVE IsOpen(e)
  <2>1. k \in 1..Deep(Len(actions))
    BY <1>3
  <2>2. PICK f \in GroupStarts : Deep(f) = k /\ IsOpen(f) /\ bodies[k].number = Entered(f)
    BY <2>1 DEF NumbersInv
  <2>3. f = e
    BY <1>1, <1>5, <2>2, EnteredOnce
  <2> QED
    BY <2>2, <2>3
<1> QED
  BY <1>4, <1>5

\* A test that ends is counted in the groups around it.
LEMMA TestEndCounts ==
  ASSUME CallsInv, HistoryInv, RunInv, NumbersInv, GroupsInv, ~broke, sentest_end_internal,
         NEW e \in GroupStarts
  PROVE  /\ groups'[Entered(e)].name = Text(e)
         /\ IsOpen(e) => /\ groups'[Entered(e)].tests = tests_run' - TestsTo(e)
                         /\ groups'[Entered(e)].failures = tests_run' - tests_passed' - FailuresTo(e)
         /\ ~IsOpen(e) => groups'[Entered(e)] = groups[Entered(e)]
<1> DEFINE f == IF cases[Innermost.number].reasons = <<>> THEN 0 ELSE 1
           g == Entered(e)
           around == {bodies[k].number : k \in 1..Len(bodies) - 1}
           after(h) == IF h \in around
                       THEN [groups[h] EXCEPT !.tests = @ + 1, !.failures = @ + f]
                       ELSE groups[h]
<1>1. in_test
  BY DEF sentest_end_internal, InBodyOf, InBody, CallsInv, LoopsInv, InnermostInv
<1>2. /\ tests_run \in Nat /\ tests_passed \in Nat
      /\ f = IF current_failed THEN 1 ELSE 0
  BY <1>1 DEF RunInv, NumbersInv
<1>3. groups' = [h \in 1..Len(groups) |-> after(h)]
  BY DEF sentest_end_internal, Totals
<1>4. /\ tests_run' = tests_run + 1
      /\ tests_run' - tests_passed' = tests_run - tests_passed + f
  BY <1>2 DEF sentest_end_internal
<1>5. g \in 1..Len(groups) /\ groups[g] \in Total
  BY EnteredOnce DEF CallsInv, AccountInv, NumbersInv
<1>6. g \in around <=> IsOpen(e)
  BY AroundIsOpen
<1>7. groups[g].name = Text(e) /\ (IsOpen(e) => CountedNow(e))
  BY DEF GroupsInv
<1>8. TestsTo(e) \in Nat /\ FailuresTo(e) \in Nat
  <2>1. e \in Nat
    BY DEF GroupStarts, CallsInv, RecordInv
  <2> QED
    BY <2>1, OccurrencesStep DEF TestsTo, FailuresTo
<1>9. f \in Nat
  BY <1>2
<1> HIDE DEF f, g, around
<1>10. groups'[g] = after(g)
  BY <1>3, <1>5
<1>11. CASE IsOpen(e)
  <2>1. after(g) = [groups[g] EXCEPT !.tests = @ + 1, !.failures = @ + f]
    BY <1>6, <1>11
  <2>2. after(g).name = groups[g].name /\ after(g).tests = groups[g].tests + 1
        /\ after(g).failures = groups[g].failures + f
    BY <1>5, <2>1 DEF Total
  <2>3. groups[g].tests = tests_run - TestsTo(e)
        /\ groups[g].failures = tests_run - tests_passed - FailuresTo(e)
    BY <1>7, <1>11 DEF CountedNow, g
  <2> HIDE DEF after
  <2> QED
    BY <1>2, <1>4, <1>7, <1>8, <1>9, <1>10, <1>11, <2>2, <2>3 DEF g
<1>12. CASE ~IsOpen(e)
  BY <1>6, <1>7, <1>10, <1>12 DEF g
<1> QED
  BY <1>11, <1>12

\* Every call keeps the counts of the groups,
LEMMA GroupsCalls ==
  ASSUME CallsInv, CallsInv', HistoryInv, HistoryInv', RunInv, RunInv', NumbersInv, GroupsInv, Calls
  PROVE  GroupsInv'
<1> SUFFICES ASSUME ~broke' PROVE GroupsInv'
  BY DEF GroupsInv
<1>1. /\ ~broke /\ RecordInv /\ RecordInv' /\ LeftInv /\ LeftInv' /\ CallsRecorded
      /\ groups \in Seq(Total)
  <2>1. ~broke
    BY CallsMove
  <2>2. RecordInv /\ RecordInv' /\ LeftInv /\ LeftInv' /\ groups \in Seq(Total)
    BY DEF CallsInv, HistoryInv, AccountInv
  <2> QED
    BY <2>1, <2>2, CallsAreRecorded
<1>2. \A e \in GroupStarts :
        /\ groups[Entered(e)].name = Text(e)
        /\ IsOpen(e) => CountedNow(e)
        /\ \A q \in e..Len(actions) : EndsAt(e, q) => Counted(e, q)
  BY <1>1 DEF GroupsInv
<1>3. Len(groups) = Entered(Len(actions))
  BY <1>1 DEF NumbersInv
<1>0. PICK n \in Nat : n = Len(actions)
  BY <1>1 DEF RecordInv
<1>m. PICK m \in Nat : m = n + 1
  OBVIOUS
<1>4. CASE UNCHANGED <<actions, strs, str_starts, cases, groups, tests_run, tests_passed, in_test,
                       current_failed>>
  <2>1. GroupsAround' = GroupsAround /\ \A k : Text(k)' = Text(k)
    BY <1>1, <1>4, AroundStutter, RecordStutter DEF recordVars
  <2>2. /\ \A k : /\ Deep(k)' = Deep(k) /\ Entered(k)' = Entered(k)
                  /\ TestsTo(k)' = TestsTo(k) /\ FailuresTo(k)' = FailuresTo(k)
                  /\ (IsOpen(k)' <=> IsOpen(k))
        /\ GroupStarts' = GroupStarts
    BY <1>4, <2>1 DEF Deep, Entered, TestsTo, FailuresTo, IsOpen, GroupStarts
  <2>3. \A e, q : /\ EndsAt(e, q)' <=> EndsAt(e, q)
                  /\ CountedNow(e) => CountedNow(e)'
                  /\ Counted(e, q) => Counted(e, q)'
    BY <1>4, <2>2 DEF EndsAt, CountedNow, Counted
  <2> QED
    BY <1>2, <1>4, <2>1, <2>2, <2>3 DEF GroupsInv
<1>5. ASSUME NEW kind \in Kinds, CallRecorded(kind), NEW e \in GroupStarts,
             kind # "TEST_LEAVE", groups'[Entered(e)] = groups[Entered(e)]
      PROVE  /\ groups'[Entered(e)'].name = Text(e)'
             /\ IsOpen(e)' => CountedNow(e)'
             /\ \A q \in e..Len(actions') : EndsAt(e, q)' => Counted(e, q)'
  <2>1. tests_run' = tests_run /\ tests_passed' = tests_passed
    BY <1>5 DEF CallRecorded
  <2>2. IsOpen(e) => /\ groups'[Entered(e)].tests = tests_run' - TestsTo(e)
                     /\ groups'[Entered(e)].failures = tests_run' - tests_passed' - FailuresTo(e)
    BY <1>2, <1>5, <2>1 DEF CountedNow
  <2>3. \A q \in e..Len(actions) :
           EndsAt(e, q) => /\ groups'[Entered(e)].tests = TestsTo(q) - TestsTo(e)
                           /\ groups'[Entered(e)].failures = FailuresTo(q) - FailuresTo(e)
    BY <1>2, <1>5 DEF Counted
  <2>4. groups'[Entered(e)].name = Text(e)
    BY <1>2, <1>5
  <2> QED
    BY <1>1, <1>5, <2>2, <2>3, <2>4, CountedOn
<1>6. ASSUME CallRecorded("TEST_LEAVE"), sentest_end_internal, NEW e \in GroupStarts
      PROVE  /\ groups'[Entered(e)'].name = Text(e)'
             /\ IsOpen(e)' => CountedNow(e)'
             /\ \A q \in e..Len(actions') : EndsAt(e, q)' => Counted(e, q)'
  <2>1. /\ groups'[Entered(e)].name = Text(e)
        /\ IsOpen(e) => /\ groups'[Entered(e)].tests = tests_run' - TestsTo(e)
                        /\ groups'[Entered(e)].failures = tests_run' - tests_passed' - FailuresTo(e)
        /\ ~IsOpen(e) => groups'[Entered(e)] = groups[Entered(e)]
    BY <1>1, <1>6, TestEndCounts
  <2>2. ASSUME NEW q \in e..Len(actions), EndsAt(e, q)
        PROVE  /\ groups'[Entered(e)].tests = TestsTo(q) - TestsTo(e)
               /\ groups'[Entered(e)].failures = FailuresTo(q) - FailuresTo(e)
    <3>1. Deep(q) < Deep(e) /\ Deep(q) \in Nat /\ Deep(e) \in Nat
      <4>1. e \in 0..Len(actions) /\ q \in 0..Len(actions)
        BY <1>0 DEF GroupStarts
      <4> QED
        BY <1>1, <2>2, <4>1, DeepMoves DEF EndsAt
    <3>2. ~IsOpen(e)
      BY <3>1 DEF IsOpen
    <3>3. Counted(e, q)
      BY <1>2, <2>2
    <3> QED
      BY <2>1, <3>2, <3>3 DEF Counted
  <2>3. "TEST_LEAVE" \in Kinds
    BY DEF Kinds
  <2> QED
    BY <1>1, <1>6, <2>1, <2>2, <2>3, CountedOn
<1>7. ASSUME NEW kind \in Kinds, CallRecorded(kind),
             \A e \in GroupStarts : /\ groups'[Entered(e)'].name = Text(e)'
                                    /\ IsOpen(e)' => CountedNow(e)'
                                    /\ \A q \in e..Len(actions') : EndsAt(e, q)' => Counted(e, q)',
             kind = "GROUP_ENTER" => \E name \in Names : sentest_group_start(name)
      PROVE  GroupsInv'
  <2>1. Logged(kind)
    BY <1>7 DEF CallRecorded
  <2>2. /\ Len(actions') = m /\ actions'[m] = kind /\ \A k \in 1..n : actions'[k] = actions[k]
        /\ Entered(Len(actions))' = IF kind = "GROUP_ENTER" THEN Entered(n) + 1 ELSE Entered(n)
    BY <1>0, <1>1, <1>m, <2>1, CountsGrow
  <2>3. \A e \in GroupStarts' : e \in GroupStarts \/ (e = m /\ kind = "GROUP_ENTER")
    <3> TAKE e \in GroupStarts'
    <3>1. e \in 1..m /\ actions'[e] = "GROUP_ENTER"
      BY <2>2 DEF GroupStarts
    <3>2. e \in 1..n \/ e = m
      BY <1>m, <3>1
    <3> QED
      BY <1>0, <2>2, <3>1, <3>2 DEF GroupStarts
  <2>4. ASSUME kind = "GROUP_ENTER"
        PROVE  /\ groups'[Entered(m)'].name = Text(m)'
               /\ CountedNow(m)'
               /\ \A q \in m..Len(actions') : ~EndsAt(m, q)'
    <3>1. PICK name \in Names : sentest_group_start(name)
      BY <1>7, <2>4
    <3> DEFINE new == [name |-> name, tests |-> 0, failures |-> 0]
    <3>2. groups' = Append(groups, new) /\ ~in_test'
      BY <3>1 DEF sentest_group_start
    <3>3. new.name = name /\ new.tests = 0 /\ new.failures = 0
      OBVIOUS
    <3> HIDE DEF new
    <3>4. Entered(m)' = Len(groups) + 1
      <4>1. Entered(m)' = Entered(Len(actions))'
        BY <2>2 DEF Entered
      <4> QED
        BY <1>0, <1>3, <2>2, <2>4, <4>1
    <3>5. groups'[Entered(m)'] = new
      BY <1>1, <3>2, <3>4
    <3>6. Text(m)' = name
      <4>1. TextOf(actions', strs', str_starts', Len(actions) + 1) = name
        BY <3>1, GroupStartAccount DEF CallsInv
      <4> QED
        BY <1>0, <1>m, <4>1 DEF Text
    <3>7. CountedNow(m)'
      <4>1. Pending' = 0
        BY <3>2 DEF Pending
      <4>2. TestsTo(m)' = TestsTo(Len(actions))' /\ FailuresTo(m)' = FailuresTo(Len(actions))'
        BY <2>2 DEF TestsTo, FailuresTo
      <4>3. /\ tests_run' = TestsTo(m)' /\ tests_run' - tests_passed' = FailuresTo(m)'
            /\ tests_run' \in Nat /\ tests_passed' \in Nat
        BY <4>1, <4>2 DEF RunInv
      <4> QED
        BY <3>3, <3>5, <4>3 DEF CountedNow
    <3>8. \A q \in m..Len(actions') : q = m
      BY <2>2
    <3>9. Deep(m)' \in Nat
      <4>1. Deep(Len(actions))' \in Nat
        BY <1>1, <2>1, DeepGrows
      <4> QED
        BY <2>2, <4>1 DEF Deep
    <3>10. ~EndsAt(m, m)'
      BY <3>9 DEF EndsAt
    <3> QED
      BY <3>3, <3>5, <3>6, <3>7, <3>8, <3>10
  <2>5. \A e \in GroupStarts' :
          /\ groups'[Entered(e)'].name = Text(e)'
          /\ IsOpen(e)' => CountedNow(e)'
          /\ \A q \in e..Len(actions') : EndsAt(e, q)' => Counted(e, q)'
    BY <1>7, <2>3, <2>4
  <2> QED
    BY <2>5 DEF GroupsInv
<1>8. ASSUME NEW name \in Names, sentest_group_start(name), NEW e \in GroupStarts
      PROVE  groups'[Entered(e)] = groups[Entered(e)]
  <2> DEFINE new == [name |-> name, tests |-> 0, failures |-> 0]
  <2>1. groups' = Append(groups, new)
    BY <1>8 DEF sentest_group_start
  <2> HIDE DEF new
  <2>2. Entered(e) \in 1..Len(groups)
    BY <1>1, <1>3, EnteredOnce
  <2> QED
    BY <1>1, <2>1, <2>2
<1>9. {"GROUP_ENTER", "TEST_ENTER", "TEST_FAIL", "TEST_LEAVE", "GROUP_LEAVE"} \subseteq Kinds
  BY DEF Kinds
<1>10. CASE CallRecorded("GROUP_ENTER") /\ \E name \in Names : sentest_group_start(name)
  BY <1>5, <1>7, <1>8, <1>9, <1>10
<1>11. ASSUME NEW kind \in {"TEST_ENTER", "TEST_FAIL", "GROUP_LEAVE"}, CallRecorded(kind)
       PROVE  GroupsInv'
  <2>1. groups' = groups /\ kind \in Kinds /\ kind \notin {"TEST_LEAVE", "GROUP_ENTER"}
    BY <1>9, <1>11 DEF CallRecorded
  <2> QED
    BY <1>5, <1>7, <1>11, <2>1
<1>12. CASE CallRecorded("TEST_LEAVE") /\ sentest_end_internal
  BY <1>6, <1>7, <1>9, <1>12
<1> QED
  BY <1>1, <1>4, <1>10, <1>11, <1>12 DEF CallsRecorded

\* and every step.
LEMMA GroupsStep ==
  ASSUME CallsInv, HistoryInv, OrderInv, RunInv, NumbersInv, GroupsInv, [Next]_vars
  PROVE  GroupsInv'
<1>1. CASE Calls
  <2>1. CallsInv' /\ HistoryInv' /\ RunInv'
    BY CallsInvStep, HistoryStep, RunStep
  <2> QED
    BY <1>1, <2>1, GroupsCalls
<1>2. CASE ~Calls
  <2>1. /\ UNCHANGED <<actions, broke, groups, tests_run, tests_passed>>
        /\ \A k : /\ Deep(k)' = Deep(k) /\ Entered(k)' = Entered(k) /\ Text(k)' = Text(k)
                  /\ TestsTo(k)' = TestsTo(k) /\ FailuresTo(k)' = FailuresTo(k)
                  /\ (IsOpen(k)' <=> IsOpen(k))
        /\ GroupStarts' = GroupStarts
    BY <1>2, ReadsOnly
  <2>2. \A e, q : /\ EndsAt(e, q)' <=> EndsAt(e, q)
                  /\ CountedNow(e) => CountedNow(e)'
                  /\ Counted(e, q) => Counted(e, q)'
    BY <2>1 DEF EndsAt, CountedNow, Counted
  <2> QED
    BY <2>1, <2>2 DEF GroupsInv
<1> QED
  BY <1>1, <1>2

-----------------------------------------------------------------------------
(* The backward pass: the totals are the counts of the record.             *)

\* the failure of the test that starts at k, if failed, is not yet in current
Uncounted(k, f) == IF k > 0 /\ actions[k] = "TEST_ENTER" /\ f THEN 1 ELSE 0

\* failed tells whether the last action read was a failure
FailedIs(k, f) == f <=> k < Len(actions) /\ actions[k+1] = "TEST_FAIL"

\* where the group at each depth around the actions behind k ends, and the record at 0
Ends(k, ends) ==
  /\ ends \in [0..Deep(k) -> k..Len(actions)] /\ ends[0] = Len(actions)
  /\ \A d \in 1..Deep(k) : Deep(ends[d]) < d /\ \A p \in k..ends[d] - 1 : Deep(p) >= d

\* Behind k, current has the counts up to the end of the innermost group, and the
\* stack has those between that end and the end of the group around it, and so on.
TotalsAre(k, ends, now, stack, f) ==
  /\ now.tests = TestsTo(ends[Deep(k)]) - TestsTo(k)
  /\ now.failures + Uncounted(k, f) = FailuresTo(ends[Deep(k)]) - FailuresTo(k)
  /\ \A d \in 1..Deep(k) :
       /\ stack[d].tests = TestsTo(ends[d-1]) - TestsTo(ends[d])
       /\ stack[d].failures = FailuresTo(ends[d-1]) - FailuresTo(ends[d])

\* the groups that start behind k have their totals
SuitesAre(k, sums) ==
  \A g \in Entered(k) + 1..Entered(Len(actions)) :
    /\ sums[Entered(Len(actions)) - g + 1].tests = groups[g].tests
    /\ sums[Entered(Len(actions)) - g + 1].failures = groups[g].failures

TotalledInv ==
  /\ pc \in {"calls", "print", "scan"} => current = NoTests /\ failed = FALSE
  /\ pc = "total" =>
       /\ FailedIs(i, failed) /\ SuitesAre(i, aggs)
       /\ \E ends : Ends(i, ends) /\ TotalsAre(i, ends, current, agg_stack, failed)
  /\ pc = "write" \/ (pc = "done" /\ config.junit_output_path) =>
       /\ current.tests = tests_run /\ current.failures = tests_run - tests_passed
       /\ SuitesAre(0, aggs)

\* the counts of the record, one action back
LEMMA CountsBack ==
  ASSUME RecordInv, OrderInv, NEW k \in 1..Len(actions)
  PROVE  /\ TestsTo(k) \in Nat /\ TestsTo(k-1) \in Nat
         /\ FailuresTo(k) \in Nat /\ FailuresTo(k-1) \in Nat
         /\ TestsTo(k) = IF actions[k] = "TEST_LEAVE" THEN TestsTo(k-1) + 1 ELSE TestsTo(k-1)
         /\ FailuresTo(k) = IF actions[k] = "TEST_FAIL" /\ k > 1 /\ actions[k-1] = "TEST_ENTER"
                            THEN FailuresTo(k-1) + 1 ELSE FailuresTo(k-1)
         /\ actions[k] \notin {"TEST_ENTER", "TEST_FAIL"} /\ k < Len(actions)
              => actions[k+1] # "TEST_FAIL"
         /\ actions[k] \notin {"TEST_FAIL", "TEST_LEAVE"} /\ k > 1 => actions[k-1] # "TEST_ENTER"
<1>1. Len(actions) \in Nat
  BY DEF RecordInv
<1>2. PICK m \in Nat : k = m + 1 /\ m = k - 1
  BY <1>1
<1>3. /\ TestsTo(m) \in Nat /\ FailuresTo(m) \in Nat
      /\ actions[m+1] \in {"TEST_LEAVE"} => TestsTo(m + 1) = TestsTo(m) + 1
      /\ actions[m+1] \notin {"TEST_LEAVE"} => TestsTo(m + 1) = TestsTo(m)
      /\ FirstFails(actions)[m+1] \in {TRUE} => FailuresTo(m + 1) = FailuresTo(m) + 1
      /\ FirstFails(actions)[m+1] \notin {TRUE} => FailuresTo(m + 1) = FailuresTo(m)
  BY OccurrencesStep DEF TestsTo, FailuresTo
<1>4. FirstFails(actions)[k] = (k > 1 /\ actions[k] = "TEST_FAIL" /\ actions[k-1] = "TEST_ENTER")
  BY DEF FirstFails
<1>5. TestsTo(k) = IF actions[k] = "TEST_LEAVE" THEN TestsTo(k-1) + 1 ELSE TestsTo(k-1)
  BY <1>2, <1>3
<1>6. FailuresTo(k) = IF actions[k] = "TEST_FAIL" /\ k > 1 /\ actions[k-1] = "TEST_ENTER"
                      THEN FailuresTo(k-1) + 1 ELSE FailuresTo(k-1)
  <2>1. CASE FirstFails(actions)[k] = TRUE
    BY <1>2, <1>3, <1>4, <2>1
  <2>2. CASE FirstFails(actions)[k] = FALSE
    BY <1>2, <1>3, <1>4, <2>2
  <2> QED
    BY <1>4, <2>1, <2>2
<1>7. k < Len(actions) => k + 1 \in 1..Len(actions) /\ k + 1 > 1 /\ (k + 1) - 1 = k
  BY <1>1
<1>8. \A j \in 1..Len(actions) :
        actions[j] \in {"TEST_FAIL", "TEST_LEAVE"} <=> j > 1 /\ actions[j-1] \in {"TEST_ENTER", "TEST_FAIL"}
  BY DEF OrderInv
<1>9. actions[k] \notin {"TEST_ENTER", "TEST_FAIL"} /\ k < Len(actions) => actions[k+1] # "TEST_FAIL"
  BY <1>7, <1>8
<1>10. actions[k] \notin {"TEST_FAIL", "TEST_LEAVE"} /\ k > 1 => actions[k-1] # "TEST_ENTER"
  BY <1>8
<1> QED
  BY <1>2, <1>3, <1>5, <1>6, <1>9, <1>10

\* the ends of the groups, one action back
LEMMA EndsBack ==
  ASSUME RecordInv, LeftInv, NEW k \in 1..Len(actions), NEW ends, Ends(k, ends)
  PROVE  /\ actions[k] = "GROUP_LEAVE" =>
              Ends(k - 1, [d \in 0..Deep(k-1) |-> IF d = Deep(k-1) THEN k ELSE ends[d]])
         /\ actions[k] = "GROUP_ENTER" => /\ Ends(k - 1, [d \in 0..Deep(k-1) |-> ends[d]])
                                          /\ EndsAt(k, ends[Deep(k)])
                                          /\ ends[Deep(k)] \in k..Len(actions)
         /\ actions[k] \notin {"GROUP_ENTER", "GROUP_LEAVE"} => Ends(k - 1, ends)
<1>1. /\ Len(actions) \in Nat
      /\ k \in 0..Len(actions) /\ k - 1 \in 0..Len(actions) /\ k \in Nat /\ k - 1 \in Nat
  BY DEF RecordInv
<1>2. \A j \in 0..Len(actions) : Deep(j) \in Nat
  BY DeepMovesNext
<1>3. /\ Deep(k) \in Nat /\ Deep(k-1) \in Nat
      /\ actions[k] = "GROUP_ENTER" => Deep(k) = Deep(k-1) + 1
      /\ actions[k] = "GROUP_LEAVE" => Deep(k) = Deep(k-1) - 1
      /\ actions[k] \notin {"GROUP_ENTER", "GROUP_LEAVE"} => Deep(k) = Deep(k-1)
  BY <1>1, DeepMovesNext
<1>4. /\ \A d \in 0..Deep(k) : ends[d] \in k..Len(actions)
      /\ ends[0] = Len(actions)
      /\ \A d \in 1..Deep(k) : Deep(ends[d]) < d /\ \A p \in k..ends[d] - 1 : Deep(p) >= d
      /\ ends \in [0..Deep(k) -> k..Len(actions)]
  BY DEF Ends
<1>5. \A d \in 0..Deep(k) : ends[d] \in k - 1..Len(actions)
  BY <1>1, <1>4
<1>6. \A e : \A p \in k - 1..e - 1 : p = k - 1 \/ p \in k..e - 1
  BY <1>1
<1>7. ASSUME actions[k] = "GROUP_LEAVE"
      PROVE  Ends(k - 1, [d \in 0..Deep(k-1) |-> IF d = Deep(k-1) THEN k ELSE ends[d]])
  <2> DEFINE back == [d \in 0..Deep(k-1) |-> IF d = Deep(k-1) THEN k ELSE ends[d]]
  <2>1. Deep(k-1) = Deep(k) + 1
    BY <1>3, <1>7
  <2>2. \A d \in 0..Deep(k) : d \in 0..Deep(k-1) /\ d # Deep(k-1)
    BY <1>3, <2>1
  <2>3. back[Deep(k-1)] = k /\ \A d \in 0..Deep(k) : back[d] = ends[d]
    BY <1>3, <2>2
  <2>4. \A d \in 0..Deep(k-1) : d = Deep(k-1) \/ d \in 0..Deep(k)
    BY <1>3, <2>1
  <2>5. DOMAIN back = 0..Deep(k-1) /\ back = [d \in 0..Deep(k-1) |-> back[d]]
    OBVIOUS
  <2> HIDE DEF back
  <2>6. \A d \in 0..Deep(k-1) : back[d] \in k - 1..Len(actions)
    BY <1>1, <1>5, <2>3, <2>4
  <2>7. back \in [0..Deep(k-1) -> k - 1..Len(actions)]
    BY <2>5, <2>6
  <2>8. back[0] = Len(actions)
    BY <1>3, <1>4, <2>3
  <2>9. ASSUME NEW d \in 1..Deep(k-1)
        PROVE  Deep(back[d]) < d /\ \A p \in k - 1..back[d] - 1 : Deep(p) >= d
    <3>1. CASE d = Deep(k-1)
      <4>1. back[d] = k /\ Deep(k) < d
        BY <1>3, <2>1, <2>3, <3>1
      <4>2. \A p \in k - 1..k - 1 : p = k - 1
        BY <1>1
      <4> QED
        BY <1>3, <3>1, <4>1, <4>2
    <3>2. CASE d # Deep(k-1)
      <4>1. d \in 1..Deep(k) /\ d \in 0..Deep(k)
        BY <1>3, <2>1, <3>2
      <4>2. back[d] = ends[d] /\ Deep(k-1) >= d
        BY <1>3, <2>3, <4>1
      <4> QED
        BY <1>4, <1>6, <4>1, <4>2
    <3> QED
      BY <3>1, <3>2
  <2> QED
    BY <2>7, <2>8, <2>9 DEF Ends, back
<1>8. ASSUME actions[k] = "GROUP_ENTER"
      PROVE  /\ Ends(k - 1, [d \in 0..Deep(k-1) |-> ends[d]])
             /\ EndsAt(k, ends[Deep(k)])
             /\ ends[Deep(k)] \in k..Len(actions)
  <2> DEFINE back == [d \in 0..Deep(k-1) |-> ends[d]]
  <2>1. Deep(k) = Deep(k-1) + 1
    BY <1>3, <1>8
  <2>2. \A d \in 0..Deep(k-1) : d \in 0..Deep(k)
    BY <1>3, <2>1
  <2>3. \A d \in 0..Deep(k-1) : back[d] = ends[d]
    OBVIOUS
  <2>4. back \in [0..Deep(k-1) -> k - 1..Len(actions)]
    BY <1>5, <2>2
  <2> HIDE DEF back
  <2>5. back[0] = Len(actions)
    BY <1>3, <1>4, <2>3
  <2>6. ASSUME NEW d \in 1..Deep(k-1)
        PROVE  Deep(back[d]) < d /\ \A p \in k - 1..back[d] - 1 : Deep(p) >= d
    <3>1. d \in 1..Deep(k) /\ d \in 0..Deep(k-1) /\ Deep(k-1) >= d
      BY <1>3, <2>1
    <3> QED
      BY <1>4, <1>6, <2>3, <3>1
  <2>7. Deep(k) \in 1..Deep(k) /\ Deep(k) \in 0..Deep(k)
    BY <1>3, <2>1
  <2>8. EndsAt(k, ends[Deep(k)])
    BY <1>4, <2>7 DEF EndsAt
  <2> QED
    BY <1>4, <2>4, <2>5, <2>6, <2>7, <2>8 DEF Ends, back
<1>9. ASSUME actions[k] \notin {"GROUP_ENTER", "GROUP_LEAVE"} PROVE Ends(k - 1, ends)
  <2>1. Deep(k) = Deep(k-1)
    BY <1>3, <1>9
  <2>2. ends \in [0..Deep(k-1) -> k - 1..Len(actions)]
    BY <1>4, <1>5, <2>1
  <2>3. ASSUME NEW d \in 1..Deep(k-1)
        PROVE  Deep(ends[d]) < d /\ \A p \in k - 1..ends[d] - 1 : Deep(p) >= d
    <3>1. d \in 1..Deep(k) /\ Deep(k-1) >= d
      BY <1>3, <2>1
    <3> QED
      BY <1>4, <1>6, <3>1
  <2> QED
    BY <1>4, <2>2, <2>3 DEF Ends
<1> QED
  BY <1>7, <1>8, <1>9

\* what holds of every count and of the ends
LEMMA EndsCounted ==
  ASSUME RecordInv, LeftInv, NEW k \in 0..Len(actions), NEW ends, Ends(k, ends)
  PROVE  /\ Deep(k) \in Nat /\ k \in Nat
         /\ \A d \in 0..Deep(k) : /\ ends[d] \in Nat /\ ends[d] \in 0..Len(actions)
                                  /\ TestsTo(ends[d]) \in Nat /\ FailuresTo(ends[d]) \in Nat
<1>1. Len(actions) \in Nat /\ k \in Nat /\ Deep(k) \in Nat
  BY DeepMovesNext DEF RecordInv
<1>2. \A m \in Nat : TestsTo(m) \in Nat /\ FailuresTo(m) \in Nat
  BY OccurrencesStep DEF TestsTo, FailuresTo
<1>3. \A d \in 0..Deep(k) : ends[d] \in k..Len(actions)
  BY DEF Ends
<1>4. \A d \in 0..Deep(k) : ends[d] \in Nat /\ ends[d] \in 0..Len(actions)
  BY <1>1, <1>3
<1> QED
  BY <1>1, <1>2, <1>4

\* The end of a group: what was counted behind it goes on the stack.
LEMMA GroupEndBack ==
  ASSUME RecordInv, LeftInv, OrderInv, NEW k \in 1..Len(actions), actions[k] = "GROUP_LEAVE",
         NEW ends, Ends(k, ends), NEW now \in Aggregate,
         NEW stack \in Seq(Aggregate), Len(stack) = Deep(k), NEW f \in BOOLEAN,
         FailedIs(k, f), TotalsAre(k, ends, now, stack, f)
  PROVE  /\ TotalsAre(k - 1, [d \in 0..Deep(k-1) |-> IF d = Deep(k-1) THEN k ELSE ends[d]],
                      NoTests, Append(stack, now), f)
         /\ FailedIs(k - 1, f)
<1> DEFINE back == [d \in 0..Deep(k-1) |-> IF d = Deep(k-1) THEN k ELSE ends[d]]
<1>1. /\ Len(actions) \in Nat /\ k \in 0..Len(actions) /\ k - 1 \in 0..Len(actions) /\ k \in Nat
      /\ (k - 1) + 1 = k /\ k - 1 < Len(actions) /\ (k - 1 > 0 <=> k > 1)
  BY DEF RecordInv
<1>2. /\ Deep(k) \in Nat /\ Deep(k-1) \in Nat /\ Deep(k-1) = Deep(k) + 1
  BY <1>1, DeepMovesNext
<1>3. \A d \in 0..Deep(k) : TestsTo(ends[d]) \in Nat /\ FailuresTo(ends[d]) \in Nat
  BY <1>1, EndsCounted
<1>4. /\ TestsTo(k) \in Nat /\ TestsTo(k-1) = TestsTo(k)
      /\ FailuresTo(k) \in Nat /\ FailuresTo(k-1) = FailuresTo(k)
      /\ ~f /\ (k > 1 => actions[k-1] # "TEST_ENTER")
  BY CountsBack DEF FailedIs
<1>5. FailedIs(k - 1, f)
  BY <1>1, <1>4 DEF FailedIs
<1>6. Uncounted(k, f) = 0 /\ Uncounted(k - 1, f) = 0
  BY <1>4 DEF Uncounted
<1>7. /\ now.tests = TestsTo(ends[Deep(k)]) - TestsTo(k)
      /\ now.failures = FailuresTo(ends[Deep(k)]) - FailuresTo(k)
      /\ \A d \in 1..Deep(k) :
           /\ stack[d].tests = TestsTo(ends[d-1]) - TestsTo(ends[d])
           /\ stack[d].failures = FailuresTo(ends[d-1]) - FailuresTo(ends[d])
  <2>1. now.failures \in Nat
    BY DEF Aggregate
  <2> QED
    BY <1>6, <2>1 DEF TotalsAre
<1>8. back[Deep(k-1)] = k /\ \A d \in 0..Deep(k) : back[d] = ends[d]
  BY <1>2
<1> HIDE DEF back
<1>9. /\ NoTests.tests = TestsTo(back[Deep(k-1)]) - TestsTo(k-1)
      /\ NoTests.failures + Uncounted(k-1, f) = FailuresTo(back[Deep(k-1)]) - FailuresTo(k-1)
  BY <1>4, <1>6, <1>8 DEF NoTests
<1> DEFINE more == Append(stack, now)
<1>10. more[Deep(k) + 1] = now /\ \A d \in 1..Deep(k) : more[d] = stack[d]
  BY <1>2
<1> HIDE DEF more
<1>11. ASSUME NEW d \in 1..Deep(k-1)
       PROVE  /\ more[d].tests = TestsTo(back[d-1]) - TestsTo(back[d])
              /\ more[d].failures = FailuresTo(back[d-1]) - FailuresTo(back[d])
  <2>1. CASE d = Deep(k) + 1
    <3>1. d - 1 = Deep(k) /\ Deep(k) \in 0..Deep(k)
      BY <1>2, <2>1
    <3>2. back[d-1] = ends[Deep(k)] /\ back[d] = k /\ more[d] = now
      BY <1>2, <1>8, <1>10, <2>1, <3>1
    <3> QED
      BY <1>7, <3>2
  <2>2. CASE d # Deep(k) + 1
    <3>1. d \in 1..Deep(k) /\ d \in 0..Deep(k) /\ d - 1 \in 0..Deep(k)
      BY <1>2, <2>2
    <3> QED
      BY <1>7, <1>8, <1>10, <3>1
  <2> QED
    BY <2>1, <2>2
<1> QED
  BY <1>5, <1>9, <1>11 DEF TotalsAre, back, more

\* what is known where the loop reads the start of a group
AtGroupStart(k, ends, now, stack, f) ==
  /\ RecordInv /\ LeftInv /\ OrderInv
  /\ k \in 1..Len(actions) /\ actions[k] = "GROUP_ENTER"
  /\ now \in Aggregate /\ stack \in Seq(Aggregate) /\ Len(stack) = Deep(k)
  /\ f \in BOOLEAN /\ Ends(k, ends) /\ FailedIs(k, f) /\ TotalsAre(k, ends, now, stack, f)

\* The start of a group: its total is complete and added to that of the group
\* around it.
LEMMA GroupStartBack ==
  ASSUME NEW k, NEW ends, NEW now, NEW stack, NEW f, AtGroupStart(k, ends, now, stack, f)
  PROVE  /\ TotalsAre(k - 1, [d \in 0..Deep(k-1) |-> ends[d]],
                      [tests    |-> now.tests + Last(stack).tests,
                       failures |-> now.failures + Last(stack).failures],
                      Front(stack), f)
         /\ FailedIs(k - 1, f)
         /\ now.tests = TestsTo(ends[Deep(k)]) - TestsTo(k)
         /\ now.failures = FailuresTo(ends[Deep(k)]) - FailuresTo(k)
<1> /\ RecordInv /\ LeftInv /\ OrderInv
    /\ k \in 1..Len(actions) /\ actions[k] = "GROUP_ENTER"
    /\ now \in Aggregate /\ stack \in Seq(Aggregate) /\ Len(stack) = Deep(k)
    /\ f \in BOOLEAN /\ Ends(k, ends) /\ FailedIs(k, f) /\ TotalsAre(k, ends, now, stack, f)
  BY DEF AtGroupStart
<1> DEFINE back == [d \in 0..Deep(k-1) |-> ends[d]]
           sum == [tests    |-> now.tests + Last(stack).tests,
                   failures |-> now.failures + Last(stack).failures]
<1>1. /\ Len(actions) \in Nat /\ k \in 0..Len(actions) /\ k - 1 \in 0..Len(actions) /\ k \in Nat
      /\ (k - 1) + 1 = k /\ k - 1 < Len(actions) /\ (k - 1 > 0 <=> k > 1)
  BY DEF RecordInv
<1>2. /\ Deep(k) \in Nat /\ Deep(k-1) \in Nat /\ Deep(k) = Deep(k-1) + 1
  BY <1>1, DeepMovesNext
<1>3. \A d \in 0..Deep(k) : TestsTo(ends[d]) \in Nat /\ FailuresTo(ends[d]) \in Nat
  BY <1>1, EndsCounted
<1>4. /\ TestsTo(k) \in Nat /\ TestsTo(k-1) = TestsTo(k)
      /\ FailuresTo(k) \in Nat /\ FailuresTo(k-1) = FailuresTo(k)
      /\ ~f /\ (k > 1 => actions[k-1] # "TEST_ENTER")
  BY CountsBack DEF FailedIs
<1>5. FailedIs(k - 1, f)
  BY <1>1, <1>4 DEF FailedIs
<1>6. Uncounted(k, f) = 0 /\ Uncounted(k - 1, f) = 0
  BY <1>4 DEF Uncounted
<1>7. /\ now.tests = TestsTo(ends[Deep(k)]) - TestsTo(k)
      /\ now.failures = FailuresTo(ends[Deep(k)]) - FailuresTo(k)
      /\ \A d \in 1..Deep(k) :
           /\ stack[d].tests = TestsTo(ends[d-1]) - TestsTo(ends[d])
           /\ stack[d].failures = FailuresTo(ends[d-1]) - FailuresTo(ends[d])
  <2>1. now.failures \in Nat
    BY DEF Aggregate
  <2> QED
    BY <1>6, <2>1 DEF TotalsAre
<1>8. \A d \in 0..Deep(k-1) : back[d] = ends[d]
  OBVIOUS
<1>9. sum.tests = now.tests + Last(stack).tests /\ sum.failures = now.failures + Last(stack).failures
  OBVIOUS
<1> HIDE DEF back, sum
<1>10. Last(stack) = stack[Deep(k)] /\ \A d \in 1..Deep(k-1) : Front(stack)[d] = stack[d]
  <2>1. Front(stack) = SubSeq(stack, 1, Deep(k) - 1) /\ Last(stack) = stack[Deep(k)]
    BY DEF Front, Last
  <2>2. Deep(k) - 1 = Deep(k-1)
    BY <1>2
  <2>3. \A d \in 1..Deep(k-1) : SubSeq(stack, 1, Deep(k-1))[d] = stack[d]
    BY <1>2
  <2> QED
    BY <2>1, <2>2, <2>3
<1>11. Deep(k) \in 1..Deep(k) /\ Deep(k) \in 0..Deep(k) /\ Deep(k) - 1 = Deep(k-1)
       /\ Deep(k-1) \in 0..Deep(k) /\ Deep(k-1) \in 0..Deep(k-1)
  BY <1>2
<1>12. /\ stack[Deep(k)].tests = TestsTo(ends[Deep(k-1)]) - TestsTo(ends[Deep(k)])
       /\ stack[Deep(k)].failures = FailuresTo(ends[Deep(k-1)]) - FailuresTo(ends[Deep(k)])
  BY <1>7, <1>11
<1>13. /\ TestsTo(ends[Deep(k)]) \in Nat /\ FailuresTo(ends[Deep(k)]) \in Nat
       /\ TestsTo(ends[Deep(k-1)]) \in Nat /\ FailuresTo(ends[Deep(k-1)]) \in Nat
  BY <1>3, <1>11
<1>14. /\ sum.tests = TestsTo(ends[Deep(k-1)]) - TestsTo(k)
       /\ sum.failures = FailuresTo(ends[Deep(k-1)]) - FailuresTo(k)
  BY <1>4, <1>7, <1>9, <1>10, <1>12, <1>13
<1>15. /\ sum.tests = TestsTo(back[Deep(k-1)]) - TestsTo(k-1)
       /\ sum.failures + Uncounted(k-1, f) = FailuresTo(back[Deep(k-1)]) - FailuresTo(k-1)
  BY <1>4, <1>6, <1>8, <1>11, <1>13, <1>14
<1>16. ASSUME NEW d \in 1..Deep(k-1)
       PROVE  /\ Front(stack)[d].tests = TestsTo(back[d-1]) - TestsTo(back[d])
              /\ Front(stack)[d].failures = FailuresTo(back[d-1]) - FailuresTo(back[d])
  <2>1. d \in 1..Deep(k) /\ d \in 0..Deep(k-1) /\ d - 1 \in 0..Deep(k-1)
    BY <1>2
  <2> QED
    BY <1>7, <1>8, <1>10, <2>1
<1> QED
  BY <1>5, <1>7, <1>15, <1>16 DEF TotalsAre, back, sum

\* The actions of a test: a test is counted at its end, a failed one at its first
\* failure.
LEMMA TestBack ==
  ASSUME RecordInv, LeftInv, OrderInv, NEW k \in 1..Len(actions),
         actions[k] \in {"TEST_ENTER", "TEST_FAIL", "TEST_LEAVE"},
         NEW ends, Ends(k, ends), NEW now \in Aggregate, NEW stack, NEW f \in BOOLEAN,
         FailedIs(k, f), TotalsAre(k, ends, now, stack, f), NEW next \in Aggregate,
         next.tests = IF actions[k] = "TEST_LEAVE" THEN now.tests + 1 ELSE now.tests,
         next.failures = IF actions[k] = "TEST_ENTER" /\ f THEN now.failures + 1 ELSE now.failures
  PROVE  /\ TotalsAre(k - 1, ends, next, stack, actions[k] = "TEST_FAIL")
         /\ FailedIs(k - 1, actions[k] = "TEST_FAIL")
<1>1. /\ Len(actions) \in Nat /\ k \in 0..Len(actions) /\ k - 1 \in 0..Len(actions) /\ k \in Nat
      /\ (k - 1) + 1 = k /\ k - 1 < Len(actions) /\ (k - 1 > 0 <=> k > 1)
  BY DEF RecordInv
<1>2. /\ Deep(k) \in Nat /\ Deep(k-1) = Deep(k)
  BY <1>1, DeepMovesNext
<1> DEFINE here == ends[Deep(k)]
<1>3. TestsTo(here) \in Nat /\ FailuresTo(here) \in Nat
  BY <1>1, <1>2, EndsCounted
<1>4. /\ TestsTo(k) \in Nat /\ TestsTo(k-1) \in Nat /\ FailuresTo(k) \in Nat /\ FailuresTo(k-1) \in Nat
      /\ TestsTo(k) = IF actions[k] = "TEST_LEAVE" THEN TestsTo(k-1) + 1 ELSE TestsTo(k-1)
      /\ FailuresTo(k) = IF actions[k] = "TEST_FAIL" /\ k > 1 /\ actions[k-1] = "TEST_ENTER"
                         THEN FailuresTo(k-1) + 1 ELSE FailuresTo(k-1)
  BY CountsBack
<1>5. /\ now.tests = TestsTo(here) - TestsTo(k)
      /\ now.failures + Uncounted(k, f) = FailuresTo(here) - FailuresTo(k)
      /\ \A d \in 1..Deep(k) :
           /\ stack[d].tests = TestsTo(ends[d-1]) - TestsTo(ends[d])
           /\ stack[d].failures = FailuresTo(ends[d-1]) - FailuresTo(ends[d])
  BY DEF TotalsAre
<1>6. now.tests \in Nat /\ now.failures \in Nat /\ next.tests \in Nat /\ next.failures \in Nat
  BY DEF Aggregate
<1>7. Uncounted(k, f) = IF actions[k] = "TEST_ENTER" /\ f THEN 1 ELSE 0
  BY <1>1 DEF Uncounted
<1>8. Uncounted(k - 1, actions[k] = "TEST_FAIL")
        = IF k > 1 /\ actions[k-1] = "TEST_ENTER" /\ actions[k] = "TEST_FAIL" THEN 1 ELSE 0
  BY <1>1 DEF Uncounted
<1> HIDE DEF here
<1>9. next.tests = TestsTo(here) - TestsTo(k-1)
  BY <1>3, <1>4, <1>5, <1>6
<1>10. next.failures + Uncounted(k - 1, actions[k] = "TEST_FAIL") = FailuresTo(here) - FailuresTo(k-1)
  <2>1. CASE actions[k] = "TEST_ENTER"
    BY <1>3, <1>4, <1>5, <1>6, <1>7, <1>8, <2>1
  <2>2. CASE actions[k] = "TEST_FAIL"
    BY <1>3, <1>4, <1>5, <1>6, <1>7, <1>8, <2>2
  <2>3. CASE actions[k] = "TEST_LEAVE"
    BY <1>3, <1>4, <1>5, <1>6, <1>7, <1>8, <2>3
  <2> QED
    BY <2>1, <2>2, <2>3
<1>11. FailedIs(k - 1, actions[k] = "TEST_FAIL")
  BY <1>1 DEF FailedIs
<1> QED
  BY <1>2, <1>5, <1>9, <1>10, <1>11 DEF TotalsAre, here

\* what the totals are compared with stays when a step only reads the record
LEMMA TotalledNext ==
  ASSUME CallsInv, [Next]_vars, ~Calls, pc' = "total",
         NEW k, k = i', NEW ends, Ends(k, ends), NEW now, now = current',
         NEW stack, stack = agg_stack', NEW sums, sums = aggs', NEW f, f = failed',
         TotalsAre(k, ends, now, stack, f), FailedIs(k, f), SuitesAre(k, sums)
  PROVE  TotalledInv'
<1>1. /\ UNCHANGED <<actions, groups, GroupsAround>>
      /\ \A j : /\ Deep(j)' = Deep(j) /\ Entered(j)' = Entered(j)
                /\ TestsTo(j)' = TestsTo(j) /\ FailuresTo(j)' = FailuresTo(j)
  BY ReadsOnly
<1>2. Ends(k, ends)' /\ TotalsAre(k, ends, now, stack, f)' /\ FailedIs(k, f)'
  BY <1>1 DEF Ends, TotalsAre, FailedIs, Uncounted
<1>3. Entered(Len(actions))' = Entered(Len(actions))
  BY <1>1 DEF Entered
<1>4. SuitesAre(k, sums)'
  BY <1>1, <1>3 DEF SuitesAre
<1>5. /\ Deep(i)' = Deep(k)' /\ Entered(i)' = Entered(k)'
      /\ TestsTo(i)' = TestsTo(k)' /\ FailuresTo(i)' = FailuresTo(k)'
  BY DEF Deep, Entered, TestsTo, FailuresTo
<1>6. Ends(i, ends)' /\ FailedIs(i, failed)' /\ SuitesAre(i, aggs)'
  BY <1>2, <1>4, <1>5 DEF Ends, FailedIs, SuitesAre
<1>7. Uncounted(i, failed)' = Uncounted(k, f)'
  BY DEF Uncounted
<1>8. TotalsAre(i, ends, current, agg_stack, failed)'
  BY <1>2, <1>5, <1>7 DEF TotalsAre
<1> QED
  BY <1>6, <1>8 DEF TotalledInv

\* A step that does not change the totals keeps what they are.
LEMMA TotalledSame ==
  ASSUME CallsInv, TotalledInv, [Next]_vars, ~Calls,
         UNCHANGED <<aggs, current, agg_stack, failed, config>>,
         \/ pc' = pc /\ (pc = "total" => i' = i)
         \/ pc' \in {"calls", "print", "scan"} /\ pc \in {"calls", "print", "scan"}
         \/ pc' = "done" /\ (pc = "write" \/ ~config.junit_output_path)
         \/ pc' = "crashed"
  PROVE  TotalledInv'
<1>1. /\ UNCHANGED <<actions, groups, GroupsAround, tests_run, tests_passed>>
      /\ \A j : Entered(j)' = Entered(j)
  BY ReadsOnly
<1>2. Entered(Len(actions))' = Entered(Len(actions))
  BY <1>1 DEF Entered
<1>3. SuitesAre(0, aggs) => SuitesAre(0, aggs)'
  BY <1>1, <1>2 DEF SuitesAre
<1>4. CASE pc' = "total"
  <2>1. pc = "total" /\ i' = i
    BY <1>4
  <2>2. PICK ends : Ends(i, ends) /\ TotalsAre(i, ends, current, agg_stack, failed)
    BY <2>1 DEF TotalledInv
  <2>3. FailedIs(i, failed) /\ SuitesAre(i, aggs)
    BY <2>1 DEF TotalledInv
  <2> QED
    BY <1>4, <2>1, <2>2, <2>3, TotalledNext
<1>5. CASE pc' # "total"
  BY <1>1, <1>3, <1>5 DEF TotalledInv
<1> QED
  BY <1>4, <1>5

\* the pass begins behind the last action
LEMMA TotalledStarts ==
  ASSUME CallsInv, HistoryInv, PrintedInv, IndexInv, OutsideInv, OrderInv, TotalsInv, TotalledInv, ScanEnd
  PROVE  TotalledInv'
<1>1. RecordInv /\ LeftInv
  BY DEF CallsInv, HistoryInv
<1>2. /\ pc = "scan" /\ pc' = "total" /\ i' = Len(actions)
      /\ UNCHANGED <<aggs, current, agg_stack, failed>>
  BY DEF ScanEnd, totalVars
<1>3. current = NoTests /\ failed = FALSE /\ aggs = <<>> /\ agg_stack = <<>>
  BY <1>2 DEF TotalledInv, TotalsInv
<1>0. PICK n \in Nat : n = Len(actions)
  BY <1>1 DEF RecordInv
<1>f. PICK f \in BOOLEAN : f = FALSE
  OBVIOUS
<1>4. TopGroups = <<>> /\ ~in_test
  BY <1>2 DEF OutsideInv
<1>5. Deep(n) = 0
  BY <1>0, <1>4 DEF Deep, TopGroups
<1> DEFINE ends == [d \in 0..0 |-> n]
<1>6. Ends(n, ends)
  BY <1>0, <1>5 DEF Ends
<1>7. n > 0 => actions[n] # "TEST_ENTER"
  BY <1>0, <1>4 DEF OrderInv
<1>8. Uncounted(n, f) = 0
  BY <1>f DEF Uncounted
<1>9. TestsTo(n) \in Nat /\ FailuresTo(n) \in Nat /\ Entered(n) \in Nat
  BY OccurrencesStep DEF TestsTo, FailuresTo, Entered
<1>10. TotalsAre(n, ends, NoTests, <<>>, f)
  <2>1. ends[Deep(n)] = n
    BY <1>5
  <2>2. \A d \in 1..Deep(n) : FALSE
    BY <1>5
  <2> HIDE DEF ends
  <2>3. /\ NoTests.tests = TestsTo(ends[Deep(n)]) - TestsTo(n)
        /\ NoTests.failures + Uncounted(n, f) = FailuresTo(ends[Deep(n)]) - FailuresTo(n)
    <3>1. NoTests.tests = 0 /\ NoTests.failures = 0
      BY DEF NoTests
    <3>2. TestsTo(ends[Deep(n)]) = TestsTo(n) /\ FailuresTo(ends[Deep(n)]) = FailuresTo(n)
      BY <2>1
    <3> QED
      BY <1>8, <1>9, <3>1, <3>2
  <2> QED
    BY <2>2, <2>3 DEF TotalsAre
<1>11. FailedIs(n, f)
  BY <1>0, <1>f DEF FailedIs
<1>12. SuitesAre(n, <<>>)
  <2>1. \A g \in Entered(n) + 1..Entered(Len(actions)) : FALSE
    BY <1>0, <1>9
  <2> QED
    BY <2>1 DEF SuitesAre
<1>13. ~Calls
  BY <1>2, CallsMove
<1>14. [Next]_vars
  BY DEF Next
<1> HIDE DEF ends
<1> QED
  BY <1>0, <1>2, <1>3, <1>f, <1>6, <1>10, <1>11, <1>12, <1>13, <1>14, TotalledNext

\* A step of the pass takes the totals one action back.
LEMMA TotalledMoves ==
  ASSUME CallsInv, HistoryInv, PrintedInv, IndexInv, OutsideInv, OrderInv, RunInv, NumbersInv, GroupsInv,
         TotalsInv, TotalledInv,
         TotalLeaveGroup \/ TotalEnterGroup \/ TotalLeaveTest \/ TotalFail \/ TotalEnterTest
  PROVE  TotalledInv'
<1>1. RecordInv /\ LeftInv
  BY DEF CallsInv, HistoryInv
<1>2. pc = "total" /\ i > 0 /\ pc' = "total" /\ i' = i - 1
  BY DEF TotalLeaveGroup, TotalEnterGroup, TotalLeaveTest, TotalFail, TotalEnterTest, Totalling
<1>3. i \in 1..Len(actions) /\ i - 1 \in 0..Len(actions) /\ Len(actions) \in Nat
  BY <1>1, <1>2, TotalMoves DEF RecordInv
<1>4. PICK k \in 1..Len(actions) : k = i
  BY <1>3
<1>5. PICK ends : Ends(k, ends) /\ TotalsAre(k, ends, current, agg_stack, failed)
  BY <1>2, <1>4 DEF TotalledInv
<1>6. FailedIs(k, failed) /\ SuitesAre(k, aggs)
  BY <1>2, <1>4 DEF TotalledInv
<1>7. /\ failed \in BOOLEAN /\ current \in Aggregate /\ aggs \in Seq(Aggregate)
      /\ agg_stack \in Seq(Aggregate) /\ Len(agg_stack) = Deep(k)
      /\ Len(aggs) = Entered(Len(actions)) - Entered(k)
  BY <1>2, <1>4 DEF TotalsInv
<1>8. ~Calls /\ [Next]_vars
  BY <1>2, CallsMove DEF Next
<1>9. /\ Entered(k) \in Nat /\ Entered(k-1) \in Nat /\ Entered(Len(actions)) \in Nat
      /\ actions[k] = "GROUP_ENTER" => Entered(k) = Entered(k-1) + 1
      /\ actions[k] # "GROUP_ENTER" => Entered(k) = Entered(k-1)
      /\ Entered(k) <= Entered(Len(actions))
  <2>1. k \in 0..Len(actions) /\ k - 1 \in 0..Len(actions)
    BY <1>3, <1>4
  <2>2. Len(actions) \in 0..Len(actions)
    BY <1>3
  <2> QED
    BY <1>1, <2>1, <2>2, DeepMoves
<1>10. actions[k] # "GROUP_ENTER" => SuitesAre(k - 1, aggs)
  BY <1>6, <1>9 DEF SuitesAre
<1>11. CASE TotalLeaveGroup
  <2> DEFINE back == [d \in 0..Deep(k-1) |-> IF d = Deep(k-1) THEN k ELSE ends[d]]
  <2>1. /\ actions[k] = "GROUP_LEAVE" /\ current' = NoTests /\ agg_stack' = Append(agg_stack, current)
        /\ UNCHANGED <<aggs, failed>>
    BY <1>4, <1>11 DEF TotalLeaveGroup, Totalling
  <2>2. Ends(k - 1, back)
    BY <1>1, <1>5, <2>1, EndsBack
  <2>3. TotalsAre(k - 1, back, NoTests, Append(agg_stack, current), failed) /\ FailedIs(k - 1, failed)
    BY <1>1, <1>5, <1>6, <1>7, <2>1, GroupEndBack
  <2> HIDE DEF back
  <2>4. SuitesAre(k - 1, aggs)
    BY <1>10, <2>1
  <2> QED
    BY <1>2, <1>4, <1>8, <2>1, <2>2, <2>3, <2>4, TotalledNext
<1>12. CASE TotalEnterGroup
  <2> DEFINE back == [d \in 0..Deep(k-1) |-> ends[d]]
             sum == [tests    |-> current.tests + Last(agg_stack).tests,
                     failures |-> current.failures + Last(agg_stack).failures]
  <2>1. /\ actions[k] = "GROUP_ENTER" /\ current' = sum /\ agg_stack' = Front(agg_stack)
        /\ aggs' = Append(aggs, current) /\ UNCHANGED failed
    BY <1>4, <1>12 DEF TotalEnterGroup, Totalling
  <2>2. Ends(k - 1, back) /\ EndsAt(k, ends[Deep(k)]) /\ ends[Deep(k)] \in k..Len(actions)
    BY <1>1, <1>5, <2>1, EndsBack
  <2>3. /\ TotalsAre(k - 1, back, sum, Front(agg_stack), failed) /\ FailedIs(k - 1, failed)
        /\ current.tests = TestsTo(ends[Deep(k)]) - TestsTo(k)
        /\ current.failures = FailuresTo(ends[Deep(k)]) - FailuresTo(k)
    <3>1. RecordInv /\ LeftInv /\ OrderInv /\ actions[k] = "GROUP_ENTER"
      BY <1>1, <2>1
    <3>2. AtGroupStart(k, ends, current, agg_stack, failed)
      BY <3>1, <1>5, <1>6, <1>7 DEF AtGroupStart
    <3> QED
      BY <3>2, GroupStartBack
  <2> HIDE DEF back, sum
  <2>4. current.tests = groups[Entered(k)].tests /\ current.failures = groups[Entered(k)].failures
    <3>1. ~broke
      BY <1>2 DEF OutsideInv
    <3>2. k \in GroupStarts
      BY <2>1 DEF GroupStarts
    <3>3. Counted(k, ends[Deep(k)])
      BY <2>2, <3>1, <3>2 DEF GroupsInv
    <3> QED
      BY <2>3, <3>3 DEF Counted
  <2> DEFINE more == Append(aggs, current)
  <2>5. Len(more) = Len(aggs) + 1 /\ more[Len(aggs) + 1] = current
        /\ \A j \in 1..Len(aggs) : more[j] = aggs[j]
    BY <1>7
  <2>6. SuitesAre(k - 1, more)
    <3> HIDE DEF more
    <3> SUFFICES ASSUME NEW g \in Entered(k-1) + 1..Entered(Len(actions))
                 PROVE  /\ more[Entered(Len(actions)) - g + 1].tests = groups[g].tests
                        /\ more[Entered(Len(actions)) - g + 1].failures = groups[g].failures
      BY DEF SuitesAre
    <3>1. CASE g = Entered(k)
      <4>1. Entered(Len(actions)) - g + 1 = Len(aggs) + 1
        BY <1>7, <1>9, <3>1
      <4> QED
        BY <2>4, <2>5, <3>1, <4>1
    <3>2. CASE g # Entered(k)
      <4>1. g \in Entered(k) + 1..Entered(Len(actions))
        BY <1>9, <2>1, <3>2
      <4>2. Entered(Len(actions)) - g + 1 \in 1..Len(aggs)
        <5>1. Len(aggs) = Entered(Len(actions)) - Entered(k)
          BY <1>7
        <5>2. Entered(k) \in Nat /\ Entered(Len(actions)) \in Nat
          BY <1>9
        <5> QED
          BY <4>1, <5>1, <5>2
      <4> QED
        BY <1>6, <2>5, <4>1, <4>2 DEF SuitesAre
    <3> QED
      BY <3>1, <3>2
  <2> HIDE DEF more
  <2>7. aggs' = more
    BY <2>1 DEF more
  <2> QED
    BY <1>2, <1>4, <1>8, <2>1, <2>2, <2>3, <2>6, <2>7, TotalledNext
<1>13. CASE TotalLeaveTest \/ TotalFail \/ TotalEnterTest
  <2>1. /\ actions[k] \in {"TEST_ENTER", "TEST_FAIL", "TEST_LEAVE"} /\ UNCHANGED <<agg_stack, aggs>>
        /\ failed' = (actions[k] = "TEST_FAIL")
    BY <1>4, <1>13 DEF TotalLeaveTest, TotalFail, TotalEnterTest, Totalling
  <2>2. /\ current' \in Aggregate
        /\ current'.tests = IF actions[k] = "TEST_LEAVE" THEN current.tests + 1 ELSE current.tests
        /\ current'.failures = IF actions[k] = "TEST_ENTER" /\ failed THEN current.failures + 1
                               ELSE current.failures
    BY <1>4, <1>7, <1>13 DEF TotalLeaveTest, TotalFail, TotalEnterTest, Totalling, Aggregate
  <2>3. PICK next \in Aggregate : next = current'
    BY <2>2
  <2>4. /\ TotalsAre(k - 1, ends, next, agg_stack, actions[k] = "TEST_FAIL")
        /\ FailedIs(k - 1, actions[k] = "TEST_FAIL")
    BY <1>1, <1>5, <1>6, <1>7, <2>1, <2>2, <2>3, TestBack
  <2>5. Ends(k - 1, ends) /\ SuitesAre(k - 1, aggs)
    BY <1>1, <1>5, <1>10, <2>1, EndsBack
  <2> QED
    BY <1>2, <1>4, <1>8, <2>1, <2>3, <2>4, <2>5, TotalledNext
<1> QED
  BY <1>11, <1>12, <1>13

\* sentest_finish makes no call of the harness
LEMMA FinishingNoCall ==
  ASSUME CallsInv, Finishing
  PROVE  ~Calls
<1>1. CASE Finish
  <2>1. bodies = <<>> /\ pc' = "print"
    BY <1>1 DEF Finish
  <2> QED
    BY <2>1, CallsMove
<1>2. CASE Finishing /\ ~Finish
  <2>1. pc # "calls"
    BY <1>2 DEF Finishing, PrintEnter, PrintLeave, PrintFail, PrintEnd, Scan, ScanEnd,
       TotalLeaveGroup, TotalEnterGroup, TotalLeaveTest, TotalFail, TotalEnterTest, TotalEnd,
       OpenFails, WriteSuite, WriteCase, WriteCaseEnd, WriteSuiteEnd, WriteFail, WriteEnd,
       Reading, Totalling
  <2> QED
    BY <2>1, CallsMove
<1> QED
  BY <1>1, <1>2

\* at the start of the record, everything is counted
LEMMA TotalledEnds ==
  ASSUME CallsInv, HistoryInv, PrintedInv, IndexInv, OutsideInv, OrderInv, RunInv,
         TotalsInv, TotalledInv, TotalEnd
  PROVE  TotalledInv'
<1>1. RecordInv /\ LeftInv /\ Len(actions) \in Nat
  BY DEF CallsInv, HistoryInv, RecordInv
<1>2. pc = "total" /\ i = 0 /\ pc' = "write" /\ UNCHANGED <<aggs, current>>
  BY DEF TotalEnd, totalVars
<1>3. PICK ends : Ends(0, ends) /\ TotalsAre(0, ends, current, agg_stack, failed)
  BY <1>2 DEF TotalledInv
<1>4. SuitesAre(0, aggs)
  BY <1>2 DEF TotalledInv
<1>5. Deep(0) = 0
  BY <1>1, DeepMoves
<1>6. ends[0] = Len(actions)
  BY <1>3 DEF Ends
<1>7. TestsTo(0) = 0 /\ FailuresTo(0) = 0
  BY OccurrencesStep DEF TestsTo, FailuresTo
<1>8. Uncounted(0, failed) = 0
  BY DEF Uncounted
<1>9. ~in_test /\ Pending = 0
  BY <1>2 DEF OutsideInv, Pending
<1>10. /\ tests_run = TestsTo(Len(actions)) /\ tests_run - tests_passed = FailuresTo(Len(actions))
       /\ tests_run \in Nat /\ tests_passed \in Nat
  BY <1>9 DEF RunInv
<1>0. current.failures \in Nat
  BY DEF TotalsInv, Aggregate
<1>11. current.tests = tests_run /\ current.failures = tests_run - tests_passed
  BY <1>3, <1>5, <1>6, <1>7, <1>8, <1>10, <1>0 DEF TotalsAre
<1>12. /\ UNCHANGED <<actions, groups, tests_run, tests_passed>>
       /\ Entered(0)' = Entered(0) /\ Entered(Len(actions))' = Entered(Len(actions))
  <2>1. UNCHANGED <<actions, groups, tests_run, tests_passed>>
    BY RecordRead DEF Finishing
  <2> QED
    BY <2>1 DEF Entered
<1>13. SuitesAre(0, aggs)'
  BY <1>2, <1>4, <1>12 DEF SuitesAre
<1> QED
  BY <1>2, <1>11, <1>12, <1>13 DEF TotalledInv

\* Every step keeps the totals right.
LEMMA TotalledStep ==
  ASSUME CallsInv, HistoryInv, PrintedInv, IndexInv, OutsideInv, OrderInv, RunInv, NumbersInv, GroupsInv,
         TotalsInv, TotalledInv, [Next]_vars
  PROVE  TotalledInv'
<1>1. CASE Calls /\ UNCHANGED finishVars
  <2>1. /\ pc = "calls" /\ pc' \in {"calls", "aborted"}
        /\ UNCHANGED <<current, failed>>
    BY <1>1, CallsMove DEF finishVars, totalVars
  <2> QED
    BY <2>1 DEF TotalledInv
<1>2. CASE \/ Finish \/ PrintEnter \/ PrintLeave \/ PrintFail \/ PrintEnd \/ Scan \/ OpenFails
           \/ WriteSuite \/ WriteCase \/ WriteCaseEnd \/ WriteSuiteEnd \/ WriteFail \/ WriteEnd
  <2>1. UNCHANGED <<aggs, current, agg_stack, failed, config>>
    BY <1>2 DEF Finish, PrintEnter, PrintLeave, PrintFail, PrintEnd, Scan, OpenFails,
       WriteSuite, WriteCase, WriteCaseEnd, WriteSuiteEnd, WriteFail, WriteEnd,
       finishVars, totalVars, callVars, harnessVars
  <2>2. \/ pc' \in {"calls", "print", "scan"} /\ pc \in {"calls", "print", "scan"}
        \/ pc' = "write" /\ pc = "write"
        \/ pc' = "done" /\ (pc = "write" \/ ~config.junit_output_path)
        \/ pc' = "crashed"
    BY <1>2 DEF Finish, PrintEnter, PrintLeave, PrintFail, PrintEnd, Scan, OpenFails,
       WriteSuite, WriteCase, WriteCaseEnd, WriteSuiteEnd, WriteFail, WriteEnd, Reading
  <2>3. ~Calls
    <3>1. Finishing
      BY <1>2 DEF Finishing
    <3> QED
      BY <3>1, FinishingNoCall
  <2> QED
    BY <2>1, <2>2, <2>3, TotalledSame
<1>3. CASE UNCHANGED vars
  <2>1. UNCHANGED <<pc, i, aggs, current, agg_stack, failed, config>>
    BY <1>3 DEF vars, finishVars, totalVars, callVars, harnessVars
  <2>2. CASE Calls
    BY <2>1, <2>2, CallsMove DEF TotalledInv
  <2>3. CASE ~Calls
    BY <2>1, <2>3, TotalledSame
  <2> QED
    BY <2>2, <2>3
<1> QED
  BY <1>1, <1>2, <1>3, TotalledStarts, TotalledMoves, TotalledEnds, StepsOfNext DEF Finishing

-----------------------------------------------------------------------------
(* The groups in the JUnit file.                                           *)

SuiteOf(g) == [tag |-> "testsuite", name |-> groups[g].name,
               tests |-> groups[g].tests, failures |-> groups[g].failures]
Suites(k) == [g \in 1..k |-> SuiteOf(g)]

\* So far the file has the groups that start before the place where the record is read.
SuitesInv ==
  /\ pc = "write" => ElementsOf(document, {"testsuite"}) = Suites(Entered(i-1))
  /\ pc = "done" /\ config.junit_output_path =>
       ElementsOf(document, {"testsuite"}) = Suites(Entered(Len(actions)))

\* One more group.
LEMMA SuitesGrow ==
  ASSUME NEW k \in Nat
  PROVE  Suites(k + 1) = Append(Suites(k), SuiteOf(k + 1))
<1> DEFINE S == {SuiteOf(g) : g \in 1..k + 1}
<1>1. Suites(k) \in Seq(S) /\ Suites(k + 1) \in Seq(S) /\ SuiteOf(k + 1) \in S
  BY DEF Suites
<1>2. /\ Len(Suites(k)) = k /\ Len(Suites(k + 1)) = k + 1
      /\ \A g \in 1..k : Suites(k)[g] = SuiteOf(g)
      /\ \A g \in 1..k + 1 : Suites(k + 1)[g] = SuiteOf(g)
  BY DEF Suites
<1> HIDE DEF S
<1>3. /\ Append(Suites(k), SuiteOf(k + 1)) \in Seq(S)
      /\ Len(Append(Suites(k), SuiteOf(k + 1))) = k + 1
      /\ \A g \in 1..k + 1 : Append(Suites(k), SuiteOf(k + 1))[g] = SuiteOf(g)
  <2>1. \A s \in Seq(S), x \in S :
          /\ Append(s, x) \in Seq(S) /\ Len(Append(s, x)) = Len(s) + 1 /\ Append(s, x)[Len(s) + 1] = x
          /\ \A g \in 1..Len(s) : Append(s, x)[g] = s[g]
    OBVIOUS
  <2>2. /\ Append(Suites(k), SuiteOf(k + 1)) \in Seq(S)
        /\ Len(Append(Suites(k), SuiteOf(k + 1))) = k + 1
        /\ Append(Suites(k), SuiteOf(k + 1))[k + 1] = SuiteOf(k + 1)
        /\ \A g \in 1..k : Append(Suites(k), SuiteOf(k + 1))[g] = SuiteOf(g)
    BY <1>1, <1>2, <2>1
  <2> QED
    BY <2>2
<1> QED
  BY <1>1, <1>2, <1>3, SeqEqual

\* What is written for an action is the next group's start, or no group's.
LEMMA WrittenSuite ==
  ASSUME CallsInv, HistoryInv, IndexInv, OutsideInv, ScanInv, TotalsInv, WriteInv, NumbersInv, GroupsInv,
         TotalledInv, pc = "write", i \in 1..Len(actions)
  PROVE  Suites(Entered(i)) = IF Written(i).tag \in {"testsuite"}
                              THEN Append(Suites(Entered(i-1)), Written(i))
                              ELSE Suites(Entered(i-1))
<1>1. RecordInv /\ LeftInv /\ ~broke
  BY DEF CallsInv, HistoryInv, OutsideInv
<1>2. i \in 0..Len(actions) /\ i - 1 \in 0..Len(actions) /\ actions[i] \in Kinds
  BY <1>1 DEF RecordInv
<1>3. /\ Entered(i) \in Nat /\ Entered(i-1) \in Nat /\ Entered(Len(actions)) \in Nat
      /\ actions[i] = "GROUP_ENTER" => Entered(i) = Entered(i-1) + 1
      /\ actions[i] # "GROUP_ENTER" => Entered(i) = Entered(i-1)
      /\ Entered(i) <= Entered(Len(actions)) /\ Entered(0) = 0
  <2>1. Len(actions) \in 0..Len(actions)
    BY <1>1 DEF RecordInv
  <2> QED
    BY <1>1, <1>2, <2>1, DeepMoves
<1>4. CASE actions[i] = "GROUP_ENTER"
  <2>1. i \in GroupStarts
    BY <1>4 DEF GroupStarts
  <2>2. groups[Entered(i)].name = Text(i)
    BY <1>1, <2>1 DEF GroupsInv
  <2>3. agg_ind = Entered(Len(actions)) - Entered(i) + 1
    BY <1>4, SuiteTotal
  <2>4. Entered(i) \in Entered(0) + 1..Entered(Len(actions))
    BY <1>3, <1>4
  <2>5. /\ aggs[agg_ind].tests = groups[Entered(i)].tests
        /\ aggs[agg_ind].failures = groups[Entered(i)].failures
    BY <2>3, <2>4 DEF TotalledInv, SuitesAre
  <2>6. Written(i) = SuiteOf(Entered(i)) /\ Written(i).tag = "testsuite"
    BY <1>4, <2>2, <2>5 DEF Written, SuiteOf
  <2> QED
    BY <1>3, <1>4, <2>6, SuitesGrow
<1>5. CASE actions[i] # "GROUP_ENTER"
  <2>1. Written(i).tag # "testsuite"
    BY <1>2, <1>5 DEF Written, Kinds, CaseTag, FailTag
  <2> QED
    BY <1>3, <1>5, <2>1
<1> QED
  BY <1>4, <1>5

\* Every step keeps the groups in the file right.
LEMMA SuitesStep ==
  ASSUME CallsInv, HistoryInv, PrintedInv, IndexInv, OutsideInv, ScanInv, TotalsInv, WriteInv,
         DocumentInv, NumbersInv, GroupsInv, TotalledInv, SuitesInv, [Next]_vars
  PROVE  SuitesInv'
<1> RecordInv /\ Len(actions) \in Nat
  BY DEF CallsInv, RecordInv
<1>1. CASE \/ Calls /\ UNCHANGED finishVars
           \/ Finish \/ PrintEnter \/ PrintLeave \/ PrintFail \/ PrintEnd \/ Scan \/ ScanEnd
           \/ TotalLeaveGroup \/ TotalEnterGroup \/ TotalLeaveTest \/ TotalFail \/ TotalEnterTest
           \/ OpenFails
  <2>1. /\ pc' # "write"
        /\ pc' = "done" => ~config.junit_output_path /\ config' = config
    BY <1>1, CallsMove DEF Finish, PrintEnter, PrintLeave, PrintFail, PrintEnd, Scan, ScanEnd,
       TotalLeaveGroup, TotalEnterGroup, TotalLeaveTest, TotalFail, TotalEnterTest, OpenFails,
       Reading, Totalling, callVars, harnessVars
  <2> QED
    BY <2>1 DEF SuitesInv
<1>2. ASSUME Finishing \/ UNCHANGED vars
      PROVE  /\ UNCHANGED <<config, actions>>
             /\ \A k : Entered(k)' = Entered(k) /\ Suites(k)' = Suites(k)
  <2>1. UNCHANGED <<config, actions, groups>> /\ \A k : Entered(k)' = Entered(k)
    BY <1>2, RecordRead
  <2> QED
    BY <2>1 DEF Suites, SuiteOf
<1>3. CASE TotalEnd
  <2> DEFINE head == [tag |-> "testsuites", tests |-> current.tests, failures |-> current.failures]
  <2>1. /\ pc' = "write" /\ i' = 1 /\ document' = <<head>>
    BY <1>3 DEF TotalEnd
  <2>2. head \in Element /\ head.tag \notin {"testsuite"}
    <3>1. current.tests \in Nat /\ current.failures \in Nat
      BY DEF TotalsInv, Aggregate
    <3> QED
      BY <3>1 DEF Element, Whole
  <2> HIDE DEF head
  <2>4. ElementsOf(document', {"testsuite"}) = <<>>
    <3>1. ElementsOf(<<head>>, {"testsuite"}) = <<>>
      BY <2>2, ElementsOfOther
    <3> QED
      BY <2>1, <3>1
  <2>5. PICK k \in Nat : k = i' - 1
    BY <2>1
  <2>6. k = 0
    BY <2>1, <2>5
  <2>7. Entered(0) = 0
    BY OccurrencesStep DEF Entered
  <2>8. Entered(i-1)' = 0
    BY <1>2, <1>3, <2>5, <2>6, <2>7 DEF Finishing, Entered
  <2>9. \A g \in 1..0 : FALSE
    OBVIOUS
  <2>10. Suites(Entered(i-1))' = <<>>
    BY <2>8, <2>9 DEF Suites
  <2> QED
    BY <2>1, <2>4, <2>10 DEF SuitesInv
<1>4. CASE Writing
  <2>1. /\ pc = "write" /\ pc' = "write" /\ i \in 1..Len(actions) /\ i' - 1 = i
        /\ document' = Append(document, Written(i)) /\ Written(i) \in Element
    BY <1>4, WritesOn
  <2>2. document \in Seq(Element)
    BY <2>1 DEF DocumentInv
  <2>3. ElementsOf(document', {"testsuite"}) =
          IF Written(i).tag \in {"testsuite"}
          THEN Append(ElementsOf(document, {"testsuite"}), Written(i))
          ELSE ElementsOf(document, {"testsuite"})
    BY <2>1, <2>2, ElementsOfAppend
  <2>4. ElementsOf(document', {"testsuite"}) = Suites(Entered(i))
    BY <2>1, <2>3, WrittenSuite DEF SuitesInv
  <2>5. PICK k \in Nat : k = i
    BY <2>1
  <2>6. Suites(Entered(i-1))' = Suites(Entered(k))
    <3>1. Entered(i-1)' = Entered(k)'
      BY <2>1, <2>5 DEF Entered
    <3>2. UNCHANGED groups /\ Entered(k)' = Entered(k)
      BY <1>4, RecordRead DEF Finishing, Writing
    <3> QED
      BY <3>1, <3>2 DEF Suites, SuiteOf
  <2> QED
    BY <2>1, <2>4, <2>5, <2>6 DEF SuitesInv
<1>5. CASE WriteEnd
  <2> DEFINE e == [tag |-> "/testsuites"]
  <2>1. /\ pc = "write" /\ i > Len(actions) /\ pc' = "done" /\ document' = Append(document, e)
    BY <1>5 DEF WriteEnd, Write
  <2>2. e \in Element /\ e.tag \notin {"testsuite"}
    BY DEF Element, EndTag
  <2>3. document \in Seq(Element)
    BY <2>1 DEF DocumentInv
  <2> HIDE DEF e
  <2>4. ElementsOf(document', {"testsuite"}) = ElementsOf(document, {"testsuite"})
    BY <2>1, <2>2, <2>3, ElementsOfAppend
  <2>5. i - 1 = Len(actions)
    BY <2>1 DEF IndexInv
  <2>6. Suites(Entered(Len(actions)))' = Suites(Entered(Len(actions)))
    <3>1. UNCHANGED <<groups, actions>>
      BY <1>5, RecordRead DEF Finishing
    <3> QED
      BY <3>1 DEF Suites, SuiteOf, Entered
  <2> QED
    BY <2>1, <2>4, <2>5, <2>6 DEF SuitesInv
<1>6. CASE UNCHANGED vars
  <2>1. UNCHANGED <<pc, config, i, document, actions, groups>>
    BY <1>6 DEF vars, callVars, harnessVars, finishVars, writeVars, recordVars, trueVars
  <2> QED
    BY <2>1 DEF SuitesInv, Suites, SuiteOf, Entered
<1> QED
  BY <1>1, <1>3, <1>4, <1>5, <1>6, StepsOfNext DEF Finishing, Writing

\* The JUnit file of callers that write no break has every group with the number of
\* tests and of failed tests in it and in the groups inside it, and the whole file
\* those of the run, with which the counters agree.
THEOREM SenTestJUnitTotals == Spec => []JUnitTotals
<1> DEFINE Inv == /\ CallsInv /\ HistoryInv /\ PrintedInv /\ IndexInv /\ OutsideInv
                  /\ ScanInv /\ TotalsInv /\ WriteInv /\ DocumentInv
                  /\ OrderInv /\ RunInv /\ NumbersInv /\ GroupsInv /\ TotalledInv /\ SuitesInv
<1>1. ReportInit => Inv
  <2>1. ReportInit => TotalledInv /\ SuitesInv
    BY DEF ReportInit, Init, TotalledInv, SuitesInv
  <2> QED
    BY <2>1, InitCalls, InitHistory, InitIndex, InitTypes, InitDocument, InitRun, InitNumbers
<1>2. Inv /\ [Next]_vars => Inv'
  BY CallsInvStep, HistoryStep, PrintedStep, IndexStep, OutsideStep, ScanStep, TotalsStep,
     WriteStep, DocumentStep, RunStep, NumbersStep, GroupsStep, TotalledStep, SuitesStep
<1>3. Inv => JUnitTotals
  <2> SUFFICES ASSUME Inv, pc = "done", config.junit_output_path PROVE JUnitTotals
    BY DEF JUnitTotals
  <2>1. ~broke /\ ~in_test
    BY DEF OutsideInv
  <2>2. Elements({"testsuite"}) = Suites(Len(groups))
    <3>1. Len(groups) = Entered(Len(actions))
      BY <2>1 DEF NumbersInv
    <3> QED
      BY <3>1 DEF SuitesInv, Elements, ElementsOf
  <2>3. document[1].tests = tests_run /\ document[1].failures = tests_run - tests_passed
    <3>1. document[1] = [tag |-> "testsuites", tests |-> current.tests, failures |-> current.failures]
      BY DEF DocumentInv
    <3>2. current.tests = tests_run /\ current.failures = tests_run - tests_passed
      BY DEF TotalledInv
    <3> QED
      BY <3>1, <3>2
  <2>4. tests_run = Len(cases) /\ PassedTo(Len(cases)) = tests_passed
    BY <2>1 DEF RunInv
  <2>5. PassedTo(Len(cases)) = Cardinality({k \in 1..Len(cases) : cases[k].reasons = <<>>})
    <3> DEFINE reasons == [m \in 1..Len(cases) |-> cases[m].reasons]
    <3>1. {k \in 1..Len(cases) : reasons[k] \in {<<>>}} = {k \in 1..Len(cases) : cases[k].reasons = <<>>}
      OBVIOUS
    <3> QED
      BY <3>1 DEF PassedTo, Occurrences
  <2> QED
    BY <2>2, <2>3, <2>4, <2>5 DEF JUnitTotals, Suites, SuiteOf
<1> HIDE DEF Inv
<1> QED
  BY <1>1, <1>2, <1>3, PTL DEF Spec

=============================================================================
