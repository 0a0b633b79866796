---------------------------- MODULE SenTestProofs ----------------------------
(***************************************************************************)
(* Proofs about SenTest and SenTestReport, for all names, messages and     *)
(* filters, any number of groups, tests and failures, and any nesting.     *)
(***************************************************************************)
EXTENDS SenTestReport, SequenceLemmas, FiniteSetTheorems

-----------------------------------------------------------------------------
(* Flags and depth follow the caller's loops.                              *)

\* the caller's loops
Loop == [kind : {"group", "test"}, name : Names, at : {"condition", "body"},
         runs : Nat, number : Nat]

LoopTypes ==
  /\ bodies \in Seq(Loop)
  /\ depth \in Int /\ config \in Configs
  /\ in_test \in BOOLEAN /\ should_exit_group \in BOOLEAN /\ broke \in BOOLEAN

\* how many of the loops are group bodies entered and not yet ended
NumberOpen ==
  IF bodies # <<>> /\ (Innermost.kind = "test" \/ should_exit_group)
  THEN Len(bodies) - 1 ELSE Len(bodies)

\* where the innermost loop can be, and what the flags say of it
InnermostInv ==
  \/ Innermost.kind = "group" /\ Innermost.at = "condition"
       /\ Innermost.runs = (IF should_exit_group THEN 1 ELSE 0) /\ ~in_test
  \/ Innermost.kind = "group" /\ Innermost.at = "body"
       /\ Innermost.runs = 1 /\ ~should_exit_group /\ (in_test => broke)
  \/ Innermost.kind = "test" /\ Innermost.at = "condition" /\ ~should_exit_group
       /\ (Innermost.runs = 0 \/ (Innermost.runs = 1 /\ ~in_test))
  \/ Innermost.kind = "test" /\ Innermost.at = "body"
       /\ Innermost.runs = 1 /\ ~should_exit_group /\ in_test

LoopsInv ==
  /\ LoopTypes
  /\ \A k \in 1..Len(bodies) - 1 :
       bodies[k].kind = "group" /\ bodies[k].at = "body" /\ bodies[k].runs = 1
  /\ bodies # <<>> => InnermostInv
  /\ bodies = <<>> => ~should_exit_group /\ (in_test => broke)
  /\ depth >= NumberOpen /\ (~broke => depth = NumberOpen)

\* what LoopsInv is about
loopVars == <<bodies, depth, config, in_test, should_exit_group, broke>>

\* Steps that leave the loops alone keep it.
LEMMA LoopsStutter ==
  ASSUME LoopsInv, UNCHANGED loopVars
  PROVE  LoopsInv'
  BY DEF LoopsInv, LoopTypes, InnermostInv, Innermost, NumberOpen, loopVars

\* One more loop: the ones around it are bodies of groups.
LEMMA EnterLoops ==
  ASSUME LoopsInv, InBody, ~in_test, in_test' \in BOOLEAN,
         NEW kind \in {"group", "test"}, NEW name \in Names, NEW number \in Nat,
         Enter(kind, name, number),
         kind = "group" => ~in_test', should_exit_group' = FALSE, broke' = broke,
         config' = config,
         depth' = IF kind = "group" THEN depth + 1 ELSE depth
  PROVE  LoopsInv'
<1> DEFINE loop == [kind |-> kind, name |-> name, at |-> "condition", runs |-> 0,
                    number |-> number]
<1>1. loop \in Loop
  BY DEF Loop
<1>2. bodies \in Seq(Loop) /\ Len(bodies) \in Nat
  BY DEF LoopsInv, LoopTypes
<1>3. bodies' = Append(bodies, loop)
  BY DEF Enter
<1>l. loop.kind = kind /\ loop.at = "condition" /\ loop.runs = 0
  OBVIOUS
<1> HIDE DEF loop
<1>4. /\ bodies' \in Seq(Loop) /\ Len(bodies') = Len(bodies) + 1
      /\ bodies'[Len(bodies)+1] = loop
      /\ \A k \in 1..Len(bodies) : bodies'[k] = bodies[k]
  BY <1>1, <1>2, <1>3
<1>5. bodies # <<>> => /\ Innermost.at = "body" /\ Innermost.kind = "group"
                       /\ Innermost.runs = 1 /\ ~should_exit_group
  BY DEF LoopsInv, InnermostInv, InBody
<1>6. \A k \in 1..Len(bodies) :
        bodies'[k].kind = "group" /\ bodies'[k].at = "body" /\ bodies'[k].runs = 1
  <2> TAKE k \in 1..Len(bodies)
  <2>1. CASE k = Len(bodies)
    <3>1. bodies # <<>> /\ bodies'[k] = Innermost
      BY <1>2, <1>4, <2>1 DEF Innermost
    <3> QED
      BY <1>5, <3>1
  <2>2. CASE k # Len(bodies)
    <3>1. k \in 1..Len(bodies) - 1 /\ bodies'[k] = bodies[k]
      BY <1>2, <1>4, <2>2
    <3> QED
      BY <3>1 DEF LoopsInv
  <2> QED
    BY <2>1, <2>2
<1>7. Innermost' = loop /\ bodies' # <<>>
  BY <1>2, <1>4 DEF Innermost
<1>8. InnermostInv'
  BY <1>7, <1>l DEF InnermostInv
<1>9. NumberOpen = Len(bodies)
  BY <1>2, <1>5 DEF NumberOpen, LoopsInv
<1>10. NumberOpen' = IF kind = "group" THEN Len(bodies) + 1 ELSE Len(bodies)
  BY <1>2, <1>4, <1>7, <1>l DEF NumberOpen
<1>11. depth' \in Int /\ depth' >= NumberOpen' /\ (~broke' => depth' = NumberOpen')
  BY <1>2, <1>9, <1>10 DEF LoopsInv, LoopTypes
<1>12. LoopTypes'
  BY <1>4, <1>11 DEF LoopsInv, LoopTypes
<1> QED
  BY <1>2, <1>4, <1>6, <1>7, <1>8, <1>11, <1>12 DEF LoopsInv

\* The innermost loop ends or is left, and a body of a group goes on.
LEMMA OuterLoops ==
  ASSUME LoopsInv, bodies # <<>>, bodies' = Outer, should_exit_group' = FALSE,
         in_test' \in BOOLEAN, in_test' => broke', broke => broke', broke' \in BOOLEAN,
         config' = config, depth' = depth,
         broke' \/ Innermost.kind = "test" \/ should_exit_group
  PROVE  LoopsInv'
<1>1. bodies \in Seq(Loop) /\ Len(bodies) \in Nat /\ Len(bodies) # 0
  BY DEF LoopsInv, LoopTypes
<1>2. /\ bodies' \in Seq(Loop) /\ Len(bodies') = Len(bodies) - 1
      /\ \A k \in 1..Len(bodies) - 1 : bodies'[k] = bodies[k]
  BY <1>1, WithoutLast DEF Outer
<1>3. \A k \in 1..Len(bodies') :
        bodies'[k].kind = "group" /\ bodies'[k].at = "body" /\ bodies'[k].runs = 1
  BY <1>2 DEF LoopsInv
<1>4. bodies' # <<>> => Innermost' = bodies'[Len(bodies')] /\ Len(bodies') \in 1..Len(bodies')
  BY <1>2 DEF Innermost
<1>5. bodies' # <<>> => /\ Innermost'.kind = "group" /\ Innermost'.at = "body"
                        /\ Innermost'.runs = 1
  BY <1>3, <1>4
<1>6. bodies' # <<>> => InnermostInv'
  BY <1>5 DEF InnermostInv
<1>7. NumberOpen' = Len(bodies) - 1
  BY <1>2, <1>5 DEF NumberOpen
<1>8. NumberOpen >= Len(bodies) - 1
  BY <1>1 DEF NumberOpen
<1>9. ~broke' => NumberOpen = Len(bodies) - 1
  BY <1>1 DEF NumberOpen
<1>10. depth' \in Int /\ depth' >= NumberOpen' /\ (~broke' => depth' = NumberOpen')
  <2>1. NumberOpen \in Int /\ NumberOpen' \in Int /\ depth \in Int
    BY <1>1, <1>7 DEF NumberOpen, LoopsInv, LoopTypes
  <2>2. depth >= NumberOpen /\ (~broke => depth = NumberOpen)
    BY DEF LoopsInv
  <2> QED
    BY <1>1, <1>7, <1>8, <1>9, <2>1, <2>2
<1>11. LoopTypes'
  BY <1>2, <1>10 DEF LoopsInv, LoopTypes
<1>12. \A k \in 1..Len(bodies') - 1 :
        bodies'[k].kind = "group" /\ bodies'[k].at = "body" /\ bodies'[k].runs = 1
  BY <1>1, <1>2, <1>3
<1> QED
  BY <1>6, <1>10, <1>11, <1>12 DEF LoopsInv

\* The innermost loop goes on.
LEMMA MoveLoops ==
  ASSUME LoopsInv, bodies # <<>>, NEW loop \in Loop,
         bodies' = [bodies EXCEPT ![Len(bodies)] = loop],
         loop.kind = Innermost.kind, config' = config, broke' = broke,
         should_exit_group' \in BOOLEAN, in_test' \in BOOLEAN,
         InnermostInv',
         Innermost.kind = "group" /\ should_exit_group' /\ ~should_exit_group
           => depth' = depth - 1,
         Innermost.kind # "group" \/ ~should_exit_group' \/ should_exit_group
           => depth' = depth,
         should_exit_group => should_exit_group'
  PROVE  LoopsInv'
<1>1. bodies \in Seq(Loop) /\ Len(bodies) \in Nat /\ Len(bodies) # 0
  BY DEF LoopsInv, LoopTypes
<1>2. /\ bodies' \in Seq(Loop) /\ Len(bodies') = Len(bodies) /\ bodies' # <<>>
      /\ \A k \in 1..Len(bodies) - 1 : bodies'[k] = bodies[k]
      /\ Innermost' = loop
  BY <1>1, ExceptSeq DEF Innermost
<1>3. \A k \in 1..Len(bodies') - 1 :
        bodies'[k].kind = "group" /\ bodies'[k].at = "body" /\ bodies'[k].runs = 1
  BY <1>2 DEF LoopsInv
<1>4. Innermost.kind \in {"group", "test"}
  BY <1>2, <1>1 DEF Innermost, Loop
<1>5. /\ Innermost.kind = "group" /\ should_exit_group' /\ ~should_exit_group
           => NumberOpen' = NumberOpen - 1
      /\ Innermost.kind # "group" \/ ~should_exit_group' \/ should_exit_group
           => NumberOpen' = NumberOpen
  <2>1. Innermost'.kind = Innermost.kind /\ should_exit_group \in BOOLEAN
    BY <1>2 DEF LoopsInv, LoopTypes
  <2>2. CASE Innermost.kind = "test"
    <3>1. Innermost.kind # "group" /\ NumberOpen = Len(bodies) - 1
      BY <2>2 DEF NumberOpen
    <3>2. NumberOpen' = Len(bodies) - 1
      BY <1>2, <2>1, <2>2 DEF NumberOpen
    <3> QED
      BY <1>1, <3>1, <3>2
  <2>3. CASE Innermost.kind = "group"
    <3>1. NumberOpen = IF should_exit_group THEN Len(bodies) - 1 ELSE Len(bodies)
      BY <2>3 DEF NumberOpen
    <3>2. NumberOpen' = IF should_exit_group' THEN Len(bodies) - 1 ELSE Len(bodies)
      BY <1>2, <2>1, <2>3 DEF NumberOpen
    <3> QED
      BY <1>1, <2>1, <2>3, <3>1, <3>2
  <2> QED
    BY <1>4, <2>2, <2>3
<1>6. NumberOpen \in Int /\ depth \in Int
  BY <1>1 DEF NumberOpen, LoopsInv, LoopTypes
<1>7. depth' \in Int /\ depth' >= NumberOpen' /\ (~broke' => depth' = NumberOpen')
  BY <1>5, <1>6 DEF LoopsInv
<1>8. LoopTypes'
  BY <1>2, <1>7 DEF LoopsInv, LoopTypes
<1> QED
  BY <1>2, <1>3, <1>7, <1>8 DEF LoopsInv

\* A group's loop starts.
LEMMA GroupStartLoops ==
  ASSUME LoopsInv, NEW name \in Names, sentest_group_start(name), Len(groups) \in Nat
  PROVE  LoopsInv'
<1>1. Len(groups) + 1 \in Nat /\ "group" \in {"group", "test"} /\ ("group" = "group") = TRUE
  OBVIOUS
<1>2. /\ InBody /\ ~in_test /\ in_test' = in_test /\ in_test' \in BOOLEAN
      /\ Enter("group", name, Len(groups) + 1)
      /\ should_exit_group' = FALSE /\ broke' = broke /\ config' = config
      /\ depth' = depth + 1
  BY DEF sentest_group_start, LoopsInv, LoopTypes
<1> QED
  BY <1>1, <1>2, EnterLoops

\* A test's loop starts, for a test that runs or one that is filtered out.
LEMMA TestStartLoops ==
  ASSUME LoopsInv, NEW name \in Names, NEW number \in Nat,
         InBody, ~in_test, in_test' \in BOOLEAN, Enter("test", name, number),
         UNCHANGED <<config, depth, should_exit_group, broke>>
  PROVE  LoopsInv'
<1>1. should_exit_group' = FALSE
  BY DEF LoopsInv, LoopTypes, InnermostInv, InBody
<1>2. "test" \in {"group", "test"} /\ "test" # "group"
  OBVIOUS
<1> QED
  BY <1>1, <1>2, EnterLoops

\* A group's condition is evaluated: its body runs once.
LEMMA GroupConditionLoops ==
  ASSUME LoopsInv, sentest_group_should_continue
  PROVE  LoopsInv'
<1>1. /\ bodies # <<>> /\ Innermost.kind = "group" /\ Innermost.at = "condition"
      /\ should_exit_group' = FALSE /\ config' = config /\ depth' = depth
      /\ in_test' = in_test /\ broke' = broke
      /\ bodies' = IF should_exit_group THEN Outer
                   ELSE [At("body") EXCEPT ![Len(bodies)].runs = @ + 1]
  BY DEF sentest_group_should_continue, AtCondition, flagVars, trueVars
<1>2. ~in_test /\ Innermost.runs = (IF should_exit_group THEN 1 ELSE 0)
  BY <1>1 DEF LoopsInv, InnermostInv
<1>3. CASE should_exit_group
  BY <1>1, <1>2, <1>3, OuterLoops DEF LoopsInv, LoopTypes
<1>4. CASE ~should_exit_group
  <2> DEFINE loop == [Innermost EXCEPT !.at = "body", !.runs = 1]
  <2>1. bodies \in Seq(Loop) /\ Innermost \in Loop
    BY <1>1 DEF LoopsInv, LoopTypes, Innermost
  <2>2. loop \in Loop /\ loop.kind = "group" /\ loop.at = "body" /\ loop.runs = 1
    BY <1>1, <2>1 DEF Loop
  <2>3. bodies' = [bodies EXCEPT ![Len(bodies)] = loop]
    BY <1>1, <1>2, <1>4, <2>1 DEF At, Innermost, Loop
  <2> HIDE DEF loop
  <2>4. Innermost' = loop
    BY <1>1, <2>1, <2>2, <2>3, ExceptSeq DEF Innermost
  <2>5. InnermostInv'
    BY <1>1, <1>2, <2>2, <2>4 DEF InnermostInv
  <2>6. /\ should_exit_group' \in BOOLEAN /\ in_test' \in BOOLEAN
        /\ ~should_exit_group' /\ depth' = depth
    BY <1>1 DEF LoopsInv, LoopTypes
  <2> QED
    BY <1>1, <1>4, <2>2, <2>3, <2>5, <2>6, MoveLoops
<1> QED
  BY <1>3, <1>4

\* A group ends at the end of its body.
LEMMA GroupEndLoops ==
  ASSUME LoopsInv, sentest_group_end
  PROVE  LoopsInv'
<1>1. /\ bodies # <<>> /\ Innermost.kind = "group" /\ Innermost.at = "body"
      /\ should_exit_group' = TRUE /\ config' = config /\ depth' = depth - 1
      /\ ~in_test /\ in_test' = in_test /\ broke' = broke
      /\ bodies' = At("condition")
  BY DEF sentest_group_end, InBodyOf, InBody, trueVars
<1>2. ~should_exit_group /\ Innermost.runs = 1
  BY <1>1 DEF LoopsInv, InnermostInv
<1> DEFINE loop == [Innermost EXCEPT !.at = "condition"]
<1>3. bodies \in Seq(Loop) /\ Innermost \in Loop
  BY <1>1 DEF LoopsInv, LoopTypes, Innermost
<1>4. loop \in Loop /\ loop.kind = "group" /\ loop.at = "condition" /\ loop.runs = 1
  BY <1>1, <1>2, <1>3 DEF Loop
<1>5. bodies' = [bodies EXCEPT ![Len(bodies)] = loop]
  BY <1>1 DEF At, Innermost
<1> HIDE DEF loop
<1>6. Innermost' = loop
  BY <1>1, <1>3, <1>4, <1>5, ExceptSeq DEF Innermost
<1>7. InnermostInv'
  BY <1>1, <1>4, <1>6 DEF InnermostInv
<1>8. /\ should_exit_group' \in BOOLEAN /\ in_test' \in BOOLEAN
      /\ should_exit_group' /\ depth' = depth - 1
  BY <1>1, <1>2 DEF LoopsInv, LoopTypes
<1> QED
  BY <1>1, <1>2, <1>4, <1>5, <1>7, <1>8, MoveLoops

\* A test's condition is evaluated: its body runs at most once.
LEMMA TestConditionLoops ==
  ASSUME LoopsInv, sentest_test_should_continue
  PROVE  LoopsInv'
<1>1. /\ bodies # <<>> /\ Innermost.kind = "test" /\ Innermost.at = "condition"
      /\ UNCHANGED <<config, depth, in_test, should_exit_group, broke>>
      /\ bodies' = IF in_test THEN [At("body") EXCEPT ![Len(bodies)].runs = @ + 1]
                   ELSE Outer
  BY DEF sentest_test_should_continue, AtCondition, harnessVars, flagVars, trueVars
<1>2. should_exit_group = FALSE /\ (in_test => Innermost.runs = 0)
  BY <1>1 DEF LoopsInv, LoopTypes, InnermostInv
<1>3. CASE ~in_test
  BY <1>1, <1>2, <1>3, OuterLoops DEF LoopsInv, LoopTypes
<1>4. CASE in_test
  <2> DEFINE loop == [Innermost EXCEPT !.at = "body", !.runs = 1]
  <2>1. bodies \in Seq(Loop) /\ Innermost \in Loop
    BY <1>1 DEF LoopsInv, LoopTypes, Innermost
  <2>2. loop \in Loop /\ loop.kind = "test" /\ loop.at = "body" /\ loop.runs = 1
    BY <1>1, <2>1 DEF Loop
  <2>3. bodies' = [bodies EXCEPT ![Len(bodies)] = loop]
    BY <1>1, <1>2, <1>4, <2>1 DEF At, Innermost, Loop
  <2> HIDE DEF loop
  <2>4. Innermost' = loop
    BY <1>1, <2>1, <2>2, <2>3, ExceptSeq DEF Innermost
  <2>5. InnermostInv'
    BY <1>1, <1>2, <1>4, <2>2, <2>4 DEF InnermostInv
  <2>6. "test" # "group"
    OBVIOUS
  <2> QED
    BY <1>1, <1>2, <2>2, <2>3, <2>5, <2>6, MoveLoops DEF LoopsInv, LoopTypes
<1> QED
  BY <1>3, <1>4

\* A test ends at the end of its body.
LEMMA TestEndLoops ==
  ASSUME LoopsInv, sentest_end_internal
  PROVE  LoopsInv'
<1>1. /\ bodies # <<>> /\ Innermost.kind = "test" /\ Innermost.at = "body"
      /\ UNCHANGED <<config, depth, should_exit_group, broke>>
      /\ in_test' = FALSE
      /\ bodies' = At("condition")
  BY DEF sentest_end_internal, InBodyOf, InBody
<1>2. should_exit_group = FALSE /\ Innermost.runs = 1
  BY <1>1 DEF LoopsInv, LoopTypes, InnermostInv
<1> DEFINE loop == [Innermost EXCEPT !.at = "condition"]
<1>3. bodies \in Seq(Loop) /\ Innermost \in Loop
  BY <1>1 DEF LoopsInv, LoopTypes, Innermost
<1>4. loop \in Loop /\ loop.kind = "test" /\ loop.at = "condition" /\ loop.runs = 1
  BY <1>1, <1>2, <1>3 DEF Loop
<1>5. bodies' = [bodies EXCEPT ![Len(bodies)] = loop]
  BY <1>1 DEF At, Innermost
<1> HIDE DEF loop
<1>6. Innermost' = loop
  BY <1>1, <1>3, <1>4, <1>5, ExceptSeq DEF Innermost
<1>7. InnermostInv'
  BY <1>1, <1>2, <1>4, <1>6 DEF InnermostInv
<1>8. "test" # "group"
  OBVIOUS
<1> QED
  BY <1>1, <1>2, <1>4, <1>5, <1>7, <1>8, MoveLoops DEF LoopsInv, LoopTypes

\* The caller leaves a loop by break.
LEMMA BreakLoops ==
  ASSUME LoopsInv, Break
  PROVE  LoopsInv'
<1>1. /\ bodies # <<>> /\ Innermost.at = "body" /\ bodies' = Outer /\ broke' = TRUE
      /\ UNCHANGED <<config, depth, in_test, should_exit_group>>
  BY DEF Break, InBody, harnessVars, flagVars
<1>2. should_exit_group = FALSE
  BY <1>1 DEF LoopsInv, LoopTypes, InnermostInv
<1> QED
  BY <1>1, <1>2, OuterLoops DEF LoopsInv, LoopTypes

-----------------------------------------------------------------------------
(* C strings in buffers.                                                   *)

Characters == STRING \cup {"/", NUL}
PlainStrings == {s \in Seq(Characters) : \A k \in 1..Len(s) : s[k] # NUL}

\* Strings are joined in any order.
LEMMA JoinedTwice ==
  \A x, y, z \in Seq(Characters) : (x \o y) \o z = x \o (y \o z)
BY ConcatAssociative

\* Names and reasons are C strings without a NUL inside.
LEMMA NamesPlain == Names \cup Reasons \subseteq PlainStrings
<1> SUFFICES ASSUME NEW s \in Names \cup Reasons PROVE s \in PlainStrings
  OBVIOUS
<1>1. s \in Seq(STRING) /\ NUL \notin {s[k] : k \in 1..Len(s)}
  BY TestConstants
<1>2. s \in Seq(Characters)
  <2>1. STRING \subseteq Characters
    BY DEF Characters
  <2> QED
    BY <1>1, <2>1, SeqMonotonic
<1> QED
  BY <1>1, <1>2 DEF PlainStrings

\* A C string ends before the first NUL.
LEMMA CStringIs ==
  ASSUME NEW data, Len(data) \in Nat, NEW k \in 1..Len(data), NEW e \in k..Len(data),
         data[e] = NUL, \A f \in k..e-1 : data[f] # NUL
  PROVE  CString(data, k) = SubSeq(data, k, e - 1)
<1> DEFINE Ends(x) == x \in k..Len(data) /\ data[x] = NUL /\ \A f \in k..x-1 : data[f] # NUL
           end == CHOOSE x : Ends(x)
<1>1. Ends(e)
  OBVIOUS
<1>2. Ends(end)
  BY <1>1
<1>3. ASSUME NEW x, Ends(x) PROVE x = e
  <2>1. ~ (x < e)
    <3>1. x < e => x \in k..e-1
      BY <1>3
    <3> QED
      BY <1>3, <3>1
  <2>2. ~ (e < x)
    <3>1. e < x => e \in k..x-1
      BY <1>3
    <3> QED
      BY <1>3, <3>1
  <2> QED
    BY <1>3, <2>1, <2>2
<1>4. end = e
  BY <1>2, <1>3
<1>5. CString(data, k) = SubSeq(data, k, end - 1)
  BY DEF CString
<1> HIDE DEF end
<1> QED
  BY <1>4, <1>5

\* In a buffer that ends with NUL, every string has an end.
LEMMA CStringEnds ==
  ASSUME NEW data, Len(data) \in Nat, NEW k \in 1..Len(data), data[Len(data)] = NUL
  PROVE  \E e \in k..Len(data) : data[e] = NUL /\ \A f \in k..e-1 : data[f] # NUL
<1> DEFINE T == {f \in k..Len(data) : data[f] = NUL}
<1>1. T \in SUBSET Nat /\ T # {}
  <2>1. Len(data) \in T
    OBVIOUS
  <2> QED
    BY <2>1
<1> HIDE DEF T
<1>2. PICK e \in T : \A f \in T : e <= f
  BY <1>1, LeastNatural
<1>3. e \in k..Len(data) /\ data[e] = NUL
  BY DEF T
<1>4. ASSUME NEW f \in k..e-1 PROVE data[f] # NUL
  <2>1. f \in k..Len(data) /\ ~ (e <= f)
    BY <1>3
  <2> QED
    BY <1>2, <2>1 DEF T
<1> QED
  BY <1>3, <1>4

\* What is appended behind a NUL changes no string before it.
LEMMA CStringSame ==
  ASSUME NEW data \in Seq(Characters), NEW more \in Seq(Characters),
         NEW k \in 1..Len(data), data[Len(data)] = NUL
  PROVE  CString(data \o more, k) = CString(data, k)
<1> DEFINE longer == data \o more
<1> Len(data) \in Nat /\ Len(more) \in Nat
  OBVIOUS
<1>1. /\ Len(longer) = Len(data) + Len(more)
      /\ \A f \in 1..Len(data) : longer[f] = data[f]
  BY ConcatProperties
<1>s. longer \in Seq(Characters)
  BY ConcatProperties
<1> HIDE DEF longer
<1>2. PICK e \in k..Len(data) : data[e] = NUL /\ \A f \in k..e-1 : data[f] # NUL
  BY CStringEnds
<1>3. CString(data, k) = SubSeq(data, k, e - 1)
  BY <1>2, CStringIs
<1>4. CString(longer, k) = SubSeq(longer, k, e - 1)
  <2>1. Len(longer) \in Nat /\ k \in 1..Len(longer) /\ e \in k..Len(longer)
    BY <1>1
  <2>2. longer[e] = NUL /\ \A f \in k..e-1 : longer[f] # NUL
    <3>1. e \in 1..Len(data) /\ \A f \in k..e-1 : f \in 1..Len(data)
      BY <1>2
    <3> QED
      BY <1>1, <1>2, <3>1
  <2> QED
    BY <2>1, <2>2, CStringIs
<1>5. SubSeq(longer, k, e - 1) = SubSeq(data, k, e - 1)
  <2>1. k \in Int /\ e - 1 \in Int
    OBVIOUS
  <2>2. \A f \in k..e-1 : longer[f] \in Characters /\ data[f] \in Characters
    BY <1>1
  <2>3. /\ SubSeq(longer, k, e-1) \in Seq(Characters)
        /\ Len(SubSeq(longer, k, e-1)) = IF k <= e - 1 THEN e - 1 - k + 1 ELSE 0
        /\ \A f \in 1..e-1-k+1 : SubSeq(longer, k, e-1)[f] = longer[k+f-1]
    BY <2>1, <2>2, SubSeqProperties
  <2>4. /\ SubSeq(data, k, e-1) \in Seq(Characters)
        /\ Len(SubSeq(data, k, e-1)) = IF k <= e - 1 THEN e - 1 - k + 1 ELSE 0
        /\ \A f \in 1..e-1-k+1 : SubSeq(data, k, e-1)[f] = data[k+f-1]
    BY <2>1, <2>2, SubSeqProperties
  <2>5. \A f \in 1..e-1-k+1 : k + f - 1 \in 1..Len(data)
    OBVIOUS
  <2>6. \A f \in 1..Len(SubSeq(longer, k, e-1)) :
          SubSeq(longer, k, e-1)[f] = SubSeq(data, k, e-1)[f]
    <3>1. \A f \in 1..Len(SubSeq(longer, k, e-1)) : f \in 1..e-1-k+1
      BY <2>3
    <3> QED
      BY <3>1, <2>3, <2>4, <2>5, <1>1
  <2> QED
    BY <2>3, <2>4, <2>6, SeqEqual
<1> QED
  BY <1>3, <1>4, <1>5 DEF longer

\* A string that is appended with its NUL can be read again.
LEMMA CStringNew ==
  ASSUME NEW data \in Seq(Characters), NEW s \in PlainStrings, NEW rest \in Seq(Characters)
  PROVE  CString(data \o s \o <<NUL>> \o rest, Len(data) + 1) = s
<1> DEFINE longer == data \o s \o <<NUL>> \o rest
<1> Len(data) \in Nat /\ Len(rest) \in Nat
  OBVIOUS
<1>1. s \in Seq(Characters) /\ Len(s) \in Nat /\ \A k \in 1..Len(s) : s[k] # NUL
  BY DEF PlainStrings
<1>2. <<NUL>> \in Seq(Characters) /\ Len(<<NUL>>) = 1 /\ <<NUL>>[1] = NUL
  BY DEF Characters
<1>3. /\ data \o s \in Seq(Characters) /\ Len(data \o s) = Len(data) + Len(s)
      /\ \A k \in 1..Len(s) : (data \o s)[Len(data) + k] = s[k]
  BY <1>1, ConcatProperties
<1> DEFINE two == data \o s
<1>4. /\ two \o <<NUL>> \in Seq(Characters)
      /\ Len(two \o <<NUL>>) = Len(data) + Len(s) + 1
      /\ \A k \in 1..Len(two) : (two \o <<NUL>>)[k] = two[k]
      /\ (two \o <<NUL>>)[Len(two) + 1] = NUL
  <2> HIDE DEF two
  <2>1. two \in Seq(Characters) /\ Len(two) = Len(data) + Len(s)
    BY <1>3 DEF two
  <2> QED
    BY <1>2, <2>1
<1> DEFINE three == two \o <<NUL>>
<1>5. /\ Len(three \o rest) = Len(three) + Len(rest)
      /\ \A k \in 1..Len(three) : (three \o rest)[k] = three[k]
  <2> HIDE DEF three
  <2>1. three \in Seq(Characters)
    BY <1>4 DEF three
  <2> QED
    BY <2>1, ConcatProperties
<1>6. Len(longer) = Len(data) + Len(s) + 1 + Len(rest)
  BY <1>4, <1>5
<1>7. \A k \in 1..Len(s) : longer[Len(data) + k] = s[k]
  <2> TAKE k \in 1..Len(s)
  <2>1. Len(data) + k \in 1..Len(two) /\ Len(data) + k \in 1..Len(three)
    BY <1>1, <1>3, <1>4
  <2> QED
    BY <2>1, <1>3, <1>4, <1>5
<1>8. longer[Len(data) + Len(s) + 1] = NUL
  <2>1. Len(data) + Len(s) + 1 \in 1..Len(three)
    BY <1>1, <1>4
  <2> QED
    BY <2>1, <1>3, <1>4, <1>5
<1> HIDE DEF longer, two, three
<1> DEFINE k == Len(data) + 1
           e == Len(data) + Len(s) + 1
<1>9. Len(longer) \in Nat /\ k \in 1..Len(longer) /\ e \in k..Len(longer)
  BY <1>1, <1>6
<1>10. \A f \in k..e-1 : longer[f] # NUL
  <2> TAKE f \in k..e-1
  <2>1. f - Len(data) \in 1..Len(s) /\ Len(data) + (f - Len(data)) = f
    BY <1>1
  <2> QED
    BY <1>1, <1>7, <2>1
<1>11. CString(longer, k) = SubSeq(longer, k, e - 1)
  BY <1>8, <1>9, <1>10, CStringIs
<1>12. SubSeq(longer, k, e - 1) = s
  <2>1. \A f \in k..e-1 : longer[f] \in Characters
    <3> TAKE f \in k..e-1
    <3>1. f - Len(data) \in 1..Len(s) /\ Len(data) + (f - Len(data)) = f
      BY <1>1
    <3>2. longer[f] = s[f - Len(data)]
      BY <1>7, <3>1
    <3>3. s[f - Len(data)] \in Characters
      BY <1>1, <3>1, ElementOfSeq
    <3> QED
      BY <3>2, <3>3
  <2>2. k \in Int /\ e - 1 \in Int /\ e - 1 - k + 1 = Len(s)
    BY <1>1
  <2>3. /\ SubSeq(longer, k, e-1) \in Seq(Characters)
        /\ Len(SubSeq(longer, k, e-1)) = IF k <= e - 1 THEN e - 1 - k + 1 ELSE 0
        /\ \A f \in 1..e-1-k+1 : SubSeq(longer, k, e-1)[f] = longer[k+f-1]
    BY <2>1, <2>2, SubSeqProperties
  <2>4. Len(SubSeq(longer, k, e-1)) = Len(s)
    BY <1>1, <2>2, <2>3
  <2>5. \A f \in 1..Len(s) : SubSeq(longer, k, e-1)[f] = s[f]
    <3>1. \A f \in 1..Len(s) : k + f - 1 = Len(data) + f
      BY <1>1
    <3> QED
      BY <1>7, <2>2, <2>3, <3>1
  <2> QED
    BY <1>1, <2>3, <2>4, <2>5, SeqEqual
<1> QED
  BY <1>11, <1>12 DEF longer, two, three

-----------------------------------------------------------------------------
(* The record: its strings are found again by counting.                    *)

Enters   == {"GROUP_ENTER", "TEST_ENTER"}
Leaves   == {"GROUP_LEAVE", "TEST_LEAVE"}
Stringed == Enters \cup {"TEST_FAIL"}

\* the string that belongs to the k-th action of a record
TextOf(acts, text, starts, k) == CString(text, starts[Occurrences(acts, Stringed, k)])
Text(k) == TextOf(actions, strs, str_starts, k)

RecordInv ==
  /\ actions \in Seq(Kinds)
  /\ strs \in Seq(Characters) /\ strs # <<>> /\ strs[Len(strs)] = NUL
  /\ str_starts \in Seq(1..Len(strs))
  /\ Len(str_starts) = Occurrences(actions, Stringed, Len(actions))
  /\ \A n \in 1..Len(str_starts) : CString(strs, str_starts[n]) \in Names \cup Reasons

\* the record grows by an action, and what it says of the others stays
Logged(kind) ==
  /\ actions' = Append(actions, kind)
  /\ \A k \in 1..Len(actions) : actions[k] \in Stringed => Text(k)' = Text(k)

\* Steps that leave the record alone keep it, and its strings.
LEMMA RecordStutter ==
  ASSUME RecordInv, UNCHANGED recordVars
  PROVE  RecordInv' /\ \A k : Text(k)' = Text(k)
  BY DEF RecordInv, recordVars, Text

\* Every string recorded has its index.
LEMMA StringIndex ==
  ASSUME RecordInv, NEW k \in 1..Len(actions), actions[k] \in Stringed
  PROVE  Occurrences(actions, Stringed, k) \in 1..Len(str_starts)
<1>1. Len(actions) \in Nat /\ k \in 0..Len(actions) /\ k # 0
  BY DEF RecordInv
<1>2. Occurrences(actions, Stringed, k) \in 1..Occurrences(actions, Stringed, Len(actions))
  BY <1>1, OccurrencesGrow
<1> QED
  BY <1>2 DEF RecordInv

\* The string of an action is one the caller gave.
LEMMA TextKnown ==
  ASSUME RecordInv, NEW k \in 1..Len(actions), actions[k] \in Stringed
  PROVE  Text(k) \in Names \cup Reasons /\ Text(k) \in PlainStrings
<1>1. Text(k) \in Names \cup Reasons
  BY StringIndex DEF RecordInv, Text, TextOf
<1> QED
  BY <1>1, NamesPlain

\* Counting in the record, when it has grown by one.
LEMMA CountLogged ==
  ASSUME NEW T, actions \in Seq(Kinds), NEW kind \in Kinds, actions' = Append(actions, kind)
  PROVE  /\ Len(actions') = Len(actions) + 1 /\ actions' \in Seq(Kinds)
         /\ \A k \in 1..Len(actions) : actions'[k] = actions[k]
         /\ actions'[Len(actions) + 1] = kind
         /\ \A k \in 0..Len(actions) :
              Occurrences(actions', T, k) = Occurrences(actions, T, k)
         /\ Occurrences(actions, T, Len(actions)) \in Nat
         /\ kind \in T => Occurrences(actions', T, Len(actions) + 1)
                            = Occurrences(actions, T, Len(actions)) + 1
         /\ kind \notin T => Occurrences(actions', T, Len(actions) + 1)
                               = Occurrences(actions, T, Len(actions))
<1>1. /\ Len(actions) \in Nat /\ Len(actions') = Len(actions) + 1 /\ actions' \in Seq(Kinds)
      /\ \A k \in 1..Len(actions) : actions'[k] = actions[k]
      /\ actions'[Len(actions) + 1] = kind
  OBVIOUS
<1>2. ASSUME NEW k \in 0..Len(actions)
      PROVE  Occurrences(actions', T, k) = Occurrences(actions, T, k)
  <2>1. k \in Nat /\ \A j \in 1..k : actions'[j] = actions[j]
    BY <1>1
  <2> QED
    BY <2>1, OccurrencesSame
<1>3. /\ Occurrences(actions', T, Len(actions)) \in Nat
      /\ actions'[Len(actions) + 1] \in T
           => Occurrences(actions', T, Len(actions) + 1)
                = Occurrences(actions', T, Len(actions)) + 1
      /\ actions'[Len(actions) + 1] \notin T
           => Occurrences(actions', T, Len(actions) + 1)
                = Occurrences(actions', T, Len(actions))
  BY <1>1, OccurrencesStep
<1>4. Occurrences(actions', T, Len(actions)) = Occurrences(actions, T, Len(actions))
  BY <1>1, <1>2
<1> QED
  BY <1>1, <1>2, <1>3, <1>4

\* A group or test is entered or an assert fails.
LEMMA RecordKept ==
  ASSUME RecordInv, NEW kind \in Stringed, NEW string \in Names \cup Reasons,
         Record(kind, string)
  PROVE  /\ RecordInv' /\ Logged(kind)
         /\ TextOf(actions', strs', str_starts', Len(actions) + 1) = string
<1> DEFINE n == Len(str_starts)
<1>1. /\ actions' = Append(actions, kind)
      /\ str_starts' = Append(str_starts, Len(strs) + 1)
      /\ strs' = strs \o string \o <<NUL>>
  BY DEF Record
<1>2. /\ kind \in Kinds /\ actions \in Seq(Kinds) /\ Len(actions) \in Nat
      /\ strs \in Seq(Characters) /\ Len(strs) \in Nat /\ Len(strs) # 0
      /\ strs[Len(strs)] = NUL
      /\ str_starts \in Seq(1..Len(strs)) /\ n \in Nat
  BY DEF RecordInv, Stringed, Enters, Kinds
<1>3. /\ string \in PlainStrings /\ string \in Seq(Characters) /\ Len(string) \in Nat
      /\ <<NUL>> \in Seq(Characters) /\ Len(<<NUL>>) = 1 /\ <<NUL>>[1] = NUL
      /\ <<>> \in Seq(Characters)
  BY NamesPlain DEF PlainStrings, Characters
<1>4. /\ string \o <<NUL>> \in Seq(Characters)
      /\ strs' = strs \o (string \o <<NUL>>)
      /\ strs \o string \in Seq(Characters) /\ Len(strs \o string) = Len(strs) + Len(string)
  <2>1. string \o <<NUL>> \in Seq(Characters)
    BY <1>3, ConcatProperties
  <2>2. strs' = strs \o (string \o <<NUL>>)
    BY <1>1, <1>2, <1>3, JoinedTwice
  <2>3. strs \o string \in Seq(Characters) /\ Len(strs \o string) = Len(strs) + Len(string)
    BY <1>2, <1>3, ConcatProperties
  <2> QED
    BY <2>1, <2>2, <2>3
<1>5. /\ strs' \in Seq(Characters) /\ Len(strs') = Len(strs) + Len(string) + 1
      /\ strs'[Len(strs')] = NUL
  <2> DEFINE long == strs \o string
  <2> HIDE DEF long
  <2>1. /\ long \o <<NUL>> \in Seq(Characters) /\ Len(long \o <<NUL>>) = Len(long) + 1
        /\ (long \o <<NUL>>)[Len(long) + 1] = NUL
    BY <1>3, <1>4 DEF long
  <2> QED
    BY <2>1, <1>1, <1>4 DEF long
<1>6. \A k \in 1..Len(strs) : CString(strs', k) = CString(strs, k)
  BY <1>2, <1>4, CStringSame
<1>7. CString(strs', Len(strs) + 1) = string
  <2> DEFINE rest == <<>>
  <2>1. strs' = strs \o string \o <<NUL>> \o rest /\ rest \in Seq(Characters)
    BY <1>1, <1>5, ConcatEmptySeq
  <2> HIDE DEF rest
  <2>2. CString(strs \o string \o <<NUL>> \o rest, Len(strs) + 1) = string
    BY <2>1, <1>2, <1>3, CStringNew
  <2> QED
    BY <2>1, <2>2
<1>8. /\ Len(str_starts') = n + 1 /\ str_starts' \in Seq(1..Len(strs'))
      /\ \A k \in 1..n : str_starts'[k] = str_starts[k] /\ str_starts[k] \in 1..Len(strs)
      /\ str_starts'[n + 1] = Len(strs) + 1
  <2>1. 1..Len(strs) \subseteq 1..Len(strs') /\ Len(strs) + 1 \in 1..Len(strs')
    BY <1>2, <1>3, <1>5
  <2>2. str_starts \in Seq(1..Len(strs'))
    BY <1>2, <2>1, SeqMonotonic
  <2>3. str_starts' \in Seq(1..Len(strs'))
    BY <2>1, <2>2, <1>1
  <2>4. /\ Len(str_starts') = n + 1
        /\ \A k \in 1..n : str_starts'[k] = str_starts[k]
        /\ str_starts'[n + 1] = Len(strs) + 1
    BY <1>1, <1>2
  <2>5. \A k \in 1..n : str_starts[k] \in 1..Len(strs)
    BY <1>2, ElementOfSeq
  <2> QED
    BY <2>3, <2>4, <2>5
<1>9. /\ Len(actions') = Len(actions) + 1 /\ actions' \in Seq(Kinds)
      /\ \A k \in 1..Len(actions) : actions'[k] = actions[k]
      /\ \A k \in 0..Len(actions) :
           Occurrences(actions', Stringed, k) = Occurrences(actions, Stringed, k)
      /\ Occurrences(actions', Stringed, Len(actions) + 1) = n + 1
  <2>1. Occurrences(actions, Stringed, Len(actions)) = n
    BY DEF RecordInv
  <2> QED
    BY <1>1, <1>2, <2>1, CountLogged
<1>10. \A m \in 1..n : CString(strs', str_starts'[m]) = CString(strs, str_starts[m])
  BY <1>6, <1>8
<1>11. \A m \in 1..n+1 : CString(strs', str_starts'[m]) \in Names \cup Reasons
  <2> TAKE m \in 1..n+1
  <2>1. CASE m = n + 1
    BY <2>1, <1>7, <1>8
  <2>2. CASE m # n + 1
    <3>1. m \in 1..n
      BY <1>2, <2>2
    <3> QED
      BY <3>1, <1>10 DEF RecordInv
  <2> QED
    BY <2>1, <2>2
<1>12. RecordInv'
  <2>1. strs' # <<>> /\ Len(str_starts') = Occurrences(actions', Stringed, Len(actions'))
    BY <1>2, <1>3, <1>5, <1>8, <1>9
  <2> QED
    BY <2>1, <1>5, <1>8, <1>9, <1>11 DEF RecordInv
<1>13. Logged(kind)
  <2>1. ASSUME NEW k \in 1..Len(actions), actions[k] \in Stringed PROVE Text(k)' = Text(k)
    <3> DEFINE m == Occurrences(actions, Stringed, k)
    <3>1. m \in 1..n
      BY <2>1, StringIndex
    <3>2. Occurrences(actions', Stringed, k) = m
      BY <1>9
    <3> HIDE DEF m
    <3>3. Text(k) = CString(strs, str_starts[m])
      BY DEF Text, TextOf, m
    <3>4. Text(k)' = CString(strs', str_starts'[m])
      BY <3>2 DEF Text, TextOf
    <3> QED
      BY <3>1, <3>3, <3>4, <1>10
  <2> QED
    BY <1>1, <2>1 DEF Logged
<1> QED
  BY <1>7, <1>8, <1>9, <1>12, <1>13 DEF TextOf

\* A group or test is left.
LEMMA RecordLeft ==
  ASSUME RecordInv, NEW kind \in Leaves, RecordLeave(kind)
  PROVE  RecordInv' /\ Logged(kind)
<1>1. actions' = Append(actions, kind) /\ UNCHANGED <<strs, str_starts>>
  BY DEF RecordLeave
<1>2. kind \in Kinds /\ kind \notin Stringed /\ actions \in Seq(Kinds)
  BY DEF RecordInv, Leaves, Stringed, Enters, Kinds
<1>3. /\ Len(actions') = Len(actions) + 1 /\ actions' \in Seq(Kinds)
      /\ \A k \in 0..Len(actions) :
           Occurrences(actions', Stringed, k) = Occurrences(actions, Stringed, k)
      /\ Occurrences(actions', Stringed, Len(actions) + 1) =
           Occurrences(actions, Stringed, Len(actions))
  BY <1>1, <1>2, CountLogged
<1>4. RecordInv'
  BY <1>1, <1>3 DEF RecordInv
<1>5. ASSUME NEW k \in 1..Len(actions) PROVE Text(k)' = Text(k)
  <2>1. Occurrences(actions', Stringed, k) = Occurrences(actions, Stringed, k)
    BY <1>3
  <2> QED
    BY <1>1, <2>1 DEF Text, TextOf
<1> QED
  BY <1>1, <1>4, <1>5 DEF Logged

-----------------------------------------------------------------------------
(* The caller's own account: groups, cases and skipped.                    *)

Total   == [name : Names, tests : Nat, failures : Nat]
Case    == [groups : Seq(Names), name : Names, reasons : Seq(Reasons)]
Skipped == [groups : Seq(Names), name : Names]

Failed(k) == cases[k].reasons # <<>>
SomeFailed == \E k \in 1..Len(cases) : Failed(k)
FailRecorded == \E k \in 1..Len(actions) : actions[k] = "TEST_FAIL"

\* A failure is on record exactly if a claim of the caller did not hold.
AccountInv ==
  /\ groups \in Seq(Total) /\ cases \in Seq(Case) /\ skipped \in Seq(Skipped)
  /\ in_test => cases # <<>>
  /\ SomeFailed <=> FailRecorded

\* Steps that add neither tests nor failures keep the account.
LEMMA AccountStutter ==
  ASSUME AccountInv, groups' \in Seq(Total), skipped' \in Seq(Skipped),
         UNCHANGED <<cases, actions>>, in_test' => in_test
  PROVE  AccountInv'
  BY DEF AccountInv, SomeFailed, FailRecorded, Failed

\* an action that is no failure
LEMMA AccountLogged ==
  ASSUME AccountInv, RecordInv, NEW kind \in Kinds \ {"TEST_FAIL"}, Logged(kind),
         groups' \in Seq(Total), UNCHANGED skipped,
         \/ UNCHANGED cases /\ (in_test' => in_test)
         \/ \E new \in Case : cases' = Append(cases, new) /\ new.reasons = <<>>
  PROVE  AccountInv'
<1>1. actions \in Seq(Kinds) /\ actions' = Append(actions, kind) /\ kind # "TEST_FAIL"
  BY DEF RecordInv, Logged
<1>2. /\ Len(actions) \in Nat /\ Len(actions') = Len(actions) + 1
      /\ \A k \in 1..Len(actions) : actions'[k] = actions[k]
      /\ actions'[Len(actions) + 1] = kind
  BY <1>1
<1>3. FailRecorded' <=> FailRecorded
  <2>1. ASSUME NEW k \in 1..Len(actions'), actions'[k] = "TEST_FAIL" PROVE FailRecorded
    <3>1. k # Len(actions) + 1
      BY <1>1, <1>2, <2>1
    <3>2. k \in 1..Len(actions) /\ actions[k] = "TEST_FAIL"
      BY <1>2, <2>1, <3>1
    <3> QED
      BY <3>2 DEF FailRecorded
  <2>2. ASSUME NEW k \in 1..Len(actions), actions[k] = "TEST_FAIL" PROVE FailRecorded'
    <3>1. k \in 1..Len(actions') /\ actions'[k] = "TEST_FAIL"
      BY <1>2, <2>2
    <3> QED
      BY <3>1 DEF FailRecorded
  <2> QED
    BY <2>1, <2>2 DEF FailRecorded
<1>4. cases \in Seq(Case)
  BY DEF AccountInv
<1>5. CASE UNCHANGED cases /\ (in_test' => in_test)
  BY <1>3, <1>5 DEF AccountInv, SomeFailed, Failed
<1>6. ASSUME NEW new \in Case, cases' = Append(cases, new), new.reasons = <<>>
      PROVE  AccountInv'
  <2>1. /\ Len(cases) \in Nat /\ Len(cases') = Len(cases) + 1 /\ cases' \in Seq(Case)
        /\ \A k \in 1..Len(cases) : cases'[k] = cases[k]
        /\ cases'[Len(cases) + 1] = new
    BY <1>4, <1>6
  <2>2. SomeFailed' <=> SomeFailed
    <3>1. ASSUME NEW k \in 1..Len(cases'), Failed(k)' PROVE SomeFailed
      <4>1. k # Len(cases) + 1
        BY <1>6, <2>1, <3>1 DEF Failed
      <4>2. k \in 1..Len(cases) /\ Failed(k)
        BY <2>1, <3>1, <4>1 DEF Failed
      <4> QED
        BY <4>2 DEF SomeFailed
    <3>2. ASSUME NEW k \in 1..Len(cases), Failed(k) PROVE SomeFailed'
      <4>1. k \in 1..Len(cases') /\ Failed(k)'
        BY <2>1, <3>2 DEF Failed
      <4> QED
        BY <4>1 DEF SomeFailed
    <3> QED
      BY <3>1, <3>2 DEF SomeFailed
  <2>3. cases' # <<>>
    BY <2>1
  <2> QED
    BY <1>3, <2>1, <2>2, <2>3 DEF AccountInv
<1> QED
  BY <1>5, <1>6

\* The library's tests agree with what was claimed: a failure is recorded exactly
\* for the assertions whose claim does not hold.
LEMMA FailsUnlessHolds ==
  ASSUME NEW assertion \in Assertions, NEW condition \in BOOLEAN
  PROVE  AssertFails(assertion, condition) <=> ~ClaimHolds(assertion, condition)
  BY DEF Assertions, AssertFails, ClaimHolds

\* An assertion that fails is recorded, and its test has failed.
LEMMA AssertionAccount ==
  ASSUME AccountInv, RecordInv, NEW assertion \in Assertions, NEW condition \in BOOLEAN,
         NEW reason \in Reasons, MakeAssertion(assertion, condition, reason)
  PROVE  AccountInv'
<1>1. CASE AssertFails(assertion, condition)
  <2>1. /\ Record("TEST_FAIL", reason) /\ in_test /\ in_test' = in_test
        /\ UNCHANGED <<groups, skipped>>
        /\ cases' = [cases EXCEPT ![Len(cases)].reasons = Append(@, reason)]
    BY <1>1, FailsUnlessHolds DEF MakeAssertion, sentest_fail_with
  <2> DEFINE last == [cases[Len(cases)] EXCEPT !.reasons = Append(@, reason)]
  <2>2. cases \in Seq(Case) /\ Len(cases) \in Nat /\ Len(cases) # 0
    BY <2>1 DEF AccountInv
  <2>3. cases[Len(cases)] \in Case
    BY <2>2
  <2>4. last \in Case /\ last.reasons # <<>>
    <3> DEFINE longer == Append(cases[Len(cases)].reasons, reason)
    <3>1. longer \in Seq(Reasons) /\ longer # <<>>
      <4>1. cases[Len(cases)].reasons \in Seq(Reasons)
        BY <2>3 DEF Case
      <4> QED
        BY <4>1
    <3>2. last = [cases[Len(cases)] EXCEPT !.reasons = longer]
      OBVIOUS
    <3> HIDE DEF longer, last
    <3> QED
      BY <2>3, <3>1, <3>2 DEF Case
  <2>5. cases' = [cases EXCEPT ![Len(cases)] = last]
    BY <2>1
  <2> HIDE DEF last
  <2>6. cases' \in Seq(Case) /\ Len(cases') = Len(cases) /\ cases'[Len(cases)] = last
    BY <2>2, <2>4, <2>5, ExceptSeq
  <2>7. SomeFailed'
    BY <2>2, <2>4, <2>6 DEF SomeFailed, Failed
  <2>8. FailRecorded'
    <3>1. actions' = Append(actions, "TEST_FAIL") /\ actions \in Seq(Kinds)
      BY <2>1 DEF Record, RecordInv
    <3>2. Len(actions') \in 1..Len(actions') /\ actions'[Len(actions')] = "TEST_FAIL"
      BY <3>1 DEF Kinds
    <3> QED
      BY <3>2 DEF FailRecorded
  <2>9. cases' # <<>>
    BY <2>2, <2>6
  <2> QED
    BY <2>1, <2>6, <2>7, <2>8, <2>9 DEF AccountInv
<1>2. CASE ~AssertFails(assertion, condition)
  <2>1. UNCHANGED <<groups, skipped, cases, actions, in_test>>
    BY <1>2, FailsUnlessHolds DEF MakeAssertion, recordVars
  <2> QED
    BY <2>1, AccountStutter DEF AccountInv
<1> QED
  BY <1>1, <1>2

\* The totals of the groups keep their types when a test ends.
LEMMA TestEndTotals ==
  ASSUME AccountInv, NEW failures \in Nat
  PROVE  Totals(failures) \in Seq(Total)
<1>1. groups \in Seq(Total) /\ Len(groups) \in Nat
  BY DEF AccountInv
<1> DEFINE around == {bodies[k].number : k \in 1..Len(bodies) - 1}
           after(g) == IF g \in around
                       THEN [groups[g] EXCEPT !.tests = @ + 1, !.failures = @ + failures]
                       ELSE groups[g]
<1>2. ASSUME NEW g \in 1..Len(groups) PROVE after(g) \in Total
  <2>1. groups[g] \in Total
    BY <1>1
  <2>2. groups[g].tests + 1 \in Nat /\ groups[g].failures + failures \in Nat
    BY <2>1 DEF Total
  <2>3. \A t, f \in Nat : [groups[g] EXCEPT !.tests = t, !.failures = f] \in Total
    BY <2>1 DEF Total
  <2>4. [groups[g] EXCEPT !.tests = @ + 1, !.failures = @ + failures]
          = [groups[g] EXCEPT !.tests = groups[g].tests + 1,
                              !.failures = groups[g].failures + failures]
    BY <2>1 DEF Total
  <2> HIDE DEF around
  <2>5. [groups[g] EXCEPT !.tests = @ + 1, !.failures = @ + failures] \in Total
    BY <2>2, <2>3, <2>4
  <2> QED
    BY <2>1, <2>5
<1>3. Totals(failures) = [g \in 1..Len(groups) |-> after(g)]
  BY DEF Totals
<1> HIDE DEF after
<1> QED
  BY <1>1, <1>2, <1>3

\* The names of the open loops.
LEMMA OpenNamesTyped ==
  ASSUME LoopsInv
  PROVE  OpenNames \in Seq(Names) /\ Len(OpenNames) = Len(bodies)
         /\ \A k \in 1..Len(bodies) : OpenNames[k] = bodies[k].name
<1>1. bodies \in Seq(Loop) /\ Len(bodies) \in Nat
  BY DEF LoopsInv, LoopTypes
<1>2. \A k \in 1..Len(bodies) : bodies[k].name \in Names
  <2> TAKE k \in 1..Len(bodies)
  <2>1. bodies[k] \in Loop
    BY <1>1
  <2> QED
    BY <2>1 DEF Loop
<1> QED
  BY <1>1, <1>2 DEF OpenNames

\* Calls that record no failure, each with what it records.
LEMMA GroupStartAccount ==
  ASSUME AccountInv, LoopsInv, RecordInv, NEW name \in Names, sentest_group_start(name)
  PROVE  AccountInv' /\ RecordInv' /\ Logged("GROUP_ENTER")
         /\ TextOf(actions', strs', str_starts', Len(actions) + 1) = name
<1>1. /\ Record("GROUP_ENTER", name) /\ UNCHANGED <<skipped, cases, in_test>>
      /\ groups' = Append(groups, [name |-> name, tests |-> 0, failures |-> 0])
  BY DEF sentest_group_start
<1>2. "GROUP_ENTER" \in Stringed /\ "GROUP_ENTER" \in Kinds \ {"TEST_FAIL"}
      /\ name \in Names \cup Reasons
  BY DEF Stringed, Enters, Kinds
<1>3. /\ RecordInv' /\ Logged("GROUP_ENTER")
      /\ TextOf(actions', strs', str_starts', Len(actions) + 1) = name
  BY <1>1, <1>2, RecordKept
<1>4. groups' \in Seq(Total)
  <2>1. [name |-> name, tests |-> 0, failures |-> 0] \in Total
    BY DEF Total
  <2> QED
    BY <1>1, <2>1 DEF AccountInv
<1>5. AccountInv'
  BY <1>1, <1>2, <1>3, <1>4, AccountLogged
<1> QED
  BY <1>3, <1>5

\* The start of a test,
LEMMA TestStartAccount ==
  ASSUME AccountInv, LoopsInv, RecordInv, NEW name \in Names, TestStart(name)
  PROVE  AccountInv' /\ RecordInv' /\ Logged("TEST_ENTER")
         /\ TextOf(actions', strs', str_starts', Len(actions) + 1) = name
<1> DEFINE new == [groups |-> OpenNames, name |-> name, reasons |-> <<>>]
<1>1. /\ Record("TEST_ENTER", name) /\ UNCHANGED <<skipped, groups>>
      /\ cases' = Append(cases, new)
  BY DEF TestStart
<1>2. "TEST_ENTER" \in Stringed /\ "TEST_ENTER" \in Kinds \ {"TEST_FAIL"}
      /\ name \in Names \cup Reasons
  BY DEF Stringed, Enters, Kinds
<1>3. /\ RecordInv' /\ Logged("TEST_ENTER")
      /\ TextOf(actions', strs', str_starts', Len(actions) + 1) = name
  BY <1>1, <1>2, RecordKept
<1>4. new \in Case /\ new.reasons = <<>>
  BY OpenNamesTyped DEF Case
<1> HIDE DEF new
<1>5. groups' \in Seq(Total)
  BY <1>1 DEF AccountInv
<1>6. AccountInv'
  BY <1>1, <1>2, <1>3, <1>4, <1>5, AccountLogged
<1> QED
  BY <1>3, <1>6

\* a test that is filtered out,
LEMMA TestSkippedAccount ==
  ASSUME AccountInv, LoopsInv, RecordInv, NEW name \in Names, TestSkipped(name)
  PROVE  AccountInv' /\ RecordInv'
<1>1. /\ UNCHANGED recordVars /\ UNCHANGED <<groups, cases, in_test>>
      /\ skipped' = Append(skipped, [groups |-> OpenNames, name |-> name])
  BY DEF TestSkipped, flagVars
<1>2. skipped' \in Seq(Skipped)
  <2>1. [groups |-> OpenNames, name |-> name] \in Skipped
    BY OpenNamesTyped DEF Skipped
  <2> QED
    BY <1>1, <2>1 DEF AccountInv
<1>3. AccountInv'
  BY <1>1, <1>2, AccountStutter DEF AccountInv, recordVars
<1> QED
  BY <1>1, <1>3, RecordStutter

\* the end of a group,
LEMMA GroupEndAccount ==
  ASSUME AccountInv, LoopsInv, RecordInv, sentest_group_end
  PROVE  AccountInv' /\ RecordInv' /\ Logged("GROUP_LEAVE")
<1>1. RecordLeave("GROUP_LEAVE") /\ UNCHANGED <<groups, cases, skipped, in_test>>
  BY DEF sentest_group_end, trueVars
<1>2. "GROUP_LEAVE" \in Leaves /\ "GROUP_LEAVE" \in Kinds \ {"TEST_FAIL"}
  BY DEF Leaves, Kinds
<1>3. RecordInv' /\ Logged("GROUP_LEAVE")
  BY <1>1, <1>2, RecordLeft
<1>4. AccountInv'
  BY <1>1, <1>2, <1>3, AccountLogged DEF AccountInv
<1> QED
  BY <1>3, <1>4

\* and the end of a test.
LEMMA TestEndAccount ==
  ASSUME AccountInv, LoopsInv, RecordInv, sentest_end_internal
  PROVE  AccountInv' /\ RecordInv' /\ Logged("TEST_LEAVE")
<1>1. /\ RecordLeave("TEST_LEAVE") /\ UNCHANGED <<cases, skipped>> /\ in_test' = FALSE
      /\ groups' = Totals(IF cases[Innermost.number].reasons = <<>> THEN 0 ELSE 1)
  BY DEF sentest_end_internal
<1>2. "TEST_LEAVE" \in Leaves /\ "TEST_LEAVE" \in Kinds \ {"TEST_FAIL"}
  BY DEF Leaves, Kinds
<1>3. RecordInv' /\ Logged("TEST_LEAVE")
  BY <1>1, <1>2, RecordLeft
<1>4. groups' \in Seq(Total)
  BY <1>1, TestEndTotals
<1>5. AccountInv'
  BY <1>1, <1>2, <1>3, <1>4, AccountLogged
<1> QED
  BY <1>3, <1>5

\* An assertion records its reason exactly if its claim does not hold.
LEMMA AssertionRecord ==
  ASSUME RecordInv, NEW assertion \in Assertions, NEW condition \in BOOLEAN,
         NEW reason \in Reasons, MakeAssertion(assertion, condition, reason)
  PROVE  /\ RecordInv'
         /\ \/ UNCHANGED <<recordVars, cases, current_failed>> /\ ClaimHolds(assertion, condition)
            \/ /\ Logged("TEST_FAIL") /\ ~ClaimHolds(assertion, condition)
               /\ TextOf(actions', strs', str_starts', Len(actions) + 1) = reason
<1>1. CASE AssertFails(assertion, condition)
  <2>1. Record("TEST_FAIL", reason) /\ "TEST_FAIL" \in Stringed
        /\ reason \in Names \cup Reasons
    BY <1>1 DEF MakeAssertion, sentest_fail_with, Stringed
  <2> QED
    BY <1>1, <2>1, RecordKept, FailsUnlessHolds
<1>2. CASE ~AssertFails(assertion, condition)
  <2>1. UNCHANGED <<recordVars, cases, current_failed>> /\ ClaimHolds(assertion, condition)
    BY <1>2, FailsUnlessHolds DEF MakeAssertion
  <2>2. UNCHANGED recordVars
    BY <2>1
  <2> QED
    BY <2>1, <2>2, RecordStutter
<1> QED
  BY <1>1, <1>2

-----------------------------------------------------------------------------
(* The calls, together.                                                    *)

CallsInv == LoopsInv /\ RecordInv /\ AccountInv

\* what sentest_finish only reads
callerVars == <<config, bodies, depth, counterVars, recordVars, flagVars, trueVars>>

\* Steps that change nothing of the callers' keep their invariants.
LEMMA CallsInvStutter ==
  ASSUME CallsInv, UNCHANGED callerVars
  PROVE  CallsInv'
<1>1. UNCHANGED loopVars /\ UNCHANGED recordVars /\ UNCHANGED <<groups, cases, skipped, actions, in_test>>
  BY DEF callerVars, loopVars, recordVars, flagVars, trueVars
<1>2. LoopsInv'
  BY <1>1, LoopsStutter DEF CallsInv
<1>3. RecordInv'
  BY <1>1, RecordStutter DEF CallsInv
<1>4. AccountInv'
  BY <1>1, AccountStutter DEF CallsInv, AccountInv
<1> QED
  BY <1>2, <1>3, <1>4 DEF CallsInv

\* Every call keeps the loops, the record and the account.
LEMMA CallsKeepInv ==
  ASSUME CallsInv, Calls
  PROVE  CallsInv'
<1> LoopsInv /\ RecordInv /\ AccountInv
  BY DEF CallsInv
<1>0. Len(groups) \in Nat /\ Len(cases) \in Nat
  BY DEF AccountInv
<1>1. ASSUME NEW name \in Names, sentest_group_start(name) PROVE CallsInv'
  BY <1>0, <1>1, GroupStartLoops, GroupStartAccount DEF CallsInv
<1>2. ASSUME NEW name \in Names, TestSkipped(name) PROVE CallsInv'
  <2>1. /\ InBody /\ ~in_test /\ in_test' \in BOOLEAN /\ Enter("test", name, 0)
        /\ UNCHANGED <<config, depth, should_exit_group, broke>>
    BY <1>2 DEF TestSkipped, flagVars, LoopsInv, LoopTypes
  <2>2. LoopsInv'
    BY <2>1, TestStartLoops
  <2> QED
    BY <1>2, <2>2, TestSkippedAccount DEF CallsInv
<1>3. ASSUME NEW name \in Names, TestStart(name) PROVE CallsInv'
  <2>1. /\ InBody /\ ~in_test /\ in_test' \in BOOLEAN /\ Enter("test", name, Len(cases) + 1)
        /\ UNCHANGED <<config, depth, should_exit_group, broke>>
    BY <1>3 DEF TestStart
  <2>2. Len(cases) + 1 \in Nat
    BY <1>0
  <2>3. LoopsInv'
    BY <2>1, <2>2, TestStartLoops
  <2> QED
    BY <1>3, <2>3, TestStartAccount DEF CallsInv
<1>4. ASSUME NEW assertion \in Assertions, NEW condition \in BOOLEAN, NEW reason \in Reasons,
             MakeAssertion(assertion, condition, reason)
      PROVE  CallsInv'
  <2>1. UNCHANGED loopVars
    BY <1>4 DEF MakeAssertion, loopVars
  <2> QED
    BY <1>4, <2>1, LoopsStutter, AssertionAccount, AssertionRecord DEF CallsInv
<1>5. ASSUME sentest_group_should_continue PROVE CallsInv'
  <2>1. UNCHANGED recordVars /\ UNCHANGED <<groups, cases, skipped, actions, in_test>>
    BY <1>5 DEF sentest_group_should_continue, recordVars, trueVars
  <2> QED
    BY <1>5, <2>1, GroupConditionLoops, RecordStutter, AccountStutter DEF CallsInv, AccountInv
<1>6. CASE sentest_group_end
  BY <1>6, GroupEndLoops, GroupEndAccount DEF CallsInv
<1>7. CASE sentest_test_should_continue
  <2>1. UNCHANGED recordVars /\ UNCHANGED <<groups, cases, skipped, actions, in_test>>
    BY <1>7 DEF sentest_test_should_continue, recordVars, trueVars, harnessVars, flagVars
  <2> QED
    BY <1>7, <2>1, TestConditionLoops, RecordStutter, AccountStutter DEF CallsInv, AccountInv
<1>8. CASE sentest_end_internal
  BY <1>8, TestEndLoops, TestEndAccount DEF CallsInv
<1>9. CASE Break
  <2>1. UNCHANGED recordVars /\ UNCHANGED <<groups, cases, skipped, actions, in_test>>
    BY <1>9 DEF Break, recordVars, trueVars, harnessVars, flagVars
  <2> QED
    BY <1>9, <2>1, BreakLoops, RecordStutter, AccountStutter DEF CallsInv, AccountInv
<1>10. CASE AssertStops
  <2>1. UNCHANGED callerVars
    BY <1>10 DEF AssertStops, callVars, harnessVars, callerVars
  <2> QED
    BY <2>1, CallsInvStutter
<1> QED
  BY <1>1, <1>2, <1>3, <1>4, <1>5, <1>6, <1>7, <1>8, <1>9, <1>10 DEF Calls

\* What all calls leave as it is.
LEMMA CallsMove ==
  ASSUME CallsInv, Calls
  PROVE  /\ pc = "calls" /\ (pc' = "calls" \/ pc' = "aborted") /\ config' = config
         /\ broke \in BOOLEAN /\ broke' \in BOOLEAN /\ (broke' = broke \/ Break) /\ (Break => broke')
<1>1. broke \in BOOLEAN
  BY DEF CallsInv, LoopsInv, LoopTypes
<1>2. /\ pc = "calls" /\ (pc' = "calls" \/ pc' = "aborted") /\ config' = config
      /\ (broke' = broke \/ Break)
  BY DEF Calls, sentest_group_start, TestSkipped, TestStart, MakeAssertion,
     sentest_group_should_continue, sentest_group_end, sentest_test_should_continue,
     sentest_end_internal, Break, AssertStops, InBodyOf, InBody, AtCondition, trueVars,
     harnessVars, callVars
<1>3. Break => broke' = TRUE
  BY DEF Break
<1> QED
  BY <1>1, <1>2, <1>3

\* Printing and writing change nothing of it.
Finishing ==
  \/ Finish \/ PrintEnter \/ PrintLeave \/ PrintFail \/ PrintEnd \/ Scan \/ ScanEnd
  \/ TotalLeaveGroup \/ TotalEnterGroup \/ TotalLeaveTest \/ TotalFail \/ TotalEnterTest
  \/ TotalEnd \/ OpenFails
  \/ WriteSuite \/ WriteCase \/ WriteCaseEnd \/ WriteSuiteEnd \/ WriteFail \/ WriteEnd

\* Every step of sentest_finish leaves alone what the calls made.
LEMMA FinishingReads ==
  ASSUME Finishing
  PROVE  UNCHANGED callerVars
<1> USE DEF callerVars, callVars, harnessVars
<1>1. CASE Finish \/ PrintEnter \/ PrintLeave \/ PrintFail \/ PrintEnd
  BY <1>1 DEF Finish, PrintEnter, PrintLeave, PrintFail, PrintEnd
<1>2. CASE Scan \/ ScanEnd \/ TotalEnd \/ OpenFails
  BY <1>2 DEF Scan, ScanEnd, TotalEnd, OpenFails
<1>3. CASE TotalLeaveGroup \/ TotalEnterGroup \/ TotalLeaveTest \/ TotalFail \/ TotalEnterTest
  BY <1>3 DEF TotalLeaveGroup, TotalEnterGroup, TotalLeaveTest, TotalFail, TotalEnterTest
<1>4. CASE WriteSuite \/ WriteCase \/ WriteCaseEnd \/ WriteSuiteEnd \/ WriteFail \/ WriteEnd
  BY <1>4 DEF WriteSuite, WriteCase, WriteCaseEnd, WriteSuiteEnd, WriteFail, WriteEnd
<1> QED
  BY <1>1, <1>2, <1>3, <1>4 DEF Finishing

\* A step is a call, one of sentest_finish, or none.
LEMMA StepsOfNext ==
  ASSUME [Next]_vars
  PROVE  (Calls /\ UNCHANGED finishVars) \/ Finishing \/ UNCHANGED vars
  BY DEF Next, Finishing, Stopped

\* The callers' invariants hold at the start,
LEMMA InitCalls ==
  ASSUME ReportInit
  PROVE  CallsInv
<1>0. /\ bodies = <<>> /\ depth = 0 /\ config \in Configs /\ in_test = FALSE
      /\ should_exit_group = FALSE /\ broke = FALSE
      /\ actions = <<>> /\ strs = <<NUL>> /\ str_starts = <<>>
      /\ groups = <<>> /\ cases = <<>> /\ skipped = <<>>
  BY DEF ReportInit, Init
<1>1. LoopsInv
  <2>1. bodies = <<>> /\ bodies \in Seq(Loop) /\ Len(bodies) = 0
    BY <1>0
  <2>2. NumberOpen = 0
    BY <2>1 DEF NumberOpen
  <2>4. LoopTypes
    <3>1. depth \in Int
      BY <1>0
    <3>2. in_test \in BOOLEAN /\ should_exit_group \in BOOLEAN /\ broke \in BOOLEAN
      BY <1>0
    <3>3. config \in Configs
      BY <1>0
    <3> QED
      BY <2>1, <3>1, <3>2, <3>3 DEF LoopTypes
  <2>5. \A k \in 1..Len(bodies) - 1 :
          bodies[k].kind = "group" /\ bodies[k].at = "body" /\ bodies[k].runs = 1
    BY <2>1
  <2>6. depth >= NumberOpen /\ depth = NumberOpen
    BY <1>0, <2>2
  <2> QED
    BY <1>0, <2>1, <2>4, <2>5, <2>6 DEF LoopsInv
<1>2. RecordInv
  <2>1. /\ actions = <<>> /\ strs = <<NUL>> /\ str_starts = <<>> /\ <<>> \in Seq(Kinds)
        /\ <<>> \in Seq(1..Len(strs))
    BY <1>0
  <2>2. strs \in Seq(Characters) /\ strs # <<>> /\ strs[Len(strs)] = NUL
    BY <2>1 DEF Characters
  <2>3. Len(actions) = 0 /\ Len(str_starts) = 0
    BY <2>1
  <2>4. Occurrences(actions, Stringed, 0) = 0
    BY OccurrencesStep
  <2> QED
    BY <2>1, <2>2, <2>3, <2>4 DEF RecordInv
<1>3. AccountInv
  BY <1>0 DEF AccountInv, SomeFailed, FailRecorded
<1> QED
  BY <1>1, <1>2, <1>3 DEF CallsInv

\* and every step keeps them.
LEMMA CallsInvStep ==
  ASSUME CallsInv, [Next]_vars
  PROVE  CallsInv'
<1>1. ASSUME UNCHANGED vars PROVE CallsInv'
  <2>1. UNCHANGED callerVars
    BY <1>1 DEF vars, callVars, harnessVars, callerVars
  <2> QED
    BY <2>1, CallsInvStutter
<1> QED
  BY <1>1, StepsOfNext, CallsKeepInv, FinishingReads, CallsInvStutter

\* The flags say what the loops are.
LEMMA LoopsFollowed ==
  ASSUME CallsInv
  PROVE  FlagsFollowLoops
<1> SUFFICES ASSUME ~broke PROVE FlagsFollowLoops
  BY DEF FlagsFollowLoops
<1>1. bodies \in Seq(Loop) /\ Len(bodies) \in Nat
  BY DEF CallsInv, LoopsInv, LoopTypes
<1>2. \A k \in 1..Len(bodies) - 1 :
        bodies[k].kind = "group" /\ bodies[k].at = "body" /\ bodies[k].runs = 1
  BY DEF CallsInv, LoopsInv
<1>3. bodies # <<>> => InnermostInv
  BY DEF CallsInv, LoopsInv
<1>4. ASSUME NEW k \in 1..Len(bodies)
      PROVE  bodies[k].runs <= 1 /\ (k < Len(bodies) => bodies[k].runs = 1 /\ bodies[k].at = "body")
  <2>1. CASE k = Len(bodies)
    <3>1. bodies # <<>> /\ bodies[k] = Innermost
      BY <1>1, <2>1 DEF Innermost
    <3>2. Innermost.runs = 0 \/ Innermost.runs = 1
      BY <1>3, <3>1 DEF InnermostInv
    <3> QED
      BY <2>1, <3>1, <3>2
  <2>2. CASE k # Len(bodies)
    <3>1. k \in 1..Len(bodies) - 1
      BY <1>1, <2>2
    <3> QED
      BY <1>2, <3>1
  <2> QED
    BY <2>1, <2>2
<1>5. ASSUME InBody
      PROVE  /\ in_test <=> bodies # <<>> /\ Innermost.kind = "test"
             /\ depth = Cardinality({k \in 1..Len(bodies) : bodies[k].kind = "group"})
  <2>1. bodies # <<>> => Innermost.at = "body"
    BY <1>5 DEF InBody
  <2>2. in_test <=> bodies # <<>> /\ Innermost.kind = "test"
    BY <1>3, <2>1 DEF InnermostInv, CallsInv, LoopsInv
  <2>3. ~should_exit_group
    BY <1>3, <2>1 DEF InnermostInv, CallsInv, LoopsInv
  <2>4. depth = NumberOpen
    BY DEF CallsInv, LoopsInv
  <2>5. {k \in 1..Len(bodies) : bodies[k].kind = "group"} = 1..NumberOpen
    <3>1. CASE bodies # <<>> /\ Innermost.kind = "test"
      <4>1. NumberOpen = Len(bodies) - 1 /\ bodies[Len(bodies)].kind # "group"
        BY <3>1 DEF NumberOpen, Innermost
      <4> QED
        BY <1>1, <1>2, <4>1
    <3>2. CASE ~(bodies # <<>> /\ Innermost.kind = "test")
      <4>1. NumberOpen = Len(bodies)
        BY <2>3, <3>2 DEF NumberOpen
      <4>2. bodies # <<>> => bodies[Len(bodies)].kind = "group"
        BY <1>3, <2>1, <3>2 DEF InnermostInv, Innermost
      <4> QED
        BY <1>1, <1>2, <4>1, <4>2
    <3> QED
      BY <3>1, <3>2
  <2>6. Cardinality(1..NumberOpen) = NumberOpen
    <3>1. NumberOpen \in Nat
      BY <1>1 DEF NumberOpen
    <3> HIDE DEF NumberOpen
    <3> QED
      BY <3>1, FS_Interval
  <2> QED
    BY <2>2, <2>4, <2>5, <2>6
<1> QED
  BY <1>4, <1>5 DEF FlagsFollowLoops

\* The library knows where the caller is, for any nesting: the bodies of groups and
\* tests run once, and in_test and depth say which are open.
THEOREM SenTestFlagsFollowLoops == Spec => []FlagsFollowLoops
<1>1. Spec => []CallsInv
  BY InitCalls, CallsInvStep, PTL DEF Spec
<1> QED
  BY <1>1, LoopsFollowed, PTL

-----------------------------------------------------------------------------
(* The exit code.                                                          *)

\* had_failure tells of the failures among the actions that were read
PrintedInv ==
  /\ pc = "calls" => had_failure = FALSE /\ i = 1
  /\ pc = "print" => /\ i \in 1..Len(actions) + 1
                     /\ had_failure <=> \E k \in 1..i-1 : actions[k] = "TEST_FAIL"
  /\ pc \in {"scan", "total", "write", "done", "crashed"} => (had_failure <=> FailRecorded)

\* Every step keeps had_failure right.
LEMMA PrintedStep ==
  ASSUME CallsInv, PrintedInv, [Next]_vars
  PROVE  PrintedInv'
<1>0. actions \in Seq(Kinds) /\ Len(actions) \in Nat
  BY DEF CallsInv, RecordInv
<1>1. ASSUME Calls, UNCHANGED finishVars PROVE PrintedInv'
  <2>1. pc = "calls" /\ (pc' = "calls" \/ pc' = "aborted")
    BY <1>1, CallsMove
  <2>2. UNCHANGED <<i, had_failure>>
    BY <1>1 DEF finishVars, printVars
  <2> QED
    BY <2>1, <2>2 DEF PrintedInv
<1>2. ASSUME Finishing PROVE PrintedInv'
  <2>1. UNCHANGED callerVars
    BY <1>2, FinishingReads
  <2>2. UNCHANGED actions /\ (FailRecorded' <=> FailRecorded)
    BY <2>1 DEF callerVars, recordVars, FailRecorded
  <2>3. CASE Finish
    <3>1. pc = "calls" /\ pc' = "print" /\ UNCHANGED <<i, had_failure>>
      BY <2>3 DEF Finish, finishVars, printVars
    <3> QED
      BY <1>0, <2>2, <3>1 DEF PrintedInv
  <2>4. CASE PrintEnter \/ PrintLeave
    <3>1. /\ pc = "print" /\ pc' = "print" /\ UNCHANGED had_failure /\ i' = i + 1
          /\ i <= Len(actions) /\ actions[i] # "TEST_FAIL"
      BY <2>4 DEF PrintEnter, PrintLeave, Reading, printVars
    <3>2. i \in 1..Len(actions) + 1 /\ i' - 1 = i /\ i' \in 1..Len(actions) + 1
      BY <1>0, <3>1 DEF PrintedInv
    <3>3. (\E k \in 1..i : actions[k] = "TEST_FAIL") <=> \E k \in 1..i-1 : actions[k] = "TEST_FAIL"
      BY <3>1, <3>2
    <3> QED
      BY <2>2, <3>1, <3>2, <3>3 DEF PrintedInv
  <2>5. CASE PrintFail
    <3>1. /\ pc = "print" /\ pc' = "print" /\ had_failure' = TRUE /\ i' = i + 1
          /\ i <= Len(actions) /\ actions[i] = "TEST_FAIL"
      BY <2>5 DEF PrintFail, Reading
    <3>2. i \in 1..Len(actions) + 1 /\ i' - 1 = i /\ i' \in 1..Len(actions) + 1 /\ i \in 1..i
      BY <1>0, <3>1 DEF PrintedInv
    <3> QED
      BY <2>2, <3>1, <3>2 DEF PrintedInv
  <2>6. CASE PrintEnd
    <3>1. /\ pc = "print" /\ pc' \in {"scan", "done"} /\ UNCHANGED had_failure
          /\ i > Len(actions)
      BY <2>6 DEF PrintEnd, printVars
    <3>2. i - 1 = Len(actions)
      BY <1>0, <3>1 DEF PrintedInv
    <3> QED
      BY <2>2, <3>1, <3>2 DEF PrintedInv, FailRecorded
  <2>7. CASE ~(Finish \/ PrintEnter \/ PrintLeave \/ PrintFail \/ PrintEnd)
    <3>1. /\ pc \in {"scan", "total", "write"}
          /\ pc' \in {"scan", "total", "write", "done", "crashed"}
          /\ UNCHANGED had_failure
      BY <1>2, <2>7 DEF Finishing, Scan, ScanEnd, TotalLeaveGroup, TotalEnterGroup,
         TotalLeaveTest, TotalFail, TotalEnterTest, TotalEnd, OpenFails, WriteSuite,
         WriteCase, WriteCaseEnd, WriteSuiteEnd, WriteFail, WriteEnd, Reading, Totalling,
         printVars, finishVars
    <3> QED
      BY <2>2, <3>1 DEF PrintedInv
  <2> QED
    BY <2>3, <2>4, <2>5, <2>6, <2>7
<1>3. ASSUME UNCHANGED vars PROVE PrintedInv'
  BY <1>3 DEF PrintedInv, FailRecorded, vars, callVars, harnessVars, recordVars, finishVars,
     printVars
<1> QED
  BY <1>1, <1>2, <1>3, StepsOfNext

\* The exit code tells whether any claim of a caller failed, also for callers who
\* leave loops by break.
THEOREM SenTestExitCodeTells == Spec => []ExitCodeTells
<1>1. ReportInit => CallsInv /\ PrintedInv
  <2> SUFFICES ASSUME ReportInit PROVE CallsInv /\ PrintedInv
    OBVIOUS
  <2>1. pc = "calls" /\ had_failure = FALSE /\ i = 1
    BY DEF ReportInit, Init
  <2> QED
    BY <2>1, InitCalls DEF PrintedInv
<1>2. CallsInv /\ PrintedInv /\ [Next]_vars => CallsInv' /\ PrintedInv'
  BY CallsInvStep, PrintedStep
<1>3. CallsInv /\ PrintedInv => ExitCodeTells
  BY DEF CallsInv, AccountInv, SomeFailed, Failed, PrintedInv, ExitCodeTells
<1> QED
  BY <1>1, <1>2, <1>3, PTL DEF Spec

-----------------------------------------------------------------------------
(* Paths: what a list of names spells, and the buffer that holds it.        *)

Plain == Characters \ {NUL}
Segments(names) == [k \in 1..Len(names) |-> <<"/">> \o names[k]]

\* Strings without NUL are sequences over the other characters.
LEMMA PlainIs == PlainStrings = Seq(Plain)
<1>1. ASSUME NEW s \in PlainStrings PROVE s \in Seq(Plain)
  <2>1. s \in Seq(Characters) /\ Len(s) \in Nat /\ \A k \in 1..Len(s) : s[k] # NUL
    BY DEF PlainStrings
  <2>2. \A k \in 1..Len(s) : s[k] \in Plain
    <3> TAKE k \in 1..Len(s)
    <3>1. s[k] \in Characters
      BY <2>1, ElementOfSeq
    <3> QED
      BY <2>1, <3>1 DEF Plain
  <2>3. s = [k \in 1..Len(s) |-> s[k]]
    BY <2>1
  <2> DEFINE e(k) == s[k]
  <2>4. [k \in 1..Len(s) |-> e(k)] \in Seq(Plain)
    <3>1. \A k \in 1..Len(s) : e(k) \in Plain
      BY <2>2
    <3> HIDE DEF e
    <3> QED
      BY <2>1, <3>1, IsASeq
  <2> QED
    BY <2>3, <2>4
<1>2. ASSUME NEW s \in Seq(Plain) PROVE s \in PlainStrings
  <2>1. s \in Seq(Characters)
    <3>1. Plain \subseteq Characters
      BY DEF Plain
    <3> QED
      BY <3>1, SeqMonotonic
  <2>2. \A k \in 1..Len(s) : s[k] # NUL
    BY ElementOfSeq DEF Plain
  <2> QED
    BY <2>1, <2>2 DEF PlainStrings
<1> QED
  BY <1>1, <1>2

\* The separator of a path is such a character.
LEMMA SlashPlain == <<"/">> \in Seq(Plain) /\ <<"/">> \in Seq(Characters) /\ "/" # NUL
  BY DEF Plain, Characters, NUL

\* What names without NUL spell has none.
LEMMA SpellPlain ==
  ASSUME NEW names \in Seq(PlainStrings)
  PROVE  Segments(names) \in Seq(Seq(Plain)) /\ Spell(names) \in Seq(Plain)
<1>1. Len(names) \in Nat /\ \A k \in 1..Len(names) : names[k] \in Seq(Plain)
  BY PlainIs
<1>2. \A k \in 1..Len(names) : <<"/">> \o names[k] \in Seq(Plain)
  BY <1>1, SlashPlain, ConcatProperties
<1>3. Segments(names) \in Seq(Seq(Plain))
  BY <1>1, <1>2 DEF Segments
<1>4. Spell(names) = FlattenSeq(Segments(names))
  BY DEF Spell, Segments
<1> QED
  BY <1>3, <1>4, FlattenIn

\* No names spell the empty path.
LEMMA SpellNothing == Spell(<<>>) = <<>>
<1>1. [k \in 1..Len(<<>>) |-> <<"/">> \o <<>>[k]] = <<>>
  OBVIOUS
<1> QED
  BY <1>1, FlattenEmpty DEF Spell

\* One more name is spelt at the end.
LEMMA SpellAppend ==
  ASSUME NEW names \in Seq(PlainStrings), NEW name \in PlainStrings
  PROVE  Spell(Append(names, name)) = Spell(names) \o (<<"/">> \o name)
<1> DEFINE longer == Append(names, name)
           x == <<"/">> \o name
<1>1. name \in Seq(Plain) /\ x \in Seq(Plain)
  BY PlainIs, SlashPlain, ConcatProperties
<1>2. /\ Len(names) \in Nat /\ Len(longer) = Len(names) + 1 /\ longer[Len(names) + 1] = name
      /\ \A k \in 1..Len(names) : longer[k] = names[k]
  OBVIOUS
<1>3. Segments(longer) = Append(Segments(names), x)
  <2> DEFINE a == Segments(longer)
             b == Append(Segments(names), x)
  <2>1. /\ Segments(names) \in Seq(Seq(Plain)) /\ Len(Segments(names)) = Len(names)
        /\ \A k \in 1..Len(names) : Segments(names)[k] = <<"/">> \o names[k]
    <3>1. Segments(names) \in Seq(Seq(Plain))
      BY SpellPlain
    <3> QED
      BY <1>2, <3>1 DEF Segments
  <2>2. /\ longer \in Seq(PlainStrings) /\ a \in Seq(Seq(Plain)) /\ Len(a) = Len(names) + 1
    <3>1. longer \in Seq(PlainStrings)
      OBVIOUS
    <3>2. a \in Seq(Seq(Plain))
      BY <3>1, SpellPlain
    <3> QED
      BY <1>2, <3>1, <3>2 DEF Segments
  <2>3. b \in Seq(Seq(Plain)) /\ Len(b) = Len(names) + 1
    <3> HIDE DEF x
    <3> QED
      BY <1>1, <2>1
  <2>4. \A k \in 1..Len(names) + 1 : a[k] = <<"/">> \o longer[k]
    BY <1>2 DEF Segments
  <2>5. \A k \in 1..Len(names) + 1 : b[k] = IF k = Len(names) + 1 THEN x ELSE <<"/">> \o names[k]
    <3> DEFINE seg == Segments(names)
    <3>1. seg \in Seq(Seq(Plain)) /\ Len(seg) = Len(names)
      BY <2>1
    <3> HIDE DEF seg, x
    <3>2. \A k \in 1..Len(seg) + 1 : Append(seg, x)[k] = IF k = Len(seg) + 1 THEN x ELSE seg[k]
      BY <1>1, <3>1
    <3>3. \A k \in 1..Len(names) : seg[k] = <<"/">> \o names[k]
      BY <2>1 DEF seg
    <3>4. \A k \in 1..Len(names) + 1 : Append(seg, x)[k] = IF k = Len(names) + 1 THEN x ELSE <<"/">> \o names[k]
      <4> TAKE k \in 1..Len(names) + 1
      <4>1. k # Len(names) + 1 => k \in 1..Len(names)
        BY <1>2
      <4> QED
        BY <3>1, <3>2, <3>3, <4>1
    <3> QED
      BY <3>4 DEF seg
  <2>6. \A k \in 1..Len(names) + 1 : a[k] = b[k]
    <3> TAKE k \in 1..Len(names) + 1
    <3> HIDE DEF a, b, longer
    <3>1. CASE k = Len(names) + 1
      BY <3>1, <1>2, <2>4, <2>5
    <3>2. CASE k # Len(names) + 1
      <4>1. k \in 1..Len(names)
        BY <1>2, <3>2
      <4> QED
        BY <3>2, <4>1, <1>2, <2>4, <2>5
    <3> QED
      BY <3>1, <3>2
  <2> HIDE DEF a, b
  <2>7. a = b
    BY <2>2, <2>3, <2>6, SeqEqual
  <2> QED
    BY <2>7 DEF a, b
<1>4. Spell(longer) = FlattenSeq(Segments(longer)) /\ Spell(names) = FlattenSeq(Segments(names))
  BY DEF Spell, Segments
<1>5. Segments(names) \in Seq(Seq(Plain))
  BY SpellPlain
<1> HIDE DEF longer, x
<1>6. FlattenSeq(Append(Segments(names), x)) = FlattenSeq(Segments(names)) \o x
  BY <1>1, <1>5, FlattenAppend
<1> QED
  BY <1>3, <1>4, <1>6 DEF longer, x

\* The buffer holds the spelling of names, ended, and the lengths of its segments.
SpellsIn(buffer, lengths, names) ==
  /\ names \in Seq(PlainStrings)
  /\ \E rest \in Seq(Characters) : buffer.data = Spell(names) \o (<<NUL>> \o rest)
  /\ buffer.length = Len(Spell(names)) + 1
  /\ lengths = [k \in 1..Len(names) |-> Len(names[k])]

\* The end of a C string is one character.
LEMMA NulString == <<NUL>> \in Seq(Characters) /\ Len(<<NUL>>) = 1
  BY DEF Characters

\* What names spell is a sequence of characters of a known length.
LEMMA SpellTyped ==
  ASSUME NEW names \in Seq(PlainStrings)
  PROVE  Spell(names) \in Seq(Characters) /\ Spell(names) \in PlainStrings /\ Len(Spell(names)) \in Nat
<1>1. Spell(names) \in PlainStrings
  BY SpellPlain, PlainIs
<1> QED
  BY <1>1 DEF PlainStrings

\* What is read from the buffer, and that the buffer is long enough.
LEMMA SpellsRead ==
  ASSUME NEW buffer, NEW lengths, NEW names, SpellsIn(buffer, lengths, names)
  PROVE  /\ CString(buffer.data, 1) = Spell(names)
         /\ buffer.data \in Seq(Characters) /\ buffer.length \in 1..Len(buffer.data)
         /\ lengths \in Seq(Nat) /\ Len(lengths) = Len(names)
<1>1. PICK rest \in Seq(Characters) : buffer.data = Spell(names) \o (<<NUL>> \o rest)
  BY DEF SpellsIn
<1>2. names \in Seq(PlainStrings) /\ buffer.length = Len(Spell(names)) + 1
  BY DEF SpellsIn
<1> DEFINE s == Spell(names)
<1>3. s \in Seq(Characters) /\ s \in PlainStrings /\ Len(s) \in Nat
  BY <1>2, SpellTyped
<1> HIDE DEF s
<1>4. <<>> \in Seq(Characters) /\ Len(<<>>) = 0 /\ <<>> \o s = s
  BY <1>3, ConcatEmptySeq
<1>5. (s \o <<NUL>>) \o rest = s \o (<<NUL>> \o rest)
  BY <1>3, NulString, JoinedTwice
<1>6. CString(<<>> \o s \o <<NUL>> \o rest, Len(<<>>) + 1) = s
  BY <1>3, <1>4, CStringNew
<1>7. buffer.data = <<>> \o s \o <<NUL>> \o rest
  BY <1>1, <1>4, <1>5 DEF s
<1>8. CString(buffer.data, 1) = s
  BY <1>4, <1>6, <1>7
<1>9. /\ <<NUL>> \o rest \in Seq(Characters) /\ Len(<<NUL>> \o rest) = 1 + Len(rest)
      /\ Len(rest) \in Nat
  BY NulString, ConcatProperties
<1>10. buffer.data \in Seq(Characters) /\ Len(buffer.data) = Len(s) + (1 + Len(rest))
  BY <1>1, <1>3, <1>9, ConcatProperties DEF s
<1>11. buffer.length \in 1..Len(buffer.data)
  BY <1>2, <1>3, <1>9, <1>10 DEF s
<1>12. lengths \in Seq(Nat) /\ Len(lengths) = Len(names)
  <2>1. lengths = [k \in 1..Len(names) |-> Len(names[k])]
    BY DEF SpellsIn
  <2>2. \A k \in 1..Len(names) : Len(names[k]) \in Nat
    <3> TAKE k \in 1..Len(names)
    <3>1. names[k] \in Seq(Plain)
      BY <1>2, PlainIs
    <3> QED
      BY <3>1
  <2>3. Len(names) \in Nat
    BY <1>2
  <2> QED
    BY <2>1, <2>2, <2>3
<1> QED
  BY <1>8, <1>10, <1>11, <1>12 DEF s

\* A segment is appended.
LEMMA SpellsPush ==
  ASSUME NEW buffer, NEW lengths, NEW names, SpellsIn(buffer, lengths, names),
         NEW name \in PlainStrings
  PROVE  SpellsIn(PushSegment(buffer, name), Append(lengths, Len(name)), Append(names, name))
<1>1. PICK rest \in Seq(Characters) : buffer.data = Spell(names) \o (<<NUL>> \o rest)
  BY DEF SpellsIn
<1>2. names \in Seq(PlainStrings) /\ buffer.length = Len(Spell(names)) + 1
  BY DEF SpellsIn
<1> DEFINE s == Spell(names)
           t == Spell(Append(names, name))
           behind == SubSeq(buffer.data, buffer.length + Len(name) + 2, Len(buffer.data))
<1>3. s \in Seq(Characters) /\ Len(s) \in Nat
  BY <1>2, SpellTyped
<1>4. name \in Seq(Characters) /\ Len(name) \in Nat
  BY DEF PlainStrings
<1>5. buffer.data \in Seq(Characters) /\ Len(buffer.data) \in Nat
  BY SpellsRead
<1>6. behind \in Seq(Characters)
  <2>1. buffer.length + Len(name) + 2 \in Int /\ Len(buffer.data) \in Int
    BY <1>2, <1>3, <1>4, <1>5
  <2>2. \A k \in buffer.length + Len(name) + 2 .. Len(buffer.data) : buffer.data[k] \in Characters
    <3> TAKE k \in buffer.length + Len(name) + 2 .. Len(buffer.data)
    <3>1. k \in 1..Len(buffer.data)
      BY <1>2, <1>3, <1>4, <1>5
    <3> QED
      BY <1>5, <3>1, ElementOfSeq
  <2> QED
    BY <2>1, <2>2, SubSeqProperties
<1>7. t = s \o (<<"/">> \o name) /\ Append(names, name) \in Seq(PlainStrings)
  BY <1>2, SpellAppend
<1>8. SubSeq(buffer.data, 1, buffer.length - 1) = s
  <2>1. buffer.length - 1 = Len(s)
    BY <1>2, <1>3
  <2>2. <<NUL>> \o rest \in Seq(Characters)
    BY NulString, ConcatProperties
  <2> HIDE DEF s
  <2>3. SubSeq(s \o (<<NUL>> \o rest), 1, Len(s)) = s
    <3> DEFINE r == <<NUL>> \o rest
    <3> HIDE DEF r
    <3>1. r \in Seq(Characters)
      BY <2>2 DEF r
    <3>2. CASE s = <<>>
      BY <3>2, SubSeqEmpty
    <3>3. CASE s # <<>>
      <4>1. 1 \in 1..Len(s) /\ Len(s) \in 1..Len(s)
        BY <1>3, <3>3
      <4>2. SubSeq(s \o r, 1, Len(s)) = SubSeq(s, 1, Len(s))
        BY <1>3, <3>1, <4>1, SubSeqOfConcat1
      <4> QED
        BY <1>3, <4>2, SubSeqFull DEF r
    <3> QED
      BY <3>2, <3>3
  <2> QED
    BY <1>1, <2>1, <2>3 DEF s
<1> HIDE DEF s, t, behind
<1> DEFINE pushed == PushSegment(buffer, name)
<1>9. /\ pushed.data = s \o <<"/">> \o name \o <<NUL>> \o behind
      /\ pushed.length = buffer.length + Len(name) + 1
  BY <1>8 DEF PushSegment, behind
<1>10. /\ s \o <<"/">> \in Seq(Characters) /\ (s \o <<"/">>) \o name = t
       /\ <<"/">> \o name \in Seq(Characters)
  BY <1>3, <1>4, <1>7, SlashPlain, JoinedTwice, ConcatProperties
<1>11. t \in Seq(Characters)
  BY <1>3, <1>7, <1>10, ConcatProperties
<1>12. (t \o <<NUL>>) \o behind = t \o (<<NUL>> \o behind)
  BY <1>6, <1>11, NulString, JoinedTwice
<1>13. pushed.data = t \o (<<NUL>> \o behind)
  BY <1>9, <1>10, <1>12
<1>14. pushed.length = Len(t) + 1
  <2>1. Len(<<"/">> \o name) = 1 + Len(name)
    BY <1>4, SlashPlain, ConcatProperties
  <2>2. Len(s \o (<<"/">> \o name)) = Len(s) + Len(<<"/">> \o name)
    BY <1>3, <1>10, ConcatProperties
  <2>3. Len(t) = Len(s) + (1 + Len(name))
    BY <1>7, <2>1, <2>2
  <2> QED
    BY <1>2, <1>3, <1>4, <1>9, <2>3 DEF s
<1> HIDE DEF pushed
<1>15. Append(lengths, Len(name)) = [k \in 1..Len(Append(names, name)) |-> Len(Append(names, name)[k])]
  <2> DEFINE f(k) == Len(Append(names, name)[k])
  <2>1. lengths = [k \in 1..Len(names) |-> Len(names[k])] /\ lengths \in Seq(Nat)
        /\ Len(lengths) = Len(names) /\ Len(names) \in Nat
    <3>1. lengths = [k \in 1..Len(names) |-> Len(names[k])]
      BY DEF SpellsIn
    <3>2. lengths \in Seq(Nat) /\ Len(lengths) = Len(names)
      BY SpellsRead
    <3> QED
      BY <1>2, <3>1, <3>2
  <2>2. /\ Len(Append(names, name)) = Len(names) + 1
        /\ \A k \in 1..Len(names) : f(k) = Len(names[k])
        /\ f(Len(names) + 1) = Len(name)
    BY <1>2
  <2> HIDE DEF f
  <2>3. \A k \in 1..Len(names) + 1 : Append(lengths, Len(name))[k] = f(k)
    <3> TAKE k \in 1..Len(names) + 1
    <3>1. CASE k = Len(names) + 1
      BY <3>1, <2>1, <2>2
    <3>2. CASE k # Len(names) + 1
      <4>1. k \in 1..Len(names)
        BY <2>1, <3>2
      <4>2. Append(lengths, Len(name))[k] = lengths[k]
        BY <2>1, <4>1
      <4>3. lengths[k] = Len(names[k])
        BY <2>1, <4>1
      <4> QED
        BY <2>2, <4>1, <4>2, <4>3
    <3> QED
      BY <3>1, <3>2
  <2>4. Append(lengths, Len(name)) \in Seq(Nat) /\ Len(Append(lengths, Len(name))) = Len(names) + 1
    BY <2>1, <1>4
  <2>5. Append(lengths, Len(name)) = [k \in 1..Len(names) + 1 |-> Append(lengths, Len(name))[k]]
    <3> DEFINE app == Append(lengths, Len(name))
    <3> HIDE DEF app
    <3>1. app \in Seq(Nat) /\ Len(app) = Len(names) + 1
      BY <2>4 DEF app
    <3>2. app = [k \in 1..Len(names) + 1 |-> app[k]]
      BY <3>1
    <3> QED
      BY <3>2 DEF app
  <2>6. Append(lengths, Len(name)) = [k \in 1..Len(Append(names, name)) |-> f(k)]
    BY <2>2, <2>3, <2>5
  <2> QED
    BY <2>6 DEF f
<1> QED
  BY <1>6, <1>7, <1>13, <1>14, <1>15 DEF SpellsIn, t, pushed

\* The last segment is taken off again.
LEMMA SpellsPop ==
  ASSUME NEW buffer, NEW lengths, NEW names \in Seq(PlainStrings), NEW name \in PlainStrings,
         SpellsIn(buffer, lengths, Append(names, name))
  PROVE  /\ lengths[Len(lengths)] = Len(name)
         /\ SpellsIn(PopSegment(buffer, Len(name)), SubSeq(lengths, 1, Len(lengths) - 1), names)
<1> DEFINE longer == Append(names, name)
           s == Spell(names)
           t == Spell(longer)
<1>1. PICK rest \in Seq(Characters) : buffer.data = t \o (<<NUL>> \o rest)
  BY DEF SpellsIn
<1>2. longer \in Seq(PlainStrings) /\ buffer.length = Len(t) + 1
  BY DEF SpellsIn
<1>3. s \in Seq(Characters) /\ Len(s) \in Nat /\ t \in Seq(Characters) /\ Len(t) \in Nat
  BY <1>2, SpellTyped
<1>4. name \in Seq(Characters) /\ Len(name) \in Nat
  BY DEF PlainStrings
<1>5. t = s \o (<<"/">> \o name)
  BY SpellAppend
<1>6. lengths = [k \in 1..Len(longer) |-> Len(longer[k])]
  BY DEF SpellsIn
<1>7. /\ Len(names) \in Nat /\ Len(longer) = Len(names) + 1 /\ longer[Len(names) + 1] = name
      /\ \A k \in 1..Len(names) : longer[k] = names[k]
  OBVIOUS
<1>8. lengths \in Seq(Nat) /\ Len(lengths) = Len(names) + 1
  BY <1>7, SpellsRead
<1>9. lengths[Len(lengths)] = Len(name)
  <2>1. Len(lengths) \in 1..Len(longer)
    BY <1>7, <1>8
  <2> HIDE DEF longer
  <2> QED
    BY <1>6, <1>7, <1>8, <2>1
<1>10. SubSeq(lengths, 1, Len(lengths) - 1) = [k \in 1..Len(names) |-> Len(names[k])]
  <2> DEFINE short == SubSeq(lengths, 1, Len(lengths) - 1)
  <2>1. lengths # <<>>
    BY <1>7, <1>8
  <2>2. /\ short \in Seq(Nat) /\ Len(short) = Len(lengths) - 1
        /\ \A k \in 1..Len(lengths) - 1 : short[k] = lengths[k]
    BY <1>8, <2>1, WithoutLast
  <2>3. Len(lengths) - 1 = Len(names)
    BY <1>7, <1>8
  <2>4. \A k \in 1..Len(names) : lengths[k] = Len(names[k])
    <3> TAKE k \in 1..Len(names)
    <3>1. k \in 1..Len(longer) /\ longer[k] = names[k]
      BY <1>7
    <3> HIDE DEF longer
    <3> QED
      BY <1>6, <3>1
  <2> HIDE DEF short
  <2>5. short = [k \in 1..Len(names) |-> short[k]]
    BY <2>2, <2>3
  <2>6. short = [k \in 1..Len(names) |-> Len(names[k])]
    BY <2>2, <2>3, <2>4, <2>5
  <2> QED
    BY <2>6 DEF short
<1> HIDE DEF longer, s, t
<1> DEFINE popped == PopSegment(buffer, Len(name))
           more == name \o (<<NUL>> \o rest)
<1>11. Len(t) = Len(s) + (1 + Len(name)) /\ <<"/">> \o name \in Seq(Characters)
       /\ Len(<<"/">> \o name) = 1 + Len(name)
  BY <1>3, <1>4, <1>5, SlashPlain, ConcatProperties
<1>12. <<NUL>> \o rest \in Seq(Characters) /\ more \in Seq(Characters)
  BY <1>4, NulString, ConcatProperties
<1>13. t \o (<<NUL>> \o rest) = s \o (<<"/">> \o more)
  <2> DEFINE r == <<NUL>> \o rest
  <2> HIDE DEF r
  <2>1. r \in Seq(Characters)
    BY <1>12 DEF r
  <2>2. t \o r = s \o ((<<"/">> \o name) \o r)
    <3> DEFINE u == <<"/">> \o name
    <3>1. s \in Seq(Characters) /\ u \in Seq(Characters) /\ t = s \o u
      BY <1>3, <1>5, <1>11
    <3> HIDE DEF u
    <3>2. (s \o u) \o r = s \o (u \o r)
      BY <2>1, <3>1, JoinedTwice
    <3> QED
      BY <3>1, <3>2 DEF u
  <2>3. (<<"/">> \o name) \o r = <<"/">> \o (name \o r)
    BY <1>4, <2>1, SlashPlain, JoinedTwice
  <2> QED
    BY <2>2, <2>3 DEF r
<1>14. popped.length = Len(s) + 1
  BY <1>2, <1>3, <1>4, <1>11 DEF PopSegment
<1>15. popped.data = [buffer.data EXCEPT ![Len(s) + 1] = NUL]
  <2>1. buffer.length - (Len(name) + 1) = Len(s) + 1
    BY <1>2, <1>3, <1>4, <1>11
  <2> QED
    BY <2>1 DEF PopSegment
<1> HIDE DEF popped, more
<1>16. [s \o (<<"/">> \o more) EXCEPT ![Len(s) + 1] = NUL] = s \o (<<NUL>> \o more)
  <2> DEFINE p == <<"/">> \o more
             q == <<NUL>> \o more
  <2>1. /\ p \in Seq(Characters) /\ Len(p) = 1 + Len(more) /\ p[1] = "/"
        /\ \A k \in 2..Len(more) + 1 : p[k] = more[k-1]
    BY <1>12, SlashPlain
  <2>2. /\ q \in Seq(Characters) /\ Len(q) = 1 + Len(more) /\ q[1] = NUL
        /\ \A k \in 2..Len(more) + 1 : q[k] = more[k-1]
    BY <1>12, NulString
  <2>3. Len(more) \in Nat
    BY <1>12
  <2> HIDE DEF p, q
  <2>4. /\ s \o p \in Seq(Characters) /\ Len(s \o p) = Len(s) + Len(p)
        /\ \A k \in 1..Len(s) + Len(p) : (s \o p)[k] = IF k <= Len(s) THEN s[k] ELSE p[k - Len(s)]
    BY <1>3, <2>1, ConcatProperties
  <2>5. /\ s \o q \in Seq(Characters) /\ Len(s \o q) = Len(s) + Len(q)
        /\ \A k \in 1..Len(s) + Len(q) : (s \o q)[k] = IF k <= Len(s) THEN s[k] ELSE q[k - Len(s)]
    BY <1>3, <2>2, ConcatProperties
  <2> DEFINE u == s \o p
             v == s \o q
             w == [u EXCEPT ![Len(s) + 1] = NUL]
  <2>6. Len(s) + 1 \in 1..Len(u) /\ NUL \in Characters
    BY <1>3, <2>1, <2>3, <2>4 DEF Characters
  <2>7. /\ w \in Seq(Characters) /\ Len(w) = Len(u)
        /\ \A k \in 1..Len(u) : w[k] = IF k = Len(s) + 1 THEN NUL ELSE u[k]
    <3>1. u \in Seq(Characters)
      BY <2>4
    <3> HIDE DEF u
    <3> QED
      BY <2>6, <3>1, ExceptSeq
  <2>8. Len(u) = Len(s) + (1 + Len(more)) /\ Len(v) = Len(u)
    BY <2>1, <2>2, <2>4, <2>5
  <2>9. \A k \in 1..Len(u) : w[k] = v[k]
    <3> HIDE DEF u, v, w
    <3> TAKE k \in 1..Len(u)
    <3>0. k \in Nat /\ Len(s) \in Nat
      BY <1>3, <2>3, <2>8
    <3>1. CASE k <= Len(s)
      BY <3>1, <1>3, <2>1, <2>2, <2>4, <2>5, <2>7, <2>8 DEF u, v
    <3>2. CASE k = Len(s) + 1
      <4>1. k - Len(s) = 1
        BY <1>3, <3>2
      <4> QED
        BY <3>2, <4>1, <1>3, <2>2, <2>5, <2>7, <2>8 DEF v
    <3>3. CASE k > Len(s) + 1
      <4>1. k - Len(s) \in 2..Len(more) + 1
        BY <1>3, <2>3, <2>8, <3>3
      <4>2. u[k] = p[k - Len(s)] /\ v[k] = q[k - Len(s)]
        BY <1>3, <2>1, <2>2, <2>3, <2>4, <2>5, <2>8, <3>3 DEF u, v
      <4>3. w[k] = u[k]
        BY <3>0, <3>3, <2>7
      <4>4. p[k - Len(s)] = q[k - Len(s)]
        BY <2>1, <2>2, <4>1
      <4> QED
        BY <4>2, <4>3, <4>4
    <3> QED
      BY <3>0, <3>1, <3>2, <3>3
  <2> HIDE DEF w, u, v
  <2>10. v \in Seq(Characters)
    BY <2>5 DEF v
  <2>11. w = v
    BY <2>7, <2>8, <2>9, <2>10, SeqEqual
  <2> QED
    BY <2>11 DEF u, v, w, p, q
<1>17. popped.data = s \o (<<NUL>> \o more)
  BY <1>1, <1>13, <1>15, <1>16
<1> QED
  BY <1>9, <1>10, <1>12, <1>14, <1>17 DEF SpellsIn, s, popped

-----------------------------------------------------------------------------
(* The path is where the caller is.                                        *)

NamesOf(b) == [k \in 1..Len(b) |-> b[k].name]

\* OpenGroups, of any loops
OpenIn(b, ended) ==
  IF b # <<>> /\ (b[Len(b)].kind = "test" \/ ended)
  THEN SubSeq(NamesOf(b), 1, Len(b) - 1) ELSE NamesOf(b)

\* The names of the loops, and of those around the innermost.
LEMMA NamesTyped ==
  ASSUME NEW b \in Seq(Loop)
  PROVE  /\ NamesOf(b) \in Seq(Names) /\ Len(NamesOf(b)) = Len(b) /\ Len(b) \in Nat
         /\ \A k \in 1..Len(b) : NamesOf(b)[k] = b[k].name
<1>1. \A k \in 1..Len(b) : b[k].name \in Names
  <2>1. \A k \in 1..Len(b) : b[k] \in Loop
    OBVIOUS
  <2>2. \A loop \in Loop : loop.name \in Names
    BY DEF Loop
  <2> QED
    BY <2>1, <2>2
<1> QED
  BY <1>1 DEF NamesOf

\* The names without the last, as the names of the loops without the last.
LEMMA NamesOuter ==
  ASSUME NEW b \in Seq(Loop), b # <<>>
  PROVE  /\ SubSeq(b, 1, Len(b) - 1) \in Seq(Loop)
         /\ SubSeq(NamesOf(b), 1, Len(b) - 1) = NamesOf(SubSeq(b, 1, Len(b) - 1))
<1> DEFINE c == SubSeq(b, 1, Len(b) - 1)
           m == SubSeq(NamesOf(b), 1, Len(b) - 1)
<1>1. c \in Seq(Loop) /\ Len(c) = Len(b) - 1 /\ \A k \in 1..Len(b) - 1 : c[k] = b[k]
  BY WithoutLast
<1>2. /\ NamesOf(b) \in Seq(Names) /\ Len(NamesOf(b)) = Len(b) /\ Len(b) \in Nat
      /\ \A k \in 1..Len(b) : NamesOf(b)[k] = b[k].name
  BY NamesTyped
<1>3. m \in Seq(Names) /\ Len(m) = Len(b) - 1 /\ \A k \in 1..Len(b) - 1 : m[k] = NamesOf(b)[k]
  <2>1. NamesOf(b) # <<>>
    BY <1>2
  <2> DEFINE n == NamesOf(b)
  <2> HIDE DEF n
  <2>2. SubSeq(n, 1, Len(n) - 1) \in Seq(Names)
        /\ Len(SubSeq(n, 1, Len(n) - 1)) = Len(n) - 1
        /\ \A k \in 1..Len(n) - 1 : SubSeq(n, 1, Len(n) - 1)[k] = n[k]
    BY <1>2, <2>1, WithoutLast DEF n
  <2> QED
    BY <1>2, <2>2 DEF n
<1> HIDE DEF c, m
<1>4. /\ NamesOf(c) \in Seq(Names) /\ Len(NamesOf(c)) = Len(c)
      /\ \A k \in 1..Len(c) : NamesOf(c)[k] = c[k].name
  BY <1>1, NamesTyped
<1>5. \A k \in 1..Len(m) : m[k] = NamesOf(c)[k]
  <2> TAKE k \in 1..Len(m)
  <2>1. k \in 1..Len(b) - 1 /\ k \in 1..Len(b) /\ k \in 1..Len(c)
    BY <1>1, <1>2, <1>3
  <2> QED
    BY <2>1, <1>1, <1>2, <1>3, <1>4
<1>6. m = NamesOf(c)
  BY <1>1, <1>3, <1>4, <1>5, SeqEqual
<1> QED
  BY <1>1, <1>6 DEF c, m

\* One more loop has one more name.
LEMMA NamesAppend ==
  ASSUME NEW b \in Seq(Loop), NEW loop \in Loop
  PROVE  NamesOf(Append(b, loop)) = Append(NamesOf(b), loop.name)
<1>1. Append(b, loop) \in Seq(Loop) /\ Len(Append(b, loop)) = Len(b) + 1 /\ Len(b) \in Nat
      /\ (\A k \in 1..Len(b) : Append(b, loop)[k] = b[k]) /\ Append(b, loop)[Len(b) + 1] = loop
  OBVIOUS
<1>2. loop.name \in Names
  BY DEF Loop
<1> DEFINE c == Append(b, loop)
<1> HIDE DEF c
<1>3. /\ NamesOf(b) \in Seq(Names) /\ Len(NamesOf(b)) = Len(b)
      /\ \A k \in 1..Len(b) : NamesOf(b)[k] = b[k].name
  BY NamesTyped
<1>4. /\ NamesOf(c) \in Seq(Names) /\ Len(NamesOf(c)) = Len(c)
      /\ \A k \in 1..Len(c) : NamesOf(c)[k] = c[k].name
  BY <1>1, NamesTyped DEF c
<1> DEFINE n == NamesOf(b)
           m == Append(n, loop.name)
<1> HIDE DEF n
<1>5. m \in Seq(Names) /\ Len(m) = Len(b) + 1 /\ m[Len(b) + 1] = loop.name
      /\ \A k \in 1..Len(b) : m[k] = n[k]
  BY <1>2, <1>3 DEF n
<1> HIDE DEF m
<1>6. \A k \in 1..Len(m) : m[k] = NamesOf(c)[k]
  <2> TAKE k \in 1..Len(m)
  <2>1. CASE k = Len(b) + 1
    BY <2>1, <1>1, <1>4, <1>5 DEF c
  <2>2. CASE k # Len(b) + 1
    <3>1. k \in 1..Len(b) /\ k \in 1..Len(c)
      BY <1>1, <1>5, <2>2 DEF c
    <3> QED
      BY <3>1, <1>1, <1>3, <1>4, <1>5 DEF c, n
  <2> QED
    BY <2>1, <2>2
<1>7. Len(NamesOf(c)) = Len(m)
  BY <1>1, <1>4, <1>5 DEF c
<1>8. m = NamesOf(c)
  BY <1>4, <1>5, <1>6, <1>7, SeqEqual
<1> QED
  BY <1>8 DEF m, n, c

\* Loops with the same names have the same list of them.
LEMMA NamesSame ==
  ASSUME NEW b, NEW c, Len(b) = Len(c), \A k \in 1..Len(b) : b[k].name = c[k].name
  PROVE  NamesOf(b) = NamesOf(c)
  BY DEF NamesOf

\* What the innermost loop of group bodies can be.
LEMMA InGroups ==
  ASSUME LoopsInv, InBody, ~in_test, ~broke
  PROVE  /\ bodies # <<>> => Innermost.kind = "group"
         /\ ~should_exit_group
  BY DEF LoopsInv, InnermostInv, InBody

\* Where a group or test may start, all loops are open groups.
LEMMA OpenInGroups ==
  ASSUME LoopsInv, InBody, ~in_test, ~broke
  PROVE  OpenGroups = OpenNames /\ OpenGroups = NamesOf(bodies)
<1>1. OpenNames = NamesOf(bodies)
  BY DEF OpenNames, NamesOf
<1> QED
  BY <1>1, InGroups DEF OpenGroups

\* The open groups, as names of the loops.
LEMMA OpenGroupsIs == OpenGroups = OpenIn(bodies, should_exit_group)
  BY DEF OpenGroups, OpenIn, OpenNames, NamesOf, Innermost

\* One more loop around the caller.
LEMMA EnterOpens ==
  ASSUME LoopsInv, InBody, ~in_test, ~broke, should_exit_group' = FALSE,
         NEW kind \in {"group", "test"}, NEW name \in Names, NEW number \in Nat,
         Enter(kind, name, number)
  PROVE  /\ kind = "group" => OpenGroups' = Append(OpenGroups, name)
         /\ kind = "test" => OpenGroups' = OpenGroups
<1> DEFINE loop == [kind |-> kind, name |-> name, at |-> "condition", runs |-> 0, number |-> number]
<1>1. loop \in Loop /\ loop.name = name /\ loop.kind = kind
  BY DEF Loop
<1>2. bodies \in Seq(Loop) /\ bodies' = Append(bodies, loop)
  BY DEF LoopsInv, LoopTypes, Enter
<1> HIDE DEF loop
<1>3. OpenGroups = NamesOf(bodies)
  BY OpenInGroups
<1>4. NamesOf(bodies') = Append(NamesOf(bodies), name)
  BY <1>1, <1>2, NamesAppend
<1>5. OpenGroups' = OpenIn(bodies', FALSE)
  BY DEF OpenGroups, OpenIn, OpenNames, NamesOf, Innermost
<1>6. /\ bodies' # <<>> /\ Len(bodies') = Len(bodies) + 1 /\ bodies'[Len(bodies')] = loop
      /\ Len(bodies) \in Nat
  BY <1>1, <1>2
<1>7. ASSUME kind = "group" PROVE OpenGroups' = Append(OpenGroups, name)
  BY <1>1, <1>3, <1>4, <1>5, <1>6, <1>7 DEF OpenIn
<1>8. ASSUME kind = "test" PROVE OpenGroups' = OpenGroups
  <2> DEFINE n == NamesOf(bodies)
  <2>1. OpenGroups' = SubSeq(Append(n, name), 1, Len(bodies') - 1)
    BY <1>1, <1>4, <1>5, <1>6, <1>8 DEF OpenIn
  <2>2. n \in Seq(Names) /\ Len(n) = Len(bodies)
    BY <1>2, NamesTyped
  <2> HIDE DEF n
  <2>3. SubSeq(Append(n, name), 1, Len(n)) = n
    BY <2>2
  <2>4. Len(bodies') - 1 = Len(n)
    BY <1>6, <2>2
  <2> QED
    BY <1>3, <2>1, <2>3, <2>4 DEF n
<1> QED
  BY <1>7, <1>8

\* The innermost loop goes on, and the flag stays.
LEMMA MoveOpens ==
  ASSUME LoopsInv, bodies # <<>>, NEW loop \in Loop,
         bodies' = [bodies EXCEPT ![Len(bodies)] = loop],
         loop.kind = Innermost.kind, loop.name = Innermost.name
  PROVE  /\ bodies' # <<>> /\ bodies'[Len(bodies')].kind = Innermost.kind
         /\ NamesOf(bodies') = NamesOf(bodies) /\ Len(bodies') = Len(bodies)
         /\ should_exit_group' = should_exit_group => OpenGroups' = OpenGroups
<1>1. bodies \in Seq(Loop) /\ Len(bodies) \in Nat /\ Len(bodies) \in 1..Len(bodies)
  BY DEF LoopsInv, LoopTypes
<1>2. /\ bodies' \in Seq(Loop) /\ Len(bodies') = Len(bodies)
      /\ \A k \in 1..Len(bodies) : bodies'[k] = IF k = Len(bodies) THEN loop ELSE bodies[k]
  BY <1>1, ExceptSeq
<1>3. \A k \in 1..Len(bodies) : bodies'[k].name = bodies[k].name
  BY <1>1, <1>2 DEF Innermost
<1>4. NamesOf(bodies') = NamesOf(bodies)
  BY <1>2, <1>3, NamesSame
<1>5. bodies' # <<>> /\ bodies'[Len(bodies')].kind = bodies[Len(bodies)].kind
  BY <1>1, <1>2 DEF Innermost
<1>6. ASSUME should_exit_group' = should_exit_group PROVE OpenGroups' = OpenGroups
  <2>1. OpenGroups = OpenIn(bodies, should_exit_group)
    BY OpenGroupsIs
  <2>2. OpenGroups' = OpenIn(bodies', should_exit_group')
    BY DEF OpenGroups, OpenIn, OpenNames, NamesOf, Innermost
  <2> QED
    BY <1>2, <1>4, <1>5, <1>6, <2>1, <2>2 DEF OpenIn
<1> QED
  BY <1>2, <1>4, <1>5, <1>6 DEF Innermost

\* The innermost loop is over.
LEMMA OuterOpens ==
  ASSUME LoopsInv, bodies # <<>>, bodies' = Outer, should_exit_group' = FALSE,
         Innermost.kind = "test" \/ should_exit_group
  PROVE  OpenGroups' = OpenGroups
<1>1. bodies \in Seq(Loop) /\ Len(bodies) \in Nat /\ Len(bodies) # 0
  BY DEF LoopsInv, LoopTypes
<1>2. OpenGroups = SubSeq(NamesOf(bodies), 1, Len(bodies) - 1)
  BY DEF OpenGroups, OpenNames, NamesOf
<1>3. OpenGroups = NamesOf(bodies')
  BY <1>1, <1>2, NamesOuter DEF Outer
<1>4. bodies' # <<>> => bodies'[Len(bodies')].kind = "group"
  <2>1. /\ bodies' \in Seq(Loop) /\ Len(bodies') = Len(bodies) - 1
        /\ \A k \in 1..Len(bodies) - 1 : bodies'[k] = bodies[k]
    BY <1>1, WithoutLast DEF Outer
  <2>2. \A k \in 1..Len(bodies) - 1 : bodies[k].kind = "group"
    BY DEF LoopsInv
  <2>3. bodies' # <<>> => Len(bodies') \in 1..Len(bodies) - 1
    BY <1>1, <2>1
  <2> QED
    BY <2>1, <2>2, <2>3
<1>5. OpenGroups' = OpenIn(bodies', FALSE)
  BY DEF OpenGroups, OpenIn, OpenNames, NamesOf, Innermost
<1> QED
  BY <1>3, <1>4, <1>5 DEF OpenIn

\* Their names are names.
LEMMA OpenGroupsTyped ==
  ASSUME LoopsInv
  PROVE  OpenGroups \in Seq(Names) /\ OpenGroups \in Seq(PlainStrings)
<1>1. bodies \in Seq(Loop)
  BY DEF LoopsInv, LoopTypes
<1>2. NamesOf(bodies) \in Seq(Names) /\ Len(NamesOf(bodies)) = Len(bodies)
  BY <1>1, NamesTyped
<1>3. OpenGroups = IF bodies # <<>> /\ (Innermost.kind = "test" \/ should_exit_group)
                   THEN SubSeq(NamesOf(bodies), 1, Len(bodies) - 1) ELSE NamesOf(bodies)
  BY DEF OpenGroups, OpenNames, NamesOf
<1>4. OpenGroups \in Seq(Names)
  <2>1. CASE bodies # <<>>
    <3>1. SubSeq(bodies, 1, Len(bodies) - 1) \in Seq(Loop)
          /\ SubSeq(NamesOf(bodies), 1, Len(bodies) - 1) = NamesOf(SubSeq(bodies, 1, Len(bodies) - 1))
      BY <1>1, <2>1, NamesOuter
    <3>2. SubSeq(NamesOf(bodies), 1, Len(bodies) - 1) \in Seq(Names)
      BY <3>1, NamesTyped
    <3> QED
      BY <1>2, <1>3, <3>2
  <2>2. CASE bodies = <<>>
    BY <1>2, <1>3, <2>2
  <2> QED
    BY <2>1, <2>2
<1>5. Names \subseteq PlainStrings
  BY NamesPlain
<1> QED
  BY <1>4, <1>5, SeqMonotonic

\* The innermost loop, as the calls move it.
LEMMA Moves ==
  ASSUME LoopsInv, bodies # <<>>, NEW place \in {"condition", "body"}
  PROVE  \E loop \in Loop : /\ At(place) = [bodies EXCEPT ![Len(bodies)] = loop]
                            /\ loop.kind = Innermost.kind /\ loop.name = Innermost.name
                            /\ loop.number = Innermost.number
<1> DEFINE loop == [Innermost EXCEPT !.at = place]
<1>1. Innermost \in Loop
  BY DEF LoopsInv, LoopTypes, Innermost
<1>2. loop \in Loop /\ loop.kind = Innermost.kind /\ loop.name = Innermost.name
      /\ loop.number = Innermost.number
  BY <1>1 DEF Loop
<1>3. At(place) = [bodies EXCEPT ![Len(bodies)] = loop]
  BY DEF At, Innermost
<1> QED
  BY <1>2, <1>3

\* The same loop when its condition holds and its body starts.
LEMMA RunsOn ==
  ASSUME LoopsInv, bodies # <<>>
  PROVE  \E loop \in Loop :
           /\ [At("body") EXCEPT ![Len(bodies)].runs = @ + 1] = [bodies EXCEPT ![Len(bodies)] = loop]
           /\ loop.kind = Innermost.kind /\ loop.name = Innermost.name
           /\ loop.number = Innermost.number
<1> DEFINE loop == [Innermost EXCEPT !.at = "body", !.runs = @ + 1]
<1>1. Innermost \in Loop /\ Innermost.runs + 1 \in Nat
  <2>1. Innermost \in Loop
    BY DEF LoopsInv, LoopTypes, Innermost
  <2> QED
    BY <2>1 DEF Loop
<1>2. loop \in Loop /\ loop.kind = Innermost.kind /\ loop.name = Innermost.name
      /\ loop.number = Innermost.number
  BY <1>1 DEF Loop
<1>3. Len(bodies) \in DOMAIN bodies
  BY DEF LoopsInv, LoopTypes
<1>4. [At("body") EXCEPT ![Len(bodies)].runs = @ + 1] = [bodies EXCEPT ![Len(bodies)] = loop]
  BY <1>1, <1>3 DEF At, Innermost, Loop
<1> QED
  BY <1>2, <1>4

\* While a filter is set, the buffer spells the groups around the caller.
PathInv ==
  pc = "calls" /\ Filtering /\ ~broke => SpellsIn(path, path_seg_lengths, OpenGroups)

\* A name pushed and popped leaves the buffer spelling what it did, and in
\* between spells the longer path.
LEMMA SpellsPushPop ==
  ASSUME NEW buffer, NEW lengths, NEW names, SpellsIn(buffer, lengths, names),
         NEW name \in PlainStrings
  PROVE  /\ SpellsIn(PopSegment(PushSegment(buffer, name), Len(name)), lengths, names)
         /\ CString(PushSegment(buffer, name).data, 1) = Spell(Append(names, name))
<1>1. names \in Seq(PlainStrings)
  BY DEF SpellsIn
<1> DEFINE pushed == PushSegment(buffer, name)
           longer == Append(lengths, Len(name))
<1>2. SpellsIn(pushed, longer, Append(names, name))
  BY SpellsPush
<1>3. CString(pushed.data, 1) = Spell(Append(names, name))
  BY <1>2, SpellsRead
<1> HIDE DEF pushed, longer
<1>4. SpellsIn(PopSegment(pushed, Len(name)), SubSeq(longer, 1, Len(longer) - 1), names)
  BY <1>1, <1>2, SpellsPop
<1>5. SpellsIn(PopSegment(pushed, Len(name)), lengths, names)
  BY <1>4 DEF SpellsIn
<1> QED
  BY <1>3, <1>5 DEF pushed

\* A test's name is put on the path to be compared and taken off again.
LEMMA MatchingPath ==
  ASSUME CallsInv, PathInv, pc = "calls", InBody, ~in_test, ~broke, Filtering, NEW name \in Names
  PROVE  /\ SpellsIn(PathAfterMatching(name), path_seg_lengths, OpenGroups)
         /\ Matches(name) <=> Occurs(config.filter_str, Spell(Append(OpenNames, name)))
<1>1. SpellsIn(path, path_seg_lengths, OpenGroups) /\ name \in PlainStrings
  BY NamesPlain DEF PathInv
<1>2. OpenGroups = OpenNames
  BY OpenInGroups DEF CallsInv
<1>3. /\ SpellsIn(PopSegment(PushSegment(path, name), Len(name)), path_seg_lengths, OpenGroups)
      /\ CString(PushSegment(path, name).data, 1) = Spell(Append(OpenGroups, name))
  BY <1>1, SpellsPushPop
<1> QED
  BY <1>2, <1>3 DEF PathAfterMatching, Matches

\* Every call keeps the path.
LEMMA CallsKeepPath ==
  ASSUME CallsInv, PathInv, Calls
  PROVE  PathInv'
<1> SUFFICES ASSUME pc' = "calls", Filtering', ~broke'
             PROVE  SpellsIn(path', path_seg_lengths', OpenGroups')
  BY DEF PathInv
<1> LoopsInv
  BY DEF CallsInv
<1>1. pc = "calls" /\ config' = config /\ broke \in BOOLEAN /\ (broke' = broke \/ Break)
  BY CallsMove
<1>2. ~Break
  BY DEF Break
<1>3. Filtering /\ ~broke
  BY <1>1, <1>2 DEF Filtering
<1>4. SpellsIn(path, path_seg_lengths, OpenGroups)
  BY <1>1, <1>3 DEF PathInv
<1>5. ASSUME NEW name \in Names, sentest_group_start(name)
      PROVE  SpellsIn(path', path_seg_lengths', OpenGroups')
  <2>1. /\ InBody /\ ~in_test /\ should_exit_group' = FALSE
        /\ Enter("group", name, Len(groups) + 1) /\ sentest_push_path(name)
    BY <1>3, <1>5 DEF sentest_group_start
  <2>2. Len(groups) + 1 \in Nat
    BY DEF CallsInv, AccountInv
  <2>3. OpenGroups' = Append(OpenGroups, name)
    BY <1>3, <2>1, <2>2, EnterOpens
  <2>4. name \in PlainStrings
    BY NamesPlain
  <2>5. SpellsIn(PushSegment(path, name), Append(path_seg_lengths, Len(name)), Append(OpenGroups, name))
    BY <1>4, <2>4, SpellsPush
  <2>6. path' = PushSegment(path, name) /\ path_seg_lengths' = Append(path_seg_lengths, Len(name))
    BY <2>1 DEF sentest_push_path
  <2> QED
    BY <2>3, <2>5, <2>6
<1>6. ASSUME NEW name \in Names, TestSkipped(name) \/ TestStart(name)
      PROVE  SpellsIn(path', path_seg_lengths', OpenGroups')
  <2>1. /\ InBody /\ ~in_test /\ should_exit_group' = should_exit_group
        /\ \E number \in Nat : Enter("test", name, number)
        /\ path' = PathAfterMatching(name) /\ path_seg_lengths' = path_seg_lengths
    <3>1. CASE TestSkipped(name)
      BY <3>1 DEF TestSkipped, flagVars
    <3>2. CASE TestStart(name)
      <4>1. Len(cases) + 1 \in Nat
        BY DEF CallsInv, AccountInv
      <4> QED
        BY <1>3, <3>2, <4>1 DEF TestStart
    <3> QED
      BY <1>6, <3>1, <3>2
  <2>2. should_exit_group' = FALSE
    BY <1>3, <2>1, InGroups DEF LoopsInv, LoopTypes
  <2>3. OpenGroups' = OpenGroups
    BY <1>3, <2>1, <2>2, EnterOpens
  <2> QED
    BY <1>1, <1>3, <2>1, <2>3, MatchingPath
<1>7. ASSUME NEW assertion \in Assertions, NEW condition \in BOOLEAN, NEW reason \in Reasons,
             MakeAssertion(assertion, condition, reason)
      PROVE  SpellsIn(path', path_seg_lengths', OpenGroups')
  <2>1. UNCHANGED <<path, path_seg_lengths, bodies, should_exit_group>>
    BY <1>7 DEF MakeAssertion, pathVars
  <2> QED
    BY <1>4, <2>1 DEF OpenGroups, OpenNames, Innermost
<1>8. CASE sentest_group_should_continue
  <2>1. /\ bodies # <<>> /\ should_exit_group' = FALSE
        /\ UNCHANGED <<path, path_seg_lengths>>
        /\ bodies' = IF should_exit_group THEN Outer
                     ELSE [At("body") EXCEPT ![Len(bodies)].runs = @ + 1]
    BY <1>8 DEF sentest_group_should_continue, AtCondition, pathVars
  <2>2. CASE should_exit_group
    BY <1>4, <2>1, <2>2, OuterOpens
  <2>3. CASE ~should_exit_group
    <3>1. PICK loop \in Loop : /\ bodies' = [bodies EXCEPT ![Len(bodies)] = loop]
                               /\ loop.kind = Innermost.kind /\ loop.name = Innermost.name
      BY <2>1, <2>3, RunsOn
    <3>2. should_exit_group' = should_exit_group
      BY <2>1, <2>3 DEF LoopsInv, LoopTypes
    <3> QED
      BY <1>4, <2>1, <3>1, <3>2, MoveOpens
  <2> QED
    BY <2>2, <2>3
<1>9. CASE sentest_group_end
  <2>1. /\ InBody /\ bodies # <<>> /\ Innermost.kind = "group" /\ ~in_test
        /\ should_exit_group' = TRUE /\ bodies' = At("condition") /\ sentest_pop_path
    BY <1>3, <1>9 DEF sentest_group_end, InBodyOf
  <2>2. bodies \in Seq(Loop) /\ Len(bodies) \in Nat /\ Len(bodies) # 0
    BY <2>1 DEF LoopsInv, LoopTypes
  <2>3. PICK loop \in Loop : /\ bodies' = [bodies EXCEPT ![Len(bodies)] = loop]
                             /\ loop.kind = Innermost.kind /\ loop.name = Innermost.name
    BY <2>1, Moves
  <2>4. bodies' # <<>> /\ NamesOf(bodies') = NamesOf(bodies) /\ Len(bodies') = Len(bodies)
    BY <2>1, <2>3, MoveOpens
  <2>5. OpenGroups = NamesOf(bodies)
    BY <1>3, <2>1, OpenInGroups
  <2>6. OpenGroups' = SubSeq(OpenGroups, 1, Len(bodies) - 1)
    <3>1. OpenGroups' = OpenIn(bodies', TRUE)
      BY <2>1 DEF OpenGroups, OpenIn, OpenNames, NamesOf, Innermost
    <3> QED
      BY <2>4, <2>5, <3>1 DEF OpenIn
  <2> DEFINE g == OpenGroups
             x == g[Len(bodies)]
             h == SubSeq(g, 1, Len(bodies) - 1)
  <2>7. g \in Seq(PlainStrings) /\ Len(g) = Len(bodies)
    BY <2>2, <2>5, OpenGroupsTyped, NamesTyped
  <2> HIDE DEF g
  <2>8. h \in Seq(PlainStrings) /\ x \in PlainStrings /\ g = Append(h, x)
    BY <2>2, <2>7, LastAgain
  <2> HIDE DEF x, h
  <2>9. SpellsIn(path, path_seg_lengths, Append(h, x))
    BY <1>4, <2>8 DEF g
  <2>10. /\ path_seg_lengths[Len(path_seg_lengths)] = Len(x)
         /\ SpellsIn(PopSegment(path, Len(x)), SubSeq(path_seg_lengths, 1, Len(path_seg_lengths) - 1), h)
    BY <2>8, <2>9, SpellsPop
  <2>11. /\ path' = PopSegment(path, path_seg_lengths[Len(path_seg_lengths)])
         /\ path_seg_lengths' = SubSeq(path_seg_lengths, 1, Len(path_seg_lengths) - 1)
    BY <2>1 DEF sentest_pop_path
  <2> QED
    BY <2>6, <2>10, <2>11 DEF g, h
<1>10. CASE sentest_test_should_continue
  <2>1. /\ bodies # <<>> /\ Innermost.kind = "test" /\ Innermost.at = "condition"
        /\ UNCHANGED <<path, path_seg_lengths, should_exit_group>>
        /\ bodies' = IF in_test THEN [At("body") EXCEPT ![Len(bodies)].runs = @ + 1] ELSE Outer
    BY <1>10 DEF sentest_test_should_continue, AtCondition, pathVars, harnessVars, flagVars
  <2>2. CASE in_test
    <3>1. PICK loop \in Loop : /\ bodies' = [bodies EXCEPT ![Len(bodies)] = loop]
                               /\ loop.kind = Innermost.kind /\ loop.name = Innermost.name
      BY <2>1, <2>2, RunsOn
    <3> QED
      BY <1>4, <2>1, <3>1, MoveOpens
  <2>3. CASE ~in_test
    <3>1. should_exit_group' = FALSE
      BY <2>1 DEF LoopsInv, LoopTypes, InnermostInv
    <3> QED
      BY <1>4, <2>1, <2>3, <3>1, OuterOpens
  <2> QED
    BY <2>2, <2>3
<1>11. CASE sentest_end_internal
  <2>1. /\ bodies # <<>> /\ UNCHANGED <<path, path_seg_lengths, should_exit_group>>
        /\ bodies' = At("condition")
    BY <1>11 DEF sentest_end_internal, InBodyOf, pathVars
  <2>2. PICK loop \in Loop : /\ bodies' = [bodies EXCEPT ![Len(bodies)] = loop]
                             /\ loop.kind = Innermost.kind /\ loop.name = Innermost.name
    BY <2>1, Moves
  <2> QED
    BY <1>4, <2>1, <2>2, MoveOpens
<1>12. ~AssertStops
  BY DEF AssertStops
<1> QED
  BY <1>2, <1>5, <1>6, <1>7, <1>8, <1>9, <1>10, <1>11, <1>12 DEF Calls

\* So does every step.
LEMMA PathStep ==
  ASSUME CallsInv, PathInv, [Next]_vars
  PROVE  PathInv'
<1>1. ASSUME Finishing PROVE pc' # "calls"
  BY <1>1 DEF Finishing, Finish, PrintEnter, PrintLeave, PrintFail, PrintEnd, Scan, ScanEnd,
     TotalLeaveGroup, TotalEnterGroup, TotalLeaveTest, TotalFail, TotalEnterTest, TotalEnd,
     OpenFails, WriteSuite, WriteCase, WriteCaseEnd, WriteSuiteEnd, WriteFail, WriteEnd,
     Reading, Totalling
<1>2. ASSUME UNCHANGED vars PROVE PathInv'
  BY <1>2 DEF PathInv, vars, callVars, harnessVars, pathVars, flagVars, trueVars, Filtering, OpenGroups,
     OpenNames, Innermost
<1> QED
  BY <1>1, <1>2, StepsOfNext, CallsKeepPath DEF PathInv

\* The buffer is empty at first.
LEMMA InitSpelt ==
  ASSUME ReportInit
  PROVE  SpellsIn(path, path_seg_lengths, <<>>)
<1>1. path = [data |-> <<NUL>>, length |-> 1] /\ path_seg_lengths = <<>>
  BY DEF ReportInit, Init
<1>2. <<NUL>> = <<>> \o (<<NUL>> \o <<>>) /\ <<>> \in Seq(Characters) /\ <<>> \in Seq(PlainStrings)
  BY NulString, ConcatEmptySeq
<1>3. <<>> = [k \in 1..Len(<<>>) |-> Len(<<>>[k])]
  OBVIOUS
<1>4. path.data = <<NUL>> /\ path.length = 1 /\ Len(<<>>) + 1 = 1
  BY <1>1
<1> QED
  BY <1>1, <1>2, <1>3, <1>4, SpellNothing DEF SpellsIn

\* At the start the path is empty.
LEMMA InitPath ==
  ASSUME ReportInit
  PROVE  PathInv
<1>1. bodies = <<>>
  BY DEF ReportInit, Init
<1>2. OpenGroups = <<>>
  <2>1. OpenNames = <<>>
    BY <1>1 DEF OpenNames
  <2> QED
    BY <1>1, <2>1 DEF OpenGroups
<1> QED
  BY <1>2, InitSpelt DEF PathInv

\* With a filter, the path the filter is compared with names exactly the groups
\* that are open around the caller, for any names and any nesting of loops.
THEOREM SenTestPathIsWhereWeAre == Spec => []PathIsWhereWeAre
<1>1. ReportInit => CallsInv /\ PathInv
  BY InitCalls, InitPath
<1>2. CallsInv /\ PathInv /\ [Next]_vars => CallsInv' /\ PathInv'
  BY CallsInvStep, PathStep
<1>3. CallsInv /\ PathInv => PathIsWhereWeAre
  BY SpellsRead DEF PathInv, PathIsWhereWeAre
<1> QED
  BY <1>1, <1>2, <1>3, PTL DEF Spec

\* what decides whether a test runs
Selected(filter, test) == Occurs(filter, Spell(Append(test.groups, test.name)))
FilterInv ==
  Filtering /\ ~broke =>
    /\ \A k \in 1..Len(cases) : Selected(config.filter_str, cases[k])
    /\ \A k \in 1..Len(skipped) : ~Selected(config.filter_str, skipped[k])
    /\ tests_filtered_out = Len(skipped)

\* Every call keeps the tests apart as the filter says.
LEMMA CallsKeepFilter ==
  ASSUME CallsInv, PathInv, FilterInv, Calls
  PROVE  FilterInv'
<1> SUFFICES ASSUME Filtering', ~broke'
             PROVE  /\ \A k \in 1..Len(cases') : Selected(config'.filter_str, cases'[k])
                    /\ \A k \in 1..Len(skipped') : ~Selected(config'.filter_str, skipped'[k])
                    /\ tests_filtered_out' = Len(skipped')
  BY DEF FilterInv
<1> DEFINE chosen(test) == Selected(config.filter_str, test)
           Kept == /\ \A k \in 1..Len(cases') : chosen(cases'[k])
                   /\ \A k \in 1..Len(skipped') : ~chosen(skipped'[k])
                   /\ tests_filtered_out' = Len(skipped')
<1>1. pc = "calls" /\ config' = config /\ broke \in BOOLEAN /\ (broke' = broke \/ Break)
  BY CallsMove
<1>2. ~Break
  BY DEF Break
<1>3. Filtering /\ ~broke
  BY <1>1, <1>2 DEF Filtering
<1>4. SUFFICES Kept
  BY <1>1
<1>5. /\ \A k \in 1..Len(cases) : chosen(cases[k])
      /\ \A k \in 1..Len(skipped) : ~chosen(skipped[k])
      /\ tests_filtered_out = Len(skipped)
  BY <1>3 DEF FilterInv
<1>6. /\ cases \in Seq(Case) /\ skipped \in Seq(Skipped)
      /\ Len(cases) \in Nat /\ Len(skipped) \in Nat
  BY DEF CallsInv, AccountInv
<1> HIDE DEF chosen
<1>7. ASSUME NEW name \in Names, TestSkipped(name) PROVE Kept
  <2> DEFINE test == [groups |-> OpenNames, name |-> name]
  <2>1. /\ InBody /\ ~in_test /\ ~Matches(name) /\ UNCHANGED cases
        /\ tests_filtered_out' = tests_filtered_out + 1 /\ skipped' = Append(skipped, test)
    BY <1>7 DEF TestSkipped
  <2>2. ~chosen(test)
    BY <1>1, <1>3, <2>1, MatchingPath DEF chosen, Selected
  <2>3. test \in Skipped
    BY OpenNamesTyped DEF CallsInv, Skipped
  <2> HIDE DEF test
  <2>4. Len(skipped') = Len(skipped) + 1
        /\ \A k \in 1..Len(skipped') : ((skipped'[k] = skipped[k] /\ k \in 1..Len(skipped)) \/ skipped'[k] = test)
    BY <1>6, <2>1, <2>3
  <2> QED
    BY <1>5, <2>1, <2>2, <2>4
<1>8. ASSUME NEW name \in Names, TestStart(name) PROVE Kept
  <2> DEFINE test == [groups |-> OpenNames, name |-> name, reasons |-> <<>>]
  <2>1. /\ InBody /\ ~in_test /\ Matches(name) /\ UNCHANGED <<skipped, tests_filtered_out>>
        /\ cases' = Append(cases, test)
    BY <1>8 DEF TestStart, counterVars
  <2>2. chosen(test)
    BY <1>1, <1>3, <2>1, MatchingPath DEF chosen, Selected
  <2>3. test \in Case
    BY OpenNamesTyped DEF CallsInv, Case
  <2> HIDE DEF test
  <2>4. \A k \in 1..Len(cases') : ((cases'[k] = cases[k] /\ k \in 1..Len(cases)) \/ cases'[k] = test)
    BY <1>6, <2>1, <2>3
  <2> QED
    BY <1>5, <2>1, <2>2, <2>4
<1>9. ASSUME NEW assertion \in Assertions, NEW condition \in BOOLEAN, NEW reason \in Reasons,
             MakeAssertion(assertion, condition, reason)
      PROVE  Kept
  <2>1. /\ UNCHANGED <<skipped, tests_filtered_out>>
        /\ cases' = IF ClaimHolds(assertion, condition) THEN cases
                    ELSE [cases EXCEPT ![Len(cases)].reasons = Append(@, reason)]
    BY <1>9 DEF MakeAssertion, counterVars
  <2>2. CASE ClaimHolds(assertion, condition)
    BY <1>5, <2>1, <2>2
  <2>3. CASE ~ClaimHolds(assertion, condition)
    <3>1. Len(cases') = Len(cases)
      BY <1>6, <2>1, <2>3
    <3>2. \A k \in 1..Len(cases) : cases'[k].groups = cases[k].groups /\ cases'[k].name = cases[k].name
      <4> TAKE k \in 1..Len(cases)
      <4>1. cases[k] \in Case
        BY <1>6
      <4> DEFINE last == [cases[Len(cases)] EXCEPT !.reasons = Append(@, reason)]
      <4>2. cases' = [cases EXCEPT ![Len(cases)] = last]
        BY <2>1, <2>3
      <4>3. k = Len(cases) => last.groups = cases[k].groups /\ last.name = cases[k].name
        BY <4>1 DEF Case
      <4> HIDE DEF last
      <4>4. cases'[k] = IF k = Len(cases) THEN last ELSE cases[k]
        BY <1>6, <4>2
      <4> QED
        BY <4>3, <4>4
    <3> QED
      BY <1>5, <2>1, <3>1, <3>2 DEF chosen, Selected
  <2> QED
    BY <2>2, <2>3
<1>10. CASE \/ \E name \in Names : sentest_group_start(name)
            \/ sentest_group_should_continue \/ sentest_group_end \/ sentest_test_should_continue
            \/ sentest_end_internal
  <2>1. UNCHANGED <<cases, skipped, tests_filtered_out>>
    BY <1>10 DEF sentest_group_start, sentest_group_should_continue, sentest_group_end,
       sentest_test_should_continue, sentest_end_internal, counterVars, trueVars, harnessVars
  <2> QED
    BY <1>5, <2>1
<1>11. CASE AssertStops
  <2>1. UNCHANGED <<cases, skipped, tests_filtered_out>>
    BY <1>11 DEF AssertStops, callVars, counterVars, trueVars, harnessVars
  <2> QED
    BY <1>5, <2>1
<1> QED
  BY <1>2, <1>7, <1>8, <1>9, <1>10, <1>11 DEF Calls

\* So does every step.
LEMMA FilterStep ==
  ASSUME CallsInv, PathInv, FilterInv, [Next]_vars
  PROVE  FilterInv'
<1>1. ASSUME UNCHANGED callerVars PROVE FilterInv'
  BY <1>1 DEF FilterInv, Filtering, callerVars, counterVars, trueVars
<1>2. ASSUME UNCHANGED vars PROVE UNCHANGED callerVars
  BY <1>2 DEF vars, callVars, harnessVars, callerVars
<1> QED
  BY <1>1, <1>2, StepsOfNext, CallsKeepFilter, FinishingReads

\* Exactly the tests whose full path contains filter_str run, and the others are
\* counted, for any names, filter and nesting of groups.
THEOREM SenTestFilterSelects == Spec => []FilterSelects
<1>1. ReportInit => CallsInv /\ PathInv /\ FilterInv
  <2> SUFFICES ASSUME ReportInit PROVE CallsInv /\ PathInv /\ FilterInv
    OBVIOUS
  <2>1. cases = <<>> /\ skipped = <<>> /\ tests_filtered_out = 0
    BY DEF ReportInit, Init
  <2>2. FilterInv
    BY <2>1 DEF FilterInv
  <2> QED
    BY <2>2, InitCalls, InitPath
<1>2. CallsInv /\ PathInv /\ FilterInv /\ [Next]_vars => CallsInv' /\ PathInv' /\ FilterInv'
  BY CallsInvStep, PathStep, FilterStep
<1>3. CallsInv /\ PathInv /\ FilterInv => FilterSelects
  BY DEF FilterInv, FilterSelects, Selected
<1> QED
  BY <1>1, <1>2, <1>3, PTL DEF Spec

-----------------------------------------------------------------------------
(* What is open around each action of the record.                          *)

\* the texts of what was entered and not left, after each action
Stacks(enters, leaves, acts, texts) ==
  LET stack[k \in 0..Len(acts)] ==
        IF k = 0 THEN <<>>
        ELSE IF acts[k] \in enters THEN Append(stack[k-1], texts[k])
        ELSE IF acts[k] \in leaves THEN SubSeq(stack[k-1], 1, Len(stack[k-1]) - 1)
        ELSE stack[k-1]
  IN  stack

\* every action's stack follows from the one before
AreStacks(stack, enters, leaves, acts, texts) ==
  /\ stack[0] = <<>>
  /\ \A k \in 1..Len(acts) :
       /\ acts[k] \in enters => stack[k] = Append(stack[k-1], texts[k])
       /\ acts[k] \notin enters /\ acts[k] \in leaves
            => stack[k] = SubSeq(stack[k-1], 1, Len(stack[k-1]) - 1)
       /\ acts[k] \notin enters /\ acts[k] \notin leaves => stack[k] = stack[k-1]

\* every text that is entered is in X
Said(X, enters, acts, texts) == \A k \in 1..Len(acts) : acts[k] \in enters => texts[k] \in X

\* Stacks are defined at every action, each by the one before.
LEMMA StacksAre ==
  ASSUME NEW X, NEW enters, NEW leaves, NEW acts, Len(acts) \in Nat, NEW texts,
         Said(X, enters, acts, texts)
  PROVE  /\ Stacks(enters, leaves, acts, texts) \in [0..Len(acts) -> Seq(X)]
         /\ AreStacks(Stacks(enters, leaves, acts, texts), enters, leaves, acts, texts)
<1> DEFINE n == Len(acts)
           V == Seq(X)
           After(k, s) == IF acts[k] \in enters THEN Append(s, texts[k])
                          ELSE IF acts[k] \in leaves THEN SubSeq(s, 1, Len(s) - 1)
                          ELSE s
           step == [p \in (1..n) \X V |-> After(p[1], p[2])]
           IsStack(f) == f = [k \in 0..n |-> IF k = 0 THEN <<>> ELSE After(k, f[k-1])]
<1>1. ASSUME NEW k \in 1..n, NEW s \in V PROVE After(k, s) \in V
  <2>1. CASE acts[k] \in enters
    BY <2>1 DEF Said
  <2>2. CASE acts[k] \notin enters /\ acts[k] \in leaves /\ s # <<>>
    <3>1. SubSeq(s, 1, Len(s) - 1) \in Seq(X)
      BY <2>2, WithoutLast
    <3> QED
      BY <2>2, <3>1
  <2>3. CASE acts[k] \notin enters /\ acts[k] \in leaves /\ s = <<>>
    <3>1. SubSeq(s, 1, Len(s) - 1) = <<>>
      BY <2>3, SubSeqEmpty
    <3> QED
      BY <2>3, <3>1
  <2>4. CASE acts[k] \notin enters /\ acts[k] \notin leaves
    BY <2>4
  <2> QED
    BY <2>1, <2>2, <2>3, <2>4
<1> HIDE DEF After
<1>2. step \in [(1..n) \X V -> V] /\ \A k \in 1..n, s \in V : step[<<k, s>>] = After(k, s)
  <2>1. \A p \in (1..n) \X V : p[1] \in 1..n /\ p[2] \in V
    OBVIOUS
  <2> QED
    BY <1>1, <2>1
<1>3. <<>> \in V /\ n \in Nat
  OBVIOUS
<1> HIDE DEF step, n, V
<1>4. PICK f \in [0..n -> V] : f[0] = <<>> /\ \A k \in 1..n : f[k] = step[<<k, f[k-1]>>]
  <2>1. step \in [(1..n) \X V -> V]
    BY <1>2
  <2>2. <<>> \in V
    BY <1>3
  <2>3. n \in Nat
    BY <1>3
  <2>4. \E f \in [0..n -> V] : Recursive(f, <<>>, n, step)
    BY <2>1, <2>2, <2>3, Recursion
  <2> QED
    BY <2>4 DEF Recursive
<1>5. \A k \in 1..n : f[k-1] \in V /\ f[k] = After(k, f[k-1])
  <2> TAKE k \in 1..n
  <2>1. k - 1 \in 0..n
    BY <1>3
  <2>2. f[k-1] \in V
    BY <2>1
  <2> QED
    BY <1>2, <1>4, <2>2
<1>6. IsStack(f)
  <2> DEFINE g == [k \in 0..n |-> IF k = 0 THEN <<>> ELSE After(k, f[k-1])]
  <2>1. \A k \in 0..n : f[k] = g[k]
    <3> TAKE k \in 0..n
    <3>1. k # 0 => k \in 1..n
      BY <1>3
    <3> QED
      BY <1>4, <1>5, <3>1
  <2>2. f = [k \in 0..n |-> f[k]] /\ g = [k \in 0..n |-> g[k]]
    OBVIOUS
  <2> HIDE DEF g
  <2>3. f = g
    BY <2>1, <2>2
  <2> QED
    BY <2>3 DEF g
<1> DEFINE stack == Stacks(enters, leaves, acts, texts)
<1>7. stack = CHOOSE g : IsStack(g)
  BY DEF Stacks, n, After
<1> HIDE DEF stack, IsStack
<1>8. IsStack(stack)
  BY <1>6, <1>7
<1>9. stack[0] = <<>> /\ \A k \in 1..n : stack[k] = After(k, stack[k-1])
  <2> DEFINE g == [k \in 0..n |-> IF k = 0 THEN <<>> ELSE After(k, stack[k-1])]
  <2>1. stack = g
    BY <1>8 DEF IsStack
  <2>2. g[0] = <<>> /\ \A k \in 1..n : g[k] = After(k, stack[k-1])
    BY <1>3
  <2> HIDE DEF g
  <2> QED
    BY <2>1, <2>2
<1>10. stack = [k \in 0..n |-> stack[k]]
  <2> DEFINE g == [k \in 0..n |-> IF k = 0 THEN <<>> ELSE After(k, stack[k-1])]
  <2>1. stack = g
    BY <1>8 DEF IsStack
  <2>2. g = [k \in 0..n |-> g[k]]
    OBVIOUS
  <2> HIDE DEF g
  <2> QED
    BY <2>1, <2>2
<1>11. \A k \in 0..n : stack[k] \in V
  <2> DEFINE P == {k \in Nat : k \in 0..n => stack[k] \in V}
  <2>1. 0 \in P
    BY <1>3, <1>9
  <2>2. ASSUME NEW k \in Nat, k \in P PROVE k + 1 \in P
    <3> SUFFICES ASSUME k + 1 \in 0..n PROVE stack[k+1] \in V
      OBVIOUS
    <3>1. k \in 0..n /\ k + 1 \in 1..n /\ k + 1 - 1 = k
      BY <1>3
    <3>2. stack[k] \in V
      BY <2>2, <3>1
    <3>3. stack[k+1] = After(k + 1, stack[k])
      BY <1>9, <3>1
    <3>4. \A j \in 1..n : \A s \in V : After(j, s) \in V
      BY <1>1
    <3> QED
      BY <3>1, <3>2, <3>3, <3>4
  <2> HIDE DEF P
  <2>3. \A k \in Nat : k \in P
    BY <2>1, <2>2, SetInduction
  <2> QED
    BY <2>3 DEF P
<1>12. stack \in [0..n -> V]
  BY <1>10, <1>11
<1>13. \A k \in 1..n :
         /\ acts[k] \in enters => stack[k] = Append(stack[k-1], texts[k])
         /\ acts[k] \notin enters /\ acts[k] \in leaves
              => stack[k] = SubSeq(stack[k-1], 1, Len(stack[k-1]) - 1)
         /\ acts[k] \notin enters /\ acts[k] \notin leaves => stack[k] = stack[k-1]
  BY <1>9 DEF After
<1> QED
  BY <1>9, <1>12, <1>13 DEF stack, n, V, AreStacks

\* the first n actions and what was entered with them are the same
SameUpto(n, enters, acts, texts, more, said) ==
  \A k \in 1..n : acts[k] = more[k] /\ (acts[k] \in enters => texts[k] = said[k])

\* Stacks depend on what was done so far alone.
LEMMA StacksSame ==
  ASSUME NEW X, NEW enters, NEW leaves, NEW acts, Len(acts) \in Nat, NEW texts,
         Said(X, enters, acts, texts),
         NEW more, Len(more) \in Nat, NEW said,
         Said(X, enters, more, said),
         NEW n \in Nat, n <= Len(acts), n <= Len(more),
         SameUpto(n, enters, acts, texts, more, said)
  PROVE  \A k \in 0..n : Stacks(enters, leaves, acts, texts)[k]
                            = Stacks(enters, leaves, more, said)[k]
<1> DEFINE a == Stacks(enters, leaves, acts, texts)
           b == Stacks(enters, leaves, more, said)
           P == {k \in Nat : k <= n => a[k] = b[k]}
<1>1. AreStacks(a, enters, leaves, acts, texts)
  BY StacksAre
<1>2. AreStacks(b, enters, leaves, more, said)
  BY StacksAre
<1> HIDE DEF a, b
<1>3. 0 \in P
  BY <1>1, <1>2 DEF AreStacks
<1>4. ASSUME NEW k \in Nat, k \in P PROVE k + 1 \in P
  <2> SUFFICES ASSUME k + 1 <= n PROVE a[k+1] = b[k+1]
    OBVIOUS
  <2>1. PICK j \in 1..n : j = k + 1 /\ j - 1 = k /\ j \in 1..Len(acts) /\ j \in 1..Len(more)
    OBVIOUS
  <2>2. a[j-1] = b[j-1]
    BY <1>4, <2>1
  <2>3. acts[j] = more[j] /\ (acts[j] \in enters => texts[j] = said[j])
    BY <2>1 DEF SameUpto
  <2>4. /\ acts[j] \in enters => a[j] = Append(a[j-1], texts[j])
        /\ acts[j] \notin enters /\ acts[j] \in leaves
             => a[j] = SubSeq(a[j-1], 1, Len(a[j-1]) - 1)
        /\ acts[j] \notin enters /\ acts[j] \notin leaves => a[j] = a[j-1]
    BY <1>1, <2>1 DEF AreStacks
  <2>5. /\ more[j] \in enters => b[j] = Append(b[j-1], said[j])
        /\ more[j] \notin enters /\ more[j] \in leaves
             => b[j] = SubSeq(b[j-1], 1, Len(b[j-1]) - 1)
        /\ more[j] \notin enters /\ more[j] \notin leaves => b[j] = b[j-1]
    BY <1>2, <2>1 DEF AreStacks
  <2>6. a[j] = b[j]
    BY <2>2, <2>3, <2>4, <2>5
  <2> QED
    BY <2>1, <2>6
<1> HIDE DEF P
<1>5. \A k \in Nat : k \in P
  BY <1>3, <1>4, SetInduction
<1> QED
  BY <1>5 DEF P, a, b

\* one more action, and its stack
Grows(old, new, n, enters, leaves, kind, text) ==
  /\ \A k \in 0..n : new[k] = old[k]
  /\ kind \in enters => new[n+1] = Append(old[n], text)
  /\ kind \notin enters /\ kind \in leaves => new[n+1] = SubSeq(old[n], 1, Len(old[n]) - 1)
  /\ kind \notin enters /\ kind \notin leaves => new[n+1] = old[n]

\* An action is recorded: the stacks before it stay, and its own follows.
LEMMA StacksGrow ==
  ASSUME NEW X, NEW enters, NEW leaves, NEW A, NEW acts \in Seq(A), NEW kind \in A,
         NEW texts, Said(X, enters, acts, texts), NEW said,
         Said(X, enters, Append(acts, kind), said),
         \A k \in 1..Len(acts) : acts[k] \in enters => texts[k] = said[k]
  PROVE  Grows(Stacks(enters, leaves, acts, texts),
               Stacks(enters, leaves, Append(acts, kind), said),
               Len(acts), enters, leaves, kind, said[Len(acts) + 1])
<1> DEFINE n == Len(acts)
           more == Append(acts, kind)
           old == Stacks(enters, leaves, acts, texts)
           new == Stacks(enters, leaves, more, said)
<1>1. /\ n \in Nat /\ Len(more) \in Nat /\ Len(more) = n + 1
      /\ n <= Len(acts) /\ n <= Len(more)
      /\ \A k \in 1..n : acts[k] = more[k]
      /\ more[n+1] = kind
  OBVIOUS
<1> HIDE DEF n, more
<1>2. Said(X, enters, more, said)
  BY DEF more
<1>3. SameUpto(n, enters, acts, texts, more, said)
  BY <1>1 DEF n, SameUpto
<1>4. Len(acts) \in Nat
  BY <1>1 DEF n
<1>5. \A k \in 0..n : old[k] = new[k]
  <2>1. n \in Nat /\ Len(more) \in Nat /\ n <= Len(acts) /\ n <= Len(more)
    BY <1>1
  <2> QED
    BY <2>1, <1>2, <1>3, <1>4, StacksSame
<1>6. AreStacks(new, enters, leaves, more, said)
  BY <1>1, <1>2, StacksAre
<1> HIDE DEF old, new
<1>7. PICK j \in 1..Len(more) : j = n + 1 /\ j - 1 = n /\ n \in 0..n
  BY <1>1
<1>8. /\ more[j] \in enters => new[j] = Append(new[j-1], said[j])
      /\ more[j] \notin enters /\ more[j] \in leaves
           => new[j] = SubSeq(new[j-1], 1, Len(new[j-1]) - 1)
      /\ more[j] \notin enters /\ more[j] \notin leaves => new[j] = new[j-1]
  BY <1>6, <1>7 DEF AreStacks
<1>9. new[j-1] = old[n] /\ more[j] = kind /\ said[j] = said[n+1] /\ new[j] = new[n+1]
  BY <1>1, <1>5, <1>7
<1>10. /\ kind \in enters => new[n+1] = Append(old[n], said[n+1])
       /\ kind \notin enters /\ kind \in leaves => new[n+1] = SubSeq(old[n], 1, Len(old[n]) - 1)
       /\ kind \notin enters /\ kind \notin leaves => new[n+1] = old[n]
  BY <1>8, <1>9
<1>11. \A k \in 0..n : new[k] = old[k]
  BY <1>5
<1> QED
  BY <1>10, <1>11 DEF Grows, old, new, n, more

-----------------------------------------------------------------------------
(* The groups and tests around each action of the record.                  *)

Texts == [k \in 1..Len(actions) |-> Text(k)]
\* names of the groups and the test, and of the groups alone
Around == Stacks(Enters, Leaves, actions, Texts)
GroupsAround == Stacks({"GROUP_ENTER"}, {"GROUP_LEAVE"}, actions, Texts)

\* The strings of the record have no NUL inside.
LEMMA TextsKnown ==
  RecordInv => \A j \in 1..Len(actions) : actions[j] \in Stringed => Text(j) \in PlainStrings
  BY TextKnown

\* They are what the stacks are made of.
LEMMA TextsSaid ==
  ASSUME RecordInv, NEW enters, enters \subseteq Stringed
  PROVE  Said(PlainStrings, enters, actions, Texts)
<1> SUFFICES ASSUME NEW k \in 1..Len(actions), actions[k] \in enters
             PROVE  Texts[k] \in PlainStrings
  BY DEF Said
<1>1. Texts[k] = Text(k)
  BY DEF Texts
<1> QED
  BY <1>1, TextKnown

\* The actions that enter something have a string.
LEMMA EntersStringed ==
  /\ Enters \subseteq Stringed /\ {"GROUP_ENTER"} \subseteq Stringed
  /\ Enters \subseteq Kinds /\ Leaves \subseteq Kinds /\ Stringed \subseteq Kinds
  BY DEF Enters, Leaves, Stringed, Kinds

\* The names around every action, as stacks.
LEMMA AroundTyped ==
  ASSUME RecordInv
  PROVE  /\ Around \in [0..Len(actions) -> Seq(PlainStrings)]
         /\ GroupsAround \in [0..Len(actions) -> Seq(PlainStrings)]
         /\ AreStacks(Around, Enters, Leaves, actions, Texts)
         /\ AreStacks(GroupsAround, {"GROUP_ENTER"}, {"GROUP_LEAVE"}, actions, Texts)
<1>1. Len(actions) \in Nat
  BY DEF RecordInv
<1>2. Said(PlainStrings, Enters, actions, Texts) /\ Said(PlainStrings, {"GROUP_ENTER"}, actions, Texts)
  BY TextsSaid, EntersStringed
<1> QED
  BY <1>1, <1>2, StacksAre DEF Around, GroupsAround

\* An action is recorded, and all stacks follow.
LEMMA AroundGrows ==
  ASSUME RecordInv, RecordInv', NEW kind \in Kinds, Logged(kind)
  PROVE  LET n == Len(actions)
             text == TextOf(actions', strs', str_starts', n + 1)
         IN  /\ Len(actions') = n + 1 /\ n \in Nat
             /\ Grows(Around, Around', n, Enters, Leaves, kind, text)
             /\ Grows(GroupsAround, GroupsAround', n, {"GROUP_ENTER"}, {"GROUP_LEAVE"}, kind, text)
<1> DEFINE n == Len(actions)
           text == TextOf(actions', strs', str_starts', n + 1)
<1>1. actions \in Seq(Kinds) /\ n \in Nat /\ actions' = Append(actions, kind) /\ Len(actions') = n + 1
  BY DEF RecordInv, Logged
<1>2. ASSUME NEW enters, NEW leaves, enters \subseteq Stringed
      PROVE  Grows(Stacks(enters, leaves, actions, Texts), Stacks(enters, leaves, actions', Texts'),
                   n, enters, leaves, kind, text)
  <2>1. Said(PlainStrings, enters, actions, Texts)
    BY <1>2, TextsSaid
  <2>2. Said(PlainStrings, enters, actions', Texts')
    <3> SUFFICES ASSUME NEW k \in 1..Len(actions'), actions'[k] \in enters
                 PROVE  Texts'[k] \in PlainStrings
      BY DEF Said
    <3>1. Texts'[k] = Text(k)'
      BY DEF Texts
    <3>2. actions'[k] \in Stringed
      BY <1>2
    <3>3. (\A j \in 1..Len(actions) : actions[j] \in Stringed => Text(j) \in PlainStrings)'
      BY TextsKnown, PTL
    <3> QED
      BY <3>1, <3>2, <3>3
  <2>3. \A k \in 1..Len(actions) : actions[k] \in enters => Texts[k] = Texts'[k]
    <3> TAKE k \in 1..Len(actions)
    <3> HAVE actions[k] \in enters
    <3>1. k \in 1..Len(actions')
      BY <1>1
    <3>2. Texts'[k] = Text(k)'
      BY <3>1 DEF Texts
    <3>3. Texts[k] = Text(k)
      BY DEF Texts
    <3> QED
      BY <1>2, <3>2, <3>3 DEF Logged
  <2>4. Grows(Stacks(enters, leaves, actions, Texts), Stacks(enters, leaves, Append(actions, kind), Texts'),
              Len(actions), enters, leaves, kind, Texts'[Len(actions) + 1])
    BY <1>1, <2>1, <2>2, <2>3, StacksGrow
  <2>5. Texts'[n + 1] = text
    BY <1>1 DEF Texts, Text
  <2> QED
    BY <1>1, <2>4, <2>5
<1> QED
  BY <1>1, <1>2, EntersStringed DEF Around, GroupsAround

\* what is around the next action
TopAround == Around[Len(actions)]
TopGroups == GroupsAround[Len(actions)]

\* only what was entered is left
LeftInv ==
  \A k \in 1..Len(actions) : /\ actions[k] \in Leaves => Around[k-1] # <<>>
                             /\ actions[k] = "GROUP_LEAVE" => GroupsAround[k-1] # <<>>

\* Steps that leave the record alone change no stack.
LEMMA AroundStutter ==
  ASSUME RecordInv, UNCHANGED recordVars
  PROVE  /\ Around' = Around /\ GroupsAround' = GroupsAround /\ Texts' = Texts
         /\ TopAround' = TopAround /\ TopGroups' = TopGroups
         /\ LeftInv => LeftInv'
<1>1. actions' = actions /\ \A k : Text(k)' = Text(k)
  BY RecordStutter DEF recordVars
<1>2. Texts' = Texts
  BY <1>1 DEF Texts
<1>3. Around' = Around /\ GroupsAround' = GroupsAround
  BY <1>1, <1>2 DEF Around, GroupsAround
<1> QED
  BY <1>1, <1>2, <1>3 DEF TopAround, TopGroups, LeftInv

\* What is around the caller after an action.
LEMMA TopGrows ==
  ASSUME RecordInv, RecordInv', NEW kind \in Kinds, Logged(kind)
  PROVE  LET text == TextOf(actions', strs', str_starts', Len(actions) + 1)
         IN  /\ kind \in Enters => TopAround' = Append(TopAround, text)
             /\ kind \in Leaves => TopAround' = SubSeq(TopAround, 1, Len(TopAround) - 1)
             /\ kind = "TEST_FAIL" => TopAround' = TopAround
             /\ kind = "GROUP_ENTER" => TopGroups' = Append(TopGroups, text)
             /\ kind = "GROUP_LEAVE" => TopGroups' = SubSeq(TopGroups, 1, Len(TopGroups) - 1)
             /\ kind \notin {"GROUP_ENTER", "GROUP_LEAVE"} => TopGroups' = TopGroups
             /\ TopAround \in Seq(PlainStrings) /\ TopGroups \in Seq(PlainStrings)
<1> DEFINE n == Len(actions)
           text == TextOf(actions', strs', str_starts', n + 1)
<1>1. /\ Len(actions') = n + 1 /\ n \in Nat
      /\ Grows(Around, Around', n, Enters, Leaves, kind, text)
      /\ Grows(GroupsAround, GroupsAround', n, {"GROUP_ENTER"}, {"GROUP_LEAVE"}, kind, text)
  BY AroundGrows
<1>2. TopAround' = Around'[n + 1] /\ TopGroups' = GroupsAround'[n + 1]
  BY <1>1 DEF TopAround, TopGroups
<1>3. TopAround = Around[n] /\ TopGroups = GroupsAround[n]
  BY DEF TopAround, TopGroups
<1>4. TopAround \in Seq(PlainStrings) /\ TopGroups \in Seq(PlainStrings)
  <2>1. n \in 0..Len(actions)
    BY <1>1
  <2> QED
    BY <1>3, <2>1, AroundTyped
<1> HIDE DEF n, text
<1>5. /\ kind \in Enters => kind \notin Leaves /\ kind # "TEST_FAIL"
      /\ kind \in Leaves => kind \notin Enters /\ kind # "TEST_FAIL"
      /\ "TEST_FAIL" \notin Enters \cup Leaves
  BY DEF Enters, Leaves
<1>6. /\ kind \in Enters => TopAround' = Append(TopAround, text)
      /\ kind \in Leaves => TopAround' = SubSeq(TopAround, 1, Len(TopAround) - 1)
      /\ kind = "TEST_FAIL" => TopAround' = TopAround
  BY <1>1, <1>2, <1>3, <1>5 DEF Grows
<1>7. /\ kind = "GROUP_ENTER" => TopGroups' = Append(TopGroups, text)
      /\ kind = "GROUP_LEAVE" => TopGroups' = SubSeq(TopGroups, 1, Len(TopGroups) - 1)
      /\ kind \notin {"GROUP_ENTER", "GROUP_LEAVE"} => TopGroups' = TopGroups
  BY <1>1, <1>2, <1>3 DEF Grows
<1> QED
  BY <1>4, <1>6, <1>7 DEF n, text

\* An action that leaves something finds something open.
LEMMA LeftGrows ==
  ASSUME RecordInv, RecordInv', NEW kind \in Kinds, Logged(kind), LeftInv,
         kind \in Leaves => TopAround # <<>>, kind = "GROUP_LEAVE" => TopGroups # <<>>
  PROVE  LeftInv'
<1> DEFINE n == Len(actions)
           text == TextOf(actions', strs', str_starts', n + 1)
<1>1. /\ Len(actions') = n + 1 /\ n \in Nat
      /\ Grows(Around, Around', n, Enters, Leaves, kind, text)
      /\ Grows(GroupsAround, GroupsAround', n, {"GROUP_ENTER"}, {"GROUP_LEAVE"}, kind, text)
  BY AroundGrows
<1>2. \A k \in 0..n : Around'[k] = Around[k] /\ GroupsAround'[k] = GroupsAround[k]
  BY <1>1 DEF Grows
<1>3. actions' = Append(actions, kind) /\ actions \in Seq(Kinds)
  BY DEF Logged, RecordInv
<1>4. (\A k \in 1..n : actions'[k] = actions[k]) /\ actions'[n+1] = kind
  BY <1>3
<1> SUFFICES ASSUME NEW k \in 1..n+1
             PROVE  /\ actions'[k] \in Leaves => Around'[k-1] # <<>>
                    /\ actions'[k] = "GROUP_LEAVE" => GroupsAround'[k-1] # <<>>
  BY <1>1 DEF LeftInv
<1>5. k - 1 \in 0..n
  BY <1>1
<1>6. CASE k = n + 1
  <2>1. k - 1 = n
    BY <1>1, <1>6
  <2> QED
    BY <1>2, <1>4, <1>5, <1>6, <2>1 DEF TopAround, TopGroups
<1>7. CASE k # n + 1
  <2>1. k \in 1..n
    BY <1>1, <1>7
  <2> QED
    BY <1>2, <1>4, <1>5, <2>1 DEF LeftInv
<1> QED
  BY <1>6, <1>7

\* what is around the caller, and the test that runs
NowInv ==
  /\ Len(TopAround) = depth + (IF in_test THEN 1 ELSE 0) /\ Len(TopGroups) = depth
  /\ ~broke => /\ TopGroups = OpenGroups
               /\ in_test => /\ TopAround = Append(OpenGroups, Innermost.name)
                             /\ cases[Len(cases)].groups = OpenGroups
                             /\ cases[Len(cases)].name = Innermost.name
               /\ ~in_test => TopAround = OpenGroups
HistoryInv == LeftInv /\ NowInv

\* The names around the caller are strings without NUL.
LEMMA TopTyped ==
  ASSUME RecordInv
  PROVE  /\ TopAround \in Seq(PlainStrings) /\ TopGroups \in Seq(PlainStrings)
         /\ Len(TopAround) \in Nat /\ Len(TopGroups) \in Nat
<1>1. Len(actions) \in 0..Len(actions)
  BY DEF RecordInv
<1>2. TopAround \in Seq(PlainStrings) /\ TopGroups \in Seq(PlainStrings)
  BY <1>1, AroundTyped DEF TopAround, TopGroups
<1> QED
  BY <1>2

\* The length of a stack of an element more or less.
LEMMA StackLengths ==
  ASSUME NEW S, NEW s \in Seq(S)
  PROVE  /\ \A x \in S : Append(s, x) \in Seq(S) /\ Len(Append(s, x)) = Len(s) + 1
         /\ \A x \in S : SubSeq(Append(s, x), 1, Len(Append(s, x)) - 1) = s
         /\ s # <<>> => Len(SubSeq(s, 1, Len(s) - 1)) = Len(s) - 1
         /\ Len(s) # 0 <=> s # <<>>
         /\ Len(s) \in Nat
<1>1. \A x \in S : Append(s, x) \in Seq(S) /\ Len(Append(s, x)) = Len(s) + 1
  OBVIOUS
<1>2. ASSUME NEW x \in S PROVE SubSeq(Append(s, x), 1, Len(Append(s, x)) - 1) = s
  <2>1. Len(Append(s, x)) - 1 = Len(s)
    OBVIOUS
  <2>2. SubSeq(Append(s, x), 1, Len(s)) = s
    OBVIOUS
  <2> QED
    BY <2>1, <2>2
<1> QED
  BY <1>1, <1>2, WithoutLast

\* A group starts: it is around what follows.
LEMMA GroupStartHistory ==
  ASSUME CallsInv, HistoryInv, NEW name \in Names, sentest_group_start(name)
  PROVE  HistoryInv'
<1> LoopsInv /\ RecordInv /\ AccountInv /\ LeftInv /\ NowInv
  BY DEF CallsInv, HistoryInv
<1>1. /\ InBody /\ ~in_test /\ depth' = depth + 1 /\ should_exit_group' = FALSE
      /\ Enter("group", name, Len(groups) + 1) /\ UNCHANGED <<in_test, cases, broke>>
  BY DEF sentest_group_start
<1>2. /\ RecordInv' /\ Logged("GROUP_ENTER") /\ "GROUP_ENTER" \in Kinds
      /\ TextOf(actions', strs', str_starts', Len(actions) + 1) = name
  BY GroupStartAccount DEF Kinds
<1>3. /\ TopAround' = Append(TopAround, name) /\ TopGroups' = Append(TopGroups, name)
      /\ TopAround \in Seq(PlainStrings) /\ TopGroups \in Seq(PlainStrings)
  BY <1>2, TopGrows DEF Enters
<1>4. LeftInv'
  BY <1>2, LeftGrows DEF Leaves
<1>5. name \in PlainStrings
  BY NamesPlain
<1>6. Len(TopAround') = Len(TopAround) + 1 /\ Len(TopGroups') = Len(TopGroups) + 1
  BY <1>3, <1>5, StackLengths
<1>7. Len(groups) + 1 \in Nat
  BY DEF AccountInv
<1>8. ~broke => OpenGroups' = Append(OpenGroups, name)
  BY <1>1, <1>7, EnterOpens
<1>9. depth \in Int
  BY DEF LoopsInv, LoopTypes
<1>10. NowInv'
  BY <1>1, <1>3, <1>6, <1>8, <1>9 DEF NowInv
<1> QED
  BY <1>4, <1>10 DEF HistoryInv

\* A test that is filtered out is not on record.
LEMMA TestSkippedHistory ==
  ASSUME CallsInv, HistoryInv, NEW name \in Names, TestSkipped(name)
  PROVE  HistoryInv'
<1> LoopsInv /\ RecordInv /\ AccountInv /\ LeftInv /\ NowInv
  BY DEF CallsInv, HistoryInv
<1>1. /\ InBody /\ ~in_test /\ Enter("test", name, 0) /\ UNCHANGED recordVars
      /\ UNCHANGED <<depth, in_test, should_exit_group, cases, broke>>
  BY DEF TestSkipped, flagVars
<1>2. TopAround' = TopAround /\ TopGroups' = TopGroups /\ LeftInv'
  BY <1>1, AroundStutter
<1>3. ~broke => OpenGroups' = OpenGroups
  <2> HAVE ~broke
  <2>1. should_exit_group' = FALSE
    BY <1>1, InGroups DEF LoopsInv, LoopTypes
  <2> QED
    BY <1>1, <2>1, EnterOpens
<1>4. NowInv'
  BY <1>1, <1>2, <1>3 DEF NowInv
<1> QED
  BY <1>2, <1>4 DEF HistoryInv

\* A test starts: its groups are those around it on record.
LEMMA TestStartHistory ==
  ASSUME CallsInv, HistoryInv, NEW name \in Names, TestStart(name)
  PROVE  HistoryInv'
<1> LoopsInv /\ RecordInv /\ AccountInv /\ LeftInv /\ NowInv
  BY DEF CallsInv, HistoryInv
<1>1. /\ InBody /\ ~in_test /\ in_test' = TRUE /\ Enter("test", name, Len(cases) + 1)
      /\ cases' = Append(cases, [groups |-> OpenNames, name |-> name, reasons |-> <<>>])
      /\ UNCHANGED <<depth, should_exit_group, broke>>
  BY DEF TestStart
<1>2. /\ RecordInv' /\ Logged("TEST_ENTER") /\ "TEST_ENTER" \in Kinds
      /\ TextOf(actions', strs', str_starts', Len(actions) + 1) = name
  BY TestStartAccount DEF Kinds
<1>3. /\ TopAround' = Append(TopAround, name) /\ TopGroups' = TopGroups
      /\ TopAround \in Seq(PlainStrings)
  BY <1>2, TopGrows DEF Enters
<1>4. LeftInv'
  BY <1>2, LeftGrows DEF Leaves
<1>5. Len(TopAround') = Len(TopAround) + 1
  BY <1>3, NamesPlain, StackLengths
<1>6. Len(cases) + 1 \in Nat /\ Len(cases) \in Nat
  BY DEF AccountInv
<1>7. ASSUME ~broke
      PROVE  OpenGroups' = OpenGroups /\ OpenGroups = OpenNames /\ Innermost'.name = name
  <2>1. should_exit_group' = FALSE
    BY <1>1, <1>7, InGroups DEF LoopsInv, LoopTypes
  <2>2. OpenGroups' = OpenGroups
    BY <1>1, <1>6, <1>7, <2>1, EnterOpens
  <2>3. OpenGroups = OpenNames
    BY <1>1, <1>7, OpenInGroups
  <2>4. Innermost'.name = name
    <3> DEFINE loop == [kind |-> "test", name |-> name, at |-> "condition", runs |-> 0,
                        number |-> Len(cases) + 1]
    <3>1. bodies' = Append(bodies, loop) /\ loop.name = name /\ bodies \in Seq(Loop)
      BY <1>1 DEF Enter, LoopsInv, LoopTypes
    <3> HIDE DEF loop
    <3>2. Innermost' = loop
      BY <3>1 DEF Innermost
    <3> QED
      BY <3>1, <3>2
  <2> QED
    BY <2>2, <2>3, <2>4
<1>8. cases'[Len(cases')].groups = OpenNames /\ cases'[Len(cases')].name = name
  <2> DEFINE new == [groups |-> OpenNames, name |-> name, reasons |-> <<>>]
  <2>1. cases' = Append(cases, new) /\ cases \in Seq(Case) /\ new.groups = OpenNames /\ new.name = name
    BY <1>1 DEF AccountInv
  <2> HIDE DEF new
  <2>2. cases'[Len(cases')] = new
    BY <2>1
  <2> QED
    BY <2>1, <2>2
<1>9. depth \in Int
  BY DEF LoopsInv, LoopTypes
<1>10. NowInv'
  <2>1. Len(TopAround') = depth' + 1 /\ Len(TopGroups') = depth'
    BY <1>1, <1>3, <1>5, <1>9 DEF NowInv
  <2>2. ASSUME ~broke PROVE /\ TopGroups' = OpenGroups' /\ TopAround' = Append(OpenGroups', Innermost'.name)
                            /\ cases'[Len(cases')].groups = OpenGroups'
                            /\ cases'[Len(cases')].name = Innermost'.name
    BY <1>1, <1>3, <1>7, <1>8, <2>2 DEF NowInv
  <2> QED
    BY <1>1, <2>1, <2>2 DEF NowInv
<1> QED
  BY <1>4, <1>10 DEF HistoryInv

\* An assertion fails or not: nothing starts or ends.
LEMMA AssertionHistory ==
  ASSUME CallsInv, HistoryInv, NEW assertion \in Assertions, NEW condition \in BOOLEAN,
         NEW reason \in Reasons, MakeAssertion(assertion, condition, reason)
  PROVE  HistoryInv'
<1> LoopsInv /\ RecordInv /\ AccountInv /\ LeftInv /\ NowInv
  BY DEF CallsInv, HistoryInv
<1>1. /\ in_test /\ UNCHANGED <<depth, bodies, in_test, should_exit_group, broke>>
      /\ cases' = IF ClaimHolds(assertion, condition) THEN cases
                  ELSE [cases EXCEPT ![Len(cases)].reasons = Append(@, reason)]
  BY DEF MakeAssertion
<1>2. /\ RecordInv'
      /\ UNCHANGED recordVars \/ Logged("TEST_FAIL")
  BY AssertionRecord
<1>3. TopAround' = TopAround /\ TopGroups' = TopGroups /\ LeftInv'
  <2>1. CASE UNCHANGED recordVars
    BY <2>1, AroundStutter
  <2>2. CASE Logged("TEST_FAIL")
    <3>1. "TEST_FAIL" \in Kinds /\ "TEST_FAIL" \notin Leaves
      BY DEF Kinds, Leaves
    <3> QED
      BY <1>2, <2>2, <3>1, TopGrows, LeftGrows
  <2> QED
    BY <1>2, <2>1, <2>2
<1>4. /\ cases'[Len(cases')].groups = cases[Len(cases)].groups
      /\ cases'[Len(cases')].name = cases[Len(cases)].name
  <2>1. CASE ClaimHolds(assertion, condition)
    BY <1>1, <2>1
  <2>2. CASE ~ClaimHolds(assertion, condition)
    <3> DEFINE last == [cases[Len(cases)] EXCEPT !.reasons = Append(@, reason)]
    <3>1. cases \in Seq(Case) /\ cases # <<>> /\ cases' = [cases EXCEPT ![Len(cases)] = last]
      BY <1>1, <2>2 DEF AccountInv
    <3>2. cases[Len(cases)] \in Case
      BY <3>1
    <3>3. last.groups = cases[Len(cases)].groups /\ last.name = cases[Len(cases)].name
      BY <3>2 DEF Case
    <3> HIDE DEF last
    <3>4. cases'[Len(cases')] = last
      BY <3>1
    <3> QED
      BY <3>3, <3>4
  <2> QED
    BY <2>1, <2>2
<1>5. OpenGroups' = OpenGroups /\ Innermost' = Innermost
  BY <1>1 DEF OpenGroups, OpenNames, Innermost
<1>6. NowInv'
  BY <1>1, <1>3, <1>4, <1>5 DEF NowInv
<1> QED
  BY <1>3, <1>6 DEF HistoryInv

\* A condition is evaluated: the record stays.
LEMMA ConditionHistory ==
  ASSUME CallsInv, HistoryInv, sentest_group_should_continue \/ sentest_test_should_continue
  PROVE  HistoryInv'
<1> LoopsInv /\ RecordInv /\ AccountInv /\ LeftInv /\ NowInv
  BY DEF CallsInv, HistoryInv
<1>1. bodies # <<>> /\ UNCHANGED recordVars /\ UNCHANGED <<depth, in_test, cases, broke>>
  BY DEF sentest_group_should_continue, sentest_test_should_continue, AtCondition,
     trueVars, harnessVars, flagVars
<1>2. TopAround' = TopAround /\ TopGroups' = TopGroups /\ LeftInv'
  BY <1>1, AroundStutter
<1>3. OpenGroups' = OpenGroups /\ (in_test /\ ~broke => Innermost'.name = Innermost.name)
  <2>1. CASE sentest_group_should_continue
    <3>1. /\ Innermost.kind = "group" /\ Innermost.at = "condition" /\ should_exit_group' = FALSE
          /\ bodies' = IF should_exit_group THEN Outer
                       ELSE [At("body") EXCEPT ![Len(bodies)].runs = @ + 1]
      BY <2>1 DEF sentest_group_should_continue, AtCondition
    <3>2. in_test => broke
      BY <1>1, <3>1 DEF LoopsInv, InnermostInv
    <3>3. OpenGroups' = OpenGroups
      <4>1. CASE should_exit_group
        BY <1>1, <3>1, <4>1, OuterOpens
      <4>2. CASE ~should_exit_group
        <5>1. PICK loop \in Loop : /\ bodies' = [bodies EXCEPT ![Len(bodies)] = loop]
                                   /\ loop.kind = Innermost.kind /\ loop.name = Innermost.name
          BY <1>1, <3>1, <4>2, RunsOn
        <5>2. should_exit_group' = should_exit_group
          BY <3>1, <4>2 DEF LoopsInv, LoopTypes
        <5> QED
          BY <1>1, <5>1, <5>2, MoveOpens
      <4> QED
        BY <4>1, <4>2
    <3> QED
      BY <3>2, <3>3
  <2>2. CASE sentest_test_should_continue
    <3>1. /\ Innermost.kind = "test" /\ Innermost.at = "condition"
          /\ should_exit_group' = should_exit_group
          /\ bodies' = IF in_test THEN [At("body") EXCEPT ![Len(bodies)].runs = @ + 1] ELSE Outer
      BY <2>2 DEF sentest_test_should_continue, AtCondition, harnessVars, flagVars
    <3>2. CASE in_test
      <4>1. PICK loop \in Loop : /\ bodies' = [bodies EXCEPT ![Len(bodies)] = loop]
                                 /\ loop.kind = Innermost.kind /\ loop.name = Innermost.name
        BY <1>1, <3>1, <3>2, RunsOn
      <4>2. OpenGroups' = OpenGroups
        BY <1>1, <3>1, <4>1, MoveOpens
      <4>3. Innermost' = loop
        BY <1>1, <4>1 DEF Innermost, LoopsInv, LoopTypes
      <4> QED
        BY <4>1, <4>2, <4>3
    <3>3. CASE ~in_test
      <4>1. should_exit_group' = FALSE
        BY <1>1, <3>1 DEF LoopsInv, LoopTypes, InnermostInv
      <4> QED
        BY <1>1, <3>1, <3>3, <4>1, OuterOpens
    <3> QED
      BY <3>2, <3>3
  <2> QED
    BY <2>1, <2>2
<1>4. NowInv'
  BY <1>1, <1>2, <1>3 DEF NowInv
<1> QED
  BY <1>2, <1>4 DEF HistoryInv

\* A group ends: the innermost one on record.
LEMMA GroupEndHistory ==
  ASSUME CallsInv, HistoryInv, sentest_group_end
  PROVE  HistoryInv'
<1> LoopsInv /\ RecordInv /\ AccountInv /\ LeftInv /\ NowInv
  BY DEF CallsInv, HistoryInv
<1>1. /\ InBody /\ bodies # <<>> /\ Innermost.kind = "group" /\ ~in_test /\ in_test' = in_test
      /\ depth' = depth - 1 /\ should_exit_group' = TRUE /\ bodies' = At("condition")
      /\ UNCHANGED <<cases, broke>>
  BY DEF sentest_group_end, InBodyOf, trueVars
<1>2. RecordInv' /\ Logged("GROUP_LEAVE") /\ "GROUP_LEAVE" \in Kinds /\ "GROUP_LEAVE" \in Leaves
  BY GroupEndAccount DEF Kinds, Leaves
<1>3. /\ TopAround' = SubSeq(TopAround, 1, Len(TopAround) - 1)
      /\ TopGroups' = SubSeq(TopGroups, 1, Len(TopGroups) - 1)
      /\ TopAround \in Seq(PlainStrings) /\ TopGroups \in Seq(PlainStrings)
  BY <1>2, TopGrows
<1>4. bodies \in Seq(Loop) /\ Len(bodies) \in Nat /\ Len(bodies) # 0 /\ depth \in Int
  BY <1>1 DEF LoopsInv, LoopTypes
<1>5. depth >= 1
  <2>1. Innermost.at = "body" /\ ~should_exit_group
    BY <1>1 DEF InBody, LoopsInv, InnermostInv
  <2>2. NumberOpen = Len(bodies)
    BY <1>1, <2>1 DEF NumberOpen
  <2> QED
    BY <1>4, <2>2 DEF LoopsInv
<1>6. Len(TopAround) = depth /\ Len(TopGroups) = depth
  BY <1>1, <1>4 DEF NowInv
<1>7. TopAround # <<>> /\ TopGroups # <<>>
  BY <1>5, <1>6
<1>8. LeftInv'
  BY <1>2, <1>7, LeftGrows
<1>9. Len(TopAround') = Len(TopAround) - 1 /\ Len(TopGroups') = Len(TopGroups) - 1
  BY <1>3, <1>7, StackLengths
<1>10. ASSUME ~broke PROVE TopGroups' = OpenGroups' /\ TopAround' = OpenGroups'
  <2>1. PICK loop \in Loop : /\ bodies' = [bodies EXCEPT ![Len(bodies)] = loop]
                             /\ loop.kind = Innermost.kind /\ loop.name = Innermost.name
    BY <1>1, Moves
  <2>2. bodies' # <<>> /\ NamesOf(bodies') = NamesOf(bodies) /\ Len(bodies') = Len(bodies)
    BY <1>1, <2>1, MoveOpens
  <2>3. OpenGroups = NamesOf(bodies)
    BY <1>1, <1>10, OpenInGroups
  <2>4. OpenGroups' = OpenIn(bodies', TRUE)
    BY <1>1 DEF OpenGroups, OpenIn, OpenNames, NamesOf, Innermost
  <2>5. OpenGroups' = SubSeq(OpenGroups, 1, Len(bodies) - 1)
    BY <2>2, <2>3, <2>4 DEF OpenIn
  <2>6. TopGroups = OpenGroups /\ TopAround = OpenGroups
    BY <1>1, <1>10 DEF NowInv
  <2>7. Len(bodies) = Len(OpenGroups)
    BY <1>4, <2>3, NamesTyped
  <2> QED
    BY <1>3, <2>5, <2>6, <2>7
<1>11. NowInv'
  BY <1>1, <1>4, <1>6, <1>9, <1>10 DEF NowInv
<1> QED
  BY <1>8, <1>11 DEF HistoryInv

\* A test ends: the innermost entry on record.
LEMMA TestEndHistory ==
  ASSUME CallsInv, HistoryInv, sentest_end_internal
  PROVE  HistoryInv'
<1> LoopsInv /\ RecordInv /\ AccountInv /\ LeftInv /\ NowInv
  BY DEF CallsInv, HistoryInv
<1>1. /\ InBody /\ bodies # <<>> /\ Innermost.kind = "test" /\ in_test' = FALSE
      /\ bodies' = At("condition") /\ UNCHANGED <<cases, broke, depth, should_exit_group>>
  BY DEF sentest_end_internal, InBodyOf
<1>2. RecordInv' /\ Logged("TEST_LEAVE") /\ "TEST_LEAVE" \in Kinds /\ "TEST_LEAVE" \in Leaves
  BY TestEndAccount DEF Kinds, Leaves
<1>3. /\ TopAround' = SubSeq(TopAround, 1, Len(TopAround) - 1) /\ TopGroups' = TopGroups
      /\ TopAround \in Seq(PlainStrings)
  BY <1>2, TopGrows
<1>4. in_test
  BY <1>1 DEF InBody, LoopsInv, InnermostInv
<1>5. depth \in Int /\ depth >= 0
  <2>1. bodies \in Seq(Loop) /\ Len(bodies) \in Nat /\ Len(bodies) # 0 /\ depth \in Int
    BY <1>1 DEF LoopsInv, LoopTypes
  <2>2. NumberOpen = Len(bodies) - 1
    BY <1>1 DEF NumberOpen
  <2> QED
    BY <2>1, <2>2 DEF LoopsInv
<1>6. Len(TopAround) = depth + 1
  BY <1>4 DEF NowInv
<1>7. TopAround # <<>>
  BY <1>5, <1>6
<1>8. LeftInv'
  BY <1>2, <1>7, LeftGrows
<1>9. Len(TopAround') = Len(TopAround) - 1
  BY <1>3, <1>7, StackLengths
<1>10. OpenGroups' = OpenGroups
  <2>1. PICK loop \in Loop : /\ bodies' = [bodies EXCEPT ![Len(bodies)] = loop]
                             /\ loop.kind = Innermost.kind /\ loop.name = Innermost.name
    BY <1>1, Moves
  <2> QED
    BY <1>1, <2>1, MoveOpens
<1>11. ASSUME ~broke PROVE TopAround' = OpenGroups
  <2>1. TopAround = Append(OpenGroups, Innermost.name)
    BY <1>4, <1>11 DEF NowInv
  <2>2. OpenGroups \in Seq(Names) /\ Innermost.name \in Names
    <3>1. Innermost \in Loop
      BY <1>1 DEF LoopsInv, LoopTypes, Innermost
    <3> QED
      BY <3>1, OpenGroupsTyped DEF Loop
  <2>3. SubSeq(Append(OpenGroups, Innermost.name), 1, Len(Append(OpenGroups, Innermost.name)) - 1) = OpenGroups
    BY <2>2, StackLengths
  <2> QED
    BY <1>3, <2>1, <2>3
<1>12. NowInv'
  BY <1>1, <1>3, <1>5, <1>6, <1>9, <1>10, <1>11, <1>4 DEF NowInv
<1> QED
  BY <1>8, <1>12 DEF HistoryInv

\* Every call keeps the record's nesting that of the caller.
LEMMA CallsKeepHistory ==
  ASSUME CallsInv, HistoryInv, Calls
  PROVE  HistoryInv'
<1>1. CASE Break
  <2>1. UNCHANGED recordVars /\ UNCHANGED <<depth, in_test, cases>> /\ broke' = TRUE
    BY <1>1 DEF Break, harnessVars, flagVars
  <2> QED
    BY <2>1, AroundStutter DEF HistoryInv, NowInv, CallsInv
<1>2. CASE AssertStops
  <2>1. UNCHANGED recordVars
        /\ UNCHANGED <<depth, in_test, cases, broke, bodies, should_exit_group>>
    BY <1>2 DEF AssertStops, callVars, harnessVars, flagVars, trueVars
  <2> QED
    BY <2>1, AroundStutter DEF HistoryInv, NowInv, CallsInv, OpenGroups, OpenNames, Innermost
<1> QED
  BY <1>1, <1>2, GroupStartHistory, TestSkippedHistory, TestStartHistory, AssertionHistory,
     ConditionHistory, GroupEndHistory, TestEndHistory DEF Calls

\* So does every step.
LEMMA HistoryStep ==
  ASSUME CallsInv, HistoryInv, [Next]_vars
  PROVE  HistoryInv'
<1>1. ASSUME UNCHANGED callerVars PROVE HistoryInv'
  <2>1. UNCHANGED recordVars
        /\ UNCHANGED <<depth, in_test, cases, broke, bodies, should_exit_group>>
    BY <1>1 DEF callerVars, flagVars, trueVars
  <2> QED
    BY <2>1, AroundStutter DEF HistoryInv, NowInv, CallsInv, OpenGroups, OpenNames, Innermost
<1>2. ASSUME UNCHANGED vars PROVE UNCHANGED callerVars
  BY <1>2 DEF vars, callVars, harnessVars, callerVars
<1> QED
  BY <1>1, <1>2, StepsOfNext, CallsKeepHistory, FinishingReads

\* It does so at the start.
LEMMA InitHistory ==
  ASSUME ReportInit
  PROVE  HistoryInv
<1>1. /\ actions = <<>> /\ bodies = <<>> /\ depth = 0 /\ in_test = FALSE /\ Len(actions) = 0
  BY DEF ReportInit, Init
<1>2. RecordInv
  BY InitCalls DEF CallsInv
<1>3. TopAround = <<>> /\ TopGroups = <<>>
  <2>1. Around[0] = <<>> /\ GroupsAround[0] = <<>>
    BY <1>2, AroundTyped DEF AreStacks
  <2> QED
    BY <1>1, <2>1 DEF TopAround, TopGroups
<1>4. OpenGroups = <<>>
  <2>1. OpenNames = <<>>
    BY <1>1 DEF OpenNames
  <2> QED
    BY <1>1, <2>1 DEF OpenGroups
<1>5. LeftInv
  BY <1>1 DEF LeftInv
<1>6. NowInv
  BY <1>1, <1>3, <1>4 DEF NowInv
<1> QED
  BY <1>5, <1>6 DEF HistoryInv

-----------------------------------------------------------------------------
(* The failures: those of the cases are those of the record.               *)

Report == [path : Seq(Plain), reason : PlainStrings]

\* the failures of the record, after each action
FailureAt(k) == [path |-> Spell(Around[k]), reason |-> Text(k)]
FailureEntries == [k \in 1..Len(actions) |-> FailureAt(k)]
Failures == Stacks({"TEST_FAIL"}, {}, actions, FailureEntries)

\* the failures of a test
FailuresOf(test) ==
  [r \in 1..Len(test.reasons) |->
    [path |-> Spell(Append(test.groups, test.name)), reason |-> test.reasons[r]]]

FailuresInv == ~broke => TrueFailures = Failures[Len(actions)]

\* The failures of a test, and how many they are.
LEMMA FailuresOfTyped ==
  ASSUME NEW test \in Case
  PROVE  FailuresOf(test) \in Seq(Report) /\ Len(FailuresOf(test)) = Len(test.reasons)
<1>1. test.groups \in Seq(Names) /\ test.name \in Names /\ test.reasons \in Seq(Reasons)
  BY DEF Case
<1>2. Names \subseteq PlainStrings /\ Reasons \subseteq PlainStrings
  BY NamesPlain
<1>3. Append(test.groups, test.name) \in Seq(PlainStrings)
  <2>1. test.groups \in Seq(PlainStrings) /\ test.name \in PlainStrings
    BY <1>1, <1>2, SeqMonotonic
  <2> QED
    BY <2>1
<1>4. Spell(Append(test.groups, test.name)) \in Seq(Plain)
  BY <1>3, SpellPlain
<1>5. \A r \in 1..Len(test.reasons) : test.reasons[r] \in PlainStrings
  BY <1>1, <1>2
<1>6. Len(test.reasons) \in Nat
  BY <1>1
<1> DEFINE p == Spell(Append(test.groups, test.name))
           e(r) == [path |-> p, reason |-> test.reasons[r]]
<1>7. \A r \in 1..Len(test.reasons) : e(r) \in Report
  BY <1>4, <1>5 DEF Report
<1>8. FailuresOf(test) = [r \in 1..Len(test.reasons) |-> e(r)]
  BY DEF FailuresOf
<1> HIDE DEF e
<1>9. [r \in 1..Len(test.reasons) |-> e(r)] \in Seq(Report)
  BY <1>6, <1>7, IsASeq
<1>10. Len([r \in 1..Len(test.reasons) |-> e(r)]) = Len(test.reasons)
  BY <1>6
<1> QED
  BY <1>8, <1>9, <1>10

\* One failure more.
LEMMA FailuresOfGrow ==
  ASSUME NEW test \in Case, NEW reason \in Reasons
  PROVE  FailuresOf([test EXCEPT !.reasons = Append(@, reason)])
           = Append(FailuresOf(test), [path |-> Spell(Append(test.groups, test.name)), reason |-> reason])
<1> DEFINE longer == Append(test.reasons, reason)
           next == [test EXCEPT !.reasons = longer]
           entry == [path |-> Spell(Append(test.groups, test.name)), reason |-> reason]
           f == FailuresOf(test)
           n == Len(test.reasons)
<1>1. test.reasons \in Seq(Reasons) /\ n \in Nat
  BY DEF Case
<1>2. /\ longer \in Seq(Reasons) /\ Len(longer) = n + 1 /\ longer[n + 1] = reason
      /\ \A r \in 1..n : longer[r] = test.reasons[r]
  BY <1>1
<1> HIDE DEF longer
<1>3. next \in Case /\ next.groups = test.groups /\ next.name = test.name /\ next.reasons = longer
  BY <1>2 DEF Case
<1>4. f \in Seq(Report) /\ Len(f) = n
  BY FailuresOfTyped
<1>5. FailuresOf(next) \in Seq(Report) /\ Len(FailuresOf(next)) = n + 1
  BY <1>2, <1>3, FailuresOfTyped
<1>6. entry \in Report
  <2>1. Append(test.groups, test.name) \in Seq(PlainStrings)
    <3>1. test.groups \in Seq(Names) /\ test.name \in Names /\ Names \subseteq PlainStrings
      BY NamesPlain DEF Case
    <3>2. test.groups \in Seq(PlainStrings) /\ test.name \in PlainStrings
      BY <3>1, SeqMonotonic
    <3> QED
      BY <3>2
  <2>2. reason \in PlainStrings
    BY NamesPlain
  <2> QED
    BY <2>1, <2>2, SpellPlain DEF Report
<1>7. \A r \in 1..n + 1 : FailuresOf(next)[r]
                            = [path |-> Spell(Append(test.groups, test.name)), reason |-> longer[r]]
  BY <1>2, <1>3 DEF FailuresOf
<1>8. \A r \in 1..n : f[r] = [path |-> Spell(Append(test.groups, test.name)), reason |-> test.reasons[r]]
  BY DEF FailuresOf
<1> DEFINE g == FailuresOf(next)
<1> HIDE DEF f, g, next, n
<1>9. /\ Append(f, entry) \in Seq(Report) /\ Len(Append(f, entry)) = n + 1
      /\ Append(f, entry)[n + 1] = entry /\ \A r \in 1..n : Append(f, entry)[r] = f[r]
  <2> HIDE DEF entry
  <2> QED
    BY <1>4, <1>6, AppendProperties
<1>10. \A r \in 1..n + 1 : g[r] = Append(f, entry)[r]
  <2> TAKE r \in 1..n + 1
  <2>1. CASE r = n + 1
    BY <2>1, <1>2, <1>7, <1>9 DEF g
  <2>2. CASE r # n + 1
    <3>1. r \in 1..n
      BY <1>1, <2>2
    <3>2. g[r] = f[r]
      BY <3>1, <1>2, <1>7, <1>8 DEF g
    <3> QED
      BY <3>1, <3>2, <1>9
  <2> QED
    BY <2>1, <2>2
<1>11. g = Append(f, entry)
  BY <1>5, <1>9, <1>10, SeqEqual DEF g
<1> QED
  BY <1>11 DEF f, g, next, longer

\* The failures of all tests, flattened.
LEMMA TrueFailuresAre ==
  ASSUME AccountInv
  PROVE  /\ TrueFailures = FlattenSeq([k \in 1..Len(cases) |-> FailuresOf(cases[k])])
         /\ [k \in 1..Len(cases) |-> FailuresOf(cases[k])] \in Seq(Seq(Report))
         /\ TrueFailures \in Seq(Report)
<1>1. TrueFailures = FlattenSeq([k \in 1..Len(cases) |-> FailuresOf(cases[k])])
  BY DEF TrueFailures, FailuresOf
<1>2. cases \in Seq(Case) /\ Len(cases) \in Nat
  BY DEF AccountInv
<1>3. \A k \in 1..Len(cases) : FailuresOf(cases[k]) \in Seq(Report)
  BY <1>2, FailuresOfTyped
<1>4. [k \in 1..Len(cases) |-> FailuresOf(cases[k])] \in Seq(Seq(Report))
  <2> DEFINE e(k) == FailuresOf(cases[k])
  <2>1. \A k \in 1..Len(cases) : e(k) \in Seq(Report)
    BY <1>3
  <2> HIDE DEF e
  <2>2. [k \in 1..Len(cases) |-> e(k)] \in Seq(Seq(Report))
    BY <1>2, <2>1, IsASeq
  <2> QED
    BY <2>2 DEF e
<1> QED
  BY <1>1, <1>4, FlattenIn

\* Every failure of the record has a path and a reason.
LEMMA FailureEntriesSaid ==
  ASSUME RecordInv
  PROVE  Said(Report, {"TEST_FAIL"}, actions, FailureEntries)
<1> SUFFICES ASSUME NEW k \in 1..Len(actions), actions[k] = "TEST_FAIL"
             PROVE  FailureEntries[k] \in Report
  BY DEF Said
<1>1. FailureEntries[k] = FailureAt(k)
  BY DEF FailureEntries
<1>2. Text(k) \in PlainStrings
  BY TextKnown DEF Stringed
<1>3. k \in 0..Len(actions)
  BY DEF RecordInv
<1>4. Spell(Around[k]) \in Seq(Plain)
  BY <1>3, AroundTyped, SpellPlain
<1> QED
  BY <1>1, <1>2, <1>4 DEF FailureAt, Report

\* The failures of the record, as stacks that only grow.
LEMMA FailuresTyped ==
  ASSUME RecordInv
  PROVE  /\ Failures \in [0..Len(actions) -> Seq(Report)]
         /\ AreStacks(Failures, {"TEST_FAIL"}, {}, actions, FailureEntries)
<1>1. Len(actions) \in Nat
  BY DEF RecordInv
<1>2. Said(Report, {"TEST_FAIL"}, actions, FailureEntries)
  BY FailureEntriesSaid
<1> QED
  BY <1>1, <1>2, StacksAre DEF Failures

\* FailureEntriesSaid, for the next state too.
LEMMA FailuresSaid ==
  RecordInv => \A k \in 1..Len(actions) : actions[k] \in {"TEST_FAIL"} => FailureEntries[k] \in Report
  BY FailureEntriesSaid DEF Said

\* An action is recorded: a failure is one more, any other none.
LEMMA FailuresGrow ==
  ASSUME RecordInv, RecordInv', NEW kind \in Kinds, Logged(kind)
  PROVE  /\ kind # "TEST_FAIL" => Failures'[Len(actions')] = Failures[Len(actions)]
         /\ kind = "TEST_FAIL" =>
              Failures'[Len(actions')]
                = Append(Failures[Len(actions)],
                         [path |-> Spell(TopAround),
                          reason |-> TextOf(actions', strs', str_starts', Len(actions) + 1)])
<1> DEFINE n == Len(actions)
<1>1. actions \in Seq(Kinds) /\ n \in Nat /\ actions' = Append(actions, kind) /\ Len(actions') = n + 1
  BY DEF RecordInv, Logged
<1>2. Said(Report, {"TEST_FAIL"}, actions, FailureEntries)
  BY FailureEntriesSaid
<1>3. Said(Report, {"TEST_FAIL"}, actions', FailureEntries')
  <2>1. (\A k \in 1..Len(actions) : actions[k] \in {"TEST_FAIL"} => FailureEntries[k] \in Report)'
    BY FailuresSaid, PTL
  <2> QED
    BY <2>1 DEF Said
<1>4. /\ Grows(Around, Around', n, Enters, Leaves, kind, TextOf(actions', strs', str_starts', n + 1))
  BY AroundGrows
<1>5. \A k \in 1..n : actions[k] = "TEST_FAIL" => FailureEntries[k] = FailureEntries'[k]
  <2> TAKE k \in 1..n
  <2> HAVE actions[k] = "TEST_FAIL"
  <2>1. Text(k)' = Text(k)
    BY DEF Logged, Stringed
  <2>2. Around'[k] = Around[k]
    BY <1>1, <1>4 DEF Grows
  <2>3. k \in 1..Len(actions')
    BY <1>1
  <2>4. FailureEntries'[k] = [path |-> Spell(Around'[k]), reason |-> Text(k)']
    BY <2>3 DEF FailureEntries, FailureAt
  <2>5. FailureEntries[k] = [path |-> Spell(Around[k]), reason |-> Text(k)]
    BY DEF FailureEntries, FailureAt
  <2> QED
    BY <2>1, <2>2, <2>4, <2>5
<1>6. Grows(Failures, Failures', n, {"TEST_FAIL"}, {}, kind, FailureEntries'[n + 1])
  <2>1. Grows(Stacks({"TEST_FAIL"}, {}, actions, FailureEntries),
              Stacks({"TEST_FAIL"}, {}, Append(actions, kind), FailureEntries'),
              Len(actions), {"TEST_FAIL"}, {}, kind, FailureEntries'[Len(actions) + 1])
    BY <1>1, <1>2, <1>3, <1>5, StacksGrow
  <2> QED
    BY <1>1, <2>1 DEF Failures
<1>7. kind = "TEST_FAIL" => FailureEntries'[n + 1]
          = [path |-> Spell(TopAround), reason |-> TextOf(actions', strs', str_starts', n + 1)]
  <2> HAVE kind = "TEST_FAIL"
  <2>1. PICK m \in 1..Len(actions') : m = n + 1
    BY <1>1
  <2>2. FailureEntries'[m] = [path |-> Spell(Around'[m]), reason |-> TextOf(actions', strs', str_starts', m)]
    BY <2>1 DEF FailureEntries, FailureAt, Text
  <2>3. Around'[n+1] = Around[n]
    BY <1>4 DEF Grows, Enters, Leaves
  <2> QED
    BY <2>1, <2>2, <2>3 DEF TopAround
<1> HIDE DEF n
<1> QED
  BY <1>1, <1>6, <1>7 DEF Grows, n

\* Steps that leave the record alone add no failure.
LEMMA FailuresStutter ==
  ASSUME RecordInv, UNCHANGED recordVars
  PROVE  Failures' = Failures /\ FailureEntries' = FailureEntries
<1>1. Around' = Around /\ actions' = actions /\ \A k : Text(k)' = Text(k)
  BY AroundStutter, RecordStutter DEF recordVars
<1>2. FailureEntries' = FailureEntries
  <2>1. FailureEntries' = [k \in 1..Len(actions') |-> [path |-> Spell(Around'[k]), reason |-> Text(k)']]
    BY DEF FailureEntries, FailureAt
  <2>2. FailureEntries = [k \in 1..Len(actions) |-> [path |-> Spell(Around[k]), reason |-> Text(k)]]
    BY DEF FailureEntries, FailureAt
  <2> QED
    BY <1>1, <2>1, <2>2
<1> QED
  BY <1>1, <1>2 DEF Failures

\* Every call keeps the two lists of failures the same.
LEMMA CallsKeepFailures ==
  ASSUME CallsInv, HistoryInv, FailuresInv, Calls
  PROVE  FailuresInv'
<1> SUFFICES ASSUME ~broke' PROVE TrueFailures' = Failures'[Len(actions')]
  BY DEF FailuresInv
<1> RecordInv /\ AccountInv
  BY DEF CallsInv
<1>0. RecordInv' /\ AccountInv'
  BY CallsKeepInv DEF CallsInv
<1>1. broke \in BOOLEAN /\ (broke' = broke \/ Break)
  BY CallsMove
<1>2. ~Break
  BY DEF Break
<1>3. ~broke /\ TrueFailures = Failures[Len(actions)]
  BY <1>1, <1>2 DEF FailuresInv
<1>4. ASSUME UNCHANGED cases, \/ UNCHANGED recordVars
                              \/ \E kind \in Kinds \ {"TEST_FAIL"} : Logged(kind)
      PROVE  TrueFailures' = Failures'[Len(actions')]
  <2>1. TrueFailures' = TrueFailures
    BY <1>4 DEF TrueFailures
  <2>2. CASE UNCHANGED recordVars
    BY <1>3, <2>1, <2>2, FailuresStutter DEF recordVars
  <2>3. CASE \E kind \in Kinds \ {"TEST_FAIL"} : Logged(kind)
    BY <1>0, <1>3, <2>1, <2>3, FailuresGrow
  <2> QED
    BY <1>4, <2>2, <2>3
<1>5. ASSUME NEW name \in Names, sentest_group_start(name) PROVE TrueFailures' = Failures'[Len(actions')]
  <2>1. UNCHANGED cases
    BY <1>5 DEF sentest_group_start
  <2>2. Logged("GROUP_ENTER") /\ "GROUP_ENTER" \in Kinds \ {"TEST_FAIL"}
    BY <1>5, GroupStartAccount DEF CallsInv, Kinds
  <2> QED
    BY <1>4, <2>1, <2>2
<1>6. ASSUME NEW name \in Names, TestSkipped(name) PROVE TrueFailures' = Failures'[Len(actions')]
  BY <1>4, <1>6 DEF TestSkipped
<1>7. ASSUME NEW name \in Names, TestStart(name) PROVE TrueFailures' = Failures'[Len(actions')]
  <2> DEFINE new == [groups |-> OpenNames, name |-> name, reasons |-> <<>>]
             segs == [k \in 1..Len(cases) |-> FailuresOf(cases[k])]
             more == [k \in 1..Len(cases') |-> FailuresOf(cases'[k])]
  <2>1. cases' = Append(cases, new) /\ cases \in Seq(Case)
    BY <1>7 DEF TestStart, AccountInv
  <2>2. new \in Case /\ new.reasons = <<>>
    BY OpenNamesTyped DEF CallsInv, Case
  <2>3. FailuresOf(new) = <<>>
    BY <2>2 DEF FailuresOf
  <2>4. TrueFailures = FlattenSeq(segs) /\ segs \in Seq(Seq(Report)) /\ TrueFailures \in Seq(Report)
    BY TrueFailuresAre
  <2>5. TrueFailures' = FlattenSeq(more)
    BY DEF TrueFailures, FailuresOf
  <2> HIDE DEF new
  <2>6. /\ Len(cases) \in Nat /\ Len(cases') = Len(cases) + 1 /\ cases'[Len(cases) + 1] = new
        /\ \A k \in 1..Len(cases) : cases'[k] = cases[k]
    BY <2>1, <2>2
  <2>7. more = Append(segs, <<>>)
    <3>1. Len(segs) = Len(cases)
      BY <2>6
    <3>2. more \in Seq(Seq(Report)) /\ Len(more) = Len(cases) + 1
      <4>1. cases' \in Seq(Case)
        BY <1>0 DEF AccountInv
      <4>2. \A k \in 1..Len(cases') : FailuresOf(cases'[k]) \in Seq(Report)
        BY <4>1, FailuresOfTyped
      <4> QED
        BY <2>6, <4>2
    <3>3. \A k \in 1..Len(cases) : more[k] = segs[k]
      BY <2>6
    <3>4. more[Len(cases) + 1] = <<>>
      BY <2>3, <2>6
    <3> HIDE DEF segs, more
    <3>5. <<>> \in Seq(Report)
      OBVIOUS
    <3>6. /\ Append(segs, <<>>) \in Seq(Seq(Report)) /\ Len(Append(segs, <<>>)) = Len(segs) + 1
          /\ (\A k \in 1..Len(segs) : Append(segs, <<>>)[k] = segs[k])
          /\ Append(segs, <<>>)[Len(segs) + 1] = <<>>
      BY <2>4, <3>5, AppendProperties
    <3>7. \A k \in 1..Len(more) : more[k] = Append(segs, <<>>)[k]
      <4> TAKE k \in 1..Len(more)
      <4>1. k = Len(cases) + 1 \/ k \in 1..Len(cases)
        BY <2>6, <3>2
      <4> QED
        BY <4>1, <3>1, <3>3, <3>4, <3>6
    <3>8. Len(more) = Len(Append(segs, <<>>))
      BY <3>1, <3>2, <3>6
    <3> QED
      BY <3>2, <3>6, <3>7, <3>8, SeqEqual
  <2> HIDE DEF segs, more
  <2>8. <<>> \in Seq(Report)
    OBVIOUS
  <2>9. FlattenSeq(Append(segs, <<>>)) = FlattenSeq(segs) \o <<>>
    BY <2>4, <2>8, FlattenAppend
  <2>10. TrueFailures' = TrueFailures
    BY <2>4, <2>5, <2>7, <2>9, ConcatEmptySeq
  <2>11. Logged("TEST_ENTER") /\ "TEST_ENTER" \in Kinds
    BY <1>7, TestStartAccount DEF CallsInv, Kinds
  <2>12. Failures'[Len(actions')] = Failures[Len(actions)]
    BY <1>0, <2>11, FailuresGrow
  <2> QED
    BY <1>3, <2>10, <2>12
<1>8. ASSUME NEW assertion \in Assertions, NEW condition \in BOOLEAN, NEW reason \in Reasons,
             MakeAssertion(assertion, condition, reason)
      PROVE  TrueFailures' = Failures'[Len(actions')]
  <2>1. /\ in_test
        /\ cases' = IF ClaimHolds(assertion, condition) THEN cases
                    ELSE [cases EXCEPT ![Len(cases)].reasons = Append(@, reason)]
    BY <1>8 DEF MakeAssertion
  <2>2. CASE ClaimHolds(assertion, condition)
    <3>1. UNCHANGED recordVars
      BY <1>8, <2>2, AssertionRecord
    <3> QED
      BY <1>4, <2>1, <2>2, <3>1
  <2>3. CASE ~ClaimHolds(assertion, condition)
    <3> DEFINE n == Len(cases)
               test == cases[n]
               next == [test EXCEPT !.reasons = Append(@, reason)]
               entry == [path |-> Spell(Append(test.groups, test.name)), reason |-> reason]
               segs == [k \in 1..Len(cases) |-> FailuresOf(cases[k])]
               more == [k \in 1..Len(cases') |-> FailuresOf(cases'[k])]
    <3>1. cases \in Seq(Case) /\ cases # <<>> /\ n \in Nat /\ n # 0 /\ cases' = [cases EXCEPT ![n] = next]
      BY <2>1, <2>3 DEF AccountInv
    <3>2. test \in Case
      BY <3>1
    <3>3. FailuresOf(next) = Append(FailuresOf(test), entry)
      BY <3>2, FailuresOfGrow
    <3>4. TrueFailures = FlattenSeq(segs) /\ segs \in Seq(Seq(Report))
      BY TrueFailuresAre
    <3>5. TrueFailures' = FlattenSeq(more)
      BY DEF TrueFailures, FailuresOf
    <3>6. Len(cases') = n /\ cases'[n] = next /\ \A k \in 1..n - 1 : cases'[k] = cases[k]
      <4> HIDE DEF next
      <4> QED
        BY <3>1
    <3>7. cases' \in Seq(Case)
      BY <1>0 DEF AccountInv
    <3>8. more \in Seq(Seq(Report)) /\ Len(more) = n
      <4>1. \A k \in 1..Len(cases') : FailuresOf(cases'[k]) \in Seq(Report)
        BY <3>7, FailuresOfTyped
      <4> DEFINE e(k) == FailuresOf(cases'[k])
      <4>2. \A k \in 1..Len(cases') : e(k) \in Seq(Report)
        BY <4>1
      <4>3. Len(cases') = n /\ n \in Nat
        BY <3>1, <3>6
      <4> HIDE DEF e, n
      <4>4. [k \in 1..Len(cases') |-> e(k)] \in Seq(Seq(Report)) /\ Len([k \in 1..Len(cases') |-> e(k)]) = n
        BY <4>2, <4>3, IsASeq
      <4> QED
        BY <4>4 DEF e
    <3>9. Len(segs) = n /\ segs # <<>> /\ n \in 1..n
      BY <3>1
    <3>10. segs[n] = FailuresOf(test) /\ more[n] = FailuresOf(next)
           /\ \A k \in 1..n - 1 : more[k] = segs[k]
      BY <3>1, <3>6, <3>9
    <3>11. entry \in Report
      <4>1. next \in Case
        <5> HIDE DEF next
        <5>1. n \in 1..Len(cases')
          BY <3>6, <3>9
        <5> QED
          BY <3>6, <3>7, <5>1
      <4>2. FailuresOf(test) \in Seq(Report) /\ FailuresOf(next) \in Seq(Report)
        BY <3>2, <4>1, FailuresOfTyped
      <4> HIDE DEF entry, next, test
      <4>3. PICK f \in Seq(Report) : f = FailuresOf(test)
        BY <4>2
      <4>4. PICK g \in Seq(Report) : g = FailuresOf(next)
        BY <4>2
      <4>5. g = Append(f, entry) /\ Len(f) \in Nat
        BY <3>3, <4>3, <4>4
      <4>6. Len(g) = Len(f) + 1 /\ g[Len(f) + 1] = entry
        BY <4>5
      <4>7. Len(f) + 1 \in 1..Len(g)
        BY <4>5, <4>6
      <4>8. g[Len(f) + 1] \in Report
        <5> QED
          BY <4>7, ElementOfSeq
      <4> QED
        BY <4>6, <4>8
    <3> HIDE DEF segs, more, entry, next, test, n
    <3>12. FlattenSeq(more) = Append(FlattenSeq(segs), entry)
      <4>1. Len(more) = Len(segs) /\ more[Len(more)] = Append(segs[Len(segs)], entry)
            /\ \A k \in 1..Len(segs) - 1 : more[k] = segs[k]
        BY <3>3, <3>8, <3>9, <3>10
      <4> QED
        BY <3>4, <3>8, <3>9, <3>11, <4>1, FlattenExtend
    <3>13. TrueFailures' = Append(TrueFailures, entry)
      BY <3>4, <3>5, <3>12
    <3>14. /\ Logged("TEST_FAIL") /\ "TEST_FAIL" \in Kinds
           /\ TextOf(actions', strs', str_starts', Len(actions) + 1) = reason
      BY <1>8, <2>3, AssertionRecord DEF Kinds
    <3>15. Failures'[Len(actions')] = Append(Failures[Len(actions)], [path |-> Spell(TopAround), reason |-> reason])
      BY <1>0, <3>14, FailuresGrow
    <3>16. Spell(TopAround) = Spell(Append(test.groups, test.name))
      BY <1>3, <2>1 DEF HistoryInv, NowInv, test, n
    <3> QED
      BY <1>3, <3>13, <3>15, <3>16 DEF entry
  <2> QED
    BY <2>2, <2>3
<1>9. CASE sentest_group_should_continue \/ sentest_test_should_continue \/ AssertStops
  <2>1. UNCHANGED cases /\ UNCHANGED recordVars
    BY <1>9 DEF sentest_group_should_continue, sentest_test_should_continue, AssertStops,
       trueVars, harnessVars, callVars
  <2> QED
    BY <1>4, <2>1
<1>10. CASE sentest_group_end
  <2>1. UNCHANGED cases
    BY <1>10 DEF sentest_group_end, trueVars
  <2>2. Logged("GROUP_LEAVE") /\ "GROUP_LEAVE" \in Kinds \ {"TEST_FAIL"}
    BY <1>10, GroupEndAccount DEF CallsInv, Kinds
  <2> QED
    BY <1>4, <2>1, <2>2
<1>11. CASE sentest_end_internal
  <2>1. UNCHANGED cases
    BY <1>11 DEF sentest_end_internal
  <2>2. Logged("TEST_LEAVE") /\ "TEST_LEAVE" \in Kinds \ {"TEST_FAIL"}
    BY <1>11, TestEndAccount DEF CallsInv, Kinds
  <2> QED
    BY <1>4, <2>1, <2>2
<1> QED
  BY <1>2, <1>5, <1>6, <1>7, <1>8, <1>9, <1>10, <1>11 DEF Calls

\* So does every step.
LEMMA FailuresStep ==
  ASSUME CallsInv, HistoryInv, FailuresInv, [Next]_vars
  PROVE  FailuresInv'
<1>1. ASSUME UNCHANGED callerVars PROVE FailuresInv'
  <2>1. UNCHANGED recordVars /\ UNCHANGED <<cases, broke>>
    BY <1>1 DEF callerVars, trueVars
  <2>2. TrueFailures' = TrueFailures /\ actions' = actions
    BY <2>1 DEF TrueFailures, recordVars
  <2> QED
    BY <2>1, <2>2, FailuresStutter DEF FailuresInv, CallsInv
<1>2. ASSUME UNCHANGED vars PROVE UNCHANGED callerVars
  BY <1>2 DEF vars, callVars, harnessVars, callerVars
<1> QED
  BY <1>1, <1>2, StepsOfNext, CallsKeepFailures, FinishingReads

\* Both are empty at the start.
LEMMA InitFailures ==
  ASSUME ReportInit
  PROVE  FailuresInv
<1>1. actions = <<>> /\ cases = <<>> /\ Len(actions) = 0
  BY DEF ReportInit, Init
<1>2. RecordInv
  BY InitCalls DEF CallsInv
<1>3. Failures[0] = <<>>
  BY <1>2, FailuresTyped DEF AreStacks
<1>4. TrueFailures = <<>>
  <2>1. [k \in 1..Len(cases) |-> FailuresOf(cases[k])] = <<>>
    BY <1>1
  <2>2. TrueFailures = FlattenSeq([k \in 1..Len(cases) |-> FailuresOf(cases[k])])
    BY DEF TrueFailures, FailuresOf
  <2> QED
    BY <2>1, <2>2, FlattenEmpty
<1> QED
  BY <1>1, <1>3, <1>4 DEF FailuresInv

-----------------------------------------------------------------------------
(* sentest_finish: the indices of its loops.                               *)

\* Where a loop over the record is, and that str_ind counts the strings behind it.
IndexInv ==
  /\ pc = "calls" => str_ind = 1
  /\ pc \in {"print", "write"} => str_ind = Occurrences(actions, Stringed, i - 1) + 1
  /\ pc \in {"scan", "total"} => str_ind = 1
  /\ pc \in {"scan", "write"} => i \in 1..Len(actions) + 1
  /\ pc = "total" => i \in 0..Len(actions)

\* Reading a string keeps the index in step.
LEMMA IndexMoves ==
  ASSUME NEW k \in 1..Len(actions), Len(actions) \in Nat
  PROVE  LET before == Occurrences(actions, Stringed, k - 1)
             here == Occurrences(actions, Stringed, k)
         IN  /\ actions[k] \in Stringed => here = before + 1
             /\ actions[k] \notin Stringed => here = before
             /\ before \in Nat
<1>1. PICK m \in Nat : m = k - 1 /\ m + 1 = k
  OBVIOUS
<1>2. /\ Occurrences(actions, Stringed, m) \in Nat
      /\ actions[m+1] \in Stringed => Occurrences(actions, Stringed, m + 1) = Occurrences(actions, Stringed, m) + 1
      /\ actions[m+1] \notin Stringed => Occurrences(actions, Stringed, m + 1) = Occurrences(actions, Stringed, m)
  BY OccurrencesStep
<1> QED
  BY <1>1, <1>2

\* The next string belongs to the action that is read.
LEMMA NextIsText ==
  ASSUME RecordInv, i \in 1..Len(actions), actions[i] \in Stringed,
         str_ind = Occurrences(actions, Stringed, i - 1) + 1
  PROVE  NextString = Text(i) /\ NextString \in PlainStrings
<1>1. Len(actions) \in Nat
  BY DEF RecordInv
<1>2. Occurrences(actions, Stringed, i) = str_ind
  BY <1>1, IndexMoves
<1>3. NextString = Text(i)
  BY <1>2 DEF NextString, Text, TextOf
<1> QED
  BY <1>3, TextKnown

\* The loops that go on in the record.
LEMMA ReadsOn ==
  ASSUME CallsInv, PrintedInv, IndexInv, NEW p \in {"print", "write"}, NEW kinds, Reading(p, kinds)
  PROVE  /\ pc = p /\ i \in 1..Len(actions) /\ actions[i] \in kinds
         /\ i \in Nat /\ i - 1 \in Nat /\ i - 1 \in 0..Len(actions) /\ i \in 0..Len(actions)
         /\ i + 1 \in 1..Len(actions) + 1 /\ i + 1 - 1 = i
         /\ RecordInv /\ Len(actions) \in Nat
         /\ str_ind = Occurrences(actions, Stringed, i - 1) + 1
<1>1. RecordInv /\ actions \in Seq(Kinds) /\ Len(actions) \in Nat
  BY DEF CallsInv, RecordInv
<1>2. i \in 1..Len(actions) + 1 /\ i <= Len(actions) /\ pc = p /\ actions[i] \in kinds
  BY DEF Reading, PrintedInv, IndexInv
<1>3. str_ind = Occurrences(actions, Stringed, i - 1) + 1
  BY <1>2 DEF IndexInv
<1> QED
  BY <1>1, <1>2, <1>3

\* A step that reads an action keeps the index in step.
LEMMA IndexReads ==
  ASSUME CallsInv, PrintedInv, IndexInv, NEW p \in {"print", "write"}, NEW kinds, Reading(p, kinds),
         pc' = pc, actions' = actions, i' = i + 1,
         actions[i] \in Stringed => str_ind' = str_ind + 1,
         actions[i] \notin Stringed => str_ind' = str_ind
  PROVE  IndexInv'
<1>1. /\ pc = p /\ i \in 1..Len(actions) /\ Len(actions) \in Nat /\ i + 1 - 1 = i
      /\ i + 1 \in 1..Len(actions) + 1 /\ i \in Nat
      /\ str_ind = Occurrences(actions, Stringed, i - 1) + 1
  BY ReadsOn
<1>2. str_ind' = Occurrences(actions, Stringed, i) + 1
  BY <1>1, IndexMoves
<1>3. str_ind' = Occurrences(actions', Stringed, i' - 1) + 1
  BY <1>1, <1>2
<1> QED
  BY <1>1, <1>3 DEF IndexInv

\* Every step does.
LEMMA IndexStep ==
  ASSUME CallsInv, PrintedInv, IndexInv, [Next]_vars
  PROVE  IndexInv'
<1>0. actions \in Seq(Kinds) /\ Len(actions) \in Nat
  BY DEF CallsInv, RecordInv
<1>1. ASSUME Calls, UNCHANGED finishVars PROVE IndexInv'
  <2>1. pc = "calls" /\ (pc' = "calls" \/ pc' = "aborted")
    BY <1>1, CallsMove
  <2>2. str_ind' = str_ind
    BY <1>1 DEF finishVars
  <2> QED
    BY <2>1, <2>2 DEF IndexInv
<1>2. ASSUME Finishing PROVE IndexInv'
  <2>1. actions' = actions
    BY <1>2, FinishingReads DEF callerVars, recordVars
  <2>2. CASE Finish
    <3>1. pc = "calls" /\ pc' = "print" /\ UNCHANGED <<i, str_ind>> /\ i = 1 /\ str_ind = 1
      BY <2>2 DEF Finish, finishVars, PrintedInv, IndexInv
    <3>2. Occurrences(actions', Stringed, i' - 1) = 0
      <4>1. i' - 1 = 0
        BY <3>1
      <4>2. Occurrences(actions', Stringed, 0) = 0
        BY OccurrencesStep
      <4> QED
        BY <4>1, <4>2
    <3> QED
      BY <3>1, <3>2 DEF IndexInv
  <2>3. CASE PrintEnter
    <3>1. Reading("print", Enters) /\ pc' = pc /\ i' = i + 1 /\ str_ind' = str_ind + 1
      BY <2>3 DEF PrintEnter, Enters
    <3>2. actions[i] \in Stringed
      BY <3>1 DEF Reading, Stringed
    <3> QED
      BY <2>1, <3>1, <3>2, IndexReads
  <2>4. CASE PrintLeave
    <3>1. Reading("print", Leaves) /\ pc' = pc /\ i' = i + 1 /\ str_ind' = str_ind
      BY <2>4 DEF PrintLeave, Leaves
    <3>2. actions[i] \notin Stringed
      BY <3>1 DEF Reading, Leaves, Stringed, Enters
    <3> QED
      BY <2>1, <3>1, <3>2, IndexReads
  <2>5. CASE PrintFail
    <3>1. Reading("print", {"TEST_FAIL"}) /\ pc' = pc /\ i' = i + 1 /\ str_ind' = str_ind + 1
      BY <2>5 DEF PrintFail
    <3>2. actions[i] \in Stringed
      BY <3>1 DEF Reading, Stringed
    <3> QED
      BY <2>1, <3>1, <3>2, IndexReads
  <2>6. CASE PrintEnd
    <3>1. pc' \in {"scan", "done"} /\ i' = 1 /\ str_ind' = 1
      BY <2>6 DEF PrintEnd
    <3> QED
      BY <1>0, <2>1, <3>1 DEF IndexInv
  <2>7. CASE Scan \/ ScanEnd
    <3>1. pc = "scan" /\ i \in 1..Len(actions) + 1 /\ str_ind' = str_ind /\ str_ind = 1
          /\ (\/ pc' = "scan" /\ i <= Len(actions) /\ i' = i + 1
              \/ pc' = "total" /\ i' = Len(actions))
      BY <2>7 DEF Scan, ScanEnd, IndexInv
    <3> QED
      BY <1>0, <2>1, <3>1 DEF IndexInv
  <2>8. CASE TotalLeaveGroup \/ TotalEnterGroup \/ TotalLeaveTest \/ TotalFail \/ TotalEnterTest
    <3>1. pc = "total" /\ pc' = "total" /\ i \in 0..Len(actions) /\ str_ind' = str_ind /\ str_ind = 1
          /\ i > 0 /\ i' = i - 1
      BY <2>8 DEF TotalLeaveGroup, TotalEnterGroup, TotalLeaveTest, TotalFail, TotalEnterTest, Totalling, IndexInv
    <3> QED
      BY <1>0, <2>1, <3>1 DEF IndexInv
  <2>9. CASE OpenFails
    <3>1. pc' = "crashed"
      BY <2>9 DEF OpenFails
    <3> QED
      BY <3>1 DEF IndexInv
  <2>10. CASE TotalEnd
    <3>1. pc' = "write" /\ i' = 1 /\ str_ind' = 1
      BY <2>10 DEF TotalEnd, IndexInv
    <3>2. Occurrences(actions', Stringed, i' - 1) = 0
      <4>1. i' - 1 = 0
        BY <3>1
      <4>2. Occurrences(actions', Stringed, 0) = 0
        BY OccurrencesStep
      <4> QED
        BY <4>1, <4>2
    <3> QED
      BY <1>0, <2>1, <3>1, <3>2 DEF IndexInv
  <2>11. CASE WriteSuite \/ WriteCase \/ WriteFail
    <3>1. Reading("write", Stringed) /\ pc' = pc /\ i' = i + 1 /\ str_ind' = str_ind + 1
      BY <2>11 DEF WriteSuite, WriteCase, WriteFail, Reading, Stringed, Enters
    <3>2. actions[i] \in Stringed
      BY <3>1 DEF Reading
    <3> QED
      BY <2>1, <3>1, <3>2, IndexReads
  <2>12. CASE WriteCaseEnd \/ WriteSuiteEnd
    <3>1. Reading("write", Leaves) /\ pc' = pc /\ i' = i + 1 /\ str_ind' = str_ind
      BY <2>12 DEF WriteCaseEnd, WriteSuiteEnd, Reading, Leaves
    <3>2. actions[i] \notin Stringed
      BY <3>1 DEF Reading, Leaves, Stringed, Enters
    <3> QED
      BY <2>1, <3>1, <3>2, IndexReads
  <2>13. CASE WriteEnd
    <3>1. pc' = "done"
      BY <2>13 DEF WriteEnd
    <3> QED
      BY <3>1 DEF IndexInv
  <2> QED
    BY <1>2, <2>2, <2>3, <2>4, <2>5, <2>6, <2>7, <2>8, <2>9, <2>10, <2>11, <2>12, <2>13 DEF Finishing
<1>3. ASSUME UNCHANGED vars PROVE IndexInv'
  BY <1>3 DEF IndexInv, vars, callVars, harnessVars, recordVars, finishVars
<1> QED
  BY <1>1, <1>2, <1>3, StepsOfNext

\* The loops start at the first action and the first string.
LEMMA InitIndex ==
  ASSUME ReportInit
  PROVE  PrintedInv /\ IndexInv
<1>1. pc = "calls" /\ had_failure = FALSE /\ i = 1 /\ str_ind = 1
  BY DEF ReportInit, Init
<1> QED
  BY <1>1 DEF PrintedInv, IndexInv

\* where the program can be
PcInv == pc \in {"calls", "print", "scan", "total", "write", "done", "aborted", "crashed"}

\* Every step leads to a known place.
LEMMA PcStep ==
  ASSUME CallsInv, PcInv, [Next]_vars
  PROVE  PcInv'
<1>1. CASE Calls
  <2>1. pc' = "calls" \/ pc' = "aborted"
    BY <1>1, CallsMove
  <2> QED
    BY <2>1 DEF PcInv
<1>2. CASE Finishing
  BY <1>2 DEF PcInv, Finishing, Finish, PrintEnter, PrintLeave, PrintFail, PrintEnd, Scan, ScanEnd,
     TotalLeaveGroup, TotalEnterGroup, TotalLeaveTest, TotalFail, TotalEnterTest, TotalEnd,
     OpenFails, WriteSuite, WriteCase, WriteCaseEnd, WriteSuiteEnd, WriteFail, WriteEnd,
     Reading, Totalling
<1>3. CASE UNCHANGED vars
  BY <1>3 DEF PcInv, vars
<1> QED
  BY <1>1, <1>2, <1>3, StepsOfNext

\* The program starts in one.
LEMMA InitPc ==
  ASSUME ReportInit
  PROVE  PcInv
<1>1. pc = "calls"
  BY DEF ReportInit, Init
<1> QED
  BY <1>1 DEF PcInv

-----------------------------------------------------------------------------
(* The path buffer, whatever the caller does and in sentest_finish.        *)

\* The buffer always spells a path: in the calls one of depth names if a filter is
\* set, none otherwise; while failures are printed that of the action that is read,
\* behind what callers left on it who used break.
BufferInv ==
  /\ \E names : /\ SpellsIn(path, path_seg_lengths, names)
                /\ pc = "calls" => Len(names) = IF Filtering THEN depth ELSE 0
  /\ pc = "print" => \E before \in Seq(PlainStrings) :
                       /\ SpellsIn(path, path_seg_lengths, before \o Around[i-1])
                       /\ ~broke => before = <<>>

\* the first conjunct, for the next state
SpeltNext ==
  \E names : /\ SpellsIn(path', path_seg_lengths', names)
             /\ pc' = "calls" => Len(names) = IF Filtering' THEN depth' ELSE 0

\* Every call leaves a path in the buffer.
LEMMA CallsKeepBuffer ==
  ASSUME CallsInv, BufferInv, Calls
  PROVE  BufferInv'
<1>1. /\ pc = "calls" /\ (pc' = "calls" \/ pc' = "aborted") /\ config' = config
  BY CallsMove
<1> SUFFICES SpeltNext
  BY <1>1 DEF BufferInv, SpeltNext
<1>2. PICK names : SpellsIn(path, path_seg_lengths, names) /\ Len(names) = IF Filtering THEN depth ELSE 0
  BY <1>1 DEF BufferInv
<1>3. names \in Seq(PlainStrings) /\ depth \in Int /\ (Filtering' <=> Filtering)
  BY <1>1, <1>2 DEF SpellsIn, CallsInv, LoopsInv, LoopTypes, Filtering
<1>4. ASSUME UNCHANGED <<path, path_seg_lengths, depth>> PROVE SpeltNext
  BY <1>2, <1>3, <1>4 DEF SpeltNext
<1>5. ASSUME NEW name \in Names, sentest_group_start(name) PROVE SpeltNext
  <2>1. depth' = depth + 1
    BY <1>5 DEF sentest_group_start
  <2>2. CASE Filtering
    <3>1. /\ path' = PushSegment(path, name) /\ path_seg_lengths' = Append(path_seg_lengths, Len(name))
      BY <1>5, <2>2 DEF sentest_group_start, sentest_push_path
    <3>2. name \in PlainStrings
      BY NamesPlain
    <3>3. SpellsIn(path', path_seg_lengths', Append(names, name))
      BY <1>2, <3>1, <3>2, SpellsPush
    <3>4. Len(Append(names, name)) = depth'
      BY <1>2, <1>3, <2>1, <2>2
    <3> QED
      BY <1>3, <2>2, <3>3, <3>4 DEF SpeltNext
  <2>3. CASE ~Filtering
    <3>1. UNCHANGED <<path, path_seg_lengths>>
      BY <1>5, <2>3 DEF sentest_group_start, pathVars
    <3> QED
      BY <1>2, <1>3, <2>3, <3>1 DEF SpeltNext
  <2> QED
    BY <2>2, <2>3
<1>6. ASSUME NEW name \in Names, TestSkipped(name) \/ TestStart(name) PROVE SpeltNext
  <2>1. /\ UNCHANGED <<depth, path_seg_lengths>> /\ (path' = path \/ path' = PathAfterMatching(name))
    BY <1>6 DEF TestSkipped, TestStart
  <2>2. name \in PlainStrings
    BY NamesPlain
  <2>3. SpellsIn(PathAfterMatching(name), path_seg_lengths, names)
    BY <1>2, <2>2, SpellsPushPop DEF PathAfterMatching
  <2> QED
    BY <1>2, <1>3, <2>1, <2>3 DEF SpeltNext
<1>7. ASSUME NEW assertion \in Assertions, NEW condition \in BOOLEAN, NEW reason \in Reasons,
             MakeAssertion(assertion, condition, reason)
      PROVE  SpeltNext
  BY <1>4, <1>7 DEF MakeAssertion, pathVars
<1>8. CASE sentest_group_should_continue \/ sentest_test_should_continue \/ sentest_end_internal
           \/ Break \/ AssertStops
  BY <1>4, <1>8 DEF sentest_group_should_continue, sentest_test_should_continue,
     sentest_end_internal, Break, AssertStops, pathVars, harnessVars, callVars
<1>9. CASE sentest_group_end
  <2>1. depth' = depth - 1
    BY <1>9 DEF sentest_group_end
  <2>2. CASE Filtering
    <3>1. /\ path' = PopSegment(path, path_seg_lengths[Len(path_seg_lengths)])
          /\ path_seg_lengths' = SubSeq(path_seg_lengths, 1, Len(path_seg_lengths) - 1)
      BY <1>9, <2>2 DEF sentest_group_end, sentest_pop_path
    <3>2. depth >= 1
      <4>1. bodies # <<>> /\ Innermost.kind = "group" /\ Innermost.at = "body"
        BY <1>9 DEF sentest_group_end, InBodyOf, InBody
      <4>2. ~should_exit_group
        BY <4>1 DEF CallsInv, LoopsInv, InnermostInv
      <4>3. NumberOpen = Len(bodies)
        BY <4>1, <4>2 DEF NumberOpen
      <4> QED
        BY <4>1, <4>3 DEF CallsInv, LoopsInv, LoopTypes
    <3>3. names # <<>> /\ Len(names) = depth
      BY <1>2, <2>2, <3>2
    <3> DEFINE h == SubSeq(names, 1, Len(names) - 1)
               x == names[Len(names)]
    <3>4. h \in Seq(PlainStrings) /\ x \in PlainStrings /\ names = Append(h, x)
      BY <1>3, <3>3, LastAgain
    <3>5. Len(h) = Len(names) - 1
      BY <1>3, <3>3, WithoutLast
    <3> HIDE DEF h, x
    <3>6. /\ path_seg_lengths[Len(path_seg_lengths)] = Len(x)
          /\ SpellsIn(PopSegment(path, Len(x)), SubSeq(path_seg_lengths, 1, Len(path_seg_lengths) - 1), h)
      BY <1>2, <3>4, SpellsPop
    <3> QED
      BY <1>3, <2>1, <2>2, <3>1, <3>3, <3>5, <3>6 DEF SpeltNext
  <2>3. CASE ~Filtering
    <3>1. UNCHANGED <<path, path_seg_lengths>>
      BY <1>9, <2>3 DEF sentest_group_end, pathVars
    <3> QED
      BY <1>2, <1>3, <2>3, <3>1 DEF SpeltNext
  <2> QED
    BY <2>2, <2>3
<1> QED
  BY <1>5, <1>6, <1>7, <1>8, <1>9 DEF Calls

\* When sentest_finish is called, no group is open.
LEMMA FinishOutside ==
  ASSUME CallsInv, Finish, ~broke
  PROVE  OpenGroups = <<>> /\ bodies = <<>> /\ depth = 0 /\ ~in_test
<1>1. bodies = <<>>
  BY DEF Finish
<1>2. NumberOpen = 0
  BY <1>1 DEF NumberOpen
<1>3. depth = 0 /\ ~in_test
  BY <1>1, <1>2 DEF CallsInv, LoopsInv
<1>4. OpenNames = <<>>
  BY <1>1 DEF OpenNames
<1> QED
  BY <1>1, <1>3, <1>4 DEF OpenGroups

\* sentest_finish starts to print with an empty path, or what break left there.
LEMMA FinishBuffer ==
  ASSUME CallsInv, PathInv, PrintedInv, BufferInv, Finish
  PROVE  BufferInv'
<1>1. /\ pc = "calls" /\ pc' = "print" /\ i' = 1 /\ UNCHANGED <<path, path_seg_lengths, broke>>
  BY DEF Finish, callVars, harnessVars, pathVars, trueVars, finishVars, PrintedInv
<1>2. Around'[i' - 1] = <<>>
  <2>1. Around' = Around
    BY AroundStutter DEF Finish, callVars, harnessVars, recordVars, CallsInv
  <2>2. Around[0] = <<>>
    BY AroundTyped DEF AreStacks, CallsInv
  <2>3. i' - 1 = 0
    BY <1>1
  <2> QED
    BY <2>1, <2>2, <2>3
<1>3. PICK names : SpellsIn(path, path_seg_lengths, names) /\ Len(names) = IF Filtering THEN depth ELSE 0
  BY <1>1 DEF BufferInv
<1>4. names \in Seq(PlainStrings)
  BY <1>3 DEF SpellsIn
<1>5. ~broke => names = <<>>
  <2> HAVE ~broke
  <2>1. depth = 0
    BY FinishOutside
  <2>2. Len(names) = 0
    BY <1>3, <2>1
  <2> QED
    BY <1>4, <2>2
<1>6. names \o <<>> = names
  BY <1>4, ConcatEmptySeq
<1>7. SpellsIn(path', path_seg_lengths', names \o Around'[i' - 1])
  BY <1>1, <1>2, <1>3, <1>6
<1>8. SpellsIn(path', path_seg_lengths', names)
  BY <1>1, <1>3
<1> QED
  BY <1>1, <1>4, <1>5, <1>7, <1>8 DEF BufferInv

\* what is in front of a stack stays there when its top changes
LEMMA ConcatTop ==
  ASSUME NEW S, NEW before \in Seq(S), NEW s \in Seq(S), NEW x \in S
  PROVE  before \o Append(s, x) = Append(before \o s, x)
  OBVIOUS

\* Printing moves the path along the record.
LEMMA PrintBuffer ==
  ASSUME CallsInv, HistoryInv, PrintedInv, IndexInv, BufferInv,
         PrintEnter \/ PrintLeave \/ PrintFail
  PROVE  BufferInv'
<1>0. RecordInv /\ LeftInv
  BY DEF CallsInv, HistoryInv
<1>1. /\ pc = "print" /\ pc' = "print" /\ i \in 1..Len(actions) /\ i \in Int
      /\ i - 1 \in 0..Len(actions) /\ i' = i + 1 /\ i' - 1 = i
      /\ str_ind = Occurrences(actions, Stringed, i - 1) + 1
  <2>1. \E kinds : Reading("print", kinds)
    BY DEF PrintEnter, PrintLeave, PrintFail
  <2>2. pc' = "print" /\ i' = i + 1
    BY DEF PrintEnter, PrintLeave, PrintFail, Reading
  <2> QED
    BY <2>1, <2>2, ReadsOn
<1>2. broke' = broke /\ Around' = Around /\ actions' = actions
  <2>1. UNCHANGED callerVars
    BY FinishingReads DEF Finishing
  <2> QED
    BY <1>0, <2>1, AroundStutter DEF callerVars, trueVars, recordVars
<1>3. PICK before \in Seq(PlainStrings) : /\ SpellsIn(path, path_seg_lengths, before \o Around[i-1])
                                          /\ ~broke => before = <<>>
  BY <1>1 DEF BufferInv
<1>4. Around[i-1] \in Seq(PlainStrings)
  BY <1>0, <1>1, AroundTyped
<1>5. /\ actions[i] \in Enters => Around[i] = Append(Around[i-1], Text(i))
      /\ actions[i] \notin Enters /\ actions[i] \in Leaves
           => Around[i] = SubSeq(Around[i-1], 1, Len(Around[i-1]) - 1)
      /\ actions[i] \notin Enters /\ actions[i] \notin Leaves => Around[i] = Around[i-1]
  <2>1. Texts[i] = Text(i)
    BY <1>1 DEF Texts
  <2>2. AreStacks(Around, Enters, Leaves, actions, Texts)
    BY <1>0, AroundTyped
  <2> QED
    BY <1>1, <2>1, <2>2 DEF AreStacks
<1>6. ASSUME SpellsIn(path', path_seg_lengths', before \o Around[i]) PROVE BufferInv'
  <2>1. SpellsIn(path', path_seg_lengths', before \o Around'[i' - 1])
    BY <1>1, <1>2, <1>6
  <2>2. before \in Seq(PlainStrings) /\ (~broke' => before = <<>>)
    BY <1>2, <1>3
  <2> QED
    BY <1>1, <1>6, <2>1, <2>2 DEF BufferInv
<1>7. CASE PrintEnter
  <2>1. actions[i] \in Enters /\ sentest_push_path(NextString)
    BY <1>7 DEF PrintEnter, Reading, Enters
  <2>2. NextString = Text(i) /\ Text(i) \in PlainStrings
    BY <1>0, <1>1, <2>1, NextIsText DEF Stringed
  <2>3. /\ path' = PushSegment(path, Text(i))
        /\ path_seg_lengths' = Append(path_seg_lengths, Len(Text(i)))
    BY <2>1, <2>2 DEF sentest_push_path
  <2> DEFINE t == Text(i)
             a == Around[i-1]
  <2>4. t \in PlainStrings /\ a \in Seq(PlainStrings) /\ Around[i] = Append(a, t)
    BY <1>4, <1>5, <2>1, <2>2
  <2> HIDE DEF t, a
  <2>5. SpellsIn(PushSegment(path, t), Append(path_seg_lengths, Len(t)), Append(before \o a, t))
    BY <1>3, <2>4, SpellsPush DEF a
  <2>6. before \o Append(a, t) = Append(before \o a, t)
    <3>1. before \in Seq(PlainStrings) /\ a \in Seq(PlainStrings) /\ t \in PlainStrings
      BY <2>4
    <3> QED
      BY <3>1, ConcatTop
  <2> QED
    BY <1>6, <2>3, <2>4, <2>5, <2>6 DEF t
<1>8. CASE PrintLeave
  <2>1. actions[i] \in Leaves /\ sentest_pop_path
    BY <1>8 DEF PrintLeave, Reading, Leaves
  <2>2. Around[i-1] # <<>> /\ actions[i] \notin Enters
    BY <1>0, <1>1, <2>1 DEF LeftInv, Enters, Leaves
  <2> DEFINE a == Around[i-1]
             h == SubSeq(a, 1, Len(a) - 1)
             x == a[Len(a)]
  <2>3. a \in Seq(PlainStrings) /\ a # <<>>
    BY <1>4, <2>2
  <2>4. Around[i] = h
    BY <1>5, <2>1, <2>2
  <2> HIDE DEF a
  <2>5. h \in Seq(PlainStrings) /\ x \in PlainStrings /\ a = Append(h, x)
    BY <2>3, LastAgain
  <2> HIDE DEF h, x
  <2>6. SpellsIn(path, path_seg_lengths, Append(before \o h, x)) /\ before \o h \in Seq(PlainStrings)
    <3>1. before \o a = Append(before \o h, x)
      BY <2>5, ConcatTop
    <3>2. before \o h \in Seq(PlainStrings)
      BY <2>5
    <3> QED
      BY <1>3, <3>1, <3>2 DEF a
  <2>7. /\ path_seg_lengths[Len(path_seg_lengths)] = Len(x)
        /\ SpellsIn(PopSegment(path, Len(x)), SubSeq(path_seg_lengths, 1, Len(path_seg_lengths) - 1), before \o h)
    BY <2>5, <2>6, SpellsPop
  <2>8. /\ path' = PopSegment(path, path_seg_lengths[Len(path_seg_lengths)])
        /\ path_seg_lengths' = SubSeq(path_seg_lengths, 1, Len(path_seg_lengths) - 1)
    BY <2>1 DEF sentest_pop_path
  <2> QED
    BY <1>6, <2>4, <2>7, <2>8
<1>9. CASE PrintFail
  <2>1. /\ UNCHANGED <<path, path_seg_lengths>>
        /\ actions[i] \notin Enters /\ actions[i] \notin Leaves
    BY <1>9 DEF PrintFail, Reading, callVars, harnessVars, pathVars, Enters, Leaves
  <2> QED
    BY <1>3, <1>5, <1>6, <2>1
<1> QED
  BY <1>7, <1>8, <1>9

\* Every step leaves a path in the buffer.
LEMMA BufferStep ==
  ASSUME CallsInv, PathInv, HistoryInv, PrintedInv, IndexInv, BufferInv, [Next]_vars
  PROVE  BufferInv'
<1>1. CASE Finishing /\ ~(Finish \/ PrintEnter \/ PrintLeave \/ PrintFail)
  <2>1. UNCHANGED <<path, path_seg_lengths>> /\ pc' # "calls" /\ pc' # "print"
    BY <1>1 DEF Finishing, PrintEnd, Scan, ScanEnd, TotalLeaveGroup, TotalEnterGroup,
       TotalLeaveTest, TotalFail, TotalEnterTest, TotalEnd, OpenFails, WriteSuite,
       WriteCase, WriteCaseEnd, WriteSuiteEnd, WriteFail, WriteEnd, Reading, Totalling,
       callVars, harnessVars, pathVars
  <2> QED
    BY <2>1 DEF BufferInv
<1>2. ASSUME UNCHANGED vars PROVE BufferInv'
  <2>1. Around' = Around
    BY <1>2, AroundStutter DEF vars, callVars, harnessVars, recordVars, CallsInv
  <2> QED
    BY <1>2, <2>1 DEF BufferInv, vars, callVars, harnessVars, trueVars, pathVars, finishVars, Filtering
<1> QED
  BY <1>1, <1>2, StepsOfNext, CallsKeepBuffer, FinishBuffer, PrintBuffer

\* It holds the empty path at the start.
LEMMA InitBuffer ==
  ASSUME ReportInit
  PROVE  BufferInv
<1>1. pc = "calls" /\ depth = 0
  BY DEF ReportInit, Init
<1>2. SpellsIn(path, path_seg_lengths, <<>>) /\ Len(<<>>) = 0
  BY InitSpelt
<1> QED
  BY <1>1, <1>2 DEF BufferInv

-----------------------------------------------------------------------------
(* The failures that sentest_print_failures prints.                        *)

\* what was printed are the failures up to the action that is read
PrintedFailures ==
  ~broke => /\ pc \in {"calls", "aborted"} => printed = <<>>
            /\ pc = "print" => printed = Failures[i-1]
            /\ pc \in {"scan", "total", "write", "done", "crashed"}
                 => printed = Failures[Len(actions)]

\* A longer sequence begins with a shorter one, step by step.
LEMMA PrefixAppend ==
  ASSUME NEW X, NEW s \in Seq(X), NEW t \in Seq(X), IsPrefix(s, t), NEW x \in X
  PROVE  IsPrefix(s, Append(t, x))
<1>1. Len(s) <= Len(t) /\ SubSeq(s, 1, Len(s)) = SubSeq(t, 1, Len(s))
  BY DEF IsPrefix
<1>2. Len(Append(t, x)) = Len(t) + 1 /\ \A k \in 1..Len(t) : Append(t, x)[k] = t[k]
  OBVIOUS
<1>3. Len(s) \in Nat /\ Len(t) \in Nat /\ Append(t, x) \in Seq(X)
  OBVIOUS
<1>4. SubSeq(Append(t, x), 1, Len(s)) = SubSeq(t, 1, Len(s))
  <2> DEFINE u == Append(t, x)
  <2> HIDE DEF u
  <2>1. SubSeq(u, 1, Len(s)) = [k \in 1..Len(s) |-> u[k]]
    BY <1>3
  <2>2. SubSeq(t, 1, Len(s)) = [k \in 1..Len(s) |-> t[k]]
    BY <1>3
  <2>3. \A k \in 1..Len(s) : u[k] = t[k]
    BY <1>1, <1>2, <1>3 DEF u
  <2>4. SubSeq(u, 1, Len(s)) = SubSeq(t, 1, Len(s))
    BY <2>1, <2>2, <2>3
  <2> QED
    BY <2>4 DEF u
<1> QED
  BY <1>1, <1>2, <1>3, <1>4 DEF IsPrefix

\* Where nothing is left, every stack begins with those before it.
LEMMA StacksPrefix ==
  ASSUME NEW X, NEW n \in Nat, NEW S \in [0..n -> Seq(X)], NEW enters, NEW acts, NEW texts,
         Len(acts) = n, Said(X, enters, acts, texts), AreStacks(S, enters, {}, acts, texts)
  PROVE  \A m \in 0..n : IsPrefix(S[m], S[n])
<1> TAKE m \in 0..n
<1> DEFINE P == {k \in Nat : m <= k /\ k <= n => IsPrefix(S[m], S[k])}
<1>0. S[m] \in Seq(X) /\ IsPrefix(S[m], S[m])
  <2>1. S[m] \in Seq(X)
    OBVIOUS
  <2> QED
    BY <2>1 DEF IsPrefix
<1>1. 0 \in P
  BY <1>0
<1>2. ASSUME NEW k \in Nat, k \in P PROVE k + 1 \in P
  <2> SUFFICES ASSUME m <= k + 1, k + 1 <= n, m # k + 1 PROVE IsPrefix(S[m], S[k+1])
    BY <1>0
  <2>1. PICK j \in 1..n : j = k + 1 /\ j - 1 = k /\ j - 1 \in 0..n /\ j \in 0..n
    OBVIOUS
  <2>2. IsPrefix(S[m], S[j-1])
    BY <1>2, <2>1
  <2>3. S[j-1] \in Seq(X)
    BY <2>1
  <2>4. CASE acts[j] \in enters
    <3>1. S[j] = Append(S[j-1], texts[j]) /\ texts[j] \in X
      BY <2>4 DEF AreStacks, Said
    <3> QED
      BY <1>0, <2>1, <2>2, <2>3, <3>1, PrefixAppend
  <2>5. CASE acts[j] \notin enters
    <3>1. S[j] = S[j-1]
      BY <2>5 DEF AreStacks
    <3> QED
      BY <2>1, <2>2, <3>1
  <2> QED
    BY <2>4, <2>5
<1> HIDE DEF P
<1>3. \A k \in Nat : k \in P
  BY <1>1, <1>2, SetInduction
<1> QED
  BY <1>3 DEF P

\* Every step prints the failures of the record in order.
LEMMA PrintedStepFailures ==
  ASSUME CallsInv, HistoryInv, PrintedInv, IndexInv, BufferInv, PrintedFailures, [Next]_vars
  PROVE  PrintedFailures'
<1> RecordInv
  BY DEF CallsInv
<1>1. CASE Calls /\ UNCHANGED finishVars
  <2>1. pc = "calls" /\ (pc' = "calls" \/ pc' = "aborted") /\ (broke => broke')
    BY <1>1, CallsMove
  <2>2. printed' = printed
    BY <1>1 DEF finishVars, printVars
  <2> QED
    BY <2>1, <2>2 DEF PrintedFailures
<1>2. ASSUME Finishing PROVE UNCHANGED <<broke, actions, Failures>>
  <2>1. UNCHANGED callerVars
    BY <1>2, FinishingReads
  <2> QED
    BY <2>1, FailuresStutter DEF callerVars, trueVars, recordVars
<1>3. CASE Finish
  <2>1. pc = "calls" /\ pc' = "print" /\ printed' = printed /\ i' = 1
    BY <1>3 DEF Finish, finishVars, printVars, PrintedInv
  <2>2. UNCHANGED <<broke, Failures>>
    BY <1>2, <1>3 DEF Finishing
  <2>3. i' - 1 = 0 /\ Failures[0] = <<>>
    BY <2>1, FailuresTyped DEF AreStacks
  <2> QED
    BY <2>1, <2>2, <2>3 DEF PrintedFailures
<1>4. CASE PrintEnter \/ PrintLeave \/ PrintFail
  <2>1. PICK kinds : Reading("print", kinds)
    BY <1>4 DEF PrintEnter, PrintLeave, PrintFail
  <2>2. /\ pc = "print" /\ pc' = "print" /\ i' = i + 1 /\ i' - 1 = i
        /\ i \in 1..Len(actions) /\ i - 1 \in 0..Len(actions)
        /\ str_ind = Occurrences(actions, Stringed, i - 1) + 1
    BY <1>4, <2>1, ReadsOn DEF PrintEnter, PrintLeave, PrintFail, Reading
  <2>3. UNCHANGED <<broke, Failures>>
    BY <1>2, <1>4 DEF Finishing
  <2>4. AreStacks(Failures, {"TEST_FAIL"}, {}, actions, FailureEntries)
    BY FailuresTyped
  <2> SUFFICES ASSUME ~broke PROVE printed' = Failures[i]
    BY <2>2, <2>3 DEF PrintedFailures
  <2>5. printed = Failures[i-1]
    BY <2>2 DEF PrintedFailures
  <2>6. CASE PrintEnter \/ PrintLeave
    <3>1. printed' = printed /\ actions[i] # "TEST_FAIL"
      BY <2>6 DEF PrintEnter, PrintLeave, Reading, printVars
    <3>2. Failures[i] = Failures[i-1]
      BY <2>2, <2>4, <3>1 DEF AreStacks
    <3> QED
      BY <2>5, <3>1, <3>2
  <2>7. CASE PrintFail
    <3>1. /\ printed' = Append(printed, [path |-> CString(path.data, 1), reason |-> NextString])
          /\ actions[i] = "TEST_FAIL"
      BY <2>7 DEF PrintFail, Reading
    <3>2. NextString = Text(i)
      BY <2>2, <3>1, NextIsText DEF Stringed
    <3>3. CString(path.data, 1) = Spell(Around[i-1])
      <4>1. PICK before \in Seq(PlainStrings) :
              SpellsIn(path, path_seg_lengths, before \o Around[i-1]) /\ before = <<>>
        BY <2>2 DEF BufferInv
      <4>2. Around[i-1] \in Seq(PlainStrings)
        BY <2>2, AroundTyped
      <4>3. before \o Around[i-1] = Around[i-1]
        BY <4>1, <4>2, ConcatEmptySeq
      <4> QED
        BY <4>1, <4>3, SpellsRead
    <3>4. Around[i] = Around[i-1]
      <4>1. AreStacks(Around, Enters, Leaves, actions, Texts)
        BY AroundTyped
      <4> QED
        BY <2>2, <3>1, <4>1 DEF AreStacks, Enters, Leaves
    <3>5. Failures[i] = Append(Failures[i-1], FailureEntries[i])
      BY <2>2, <2>4, <3>1 DEF AreStacks
    <3>6. FailureEntries[i] = [path |-> Spell(Around[i]), reason |-> Text(i)]
      BY <2>2 DEF FailureEntries, FailureAt
    <3> QED
      BY <2>5, <3>1, <3>2, <3>3, <3>4, <3>5, <3>6
  <2> QED
    BY <1>4, <2>6, <2>7
<1>5. CASE PrintEnd
  <2>1. pc = "print" /\ pc' \in {"scan", "done"} /\ printed' = printed /\ i > Len(actions)
    BY <1>5 DEF PrintEnd, printVars
  <2>2. UNCHANGED <<broke, actions, Failures>>
    BY <1>2, <1>5 DEF Finishing
  <2>3. i - 1 = Len(actions)
    BY <2>1 DEF PrintedInv, RecordInv
  <2> QED
    BY <2>1, <2>2, <2>3 DEF PrintedFailures
<1>6. CASE Finishing /\ ~(Finish \/ PrintEnter \/ PrintLeave \/ PrintFail \/ PrintEnd)
  <2>1. /\ pc \in {"scan", "total", "write"} /\ printed' = printed
        /\ pc' \in {"scan", "total", "write", "done", "crashed"}
    BY <1>6 DEF Finishing, Scan, ScanEnd, TotalLeaveGroup, TotalEnterGroup,
       TotalLeaveTest, TotalFail, TotalEnterTest, TotalEnd, OpenFails, WriteSuite,
       WriteCase, WriteCaseEnd, WriteSuiteEnd, WriteFail, WriteEnd, Reading, Totalling,
       finishVars, printVars
  <2>2. UNCHANGED <<broke, actions, Failures>>
    BY <1>2, <1>6
  <2> QED
    BY <2>1, <2>2 DEF PrintedFailures
<1>7. CASE UNCHANGED vars
  <2>1. UNCHANGED <<broke, pc, printed, i>> /\ UNCHANGED recordVars
    BY <1>7 DEF vars, callVars, harnessVars, trueVars, finishVars, printVars
  <2> QED
    BY <2>1, FailuresStutter DEF PrintedFailures, recordVars
<1> QED
  BY <1>1, <1>3, <1>4, <1>5, <1>6, <1>7, StepsOfNext

\* Nothing is printed at the start.
LEMMA InitPrinted ==
  ASSUME ReportInit
  PROVE  PrintedFailures
<1>1. pc = "calls" /\ printed = <<>>
  BY DEF ReportInit, Init
<1> QED
  BY <1>1 DEF PrintedFailures

\* What the record's failures were is what was printed.
LEMMA PrintedAre ==
  ASSUME CallsInv, PrintedInv, FailuresInv, PrintedFailures, PcInv
  PROVE  FailuresPrinted
<1> SUFFICES ASSUME ~broke PROVE FailuresPrinted
  BY DEF FailuresPrinted
<1>1. RecordInv /\ Len(actions) \in Nat
  BY DEF CallsInv, RecordInv
<1>2. TrueFailures = Failures[Len(actions)]
  BY DEF FailuresInv
<1>3. /\ Failures \in [0..Len(actions) -> Seq(Report)]
      /\ AreStacks(Failures, {"TEST_FAIL"}, {}, actions, FailureEntries)
  BY <1>1, FailuresTyped
<1>4. Said(Report, {"TEST_FAIL"}, actions, FailureEntries)
  BY <1>1, FailureEntriesSaid
<1>5. \A m \in 0..Len(actions) : IsPrefix(Failures[m], TrueFailures)
  BY <1>1, <1>2, <1>3, <1>4, StacksPrefix
<1>6. \E m \in 0..Len(actions) : printed = Failures[m]
  <2>1. CASE pc \in {"calls", "aborted"}
    <3>1. printed = Failures[0]
      BY <1>3, <2>1 DEF PrintedFailures, AreStacks
    <3> QED
      BY <1>1, <3>1
  <2>2. CASE pc = "print"
    <3>1. i - 1 \in 0..Len(actions)
      BY <1>1, <2>2 DEF PrintedInv
    <3> QED
      BY <2>2, <3>1 DEF PrintedFailures
  <2>3. CASE pc \in {"scan", "total", "write", "done", "crashed"}
    BY <1>1, <2>3 DEF PrintedFailures
  <2> QED
    BY <2>1, <2>2, <2>3 DEF PcInv
<1> QED
  BY <1>2, <1>5, <1>6 DEF FailuresPrinted, PrintedFailures

\* sentest_print_failures prints every failure, in order, under the path of its test,
\* for any record: what the stale ends of strings in the path buffer, shared with the
\* calls, and the single index into the strings could have spoiled.
THEOREM SenTestFailuresPrinted == Spec => []FailuresPrinted
<1> DEFINE Inv == /\ CallsInv /\ PathInv /\ HistoryInv /\ FailuresInv
                  /\ PcInv /\ PrintedInv /\ IndexInv /\ BufferInv /\ PrintedFailures
<1>1. ReportInit => Inv
  BY InitCalls, InitPath, InitHistory, InitFailures, InitPc, InitIndex, InitBuffer, InitPrinted
<1>2. Inv /\ [Next]_vars => Inv'
  BY CallsInvStep, PathStep, HistoryStep, FailuresStep, PcStep, PrintedStep, IndexStep, BufferStep,
     PrintedStepFailures
<1>3. Inv => FailuresPrinted
  BY PrintedAre
<1> HIDE DEF Inv
<1> QED
  BY <1>1, <1>2, <1>3, PTL DEF Spec

-----------------------------------------------------------------------------
(* sentest_write_results: its arrays are large enough.                     *)

\* groups entered with the first k actions, and groups open behind them
Entered(k) == Occurrences(actions, {"GROUP_ENTER"}, k)
Deep(k) == Len(GroupsAround[k])

\* How nesting and the number of groups change along the record.
LEMMA DeepMoves ==
  ASSUME RecordInv, LeftInv
  PROVE  /\ \A k \in 0..Len(actions) : Deep(k) \in Nat /\ Entered(k) \in Nat
                                       /\ Entered(k) <= Entered(Len(actions))
         /\ Deep(0) = 0 /\ Entered(0) = 0
         /\ \A k \in 1..Len(actions) :
              /\ actions[k] = "GROUP_ENTER" => /\ Deep(k) = Deep(k-1) + 1
                                               /\ Entered(k) = Entered(k-1) + 1
              /\ actions[k] = "GROUP_LEAVE" => Deep(k) = Deep(k-1) - 1 /\ Deep(k-1) >= 1
              /\ actions[k] # "GROUP_ENTER" => Entered(k) = Entered(k-1)
              /\ actions[k] \notin {"GROUP_ENTER", "GROUP_LEAVE"} => Deep(k) = Deep(k-1)
<1>1. /\ GroupsAround \in [0..Len(actions) -> Seq(PlainStrings)]
      /\ AreStacks(GroupsAround, {"GROUP_ENTER"}, {"GROUP_LEAVE"}, actions, Texts)
      /\ Said(PlainStrings, {"GROUP_ENTER"}, actions, Texts)
  BY AroundTyped, TextsSaid, EntersStringed
<1>2. Len(actions) \in Nat
  BY DEF RecordInv
<1>3. \A k \in 0..Len(actions) : Entered(k) \in Nat /\ Entered(k) <= Entered(Len(actions))
  <2> TAKE k \in 0..Len(actions)
  <2>1. k \in Nat /\ Entered(k) \in Nat
    BY <1>2, OccurrencesStep DEF Entered
  <2>2. Entered(k) <= Entered(Len(actions))
    BY <1>2, OccurrencesGrow DEF Entered
  <2> QED
    BY <2>1, <2>2
<1>4. \A k \in 0..Len(actions) : Deep(k) \in Nat
  <2> TAKE k \in 0..Len(actions)
  <2>1. GroupsAround[k] \in Seq(PlainStrings)
    BY <1>1
  <2> QED
    BY <2>1 DEF Deep
<1>5. Deep(0) = 0 /\ Entered(0) = 0
  <2>1. GroupsAround[0] = <<>>
    BY <1>1 DEF AreStacks
  <2> QED
    BY <2>1, OccurrencesStep DEF Deep, Entered
<1>6. ASSUME NEW k \in 1..Len(actions)
      PROVE  /\ actions[k] = "GROUP_ENTER" => /\ Deep(k) = Deep(k-1) + 1
                                              /\ Entered(k) = Entered(k-1) + 1
             /\ actions[k] = "GROUP_LEAVE" => Deep(k) = Deep(k-1) - 1 /\ Deep(k-1) >= 1
             /\ actions[k] # "GROUP_ENTER" => Entered(k) = Entered(k-1)
             /\ actions[k] \notin {"GROUP_ENTER", "GROUP_LEAVE"} => Deep(k) = Deep(k-1)
  <2>1. PICK m \in 0..Len(actions) : m = k - 1 /\ k = m + 1 /\ m \in Nat
    BY <1>2
  <2> DEFINE s == GroupsAround[m]
             t == GroupsAround[k]
  <2>2. s \in Seq(PlainStrings)
    BY <1>1
  <2>3. /\ actions[k] = "GROUP_ENTER" => t = Append(s, Texts[k]) /\ Texts[k] \in PlainStrings
        /\ actions[k] = "GROUP_LEAVE" => t = SubSeq(s, 1, Len(s) - 1) /\ s # <<>>
        /\ actions[k] \notin {"GROUP_ENTER", "GROUP_LEAVE"} => t = s
    BY <1>1, <2>1 DEF AreStacks, Said, LeftInv
  <2> HIDE DEF s, t
  <2>4. /\ actions[k] = "GROUP_ENTER" => Len(t) = Len(s) + 1
        /\ actions[k] = "GROUP_LEAVE" => Len(t) = Len(s) - 1 /\ Len(s) >= 1
        /\ actions[k] \notin {"GROUP_ENTER", "GROUP_LEAVE"} => Len(t) = Len(s)
    BY <2>2, <2>3, StackLengths
  <2>5. Deep(k) = Len(t) /\ Deep(k-1) = Len(s)
    BY <2>1 DEF Deep, s, t
  <2>6. /\ actions[k] = "GROUP_ENTER" => Entered(k) = Entered(k-1) + 1
        /\ actions[k] # "GROUP_ENTER" => Entered(k) = Entered(k-1)
    BY <2>1, OccurrencesStep DEF Entered
  <2> QED
    BY <2>4, <2>5, <2>6
<1> QED
  BY <1>3, <1>4, <1>5, <1>6

\* sentest_finish leaves alone what they are computed from.
LEMMA RecordRead ==
  ASSUME CallsInv, HistoryInv, Finishing \/ UNCHANGED vars
  PROVE  /\ UNCHANGED <<config, broke, actions, GroupsAround, TopGroups, cases, groups, in_test,
                        tests_run, tests_passed, Texts>>
         /\ \A k : Deep(k)' = Deep(k) /\ Entered(k)' = Entered(k) /\ Text(k)' = Text(k)
<1>1. UNCHANGED callerVars
  BY FinishingReads DEF vars, callVars, harnessVars, callerVars
<1>2. GroupsAround' = GroupsAround /\ TopGroups' = TopGroups /\ Texts' = Texts
  BY <1>1, AroundStutter DEF callerVars, recordVars, CallsInv
<1>3. \A k : Text(k)' = Text(k)
  BY <1>1, RecordStutter DEF callerVars, recordVars, CallsInv
<1> QED
  BY <1>1, <1>2, <1>3 DEF callerVars, recordVars, trueVars, flagVars, counterVars, Deep, Entered

\* Callers that want a JUnit file write no break, so all groups are left at the end.
OutsideInv ==
  /\ config.junit_output_path \in BOOLEAN
  /\ config.junit_output_path => ~broke
  /\ pc \in {"scan", "total", "write"} => config.junit_output_path
  /\ ~broke /\ pc \notin {"calls", "aborted"} => TopGroups = <<>> /\ ~in_test

\* Every step keeps this: only break leaves a group open.
LEMMA OutsideStep ==
  ASSUME CallsInv, HistoryInv, OutsideInv, [Next]_vars
  PROVE  OutsideInv'
<1>1. CASE Calls
  <2>1. pc' \in {"calls", "aborted"} /\ config' = config /\ (broke' = broke \/ Break)
    BY <1>1, CallsMove
  <2>2. ~config.junit_output_path \/ ~Break
    BY DEF Break
  <2> QED
    BY <2>1, <2>2 DEF OutsideInv
<1>2. CASE Finish
  <2>1. UNCHANGED <<config, broke, TopGroups, in_test>>
    BY <1>2, RecordRead DEF Finishing
  <2>2. pc' = "print"
    BY <1>2 DEF Finish
  <2>3. ~broke => TopGroups = <<>> /\ ~in_test
    BY <1>2, FinishOutside DEF HistoryInv, NowInv
  <2> QED
    BY <2>1, <2>2, <2>3 DEF OutsideInv
<1>3. CASE Finishing /\ ~Finish
  <2>1. UNCHANGED <<config, broke, TopGroups, in_test>>
    BY <1>3, RecordRead
  <2>2. /\ pc \notin {"calls", "aborted"}
        /\ pc' \in {"scan", "total", "write"}
             => pc \in {"scan", "total", "write"} \/ config.junit_output_path
    BY <1>3 DEF Finishing, PrintEnter, PrintLeave, PrintFail, PrintEnd, Scan, ScanEnd,
       TotalLeaveGroup, TotalEnterGroup, TotalLeaveTest, TotalFail, TotalEnterTest, TotalEnd,
       OpenFails, WriteSuite, WriteCase, WriteCaseEnd, WriteSuiteEnd, WriteFail, WriteEnd,
       Reading, Totalling
  <2> QED
    BY <2>1, <2>2 DEF OutsideInv
<1>4. CASE UNCHANGED vars
  <2>1. UNCHANGED <<config, broke, TopGroups, in_test>>
    BY <1>4, RecordRead
  <2>2. pc' = pc
    BY <1>4 DEF vars
  <2> QED
    BY <2>1, <2>2 DEF OutsideInv
<1> QED
  BY <1>1, <1>2, <1>3, <1>4, StepsOfNext

\* the first loop: how deep groups are nested, and how many there are
ScanInv ==
  /\ max_depth \in Nat
  /\ pc \in {"calls", "print"} => nesting = 0 /\ num_groups = 0
  /\ pc = "scan" => /\ nesting = Deep(i-1) /\ num_groups = Entered(i-1)
                    /\ \A k \in 0..i-1 : Deep(k) <= max_depth \/ Deep(k) <= nesting
  /\ pc \in {"total", "write"} => /\ num_groups = Entered(Len(actions))
                                  /\ \A k \in 0..Len(actions) : Deep(k) <= max_depth

\* Every step keeps the depth and the number of groups that were found.
LEMMA ScanStep ==
  ASSUME CallsInv, HistoryInv, PrintedInv, IndexInv, OutsideInv, ScanInv, [Next]_vars
  PROVE  ScanInv'
<1> RecordInv /\ LeftInv /\ Len(actions) \in Nat
  BY DEF CallsInv, HistoryInv, RecordInv
<1>1. CASE Calls /\ UNCHANGED finishVars
  <2>1. pc = "calls" /\ (pc' = "calls" \/ pc' = "aborted")
    BY <1>1, CallsMove
  <2>2. UNCHANGED <<nesting, max_depth, num_groups>>
    BY <1>1 DEF finishVars, scanVars
  <2> QED
    BY <2>1, <2>2 DEF ScanInv
<1>2. CASE Finish \/ PrintEnter \/ PrintLeave \/ PrintFail
  <2>1. /\ pc \in {"calls", "print"} /\ pc' = "print"
        /\ UNCHANGED <<nesting, max_depth, num_groups>>
    BY <1>2 DEF Finish, PrintEnter, PrintLeave, PrintFail, Reading, finishVars, scanVars
  <2> QED
    BY <2>1 DEF ScanInv
<1>3. CASE PrintEnd
  <2>1. /\ pc = "print" /\ (pc' = "scan" \/ pc' = "done") /\ i' = 1
        /\ UNCHANGED <<nesting, max_depth, num_groups>>
    BY <1>3 DEF PrintEnd, scanVars
  <2>2. nesting = 0 /\ num_groups = 0 /\ i' - 1 = 0 /\ max_depth \in Nat
    BY <2>1 DEF ScanInv
  <2>3. Deep(0)' = 0 /\ Entered(0)' = 0
    BY <1>3, RecordRead, DeepMoves DEF Finishing
  <2>4. nesting' = Deep(i-1)' /\ num_groups' = Entered(i-1)'
    BY <2>1, <2>2, <2>3 DEF Deep, Entered
  <2>5. \A k \in 0..i' - 1 : (Deep(k) <= nesting)'
    BY <2>1, <2>2, <2>3 DEF Deep
  <2> QED
    BY <2>1, <2>2, <2>4, <2>5 DEF ScanInv
<1>4. CASE Scan
  <2>1. /\ pc = "scan" /\ pc' = "scan" /\ i \in 1..Len(actions) /\ i' = i + 1 /\ i' - 1 = i
        /\ i - 1 \in 0..Len(actions)
    BY <1>4 DEF Scan, IndexInv
  <2>2. /\ actions[i] = "GROUP_ENTER" => nesting' = nesting + 1 /\ num_groups' = num_groups + 1
                                         /\ max_depth' = max_depth
        /\ actions[i] = "GROUP_LEAVE" => /\ max_depth' = IF max_depth > nesting THEN max_depth ELSE nesting
                                         /\ nesting' = nesting - 1 /\ num_groups' = num_groups
        /\ actions[i] \notin {"GROUP_ENTER", "GROUP_LEAVE"} => UNCHANGED <<nesting, max_depth, num_groups>>
    BY <1>4 DEF Scan, scanVars
  <2>3. /\ nesting = Deep(i-1) /\ num_groups = Entered(i-1) /\ max_depth \in Nat
        /\ \A k \in 0..i-1 : Deep(k) <= max_depth \/ Deep(k) <= nesting
    BY <2>1 DEF ScanInv
  <2>4. /\ \A k \in 0..Len(actions) : Deep(k) \in Nat /\ Entered(k) \in Nat
        /\ actions[i] = "GROUP_ENTER" => Deep(i) = Deep(i-1) + 1 /\ Entered(i) = Entered(i-1) + 1
        /\ actions[i] = "GROUP_LEAVE" => Deep(i) = Deep(i-1) - 1 /\ Deep(i-1) >= 1
        /\ actions[i] # "GROUP_ENTER" => Entered(i) = Entered(i-1)
        /\ actions[i] \notin {"GROUP_ENTER", "GROUP_LEAVE"} => Deep(i) = Deep(i-1)
    BY <2>1, DeepMoves
  <2>5. Deep(i-1) \in Nat /\ Entered(i-1) \in Nat
    BY <2>1, <2>4
  <2>6. nesting' = Deep(i) /\ num_groups' = Entered(i) /\ max_depth' \in Nat
        /\ (max_depth' >= max_depth) /\ (nesting' >= nesting \/ max_depth' >= nesting)
    BY <2>2, <2>3, <2>4, <2>5
  <2>7. \A k \in 0..i : Deep(k) <= max_depth' \/ Deep(k) <= nesting'
    <3> TAKE k \in 0..i
    <3>1. CASE k = i
      BY <2>1, <2>4, <2>6, <3>1
    <3>2. CASE k # i
      <4>1. k \in 0..i-1 /\ k \in 0..Len(actions)
        BY <2>1, <3>2
      <4>2. Deep(k) \in Nat /\ (Deep(k) <= max_depth \/ Deep(k) <= nesting)
        BY <2>3, <2>4, <4>1
      <4>3. nesting \in Nat /\ nesting' \in Nat
        BY <2>1, <2>3, <2>4, <2>5, <2>6
      <4> QED
        BY <2>3, <2>6, <4>2, <4>3
    <3> QED
      BY <3>1, <3>2
  <2>8. \A k : Deep(k)' = Deep(k) /\ Entered(k)' = Entered(k)
    BY <1>4, RecordRead DEF Finishing
  <2>9. Deep(i-1)' = Deep(i) /\ Entered(i-1)' = Entered(i)
    <3>1. Deep(i-1)' = Len(GroupsAround'[i]) /\ Entered(i-1)' = Occurrences(actions', {"GROUP_ENTER"}, i)
      BY <2>1 DEF Deep, Entered
    <3>2. GroupsAround' = GroupsAround /\ actions' = actions
      BY <1>4, RecordRead DEF Finishing
    <3> QED
      BY <3>1, <3>2 DEF Deep, Entered
  <2>10. \A k \in 0..i' - 1 : (Deep(k) <= max_depth)' \/ (Deep(k) <= nesting)'
    BY <2>1, <2>7, <2>8
  <2> QED
    BY <2>1, <2>6, <2>9, <2>10 DEF ScanInv
<1>5. CASE ScanEnd
  <2>1. pc = "scan" /\ pc' = "total" /\ UNCHANGED <<nesting, max_depth, num_groups>>
        /\ i - 1 = Len(actions)
    BY <1>5 DEF ScanEnd, scanVars, IndexInv
  <2>2. /\ nesting = Deep(Len(actions)) /\ num_groups = Entered(Len(actions)) /\ max_depth \in Nat
        /\ \A k \in 0..Len(actions) : Deep(k) <= max_depth \/ Deep(k) <= nesting
    BY <2>1 DEF ScanInv
  <2>3. Deep(Len(actions)) = 0
    BY <2>1 DEF OutsideInv, TopGroups, Deep
  <2>4. \A k \in 0..Len(actions) : Deep(k) <= max_depth
    <3> TAKE k \in 0..Len(actions)
    <3>1. Deep(k) \in Nat
      BY DeepMoves
    <3> QED
      BY <2>2, <2>3, <3>1
  <2>5. /\ actions' = actions /\ \A k : Deep(k)' = Deep(k)
        /\ Entered(Len(actions))' = Entered(Len(actions))
    BY <1>5, RecordRead DEF Finishing, Entered
  <2> QED
    BY <2>1, <2>2, <2>4, <2>5 DEF ScanInv
<1>6. CASE TotalLeaveGroup \/ TotalEnterGroup \/ TotalLeaveTest \/ TotalFail \/ TotalEnterTest
           \/ TotalEnd \/ OpenFails \/ WriteSuite \/ WriteCase \/ WriteCaseEnd \/ WriteSuiteEnd
           \/ WriteFail \/ WriteEnd
  <2>1. /\ pc \in {"total", "write"} /\ pc' \in {"total", "write", "done", "crashed"}
        /\ UNCHANGED <<max_depth, num_groups>>
    BY <1>6 DEF TotalLeaveGroup, TotalEnterGroup, TotalLeaveTest, TotalFail, TotalEnterTest, TotalEnd,
       OpenFails, WriteSuite, WriteCase, WriteCaseEnd, WriteSuiteEnd, WriteFail, WriteEnd,
       Reading, Totalling, scanVars, finishVars
  <2>2. /\ actions' = actions /\ \A k : Deep(k)' = Deep(k)
        /\ Entered(Len(actions))' = Entered(Len(actions))
    BY <1>6, RecordRead DEF Finishing, Entered
  <2> QED
    BY <2>1, <2>2 DEF ScanInv
<1>7. CASE UNCHANGED vars
  <2>1. UNCHANGED <<pc, nesting, max_depth, num_groups, i>>
    BY <1>7 DEF vars, finishVars, scanVars
  <2>2. UNCHANGED <<GroupsAround, actions>>
    BY <1>7, RecordRead
  <2> QED
    BY <2>1, <2>2 DEF ScanInv, Deep, Entered
<1> QED
  BY <1>1, <1>2, <1>3, <1>4, <1>5, <1>6, <1>7, StepsOfNext DEF Finishing

\* the second loop: the stack is as deep as the groups around the action, and the
\* totals are those of the groups whose starts were passed
TotalsInv ==
  /\ failed \in BOOLEAN
  /\ current \in Aggregate /\ aggs \in Seq(Aggregate) /\ agg_stack \in Seq(Aggregate)
  /\ pc \in {"calls", "print", "scan"} => aggs = <<>> /\ agg_stack = <<>>
  /\ pc = "total" => /\ Len(agg_stack) = Deep(i)
                     /\ Len(aggs) = Entered(Len(actions)) - Entered(i)
  /\ pc = "write" => agg_stack = <<>> /\ Len(aggs) = num_groups

\* what the steps of the second loop share
LEMMA TotalMoves ==
  ASSUME CallsInv, HistoryInv, IndexInv, pc = "total", i > 0
  PROVE  /\ i \in 1..Len(actions) /\ i - 1 \in 0..Len(actions) /\ i \in 0..Len(actions)
         /\ Deep(i) \in Nat /\ Deep(i-1) \in Nat /\ Entered(i) \in Nat /\ Entered(i-1) \in Nat
         /\ Entered(Len(actions)) \in Nat
         /\ actions[i] = "GROUP_ENTER" => Deep(i) = Deep(i-1) + 1 /\ Entered(i) = Entered(i-1) + 1
         /\ actions[i] = "GROUP_LEAVE" => Deep(i) = Deep(i-1) - 1 /\ Deep(i-1) >= 1
         /\ actions[i] # "GROUP_ENTER" => Entered(i) = Entered(i-1)
         /\ actions[i] \notin {"GROUP_ENTER", "GROUP_LEAVE"} => Deep(i) = Deep(i-1)
<1>1. RecordInv /\ LeftInv /\ Len(actions) \in Nat
  BY DEF CallsInv, HistoryInv, RecordInv
<1>2. i \in 1..Len(actions) /\ i - 1 \in 0..Len(actions) /\ i \in 0..Len(actions)
  BY <1>1 DEF IndexInv
<1>3. Len(actions) \in 0..Len(actions)
  BY <1>1
<1> QED
  BY <1>1, <1>2, <1>3, DeepMoves

\* Every step keeps the stack and the totals as many as they should be.
LEMMA TotalsStep ==
  ASSUME CallsInv, HistoryInv, PrintedInv, IndexInv, OutsideInv, ScanInv, TotalsInv, [Next]_vars
  PROVE  TotalsInv'
<1> RecordInv /\ LeftInv /\ Len(actions) \in Nat
  BY DEF CallsInv, HistoryInv, RecordInv
<1>1. CASE \/ (Calls /\ UNCHANGED finishVars)
           \/ Finish \/ PrintEnter \/ PrintLeave \/ PrintFail \/ PrintEnd \/ Scan
  <2>1. pc \in {"calls", "print", "scan"} /\ pc' \notin {"total", "write"}
    BY <1>1, CallsMove DEF Finish, PrintEnter, PrintLeave, PrintFail, PrintEnd, Scan, Reading
  <2>2. UNCHANGED <<failed, current, aggs, agg_stack>>
    BY <1>1 DEF Finish, PrintEnter, PrintLeave, PrintFail, PrintEnd, Scan, finishVars, totalVars
  <2> QED
    BY <2>1, <2>2 DEF TotalsInv
<1>2. CASE ScanEnd
  <2>1. /\ pc = "scan" /\ pc' = "total" /\ i' = Len(actions)
        /\ UNCHANGED <<failed, current, aggs, agg_stack>>
    BY <1>2 DEF ScanEnd, totalVars
  <2>2. UNCHANGED <<actions, GroupsAround>>
    BY <1>2, RecordRead DEF Finishing
  <2>3. Deep(Len(actions)) = 0
    BY <2>1 DEF OutsideInv, TopGroups, Deep
  <2>4. Entered(Len(actions)) \in Nat
    BY OccurrencesStep DEF Entered
  <2>5. Deep(i)' = Deep(Len(actions)) /\ Entered(i)' = Entered(Len(actions))
        /\ Entered(Len(actions))' = Entered(Len(actions))
    BY <2>1, <2>2 DEF Deep, Entered
  <2>6. agg_stack = <<>> /\ aggs = <<>>
    BY <2>1 DEF TotalsInv
  <2> QED
    BY <2>1, <2>3, <2>4, <2>5, <2>6 DEF TotalsInv
<1>3. ASSUME Finishing, pc = "total", pc' = "total", i > 0, i' = i - 1,
             current' \in Aggregate, aggs' \in Seq(Aggregate), agg_stack' \in Seq(Aggregate),
             failed' \in BOOLEAN,
             Len(agg_stack') = Deep(i-1), Len(aggs') = Entered(Len(actions)) - Entered(i-1)
      PROVE  TotalsInv'
  <2>1. UNCHANGED <<actions, GroupsAround>>
    BY <1>3, RecordRead
  <2>2. Deep(i)' = Deep(i-1) /\ Entered(i)' = Entered(i-1)
        /\ Entered(Len(actions))' = Entered(Len(actions))
    BY <1>3, <2>1 DEF Deep, Entered
  <2> QED
    BY <1>3, <2>2 DEF TotalsInv
<1>4. CASE TotalLeaveGroup
  <2>1. /\ pc = "total" /\ pc' = "total" /\ i > 0 /\ actions[i] = "GROUP_LEAVE" /\ i' = i - 1
        /\ agg_stack' = Append(agg_stack, current) /\ current' = NoTests
        /\ UNCHANGED <<aggs, failed>>
    BY <1>4 DEF TotalLeaveGroup, Totalling
  <2>2. /\ current \in Aggregate /\ NoTests \in Aggregate /\ agg_stack \in Seq(Aggregate)
        /\ Len(agg_stack) = Deep(i) /\ Len(aggs) = Entered(Len(actions)) - Entered(i)
    BY <2>1 DEF TotalsInv, NoTests, Aggregate
  <2>3. agg_stack' \in Seq(Aggregate) /\ Len(agg_stack') = Len(agg_stack) + 1
    BY <2>1, <2>2
  <2>4. Len(agg_stack') = Deep(i-1) /\ Len(aggs') = Entered(Len(actions)) - Entered(i-1)
    BY <2>1, <2>2, <2>3, TotalMoves
  <2> QED
    BY <1>3, <1>4, <2>1, <2>2, <2>3, <2>4 DEF TotalsInv, Finishing
<1>5. CASE TotalEnterGroup
  <2>1. /\ pc = "total" /\ pc' = "total" /\ i > 0 /\ actions[i] = "GROUP_ENTER" /\ i' = i - 1
        /\ aggs' = Append(aggs, current) /\ agg_stack' = Front(agg_stack)
        /\ failed' = failed
        /\ current' = [tests    |-> current.tests + Last(agg_stack).tests,
                       failures |-> current.failures + Last(agg_stack).failures]
    BY <1>5 DEF TotalEnterGroup, Totalling
  <2>2. /\ current \in Aggregate /\ agg_stack \in Seq(Aggregate) /\ aggs \in Seq(Aggregate)
        /\ Len(agg_stack) = Deep(i) /\ Len(aggs) = Entered(Len(actions)) - Entered(i)
    BY <2>1 DEF TotalsInv
  <2>3. agg_stack # <<>>
    BY <2>1, <2>2, TotalMoves
  <2>4. /\ agg_stack' \in Seq(Aggregate) /\ Len(agg_stack') = Len(agg_stack) - 1
        /\ Last(agg_stack) \in Aggregate
    BY <2>1, <2>2, <2>3, LastAgain, WithoutLast DEF Front, Last
  <2> DEFINE inner == Last(agg_stack)
  <2>5. current' \in Aggregate
    <3>1. current' = [tests |-> current.tests + inner.tests, failures |-> current.failures + inner.failures]
      BY <2>1
    <3>2. current \in Aggregate /\ inner \in Aggregate
      BY <2>2, <2>4
    <3> HIDE DEF inner
    <3>3. /\ current.tests \in Nat /\ current.failures \in Nat
          /\ inner.tests \in Nat /\ inner.failures \in Nat
      BY <3>2 DEF Aggregate
    <3> QED
      BY <3>1, <3>3 DEF Aggregate
  <2>6. aggs' \in Seq(Aggregate) /\ Len(aggs') = Len(aggs) + 1
    BY <2>1, <2>2
  <2>7. Len(agg_stack') = Deep(i-1) /\ Len(aggs') = Entered(Len(actions)) - Entered(i-1)
    <3>1. /\ Deep(i-1) \in Nat /\ Entered(i-1) \in Nat /\ Entered(Len(actions)) \in Nat
          /\ Deep(i) = Deep(i-1) + 1 /\ Entered(i) = Entered(i-1) + 1
      BY <2>1, TotalMoves
    <3>2. Len(agg_stack') = Len(agg_stack) - 1 /\ Len(aggs') = Len(aggs) + 1
          /\ Len(agg_stack) = Deep(i) /\ Len(aggs) = Entered(Len(actions)) - Entered(i)
      BY <2>2, <2>4, <2>6
    <3> QED
      BY <3>1, <3>2
  <2> QED
    BY <1>3, <1>5, <2>1, <2>4, <2>5, <2>6, <2>7 DEF TotalsInv, Finishing
<1>6. CASE TotalLeaveTest \/ TotalFail \/ TotalEnterTest
  <2>1. /\ pc = "total" /\ pc' = "total" /\ i > 0 /\ i' = i - 1 /\ failed' \in BOOLEAN
        /\ actions[i] \notin {"GROUP_ENTER", "GROUP_LEAVE"} /\ UNCHANGED <<aggs, agg_stack>>
    BY <1>6 DEF TotalLeaveTest, TotalFail, TotalEnterTest, Totalling
  <2>2. /\ \/ current' = current
           \/ current' = [current EXCEPT !.tests = @ + 1]
           \/ current' = [current EXCEPT !.failures = @ + 1]
    BY <1>6 DEF TotalLeaveTest, TotalFail, TotalEnterTest
  <2>3. current' \in Aggregate
    <3>1. current \in Aggregate
      BY DEF TotalsInv
    <3>2. CASE current' = current
      BY <3>1, <3>2
    <3>3. CASE current' = [current EXCEPT !.tests = @ + 1]
      BY <3>1, <3>3 DEF Aggregate
    <3>4. CASE current' = [current EXCEPT !.failures = @ + 1]
      BY <3>1, <3>4 DEF Aggregate
    <3> QED
      BY <2>2, <3>2, <3>3, <3>4
  <2>4. Len(agg_stack') = Deep(i-1) /\ Len(aggs') = Entered(Len(actions)) - Entered(i-1)
    <3>1. Len(agg_stack) = Deep(i) /\ Len(aggs) = Entered(Len(actions)) - Entered(i)
      BY <2>1 DEF TotalsInv
    <3> QED
      BY <2>1, <3>1, TotalMoves
  <2> QED
    BY <1>3, <1>6, <2>1, <2>3, <2>4 DEF TotalsInv, Finishing
<1>7. CASE TotalEnd
  <2>1. /\ pc = "total" /\ i = 0 /\ pc' = "write" /\ UNCHANGED <<failed, current, aggs, agg_stack, num_groups>>
    BY <1>7 DEF TotalEnd, totalVars, scanVars
  <2>2. Len(agg_stack) = Deep(0) /\ Len(aggs) = Entered(Len(actions)) - Entered(0)
    BY <2>1 DEF TotalsInv
  <2>3. Deep(0) = 0 /\ Entered(0) = 0 /\ Entered(Len(actions)) \in Nat
    <3>1. Len(actions) \in 0..Len(actions)
      OBVIOUS
    <3> QED
      BY <3>1, DeepMoves
  <2>4. agg_stack = <<>>
    BY <2>2, <2>3 DEF TotalsInv
  <2>5. Len(aggs) = num_groups
    BY <2>1, <2>2, <2>3 DEF ScanInv
  <2> QED
    BY <2>1, <2>4, <2>5 DEF TotalsInv
<1>8. CASE OpenFails \/ WriteSuite \/ WriteCase \/ WriteCaseEnd \/ WriteSuiteEnd \/ WriteFail \/ WriteEnd
  <2>1. /\ pc' = "write" => pc = "write"
        /\ pc' \in {"write", "done", "crashed"}
        /\ UNCHANGED <<failed, current, aggs, agg_stack, num_groups>>
    BY <1>8 DEF OpenFails, WriteSuite, WriteCase, WriteCaseEnd, WriteSuiteEnd, WriteFail, WriteEnd,
       Reading, totalVars, scanVars, finishVars
  <2> QED
    BY <2>1 DEF TotalsInv
<1>9. CASE UNCHANGED vars
  <2>1. UNCHANGED <<pc, i, num_groups, failed, current, aggs, agg_stack>>
    BY <1>9 DEF vars, finishVars, scanVars, totalVars
  <2>2. UNCHANGED <<GroupsAround, actions>>
    BY <1>9, RecordRead
  <2> QED
    BY <2>1, <2>2 DEF TotalsInv, Deep, Entered
<1> QED
  BY <1>1, <1>2, <1>4, <1>5, <1>6, <1>7, <1>8, <1>9, StepsOfNext DEF Finishing

\* the last loop: the indentation, and which total is next
WriteInv ==
  pc = "write" => agg_ind = num_groups - Entered(i-1) /\ nesting = 1 + Deep(i-1)

\* Every step keeps the indices of the last loop.
LEMMA WriteStep ==
  ASSUME CallsInv, HistoryInv, PrintedInv, IndexInv, ScanInv, WriteInv, [Next]_vars
  PROVE  WriteInv'
<1> RecordInv /\ LeftInv /\ Len(actions) \in Nat
  BY DEF CallsInv, HistoryInv, RecordInv
<1>1. CASE Calls \/ Finish \/ PrintEnter \/ PrintLeave \/ PrintFail \/ PrintEnd \/ Scan \/ ScanEnd
           \/ TotalLeaveGroup \/ TotalEnterGroup \/ TotalLeaveTest \/ TotalFail \/ TotalEnterTest
           \/ OpenFails \/ WriteEnd
  <2>1. pc' # "write"
    BY <1>1, CallsMove DEF Finish, PrintEnter, PrintLeave, PrintFail, PrintEnd, Scan, ScanEnd,
       TotalLeaveGroup, TotalEnterGroup, TotalLeaveTest, TotalFail, TotalEnterTest, OpenFails,
       WriteEnd, Reading, Totalling
  <2> QED
    BY <2>1 DEF WriteInv
<1>2. CASE TotalEnd
  <2>1. i' = 1 /\ agg_ind' = num_groups /\ nesting' = 1 /\ num_groups' = num_groups /\ pc = "total"
    BY <1>2 DEF TotalEnd, scanVars
  <2>2. UNCHANGED <<actions, GroupsAround>>
    BY <1>2, RecordRead DEF Finishing
  <2>3. Deep(0) = 0 /\ Entered(0) = 0
    BY DeepMoves
  <2>4. i' - 1 = 0
    BY <2>1
  <2>5. Deep(i-1)' = 0 /\ Entered(i-1)' = 0
    BY <2>2, <2>3, <2>4 DEF Deep, Entered
  <2>6. num_groups \in Nat
    <3>1. Len(actions) \in 0..Len(actions)
      OBVIOUS
    <3> QED
      BY <2>1, <3>1, DeepMoves DEF ScanInv
  <2> QED
    BY <2>1, <2>5, <2>6 DEF WriteInv
<1>3. CASE WriteSuite \/ WriteCase \/ WriteCaseEnd \/ WriteSuiteEnd \/ WriteFail
  <2>1. PICK kinds : Reading("write", kinds)
    BY <1>3 DEF WriteSuite, WriteCase, WriteCaseEnd, WriteSuiteEnd, WriteFail
  <2>2. /\ pc = "write" /\ i \in 1..Len(actions) /\ i' = i + 1 /\ i' - 1 = i
        /\ i - 1 \in 0..Len(actions) /\ i \in 0..Len(actions) /\ num_groups' = num_groups
    BY <1>3, <2>1, ReadsOn DEF WriteSuite, WriteCase, WriteCaseEnd, WriteSuiteEnd, WriteFail, scanVars
  <2>3. /\ Deep(i) \in Nat /\ Deep(i-1) \in Nat /\ Entered(i) \in Nat /\ Entered(i-1) \in Nat
        /\ actions[i] = "GROUP_ENTER" => Deep(i) = Deep(i-1) + 1 /\ Entered(i) = Entered(i-1) + 1
        /\ actions[i] = "GROUP_LEAVE" => Deep(i) = Deep(i-1) - 1 /\ Deep(i-1) >= 1
        /\ actions[i] # "GROUP_ENTER" => Entered(i) = Entered(i-1)
        /\ actions[i] \notin {"GROUP_ENTER", "GROUP_LEAVE"} => Deep(i) = Deep(i-1)
    BY <2>2, DeepMoves
  <2>4. /\ agg_ind = num_groups - Entered(i-1) /\ nesting = 1 + Deep(i-1) /\ num_groups \in Nat
    <3>1. Len(actions) \in 0..Len(actions)
      OBVIOUS
    <3> QED
      BY <2>2, <3>1, DeepMoves DEF WriteInv, ScanInv
  <2>5. \/ actions[i] = "GROUP_ENTER" /\ agg_ind' = agg_ind - 1 /\ nesting' = nesting + 1
        \/ actions[i] = "GROUP_LEAVE" /\ agg_ind' = agg_ind /\ nesting' = nesting - 1
        \/ /\ actions[i] \notin {"GROUP_ENTER", "GROUP_LEAVE"}
           /\ agg_ind' = agg_ind /\ nesting' = nesting
    BY <1>3 DEF WriteSuite, WriteCase, WriteCaseEnd, WriteSuiteEnd, WriteFail, Reading
  <2>6. agg_ind' = num_groups - Entered(i) /\ nesting' = 1 + Deep(i)
    <3>1. CASE actions[i] = "GROUP_ENTER"
      BY <2>3, <2>4, <2>5, <3>1
    <3>2. CASE actions[i] = "GROUP_LEAVE"
      BY <2>3, <2>4, <2>5, <3>2
    <3>3. CASE actions[i] \notin {"GROUP_ENTER", "GROUP_LEAVE"}
      BY <2>3, <2>4, <2>5, <3>3
    <3> QED
      BY <3>1, <3>2, <3>3
  <2>7. Deep(i-1)' = Deep(i) /\ Entered(i-1)' = Entered(i)
    <3>1. Deep(i-1)' = Len(GroupsAround'[i]) /\ Entered(i-1)' = Occurrences(actions', {"GROUP_ENTER"}, i)
      BY <2>2 DEF Deep, Entered
    <3>2. GroupsAround' = GroupsAround /\ actions' = actions
      BY <1>3, RecordRead DEF Finishing
    <3> QED
      BY <3>1, <3>2 DEF Deep, Entered
  <2> QED
    BY <2>2, <2>6, <2>7 DEF WriteInv
<1>4. CASE UNCHANGED vars
  <2>1. UNCHANGED <<pc, i, num_groups, agg_ind, nesting>>
    BY <1>4 DEF vars, finishVars, scanVars, writeVars
  <2>2. UNCHANGED <<GroupsAround, actions>>
    BY <1>4, RecordRead
  <2> QED
    BY <2>1, <2>2 DEF WriteInv, Deep, Entered
<1> QED
  BY <1>1, <1>2, <1>3, <1>4, StepsOfNext DEF Finishing

-----------------------------------------------------------------------------
(* Types.                                                                  *)

CountersInv ==
  /\ tests_passed \in Nat /\ tests_filtered_out \in Nat /\ tests_run \in Nat
  /\ current_failed \in BOOLEAN /\ had_failure \in BOOLEAN

\* Every step keeps the types of the counters.
LEMMA CountersStep ==
  ASSUME CallsInv, CountersInv, [Next]_vars
  PROVE  CountersInv'
<1>1. CASE Calls /\ UNCHANGED finishVars
  <2>1. had_failure' = had_failure
    BY <1>1 DEF finishVars, printVars
  <2>2. /\ tests_passed' \in {tests_passed, tests_passed + 1}
        /\ tests_filtered_out' \in {tests_filtered_out, tests_filtered_out + 1}
        /\ tests_run' \in {tests_run, tests_run + 1}
        /\ current_failed' = current_failed \/ current_failed' = TRUE \/ current_failed' = FALSE
    BY <1>1 DEF Calls, sentest_group_start, TestSkipped, TestStart, MakeAssertion, sentest_fail_with,
       sentest_group_should_continue, sentest_group_end, sentest_test_should_continue,
       sentest_end_internal, Break, AssertStops, counterVars, flagVars, harnessVars, callVars
  <2>3. current_failed' \in BOOLEAN /\ had_failure' \in BOOLEAN
    BY <2>1, <2>2 DEF CountersInv
  <2> QED
    BY <2>2, <2>3 DEF CountersInv
<1>2. CASE Finishing
  <2>1. UNCHANGED <<tests_passed, tests_filtered_out, tests_run, current_failed>>
    BY <1>2, FinishingReads DEF callerVars, counterVars, flagVars
  <2>2. had_failure' = had_failure \/ had_failure' = TRUE
    BY <1>2 DEF Finishing, Finish, PrintEnter, PrintLeave, PrintFail, PrintEnd, Scan, ScanEnd,
       TotalLeaveGroup, TotalEnterGroup, TotalLeaveTest, TotalFail, TotalEnterTest, TotalEnd,
       OpenFails, WriteSuite, WriteCase, WriteCaseEnd, WriteSuiteEnd, WriteFail, WriteEnd,
       finishVars, printVars
  <2> QED
    BY <2>1, <2>2 DEF CountersInv
<1>3. CASE UNCHANGED vars
  BY <1>3 DEF CountersInv, vars, callVars, harnessVars, counterVars, flagVars, finishVars, printVars
<1> QED
  BY <1>1, <1>2, <1>3, StepsOfNext

\* The loops of sentest_write_results have not started at the start.
LEMMA InitTypes ==
  ASSUME ReportInit
  PROVE  OutsideInv /\ ScanInv /\ TotalsInv /\ WriteInv /\ CountersInv
<1>1. /\ pc = "calls" /\ broke = FALSE /\ config \in Configs
      /\ tests_passed = 0 /\ tests_filtered_out = 0 /\ tests_run = 0
      /\ current_failed = FALSE /\ had_failure = FALSE /\ failed = FALSE
      /\ max_depth = 0 /\ num_groups = 0 /\ nesting = 0
      /\ aggs = <<>> /\ agg_stack = <<>> /\ current = NoTests
  BY DEF ReportInit, Init
<1>2. config.junit_output_path \in BOOLEAN
  BY <1>1, TestConstants DEF Config
<1>3. OutsideInv
  BY <1>1, <1>2 DEF OutsideInv
<1>4. ScanInv
  BY <1>1 DEF ScanInv
<1>5. TotalsInv
  <2>1. current \in Aggregate
    BY <1>1 DEF NoTests, Aggregate
  <2>2. failed \in BOOLEAN
    BY <1>1
  <2>3. aggs \in Seq(Aggregate) /\ agg_stack \in Seq(Aggregate)
    BY <1>1
  <2> QED
    BY <1>1, <2>1, <2>2, <2>3 DEF TotalsInv
<1> QED
  BY <1>1, <1>3, <1>4, <1>5 DEF WriteInv, CountersInv

\* the arrays of sentest_write_results while they are used
LEMMA ArraysLargeEnough ==
  ASSUME CallsInv, HistoryInv, IndexInv, ScanInv, TotalsInv, WriteInv
  PROVE  /\ pc \in {"total", "write"} => Len(agg_stack) <= max_depth /\ Len(aggs) <= num_groups
         /\ pc = "write" => agg_ind \in 0..num_groups /\ nesting \in 1..max_depth + 1
<1>1. RecordInv /\ LeftInv /\ Len(actions) \in Nat /\ Len(actions) \in 0..Len(actions)
  BY DEF CallsInv, HistoryInv, RecordInv
<1>2. \A k \in 0..Len(actions) : Deep(k) \in Nat /\ Entered(k) \in Nat
                                 /\ Entered(k) <= Entered(Len(actions))
  BY <1>1, DeepMoves
<1>3. CASE pc = "total"
  <2>1. i \in 0..Len(actions)
    BY <1>3 DEF IndexInv
  <2>2. Len(agg_stack) = Deep(i) /\ Len(aggs) = Entered(Len(actions)) - Entered(i)
    BY <1>3 DEF TotalsInv
  <2>3. num_groups = Entered(Len(actions)) /\ Deep(i) <= max_depth
    BY <1>3, <2>1 DEF ScanInv
  <2>4. Entered(i) \in Nat /\ Entered(Len(actions)) \in Nat
    BY <1>1, <1>2, <2>1
  <2> QED
    BY <1>3, <2>2, <2>3, <2>4
<1>4. CASE pc = "write"
  <2>1. PICK m \in 0..Len(actions) : m = i - 1
    BY <1>1, <1>4 DEF IndexInv
  <2>2. agg_ind = num_groups - Entered(m) /\ nesting = 1 + Deep(m)
    BY <1>4, <2>1 DEF WriteInv
  <2>3. num_groups = Entered(Len(actions)) /\ Deep(m) <= max_depth /\ max_depth \in Nat
    BY <1>4, <2>1 DEF ScanInv
  <2>4. Deep(m) \in Nat /\ Entered(m) \in Nat /\ Entered(Len(actions)) \in Nat
        /\ Entered(m) <= Entered(Len(actions))
    BY <1>1, <1>2, <2>1
  <2>5. agg_stack = <<>> /\ Len(aggs) = num_groups
    BY <1>4 DEF TotalsInv
  <2> QED
    BY <1>4, <2>2, <2>3, <2>4, <2>5
<1> QED
  BY <1>3, <1>4

\* The invariants say that every variable has its type.
LEMMA TypesAre ==
  ASSUME CallsInv, HistoryInv, PcInv, IndexInv, BufferInv, ScanInv, TotalsInv, WriteInv, CountersInv
  PROVE  TypeOK
<1>1. PICK names : SpellsIn(path, path_seg_lengths, names)
  BY DEF BufferInv
<1>2. path.length \in 1..Len(path.data) /\ path_seg_lengths \in Seq(Nat)
  BY <1>1, SpellsRead
<1>3. depth \in Nat
  <2>1. Len(bodies) \in Nat /\ (bodies # <<>> => Len(bodies) # 0)
    BY DEF CallsInv, LoopsInv, LoopTypes
  <2>2. NumberOpen \in Nat
    BY <2>1 DEF NumberOpen
  <2>3. depth \in Int /\ depth >= NumberOpen
    BY DEF CallsInv, LoopsInv, LoopTypes
  <2> QED
    BY <2>2, <2>3
<1>4. /\ pc \in {"calls", "print", "scan", "total", "write", "done", "aborted", "crashed"}
      /\ config \in Configs /\ broke \in BOOLEAN
      /\ in_test \in BOOLEAN /\ should_exit_group \in BOOLEAN
      /\ actions \in Seq(Kinds) /\ str_starts \in Seq(1..Len(strs))
  BY DEF PcInv, CallsInv, LoopsInv, LoopTypes, RecordInv
<1>5. /\ tests_passed \in Nat /\ tests_filtered_out \in Nat /\ tests_run \in Nat
      /\ current_failed \in BOOLEAN /\ had_failure \in BOOLEAN
  BY DEF CountersInv
<1>6. /\ failed \in BOOLEAN
      /\ current \in Aggregate /\ aggs \in Seq(Aggregate) /\ agg_stack \in Seq(Aggregate)
  BY DEF TotalsInv
<1>7. \A flag \in {current_failed, in_test, should_exit_group, failed, had_failure} :
        flag \in BOOLEAN
  BY <1>4, <1>5, <1>6
<1> QED
  BY <1>2, <1>3, <1>4, <1>5, <1>6, <1>7, ArraysLargeEnough DEF TypeOK

\* Every variable has its type, and the arrays of sentest_write_results, which are
\* allocated for the depth and the number of groups the first loop found, are never
\* indexed outside, whatever groups and tests the caller opened.
THEOREM SenTestTypeOK == Spec => []TypeOK
<1> DEFINE Inv == /\ CallsInv /\ PathInv /\ HistoryInv /\ PcInv /\ PrintedInv /\ IndexInv /\ BufferInv
                  /\ OutsideInv /\ ScanInv /\ TotalsInv /\ WriteInv /\ CountersInv
<1>1. ReportInit => Inv
  BY InitCalls, InitPath, InitHistory, InitPc, InitIndex, InitBuffer, InitTypes
<1>2. Inv /\ [Next]_vars => Inv'
  BY CallsInvStep, PathStep, HistoryStep, PcStep, PrintedStep, IndexStep, BufferStep,
     OutsideStep, ScanStep, TotalsStep, WriteStep, CountersStep
<1>3. Inv => TypeOK
  BY TypesAre
<1> HIDE DEF Inv
<1> QED
  BY <1>1, <1>2, <1>3, PTL DEF Spec

-----------------------------------------------------------------------------
(* The tests and failures of the JUnit file: those of the cases are those  *)
(* of the record.                                                          *)

Story == [tag : {"testcase"}, name : PlainStrings, classname : Seq(PlainStrings)]
           \cup [tag : {"failure"}, text : PlainStrings]
StoryKinds == {"TEST_ENTER", "TEST_FAIL"}
StoryTags == {"testcase", "failure"}

\* a test, a failure
CaseTag(name, class) == [tag |-> "testcase", name |-> name, classname |-> class]
FailTag(text) == [tag |-> "failure", text |-> text]

\* the start tags the record asks for, after each action
StoryAt(k) ==
  IF actions[k] = "TEST_ENTER" THEN CaseTag(Text(k), GroupsAround[k]) ELSE FailTag(Text(k))
StoryEntries == [k \in 1..Len(actions) |-> StoryAt(k)]
Stories == Stacks(StoryKinds, {}, actions, StoryEntries)

\* the start tags of a test
FailTags == [reason \in Reasons |-> FailTag(reason)]
StoryOf(test) == <<CaseTag(test.name, test.groups)>> \o Mapped(FailTags, test.reasons)

StoriesInv == ~broke => TrueCases = Stories[Len(actions)]

\* The start tags of tests and failures are such.
LEMMA TagsTyped ==
  /\ \A name \in PlainStrings : \A class \in Seq(PlainStrings) : CaseTag(name, class) \in Story
  /\ \A text \in PlainStrings : FailTag(text) \in Story
  /\ FailTags \in [Reasons -> Story]
<1>1. \A name \in PlainStrings : \A class \in Seq(PlainStrings) : CaseTag(name, class) \in Story
  BY DEF CaseTag, Story
<1>2. \A text \in PlainStrings : FailTag(text) \in Story
  BY DEF FailTag, Story
<1>3. \A reason \in Reasons : FailTag(reason) \in Story
  BY <1>2, NamesPlain
<1> QED
  BY <1>1, <1>2, <1>3 DEF FailTags

\* The start tags of a test and its failures.
LEMMA StoryOfTyped ==
  ASSUME NEW test \in Case
  PROVE  /\ StoryOf(test) \in Seq(Story) /\ CaseTag(test.name, test.groups) \in Story
         /\ Mapped(FailTags, test.reasons) \in Seq(Story)
<1>1. test.groups \in Seq(Names) /\ test.name \in Names /\ test.reasons \in Seq(Reasons)
  BY DEF Case
<1>2. test.groups \in Seq(PlainStrings) /\ test.name \in PlainStrings
  BY <1>1, NamesPlain, SeqMonotonic
<1>3. CaseTag(test.name, test.groups) \in Story
  BY <1>2, TagsTyped
<1>4. Mapped(FailTags, test.reasons) \in Seq(Story)
  <2>1. IsMapped(Mapped(FailTags, test.reasons), FailTags, test.reasons, Story)
    BY <1>1, TagsTyped, MappedTyped
  <2> QED
    BY <2>1 DEF IsMapped
<1>5. <<CaseTag(test.name, test.groups)>> \in Seq(Story)
  BY <1>3
<1> QED
  BY <1>3, <1>4, <1>5, ConcatProperties DEF StoryOf

\* a test that was started
LEMMA StoryOfNew ==
  ASSUME NEW test \in Case, test.reasons = <<>>
  PROVE  StoryOf(test) = <<CaseTag(test.name, test.groups)>>
<1>1. Mapped(FailTags, test.reasons) = <<>>
  BY DEF Mapped
<1>2. CaseTag(test.name, test.groups) \in Story
  BY StoryOfTyped
<1>3. <<CaseTag(test.name, test.groups)>> \in Seq(Story)
  BY <1>2
<1> QED
  BY <1>1, <1>3, ConcatEmptySeq DEF StoryOf

\* One failure more.
LEMMA StoryOfGrow ==
  ASSUME NEW test \in Case, NEW reason \in Reasons
  PROVE  StoryOf([test EXCEPT !.reasons = Append(@, reason)])
           = Append(StoryOf(test), FailTag(reason))
<1> DEFINE next == [test EXCEPT !.reasons = Append(test.reasons, reason)]
           head == <<CaseTag(test.name, test.groups)>>
           tags == Mapped(FailTags, test.reasons)
<1>1. test.reasons \in Seq(Reasons)
  BY DEF Case
<1>2. /\ next.name = test.name /\ next.groups = test.groups
      /\ next.reasons = Append(test.reasons, reason)
  BY DEF Case
<1>3. FailTags \in [Reasons -> Story] /\ FailTags[reason] = FailTag(reason)
  BY TagsTyped DEF FailTags
<1>4. Mapped(FailTags, Append(test.reasons, reason)) = Append(tags, FailTag(reason))
  <2>1. Mapped(FailTags, Append(test.reasons, reason)) = Append(tags, FailTags[reason])
    BY <1>1, <1>3, MappedAppend
  <2> QED
    BY <1>3, <2>1
<1>5. StoryOf(next) = head \o Append(tags, FailTag(reason))
  BY <1>2, <1>4 DEF StoryOf
<1>6. head \in Seq(Story) /\ tags \in Seq(Story) /\ FailTag(reason) \in Story
  BY StoryOfTyped, TagsTyped, NamesPlain
<1>7. StoryOf(test) = head \o tags
  BY DEF StoryOf
<1> HIDE DEF next, head, tags
<1>8. head \o Append(tags, FailTag(reason)) = Append(head \o tags, FailTag(reason))
  BY <1>6, ConcatAppend
<1> QED
  BY <1>5, <1>7, <1>8 DEF next

\* Those of all tests, flattened.
LEMMA TrueCasesAre ==
  ASSUME AccountInv
  PROVE  /\ TrueCases = FlattenSeq([k \in 1..Len(cases) |-> StoryOf(cases[k])])
         /\ [k \in 1..Len(cases) |-> StoryOf(cases[k])] \in Seq(Seq(Story))
         /\ TrueCases \in Seq(Story)
<1>2. cases \in Seq(Case) /\ Len(cases) \in Nat
  BY DEF AccountInv
<1>1. TrueCases = FlattenSeq([k \in 1..Len(cases) |-> StoryOf(cases[k])])
  <2>1. \A k \in 1..Len(cases) :
          <<[tag |-> "testcase", name |-> cases[k].name, classname |-> cases[k].groups]>>
            \o [r \in 1..Len(cases[k].reasons) |->
                  [tag |-> "failure", text |-> cases[k].reasons[r]]]
          = StoryOf(cases[k])
    <3> TAKE k \in 1..Len(cases)
    <3>0. cases[k] \in Case
      BY <1>2
    <3>1. cases[k].reasons \in Seq(Reasons)
      BY <3>0 DEF Case
    <3>2. \A r \in 1..Len(cases[k].reasons) :
            FailTags[cases[k].reasons[r]] = [tag |-> "failure", text |-> cases[k].reasons[r]]
      BY <3>1 DEF FailTags, FailTag
    <3>3. [r \in 1..Len(cases[k].reasons) |-> [tag |-> "failure", text |-> cases[k].reasons[r]]]
            = Mapped(FailTags, cases[k].reasons)
      BY <3>2 DEF Mapped
    <3> QED
      BY <3>3 DEF StoryOf, CaseTag
  <2> QED
    BY <2>1 DEF TrueCases
<1>3. \A k \in 1..Len(cases) : StoryOf(cases[k]) \in Seq(Story)
  BY <1>2, StoryOfTyped
<1>4. [k \in 1..Len(cases) |-> StoryOf(cases[k])] \in Seq(Seq(Story))
  <2> DEFINE e(k) == StoryOf(cases[k])
  <2>1. \A k \in 1..Len(cases) : e(k) \in Seq(Story)
    BY <1>3
  <2> HIDE DEF e
  <2>2. [k \in 1..Len(cases) |-> e(k)] \in Seq(Seq(Story))
    BY <1>2, <2>1, IsASeq
  <2> QED
    BY <2>2 DEF e
<1> QED
  BY <1>1, <1>4, FlattenIn

\* TrueCasesAre, for the next state too.
LEMMA TrueCasesNext == AccountInv => TrueCases = FlattenSeq([k \in 1..Len(cases) |-> StoryOf(cases[k])])
                                     /\ [k \in 1..Len(cases) |-> StoryOf(cases[k])] \in Seq(Seq(Story))
  BY TrueCasesAre

\* Every test and failure of the record has a start tag.
LEMMA StoryEntriesSaid ==
  ASSUME RecordInv
  PROVE  Said(Story, StoryKinds, actions, StoryEntries)
<1> SUFFICES ASSUME NEW k \in 1..Len(actions), actions[k] \in StoryKinds
             PROVE  StoryEntries[k] \in Story
  BY DEF Said
<1>1. StoryEntries[k] = StoryAt(k)
  BY DEF StoryEntries
<1>2. Text(k) \in PlainStrings
  BY TextKnown DEF Stringed, StoryKinds, Enters
<1>3. k \in 0..Len(actions)
  BY DEF RecordInv
<1>4. GroupsAround[k] \in Seq(PlainStrings)
  BY <1>3, AroundTyped
<1> QED
  BY <1>1, <1>2, <1>4, TagsTyped DEF StoryAt

\* Those of the record, as stacks that only grow.
LEMMA StoriesTyped ==
  ASSUME RecordInv
  PROVE  /\ Stories \in [0..Len(actions) -> Seq(Story)]
         /\ AreStacks(Stories, StoryKinds, {}, actions, StoryEntries)
<1>1. Len(actions) \in Nat
  BY DEF RecordInv
<1>2. Said(Story, StoryKinds, actions, StoryEntries)
  BY StoryEntriesSaid
<1> QED
  BY <1>1, <1>2, StacksAre DEF Stories

\* StoryEntriesSaid, for the next state too.
LEMMA StoriesSaid ==
  RecordInv => \A k \in 1..Len(actions) : actions[k] \in StoryKinds => StoryEntries[k] \in Story
  BY StoryEntriesSaid DEF Said

\* An action is recorded: a test or a failure is one more tag.
LEMMA StoriesGrow ==
  ASSUME RecordInv, RecordInv', NEW kind \in Kinds, Logged(kind)
  PROVE  LET text == TextOf(actions', strs', str_starts', Len(actions) + 1)
         IN  /\ kind \notin StoryKinds => Stories'[Len(actions')] = Stories[Len(actions)]
             /\ kind = "TEST_ENTER" =>
                  Stories'[Len(actions')] = Append(Stories[Len(actions)], CaseTag(text, TopGroups))
             /\ kind = "TEST_FAIL" =>
                  Stories'[Len(actions')] = Append(Stories[Len(actions)], FailTag(text))
<1> DEFINE n == Len(actions)
           text == TextOf(actions', strs', str_starts', n + 1)
<1>1. actions \in Seq(Kinds) /\ n \in Nat /\ actions' = Append(actions, kind) /\ Len(actions') = n + 1
  BY DEF RecordInv, Logged
<1>2. Said(Story, StoryKinds, actions, StoryEntries)
  BY StoryEntriesSaid
<1>3. Said(Story, StoryKinds, actions', StoryEntries')
  <2>1. (\A k \in 1..Len(actions) : actions[k] \in StoryKinds => StoryEntries[k] \in Story)'
    BY StoriesSaid, PTL
  <2> QED
    BY <2>1 DEF Said
<1>4. Grows(GroupsAround, GroupsAround', n, {"GROUP_ENTER"}, {"GROUP_LEAVE"}, kind, text)
  BY AroundGrows
<1>a. (\A k \in 1..n : actions'[k] = actions[k]) /\ actions'[n + 1] = kind
  BY <1>1
<1>b. \A k \in 1..n + 1 :
        StoryEntries'[k] = IF actions'[k] = "TEST_ENTER"
                           THEN CaseTag(TextOf(actions', strs', str_starts', k), GroupsAround'[k])
                           ELSE FailTag(TextOf(actions', strs', str_starts', k))
  BY <1>1 DEF StoryEntries, StoryAt, Text
<1>5. \A k \in 1..n : actions[k] \in StoryKinds => StoryEntries[k] = StoryEntries'[k]
  <2> TAKE k \in 1..n
  <2> HAVE actions[k] \in StoryKinds
  <2>1. TextOf(actions', strs', str_starts', k) = Text(k)
    BY DEF Logged, Stringed, StoryKinds, Enters, Text
  <2>2. GroupsAround'[k] = GroupsAround[k] /\ actions'[k] = actions[k] /\ k \in 1..n+1
    BY <1>1, <1>4, <1>a DEF Grows
  <2>3. StoryEntries[k] = IF actions[k] = "TEST_ENTER" THEN CaseTag(Text(k), GroupsAround[k])
                          ELSE FailTag(Text(k))
    BY DEF StoryEntries, StoryAt
  <2> QED
    BY <2>1, <2>2, <2>3, <1>b
<1>6. Grows(Stories, Stories', n, StoryKinds, {}, kind, StoryEntries'[n + 1])
  <2>1. Grows(Stacks(StoryKinds, {}, actions, StoryEntries),
              Stacks(StoryKinds, {}, Append(actions, kind), StoryEntries'),
              Len(actions), StoryKinds, {}, kind, StoryEntries'[Len(actions) + 1])
    BY <1>1, <1>2, <1>3, <1>5, StacksGrow
  <2> QED
    BY <1>1, <2>1 DEF Stories
<1>7. kind \in StoryKinds => StoryEntries'[n + 1] = IF kind = "TEST_ENTER" THEN CaseTag(text, TopGroups)
                                                    ELSE FailTag(text)
  <2> HAVE kind \in StoryKinds
  <2>1. GroupsAround'[n+1] = GroupsAround[n]
    BY <1>4 DEF Grows, StoryKinds
  <2>2. n + 1 \in 1..n+1
    BY <1>1
  <2> QED
    BY <2>1, <2>2, <1>a, <1>b DEF TopGroups
<1> HIDE DEF n, text
<1>8. /\ kind \notin StoryKinds => Stories'[n + 1] = Stories[n]
      /\ kind \in StoryKinds => Stories'[n + 1] = Append(Stories[n], StoryEntries'[n + 1])
  BY <1>6 DEF Grows
<1>9. "TEST_ENTER" \in StoryKinds /\ "TEST_FAIL" \in StoryKinds /\ "TEST_FAIL" # "TEST_ENTER"
  BY DEF StoryKinds
<1> QED
  BY <1>1, <1>7, <1>8, <1>9 DEF n, text

\* Steps that leave the record alone add no tag.
LEMMA StoriesStutter ==
  ASSUME RecordInv, UNCHANGED recordVars
  PROVE  Stories' = Stories /\ StoryEntries' = StoryEntries
<1>1. GroupsAround' = GroupsAround /\ actions' = actions /\ \A k : Text(k)' = Text(k)
  BY AroundStutter, RecordStutter DEF recordVars
<1>2. StoryEntries' = StoryEntries
  <2>1. StoryEntries' = [k \in 1..Len(actions') |->
           IF actions'[k] = "TEST_ENTER" THEN CaseTag(Text(k)', GroupsAround'[k]) ELSE FailTag(Text(k)')]
    BY DEF StoryEntries, StoryAt
  <2>2. StoryEntries = [k \in 1..Len(actions) |->
           IF actions[k] = "TEST_ENTER" THEN CaseTag(Text(k), GroupsAround[k]) ELSE FailTag(Text(k))]
    BY DEF StoryEntries, StoryAt
  <2> QED
    BY <1>1, <2>1, <2>2
<1> QED
  BY <1>1, <1>2 DEF Stories

\* Every call keeps the tags of the tests those of the record.
LEMMA CallsKeepStories ==
  ASSUME CallsInv, HistoryInv, StoriesInv, Calls
  PROVE  StoriesInv'
<1> SUFFICES ASSUME ~broke' PROVE TrueCases' = Stories'[Len(actions')]
  BY DEF StoriesInv
<1> RecordInv /\ AccountInv /\ LoopsInv
  BY DEF CallsInv
<1>0. RecordInv' /\ AccountInv'
  BY CallsKeepInv DEF CallsInv
<1>1. broke \in BOOLEAN /\ (broke' = broke \/ Break)
  BY CallsMove
<1>2. ~Break
  BY DEF Break
<1>3. ~broke /\ TrueCases = Stories[Len(actions)]
  BY <1>1, <1>2 DEF StoriesInv
<1> DEFINE segs == [k \in 1..Len(cases) |-> StoryOf(cases[k])]
           more == [k \in 1..Len(cases') |-> StoryOf(cases'[k])]
<1>s. TrueCases = FlattenSeq(segs) /\ segs \in Seq(Seq(Story)) /\ TrueCases \in Seq(Story)
  BY TrueCasesAre
<1>m. TrueCases' = FlattenSeq(more) /\ more \in Seq(Seq(Story))
  <2>1. (AccountInv => TrueCases = FlattenSeq([k \in 1..Len(cases) |-> StoryOf(cases[k])])
                       /\ [k \in 1..Len(cases) |-> StoryOf(cases[k])] \in Seq(Seq(Story)))'
    BY TrueCasesNext, PTL
  <2> QED
    BY <1>0, <2>1
<1>4. ASSUME UNCHANGED cases, \/ UNCHANGED recordVars
                              \/ \E kind \in Kinds \ StoryKinds : Logged(kind)
      PROVE  TrueCases' = Stories'[Len(actions')]
  <2>1. TrueCases' = TrueCases
    BY <1>4 DEF TrueCases
  <2>2. CASE UNCHANGED recordVars
    BY <1>3, <2>1, <2>2, StoriesStutter DEF recordVars
  <2>3. CASE \E kind \in Kinds \ StoryKinds : Logged(kind)
    BY <1>0, <1>3, <2>1, <2>3, StoriesGrow
  <2> QED
    BY <1>4, <2>2, <2>3
<1>5. ASSUME NEW name \in Names, sentest_group_start(name) PROVE TrueCases' = Stories'[Len(actions')]
  <2>1. UNCHANGED cases
    BY <1>5 DEF sentest_group_start
  <2>2. Logged("GROUP_ENTER") /\ "GROUP_ENTER" \in Kinds \ StoryKinds
    BY <1>5, GroupStartAccount DEF Kinds, StoryKinds
  <2> QED
    BY <1>4, <2>1, <2>2
<1>6. ASSUME NEW name \in Names, TestSkipped(name) PROVE TrueCases' = Stories'[Len(actions')]
  BY <1>4, <1>6 DEF TestSkipped
<1>7. ASSUME NEW name \in Names, TestStart(name) PROVE TrueCases' = Stories'[Len(actions')]
  <2> DEFINE new == [groups |-> OpenNames, name |-> name, reasons |-> <<>>]
             tag == CaseTag(name, OpenNames)
  <2>1. cases' = Append(cases, new) /\ cases \in Seq(Case) /\ InBody /\ ~in_test
    BY <1>7 DEF TestStart, AccountInv
  <2>2. new \in Case /\ new.reasons = <<>> /\ new.name = name /\ new.groups = OpenNames
    BY OpenNamesTyped DEF Case
  <2>3. StoryOf(new) = <<tag>> /\ tag \in Story
    BY <2>2, StoryOfNew, StoryOfTyped
  <2> HIDE DEF new
  <2>4. /\ Len(cases) \in Nat /\ Len(cases') = Len(cases) + 1 /\ cases'[Len(cases) + 1] = new
        /\ \A k \in 1..Len(cases) : cases'[k] = cases[k]
    BY <2>1, <2>2
  <2>5. more = Append(segs, <<tag>>)
    <3>1. Len(segs) = Len(cases) /\ Len(more) = Len(cases) + 1
      BY <2>4
    <3>2. \A k \in 1..Len(cases) : more[k] = segs[k]
      BY <2>4
    <3>3. more[Len(cases) + 1] = <<tag>>
      BY <2>3, <2>4
    <3> HIDE DEF segs, more, tag
    <3>4. <<tag>> \in Seq(Story)
      BY <2>3
    <3>5. /\ Append(segs, <<tag>>) \in Seq(Seq(Story)) /\ Len(Append(segs, <<tag>>)) = Len(segs) + 1
          /\ (\A k \in 1..Len(segs) : Append(segs, <<tag>>)[k] = segs[k])
          /\ Append(segs, <<tag>>)[Len(segs) + 1] = <<tag>>
      BY <1>s, <3>4, AppendProperties
    <3>6. \A k \in 1..Len(more) : more[k] = Append(segs, <<tag>>)[k]
      <4> TAKE k \in 1..Len(more)
      <4>1. k = Len(cases) + 1 \/ k \in 1..Len(cases)
        BY <2>4, <3>1
      <4> QED
        BY <4>1, <3>1, <3>2, <3>3, <3>5
    <3> QED
      BY <1>m, <3>1, <3>5, <3>6, SeqEqual
  <2> HIDE DEF segs, more, tag
  <2>6. FlattenSeq(Append(segs, <<tag>>)) = FlattenSeq(segs) \o <<tag>>
    <3>1. <<tag>> \in Seq(Story)
      BY <2>3
    <3> QED
      BY <1>s, <3>1, FlattenAppend
  <2>7. TrueCases' = Append(TrueCases, tag)
    <3>1. TrueCases \o <<tag>> = Append(TrueCases, tag)
      BY <1>s, <2>3, AppendIsConcat
    <3> QED
      BY <1>s, <1>m, <2>5, <2>6, <3>1
  <2>8. /\ Logged("TEST_ENTER") /\ "TEST_ENTER" \in Kinds
        /\ TextOf(actions', strs', str_starts', Len(actions) + 1) = name
    BY <1>7, TestStartAccount DEF Kinds
  <2>9. Stories'[Len(actions')] = Append(Stories[Len(actions)], CaseTag(name, TopGroups))
    BY <1>0, <2>8, StoriesGrow
  <2>10. TopGroups = OpenNames
    <3>1. TopGroups = OpenGroups
      BY <1>3 DEF HistoryInv, NowInv
    <3> QED
      BY <1>3, <2>1, <3>1, OpenInGroups
  <2> QED
    BY <1>3, <2>7, <2>9, <2>10 DEF tag
<1>8. ASSUME NEW assertion \in Assertions, NEW condition \in BOOLEAN, NEW reason \in Reasons,
             MakeAssertion(assertion, condition, reason)
      PROVE  TrueCases' = Stories'[Len(actions')]
  <2>1. /\ in_test
        /\ cases' = IF ClaimHolds(assertion, condition) THEN cases
                    ELSE [cases EXCEPT ![Len(cases)].reasons = Append(@, reason)]
    BY <1>8 DEF MakeAssertion
  <2>2. CASE ClaimHolds(assertion, condition)
    <3>1. UNCHANGED recordVars
      BY <1>8, <2>2, AssertionRecord
    <3> QED
      BY <1>4, <2>1, <2>2, <3>1
  <2>3. CASE ~ClaimHolds(assertion, condition)
    <3> DEFINE n == Len(cases)
               test == cases[n]
               next == [test EXCEPT !.reasons = Append(@, reason)]
               tag == FailTag(reason)
    <3>1. cases \in Seq(Case) /\ cases # <<>> /\ n \in Nat /\ n # 0 /\ cases' = [cases EXCEPT ![n] = next]
      BY <2>1, <2>3 DEF AccountInv
    <3>2. test \in Case
      BY <3>1
    <3>3. StoryOf(next) = Append(StoryOf(test), tag)
      BY <3>2, StoryOfGrow
    <3>4. tag \in Story
      BY TagsTyped, NamesPlain
    <3>5. Len(cases') = n /\ cases'[n] = next /\ \A k \in 1..n - 1 : cases'[k] = cases[k]
      <4> HIDE DEF next
      <4> QED
        BY <3>1
    <3>6. Len(segs) = n /\ Len(more) = n /\ segs # <<>> /\ n \in 1..n
      BY <3>1, <3>5
    <3>7. segs[n] = StoryOf(test) /\ more[n] = StoryOf(next)
           /\ \A k \in 1..n - 1 : more[k] = segs[k]
      BY <3>1, <3>5, <3>6
    <3> HIDE DEF segs, more, tag, next, test, n
    <3>8. FlattenSeq(more) = Append(FlattenSeq(segs), tag)
      <4>1. Len(more) = Len(segs) /\ more[Len(more)] = Append(segs[Len(segs)], tag)
            /\ \A k \in 1..Len(segs) - 1 : more[k] = segs[k]
        BY <3>3, <3>6, <3>7
      <4> QED
        BY <1>s, <1>m, <3>4, <3>6, <4>1, FlattenExtend
    <3>9. TrueCases' = Append(TrueCases, tag)
      BY <1>s, <1>m, <3>8
    <3>10. /\ Logged("TEST_FAIL") /\ "TEST_FAIL" \in Kinds
           /\ TextOf(actions', strs', str_starts', Len(actions) + 1) = reason
      BY <1>8, <2>3, AssertionRecord DEF Kinds
    <3>11. Stories'[Len(actions')] = Append(Stories[Len(actions)], FailTag(reason))
      BY <1>0, <3>10, StoriesGrow
    <3> QED
      BY <1>3, <3>9, <3>11 DEF tag
  <2> QED
    BY <2>2, <2>3
<1>9. CASE sentest_group_should_continue \/ sentest_test_should_continue \/ AssertStops
  <2>1. UNCHANGED cases /\ UNCHANGED recordVars
    BY <1>9 DEF sentest_group_should_continue, sentest_test_should_continue, AssertStops,
       trueVars, harnessVars, callVars
  <2> QED
    BY <1>4, <2>1
<1>10. CASE sentest_group_end
  <2>1. UNCHANGED cases
    BY <1>10 DEF sentest_group_end, trueVars
  <2>2. Logged("GROUP_LEAVE") /\ "GROUP_LEAVE" \in Kinds \ StoryKinds
    BY <1>10, GroupEndAccount DEF Kinds, StoryKinds
  <2> QED
    BY <1>4, <2>1, <2>2
<1>11. CASE sentest_end_internal
  <2>1. UNCHANGED cases
    BY <1>11 DEF sentest_end_internal
  <2>2. Logged("TEST_LEAVE") /\ "TEST_LEAVE" \in Kinds \ StoryKinds
    BY <1>11, TestEndAccount DEF Kinds, StoryKinds
  <2> QED
    BY <1>4, <2>1, <2>2
<1> QED
  BY <1>2, <1>5, <1>6, <1>7, <1>8, <1>9, <1>10, <1>11 DEF Calls

\* So does every step.
LEMMA StoriesStep ==
  ASSUME CallsInv, HistoryInv, StoriesInv, [Next]_vars
  PROVE  StoriesInv'
<1>1. ASSUME UNCHANGED callerVars PROVE StoriesInv'
  <2>1. UNCHANGED recordVars /\ UNCHANGED <<cases, broke>>
    BY <1>1 DEF callerVars, trueVars
  <2>2. TrueCases' = TrueCases /\ actions' = actions
    BY <2>1 DEF TrueCases, recordVars
  <2> QED
    BY <2>1, <2>2, StoriesStutter DEF StoriesInv, CallsInv
<1>2. ASSUME UNCHANGED vars PROVE UNCHANGED callerVars
  BY <1>2 DEF vars, callVars, harnessVars, callerVars
<1> QED
  BY <1>1, <1>2, StepsOfNext, CallsKeepStories, FinishingReads

\* There are none at the start.
LEMMA InitStories ==
  ASSUME ReportInit
  PROVE  StoriesInv
<1>1. actions = <<>> /\ cases = <<>> /\ Len(actions) = 0
  BY DEF ReportInit, Init
<1>2. RecordInv /\ AccountInv
  BY InitCalls DEF CallsInv
<1>3. Stories[0] = <<>>
  BY <1>2, StoriesTyped DEF AreStacks
<1>4. TrueCases = <<>>
  <2>1. [k \in 1..Len(cases) |-> StoryOf(cases[k])] = <<>>
    BY <1>1
  <2>2. TrueCases = FlattenSeq([k \in 1..Len(cases) |-> StoryOf(cases[k])])
    BY <1>2, TrueCasesAre
  <2> QED
    BY <2>1, <2>2, FlattenEmpty
<1> QED
  BY <1>1, <1>3, <1>4 DEF StoriesInv

-----------------------------------------------------------------------------
(* sentest_write_results: what is in the JUnit file.                       *)

Suite == [tag : {"testsuite"}, name : PlainStrings, tests : Nat, failures : Nat]
Whole == [tag : {"testsuites"}, tests : Nat, failures : Nat]
EndTag == [tag : {"/testcase", "/testsuite", "/testsuites"}]
Element == Story \cup Suite \cup Whole \cup EndTag

\* Elements for any file
ElementsOf(doc, tags) ==
  FlattenSeq([k \in 1..Len(doc) |-> IF doc[k].tag \in tags THEN <<doc[k]>> ELSE <<>>])

\* An empty file has no elements.
LEMMA ElementsOfEmpty ==
  ASSUME NEW tags
  PROVE  ElementsOf(<<>>, tags) = <<>>
<1>1. [k \in 1..Len(<<>>) |-> IF <<>>[k].tag \in tags THEN << <<>>[k]>> ELSE <<>>] = <<>>
  OBVIOUS
<1> QED
  BY <1>1, FlattenEmpty DEF ElementsOf

\* One more element is written.
LEMMA ElementsOfAppend ==
  ASSUME NEW S, NEW doc \in Seq(S), NEW e \in S, NEW tags
  PROVE  ElementsOf(Append(doc, e), tags) =
           IF e.tag \in tags THEN Append(ElementsOf(doc, tags), e) ELSE ElementsOf(doc, tags)
<1> DEFINE more == Append(doc, e)
           seg(x) == IF x.tag \in tags THEN <<x>> ELSE <<>>
           segs == [k \in 1..Len(doc) |-> seg(doc[k])]
           now == [k \in 1..Len(more) |-> seg(more[k])]
<1>1. \A x \in S : seg(x) \in Seq(S)
  OBVIOUS
<1>2. ElementsOf(doc, tags) = FlattenSeq(segs) /\ ElementsOf(more, tags) = FlattenSeq(now)
  BY DEF ElementsOf
<1>3. /\ Len(doc) \in Nat /\ Len(more) = Len(doc) + 1 /\ more[Len(doc) + 1] = e /\ more \in Seq(S)
      /\ \A k \in 1..Len(doc) : more[k] = doc[k]
  OBVIOUS
<1>e. seg(e) = IF e.tag \in tags THEN <<e>> ELSE <<>>
  OBVIOUS
<1> HIDE DEF seg
<1>4. segs \in Seq(Seq(S)) /\ now \in Seq(Seq(S))
  <2>1. \A k \in 1..Len(doc) : seg(doc[k]) \in Seq(S)
    BY <1>1
  <2>2. \A k \in 1..Len(more) : seg(more[k]) \in Seq(S)
    BY <1>1, <1>3
  <2>3. Len(more) \in Nat
    BY <1>3
  <2> DEFINE a(k) == seg(doc[k])
             b(k) == seg(more[k])
  <2>4. segs = [k \in 1..Len(doc) |-> a(k)] /\ now = [k \in 1..Len(more) |-> b(k)]
    OBVIOUS
  <2>5. (\A k \in 1..Len(doc) : a(k) \in Seq(S)) /\ (\A k \in 1..Len(more) : b(k) \in Seq(S))
    BY <2>1, <2>2
  <2> HIDE DEF a, b, segs, now, more
  <2> QED
    BY <1>3, <2>3, <2>4, <2>5, IsASeq
<1>5. now = Append(segs, seg(e))
  <2>1. Len(now) = Len(doc) + 1 /\ Len(segs) = Len(doc)
    BY <1>3
  <2>2. (\A k \in 1..Len(doc) : now[k] = segs[k]) /\ now[Len(doc) + 1] = seg(e)
    BY <1>3
  <2>3. seg(e) \in Seq(S)
    BY <1>1
  <2> HIDE DEF segs, now, more
  <2>4. /\ Append(segs, seg(e)) \in Seq(Seq(S)) /\ Len(Append(segs, seg(e))) = Len(segs) + 1
        /\ (\A k \in 1..Len(segs) : Append(segs, seg(e))[k] = segs[k])
        /\ Append(segs, seg(e))[Len(segs) + 1] = seg(e)
    BY <1>4, <2>3, AppendProperties
  <2>5. \A k \in 1..Len(now) : now[k] = Append(segs, seg(e))[k]
    <3> TAKE k \in 1..Len(now)
    <3>1. k = Len(doc) + 1 \/ k \in 1..Len(doc)
      BY <1>3, <2>1
    <3> QED
      BY <3>1, <2>1, <2>2, <2>4
  <2> QED
    BY <1>3, <1>4, <2>1, <2>4, <2>5, SeqEqual
<1>6. seg(e) \in Seq(S)
  BY <1>1
<1>7. FlattenSeq(segs) \in Seq(S)
  BY <1>4, FlattenIn
<1> HIDE DEF segs, now, more
<1>8. FlattenSeq(now) = FlattenSeq(segs) \o seg(e)
  BY <1>4, <1>5, <1>6, FlattenAppend
<1>9. CASE e.tag \in tags
  <2>1. FlattenSeq(segs) \o <<e>> = Append(FlattenSeq(segs), e)
    BY <1>7, AppendIsConcat
  <2> QED
    BY <1>2, <1>8, <1>9, <1>e, <2>1 DEF more
<1>10. CASE e.tag \notin tags
  <2>1. FlattenSeq(segs) \o <<>> = FlattenSeq(segs)
    BY <1>7, ConcatEmptySeq
  <2> QED
    BY <1>2, <1>8, <1>10, <1>e, <2>1 DEF more
<1> QED
  BY <1>9, <1>10

\* A file of one element that has none of the tags.
LEMMA ElementsOfOther ==
  ASSUME NEW S, NEW e \in S, NEW tags, e.tag \notin tags
  PROVE  ElementsOf(<<e>>, tags) = <<>>
<1> DEFINE none == <<>>
<1>1. none \in Seq(S) /\ Append(none, e) = <<e>>
  OBVIOUS
<1>2. ElementsOf(none, tags) = <<>>
  BY ElementsOfEmpty
<1>3. \A doc \in Seq(S), x \in S :
        ElementsOf(Append(doc, x), tags) =
          IF x.tag \in tags THEN Append(ElementsOf(doc, tags), x) ELSE ElementsOf(doc, tags)
  BY ElementsOfAppend
<1> HIDE DEF none
<1>4. ElementsOf(Append(none, e), tags) = ElementsOf(none, tags)
  BY <1>1, <1>3
<1> QED
  BY <1>1, <1>2, <1>4

\* The file is there from its first element on, the class of a test is where the
\* record is, and the counts of the whole run are at the head.
DocumentInv ==
  /\ pc \in {"calls", "print", "scan", "total"} => class_path = <<>> /\ document = <<>>
  /\ pc = "write" => class_path = GroupsAround[i-1]
  /\ pc = "write" \/ (pc = "done" /\ config.junit_output_path) =>
       /\ document \in Seq(Element) /\ document # <<>>
       /\ document[1] = [tag |-> "testsuites", tests |-> current.tests, failures |-> current.failures]

\* what the writing loop adds for the action it is at
Written(k) ==
  CASE actions[k] = "GROUP_ENTER" ->
         [tag |-> "testsuite", name |-> Text(k), tests |-> aggs[agg_ind].tests,
          failures |-> aggs[agg_ind].failures]
    [] actions[k] = "TEST_ENTER" -> CaseTag(Text(k), GroupsAround[k])
    [] actions[k] = "TEST_FAIL" -> FailTag(Text(k))
    [] actions[k] = "TEST_LEAVE" -> [tag |-> "/testcase"]
    [] actions[k] = "GROUP_LEAVE" -> [tag |-> "/testsuite"]

Writing == WriteSuite \/ WriteCase \/ WriteCaseEnd \/ WriteSuiteEnd \/ WriteFail

\* the total of the group that is written is among those computed
LEMMA SuiteTotal ==
  ASSUME CallsInv, HistoryInv, IndexInv, ScanInv, TotalsInv, WriteInv, pc = "write",
         i \in 1..Len(actions), actions[i] = "GROUP_ENTER"
  PROVE  /\ agg_ind \in 1..Len(aggs) /\ aggs[agg_ind] \in Aggregate
         /\ Len(aggs) = num_groups /\ num_groups = Entered(Len(actions))
         /\ agg_ind = Entered(Len(actions)) - Entered(i) + 1
<1>1. RecordInv /\ LeftInv /\ Len(actions) \in Nat /\ Len(actions) \in 0..Len(actions)
  BY DEF CallsInv, HistoryInv, RecordInv
<1>2. i \in 0..Len(actions) /\ i - 1 \in 0..Len(actions)
  BY <1>1
<1>3. /\ Entered(i) \in Nat /\ Entered(i-1) \in Nat /\ Entered(i) <= Entered(Len(actions))
      /\ Entered(i) = Entered(i-1) + 1 /\ Entered(Len(actions)) \in Nat
  BY <1>1, <1>2, DeepMoves
<1>4. /\ num_groups = Entered(Len(actions)) /\ Len(aggs) = num_groups /\ aggs \in Seq(Aggregate)
      /\ agg_ind = num_groups - Entered(i-1)
  BY DEF ScanInv, TotalsInv, WriteInv
<1>5. agg_ind = Entered(Len(actions)) - Entered(i) + 1 /\ agg_ind \in 1..Len(aggs)
  BY <1>3, <1>4
<1> QED
  BY <1>4, <1>5

\* What the steps of the writing loop share.
LEMMA WritesOn ==
  ASSUME CallsInv, HistoryInv, PrintedInv, IndexInv, ScanInv, TotalsInv, WriteInv, DocumentInv, Writing
  PROVE  /\ pc = "write" /\ pc' = "write" /\ i \in 1..Len(actions) /\ i' = i + 1
         /\ i - 1 \in 0..Len(actions) /\ i \in 0..Len(actions) /\ i' - 1 = i
         /\ UNCHANGED <<config, current, aggs>>
         /\ document' = Append(document, Written(i)) /\ Written(i) \in Element
         /\ class_path' = GroupsAround[i]
<1>1. PICK kinds \in SUBSET Kinds : Reading("write", kinds)
  <2>1. \A kind \in Kinds : {kind} \in SUBSET Kinds
    OBVIOUS
  <2> QED
    BY <2>1 DEF Writing, WriteSuite, WriteCase, WriteCaseEnd, WriteSuiteEnd, WriteFail, Kinds
<1>2. /\ pc = "write" /\ i \in 1..Len(actions) /\ actions[i] \in Kinds
      /\ i - 1 \in 0..Len(actions) /\ i \in 0..Len(actions) /\ i + 1 - 1 = i
      /\ str_ind = Occurrences(actions, Stringed, i - 1) + 1
      /\ RecordInv
  BY <1>1, ReadsOn
<1>3. /\ pc' = "write" /\ i' = i + 1 /\ UNCHANGED <<config, current, aggs>>
  BY <1>2 DEF Writing, WriteSuite, WriteCase, WriteCaseEnd, WriteSuiteEnd, WriteFail,
     callVars, harnessVars, totalVars
<1>4. class_path = GroupsAround[i-1]
  BY <1>2 DEF DocumentInv
<1>5. /\ actions[i] = "GROUP_ENTER" => GroupsAround[i] = Append(GroupsAround[i-1], Text(i))
      /\ actions[i] = "GROUP_LEAVE" =>
           GroupsAround[i] = SubSeq(GroupsAround[i-1], 1, Len(GroupsAround[i-1]) - 1)
      /\ actions[i] \notin {"GROUP_ENTER", "GROUP_LEAVE"} => GroupsAround[i] = GroupsAround[i-1]
      /\ GroupsAround[i] \in Seq(PlainStrings)
  <2>1. Texts[i] = Text(i)
    BY <1>2 DEF Texts
  <2>2. /\ AreStacks(GroupsAround, {"GROUP_ENTER"}, {"GROUP_LEAVE"}, actions, Texts)
        /\ GroupsAround \in [0..Len(actions) -> Seq(PlainStrings)]
    BY <1>2, AroundTyped
  <2> QED
    BY <1>2, <2>1, <2>2 DEF AreStacks
<1>6. actions[i] \in {"GROUP_ENTER", "TEST_ENTER", "TEST_FAIL"} =>
        NextString = Text(i) /\ Text(i) \in PlainStrings
  BY <1>2, NextIsText DEF Stringed, Enters
<1>7. CASE WriteSuite
  <2>1. /\ actions[i] = "GROUP_ENTER" /\ class_path' = Append(class_path, NextString)
        /\ document' = Append(document, [tag |-> "testsuite", name |-> NextString,
                         tests |-> aggs[agg_ind].tests, failures |-> aggs[agg_ind].failures])
    BY <1>7 DEF WriteSuite, Write, Reading
  <2>2. aggs[agg_ind].tests \in Nat /\ aggs[agg_ind].failures \in Nat
    <3>1. aggs[agg_ind] \in Aggregate
      BY <1>2, <2>1, SuiteTotal
    <3> QED
      BY <3>1 DEF Aggregate
  <2>3. Written(i) = [tag |-> "testsuite", name |-> Text(i),
                      tests |-> aggs[agg_ind].tests, failures |-> aggs[agg_ind].failures]
    BY <2>1 DEF Written
  <2>4. Written(i) \in Suite
    BY <1>6, <2>1, <2>2, <2>3 DEF Suite
  <2> QED
    BY <1>2, <1>3, <1>4, <1>5, <1>6, <2>1, <2>3, <2>4 DEF Element
<1>8. CASE WriteCase
  <2>1. /\ actions[i] = "TEST_ENTER" /\ class_path' = class_path
        /\ document' = Append(document, CaseTag(NextString, class_path))
    BY <1>8 DEF WriteCase, Write, Reading, CaseTag
  <2>2. Written(i) = CaseTag(Text(i), GroupsAround[i])
    BY <2>1 DEF Written
  <2>3. Written(i) \in Story
    BY <1>5, <1>6, <2>1, <2>2, TagsTyped
  <2> QED
    BY <1>2, <1>3, <1>4, <1>5, <1>6, <2>1, <2>2, <2>3 DEF Element
<1>9. CASE WriteFail
  <2>1. /\ actions[i] = "TEST_FAIL" /\ class_path' = class_path
        /\ document' = Append(document, FailTag(NextString))
    BY <1>9 DEF WriteFail, Write, Reading, FailTag
  <2>2. Written(i) = FailTag(Text(i))
    BY <2>1 DEF Written
  <2>3. Written(i) \in Story
    BY <1>6, <2>1, <2>2, TagsTyped
  <2> QED
    BY <1>2, <1>3, <1>4, <1>5, <1>6, <2>1, <2>2, <2>3 DEF Element
<1>10. CASE WriteCaseEnd
  <2>1. /\ actions[i] = "TEST_LEAVE" /\ class_path' = class_path
        /\ document' = Append(document, [tag |-> "/testcase"])
    BY <1>10 DEF WriteCaseEnd, Write, Reading
  <2>2. Written(i) = [tag |-> "/testcase"]
    BY <2>1 DEF Written
  <2>3. Written(i) \in EndTag
    BY <2>2 DEF EndTag
  <2> QED
    BY <1>2, <1>3, <1>4, <1>5, <2>1, <2>2, <2>3 DEF Element
<1>11. CASE WriteSuiteEnd
  <2>1. /\ actions[i] = "GROUP_LEAVE" /\ class_path' = SubSeq(class_path, 1, Len(class_path) - 1)
        /\ document' = Append(document, [tag |-> "/testsuite"])
    BY <1>11 DEF WriteSuiteEnd, Write, Reading, Front
  <2>2. Written(i) = [tag |-> "/testsuite"]
    BY <2>1 DEF Written
  <2>3. Written(i) \in EndTag
    BY <2>2 DEF EndTag
  <2> QED
    BY <1>2, <1>3, <1>4, <1>5, <2>1, <2>2, <2>3 DEF Element
<1> QED
  BY <1>7, <1>8, <1>9, <1>10, <1>11 DEF Writing

\* Every step keeps the head of the file and the class of the tests.
LEMMA DocumentStep ==
  ASSUME CallsInv, HistoryInv, PrintedInv, IndexInv, OutsideInv, ScanInv, TotalsInv, WriteInv,
         DocumentInv, [Next]_vars
  PROVE  DocumentInv'
<1> DEFINE Heading(c) == [tag |-> "testsuites", tests |-> c.tests, failures |-> c.failures]
<1>1. CASE \/ Calls /\ UNCHANGED finishVars
           \/ Finish \/ PrintEnter \/ PrintLeave \/ PrintFail \/ Scan \/ ScanEnd
           \/ TotalLeaveGroup \/ TotalEnterGroup \/ TotalLeaveTest \/ TotalFail \/ TotalEnterTest
  <2>1. /\ pc \in {"calls", "print", "scan", "total"}
        /\ pc' \in {"calls", "aborted", "print", "scan", "total"}
    BY <1>1, CallsMove DEF Finish, PrintEnter, PrintLeave, PrintFail, Scan, ScanEnd,
       TotalLeaveGroup, TotalEnterGroup, TotalLeaveTest, TotalFail, TotalEnterTest,
       Reading, Totalling
  <2>2. UNCHANGED <<class_path, document>>
    BY <1>1 DEF Finish, PrintEnter, PrintLeave, PrintFail, Scan, ScanEnd,
       TotalLeaveGroup, TotalEnterGroup, TotalLeaveTest, TotalFail, TotalEnterTest,
       writeVars, finishVars
  <2> QED
    BY <2>1, <2>2 DEF DocumentInv
<1>2. CASE PrintEnd
  <2>1. /\ pc = "print" /\ pc' = IF config.junit_output_path THEN "scan" ELSE "done"
        /\ UNCHANGED <<config, class_path, document>>
    BY <1>2 DEF PrintEnd, writeVars, callVars, harnessVars
  <2> QED
    BY <2>1 DEF DocumentInv
<1>3. CASE OpenFails
  <2>1. pc' = "crashed"
    BY <1>3 DEF OpenFails
  <2> QED
    BY <2>1 DEF DocumentInv
<1>4. CASE TotalEnd
  <2>1. /\ pc = "total" /\ pc' = "write" /\ i' = 1
        /\ document' = <<Heading(current)>> /\ UNCHANGED <<current, class_path>>
    BY <1>4 DEF TotalEnd, totalVars
  <2>2. UNCHANGED <<actions, GroupsAround>>
    BY <1>4, RecordRead DEF Finishing
  <2>3. GroupsAround[0] = <<>>
    BY AroundTyped DEF AreStacks, CallsInv
  <2>4. class_path' = GroupsAround'[i' - 1]
    BY <2>1, <2>2, <2>3 DEF DocumentInv
  <2>5. Heading(current) \in Element
    <3>1. current.tests \in Nat /\ current.failures \in Nat
      BY DEF TotalsInv, Aggregate
    <3> QED
      BY <3>1 DEF Element, Whole
  <2>6. Heading(current') = Heading(current)
    BY <2>1
  <2> HIDE DEF Heading
  <2>7. document' \in Seq(Element) /\ document' # <<>> /\ document'[1] = Heading(current')
    BY <2>1, <2>5, <2>6
  <2> QED
    BY <2>1, <2>4, <2>7 DEF DocumentInv, Heading
<1>5. ASSUME document \in Seq(Element), document # <<>>, document[1] = Heading(current),
             NEW e \in Element, document' = Append(document, e), current' = current
      PROVE  document' \in Seq(Element) /\ document' # <<>> /\ document'[1] = Heading(current')
  <2>1. Heading(current') = Heading(current)
    BY <1>5
  <2> HIDE DEF Heading
  <2>2. Len(document) \in Nat /\ Len(document) # 0 /\ 1 \in 1..Len(document)
    BY <1>5
  <2> QED
    BY <1>5, <2>1, <2>2
<1>6. CASE Writing
  <2>1. /\ pc = "write" /\ pc' = "write" /\ i' - 1 = i /\ current' = current
        /\ document' = Append(document, Written(i)) /\ Written(i) \in Element
        /\ class_path' = GroupsAround[i]
    BY <1>6, WritesOn
  <2>2. GroupsAround' = GroupsAround
    BY <1>6, RecordRead DEF Finishing, Writing
  <2>3. document \in Seq(Element) /\ document # <<>> /\ document[1] = Heading(current)
    BY <2>1 DEF DocumentInv
  <2> HIDE DEF Heading
  <2>4. document' \in Seq(Element) /\ document' # <<>> /\ document'[1] = Heading(current')
    BY <1>5, <2>1, <2>3
  <2> QED
    BY <2>1, <2>2, <2>4 DEF DocumentInv, Heading
<1>7. CASE WriteEnd
  <2> DEFINE e == [tag |-> "/testsuites"]
  <2>1. /\ pc = "write" /\ pc' = "done" /\ current' = current
        /\ document' = Append(document, e)
    BY <1>7 DEF WriteEnd, Write, totalVars
  <2>2. e \in Element
    BY DEF Element, EndTag
  <2>3. document \in Seq(Element) /\ document # <<>> /\ document[1] = Heading(current)
    BY <2>1 DEF DocumentInv
  <2> HIDE DEF e, Heading
  <2>4. document' \in Seq(Element) /\ document' # <<>> /\ document'[1] = Heading(current')
    BY <1>5, <2>1, <2>2, <2>3
  <2> QED
    BY <2>1, <2>4 DEF DocumentInv, Heading
<1>8. CASE UNCHANGED vars
  <2>1. UNCHANGED <<pc, config, i, current, class_path, document>>
    BY <1>8 DEF vars, callVars, harnessVars, finishVars, totalVars, writeVars
  <2>2. GroupsAround' = GroupsAround
    BY <1>8, RecordRead
  <2> QED
    BY <2>1, <2>2 DEF DocumentInv
<1> QED
  BY <1>1, <1>2, <1>3, <1>4, <1>6, <1>7, <1>8, StepsOfNext DEF Finishing, Writing

\* Nothing is written at the start.
LEMMA InitDocument ==
  ASSUME ReportInit
  PROVE  DocumentInv
  BY DEF ReportInit, Init, DocumentInv

\* So far the file has the tests and failures of the record up to where it is read.
CasesInv ==
  /\ pc = "write" => ElementsOf(document, StoryTags) = Stories[i-1]
  /\ pc = "done" /\ config.junit_output_path =>
       ElementsOf(document, StoryTags) = Stories[Len(actions)]

\* What is written for an action is the tag the record asks for, or no test's.
LEMMA WrittenCase ==
  ASSUME RecordInv, NEW k \in 1..Len(actions)
  PROVE  Stories[k] = IF Written(k).tag \in StoryTags THEN Append(Stories[k-1], Written(k))
                      ELSE Stories[k-1]
<1>1. AreStacks(Stories, StoryKinds, {}, actions, StoryEntries)
  BY StoriesTyped
<1>2. /\ actions[k] \in StoryKinds => Stories[k] = Append(Stories[k-1], StoryEntries[k])
      /\ actions[k] \notin StoryKinds => Stories[k] = Stories[k-1]
  BY <1>1 DEF AreStacks
<1>3. StoryEntries[k] = StoryAt(k)
  BY DEF StoryEntries
<1>4. actions[k] \in Kinds
  BY DEF RecordInv
<1>5. CASE actions[k] = "TEST_ENTER"
  BY <1>2, <1>3, <1>5 DEF Written, StoryAt, StoryKinds, StoryTags, CaseTag
<1>6. CASE actions[k] = "TEST_FAIL"
  BY <1>2, <1>3, <1>6 DEF Written, StoryAt, StoryKinds, StoryTags, FailTag
<1>7. CASE actions[k] = "TEST_LEAVE"
  BY <1>2, <1>7 DEF Written, StoryKinds, StoryTags
<1>8. CASE actions[k] = "GROUP_LEAVE"
  BY <1>2, <1>8 DEF Written, StoryKinds, StoryTags
<1>9. CASE actions[k] = "GROUP_ENTER"
  BY <1>2, <1>9 DEF Written, StoryKinds, StoryTags
<1> QED
  BY <1>4, <1>5, <1>6, <1>7, <1>8, <1>9 DEF Kinds

\* The steps that write for an action, and those at the start and end of the file.
LEMMA CasesStep ==
  ASSUME CallsInv, HistoryInv, PrintedInv, IndexInv, OutsideInv, ScanInv, TotalsInv, WriteInv,
         DocumentInv, CasesInv, [Next]_vars
  PROVE  CasesInv'
<1> RecordInv
  BY DEF CallsInv
<1>1. CASE \/ Calls /\ UNCHANGED finishVars
           \/ Finish \/ PrintEnter \/ PrintLeave \/ PrintFail \/ PrintEnd \/ Scan \/ ScanEnd
           \/ TotalLeaveGroup \/ TotalEnterGroup \/ TotalLeaveTest \/ TotalFail \/ TotalEnterTest
           \/ OpenFails
  <2>1. /\ pc' # "write"
        /\ pc' = "done" => ~config.junit_output_path /\ config' = config
    BY <1>1, CallsMove DEF Finish, PrintEnter, PrintLeave, PrintFail, PrintEnd, Scan, ScanEnd,
       TotalLeaveGroup, TotalEnterGroup, TotalLeaveTest, TotalFail, TotalEnterTest, OpenFails,
       Reading, Totalling, callVars, harnessVars
  <2> QED
    BY <2>1 DEF CasesInv
<1>2. CASE TotalEnd
  <2> DEFINE head == [tag |-> "testsuites", tests |-> current.tests, failures |-> current.failures]
  <2>1. /\ pc = "total" /\ pc' = "write" /\ i' = 1 /\ document' = <<head>>
    BY <1>2 DEF TotalEnd
  <2>2. head \in Element /\ head.tag \notin StoryTags
    <3>1. current.tests \in Nat /\ current.failures \in Nat
      BY DEF TotalsInv, Aggregate
    <3> QED
      BY <3>1 DEF Element, Whole, StoryTags
  <2> HIDE DEF head
  <2>4. ElementsOf(document', StoryTags) = <<>>
    <3>1. ElementsOf(<<head>>, StoryTags) = <<>>
      BY <2>2, ElementsOfOther
    <3> QED
      BY <2>1, <3>1
  <2>5. Stories' = Stories /\ Stories[0] = <<>>
    <3>1. UNCHANGED recordVars
      BY <1>2, FinishingReads DEF Finishing, callerVars
    <3> QED
      BY <3>1, StoriesStutter, StoriesTyped DEF AreStacks
  <2>6. i' - 1 = 0
    BY <2>1
  <2> QED
    BY <2>1, <2>4, <2>5, <2>6 DEF CasesInv
<1>3. CASE Writing
  <2>1. /\ pc = "write" /\ pc' = "write" /\ i \in 1..Len(actions) /\ i' - 1 = i
        /\ document' = Append(document, Written(i)) /\ Written(i) \in Element
    BY <1>3, WritesOn
  <2>2. document \in Seq(Element)
    BY <2>1 DEF DocumentInv
  <2>3. ElementsOf(document', StoryTags) =
          IF Written(i).tag \in StoryTags THEN Append(ElementsOf(document, StoryTags), Written(i))
          ELSE ElementsOf(document, StoryTags)
    BY <2>1, <2>2, ElementsOfAppend
  <2>4. ElementsOf(document', StoryTags) = Stories[i]
    BY <2>1, <2>3, WrittenCase DEF CasesInv
  <2>5. Stories' = Stories
    <3>1. UNCHANGED recordVars
      BY <1>3, FinishingReads DEF Finishing, Writing, callerVars
    <3> QED
      BY <3>1, StoriesStutter
  <2> QED
    BY <2>1, <2>4, <2>5 DEF CasesInv
<1>4. CASE WriteEnd
  <2> DEFINE e == [tag |-> "/testsuites"]
  <2>1. /\ pc = "write" /\ i > Len(actions) /\ pc' = "done" /\ document' = Append(document, e)
    BY <1>4 DEF WriteEnd, Write
  <2>2. e \in Element /\ e.tag \notin StoryTags
    BY DEF Element, EndTag, StoryTags
  <2>3. document \in Seq(Element)
    BY <2>1 DEF DocumentInv
  <2> HIDE DEF e
  <2>4. ElementsOf(document', StoryTags) = ElementsOf(document, StoryTags)
    BY <2>1, <2>2, <2>3, ElementsOfAppend
  <2>5. i - 1 = Len(actions)
    BY <2>1 DEF IndexInv, RecordInv
  <2>6. Stories' = Stories /\ actions' = actions
    <3>1. UNCHANGED recordVars
      BY <1>4, FinishingReads DEF Finishing, callerVars
    <3> QED
      BY <3>1, StoriesStutter DEF recordVars
  <2> QED
    BY <2>1, <2>4, <2>5, <2>6 DEF CasesInv
<1>5. CASE UNCHANGED vars
  <2>1. UNCHANGED <<pc, config, i, document, actions>> /\ UNCHANGED recordVars
    BY <1>5 DEF vars, callVars, harnessVars, finishVars, writeVars, recordVars
  <2> QED
    BY <2>1, StoriesStutter DEF CasesInv
<1> QED
  BY <1>1, <1>2, <1>3, <1>4, <1>5, StepsOfNext DEF Finishing, Writing

\* The JUnit file of callers that write no break has every test that ran, in order,
\* in the class of its groups, and every failure behind the test it belongs to.
THEOREM SenTestJUnitCases == Spec => []JUnitCases
<1> DEFINE Inv == /\ CallsInv /\ HistoryInv /\ StoriesInv /\ PrintedInv /\ IndexInv /\ OutsideInv
                  /\ ScanInv /\ TotalsInv /\ WriteInv /\ DocumentInv /\ CasesInv
<1>1. ReportInit => Inv
  <2>1. ReportInit => CasesInv
    BY DEF ReportInit, Init, CasesInv
  <2> QED
    BY <2>1, InitCalls, InitHistory, InitStories, InitIndex, InitTypes, InitDocument
<1>2. Inv /\ [Next]_vars => Inv'
  BY CallsInvStep, HistoryStep, StoriesStep, PrintedStep, IndexStep, OutsideStep, ScanStep,
     TotalsStep, WriteStep, DocumentStep, CasesStep
<1>3. Inv => JUnitCases
  <2> SUFFICES ASSUME Inv, pc = "done", config.junit_output_path
               PROVE  Elements({"testcase", "failure"}) = TrueCases
    BY DEF JUnitCases
  <2>1. TrueCases = Stories[Len(actions)]
    BY DEF OutsideInv, StoriesInv
  <2> QED
    BY <2>1 DEF CasesInv, Elements, ElementsOf, StoryTags
<1> HIDE DEF Inv
<1> QED
  BY <1>1, <1>2, <1>3, PTL DEF Spec
=============================================================================
