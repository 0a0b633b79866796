--------------------------- MODULE SenArgsExample ----------------------------
(***************************************************************************)
(* sensible-args/examples/example.c: a program that greets its target, as  *)
(* a caller of senargs_parse and senargs_print_help.                       *)
(***************************************************************************)
EXTENDS SenArgs

VARIABLE greeting \* what the program printed

programVars == <<vars, greeting>>

\* struct senargs_argument, by the kind of its data
Argument(id, tag, small, full) ==
  [id |-> id, tag |-> tag, small |-> small, full |-> full, subs |-> Null, value |-> 0]
Command(id, small, full, subs, value) ==
  [id |-> id, tag |-> "SUBCOMMAND", small |-> small, full |-> full,
   subs |-> subs, value |-> value]

target == Argument("target", "STRING", "t", "target")
shout == Argument("shout", "FLAG", "s", "shout")
enthusiasm == Argument("enthusiasm", "INT", "e", "enthusiasm")
root_args == <<target, shout, enthusiasm>>

ASSUME RootHasArguments == ToSet(root_args) \subseteq ToSet(Bags[Root])

NoGreeting == [loud |-> FALSE, target |-> Nothing, marks |-> 0]

ProgramInit == Init /\ greeting = NoGreeting

\* the options kept from the parsing, in a help that is asked for afterwards
Wrong_senargs_print_help == print_help_internal

\* a state of its own: no subcommand, the options of the root
senargs_print_help == help' = [path |-> <<>>, bag |-> Root]

\* main, after senargs_parse: the exit without a target
NoTarget ==
  /\ pc = "returned"
  /\ strings[target.id] = Nothing
  /\ senargs_print_help
  /\ pc' = "asked"
  /\ UNCHANGED <<inputVars, stateVars, valueVars, greeting>>

\* upcase, or not, and as many marks as the loop counts
Greet ==
  /\ pc = "returned"
  /\ strings[target.id] # Nothing
  /\ greeting' = [loud   |-> flags[shout.id],
                  target |-> strings[target.id],
                  marks  |-> IF ints[enthusiasm.id] > 0 THEN ints[enthusiasm.id] ELSE 0]
  /\ pc' = "greeted"
  /\ UNCHANGED <<inputVars, stateVars, valueVars, help>>

Running == (ParseStep /\ UNCHANGED greeting) \/ NoTarget \/ Greet
Finished == Ended \/ pc \in {"asked", "greeted"}

ProgramNext == Running \/ (Finished /\ pc # "returned" /\ UNCHANGED programVars)

ProgramSpec == ProgramInit /\ [][ProgramNext]_programVars /\ WF_programVars(Running)

-----------------------------------------------------------------------------

\* The program greets the last target of its command line, as loudly and with as
\* many marks as that says, and shows the root's options exactly when there is
\* none, whatever subcommands were read before.
ProgramAnswers ==
  /\ pc = "greeted" =>
       /\ greeting.target = ValueGiven(target) /\ greeting.target # Nothing
       /\ greeting.loud <=> IsGiven(shout)
       /\ greeting.marks = LET number == Atoi(ValueGiven(enthusiasm))
                           IN  IF number < 0 THEN 0 ELSE number
  /\ pc = "asked" => ValueGiven(target) = Nothing /\ help.bag = Root /\ help.path = <<>>
=============================================================================
