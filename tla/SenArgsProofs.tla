---------------------------- MODULE SenArgsProofs ----------------------------
(***************************************************************************)
(* Proofs about SenArgs and SenArgsExample, for all descriptions of        *)
(* arguments and all command lines of any length, whether senargs_parse    *)
(* runs alone or in the example's main.                                    *)
(***************************************************************************)
EXTENDS SenArgsExample, SequenceLemmas

-----------------------------------------------------------------------------
(* Looking arguments up.                                                   *)

\* A sequence of one element.
LEMMA OneElement ==
  ASSUME NEW a
  PROVE  /\ <<a>> # <<>> /\ <<a>>[1] = a /\ ToSet(<<a>>) = {a} /\ ToSet(<<>>) = {}
BY DEF ToSet

\* The arguments of a bag are arguments.
LEMMA InBag ==
  ASSUME NEW bag \in DOMAIN Bags
  PROVE  /\ \A k \in DOMAIN Bags[bag] : Bags[bag][k] \in ToSet(Bags[bag])
         /\ ToSet(Bags[bag]) \subseteq AllArguments
         /\ DOMAIN Bags[bag] \subseteq Nat
<1>1. Bags[bag] \in Seq(AllArguments)
  BY ArgsConstants
<1> QED
  BY <1>1 DEF ToSet, AllArguments

\* found has the first argument of bag at places, if there is one
IsFirst(found, places, bag) ==
  /\ found = <<>> <=> places = {}
  /\ found # <<>> => \E k \in places : /\ found = <<Bags[bag][k]>> /\ found[1] = Bags[bag][k]
                                       /\ ToSet(found) = {found[1]}

\* The first place is one of them.
LEMMA FirstAtIs ==
  ASSUME NEW bag \in DOMAIN Bags, NEW places \in SUBSET (DOMAIN Bags[bag])
  PROVE  IsFirst(FirstAt(places, bag), places, bag)
<1>1. CASE places = {}
  BY <1>1 DEF FirstAt, IsFirst
<1>2. CASE places # {}
  <2>1. places \in SUBSET Nat
    BY InBag
  <2>2. \E k \in places : \A l \in places : k <= l
    BY <1>2, <2>1, LeastNatural
  <2> DEFINE first == CHOOSE k \in places : \A l \in places : k <= l
  <2>3. first \in places
    BY <2>2
  <2>4. FirstAt(places, bag) = <<Bags[bag][first]>>
    BY <1>2 DEF FirstAt
  <2> HIDE DEF first
  <2> QED
    BY <1>2, <2>3, <2>4, OneElement DEF IsFirst
<1> QED
  BY <1>1, <1>2

\* An option of bag that is named by a token is an argument of bag with a value or a flag.
LEMMA NamedByIs ==
  ASSUME NEW bag \in DOMAIN Bags, NEW token, NamedBy(token, bag) # <<>>
  PROVE  LET a == NamedBy(token, bag)[1]
         IN  /\ a \in ToSet(Bags[bag]) /\ a \in AllArguments
             /\ Names(token, a) /\ ToSet(NamedBy(token, bag)) = {a}
<1> DEFINE places == {k \in DOMAIN Bags[bag] : Names(token, Bags[bag][k])}
<1>1. IsFirst(NamedBy(token, bag), places, bag)
  BY FirstAtIs DEF NamedBy
<1>2. \A k \in places : Names(token, Bags[bag][k]) /\ k \in DOMAIN Bags[bag]
  OBVIOUS
<1> HIDE DEF places
<1> QED
  BY <1>1, <1>2, InBag DEF IsFirst

\* An argument with a letter is one of the bag.
LEMMA LetterOfIs ==
  ASSUME NEW bag \in DOMAIN Bags, NEW c, LetterOf(c, bag) # <<>>
  PROVE  LET a == LetterOf(c, bag)[1]
         IN  /\ a \in ToSet(Bags[bag]) /\ a \in AllArguments
             /\ ToSet(LetterOf(c, bag)) = {a}
<1> DEFINE places == {k \in DOMAIN Bags[bag] : Bags[bag][k].small = c}
<1>1. IsFirst(LetterOf(c, bag), places, bag)
  BY FirstAtIs DEF LetterOf
<1>2. \A k \in places : k \in DOMAIN Bags[bag]
  OBVIOUS
<1> HIDE DEF places
<1> QED
  BY <1>1, <1>2, InBag DEF IsFirst

\* A subcommand leads to a bag.
LEMMA ChosenIs ==
  ASSUME NEW bag \in DOMAIN Bags, NEW word, Chosen(word, bag) # <<>>
  PROVE  LET a == Chosen(word, bag)[1]
         IN  /\ a \in ToSet(Bags[bag]) /\ a.tag = "SUBCOMMAND" /\ a.full = word
             /\ a.subs \in DOMAIN Bags
<1> DEFINE places == {k \in DOMAIN Bags[bag] :
                        Bags[bag][k].tag = "SUBCOMMAND" /\ Bags[bag][k].full = word}
<1>1. IsFirst(Chosen(word, bag), places, bag)
  BY FirstAtIs DEF Chosen
<1>2. \A k \in places : /\ Bags[bag][k].tag = "SUBCOMMAND" /\ Bags[bag][k].full = word
                        /\ k \in DOMAIN Bags[bag]
  OBVIOUS
<1> HIDE DEF places
<1>3. \A a \in ToSet(Bags[bag]) : a.tag = "SUBCOMMAND" => a.subs \in DOMAIN Bags
  BY SubcommandsLeadDown
<1> QED
  BY <1>1, <1>2, <1>3, InBag DEF IsFirst

\* An argument's kind is that of its id.
LEMMA IdOfKind ==
  ASSUME NEW a \in AllArguments, NEW tag
  PROVE  /\ a.id \in Ids(tag) <=> a.tag = tag
         /\ a.tag \in {"FLAG", "STRING", "INT", "SUBCOMMAND"}
         /\ \A b \in AllArguments : a.id = b.id => a = b
  BY ArgsConstants DEF Ids

-----------------------------------------------------------------------------
(* Steps and types.                                                        *)

\* what a caller does when senargs_parse has returned: it reads, and may print the
\* help of the root
CallerStep ==
  /\ pc = "returned" /\ pc' \in {"asked", "greeted"}
  /\ UNCHANGED <<inputVars, stateVars, valueVars>>
  /\ help' = help \/ help' = [path |-> <<>>, bag |-> Root]

\* every step there can be
Steps == ParseStep \/ CallerStep \/ UNCHANGED vars

\* Steps of senargs_parse alone, and of the example's program.
LEMMA StepsAre ==
  /\ [Next]_vars => Steps
  /\ [ProgramNext]_programVars => Steps
<1>1. [Next]_vars => Steps
  BY DEF Next, Steps
<1>2. NoTarget \/ Greet => CallerStep
  BY DEF NoTarget, Greet, CallerStep, senargs_print_help
<1>3. UNCHANGED programVars => UNCHANGED vars
  BY DEF programVars
<1> QED
  BY <1>1, <1>2, <1>3 DEF ProgramNext, Running, Steps

\* a step that reads nothing more of argv and stores nothing
Quiet ==
  /\ UNCHANGED <<inputVars, stateVars, valueVars>>
  /\ \/ pc' = pc
     \/ pc = "start" /\ pc' = IF Valid THEN "parse" ELSE "aborted"
     \/ pc = "parse" /\ pc' \in {"exit0", "exit1", "crashed"}
     \/ pc = "parse" /\ arg_cursor >= argc /\ pc' = "returned"
     \/ pc = "returned" /\ pc' \in {"asked", "greeted"}
  /\ \/ help' = help
     \/ help' = [path |-> subcommands, bag |-> arguments]
     \/ help' = [path |-> <<>>, bag |-> Root]

\* the letters all known to the bag, or do_not_panic
KnownLetters == do_not_panic \/ \A k \in 1..Len(Letters) : Found(k) # <<>>
\* the exit of ShortFlags, and its storing
UnknownLetters == ShortFlags /\ ~KnownLetters
KnownFlags == ShortFlags /\ KnownLetters

\* a step that reads an element of argv, and perhaps its value
Advances == LongFlag \/ LongValue \/ LongInline \/ ShortValue \/ KnownFlags \/ Subcommand

\* Every step is one or the other.
LEMMA QuietOrAdvances == Steps => Quiet \/ Advances
<1>1. LongHelp \/ LongNoValue \/ ShortHelp \/ ShortNoValue \/ UnknownSubcommand => Quiet
  BY DEF LongHelp, LongNoValue, ShortHelp, ShortNoValue, UnknownSubcommand, Exit, Quiet,
         print_help_internal, Parsing
<1>2. LongUnknown \/ ShortNone => Quiet
  BY DEF LongUnknown, ShortNone, Exit, Quiet, print_help_internal, Parsing, vars
<1>3. UnknownLetters => Quiet
  BY DEF UnknownLetters, KnownLetters, ShortFlags, Quiet, Parsing, stateVars, valueVars
<1>4. Start \/ PushCrashes \/ Return \/ CallerStep \/ UNCHANGED vars => Quiet
  BY DEF Start, PushCrashes, Return, CallerStep, vars, Quiet, Parsing
<1>5. ShortFlags => UnknownLetters \/ KnownFlags
  BY DEF UnknownLetters, KnownFlags
<1> QED
  BY <1>1, <1>2, <1>3, <1>4, <1>5 DEF Steps, ParseStep, Advances

\* what a string_value may be: an element of argv, or what is behind its "="
StringValues ==
  Tokens \cup {Nothing} \cup {Word(t.inline) : t \in {u \in Tokens : u.kind = "long"}}

\* TypeOK, and what argv and flags were when senargs_parse was called: inductive.
TypesInv ==
  /\ TypeOK
  /\ argv \in Seq(Tokens) /\ Len(argv) <= MaxArgs
  /\ given \in [Ids("FLAG") -> BOOLEAN]

\* What is known of the element that is read.
LEMMA ElementRead ==
  ASSUME TypesInv, NEW kind, Parsing(kind)
  PROVE  /\ pc = "parse" /\ Token.kind = kind /\ Token = argv[arg_cursor] /\ Token \in Tokens
         /\ arg_cursor \in 1..Len(argv) /\ arguments \in DOMAIN Bags
         /\ Len(argv) \in Nat /\ arg_cursor \in Nat /\ argc = Len(argv) + 1
         /\ arg_cursor # argc - 1 => /\ Following = argv[arg_cursor + 1] /\ Following \in Tokens
                                     /\ arg_cursor + 1 \in 1..Len(argv)
<1>1. /\ argv \in Seq(Tokens) /\ arg_cursor \in 1..Len(argv) + 1 /\ arg_cursor < Len(argv) + 1
      /\ pc = "parse" /\ Token.kind = kind /\ arguments \in DOMAIN Bags
  BY DEF TypesInv, TypeOK, Parsing, argc
<1>2. Len(argv) \in Nat /\ arg_cursor \in 1..Len(argv)
  BY <1>1
<1>3. Token = argv[arg_cursor] /\ Token \in Tokens
  BY <1>1, <1>2, ElementOfSeq DEF Token
<1>4. ASSUME arg_cursor # argc - 1
      PROVE  /\ Following = argv[arg_cursor + 1] /\ Following \in Tokens
             /\ arg_cursor + 1 \in 1..Len(argv)
  <2>1. arg_cursor + 1 \in 1..Len(argv) /\ arg_cursor + 1 < argc
    BY <1>2, <1>4 DEF argc
  <2>2. argv[arg_cursor + 1] \in Tokens
    BY <1>1, <2>1, ElementOfSeq
  <2> QED
    BY <2>1, <2>2 DEF Following
<1> QED
  BY <1>1, <1>2, <1>3, <1>4 DEF argc

\* The option a token names, or the one a letter does, is of a known kind.
LEMMA OptionRead ==
  ASSUME NEW bag \in DOMAIN Bags, NEW found,
         \/ \E token : found = NamedBy(token, bag)
         \/ \E c : found = LetterOf(c, bag),
         found # <<>>
  PROVE  /\ found[1] \in AllArguments /\ ToSet(found) = {found[1]}
         /\ TakesValue(found) <=> found[1].tag \in {"STRING", "INT"}
         /\ \A tag : found[1].id \in Ids(tag) <=> found[1].tag = tag
         /\ found[1].tag \in {"FLAG", "STRING", "INT", "SUBCOMMAND"}
<1>1. found[1] \in AllArguments /\ ToSet(found) = {found[1]}
  BY NamedByIs, LetterOfIs
<1> QED
  BY <1>1, IdOfKind DEF TakesValue

\* atoi returns an int.
LEMMA AtoiIs == \A token : Atoi(token) \in Int
  BY ArgsConstants DEF Atoi

\* A value is stored in the option it is for.
LEMMA AssignedTypes ==
  ASSUME strings \in [Ids("STRING") -> StringValues], ints \in [Ids("INT") -> Int],
         NEW a, NEW value \in StringValues, assign_data(a, value)
  PROVE  strings' \in [Ids("STRING") -> StringValues] /\ ints' \in [Ids("INT") -> Int]
<1>1. strings' \in [Ids("STRING") -> StringValues]
  <2> HIDE DEF StringValues
  <2>1. CASE strings' = strings
    BY <2>1
  <2>2. CASE strings' = [strings EXCEPT ![a.id] = value]
    BY <2>2
  <2> QED
    BY <2>1, <2>2 DEF assign_data
<1>2. ints' \in [Ids("INT") -> Int]
  <2>1. CASE ints' = ints
    BY <2>1
  <2>2. CASE ints' = [ints EXCEPT ![a.id] = Atoi(value)]
    BY <2>2, AtoiIs
  <2> QED
    BY <2>1, <2>2 DEF assign_data
<1> QED
  BY <1>1, <1>2

\* Reading keeps the types, if it stops at the end of argv.
LEMMA TypesKept ==
  ASSUME TypesInv, UNCHANGED <<pc, inputVars>>, arg_cursor' \in 1..argc,
         arguments' \in DOMAIN Bags, room' \in {4} \cup Rooms,
         flags' \in [Ids("FLAG") -> BOOLEAN],
         strings' \in [Ids("STRING") -> StringValues], ints' \in [Ids("INT") -> Int]
  PROVE  TypesInv'
  BY DEF TypesInv, TypeOK, inputVars, StringValues, argc

\* Every step that moves the cursor keeps the types,
LEMMA TypesAdvance ==
  ASSUME TypesInv, Advances
  PROVE  TypesInv'
<1>1. /\ strings \in [Ids("STRING") -> StringValues] /\ ints \in [Ids("INT") -> Int]
      /\ flags \in [Ids("FLAG") -> BOOLEAN] /\ arguments \in DOMAIN Bags
      /\ room \in {4} \cup Rooms
  BY DEF TypesInv, TypeOK, StringValues
<1>2. CASE LongFlag
  <2>1. arg_cursor \in 1..Len(argv) /\ Len(argv) \in Nat /\ argc = Len(argv) + 1
    BY <1>2, ElementRead DEF LongFlag
  <2>2. arg_cursor' \in 1..argc
    BY <1>2, <2>1 DEF LongFlag
  <2>3. flags' \in [Ids("FLAG") -> BOOLEAN]
    BY <1>1, <1>2 DEF LongFlag
  <2> QED
    BY <1>1, <1>2, <2>2, <2>3, TypesKept DEF LongFlag
<1>3. CASE LongValue
  <2>1. /\ arg_cursor \in 1..Len(argv) /\ Len(argv) \in Nat /\ argc = Len(argv) + 1
        /\ Following \in Tokens /\ arg_cursor + 1 \in 1..Len(argv)
    BY <1>3, ElementRead DEF LongValue
  <2>2. arg_cursor' \in 1..argc
    BY <1>3, <2>1 DEF LongValue
  <2>3. Following \in StringValues
    BY <2>1 DEF StringValues
  <2>4. strings' \in [Ids("STRING") -> StringValues] /\ ints' \in [Ids("INT") -> Int]
    BY <1>1, <1>3, <2>3, AssignedTypes DEF LongValue
  <2> QED
    BY <1>1, <1>3, <2>2, <2>4, TypesKept DEF LongValue
<1>4. CASE LongInline
  <2>1. /\ arg_cursor \in 1..Len(argv) /\ Len(argv) \in Nat /\ argc = Len(argv) + 1
        /\ Token \in Tokens /\ Token.kind = "long"
    BY <1>4, ElementRead DEF LongInline
  <2>2. arg_cursor' \in 1..argc
    BY <1>4, <2>1 DEF LongInline
  <2>3. Word(Token.inline) \in StringValues
    BY <2>1 DEF StringValues
  <2>4. strings' \in [Ids("STRING") -> StringValues] /\ ints' \in [Ids("INT") -> Int]
    BY <1>1, <1>4, <2>3, AssignedTypes DEF LongInline
  <2> QED
    BY <1>1, <1>4, <2>2, <2>4, TypesKept DEF LongInline
<1>5. CASE ShortValue
  <2>1. /\ arg_cursor \in 1..Len(argv) /\ Len(argv) \in Nat /\ argc = Len(argv) + 1
        /\ Following \in Tokens /\ arg_cursor + 1 \in 1..Len(argv)
    BY <1>5, ElementRead DEF ShortValue
  <2>2. arg_cursor' \in 1..argc
    BY <1>5, <2>1 DEF ShortValue
  <2>3. Following \in StringValues
    BY <2>1 DEF StringValues
  <2>4. strings' \in [Ids("STRING") -> StringValues] /\ ints' \in [Ids("INT") -> Int]
    BY <1>1, <1>5, <2>3, AssignedTypes DEF ShortValue
  <2> QED
    BY <1>1, <1>5, <2>2, <2>4, TypesKept DEF ShortValue
<1>6. CASE KnownFlags
  <2>1. arg_cursor \in 1..Len(argv) /\ Len(argv) \in Nat /\ argc = Len(argv) + 1
    BY <1>6, ElementRead DEF KnownFlags, ShortFlags
  <2>2. /\ arg_cursor' = arg_cursor + 1
        /\ flags' = [f \in DOMAIN flags |->
                       \/ flags[f]
                       \/ \E k \in 1..Len(Letters) : Found(k) # <<>> /\ Found(k)[1].id = f]
        /\ UNCHANGED <<pc, inputVars, arguments, room, strings, ints>>
    BY <1>6 DEF KnownFlags, KnownLetters, ShortFlags
  <2>3. flags' \in [Ids("FLAG") -> BOOLEAN]
    BY <1>1, <2>2
  <2> QED
    BY <1>1, <2>1, <2>2, <2>3, TypesKept
<1>7. CASE Subcommand
  <2>1. /\ arg_cursor \in 1..Len(argv) /\ Len(argv) \in Nat /\ argc = Len(argv) + 1
        /\ arguments \in DOMAIN Bags
    BY <1>7, ElementRead DEF Subcommand
  <2>2. arg_cursor' \in 1..argc
    BY <1>7, <2>1 DEF Subcommand
  <2>3. arguments' \in DOMAIN Bags
    BY <1>7, <2>1, ChosenIs DEF Subcommand
  <2>4. room' \in {4} \cup Rooms
    BY <1>1, <1>7 DEF Subcommand, RoomToPush
  <2> QED
    BY <1>1, <1>7, <2>2, <2>3, <2>4, TypesKept DEF Subcommand
<1> QED
  BY <1>2, <1>3, <1>4, <1>5, <1>6, <1>7 DEF Advances

\* and so does every other.
LEMMA TypesStep ==
  ASSUME TypesInv, Steps
  PROVE  TypesInv'
<1>1. CASE Quiet
  BY <1>1 DEF Quiet, TypesInv, TypeOK, inputVars, stateVars, valueVars, argc
<1> QED
  BY <1>1, TypesAdvance, QuietOrAdvances

\* They hold before the call.
LEMMA InitTypes ==
  ASSUME Init
  PROVE  TypesInv
<1>1. argv \in Seq(Tokens) /\ Len(argv) <= MaxArgs /\ Len(argv) \in Nat
  <2>1. PICK m \in 0..MaxArgs : argv \in [1..m -> Tokens]
    BY DEF Init, BoundedSeq, SeqOf
  <2>2. m \in Nat /\ m <= MaxArgs
    BY <2>1, ArgsConstants
  <2> QED
    BY <2>1, <2>2
<1>2. flags \in [Ids("FLAG") -> BOOLEAN] /\ given = flags
  BY ArgsConstants DEF Init
<1>3. strings \in [Ids("STRING") -> StringValues] /\ ints \in [Ids("INT") -> Int]
  BY DEF Init, StringValues
<1>4. /\ pc = "start" /\ do_not_panic \in PanicModes /\ arg_cursor \in 1..argc
      /\ arguments \in DOMAIN Bags /\ room \in {4} \cup Rooms
  BY <1>1, ArgsConstants DEF Init, argc
<1> QED
  BY <1>1, <1>2, <1>3, <1>4 DEF TypesInv, TypeOK, StringValues

\* Every variable keeps its type: no value is read behind the end of argv, whatever the
\* command line ends with, and the arguments in use are those of a bag.
THEOREM SenArgsTypeOK == (Spec => []TypeOK) /\ (ProgramSpec => []TypeOK)
<1>1. TypesInv => TypeOK
  BY DEF TypesInv
<1>2. Init => TypesInv
  BY InitTypes
<1>3. TypesInv /\ [Next]_vars => TypesInv'
  BY TypesStep, StepsAre
<1>4. TypesInv /\ [ProgramNext]_programVars => TypesInv'
  BY TypesStep, StepsAre
<1>5. Spec => []TypeOK
  BY <1>1, <1>2, <1>3, PTL DEF Spec
<1>6. ProgramSpec => []TypeOK
  BY <1>1, <1>2, <1>4, PTL DEF ProgramSpec, ProgramInit
<1> QED
  BY <1>5, <1>6

-----------------------------------------------------------------------------
(* The way of the subcommands.                                             *)

\* bag[k] is where the first k subcommands of path lead to
Leads(bag, path, n) ==
  bag = [k \in 0..n |-> IF k = 0 THEN Root ELSE Chosen(path[k], bag[k-1])[1].subs]

\* Every number of subcommands leads somewhere.
LEMMA LeadExists ==
  ASSUME NEW path
  PROVE  \A n \in Nat : \E bag : Leads(bag, path, n)
<1> DEFINE P == {n \in Nat : \E bag : Leads(bag, path, n)}
<1>1. 0 \in P
  <2> DEFINE bag == [k \in 0..0 |-> Root]
  <2>1. bag = [k \in 0..0 |-> IF k = 0 THEN Root ELSE Chosen(path[k], bag[k-1])[1].subs]
    OBVIOUS
  <2> HIDE DEF bag
  <2>2. Leads(bag, path, 0)
    BY <2>1 DEF Leads
  <2> QED
    BY <2>2
<1>2. ASSUME NEW n \in Nat, n \in P PROVE n + 1 \in P
  <2>1. PICK old : Leads(old, path, n)
    BY <1>2
  <2>2. \A k \in 0..n : old[k] = IF k = 0 THEN Root ELSE Chosen(path[k], old[k-1])[1].subs
    BY <2>1 DEF Leads
  <2> DEFINE last == Chosen(path[n+1], old[n])[1].subs
             bag == [k \in 0..n+1 |-> IF k = n + 1 THEN last ELSE old[k]]
  <2>3. \A k \in 0..n+1 : bag[k] = IF k = n + 1 THEN last ELSE old[k]
    OBVIOUS
  <2>4. \A k \in 0..n : bag[k] = old[k]
    BY <2>3
  <2>5. bag[n+1] = last
    BY <2>3
  <2>6. bag = [k \in 0..n+1 |-> bag[k]]
    OBVIOUS
  <2>7. last = Chosen(path[n+1], bag[n])[1].subs
    BY <2>4
  <2> HIDE DEF bag, last
  <2>8. ASSUME NEW k \in 0..n+1
        PROVE  bag[k] = IF k = 0 THEN Root ELSE Chosen(path[k], bag[k-1])[1].subs
    <3>1. CASE k = n + 1
      BY <3>1, <2>5, <2>7
    <3>2. CASE k = 0
      BY <3>2, <2>2, <2>4
    <3>3. CASE k \in 1..n
      <4>1. k \in 0..n /\ k - 1 \in 0..n /\ k # 0
        BY <3>3
      <4>2. old[k] = Chosen(path[k], old[k-1])[1].subs
        BY <4>1, <2>2
      <4> QED
        BY <4>1, <4>2, <2>4
    <3> QED
      BY <3>1, <3>2, <3>3
  <2>9. bag = [k \in 0..n+1 |-> IF k = 0 THEN Root ELSE Chosen(path[k], bag[k-1])[1].subs]
    BY <2>6, <2>8
  <2>10. Leads(bag, path, n + 1)
    BY <2>9 DEF Leads
  <2> QED
    BY <2>10
<1>3. 0 \in P /\ (\A n \in Nat : n \in P => n + 1 \in P)
  BY <1>1, <1>2
<1> HIDE DEF P
<1>4. \A n \in Nat : n \in P
  BY <1>3, SetInduction
<1> QED
  BY <1>4 DEF P

\* the same in the first m places
Alike(m, one, other) == \A k \in 1..m : one[k] = other[k]
SameBags(m, bag, more) == \A k \in 0..m : bag[k] = more[k]

\* Ways that begin alike lead to the same bags.
LEMMA LeadSame ==
  ASSUME NEW path, NEW other, NEW m \in Nat, NEW n \in Nat, m <= n, Alike(m, path, other),
         NEW bag, Leads(bag, path, m), NEW more, Leads(more, other, n)
  PROVE  SameBags(m, bag, more)
<1> DEFINE P == {k \in Nat : k <= m => bag[k] = more[k]}
<1>1. /\ \A k \in 0..m : bag[k] = IF k = 0 THEN Root ELSE Chosen(path[k], bag[k-1])[1].subs
      /\ \A k \in 0..n : more[k] = IF k = 0 THEN Root ELSE Chosen(other[k], more[k-1])[1].subs
  BY DEF Leads
<1>2. 0 \in P
  BY <1>1
<1>3. ASSUME NEW k \in Nat, k \in P PROVE k + 1 \in P
  <2> SUFFICES ASSUME k + 1 <= m PROVE bag[k+1] = more[k+1]
    OBVIOUS
  <2>1. bag[k] = more[k] /\ path[k+1] = other[k+1]
    BY <1>3 DEF Alike
  <2>2. k + 1 \in 0..m /\ k + 1 \in 0..n /\ k + 1 # 0 /\ (k + 1) - 1 = k
    OBVIOUS
  <2> QED
    BY <1>1, <2>1, <2>2
<1>4. 0 \in P /\ (\A k \in Nat : k \in P => k + 1 \in P)
  BY <1>2, <1>3
<1> HIDE DEF P
<1>5. \A k \in Nat : k \in P
  BY <1>4, SetInduction
<1> QED
  BY <1>5 DEF P, SameBags

\* BagAfter takes the last bag of a way.
LEMMA BagAfterIs ==
  ASSUME NEW path, Len(path) \in Nat
  PROVE  \E bag : Leads(bag, path, Len(path)) /\ BagAfter(path) = bag[Len(path)]
<1> DEFINE way == CHOOSE bag : bag = [k \in 0..Len(path) |->
                    IF k = 0 THEN Root ELSE Chosen(path[k], bag[k-1])[1].subs]
<1>1. \E bag : bag = [k \in 0..Len(path) |->
                 IF k = 0 THEN Root ELSE Chosen(path[k], bag[k-1])[1].subs]
  BY LeadExists DEF Leads
<1>2. way = [k \in 0..Len(path) |->
               IF k = 0 THEN Root ELSE Chosen(path[k], way[k-1])[1].subs]
  BY <1>1
<1>3. BagAfter(path) = way[Len(path)]
  BY DEF BagAfter
<1> HIDE DEF way
<1> QED
  BY <1>2, <1>3 DEF Leads

\* No subcommand leads to the root,
LEMMA BagAfterNone == BagAfter(<<>>) = Root
<1>1. PICK bag : Leads(bag, <<>>, Len(<<>>)) /\ BagAfter(<<>>) = bag[Len(<<>>)]
  BY BagAfterIs
<1>2. Leads(bag, <<>>, 0) /\ BagAfter(<<>>) = bag[0]
  BY <1>1
<1> QED
  BY <1>2 DEF Leads

\* and one more to its own bag.
LEMMA BagAfterAppend ==
  ASSUME NEW S, NEW path \in Seq(S), NEW word \in S
  PROVE  BagAfter(Append(path, word)) = Chosen(word, BagAfter(path))[1].subs
<1> DEFINE longer == Append(path, word)
           n == Len(path)
<1>1. n \in Nat /\ Len(longer) = n + 1 /\ longer[n+1] = word
      /\ \A k \in 1..n : path[k] = longer[k]
  OBVIOUS
<1> HIDE DEF longer, n
<1>2. PICK bag : Leads(bag, path, n) /\ BagAfter(path) = bag[n]
  BY <1>1, BagAfterIs DEF n
<1>3. PICK more : Leads(more, longer, n + 1) /\ BagAfter(longer) = more[n+1]
  BY <1>1, BagAfterIs
<1>4. \A k \in 0..n : bag[k] = more[k]
  <2> DEFINE m == n + 1
  <2>1. n \in Nat /\ m \in Nat /\ n <= m
    BY <1>1
  <2>2. Leads(more, longer, m)
    BY <1>3
  <2>3. Leads(bag, path, n)
    BY <1>2
  <2>4. Alike(n, path, longer)
    BY <1>1 DEF Alike
  <2> HIDE DEF m
  <2>5. SameBags(n, bag, more)
    BY <2>1, <2>2, <2>3, <2>4, LeadSame
  <2> QED
    BY <2>5 DEF SameBags
<1>5. more[n+1] = Chosen(longer[n+1], more[n])[1].subs
  <2>1. n + 1 \in 0..n+1 /\ n + 1 # 0 /\ (n + 1) - 1 = n
    BY <1>1
  <2> QED
    BY <1>3, <2>1 DEF Leads
<1>6. bag[n] = more[n]
  BY <1>1, <1>4
<1> QED
  BY <1>1, <1>2, <1>3, <1>5, <1>6 DEF longer

\* The bags on the way of path: passed[k] is where its first k - 1 subcommands lead.
PassedBy(path, k) == BagAfter(SubSeq(path, 1, k - 1))

\* One more subcommand passes the bag the others lead to.
LEMMA PassedAppend ==
  ASSUME NEW S, NEW path \in Seq(S), NEW word \in S
  PROVE  /\ \A k \in 1..Len(path) : PassedBy(Append(path, word), k) = PassedBy(path, k)
         /\ PassedBy(Append(path, word), Len(path) + 1) = BagAfter(path)
<1>1. \A k \in 1..Len(path) : SubSeq(Append(path, word), 1, k - 1) = SubSeq(path, 1, k - 1)
  OBVIOUS
<1>2. SubSeq(Append(path, word), 1, (Len(path) + 1) - 1) = path
  OBVIOUS
<1> QED
  BY <1>1, <1>2 DEF PassedBy

\* height falls along every subcommand
IsHeight(height) ==
  /\ height \in [DOMAIN Bags -> Nat]
  /\ \A b \in DOMAIN Bags : \A a \in ToSet(Bags[b]) :
       a.tag = "SUBCOMMAND" => a.subs \in DOMAIN Bags /\ height[a.subs] < height[b]

\* Subcommands lead down (SubcommandsLeadDown), so there are heights.
LEMMA HeightExists == \E height : IsHeight(height)
<1>1. Cardinality(DOMAIN Bags) \in Nat
  BY SubcommandsLeadDown, FS_CardinalityType
<1>2. PICK height \in [DOMAIN Bags -> 0..Cardinality(DOMAIN Bags)] :
        \A b \in DOMAIN Bags : \A a \in ToSet(Bags[b]) :
          a.tag = "SUBCOMMAND" => a.subs \in DOMAIN Bags /\ height[a.subs] < height[b]
  BY SubcommandsLeadDown
<1>3. height \in [DOMAIN Bags -> Nat]
  BY <1>1, <1>2
<1> QED
  BY <1>2, <1>3 DEF IsHeight

Words == {t.word : t \in Tokens}

\* what a bag says was chosen, as one of the subcommands taken
ChosenOn(path, b) ==
  \E k \in 1..Len(path) : b = PassedBy(path, k)

\* The subcommands taken lead from the root down to the bag in use, through bags that
\* say which was chosen, and no others do.
ChoicesInv ==
  /\ subcommands \in Seq(Words)
  /\ arguments = BagAfter(subcommands)
  /\ DOMAIN chosen = DOMAIN Bags
  /\ \A k \in 1..Len(subcommands) :
       /\ PassedBy(subcommands, k) \in DOMAIN Bags
       /\ chosen[PassedBy(subcommands, k)]
            = Chosen(subcommands[k], PassedBy(subcommands, k))[1].value
  /\ \A height : IsHeight(height) =>
       \A k \in 1..Len(subcommands) : height[arguments] < height[PassedBy(subcommands, k)]
  /\ \A b \in DOMAIN Bags : chosen[b] # 0 => ChosenOn(subcommands, b)
  /\ help.bag # Null => BagAfter(help.path) = help.bag

\* Taking a subcommand makes the way longer, by a bag that was not on it.
LEMMA SubcommandChoices ==
  ASSUME TypesInv, ChoicesInv, Subcommand
  PROVE  ChoicesInv'
<1> DEFINE word == Token.word
           path == subcommands
           n == Len(path)
           a == Chosen(word, arguments)[1]
<1>1. /\ Parsing("word") /\ Chosen(word, arguments) # <<>>
      /\ chosen' = [chosen EXCEPT ![arguments] = a.value]
      /\ arguments' = a.subs /\ subcommands' = Append(path, word)
      /\ help' = help
  BY DEF Subcommand
<1>2. Token \in Tokens /\ arguments \in DOMAIN Bags
  BY <1>1, ElementRead
<1>3. path \in Seq(Words) /\ word \in Words /\ n \in Nat
  BY <1>2 DEF ChoicesInv, Words
<1>4. a \in ToSet(Bags[arguments]) /\ a.tag = "SUBCOMMAND" /\ a.subs \in DOMAIN Bags
  BY <1>1, <1>2, ChosenIs
<1>5. /\ \A k \in 1..n : PassedBy(subcommands', k) = PassedBy(path, k)
      /\ PassedBy(subcommands', n + 1) = arguments
      /\ BagAfter(subcommands') = arguments'
  <2>1. BagAfter(path) = arguments
    BY DEF ChoicesInv
  <2> QED
    BY <1>1, <1>3, <2>1, PassedAppend, BagAfterAppend
<1>6. /\ subcommands' \in Seq(Words) /\ Len(subcommands') = n + 1
      /\ \A k \in 1..n : subcommands'[k] = path[k]
      /\ subcommands'[n+1] = word
  BY <1>1, <1>3
<1>7. \A k \in 1..n + 1 : k \in 1..n \/ k = n + 1
  BY <1>3
<1>8. \A k \in 1..n : PassedBy(path, k) # arguments
  <2>1. PICK height : IsHeight(height)
    BY HeightExists
  <2>2. \A k \in 1..n : height[arguments] < height[PassedBy(path, k)]
    BY <2>1 DEF ChoicesInv
  <2>3. height[arguments] \in Nat
    BY <1>2, <2>1 DEF IsHeight
  <2> QED
    BY <2>2, <2>3
<1> HIDE DEF word, path, n, a
<1>9. ASSUME NEW k \in 1..n + 1
      PROVE  /\ PassedBy(subcommands', k) \in DOMAIN Bags
             /\ chosen'[PassedBy(subcommands', k)]
                  = Chosen(subcommands'[k], PassedBy(subcommands', k))[1].value
  <2>1. CASE k \in 1..n
    <3>1. /\ PassedBy(path, k) \in DOMAIN Bags
          /\ chosen[PassedBy(path, k)] = Chosen(path[k], PassedBy(path, k))[1].value
      BY <2>1 DEF ChoicesInv, path, n
    <3>2. chosen'[PassedBy(path, k)] = chosen[PassedBy(path, k)]
      BY <1>1, <1>8, <2>1, <3>1 DEF ChoicesInv
    <3> QED
      BY <1>5, <1>6, <2>1, <3>1, <3>2
  <2>2. CASE k = n + 1
    <3>1. chosen'[arguments] = a.value
      BY <1>1, <1>2 DEF ChoicesInv
    <3> QED
      BY <1>2, <1>5, <1>6, <2>2, <3>1 DEF a
  <2> QED
    BY <1>7, <2>1, <2>2
<1>10. ASSUME NEW height, IsHeight(height), NEW k \in 1..n + 1
       PROVE  height[arguments'] < height[PassedBy(subcommands', k)]
  <2>1. height[arguments'] < height[arguments]
    BY <1>1, <1>2, <1>4, <1>10 DEF IsHeight
  <2>2. height[arguments'] \in Nat /\ height[arguments] \in Nat
    BY <1>1, <1>2, <1>4, <1>10 DEF IsHeight
  <2>3. CASE k \in 1..n
    <3>1. /\ height[arguments] < height[PassedBy(path, k)]
          /\ PassedBy(path, k) \in DOMAIN Bags
      BY <1>10, <2>3 DEF ChoicesInv, path, n
    <3>2. height[PassedBy(path, k)] \in Nat
      BY <1>10, <3>1 DEF IsHeight
    <3> QED
      BY <1>5, <2>1, <2>2, <2>3, <3>1, <3>2
  <2> QED
    BY <1>5, <1>7, <2>1, <2>3
<1>11. ASSUME NEW b \in DOMAIN Bags, chosen'[b] # 0
       PROVE  \E k \in 1..n + 1 : b = PassedBy(subcommands', k)
  <2>1. CASE b = arguments
    <3>1. n + 1 \in 1..n + 1
      BY <1>3
    <3> QED
      BY <1>5, <2>1, <3>1
  <2>2. CASE b # arguments
    <3>1. chosen[b] # 0
      BY <1>1, <1>11, <2>2 DEF ChoicesInv
    <3>2. PICK k \in 1..n : b = PassedBy(path, k)
      BY <3>1 DEF ChoicesInv, ChosenOn, path, n
    <3>3. k \in 1..n + 1
      BY <1>3
    <3> QED
      BY <1>5, <3>2, <3>3
  <2> QED
    BY <2>1, <2>2
<1>12. DOMAIN chosen' = DOMAIN Bags
  BY <1>1 DEF ChoicesInv
<1>13. help'.bag # Null => BagAfter(help'.path) = help'.bag
  BY <1>1 DEF ChoicesInv
<1>14. \A b \in DOMAIN Bags : chosen'[b] # 0 => ChosenOn(subcommands', b)
  BY <1>6, <1>11 DEF ChosenOn
<1>15. \A k \in 1..Len(subcommands') :
         /\ PassedBy(subcommands', k) \in DOMAIN Bags
         /\ chosen'[PassedBy(subcommands', k)]
              = Chosen(subcommands'[k], PassedBy(subcommands', k))[1].value
  BY <1>6, <1>9
<1>16. \A height : IsHeight(height) =>
         \A k \in 1..Len(subcommands') : height[arguments'] < height[PassedBy(subcommands', k)]
  BY <1>6, <1>10
<1> QED
  BY <1>5, <1>6, <1>12, <1>13, <1>14, <1>15, <1>16 DEF ChoicesInv

\* No other step changes the way.
LEMMA ChoicesStep ==
  ASSUME TypesInv, ChoicesInv, Steps
  PROVE  ChoicesInv'
<1>1. BagAfter(<<>>) = Root
  BY BagAfterNone
<1>2. CASE Quiet
  <2>1. UNCHANGED <<subcommands, arguments, chosen>>
    BY <1>2 DEF Quiet, stateVars, valueVars
  <2>2. \/ help' = help
        \/ help' = [path |-> subcommands, bag |-> arguments]
        \/ help' = [path |-> <<>>, bag |-> Root]
    BY <1>2 DEF Quiet
  <2>3. help'.bag # Null => BagAfter(help'.path) = help'.bag
    BY <1>1, <2>2 DEF ChoicesInv
  <2> QED
    BY <2>1, <2>3 DEF ChoicesInv
<1>3. CASE LongFlag \/ LongValue \/ LongInline \/ ShortValue \/ KnownFlags
  <2>1. UNCHANGED <<subcommands, arguments, chosen, help>>
    BY <1>3 DEF LongFlag, LongValue, LongInline, ShortValue, KnownFlags, KnownLetters, ShortFlags
  <2> QED
    BY <2>1 DEF ChoicesInv
<1> QED
  BY <1>2, <1>3, SubcommandChoices, QuietOrAdvances DEF Advances

\* Before the call there is none.
LEMMA InitChoices ==
  ASSUME Init
  PROVE  ChoicesInv
<1>1. BagAfter(<<>>) = Root
  BY BagAfterNone
<1>2. /\ subcommands = <<>> /\ arguments = Root /\ chosen = [b \in DOMAIN Bags |-> 0]
      /\ help = [path |-> <<>>, bag |-> Null]
  BY DEF Init
<1>3. 1..Len(<<>>) = {}
  OBVIOUS
<1> QED
  BY <1>1, <1>2, <1>3 DEF ChoicesInv

\* The invariant says what the property does.
LEMMA ChoicesAre ==
  ASSUME ChoicesInv
  PROVE  ChoicesLeadHere
  BY DEF ChoicesInv, ChoicesLeadHere, PassedBy, ChosenOn

\* The choices stored in the bags lead from the root to the arguments in use, for any
\* tree of subcommands, and the help that is printed belongs to its usage line.
THEOREM SenArgsChoicesLeadHere == (Spec => []ChoicesLeadHere) /\ (ProgramSpec => []ChoicesLeadHere)
<1>1. ChoicesInv => ChoicesLeadHere
  BY ChoicesAre
<1>2. Init => TypesInv /\ ChoicesInv
  BY InitTypes, InitChoices
<1>3. TypesInv /\ ChoicesInv /\ [Next]_vars => TypesInv' /\ ChoicesInv'
  BY TypesStep, ChoicesStep, StepsAre
<1>4. TypesInv /\ ChoicesInv /\ [ProgramNext]_programVars => TypesInv' /\ ChoicesInv'
  BY TypesStep, ChoicesStep, StepsAre
<1>5. Spec => []ChoicesLeadHere
  BY <1>1, <1>2, <1>3, PTL DEF Spec
<1>6. ProgramSpec => []ChoicesLeadHere
  BY <1>1, <1>2, <1>4, PTL DEF ProgramSpec, ProgramInit
<1> QED
  BY <1>5, <1>6

-----------------------------------------------------------------------------
(* What the elements of argv are.                                          *)

\* an option that takes the next element as its value
WantsValue(t, bag) ==
  \/ t.kind = "long" /\ t.inline = Null /\ TakesValue(NamedBy(t, bag))
  \/ t.kind = "short" /\ Len(t.letters) = 1 /\ TakesValue(LetterOf(t.letters[1], bag))

\* what element k is, when the one before it is that
After(args, k, before) ==
  LET wanted == k > 1 /\ ~before.value /\ WantsValue(args[k-1], before.bag)
      entered == IF k > 1 /\ ~before.value /\ args[k-1].kind = "word"
                 THEN Chosen(args[k-1].word, before.bag) ELSE <<>>
  IN  [bag |-> IF entered = <<>> THEN before.bag ELSE entered[1].subs, value |-> wanted]

FirstRead == [bag |-> Root, value |-> FALSE]
Readings == [bag : DOMAIN Bags, value : BOOLEAN]

IsReading(f, args) ==
  f = [k \in 0..MaxArgs |-> IF k = 0 THEN FirstRead ELSE After(args, k, f[k-1])]

\* Reading, for any arguments
ReadingOf(args) == CHOOSE f : IsReading(f, args)

\* Reading is that of argv.
LEMMA ReadingIs == Reading = ReadingOf(argv)
  BY DEF Reading, ReadingOf, IsReading, After, WantsValue, FirstRead

\* What an element is has a bag.
LEMMA AfterTyped ==
  ASSUME NEW args, NEW k, NEW before \in Readings
  PROVE  After(args, k, before) \in Readings
<1> DEFINE entered == IF k > 1 /\ ~before.value /\ args[k-1].kind = "word"
                      THEN Chosen(args[k-1].word, before.bag) ELSE <<>>
           wanted == k > 1 /\ ~before.value /\ WantsValue(args[k-1], before.bag)
<1>1. before.bag \in DOMAIN Bags
  BY DEF Readings
<1>2. (IF entered = <<>> THEN before.bag ELSE entered[1].subs) \in DOMAIN Bags
  BY <1>1, ChosenIs
<1>3. wanted \in BOOLEAN
  BY DEF WantsValue
<1>4. After(args, k, before)
        = [bag |-> IF entered = <<>> THEN before.bag ELSE entered[1].subs, value |-> wanted]
  BY DEF After
<1> HIDE DEF entered, wanted
<1> QED
  BY <1>2, <1>3, <1>4 DEF Readings

\* There is a reading of any arguments, and each element follows from the one before.
LEMMA ReadingOfIs ==
  ASSUME NEW args
  PROVE  /\ ReadingOf(args) \in [0..MaxArgs -> Readings]
         /\ \A k \in 0..MaxArgs :
              ReadingOf(args)[k] = IF k = 0 THEN FirstRead
                                   ELSE After(args, k, ReadingOf(args)[k-1])
<1>1. MaxArgs \in Nat /\ FirstRead \in Readings
  BY ArgsConstants DEF FirstRead, Readings
<1> DEFINE step == [p \in (1..MaxArgs) \X Readings |-> After(args, p[1], p[2])]
<1>2. step \in [(1..MaxArgs) \X Readings -> Readings]
  BY AfterTyped
<1>3. \A k \in 1..MaxArgs : \A before \in Readings :
        step[<<k, before>>] = After(args, k, before)
  OBVIOUS
<1> HIDE DEF step
<1>4. PICK f \in [0..MaxArgs -> Readings] : Recursive(f, FirstRead, MaxArgs, step)
  BY <1>1, <1>2, Recursion
<1>5. ASSUME NEW k \in 0..MaxArgs
      PROVE  f[k] = IF k = 0 THEN FirstRead ELSE After(args, k, f[k-1])
  <2>1. CASE k = 0
    BY <2>1, <1>4 DEF Recursive
  <2>2. CASE k # 0
    <3>1. k \in 1..MaxArgs /\ k - 1 \in 0..MaxArgs
      BY <1>1, <2>2
    <3>2. f[k] = step[<<k, f[k-1]>>] /\ f[k-1] \in Readings
      BY <1>4, <3>1 DEF Recursive
    <3> QED
      BY <1>3, <2>2, <3>1, <3>2
  <2> QED
    BY <2>1, <2>2
<1>6. f = [k \in 0..MaxArgs |-> f[k]]
  BY <1>4
<1>7. IsReading(f, args)
  BY <1>5, <1>6 DEF IsReading
<1>8. IsReading(ReadingOf(args), args)
  BY <1>7 DEF ReadingOf
<1> DEFINE g == ReadingOf(args)
<1>9. g = [k \in 0..MaxArgs |-> IF k = 0 THEN FirstRead ELSE After(args, k, g[k-1])]
  BY <1>8 DEF IsReading
<1> HIDE DEF g
<1>10. \A k \in 0..MaxArgs : g[k] = IF k = 0 THEN FirstRead ELSE After(args, k, g[k-1])
  BY <1>9
<1>11. \A k \in Nat : k \in {n \in Nat : n <= MaxArgs => g[n] \in Readings}
  <2> DEFINE P == {n \in Nat : n <= MaxArgs => g[n] \in Readings}
  <2>1. 0 \in P
    BY <1>1, <1>10
  <2>2. ASSUME NEW n \in Nat, n \in P PROVE n + 1 \in P
    <3> SUFFICES ASSUME n + 1 <= MaxArgs PROVE g[n+1] \in Readings
      OBVIOUS
    <3>1. n + 1 \in 0..MaxArgs /\ n + 1 # 0 /\ (n + 1) - 1 = n /\ n <= MaxArgs
      BY <1>1
    <3>2. g[n+1] = After(args, n + 1, g[n]) /\ g[n] \in Readings
      BY <1>10, <2>2, <3>1
    <3> QED
      BY <3>2, AfterTyped
  <2>3. 0 \in P /\ (\A n \in Nat : n \in P => n + 1 \in P)
    BY <2>1, <2>2
  <2> HIDE DEF P
  <2>4. \A n \in Nat : n \in P
    BY <2>3, SetInduction
  <2> QED
    BY <2>4 DEF P
<1>12. g \in [0..MaxArgs -> Readings]
  <2>1. \A k \in 0..MaxArgs : g[k] \in Readings
    BY <1>1, <1>11
  <2> QED
    BY <1>9, <2>1
<1> QED
  BY <1>10, <1>12 DEF g

\* The first element is read with the root, and what follows an element that is read is
\* its value, or read with the bag it leads to; what follows a value is read.
LEMMA ReadsOn ==
  ASSUME TypesInv, NEW k \in 1..Len(argv)
  PROVE  /\ k = 1 => Reading[k] = FirstRead
         /\ Reading[k] \in Readings
         /\ k + 1 \in 1..Len(argv) =>
              /\ Reading[k].value => /\ Reading[k+1].bag = Reading[k].bag
                                     /\ ~Reading[k+1].value
              /\ ~Reading[k].value =>
                   /\ Reading[k+1].value <=> WantsValue(argv[k], Reading[k].bag)
                   /\ argv[k].kind # "word" => Reading[k+1].bag = Reading[k].bag
                   /\ argv[k].kind = "word" =>
                        LET entered == Chosen(argv[k].word, Reading[k].bag)
                        IN  entered # <<>> => Reading[k+1].bag = entered[1].subs
<1>1. Len(argv) \in Nat /\ Len(argv) <= MaxArgs /\ MaxArgs \in Nat /\ k \in Nat
  BY ArgsConstants DEF TypesInv
<1>2. k \in 0..MaxArgs /\ k - 1 \in 0..MaxArgs /\ k # 0 /\ 0 \in 0..MaxArgs
  BY <1>1
<1>3. /\ Reading \in [0..MaxArgs -> Readings]
      /\ \A n \in 0..MaxArgs :
           Reading[n] = IF n = 0 THEN FirstRead ELSE After(argv, n, Reading[n-1])
  BY ReadingIs, ReadingOfIs
<1>4. Reading[k] = After(argv, k, Reading[k-1]) /\ Reading[k] \in Readings
  BY <1>2, <1>3
<1>5. ASSUME k = 1 PROVE Reading[k] = FirstRead
  <2>1. Reading[0] = FirstRead
    BY <1>2, <1>3
  <2>2. Reading[1] = After(argv, 1, FirstRead)
    BY <1>4, <1>5, <2>1
  <2>3. ~(1 > 1)
    OBVIOUS
  <2> QED
    BY <1>5, <2>2, <2>3 DEF After, FirstRead
<1>6. ASSUME k + 1 \in 1..Len(argv)
      PROVE  /\ Reading[k].value => /\ Reading[k+1].bag = Reading[k].bag
                                    /\ ~Reading[k+1].value
             /\ ~Reading[k].value =>
                  /\ Reading[k+1].value <=> WantsValue(argv[k], Reading[k].bag)
                  /\ argv[k].kind # "word" => Reading[k+1].bag = Reading[k].bag
                  /\ argv[k].kind = "word" =>
                       LET entered == Chosen(argv[k].word, Reading[k].bag)
                       IN  entered # <<>> => Reading[k+1].bag = entered[1].subs
  <2>1. k + 1 \in 0..MaxArgs /\ k + 1 # 0 /\ (k + 1) - 1 = k /\ k + 1 > 1
    BY <1>1, <1>6
  <2>2. Reading[k+1] = After(argv, k + 1, Reading[k])
    BY <1>3, <2>1
  <2> DEFINE old == Reading[k]
             entered == IF ~old.value /\ argv[k].kind = "word"
                        THEN Chosen(argv[k].word, old.bag) ELSE <<>>
  <2>3. Reading[k+1] = [bag |-> IF entered = <<>> THEN old.bag ELSE entered[1].subs,
                        value |-> ~old.value /\ WantsValue(argv[k], old.bag)]
    BY <2>1, <2>2 DEF After
  <2>4. Reading[k+1].bag = IF entered = <<>> THEN old.bag ELSE entered[1].subs
    BY <2>3
  <2>5. Reading[k+1].value <=> ~old.value /\ WantsValue(argv[k], old.bag)
    <3> DEFINE w == ~old.value /\ WantsValue(argv[k], old.bag)
    <3>1. w \in BOOLEAN
      OBVIOUS
    <3>2. Reading[k+1].value = w
      BY <2>3
    <3> HIDE DEF w
    <3>3. Reading[k+1].value <=> w
      BY <3>1, <3>2
    <3> QED
      BY <3>3 DEF w
  <2> HIDE DEF old
  <2>6. CASE old.value
    <3>1. entered = <<>>
      BY <2>6
    <3> QED
      BY <2>4, <2>5, <2>6, <3>1 DEF old
  <2>7. CASE ~old.value
    <3>1. Reading[k+1].value <=> WantsValue(argv[k], old.bag)
      BY <2>5, <2>7
    <3>2. argv[k].kind # "word" => entered = <<>>
      OBVIOUS
    <3>3. argv[k].kind = "word" => entered = Chosen(argv[k].word, old.bag)
      BY <2>7
    <3> HIDE DEF entered
    <3> QED
      BY <2>4, <2>7, <3>1, <3>2, <3>3 DEF old
  <2> QED
    BY <2>6, <2>7
<1> QED
  BY <1>4, <1>5, <1>6

-----------------------------------------------------------------------------
(* The cursor is where an element is to be read, and how the call ends.    *)

\* What argv means depends on nothing else.
LEMMA SameMeaning ==
  ASSUME UNCHANGED inputVars
  PROVE  /\ Reading' = Reading /\ Elements' = Elements /\ Stops' = Stops
         /\ \A k : About(k)' = About(k) /\ (AsksHelp(k)' <=> AsksHelp(k))
<1>1. argv' = argv /\ do_not_panic' = do_not_panic
  BY DEF inputVars
<1>2. Reading' = Reading
  <2>1. Reading' = ReadingOf(argv')
    BY DEF Reading, ReadingOf, IsReading, After, WantsValue, FirstRead
  <2> QED
    BY <1>1, <2>1, ReadingIs
<1>3. Elements' = Elements
  BY <1>1, <1>2 DEF Elements
<1>4. \A k : About(k)' = About(k) /\ (AsksHelp(k)' <=> AsksHelp(k))
  BY <1>1, <1>2 DEF About, AsksHelp
<1>5. \A k : (IsUnknown(k)' <=> IsUnknown(k)) /\ (IsIncomplete(k)' <=> IsIncomplete(k))
  BY <1>1, <1>2, <1>4 DEF IsUnknown, IsIncomplete
<1>6. Stops' = Stops
  BY <1>1, <1>3, <1>4, <1>5 DEF Stops
<1> QED
  BY <1>2, <1>3, <1>4, <1>6

\* The element at the cursor is read as an option, with the bag in use, and none before it
\* stops the reading: so where the cursor is left tells how the call ended.
ReadInv ==
  /\ arg_cursor <= Len(argv) => Reading[arg_cursor] = [bag |-> arguments, value |-> FALSE]
  /\ \A k \in Stops : arg_cursor <= k
  /\ pc \in {"exit0", "exit1"} => /\ arg_cursor \in Stops
                                  /\ pc = "exit0" <=> AsksHelp(arg_cursor)
  /\ pc \in {"returned", "asked", "greeted"} => arg_cursor = argc

\* The element at the cursor is read with the bag in use.
LEMMA AtElement ==
  ASSUME TypesInv, ReadInv, NEW kind, Parsing(kind)
  PROVE  /\ arg_cursor \in Elements /\ Reading[arg_cursor].bag = arguments
         /\ ~Reading[arg_cursor].value
<1>1. arg_cursor \in 1..Len(argv) /\ Len(argv) \in Nat
  BY ElementRead
<1>2. Reading[arg_cursor] = [bag |-> arguments, value |-> FALSE]
  BY <1>1 DEF ReadInv
<1>3. Reading[arg_cursor].bag = arguments
  BY <1>2
<1>4. ~Reading[arg_cursor].value
  BY <1>2
<1> QED
  BY <1>1, <1>3, <1>4 DEF Elements

\* What a long option there is.
LEMMA LongElement ==
  ASSUME TypesInv, ReadInv, Parsing("long")
  PROVE  LET c == arg_cursor
         IN  /\ c \in Elements /\ About(c) = ToSet(Named)
             /\ AsksHelp(c) <=> IsHelp
             /\ IsUnknown(c) <=> Named = <<>>
             /\ IsIncomplete(c) <=> TakesValue(Named) /\ Token.inline = Null /\ c = argc - 1
             /\ c \in Stops <=> IsHelp \/ IsIncomplete(c) \/ (Named = <<>> /\ ~do_not_panic)
<1> DEFINE c == arg_cursor
<1>1. c \in Elements /\ Reading[c].bag = arguments
  BY AtElement
<1>2. /\ Token = argv[c] /\ Token.kind = "long" /\ arguments \in DOMAIN Bags
      /\ argc = Len(argv) + 1 /\ Len(argv) \in Nat /\ c \in Nat
  BY ElementRead
<1>3. About(c) = ToSet(Named)
  BY <1>1, <1>2 DEF About, Named
<1>4. AsksHelp(c) <=> IsHelp
  BY <1>2 DEF AsksHelp, IsHelp
<1>5. About(c) = {} <=> Named = <<>>
  <2>1. CASE Named = <<>>
    BY <1>3, <2>1, OneElement
  <2>2. CASE Named # <<>>
    <3>1. ToSet(Named) = {Named[1]}
      BY <1>2, <2>2, NamedByIs DEF Named
    <3> QED
      BY <1>3, <2>2, <3>1
  <2> QED
    BY <2>1, <2>2
<1>6. IsUnknown(c) <=> Named = <<>>
  BY <1>2, <1>5 DEF IsUnknown
<1>7. (\E a \in About(c) : a.tag \in {"STRING", "INT"}) <=> TakesValue(Named)
  <2>1. Named # <<>> => ToSet(Named) = {Named[1]}
    BY <1>2, NamedByIs DEF Named
  <2> QED
    BY <1>3, <1>5, <2>1 DEF TakesValue
<1>8. IsIncomplete(c) <=> TakesValue(Named) /\ Token.inline = Null /\ c = argc - 1
  <2>1. c = Len(argv) <=> c = argc - 1
    BY <1>2
  <2> QED
    BY <1>2, <1>7, <2>1 DEF IsIncomplete
<1>9. c \in Stops <=> IsHelp \/ IsIncomplete(c) \/ (Named = <<>> /\ ~do_not_panic)
  BY <1>1, <1>4, <1>6 DEF Stops
<1> QED
  BY <1>1, <1>3, <1>4, <1>6, <1>8, <1>9

\* What letters there are.
LEMMA ShortElement ==
  ASSUME TypesInv, ReadInv, Parsing("short")
  PROVE  LET c == arg_cursor
             valued == \E k \in 1..Len(Letters) : TakesValue(Found(k))
         IN  /\ c \in Elements
             /\ About(c) = UNION {ToSet(Found(k)) : k \in 1..Len(Letters)}
             /\ AsksHelp(c) <=> Contains(Letters, "h")
             /\ IsUnknown(c) <=> \E k \in 1..Len(Letters) : Found(k) = <<>>
             /\ IsIncomplete(c) <=> valued /\ (Len(Letters) > 1 \/ c = argc - 1)
             /\ c \in Stops <=> \/ Contains(Letters, "h") \/ IsIncomplete(c)
                                \/ ~do_not_panic /\ \E k \in 1..Len(Letters) : Found(k) = <<>>
<1> DEFINE c == arg_cursor
           valued == \E k \in 1..Len(Letters) : TakesValue(Found(k))
<1>1. c \in Elements /\ Reading[c].bag = arguments
  BY AtElement
<1>2. /\ Token = argv[c] /\ Token.kind = "short" /\ arguments \in DOMAIN Bags
      /\ argc = Len(argv) + 1 /\ Len(argv) \in Nat /\ c \in Nat
  BY ElementRead
<1>3. About(c) = UNION {ToSet(Found(k)) : k \in 1..Len(Letters)}
  BY <1>1, <1>2 DEF About, Found, Letters
<1>4. AsksHelp(c) <=> Contains(Letters, "h")
  BY <1>2 DEF AsksHelp, Letters
<1>5. IsUnknown(c) <=> \E k \in 1..Len(Letters) : Found(k) = <<>>
  BY <1>1, <1>2 DEF IsUnknown, Found, Letters
<1>6. (\E a \in About(c) : a.tag \in {"STRING", "INT"}) <=> valued
  <2>1. \A k \in 1..Len(Letters) : Found(k) # <<>> => ToSet(Found(k)) = {Found(k)[1]}
    BY <1>2, LetterOfIs DEF Found
  <2>2. \A k \in 1..Len(Letters) : Found(k) = <<>> => ToSet(Found(k)) = {}
    BY OneElement
  <2>3. ASSUME NEW a \in About(c), a.tag \in {"STRING", "INT"} PROVE valued
    <3>1. PICK k \in 1..Len(Letters) : a \in ToSet(Found(k))
      BY <1>3
    <3>2. Found(k) # <<>> /\ a = Found(k)[1]
      BY <2>1, <2>2, <3>1
    <3> QED
      BY <2>3, <3>2 DEF TakesValue
  <2>4. ASSUME NEW k \in 1..Len(Letters), TakesValue(Found(k))
        PROVE  \E a \in About(c) : a.tag \in {"STRING", "INT"}
    <3>1. Found(k) # <<>> /\ Found(k)[1].tag \in {"STRING", "INT"}
      BY <2>4 DEF TakesValue
    <3>2. Found(k)[1] \in About(c)
      BY <1>3, <2>1, <3>1
    <3> QED
      BY <3>1, <3>2
  <2> QED
    BY <2>3, <2>4
<1>7. IsIncomplete(c) <=> valued /\ (Len(Letters) > 1 \/ c = argc - 1)
  <2>1. c = Len(argv) <=> c = argc - 1
    BY <1>2
  <2> HIDE DEF valued
  <2> QED
    BY <1>2, <1>6, <2>1 DEF IsIncomplete, Letters
<1>8. c \in Stops <=> \/ Contains(Letters, "h") \/ IsIncomplete(c)
                      \/ ~do_not_panic /\ \E k \in 1..Len(Letters) : Found(k) = <<>>
  BY <1>1, <1>4, <1>5 DEF Stops
<1> QED
  BY <1>1, <1>3, <1>4, <1>5, <1>7, <1>8

\* What a word there is.
LEMMA WordElement ==
  ASSUME TypesInv, ReadInv, Parsing("word")
  PROVE  LET c == arg_cursor
         IN  /\ c \in Elements /\ About(c) = {}
             /\ ~AsksHelp(c)
             /\ c \in Stops <=> Chosen(Token.word, arguments) = <<>>
<1> DEFINE c == arg_cursor
<1>1. c \in Elements /\ Reading[c].bag = arguments
  BY AtElement
<1>2. Token = argv[c] /\ Token.kind = "word"
  BY ElementRead
<1>3. About(c) = {}
  BY <1>2 DEF About
<1>4. ~AsksHelp(c) /\ ~IsUnknown(c)
  BY <1>2 DEF AsksHelp, IsUnknown
<1>5. IsIncomplete(c) <=> Chosen(Token.word, arguments) = <<>>
  BY <1>1, <1>2 DEF IsIncomplete
<1> QED
  BY <1>1, <1>3, <1>4, <1>5 DEF Stops

\* senargs_parse exits at the first element that stops it, and with 0 only for help.
LEMMA ExitStops ==
  ASSUME TypesInv, ReadInv, Steps, pc = "parse", pc' \in {"exit0", "exit1"}
  PROVE  arg_cursor \in Stops /\ (pc' = "exit0" <=> AsksHelp(arg_cursor))
<1>1. CASE LongHelp
  <2>1. Parsing("long") /\ IsHelp /\ pc' = "exit0"
    BY <1>1 DEF LongHelp, Exit
  <2> QED
    BY <2>1, LongElement
<1>2. CASE LongNoValue
  <2>1. /\ Parsing("long") /\ ~IsHelp /\ pc' = "exit1"
        /\ TakesValue(Named) /\ Token.inline = Null /\ arg_cursor = argc - 1
    BY <1>2 DEF LongNoValue, Exit
  <2> QED
    BY <2>1, LongElement
<1>3. CASE LongUnknown
  <2>1. /\ Parsing("long") /\ ~IsHelp /\ pc' = "exit1" /\ Named = <<>> /\ ~do_not_panic
    BY <1>3 DEF LongUnknown, Exit, vars
  <2> QED
    BY <2>1, LongElement
<1>4. CASE ShortHelp
  <2>1. Parsing("short") /\ Contains(Letters, "h") /\ pc' = "exit0"
    BY <1>4 DEF ShortHelp, Exit
  <2> QED
    BY <2>1, ShortElement
<1>5. CASE ShortNoValue
  <2>1. /\ Parsing("short") /\ ~Contains(Letters, "h") /\ pc' = "exit1"
        /\ \E k \in 1..Len(Letters) : TakesValue(Found(k))
        /\ Len(Letters) > 1 \/ arg_cursor = argc - 1
    BY <1>5 DEF ShortNoValue, Exit
  <2> QED
    BY <2>1, ShortElement
<1>6. CASE UnknownLetters
  <2>1. /\ Parsing("short") /\ ~Contains(Letters, "h") /\ pc' = "exit1"
        /\ ~do_not_panic /\ \E k \in 1..Len(Letters) : Found(k) = <<>>
    BY <1>6 DEF UnknownLetters, KnownLetters, ShortFlags
  <2> QED
    BY <2>1, ShortElement
<1>7. CASE UnknownSubcommand
  <2>1. Parsing("word") /\ Chosen(Token.word, arguments) = <<>> /\ pc' = "exit1"
    BY <1>7 DEF UnknownSubcommand, Exit
  <2> QED
    BY <2>1, WordElement
<1>8. CASE Advances
  <2>1. pc' = pc
    BY <1>8 DEF Advances, LongFlag, LongValue, LongInline, ShortValue, KnownFlags, KnownLetters,
                ShortFlags, Subcommand
  <2> QED
    BY <2>1
<1>9. CASE Start \/ ShortNone \/ PushCrashes \/ Return \/ CallerStep \/ UNCHANGED vars
  BY <1>9 DEF Start, ShortNone, PushCrashes, Return, CallerStep, vars
<1>10. ShortFlags => UnknownLetters \/ KnownFlags
  BY DEF UnknownLetters, KnownFlags
<1> QED
  BY <1>1, <1>2, <1>3, <1>4, <1>5, <1>6, <1>7, <1>8, <1>9, <1>10
     DEF Steps, ParseStep, Advances

\* The cursor moves behind an element that stops nothing, and behind its value.
Moved ==
  /\ arg_cursor \in Elements /\ arg_cursor \notin Stops
  /\ UNCHANGED <<pc, inputVars>>
  /\ \/ arg_cursor' = arg_cursor + 1
     \/ arg_cursor' = arg_cursor + 2 /\ arg_cursor + 1 \notin Elements
  /\ arg_cursor' <= Len(argv) =>
       Reading[arg_cursor'] = [bag |-> arguments', value |-> FALSE]

\* Behind an option without a value,
LEMMA MovesOne ==
  ASSUME TypesInv, ReadInv, NEW kind, Parsing(kind), arg_cursor \notin Stops,
         UNCHANGED <<pc, inputVars>>, arg_cursor' = arg_cursor + 1,
         ~WantsValue(Token, arguments),
         IF kind = "word"
         THEN LET entered == Chosen(Token.word, arguments)
              IN  entered # <<>> /\ arguments' = entered[1].subs
         ELSE arguments' = arguments
  PROVE  Moved
<1> DEFINE c == arg_cursor
<1>1. c \in Elements /\ Reading[c].bag = arguments /\ ~Reading[c].value
  BY AtElement
<1>2. c \in 1..Len(argv) /\ Token = argv[c] /\ Token.kind = kind /\ Len(argv) \in Nat
  BY ElementRead
<1>3. ASSUME c + 1 <= Len(argv) PROVE Reading[c+1] = [bag |-> arguments', value |-> FALSE]
  <2>1. c + 1 \in 1..Len(argv)
    BY <1>2, <1>3
  <2>2. ~Reading[c+1].value
    BY <1>1, <1>2, <2>1, ReadsOn
  <2>3. Reading[c+1].bag = arguments'
    <3>1. CASE kind = "word"
      BY <1>1, <1>2, <2>1, <3>1, ReadsOn
    <3>2. CASE kind # "word"
      BY <1>1, <1>2, <2>1, <3>2, ReadsOn
    <3> QED
      BY <3>1, <3>2
  <2>4. Reading[c+1] \in Readings
    BY <2>1, ReadsOn
  <2> DEFINE r == Reading[c+1]
  <2>5. r \in [bag : DOMAIN Bags, value : BOOLEAN]
    BY <2>4 DEF Readings
  <2>6. ~r.value /\ r.bag = arguments'
    BY <2>2, <2>3
  <2> HIDE DEF r
  <2>7. r.value = FALSE
    BY <2>5, <2>6
  <2>8. r = [bag |-> arguments', value |-> FALSE]
    BY <2>5, <2>6, <2>7
  <2> QED
    BY <2>8 DEF r
<1> QED
  BY <1>1, <1>3 DEF Moved

\* and behind one with its value.
LEMMA MovesTwo ==
  ASSUME TypesInv, ReadInv, NEW kind, Parsing(kind), kind # "word", arg_cursor \notin Stops,
         UNCHANGED <<pc, inputVars>>, arg_cursor' = arg_cursor + 2,
         WantsValue(Token, arguments), arg_cursor # argc - 1, arguments' = arguments
  PROVE  Moved
<1> DEFINE c == arg_cursor
<1>1. c \in Elements /\ Reading[c].bag = arguments /\ ~Reading[c].value
  BY AtElement
<1>2. /\ c \in 1..Len(argv) /\ Token = argv[c] /\ Token.kind = kind /\ Len(argv) \in Nat
      /\ c + 1 \in 1..Len(argv) /\ c \in Nat
  BY ElementRead
<1>3. Reading[c+1].value /\ Reading[c+1].bag = arguments
  BY <1>1, <1>2, ReadsOn
<1>4. c + 1 \notin Elements
  BY <1>3 DEF Elements
<1>5. ASSUME c + 2 <= Len(argv) PROVE Reading[c+2] = [bag |-> arguments', value |-> FALSE]
  <2>1. c + 2 \in 1..Len(argv) /\ (c + 1) + 1 = c + 2
    BY <1>2, <1>5
  <2>2. ~Reading[c+2].value /\ Reading[c+2].bag = arguments'
    BY <1>2, <1>3, <2>1, ReadsOn
  <2>3. Reading[c+2] \in Readings
    BY <2>1, ReadsOn
  <2> DEFINE r == Reading[c+2]
  <2>4. r \in [bag : DOMAIN Bags, value : BOOLEAN]
    BY <2>3 DEF Readings
  <2>5. ~r.value /\ r.bag = arguments'
    BY <2>2
  <2> HIDE DEF r
  <2>6. r.value = FALSE
    BY <2>4, <2>5
  <2>7. r = [bag |-> arguments', value |-> FALSE]
    BY <2>4, <2>5, <2>6
  <2> QED
    BY <2>7 DEF r
<1> QED
  BY <1>1, <1>4, <1>5 DEF Moved

\* So does every step that stores something.
LEMMA AdvancesMove ==
  ASSUME TypesInv, ReadInv, Advances
  PROVE  Moved
<1>1. CASE LongFlag
  <2>1. /\ Parsing("long") /\ ~IsHelp /\ Named # <<>> /\ ~TakesValue(Named)
        /\ UNCHANGED <<pc, inputVars>> /\ arg_cursor' = arg_cursor + 1 /\ arguments' = arguments
    BY <1>1 DEF LongFlag
  <2>2. arg_cursor \notin Stops
    BY <2>1, LongElement
  <2>3. Token.kind = "long"
    BY <2>1, ElementRead
  <2>4. ~WantsValue(Token, arguments)
    BY <2>1, <2>3 DEF WantsValue, Named
  <2> QED
    BY <2>1, <2>2, <2>4, MovesOne
<1>2. CASE LongValue
  <2>1. /\ Parsing("long") /\ ~IsHelp /\ TakesValue(Named) /\ Token.inline = Null
        /\ arg_cursor # argc - 1 /\ UNCHANGED <<pc, inputVars>>
        /\ arg_cursor' = arg_cursor + 2 /\ arguments' = arguments
    BY <1>2 DEF LongValue
  <2>2. arg_cursor \notin Stops
    BY <2>1, LongElement DEF TakesValue
  <2>3. Token.kind = "long"
    BY <2>1, ElementRead
  <2>4. WantsValue(Token, arguments)
    BY <2>1, <2>3 DEF WantsValue, Named
  <2> QED
    BY <2>1, <2>2, <2>4, MovesTwo
<1>3. CASE LongInline
  <2>1. /\ Parsing("long") /\ ~IsHelp /\ TakesValue(Named) /\ Token.inline # Null
        /\ UNCHANGED <<pc, inputVars>> /\ arg_cursor' = arg_cursor + 1 /\ arguments' = arguments
    BY <1>3 DEF LongInline
  <2>2. arg_cursor \notin Stops
    BY <2>1, LongElement DEF TakesValue
  <2>3. Token.kind = "long"
    BY <2>1, ElementRead
  <2>4. ~WantsValue(Token, arguments)
    BY <2>1, <2>3 DEF WantsValue
  <2> QED
    BY <2>1, <2>2, <2>4, MovesOne
<1>4. CASE ShortValue
  <2>1. /\ Parsing("short") /\ ~Contains(Letters, "h")
        /\ Len(Letters) = 1 /\ TakesValue(Found(1)) /\ arg_cursor # argc - 1
        /\ UNCHANGED <<pc, inputVars>> /\ arg_cursor' = arg_cursor + 2 /\ arguments' = arguments
    BY <1>4 DEF ShortValue
  <2>2. arg_cursor \notin Stops
    <3>1. \A k \in 1..Len(Letters) : Found(k) # <<>>
      BY <2>1 DEF TakesValue
    <3>2. ~(Len(Letters) > 1)
      BY <2>1
    <3> QED
      BY <2>1, <3>1, <3>2, ShortElement
  <2>3. Token.kind = "short"
    BY <2>1, ElementRead
  <2>4. WantsValue(Token, arguments)
    BY <2>1, <2>3 DEF WantsValue, Found, Letters
  <2> QED
    BY <2>1, <2>2, <2>4, MovesTwo
<1>5. CASE KnownFlags
  <2>1. /\ Parsing("short") /\ ~Contains(Letters, "h") /\ Letters # <<>>
        /\ ~\E k \in 1..Len(Letters) : TakesValue(Found(k))
        /\ do_not_panic \/ \A k \in 1..Len(Letters) : Found(k) # <<>>
        /\ UNCHANGED <<pc, inputVars>> /\ arg_cursor' = arg_cursor + 1 /\ arguments' = arguments
    BY <1>5 DEF KnownFlags, KnownLetters, ShortFlags
  <2>2. arg_cursor \notin Stops
    BY <2>1, ShortElement
  <2>3. Token.kind = "short"
    BY <2>1, ElementRead
  <2>4. ~WantsValue(Token, arguments)
    <3>1. Len(Letters) = 1 => 1 \in 1..Len(Letters)
      OBVIOUS
    <3> QED
      BY <2>1, <2>3, <3>1 DEF WantsValue, Found, Letters
  <2> QED
    BY <2>1, <2>2, <2>4, MovesOne
<1>6. CASE Subcommand
  <2>1. /\ Parsing("word") /\ Chosen(Token.word, arguments) # <<>>
        /\ arguments' = Chosen(Token.word, arguments)[1].subs
        /\ UNCHANGED <<pc, inputVars>> /\ arg_cursor' = arg_cursor + 1
    BY <1>6 DEF Subcommand
  <2>2. arg_cursor \notin Stops
    BY <2>1, WordElement
  <2>3. Token.kind = "word"
    BY <2>1, ElementRead
  <2>4. ~WantsValue(Token, arguments)
    BY <2>3 DEF WantsValue
  <2> QED
    BY <2>1, <2>2, <2>4, MovesOne
<1> QED
  BY <1>1, <1>2, <1>3, <1>4, <1>5, <1>6 DEF Advances

\* Elements are numbers.
LEMMA ElementsAre ==
  ASSUME TypesInv
  PROVE  /\ Elements \subseteq 1..Len(argv) /\ Stops \subseteq Elements
         /\ Elements \subseteq Nat /\ arg_cursor \in Nat
         /\ Len(argv) \in Nat /\ argc = Len(argv) + 1
  BY DEF Elements, Stops, TypesInv, TypeOK, argc

\* Every step keeps the cursor at an element to be read, none that stops before it.
LEMMA ReadStep ==
  ASSUME TypesInv, ReadInv, Steps
  PROVE  ReadInv'
<1>1. CASE Quiet
  <2>1. /\ UNCHANGED inputVars /\ arg_cursor' = arg_cursor /\ arguments' = arguments
        /\ argv' = argv /\ argc' = argc
    BY <1>1 DEF Quiet, inputVars, stateVars, argc
  <2>2. Reading' = Reading /\ Stops' = Stops /\ (AsksHelp(arg_cursor)' <=> AsksHelp(arg_cursor))
    BY <2>1, SameMeaning
  <2>3. pc' \in {"exit0", "exit1"} => /\ arg_cursor \in Stops
                                      /\ pc' = "exit0" <=> AsksHelp(arg_cursor)
    <3>1. CASE pc = "parse"
      BY <3>1, ExitStops
    <3>2. CASE pc # "parse" /\ pc' = pc
      BY <3>2 DEF ReadInv
    <3>3. CASE pc # "parse" /\ pc' # pc
      BY <1>1, <3>3 DEF Quiet
    <3> QED
      BY <3>1, <3>2, <3>3
  <2>4. pc' \in {"returned", "asked", "greeted"} => arg_cursor = argc
    <3>1. CASE pc = "parse" /\ pc' = "returned"
      <4>1. arg_cursor >= argc /\ arg_cursor \in 1..argc
        BY <1>1, <3>1 DEF Quiet, TypesInv, TypeOK
      <4> QED
        BY <4>1, ElementsAre
    <3>2. CASE ~(pc = "parse" /\ pc' = "returned")
      BY <1>1, <3>2 DEF Quiet, ReadInv
    <3> QED
      BY <3>1, <3>2
  <2> QED
    BY <2>1, <2>2, <2>3, <2>4 DEF ReadInv
<1>2. CASE Advances
  <2>1. Moved
    BY <1>2, AdvancesMove
  <2>2. pc = "parse"
    BY <1>2 DEF Advances, LongFlag, LongValue, LongInline, ShortValue, KnownFlags,
                ShortFlags, Subcommand, Parsing
  <2>3. UNCHANGED <<pc, inputVars>> /\ argv' = argv
    BY <2>1 DEF Moved, inputVars
  <2>4. Reading' = Reading /\ Stops' = Stops
    BY <2>3, SameMeaning
  <2>5. \A k \in Stops : arg_cursor' <= k
    <3> SUFFICES ASSUME NEW k \in Stops PROVE arg_cursor' <= k
      OBVIOUS
    <3>1. arg_cursor <= k /\ k # arg_cursor /\ k \in Nat /\ arg_cursor \in Nat /\ k \in Elements
      BY <2>1, ElementsAre DEF ReadInv, Moved
    <3>2. k >= arg_cursor + 1
      BY <3>1
    <3>3. CASE arg_cursor' = arg_cursor + 1
      BY <3>1, <3>2, <3>3
    <3>4. CASE arg_cursor' = arg_cursor + 2 /\ arg_cursor + 1 \notin Elements
      <4>1. k # arg_cursor + 1
        BY <3>1, <3>4
      <4> QED
        BY <3>1, <3>2, <3>4, <4>1
    <3> QED
      BY <2>1, <3>3, <3>4 DEF Moved
  <2>6. arg_cursor' <= Len(argv) =>
          Reading[arg_cursor'] = [bag |-> arguments', value |-> FALSE]
    BY <2>1 DEF Moved
  <2> QED
    BY <2>2, <2>3, <2>4, <2>5, <2>6 DEF ReadInv
<1> QED
  BY <1>1, <1>2, QuietOrAdvances

\* The first element is one.
LEMMA InitRead ==
  ASSUME Init
  PROVE  ReadInv
<1>1. TypesInv
  BY InitTypes
<1>2. pc = "start" /\ arg_cursor = 1 /\ arguments = Root
  BY DEF Init
<1>3. Len(argv) \in Nat /\ Elements \subseteq 1..Len(argv) /\ Stops \subseteq Elements
  BY <1>1, ElementsAre
<1>4. \A k \in Stops : 1 <= k
  BY <1>3
<1>5. 1 <= Len(argv) => Reading[1] = [bag |-> Root, value |-> FALSE]
  <2>1. 1 <= Len(argv) => 1 \in 1..Len(argv)
    BY <1>3
  <2> QED
    BY <1>1, <2>1, ReadsOn DEF FirstRead
<1> QED
  BY <1>2, <1>4, <1>5 DEF ReadInv

-----------------------------------------------------------------------------
(* How senargs_parse ends.                                                 *)

\* The assert aborts only where an argument has no name.
ValidInv == pc = "aborted" => ~Valid

\* Only the assert aborts.
LEMMA ValidStep ==
  ASSUME ValidInv, Steps
  PROVE  ValidInv'
<1>1. CASE Quiet
  BY <1>1 DEF Quiet, ValidInv
<1>2. CASE Advances
  <2>1. pc' = pc
    BY <1>2 DEF Advances, LongFlag, LongValue, LongInline, ShortValue, KnownFlags, KnownLetters,
                ShortFlags, Subcommand
  <2> QED
    BY <2>1 DEF ValidInv
<1> QED
  BY <1>1, <1>2, QuietOrAdvances

\* The least of some numbers is the one that is not above any.
LEMMA LeastIs ==
  ASSUME NEW S \in SUBSET Nat, NEW n \in S, \A l \in S : n <= l
  PROVE  (CHOOSE k \in S : \A l \in S : k <= l) = n
<1> DEFINE first == CHOOSE k \in S : \A l \in S : k <= l
<1>1. first \in S /\ \A l \in S : first <= l
  OBVIOUS
<1>2. first <= n /\ n <= first /\ first \in Nat /\ n \in Nat
  BY <1>1
<1> HIDE DEF first
<1>3. first = n
  BY <1>2
<1> QED
  BY <1>3 DEF first

\* Where the cursor is left decides.
LEMMA OutcomeIs ==
  ASSUME TypesInv, ReadInv, ValidInv, Valid
  PROVE  OutcomeDeserved
<1> SUFFICES ASSUME Ended, pc # "crashed"
             PROVE  CASE Stops = {} -> pc = "returned"
                      [] OTHER -> LET first == CHOOSE k \in Stops : \A l \in Stops : k <= l
                                  IN  pc = IF AsksHelp(first) THEN "exit0" ELSE "exit1"
  BY DEF OutcomeDeserved
<1>1. pc \in {"returned", "exit0", "exit1"}
  BY DEF Ended, ValidInv
<1>2. /\ Stops \subseteq 1..Len(argv) /\ Stops \in SUBSET Nat /\ Len(argv) \in Nat
      /\ argc = Len(argv) + 1 /\ \A k \in Stops : arg_cursor <= k
  BY ElementsAre DEF ReadInv
<1>3. CASE pc = "returned"
  <2>1. arg_cursor = Len(argv) + 1
    BY <1>2, <1>3 DEF ReadInv
  <2>2. Stops = {}
    <3> SUFFICES ASSUME NEW k \in Stops PROVE FALSE
      OBVIOUS
    <3>1. k \in 1..Len(argv) /\ Len(argv) + 1 <= k
      BY <1>2, <2>1
    <3> QED
      BY <1>2, <3>1
  <2> QED
    BY <1>3, <2>2
<1>4. CASE pc \in {"exit0", "exit1"}
  <2>1. arg_cursor \in Stops /\ (pc = "exit0" <=> AsksHelp(arg_cursor))
    BY <1>4 DEF ReadInv
  <2>2. (CHOOSE k \in Stops : \A l \in Stops : k <= l) = arg_cursor
    BY <1>2, <2>1, LeastIs
  <2>3. pc = IF AsksHelp(arg_cursor) THEN "exit0" ELSE "exit1"
    BY <1>4, <2>1
  <2> QED
    BY <2>1, <2>2, <2>3
<1> QED
  BY <1>1, <1>3, <1>4

\* For arguments that pass the assert, senargs_parse returns, or exits with 0 or 1, as the
\* first element that stops it deserves: on any tree of arguments, and any command line.
THEOREM SenArgsOutcomeDeserved ==
  Valid => (Spec => []OutcomeDeserved) /\ (ProgramSpec => []OutcomeDeserved)
<1> SUFFICES ASSUME Valid
             PROVE  (Spec => []OutcomeDeserved) /\ (ProgramSpec => []OutcomeDeserved)
  OBVIOUS
<1>1. TypesInv /\ ReadInv /\ ValidInv => OutcomeDeserved
  BY OutcomeIs
<1>2. Init => TypesInv /\ ReadInv /\ ValidInv
  BY InitTypes, InitRead DEF ValidInv, Init
<1>3. TypesInv /\ ReadInv /\ ValidInv /\ [Next]_vars => TypesInv' /\ ReadInv' /\ ValidInv'
  BY TypesStep, ReadStep, ValidStep, StepsAre
<1>4. TypesInv /\ ReadInv /\ ValidInv /\ [ProgramNext]_programVars
        => TypesInv' /\ ReadInv' /\ ValidInv'
  BY TypesStep, ReadStep, ValidStep, StepsAre
<1>5. Spec => []OutcomeDeserved
  BY <1>1, <1>2, <1>3, PTL DEF Spec
<1>6. ProgramSpec => []OutcomeDeserved
  BY <1>1, <1>2, <1>4, PTL DEF ProgramSpec, ProgramInit
<1> QED
  BY <1>5, <1>6
-----------------------------------------------------------------------------
(* What is stored.                                                         *)

\* the value of the option that element k of args is
ValueAt(args, k) ==
  IF args[k].kind = "long" /\ args[k].inline # Null THEN Word(args[k].inline) ELSE args[k+1]

\* the value of the last of the elements at
LastValue(args, at) ==
  IF at = {} THEN Nothing ELSE ValueAt(args, CHOOSE k \in at : \A l \in at : l <= k)

\* the elements about a before the cursor
ReadFor(a) == {k \in Elements : k < arg_cursor /\ a \in About(k)}

\* So far every argument has what the elements before the cursor give it.
StoredInv ==
  \A a \in AllArguments :
    /\ a.tag = "FLAG" => (flags[a.id] <=> given[a.id] \/ ReadFor(a) # {})
    /\ a.tag = "STRING" => strings[a.id] = LastValue(argv, ReadFor(a))
    /\ a.tag = "INT" => ints[a.id] = Atoi(LastValue(argv, ReadFor(a)))

\* what the element at the cursor is about gets its value, and nothing else changes
Stores ==
  \A a \in AllArguments :
    /\ a.tag = "FLAG" => (flags'[a.id] <=> flags[a.id] \/ a \in About(arg_cursor))
    /\ a.tag = "STRING" =>
         strings'[a.id] = IF a \in About(arg_cursor) THEN ValueAt(argv, arg_cursor)
                                                     ELSE strings[a.id]
    /\ a.tag = "INT" =>
         ints'[a.id] = IF a \in About(arg_cursor) THEN Atoi(ValueAt(argv, arg_cursor))
                                                  ELSE ints[a.id]

\* The last of some elements and a later one is the later one.
LEMMA LastOfMore ==
  ASSUME NEW args, NEW at \in SUBSET Nat, NEW c \in Nat, \A k \in at : k < c
  PROVE  LastValue(args, at \cup {c}) = ValueAt(args, c)
<1> DEFINE more == at \cup {c}
           last == CHOOSE k \in more : \A l \in more : l <= k
<1>1. c \in more /\ (\A l \in more : l <= c) /\ more \subseteq Nat
  OBVIOUS
<1> HIDE DEF more
<1>2. last \in more /\ \A l \in more : l <= last
  BY <1>1
<1>3. last <= c /\ c <= last /\ last \in Nat
  BY <1>1, <1>2
<1> HIDE DEF last
<1>4. last = c
  BY <1>3
<1>5. more # {} /\ LastValue(args, more) = ValueAt(args, last)
  BY <1>1 DEF LastValue, last
<1> QED
  BY <1>4, <1>5 DEF more

\* assign_data stores a value where it belongs, and only there.
LEMMA Assigned ==
  ASSUME TypesInv, NEW n \in AllArguments, n.tag \in {"STRING", "INT"}, NEW value,
         assign_data(n, value), NEW a \in AllArguments
  PROVE  /\ a.tag = "STRING" => strings'[a.id] = IF a = n THEN value ELSE strings[a.id]
         /\ a.tag = "INT" => ints'[a.id] = IF a = n THEN Atoi(value) ELSE ints[a.id]
<1>1. DOMAIN strings = Ids("STRING") /\ DOMAIN ints = Ids("INT")
  BY DEF TypesInv, TypeOK
<1>2. a.id = n.id <=> a = n
  BY IdOfKind
<1>3. ASSUME a.tag = "STRING"
      PROVE  strings'[a.id] = IF a = n THEN value ELSE strings[a.id]
  <2>1. a.id \in DOMAIN strings
    BY <1>1, <1>3, IdOfKind
  <2>2. CASE n.tag = "STRING"
    <3>1. strings' = [strings EXCEPT ![n.id] = value]
      BY <2>2 DEF assign_data
    <3> QED
      BY <1>2, <2>1, <3>1
  <2>3. CASE n.tag = "INT"
    <3>1. strings' = strings /\ a # n
      BY <1>3, <2>3 DEF assign_data
    <3> QED
      BY <3>1
  <2> QED
    BY <2>2, <2>3
<1>4. ASSUME a.tag = "INT"
      PROVE  ints'[a.id] = IF a = n THEN Atoi(value) ELSE ints[a.id]
  <2>1. a.id \in DOMAIN ints
    BY <1>1, <1>4, IdOfKind
  <2>2. CASE n.tag = "INT"
    <3>1. ints' = [ints EXCEPT ![n.id] = Atoi(value)]
      BY <2>2 DEF assign_data
    <3> QED
      BY <1>2, <2>1, <3>1
  <2>3. CASE n.tag = "STRING"
    <3>1. ints' = ints /\ a # n
      BY <1>4, <2>3 DEF assign_data
    <3> QED
      BY <3>1
  <2> QED
    BY <2>2, <2>3
<1> QED
  BY <1>3, <1>4

\* An option with its value stores just that,
LEMMA ValueStores ==
  ASSUME TypesInv, NEW found, NEW bag \in DOMAIN Bags,
         \/ \E token : found = NamedBy(token, bag)
         \/ \E c : found = LetterOf(c, bag),
         TakesValue(found), About(arg_cursor) = ToSet(found), flags' = flags,
         assign_data(found[1], ValueAt(argv, arg_cursor))
  PROVE  Stores
<1> DEFINE n == found[1]
<1>1. found # <<>>
  BY DEF TakesValue
<1>2. n \in AllArguments /\ ToSet(found) = {n} /\ n.tag \in {"STRING", "INT"}
  BY <1>1, OptionRead
<1> HIDE DEF n
<1>3. \A a \in AllArguments : a \in About(arg_cursor) <=> a = n
  BY <1>2
<1>4. \A a \in AllArguments : a.tag = "FLAG" => a # n
  BY <1>2
<1>5. assign_data(n, ValueAt(argv, arg_cursor))
  BY DEF n
<1> QED
  BY <1>2, <1>3, <1>4, <1>5, Assigned DEF Stores

\* and so does every step that moves the cursor.
LEMMA AdvancesStore ==
  ASSUME TypesInv, ReadInv, Advances
  PROVE  Stores
<1> DEFINE c == arg_cursor
<1>1. arguments \in DOMAIN Bags /\ DOMAIN flags = Ids("FLAG") /\ flags \in [Ids("FLAG") -> BOOLEAN]
  BY DEF TypesInv, TypeOK
<1>2. CASE LongFlag
  <2>1. /\ Parsing("long") /\ ~IsHelp /\ Named # <<>> /\ ~TakesValue(Named)
        /\ flags' = [flags EXCEPT ![Named[1].id] = TRUE] /\ UNCHANGED <<strings, ints>>
    BY <1>2 DEF LongFlag
  <2>2. About(c) = ToSet(Named)
    BY <2>1, LongElement
  <2> DEFINE n == Named[1]
  <2>3. /\ n \in AllArguments /\ ToSet(Named) = {n}
        /\ TakesValue(Named) <=> n.tag \in {"STRING", "INT"}
        /\ n.tag \in {"FLAG", "STRING", "INT", "SUBCOMMAND"}
        /\ n.id \in Ids("FLAG") <=> n.tag = "FLAG"
    BY <1>1, <2>1, OptionRead DEF Named
  <2>4. n.tag # "SUBCOMMAND"
    BY <1>1, <2>1, NamedByIs DEF Named, Names
  <2>5. n.tag = "FLAG" /\ n.id \in DOMAIN flags
    BY <1>1, <2>1, <2>3, <2>4
  <2>6. flags' = [flags EXCEPT ![n.id] = TRUE]
    BY <2>1
  <2> HIDE DEF n
  <2>7. ASSUME NEW a \in AllArguments, a.tag = "FLAG"
        PROVE  flags'[a.id] <=> flags[a.id] \/ a \in About(c)
    <3>1. (a.id = n.id <=> a = n) /\ (a \in About(c) <=> a = n) /\ a.id \in DOMAIN flags
      BY <1>1, <2>2, <2>3, <2>7, IdOfKind
    <3>2. CASE a = n
      BY <2>5, <2>6, <3>1, <3>2
    <3>3. CASE a # n
      BY <2>6, <3>1, <3>3
    <3> QED
      BY <3>2, <3>3
  <2>8. \A a \in AllArguments : a.tag \in {"STRING", "INT"} => a \notin About(c)
    BY <2>2, <2>3, <2>5
  <2> QED
    BY <2>1, <2>7, <2>8 DEF Stores
<1>3. CASE LongValue
  <2>1. /\ Parsing("long") /\ TakesValue(Named) /\ Token.inline = Null
        /\ arg_cursor # argc - 1 /\ flags' = flags /\ assign_data(Named[1], Following)
    BY <1>3 DEF LongValue
  <2>2. About(c) = ToSet(Named)
    BY <2>1, LongElement
  <2>3. Following = ValueAt(argv, c)
    BY <2>1, ElementRead DEF ValueAt
  <2>4. \E token : Named = NamedBy(token, arguments)
    BY DEF Named
  <2> QED
    BY <1>1, <2>1, <2>2, <2>3, <2>4, ValueStores
<1>4. CASE LongInline
  <2>1. /\ Parsing("long") /\ TakesValue(Named) /\ Token.inline # Null
        /\ flags' = flags /\ assign_data(Named[1], Word(Token.inline))
    BY <1>4 DEF LongInline
  <2>2. About(c) = ToSet(Named)
    BY <2>1, LongElement
  <2>3. Word(Token.inline) = ValueAt(argv, c)
    BY <2>1, ElementRead DEF ValueAt
  <2>4. \E token : Named = NamedBy(token, arguments)
    BY DEF Named
  <2> QED
    BY <1>1, <2>1, <2>2, <2>3, <2>4, ValueStores
<1>5. CASE ShortValue
  <2>1. /\ Parsing("short") /\ Len(Letters) = 1 /\ TakesValue(Found(1))
        /\ arg_cursor # argc - 1 /\ flags' = flags /\ assign_data(Found(1)[1], Following)
    BY <1>5 DEF ShortValue
  <2>2. About(c) = ToSet(Found(1))
    <3>1. About(c) = UNION {ToSet(Found(k)) : k \in 1..Len(Letters)}
      BY <2>1, ShortElement
    <3>2. 1..Len(Letters) = {1}
      BY <2>1
    <3> QED
      BY <3>1, <3>2
  <2>3. Following = ValueAt(argv, c)
    BY <2>1, ElementRead DEF ValueAt
  <2>4. \E l : Found(1) = LetterOf(l, arguments)
    BY DEF Found
  <2> QED
    BY <1>1, <2>1, <2>2, <2>3, <2>4, ValueStores
<1>6. CASE KnownFlags
  <2>1. /\ Parsing("short") /\ ~\E k \in 1..Len(Letters) : TakesValue(Found(k))
        /\ flags' = [f \in DOMAIN flags |->
                       \/ flags[f]
                       \/ \E k \in 1..Len(Letters) : Found(k) # <<>> /\ Found(k)[1].id = f]
        /\ UNCHANGED <<strings, ints>>
    BY <1>6 DEF KnownFlags, KnownLetters, ShortFlags
  <2>2. About(c) = UNION {ToSet(Found(k)) : k \in 1..Len(Letters)}
    BY <2>1, ShortElement
  <2>3. ASSUME NEW k \in 1..Len(Letters), Found(k) # <<>>
        PROVE  /\ Found(k)[1] \in AllArguments /\ ToSet(Found(k)) = {Found(k)[1]}
               /\ Found(k)[1].tag \notin {"STRING", "INT"}
    BY <1>1, <2>1, <2>3, OptionRead DEF Found
  <2>4. \A k \in 1..Len(Letters) : Found(k) = <<>> => ToSet(Found(k)) = {}
    BY OneElement
  <2>5. ASSUME NEW a \in AllArguments
        PROVE  a \in About(c) <=>
                 \E k \in 1..Len(Letters) : Found(k) # <<>> /\ Found(k)[1].id = a.id
    <3>1. a \in About(c) <=> \E k \in 1..Len(Letters) : a \in ToSet(Found(k))
      BY <2>2
    <3>2. ASSUME NEW k \in 1..Len(Letters)
          PROVE  a \in ToSet(Found(k)) <=> Found(k) # <<>> /\ Found(k)[1].id = a.id
      <4>1. CASE Found(k) = <<>>
        BY <2>4, <4>1
      <4>2. CASE Found(k) # <<>>
        BY <2>3, <4>2, IdOfKind
      <4> QED
        BY <4>1, <4>2
    <3> QED
      BY <3>1, <3>2
  <2>6. ASSUME NEW a \in AllArguments, a.tag \in {"STRING", "INT"} PROVE a \notin About(c)
    BY <2>2, <2>3, <2>4, <2>6
  <2>7. ASSUME NEW a \in AllArguments, a.tag = "FLAG"
        PROVE  flags'[a.id] <=> flags[a.id] \/ a \in About(c)
    <3>1. a.id \in DOMAIN flags
      BY <1>1, <2>7, IdOfKind
    <3> DEFINE f == a.id
               known == \E k \in 1..Len(Letters) : Found(k) # <<>> /\ Found(k)[1].id = f
    <3>2. flags'[f] = (flags[f] \/ known)
      BY <2>1, <3>1
    <3>3. a \in About(c) <=> known
      BY <2>5
    <3>4. flags[f] \in BOOLEAN /\ known \in BOOLEAN
      BY <1>1, <3>1
    <3> HIDE DEF known
    <3>5. flags'[f] <=> flags[f] \/ known
      BY <3>2, <3>4
    <3> QED
      BY <3>3, <3>5
  <2> QED
    BY <2>1, <2>6, <2>7 DEF Stores
<1>7. CASE Subcommand
  <2>1. Parsing("word") /\ UNCHANGED <<flags, strings, ints>>
    BY <1>7 DEF Subcommand
  <2>2. About(c) = {}
    BY <2>1, WordElement
  <2> QED
    BY <2>1, <2>2 DEF Stores
<1> QED
  BY <1>2, <1>3, <1>4, <1>5, <1>6, <1>7 DEF Advances

\* The elements about an argument are those before, and perhaps the one just read.
LEMMA ReadForMoves ==
  ASSUME TypesInv, Moved, NEW a
  PROVE  ReadFor(a)' = IF a \in About(arg_cursor) THEN ReadFor(a) \cup {arg_cursor} ELSE ReadFor(a)
<1> DEFINE c == arg_cursor
<1>1. Elements' = Elements /\ \A k : About(k)' = About(k)
  BY SameMeaning DEF Moved
<1>2. Elements \subseteq Nat /\ c \in Nat /\ c \in Elements
  BY ElementsAre DEF Moved
<1>3. ASSUME NEW k \in Elements PROVE k < arg_cursor' <=> k < c \/ k = c
  <2>1. k \in Nat
    BY <1>2
  <2>2. CASE arg_cursor' = c + 1
    BY <1>2, <2>1, <2>2
  <2>3. CASE arg_cursor' = c + 2 /\ c + 1 \notin Elements
    <3>1. k # c + 1
      BY <2>3
    <3> QED
      BY <1>2, <2>1, <2>3, <3>1
  <2> QED
    BY <2>2, <2>3 DEF Moved
<1>4. ReadFor(a)' = {k \in Elements : k < arg_cursor' /\ a \in About(k)}
  BY <1>1 DEF ReadFor
<1>5. ReadFor(a)' = {k \in Elements : (k < c \/ k = c) /\ a \in About(k)}
  BY <1>3, <1>4
<1> QED
  BY <1>2, <1>5 DEF ReadFor

\* So what is stored stays what the elements read give.
LEMMA StoredStep ==
  ASSUME TypesInv, ReadInv, StoredInv, Steps
  PROVE  StoredInv'
<1>1. CASE Quiet
  <2>1. UNCHANGED <<inputVars, arg_cursor, flags, strings, ints, argv, given>>
    BY <1>1 DEF Quiet, inputVars, stateVars, valueVars
  <2>2. Elements' = Elements /\ \A k : About(k)' = About(k)
    BY <2>1, SameMeaning
  <2>3. \A a : ReadFor(a)' = ReadFor(a)
    BY <2>1, <2>2 DEF ReadFor
  <2> QED
    BY <2>1, <2>3 DEF StoredInv
<1>2. CASE Advances
  <2> DEFINE c == arg_cursor
  <2>1. Moved /\ Stores
    BY <1>2, AdvancesMove, AdvancesStore
  <2>2. argv' = argv /\ given' = given /\ c \in Nat
    BY <2>1, ElementsAre DEF Moved, inputVars
  <2>3. \A a : ReadFor(a) \subseteq Nat /\ \A k \in ReadFor(a) : k < c
    BY ElementsAre DEF ReadFor
  <2>4. ASSUME NEW a
        PROVE  /\ ReadFor(a)' # {} <=> ReadFor(a) # {} \/ a \in About(c)
               /\ LastValue(argv, ReadFor(a)') = IF a \in About(c) THEN ValueAt(argv, c)
                                                 ELSE LastValue(argv, ReadFor(a))
    <3>1. CASE a \in About(c)
      <4>1. ReadFor(a)' = ReadFor(a) \cup {c}
        BY <2>1, <3>1, ReadForMoves
      <4>2. LastValue(argv, ReadFor(a) \cup {c}) = ValueAt(argv, c)
        BY <2>2, <2>3, LastOfMore
      <4> QED
        BY <3>1, <4>1, <4>2
    <3>2. CASE a \notin About(c)
      BY <2>1, <3>2, ReadForMoves
    <3> QED
      BY <3>1, <3>2
  <2>5. ASSUME NEW a \in AllArguments
        PROVE  /\ a.tag = "FLAG" => (flags'[a.id] <=> given[a.id] \/ ReadFor(a)' # {})
               /\ a.tag = "STRING" => strings'[a.id] = LastValue(argv, ReadFor(a)')
               /\ a.tag = "INT" => ints'[a.id] = Atoi(LastValue(argv, ReadFor(a)'))
    <3>1. a.tag = "FLAG" => (flags'[a.id] <=> given[a.id] \/ ReadFor(a)' # {})
      BY <2>1, <2>4 DEF Stores, StoredInv
    <3>2. a.tag = "STRING" => strings'[a.id] = LastValue(argv, ReadFor(a)')
      BY <2>1, <2>4 DEF Stores, StoredInv
    <3>3. a.tag = "INT" => ints'[a.id] = Atoi(LastValue(argv, ReadFor(a)'))
      BY <2>1, <2>4 DEF Stores, StoredInv
    <3> QED
      BY <3>1, <3>2, <3>3
  <2> QED
    BY <2>2, <2>5 DEF StoredInv
<1> QED
  BY <1>1, <1>2, QuietOrAdvances

\* Before the call nothing was read.
LEMMA InitStored ==
  ASSUME Init
  PROVE  StoredInv
<1>1. TypesInv /\ arg_cursor = 1 /\ given = flags
  BY InitTypes DEF Init
<1>2. \A a : ReadFor(a) = {}
  <2> SUFFICES ASSUME NEW k \in Elements, k < arg_cursor PROVE FALSE
    BY DEF ReadFor
  <2>1. k \in 1..Len(argv) /\ Len(argv) \in Nat
    BY <1>1, ElementsAre
  <2> QED
    BY <1>1, <2>1
<1>3. \A a : LastValue(argv, ReadFor(a)) = Nothing
  BY <1>2 DEF LastValue
<1>4. Atoi(Nothing) = 0
  BY ArgsConstants DEF Atoi, Nothing, Word
<1>5. ASSUME NEW a \in AllArguments
      PROVE  /\ a.tag = "STRING" => strings[a.id] = Nothing
             /\ a.tag = "INT" => ints[a.id] = 0
  BY IdOfKind DEF Init
<1> QED
  BY <1>1, <1>2, <1>3, <1>4, <1>5 DEF StoredInv

\* Once all of argv is read, it is what argv means.
LEMMA StoredIs ==
  ASSUME TypesInv, ReadInv, StoredInv, pc \in {"returned", "asked", "greeted"},
         NEW a \in AllArguments
  PROVE  /\ a.tag = "FLAG" => (flags[a.id] <=> IsGiven(a))
         /\ a.tag = "STRING" => strings[a.id] = ValueGiven(a)
         /\ a.tag = "INT" => ints[a.id] = Atoi(ValueGiven(a))
<1>1. arg_cursor = Len(argv) + 1 /\ Elements \subseteq 1..Len(argv) /\ Len(argv) \in Nat
  BY ElementsAre DEF ReadInv
<1>2. \A k \in Elements : k < arg_cursor
  BY <1>1
<1>3. ReadFor(a) = {k \in Elements : a \in About(k)}
  BY <1>2 DEF ReadFor
<1>4. ValueGiven(a) = LastValue(argv, ReadFor(a))
  BY <1>3 DEF ValueGiven, LastValue, ValueAt
<1>5. IsGiven(a) <=> given[a.id] \/ ReadFor(a) # {}
  BY <1>3 DEF IsGiven
<1> QED
  BY <1>4, <1>5 DEF StoredInv

\* When senargs_parse returns, every flag and every value is what argv means, whatever the
\* tree of arguments and the command line.
THEOREM SenArgsStoredRight == (Spec => []StoredRight) /\ (ProgramSpec => []StoredRight)
<1> DEFINE Inv == TypesInv /\ ReadInv /\ StoredInv
<1>1. Inv => StoredRight
  BY StoredIs DEF StoredRight
<1>2. Init => Inv
  BY InitTypes, InitRead, InitStored
<1>3. Inv /\ [Next]_vars => Inv'
  BY TypesStep, ReadStep, StoredStep, StepsAre
<1>4. Inv /\ [ProgramNext]_programVars => Inv'
  BY TypesStep, ReadStep, StoredStep, StepsAre
<1>5. Spec => []StoredRight
  BY <1>1, <1>2, <1>3, PTL DEF Spec
<1>6. ProgramSpec => []StoredRight
  BY <1>1, <1>2, <1>4, PTL DEF ProgramSpec, ProgramInit
<1> QED
  BY <1>5, <1>6
-----------------------------------------------------------------------------
(* The example.                                                            *)

\* What the program printed is what it was told; ProgramAnswers, with more of what the
\* program keeps: all of argv is read, and nothing is stored any more.
AnswersInv ==
  /\ pc = "greeted" =>
       /\ greeting.target = strings[target.id] /\ greeting.target # Nothing
       /\ greeting.loud <=> flags[shout.id]
       /\ greeting.marks = IF ints[enthusiasm.id] > 0 THEN ints[enthusiasm.id] ELSE 0
  /\ pc = "asked" => strings[target.id] = Nothing /\ help.bag = Root /\ help.path = <<>>

\* The options of the program.
LEMMA ProgramArguments ==
  /\ target \in AllArguments /\ target.tag = "STRING" /\ target.id \in Ids("STRING")
  /\ shout \in AllArguments /\ shout.tag = "FLAG" /\ shout.id \in Ids("FLAG")
  /\ enthusiasm \in AllArguments /\ enthusiasm.tag = "INT" /\ enthusiasm.id \in Ids("INT")
<1>1. target \in ToSet(root_args) /\ shout \in ToSet(root_args) /\ enthusiasm \in ToSet(root_args)
  <2>1. /\ DOMAIN root_args = 1..3 /\ root_args[1] = target /\ root_args[2] = shout
        /\ root_args[3] = enthusiasm
    BY DEF root_args
  <2> QED
    BY <2>1 DEF ToSet
<1>2. Root \in DOMAIN Bags
  BY ArgsConstants
<1>3. target \in AllArguments /\ shout \in AllArguments /\ enthusiasm \in AllArguments
  BY <1>1, <1>2, InBag, RootHasArguments
<1>4. target.tag = "STRING" /\ shout.tag = "FLAG" /\ enthusiasm.tag = "INT"
  BY DEF target, shout, enthusiasm, Argument
<1> QED
  BY <1>3, <1>4, IdOfKind

\* The caller's steps print what is stored, and before them nothing was printed.
LEMMA AnswersStep ==
  ASSUME TypesInv, AnswersInv, [ProgramNext]_programVars
  PROVE  AnswersInv'
<1>1. CASE ParseStep
  <2>1. pc' \notin {"asked", "greeted"}
    <3>1. Quiet \/ Advances
      BY <1>1, QuietOrAdvances DEF Steps
    <3>2. pc \in {"start", "parse"}
      BY <1>1 DEF ParseStep, Start, LongHelp, LongFlag, LongValue, LongInline, LongNoValue,
                  LongUnknown, ShortHelp, ShortNone, ShortValue, ShortNoValue, ShortFlags,
                  PushCrashes, Subcommand, UnknownSubcommand, Return, Parsing
    <3>3. Advances => pc' = pc
      BY DEF Advances, LongFlag, LongValue, LongInline, ShortValue, KnownFlags, KnownLetters,
             ShortFlags, Subcommand
    <3> QED
      BY <3>1, <3>2, <3>3 DEF Quiet
  <2> QED
    BY <2>1 DEF AnswersInv
<1>2. CASE NoTarget
  <2>1. /\ pc' = "asked" /\ strings' = strings /\ strings[target.id] = Nothing
        /\ help' = [path |-> <<>>, bag |-> Root]
    BY <1>2 DEF NoTarget, senargs_print_help, valueVars
  <2> QED
    BY <2>1 DEF AnswersInv
<1>3. CASE Greet
  <2> DEFINE loud == flags[shout.id]
             marks == IF ints[enthusiasm.id] > 0 THEN ints[enthusiasm.id] ELSE 0
             name == strings[target.id]
  <2>1. /\ pc' = "greeted" /\ name # Nothing /\ UNCHANGED <<flags, strings, ints>>
        /\ greeting' = [loud |-> loud, target |-> name, marks |-> marks]
    BY <1>3 DEF Greet, valueVars
  <2>2. loud \in BOOLEAN
    BY ProgramArguments DEF TypesInv, TypeOK
  <2>3. /\ flags'[shout.id] = loud /\ strings'[target.id] = name
        /\ (IF ints'[enthusiasm.id] > 0 THEN ints'[enthusiasm.id] ELSE 0) = marks
    BY <2>1
  <2> HIDE DEF loud, marks, name
  <2>4. greeting'.target = name /\ (greeting'.loud <=> loud) /\ greeting'.marks = marks
    BY <2>1, <2>2
  <2>5. flags'[shout.id] <=> loud
    BY <2>2, <2>3
  <2> QED
    BY <2>1, <2>3, <2>4, <2>5 DEF AnswersInv
<1>4. CASE UNCHANGED programVars
  BY <1>4 DEF programVars, vars, valueVars, AnswersInv
<1> QED
  BY <1>1, <1>2, <1>3, <1>4 DEF ProgramNext, Running

\* The answer is the one the command line asks for.
LEMMA AnswersAre ==
  ASSUME TypesInv, ReadInv, StoredInv, AnswersInv
  PROVE  ProgramAnswers
<1>1. ASSUME pc \in {"asked", "greeted"}
      PROVE  /\ strings[target.id] = ValueGiven(target)
             /\ flags[shout.id] <=> IsGiven(shout)
             /\ ints[enthusiasm.id] = Atoi(ValueGiven(enthusiasm))
  BY <1>1, StoredIs, ProgramArguments
<1>2. CASE pc = "greeted"
  <2> DEFINE number == Atoi(ValueGiven(enthusiasm))
  <2>1. number \in Int
    BY AtoiIs
  <2>2. greeting.marks = IF number > 0 THEN number ELSE 0
    BY <1>1, <1>2 DEF AnswersInv
  <2> HIDE DEF number
  <2>3. greeting.marks = IF number < 0 THEN 0 ELSE number
    BY <2>1, <2>2
  <2>4. greeting.marks = LET n == Atoi(ValueGiven(enthusiasm)) IN IF n < 0 THEN 0 ELSE n
    BY <2>3 DEF number
  <2> QED
    BY <1>1, <1>2, <2>4 DEF AnswersInv, ProgramAnswers
<1>3. CASE pc # "greeted"
  BY <1>1, <1>3 DEF AnswersInv, ProgramAnswers
<1> QED
  BY <1>2, <1>3

\* The program greets as its command line says, or shows the root's options, whatever the
\* tree of its subcommands.
THEOREM SenArgsProgramAnswers == ProgramSpec => []ProgramAnswers
<1> DEFINE Inv == TypesInv /\ ReadInv /\ StoredInv /\ AnswersInv
<1>1. Inv => ProgramAnswers
  BY AnswersAre
<1>2. ProgramInit => Inv
  BY InitTypes, InitRead, InitStored DEF ProgramInit, AnswersInv, Init
<1>3. Inv /\ [ProgramNext]_programVars => Inv'
  BY TypesStep, ReadStep, StoredStep, AnswersStep, StepsAre
<1> QED
  BY <1>1, <1>2, <1>3, PTL DEF ProgramSpec
=============================================================================
