------------------------------- MODULE SenArgs -------------------------------
(***************************************************************************)
(* sensible-args: senargs_parse, which walks once over argv and stores     *)
(* what it finds in the caller's arguments.                                *)
(*                                                                         *)
(* An element of argv is a token, told apart by its prefix as in           *)
(* senargs_parse_rec: "--name" or "--name=value", "-letters", or a word.   *)
(* The recursion into a subcommand's arguments needs no stack: the inner   *)
(* call reads argv to its end, and the outer ones return at once.          *)
(***************************************************************************)
EXTENDS Integers, Sequences, FiniteSets, SequencesExt

CONSTANTS
  Bags,       \* the sequence of arguments of each senargs_argument_bag
  Root,       \* the bag senargs_description.root points to
  Tokens,     \* what elements of argv may be, after the program's name
  MaxArgs,    \* bound: the number of those elements
  Numerals,   \* the number each element of argv starts with, where it does with one
  Rooms,      \* how many pointers a block of no bytes may have room for; 0 is NULL
  PanicModes, \* the values of do_not_panic
  Defaults    \* what the caller's flags may hold before the call

Null == "NULL"                 \* a name that is a NULL pointer
IsNoName(full) == full \in {"", Null}
Word(w) == [kind |-> "word", word |-> w]
Nothing == Word(Null)          \* the NULL behind argv, or no string_value yet

AllArguments == UNION {ToSet(Bags[b]) : b \in DOMAIN Bags}
Ids(tag) == {a.id : a \in {b \in AllArguments : b.tag = tag}}

ASSUME ArgsConstants ==
  /\ Root \in DOMAIN Bags
  /\ \A b \in DOMAIN Bags : Bags[b] \in Seq(AllArguments)
  /\ \A a \in AllArguments : a.tag \in {"FLAG", "STRING", "INT", "SUBCOMMAND"}
  /\ \A a, b \in AllArguments : a.id = b.id => a = b
  /\ \A t \in Tokens : t.kind = "short" => t.letters \in Seq(STRING)
  /\ MaxArgs \in Nat
  /\ \A t \in DOMAIN Numerals : t # Nothing /\ t.kind # "long" /\ Numerals[t] \in Int
  /\ Rooms \subseteq Nat /\ Rooms # {}
  /\ PanicModes \subseteq BOOLEAN /\ Defaults \subseteq BOOLEAN

\* Subcommands lead to bags, and never back to the bag they are in: otherwise
\* preprocess_and_validate_args, which follows them all, would not end.
ASSUME SubcommandsLeadDown ==
  /\ IsFiniteSet(DOMAIN Bags)
  /\ \E height \in [DOMAIN Bags -> 0..Cardinality(DOMAIN Bags)] :
       \A b \in DOMAIN Bags : \A a \in ToSet(Bags[b]) :
         a.tag = "SUBCOMMAND" => a.subs \in DOMAIN Bags /\ height[a.subs] < height[b]

VARIABLES
  pc,            \* "start", "parse", how senargs_parse ended, or its caller
  do_not_panic,  \* struct senargs_description
  argv,          \* without the program's name: argv[k] is element k
  arg_cursor,    \* struct parse_state
  arguments,     \* struct parse_state: the current bag
  subcommands,   \* struct parse_state: the names pushed on the vector
  room,          \* how many pointers the vector's block has room for
  chosen,        \* subcommand_chosen of each bag, 0 when none was
  flags, strings, ints, \* data of the arguments, by their kind
  given,         \* auxiliary: what flags was before the call
  help           \* auxiliary: the last help printed, its path and its bag

valueVars == <<chosen, flags, strings, ints>>
stateVars == <<arg_cursor, arguments, subcommands, room>>
inputVars == <<do_not_panic, argv, given>>
vars == <<pc, inputVars, stateVars, valueVars, help>>

argc == Len(argv) + 1
Token == argv[arg_cursor]
Following == IF arg_cursor + 1 < argc THEN argv[arg_cursor + 1] ELSE Nothing

-----------------------------------------------------------------------------
(* Looking arguments up.                                                   *)

\* atoi: no number at the start of a string is 0; "-5" is one, which parse_short
\* would take for letters
Atoi(token) == IF token \in DOMAIN Numerals THEN Numerals[token] ELSE 0

\* "--name" names every argument that is called so, "--name=value" no flag; a
\* disabled name is the empty string, like what follows a mere "--"
Names(token, a) ==
  /\ a.tag # "SUBCOMMAND"
  /\ a.full = token.name \/ (IsNoName(a.full) /\ token.name = "")
  /\ token.inline # Null => a.tag # "FLAG"

\* the first of the arguments of bag at places, as a sequence of none or one
FirstAt(places, bag) ==
  IF places = {} THEN <<>> ELSE <<Bags[bag][CHOOSE k \in places : \A l \in places : k <= l]>>

\* the first argument of bag that is named
NamedBy(token, bag) == FirstAt({k \in DOMAIN Bags[bag] : Names(token, Bags[bag][k])}, bag)

\* the first argument of bag with the letter, even if it is a subcommand
LetterOf(c, bag) == FirstAt({k \in DOMAIN Bags[bag] : Bags[bag][k].small = c}, bag)

TakesValue(found) == found # <<>> /\ found[1].tag \in {"STRING", "INT"}

\* assign_data
assign_data(a, token) ==
  /\ strings' = IF a.tag = "STRING" THEN [strings EXCEPT ![a.id] = token] ELSE strings
  /\ ints' = IF a.tag = "INT" THEN [ints EXCEPT ![a.id] = Atoi(token)] ELSE ints

\* print_help_internal: the usage line has the subcommands, the list the bag
print_help_internal == help' = [path |-> subcommands, bag |-> arguments]

\* a message, the help and exit
Exit(status) ==
  /\ pc' = status
  /\ print_help_internal
  /\ UNCHANGED <<inputVars, stateVars, valueVars>>

-----------------------------------------------------------------------------
Init ==
  /\ pc = "start"
  /\ do_not_panic \in PanicModes
  /\ argv \in BoundedSeq(Tokens, MaxArgs)
  /\ arg_cursor = 1 /\ arguments = Root /\ subcommands = <<>> /\ room = 4
  /\ flags \in [Ids("FLAG") -> Defaults]
  /\ strings = [a \in Ids("STRING") |-> Nothing]
  /\ ints = [a \in Ids("INT") |-> 0]
  /\ chosen = [b \in DOMAIN Bags |-> 0]
  /\ given = flags
  /\ help = [path |-> <<>>, bag |-> Null]

valid_short_flag(c) ==
  c \in {"a", "b", "c", "d", "e", "f", "g", "h", "i", "j", "k", "l", "m",
        "n", "o", "p", "q", "r", "s", "t", "u", "v", "w", "x", "y", "z"}

\* preprocess_and_validate_args: the assert, on every argument there is
Valid == \A a \in AllArguments : a.full = Null \/ valid_short_flag(a.small)

Start ==
  /\ pc = "start"
  /\ pc' = IF Valid THEN "parse" ELSE "aborted"
  /\ UNCHANGED <<inputVars, stateVars, valueVars, help>>

Parsing(kind) == pc = "parse" /\ arg_cursor < argc /\ Token.kind = kind
IsHelp == Token.kind = "long" /\ Token.name = "help" /\ Token.inline = Null
Named == NamedBy(Token, arguments)

-----------------------------------------------------------------------------
(* parse_long                                                              *)

LongHelp == Parsing("long") /\ IsHelp /\ Exit("exit0")

\* Wrong on purpose (as every Wrong... below): a variant of the next definition
\* with a mistake, for which a run must find a property violated.
\* Here the cursor is moved only past values.
WrongLongFlag ==
  /\ Parsing("long") /\ ~IsHelp
  /\ Named # <<>> /\ ~TakesValue(Named)
  /\ flags' = [flags EXCEPT ![Named[1].id] = TRUE]
  /\ UNCHANGED <<pc, inputVars, stateVars, chosen, strings, ints, help>>

LongFlag ==
  /\ Parsing("long") /\ ~IsHelp
  /\ Named # <<>> /\ ~TakesValue(Named)
  /\ flags' = [flags EXCEPT ![Named[1].id] = TRUE]
  /\ arg_cursor' = arg_cursor + 1
  /\ UNCHANGED <<pc, inputVars, arguments, subcommands, room, chosen, strings, ints, help>>

\* the value is read again as an option
WrongLongValue ==
  /\ Parsing("long") /\ ~IsHelp
  /\ TakesValue(Named) /\ Token.inline = Null /\ arg_cursor # argc - 1
  /\ assign_data(Named[1], Following)
  /\ arg_cursor' = arg_cursor + 1
  /\ UNCHANGED <<pc, inputVars, arguments, subcommands, room, chosen, flags, help>>

\* the value is the next element of argv, whatever that looks like
LongValue ==
  /\ Parsing("long") /\ ~IsHelp
  /\ TakesValue(Named) /\ Token.inline = Null /\ arg_cursor # argc - 1
  /\ assign_data(Named[1], Following)
  /\ arg_cursor' = arg_cursor + 2
  /\ UNCHANGED <<pc, inputVars, arguments, subcommands, room, chosen, flags, help>>

\* the value looked for in the next element all the same
WrongLongInline ==
  /\ Parsing("long") /\ ~IsHelp
  /\ TakesValue(Named) /\ Token.inline # Null
  /\ assign_data(Named[1], Following)
  /\ arg_cursor' = arg_cursor + 1
  /\ UNCHANGED <<pc, inputVars, arguments, subcommands, room, chosen, flags, help>>

LongInline ==
  /\ Parsing("long") /\ ~IsHelp
  /\ TakesValue(Named) /\ Token.inline # Null
  /\ assign_data(Named[1], Word(Token.inline))
  /\ arg_cursor' = arg_cursor + 1
  /\ UNCHANGED <<pc, inputVars, arguments, subcommands, room, chosen, flags, help>>

\* expected_argument, which does not look at do_not_panic
LongNoValue ==
  /\ Parsing("long") /\ ~IsHelp
  /\ TakesValue(Named) /\ Token.inline = Null /\ arg_cursor = argc - 1
  /\ Exit("exit1")

\* unknown_arg: the program exits, or parse_long returns and the loop of
\* senargs_parse_rec finds the same element at its cursor
LongUnknown ==
  /\ Parsing("long") /\ ~IsHelp
  /\ Named = <<>>
  /\ IF do_not_panic THEN UNCHANGED vars ELSE Exit("exit1")

-----------------------------------------------------------------------------
(* parse_short                                                             *)

Letters == Token.letters
Found(k) == LetterOf(Letters[k], arguments)

\* help is asked for by an h anywhere among the letters
ShortHelp == Parsing("short") /\ Contains(Letters, "h") /\ Exit("exit0")

\* a mere "-": parse_short returns
ShortNone == Parsing("short") /\ Letters = <<>> /\ UNCHANGED vars

\* the end of argv not looked at
WrongShortValue ==
  /\ Parsing("short") /\ ~Contains(Letters, "h")
  /\ Len(Letters) = 1 /\ TakesValue(Found(1))
  /\ assign_data(Found(1)[1], Following)
  /\ arg_cursor' = arg_cursor + 2
  /\ UNCHANGED <<pc, inputVars, arguments, subcommands, room, chosen, flags, help>>

\* a single letter that takes a value
ShortValue ==
  /\ Parsing("short") /\ ~Contains(Letters, "h")
  /\ Len(Letters) = 1 /\ TakesValue(Found(1)) /\ arg_cursor # argc - 1
  /\ assign_data(Found(1)[1], Following)
  /\ arg_cursor' = arg_cursor + 2
  /\ UNCHANGED <<pc, inputVars, arguments, subcommands, room, chosen, flags, help>>

\* expected_argument, or a letter that takes a value among others
ShortNoValue ==
  /\ Parsing("short") /\ ~Contains(Letters, "h")
  /\ \E k \in 1..Len(Letters) : TakesValue(Found(k))
  /\ Len(Letters) > 1 \/ arg_cursor = argc - 1
  /\ Exit("exit1")

\* the loop over the letters ends after the first that is known
WrongShortFlags ==
  /\ Parsing("short") /\ ~Contains(Letters, "h") /\ Letters # <<>>
  /\ ~\E k \in 1..Len(Letters) : TakesValue(Found(k))
  /\ Found(1) # <<>>
  /\ flags' = [f \in DOMAIN flags |-> flags[f] \/ Found(1)[1].id = f]
  /\ arg_cursor' = arg_cursor + 1
  /\ UNCHANGED <<pc, inputVars, arguments, subcommands, room, chosen, strings, ints, help>>

\* letters of flags, of subcommands, which mean nothing, and unknown ones
ShortFlags ==
  /\ Parsing("short") /\ ~Contains(Letters, "h") /\ Letters # <<>>
  /\ ~\E k \in 1..Len(Letters) : TakesValue(Found(k))
  /\ IF do_not_panic \/ \A k \in 1..Len(Letters) : Found(k) # <<>>
     THEN /\ flags' = [f \in DOMAIN flags |->
                         \/ flags[f]
                         \/ \E k \in 1..Len(Letters) : Found(k) # <<>> /\ Found(k)[1].id = f]
          /\ arg_cursor' = arg_cursor + 1
          /\ UNCHANGED <<pc, help>>
     ELSE /\ pc' = "exit1"
          /\ UNCHANGED <<flags, arg_cursor, help>>
  /\ UNCHANGED <<inputVars, arguments, subcommands, room, chosen, strings, ints>>

-----------------------------------------------------------------------------
(* parse_noprefix                                                          *)

\* the first subcommand of bag that is called so
Chosen(word, bag) ==
  FirstAt({k \in DOMAIN Bags[bag] :
             Bags[bag][k].tag = "SUBCOMMAND" /\ Bags[bag][k].full = word}, bag)

\* senargs_vec_string_push: the capacity is 0 and stays 0 (0 + (0 >> 1)), so the
\* first push, where the length is 0 too, reallocates to no bytes, and no other does.
RoomToPush == IF subcommands = <<>> THEN Rooms ELSE {room}

\* The write through NULL, which glibc's realloc returns for no bytes, stops the
\* program; so may a write behind the block, where there is one.
PushCrashes ==
  /\ Parsing("word")
  /\ Chosen(Token.word, arguments) # <<>>
  /\ \E r \in RoomToPush : r <= Len(subcommands)
  /\ pc' = "crashed"
  /\ UNCHANGED <<inputVars, stateVars, valueVars, help>>

\* the choice is stored in the bag of the subcommand's own arguments
WrongSubcommand ==
  /\ Parsing("word")
  /\ LET found == Chosen(Token.word, arguments)
     IN  /\ found # <<>>
         /\ chosen' = [chosen EXCEPT ![found[1].subs] = found[1].value]
         /\ arguments' = found[1].subs
         /\ subcommands' = Append(subcommands, Token.word)
  /\ room' \in RoomToPush \ {0}
  /\ arg_cursor' = arg_cursor + 1
  /\ UNCHANGED <<pc, inputVars, flags, strings, ints, help>>

\* The write stays inside the block, or goes behind it unnoticed.
Subcommand ==
  /\ Parsing("word")
  /\ LET found == Chosen(Token.word, arguments)
     IN  /\ found # <<>>
         /\ chosen' = [chosen EXCEPT ![arguments] = found[1].value]
         /\ arguments' = found[1].subs
         /\ subcommands' = Append(subcommands, Token.word)
  /\ room' \in RoomToPush \ {0}
  /\ arg_cursor' = arg_cursor + 1
  /\ UNCHANGED <<pc, inputVars, flags, strings, ints, help>>

UnknownSubcommand ==
  /\ Parsing("word")
  /\ Chosen(Token.word, arguments) = <<>>
  /\ Exit("exit1")

\* the loops of all the calls of senargs_parse_rec end
Return ==
  /\ pc = "parse" /\ arg_cursor >= argc
  /\ pc' = "returned"
  /\ UNCHANGED <<inputVars, stateVars, valueVars, help>>

ParseStep ==
  \/ Start
  \/ LongHelp \/ LongFlag \/ LongValue \/ LongInline \/ LongNoValue \/ LongUnknown
  \/ ShortHelp \/ ShortNone \/ ShortValue \/ ShortNoValue \/ ShortFlags
  \/ PushCrashes \/ Subcommand \/ UnknownSubcommand
  \/ Return

Ended == pc \in {"returned", "exit0", "exit1", "aborted", "crashed"}
Next == ParseStep \/ (Ended /\ UNCHANGED vars)

\* senargs_parse is one call on one thread: it runs as long as it can
Spec == Init /\ [][Next]_vars /\ WF_vars(ParseStep)

-----------------------------------------------------------------------------
(* What an argv means, read without a cursor.                              *)

\* What element k is: the value of the option before it, or read by its prefix
\* with the arguments of the last subcommand before it.
Reading[k \in 0..MaxArgs] ==
  IF k = 0 THEN [bag |-> Root, value |-> FALSE]
  ELSE LET before == Reading[k - 1]
           wanted == /\ k > 1 /\ ~before.value
                     /\ LET t == argv[k - 1]
                        IN  \/ /\ t.kind = "long" /\ t.inline = Null
                               /\ TakesValue(NamedBy(t, before.bag))
                            \/ /\ t.kind = "short" /\ Len(t.letters) = 1
                               /\ TakesValue(LetterOf(t.letters[1], before.bag))
           entered == IF k > 1 /\ ~before.value /\ argv[k - 1].kind = "word"
                      THEN Chosen(argv[k - 1].word, before.bag) ELSE <<>>
       IN  [bag |-> IF entered = <<>> THEN before.bag ELSE entered[1].subs,
            value |-> wanted]

\* elements of argv that are options or subcommands, not values
Elements == {k \in 1..Len(argv) : ~Reading[k].value}

\* the arguments element k of argv is about
About(k) ==
  LET t == argv[k]
      bag == Reading[k].bag
  IN  CASE t.kind = "long"  -> ToSet(NamedBy(t, bag))
        [] t.kind = "short" -> UNION {ToSet(LetterOf(t.letters[l], bag)) : l \in 1..Len(t.letters)}
        [] OTHER            -> {}

AsksHelp(k) ==
  \/ argv[k].kind = "long" /\ argv[k].name = "help" /\ argv[k].inline = Null
  \/ argv[k].kind = "short" /\ Contains(argv[k].letters, "h")

\* a name or a letter that element k's bag does not have
IsUnknown(k) ==
  LET t == argv[k]
  IN  \/ t.kind = "long" /\ About(k) = {}
      \/ t.kind = "short" /\ \E l \in 1..Len(t.letters) : LetterOf(t.letters[l], Reading[k].bag) = <<>>

\* a value is missing, or a word names no subcommand
IsIncomplete(k) ==
  LET t == argv[k]
      valued == \E a \in About(k) : a.tag \in {"STRING", "INT"}
  IN  \/ t.kind = "long" /\ valued /\ t.inline = Null /\ k = Len(argv)
      \/ t.kind = "short" /\ valued /\ (Len(t.letters) > 1 \/ k = Len(argv))
      \/ t.kind = "word" /\ Chosen(t.word, Reading[k].bag) = <<>>

\* the elements at which the reading may end before argv does
Stops ==
  {k \in Elements : AsksHelp(k) \/ IsIncomplete(k) \/ (IsUnknown(k) /\ ~do_not_panic)}

\* whether the flag a is named, and the last value the option a is given
IsGiven(a) == given[a.id] \/ \E k \in Elements : a \in About(k)

ValueGiven(a) ==
  LET at == {k \in Elements : a \in About(k)}
      last == CHOOSE k \in at : \A l \in at : l <= k
  IN  IF at = {} THEN Nothing
      ELSE IF argv[last].kind = "long" /\ argv[last].inline # Null
           THEN Word(argv[last].inline) ELSE argv[last + 1]

-----------------------------------------------------------------------------
(* Properties.                                                             *)

TypeOK ==
  /\ pc \in {"start", "parse", "returned", "exit0", "exit1", "aborted", "crashed",
             "asked", "greeted"}
  /\ do_not_panic \in PanicModes
  /\ arg_cursor \in 1..argc
  /\ arguments \in DOMAIN Bags /\ room \in {4} \cup Rooms
  /\ flags \in [Ids("FLAG") -> BOOLEAN]
  /\ strings \in [Ids("STRING") -> Tokens \cup {Nothing} \cup {Word(t.inline) : t \in {u \in Tokens : u.kind = "long"}}]
  /\ ints \in [Ids("INT") -> Int]

\* senargs_parse returns exactly when every option of argv is known in its place
\* and has its value, exits with 0 exactly when the first element that stops it
\* asks for help, and with 1 exactly when that is wrong.  With do_not_panic no
\* unknown option stops it, but a missing value and an unknown word do.
OutcomeDeserved ==
  Ended /\ pc # "crashed" =>
    CASE Stops = {} -> pc = "returned"
      [] OTHER -> LET first == CHOOSE k \in Stops : \A l \in Stops : k <= l
                  IN  pc = IF AsksHelp(first) THEN "exit0" ELSE "exit1"

\* When senargs_parse returns, a flag is set exactly if it was before or is named
\* by an element of argv that is no value of an option and belongs to the
\* subcommand the flag is one of, and each option with a value has that of the
\* last element of argv that names it.
StoredRight ==
  pc = "returned" =>
    \A a \in AllArguments :
      /\ a.tag = "FLAG" => (flags[a.id] <=> IsGiven(a))
      /\ a.tag = "STRING" => strings[a.id] = ValueGiven(a)
      /\ a.tag = "INT" => ints[a.id] = Atoi(ValueGiven(a))

\* the bag that the subcommands of path lead to, from the root
BagAfter(path) ==
  LET bag[k \in 0..Len(path)] == IF k = 0 THEN Root ELSE Chosen(path[k], bag[k-1])[1].subs
  IN  bag[Len(path)]

\* Exactly the bags on the way of the subcommands taken have subcommand_chosen
\* set, each to the value of the one taken, so a program can follow the choices
\* from the root to the arguments that were read.  The same way is in the usage
\* line of the help, and leads to the bag whose options the help lists.
ChoicesLeadHere ==
  LET Passed(k) == BagAfter(SubSeq(subcommands, 1, k - 1))
  IN  /\ \A k \in 1..Len(subcommands) :
           chosen[Passed(k)] = Chosen(subcommands[k], Passed(k))[1].value
      /\ \A b \in DOMAIN Bags :
           chosen[b] # 0 => \E k \in 1..Len(subcommands) : b = Passed(k)
      /\ help.bag # Null => BagAfter(help.path) = help.bag

\* Every element of argv is read and left behind, so that senargs_parse ends, but
\* for two: a mere "-", and with do_not_panic an unknown long option.
ParsingMovesOn ==
  <>(Ended \/ (/\ Parsing("short") \/ Parsing("long")
               /\ IF Token.kind = "short" THEN Letters = <<>>
                                          ELSE do_not_panic /\ Named = <<>>))

-----------------------------------------------------------------------------
(* What the comments and the README say.                                   *)

\* senargs_parse ends: sensible-args.c:248 says of "-", "just ignore".
ParsingEnds == <>Ended

\* README.md:17: "[x] Subcommands"
SubcommandsWork == pc # "crashed"
=============================================================================
