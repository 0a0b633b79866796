------------------------------ MODULE MCSenArgs ------------------------------
(* Descriptions of arguments and command lines for model checking SenArgs.   *)
EXTENDS SenArgsExample

Long(name) == [kind |-> "long", name |-> name, inline |-> Null]
Assigned(name, w) == [kind |-> "long", name |-> name, inline |-> w]
Short(letters) == [kind |-> "short", letters |-> letters]

\* The example's target, shout and enthusiasm, two levels of subcommands, the
\* letter s used for other things inside, and once more for a second flag, and
\* a flag without a name.
Example ==
  [root  |-> root_args \o
             << Argument("silent", "FLAG", "s", "silent"),
                Argument("quiet", "FLAG", "q", ""),
                Command("build", "b", "build", "build", 1) >>,
   build |-> << Argument("source", "STRING", "s", "source"),
                Command("fast", "t", "fast", "fast", 2) >>,
   fast  |-> << Argument("shared", "FLAG", "s", "shout") >>]

CommandLines ==
  {Long("target"), Assigned("target", "7"), Long("shout"), Assigned("shout", "7"),
   Short(<<"t">>), Short(<<"s">>), Short(<<"b", "s">>), Short(<<"s", "t">>),
   Short(<<"e">>), Short(<<"7">>), Short(<<"s", "h">>), Short(<<>>),
   Long("other"), Long(""), Long("help"), Word("build"), Word("fast"), Word("7")}

\* a few elements each for the runs about one case
Dash == {Short(<<>>), Short(<<"s">>), Word("7")}
Plain == {Short(<<"s">>), Word("build"), Word("fast")}

\* "7" and "-7"
Sevens == [t \in {Word("7"), Short(<<"7">>)} |-> IF t.kind = "word" THEN 7 ELSE -7]
=============================================================================
