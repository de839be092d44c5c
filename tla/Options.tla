------------------------------ MODULE Options ------------------------------
(***************************************************************************)
(* The command line of the tools: optParseOptions() (tools/shhopt.c) takes *)
(* the options and their arguments out of argv and carries each one out as *)
(* soon as it is read; what is left are the modules.                       *)
(*                                                                         *)
(* An argument is a record.  A word is a name or a value; a long option    *)
(* has a name, which may be cut short, and perhaps a value behind `=';     *)
(* short options are letters behind one dash, and the text of the last one *)
(* when it follows at once.                                                *)
(***************************************************************************)
EXTENDS Integers, Sequences, SequencesExt

CONSTANTS
  Optv,      \* opt[]: sequence of [short, long, type]
  Begins,     \* Begins[name]: the long names that begin with the name
  Numbers,    \* the arguments that strtol() takes
  NULL

VARIABLES
  argv,       \* the arguments that are left, argv[0] first
  ai, letter, \* the argument and the letter looked at
  done,       \* sequence of <<option, value>> that were carried out
  parse       \* "on", "end" or "fatal"

vars == <<argv, ai, letter, done, parse>>

Word(t) == [form |-> "word", name |-> t, value |-> NULL, letters |-> <<>>]

\* optMatch(): the first of the table that begins with what was written.
Least(S)      == CHOOSE k \in S : \A l \in S : k <= l
MatchLong(name) == {k \in DOMAIN Optv : Optv[k].long \in Begins[name]}
MatchShort(c)   == {k \in DOMAIN Optv : Optv[k].short = c}

optNeedsArgument(k) == Optv[k].type \in {"string", "int"}

Init ==
  /\ ai = 1 /\ letter = 1 /\ done = <<>> /\ parse = "on"

Here       == argv[ai]
Reading(f) == parse = "on" /\ ai <= Len(argv) /\ Here.form = f
Fatal      == parse' = "fatal" /\ UNCHANGED <<argv, ai, letter, done>>

argvRemove(i, count) == SubSeq(argv, 1, i - 1) \o SubSeq(argv, i + count, Len(argv))

\* optExecute(): a text that is no number is fatal, and so is the exit() in
\* the function of an option.
Execute(k, value) ==
  IF Optv[k].type = "int" /\ value \notin Numbers
  THEN done' = done /\ parse' = "fatal"
  ELSE /\ done' = Append(done, <<k, value>>)
       /\ parse' = IF Optv[k].type = "exit" THEN "fatal" ELSE "on"

EndOfOptions ==
  /\ Reading("end")
  /\ argv' = argvRemove(ai, 1) /\ parse' = "end"
  /\ UNCHANGED <<ai, letter, done>>

\* Words and a dash that stands alone are left where they are.
Skip ==
  /\ Reading("word") \/ Reading("dash")
  /\ ai' = ai + 1
  /\ UNCHANGED <<argv, letter, done, parse>>

HasNext   == ai < Len(argv)
\* Mutant: an argument that looks like an option is left in argv.
Taken_Words == IF argv[ai + 1].form = "word" THEN 2 ELSE 1
Taken       == 2

LongOption ==
  /\ Reading("long")
  /\ LET k     == Least(MatchLong(Here.name))
         needs == optNeedsArgument(k)
     IN IF \/ MatchLong(Here.name) = {}
           \/ ~needs /\ Here.value # NULL
           \/ needs /\ Here.value = NULL /\ ~HasNext
        THEN Fatal
        ELSE /\ Execute(k, IF needs /\ Here.value = NULL THEN argv[ai + 1]
                         ELSE IF needs THEN Word(Here.value) ELSE NULL)
             /\ argv' = argvRemove(ai, IF needs /\ Here.value = NULL THEN Taken ELSE 1)
             /\ UNCHANGED <<ai, letter>>

ShortOption ==
  /\ Reading("short")
  /\ LET match == MatchShort(Here.letters[letter])
         k     == Least(match)
         last  == letter = Len(Here.letters)
         rest  == IF last THEN IF Here.value = NULL THEN NULL ELSE Word(Here.value)
                  ELSE [Here EXCEPT !.letters = SubSeq(@, letter + 1, Len(@))]
         needs == optNeedsArgument(k)
         over  == needs \/ last
     IN IF match = {} \/ (needs /\ rest = NULL /\ ~HasNext)
        THEN Fatal
        ELSE /\ Execute(k, IF ~needs THEN NULL ELSE IF rest # NULL THEN rest ELSE argv[ai + 1])
             /\ argv' = IF over THEN argvRemove(ai, IF needs /\ rest = NULL THEN Taken ELSE 1) ELSE argv
             /\ letter' = IF over THEN 1 ELSE letter + 1
             /\ UNCHANGED ai

EndOfArguments ==
  /\ parse = "on" /\ ai > Len(argv)
  /\ parse' = "end"
  /\ UNCHANGED <<argv, ai, letter, done>>

Next == EndOfOptions \/ Skip \/ LongOption \/ ShortOption \/ EndOfArguments
=============================================================================
