------------------------------ MODULE Smidump ------------------------------
(***************************************************************************)
(* smidump (tools/smidump.c): the options are carried out while they are   *)
(* parsed, then the modules are loaded one by one, and those that the      *)
(* driver of the format can take are handed to it.  The drivers are those  *)
(* of DumpSmi, DumpSppi, DumpSming, PduSizes and SmiYang, which run when   *)
(* their function is called.                                               *)
(***************************************************************************)
EXTENDS PduSizes, SequencesExt

CONSTANTS
  Commands,     \* the command lines: sequences of arguments
  Drivers,      \* Drivers[name]: the languages that the driver cannot take
  Optv, Begins, Numbers, Sources, PibSources, SmingSources, Rank, Worlds, Nice, Position, NULL,
  FoundModules         \* FoundModules[name]: language, whether it has severe errors

VARIABLES
  argv, ai, letter, done, parse,                                  \* Options
  source, smiv1, silent, asked, importList, section, left, text,  \* DumpSmi, DumpSppi
  lastindent,                                                     \* DumpSming
  world, module, prefixes, part, ahead, tree, yang,               \* SmiYang
  command,      \* argv as it was given
  default,      \* whether smiInit() was told to read the configuration
  driver, quiet, keep, errors, matching_driver,
  modv,         \* the modules handed to the driver, or those it has left
  phase, i      \* options, loading, dumping or exit; the argument to load

lineVars == <<argv, ai, letter, done, parse>>
smiVars  == <<source, smiv1, silent, asked, importList, section, left, text>>
yangVars == <<world, module, prefixes, part, ahead, tree, yang>>
flagVars == <<default, driver, quiet, keep>>
loadVars == <<errors, matching_driver, modv, i>>
allVars  == <<command, phase, lastindent, lineVars, smiVars, yangVars, flagVars, loadVars, vars>>

Line == INSTANCE Options
Smi  == INSTANCE DumpSmi WITH todo <- left
Sppi == INSTANCE DumpSppi WITH todo <- left
Sming == INSTANCE DumpSming WITH todo <- left
Yang == INSTANCE SmiYang

-----------------------------------------------------------------------------

\* main() looks for `-c' and `--config' before the options are parsed.
Config(arg) == \/ arg.form = "short" /\ arg.letters[1] = "c"
               \/ arg.form = "long" /\ arg.name = "config"

MainInit ==
  /\ command \in Commands /\ argv = command /\ Line!Init
  /\ default = ~\E k \in 2 .. Len(command) : Config(command[k])
  /\ driver = "smiv2" /\ quiet = FALSE /\ keep = FALSE
  /\ errors = FALSE /\ matching_driver = TRUE /\ modv = <<>> /\ i = 2
  /\ phase = "options"
  /\ lastindent = -1 /\ Smi!Init /\ Yang!Init /\ Init

\* The option that this step carries out, if it does.
Carried(name) ==
  Len(done') > Len(done) /\ Optv[done'[Len(done')][1]].long = name

\* format() leaves the program when there is no such driver.
ParseOptions ==
  /\ phase = "options" /\ Line!Next
  /\ quiet' = (quiet \/ Carried("quiet"))
  /\ keep'  = (keep \/ Carried("keep-going"))
  /\ driver' = IF Carried("format") THEN done'[Len(done')][2].name ELSE driver
  /\ phase' = IF parse' = "fatal" \/ driver' \notin DOMAIN Drivers THEN "exit"
              ELSE IF parse' = "end" THEN "loading" ELSE "options"
  /\ UNCHANGED <<lastindent, smiVars, yangVars, vars, command, default, loadVars>>

\* A driver that cannot take one module gets none of the next ones.
LoadModule ==
  /\ phase = "loading" /\ i <= Len(argv)
  /\ i' = i + 1
  /\ LET name == argv[i].name
     IN IF name \notin DOMAIN FoundModules THEN UNCHANGED <<errors, matching_driver, modv>>
        ELSE /\ errors' = (errors \/ FoundModules[name].severe)
             /\ matching_driver' = (matching_driver /\ FoundModules[name].language \notin Drivers[driver])
             /\ modv' = IF matching_driver' THEN Append(modv, name) ELSE modv
  /\ UNCHANGED <<lastindent, smiVars, yangVars, vars, lineVars, command, flagVars, phase>>

\* The function of the driver is called.  The command line is not looked at
\* any more; it is forgotten, and so are the names of the modules, as their
\* content is left open, and what the driver does not ask for.  The driver
\* for YANG prints a module of YANG as it is; this is left out.
Unnamed(list) == [k \in DOMAIN list |-> "module"]
CallDriver ==
  /\ phase = "loading" /\ i > Len(argv)
  /\ phase' = IF ~errors \/ keep THEN "dumping" ELSE "exit"
  /\ argv' = <<>> /\ command' = <<>> /\ done' = <<>>
  /\ ai' = 1 /\ letter' = 1 /\ parse' = "end" /\ i' = 2
  /\ errors' = FALSE /\ keep' = FALSE /\ default' = FALSE /\ matching_driver' = TRUE
  /\ modv' = Unnamed(IF driver = "sizes" /\ modv # <<>> THEN <<Head(modv)>>
                     ELSE IF driver = "yang" THEN SelectSeq(modv, LAMBDA name : FoundModules[name].language # "yang")
                     ELSE modv)
  /\ quiet' = (quiet /\ driver \notin {"sizes", "yang", "sming"})
  /\ UNCHANGED <<lastindent, smiVars, yangVars, vars, driver>>

\* The drivers take one module after the other; what a module holds may be
\* any of Sources.
OpenModule ==
  /\ phase = "dumping" /\ driver \in {"smiv1", "smiv2"} /\ modv # <<>> /\ section = "idle"
  /\ \E m \in Sources : Smi!Open(m, driver = "smiv1", quiet)
  /\ modv' = Tail(modv)
  /\ UNCHANGED <<lastindent, yangVars, vars, lineVars, command, flagVars, errors, matching_driver, i, phase>>

DumpModule ==
  /\ phase = "dumping" /\ driver \in {"smiv1", "smiv2"} /\ Smi!Work
  /\ UNCHANGED <<lastindent, yangVars, vars, lineVars, command, flagVars, loadVars, phase>>

\* dumpSppi().
OpenPib ==
  /\ phase = "dumping" /\ driver = "sppi" /\ modv # <<>> /\ section = "idle"
  /\ \E m \in PibSources : Sppi!Open(m, quiet)
  /\ modv' = Tail(modv)
  /\ UNCHANGED <<lastindent, smiv1, yangVars, vars, lineVars, command, flagVars, errors, matching_driver, i, phase>>

DumpPib ==
  /\ phase = "dumping" /\ driver = "sppi" /\ Sppi!Work
  /\ UNCHANGED <<lastindent, smiv1, yangVars, vars, lineVars, command, flagVars, loadVars, phase>>

\* dumpSming().
OpenSming ==
  /\ phase = "dumping" /\ driver = "sming" /\ modv # <<>> /\ section = "idle"
  /\ \E m \in SmingSources : Sming!Open(m)
  /\ modv' = Tail(modv)
  /\ UNCHANGED <<smiv1, silent, asked, importList>>
  /\ UNCHANGED <<yangVars, vars, lineVars, command, flagVars, errors, matching_driver, i, phase>>

DumpSming ==
  /\ phase = "dumping" /\ driver = "sming" /\ Sming!Work
  /\ UNCHANGED <<smiv1, silent, asked, importList>>
  /\ UNCHANGED <<yangVars, vars, lineVars, command, flagVars, loadVars, phase>>

DumpSizes ==
  /\ phase = "dumping" /\ driver = "sizes" /\ modv # <<>>
  /\ Next
  /\ UNCHANGED <<lastindent, smiVars, yangVars, lineVars, command, flagVars, loadVars, phase>>

\* dumpYang().
OpenYang ==
  /\ phase = "dumping" /\ driver = "yang" /\ modv # <<>>
  /\ Yang!Translate
  /\ modv' = Tail(modv)
  /\ UNCHANGED <<lastindent, smiVars, vars, lineVars, command, flagVars, errors, matching_driver, i, phase>>

DumpYang ==
  /\ phase = "dumping" /\ Yang!Work
  /\ UNCHANGED <<lastindent, smiVars, vars, lineVars, command, flagVars, loadVars, phase>>

MainNext ==
  \/ ParseOptions \/ LoadModule \/ CallDriver \/ OpenModule \/ DumpModule
  \/ OpenPib \/ DumpPib \/ OpenSming \/ DumpSming \/ DumpSizes \/ OpenYang \/ DumpYang

MainSpec == MainInit /\ [][MainNext]_allVars

-----------------------------------------------------------------------------
(* What a command line means, said of the places of its arguments.         *)

Needs(arg) ==
  /\ arg.form \in {"long", "short"} /\ arg.value = NULL
  /\ LET k == Line!Least(IF arg.form = "long" THEN Line!MatchLong(arg.name)
                         ELSE Line!MatchShort(Last(arg.letters)))
     IN Line!optNeedsArgument(k)

\* An argument is the value of an option, if the one before it is an option
\* without its value; behind `--' all are modules.
Role[k \in Nat] ==
  IF k = 1 THEN "module"
  ELSE IF Role[k - 1] \in {"end", "rest"} THEN "rest"
  ELSE IF Role[k - 1] = "option" /\ Needs(command[k - 1]) THEN "value"
  ELSE IF command[k].form = "end" THEN "end"
  ELSE IF command[k].form \in {"long", "short"} THEN "option" ELSE "module"

Places(roles) == SelectSeq([k \in DOMAIN command |-> k], LAMBDA k : Role[k] \in roles)
Named         == [k \in DOMAIN Places({"module", "rest"}) |-> command[Places({"module", "rest"})[k]]]

\* The names of the options in the order they were given.
Options(arg) ==
  IF arg.form = "long" THEN <<Optv[Line!Least(Line!MatchLong(arg.name))].long>>
  ELSE [k \in DOMAIN arg.letters |-> Optv[Line!Least(Line!MatchShort(arg.letters[k]))].long]
Given == FlattenSeq([k \in DOMAIN Places({"option"}) |-> Options(command[Places({"option"})[k]])])

\* The modules that were found, up to the first one of a language that the
\* driver cannot take: matching_driver is never set again.
Taken ==
  LET found == SelectSeq(Tail(Named), LAMBDA a : a.name \in DOMAIN FoundModules)
      bad   == {k \in DOMAIN found : FoundModules[found[k].name].language \in Drivers[driver]}
  IN IF bad = {} THEN found ELSE SubSeq(found, 1, Line!Least(bad) - 1)

\* The command line is heard as it was written: when the modules are loaded,
\* every option was carried out once and in its order, and no argument of an
\* option was taken for a module nor a module for an argument; and the driver
\* of the last format is given the modules in their order
\* (optParseOptions(), main() of smidump.c).
CommandHeard ==
  phase = "loading" =>
    /\ argv = Named
    /\ Given = [k \in DOMAIN done |-> Optv[done[k][1]].long]
    /\ i > Len(argv) => modv = [k \in DOMAIN Taken |-> Taken[k].name]

\* What dump-smi.c and dump-sppi.c print for each of the modules the command names
\* is a module again: every name it uses is declared in it, imported or known to
\* the language, nothing is printed twice, lists are separated, compliances are
\* whole; and what is added to a MIB that becomes a PIB takes no name or number.
\* What dump-sming.c prints has its rows in tables and its columns in rows, and
\* each block is closed but for a table or row that is not left again.
\* What smi2yang.c makes of them is YANG: prefixes stand for the modules that are
\* meant, keys are leafs of their list, leafrefs lead to the leaf of their object,
\* also in the translation of another module, and no name is used twice.
DumpSound ==
  /\ IF driver = "sppi" THEN Sppi!SppiSound
     ELSE IF driver = "sming" THEN Sming!SmingSound ELSE Smi!DumpSound
  /\ Yang!YangSound
=============================================================================
