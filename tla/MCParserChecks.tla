-------------------------- MODULE MCParserChecks ---------------------------
(***************************************************************************)
(* What the parser makes of the clauses of a module, what it checks of a   *)
(* list of named numbers, and what it checks at the END of a module: a     *)
(* behaviour is one of Declarations, of NumbersDiff or of ModuleChecks.    *)
(*                                                                         *)
(* Enumerations and bits of up to three items are written in any order,    *)
(* two of them the same where there are but two, and enumerations of two   *)
(* items with a parent, which may be declared further down.  Of the five   *)
(* items two have the same name and two the same number, and with bytes of *)
(* two bits they lie in two bytes.                                         *)
(***************************************************************************)
EXTENDS NumbersDiff

VARIABLES modules, m, loop, at, kind, grouped, required, told
ended == <<modules, m, loop, at, kind, grouped, required, told>>

VARIABLES source, decl, clause, parser, module, sem, objects, messages
read == <<source, decl, clause, parser, module, sem, objects, messages>>

R == INSTANCE ReadSources
Checks == INSTANCE ModuleChecks WITH errors <- told, Inputs <- R!SomeModules

\* The parser runs in July 2017.
Reading == INSTANCE WrittenClauses WITH
             Sources <- R!Sources, World <- R!World, Folded <- R!Letters, Now <- 25000000

VARIABLES input, step, types, identities, classes, classPtr, complaints, stage, printed, cursor
classVars == <<input, step, types, identities, classes, classPtr, complaints, stage, printed, cursor>>

\* Classes of up to three attributes, with every unique statement of up to three
\* of three names, behind another class and beside those of an imported module.
Q(n)           == <<NULL, n>>
Typedef(n, t)  == [kind |-> "typedef", name |-> n, type |-> t]
Identity(n, p) == [kind |-> "identity", name |-> n, parent |-> p]
Class(n, e)    == [kind |-> "class", name |-> n, extends |-> e]
Attr(n, t, r, a, d) ==
  [kind |-> "attribute", name |-> n, type |-> t, refined |-> r, access |-> a, default |-> d]
Plain(n)       == Attr(n, NULL, FALSE, TRUE, FALSE)
Unique(u)      == IF u = NULL THEN <<>> ELSE <<[kind |-> "unique", names |-> u]>>

Field(n)  == [name |-> n, of |-> "type", class |-> 0, access |-> TRUE, value |-> FALSE]
Loaded(n, p, as, u) ==
  [module |-> "L", name |-> n, parent |-> p, attributes |-> as, unique |-> u, scalar |-> FALSE, events |-> <<>>]
OldModule ==
  [types |-> <<[module |-> "L", name |-> "T"]>>,
   identities |-> <<[module |-> "L", name |-> "i", parent |-> 0]>>,
   classes |-> <<Loaded("A", 0, <<Field("a"), Field("l")>>, <<<<1, 1>>, <<1, 2>>>>), Loaded("L", 1, <<Field("m")>>, <<>>)>>]

Before == {<<>>} \cup
  {<<Class("A", NULL), Plain("a"), Plain("b")>> \o Unique(u) \o <<[kind |-> "event", name |-> "e"], [kind |-> "end"]>> :
     u \in {<<>>, <<"b", "a">>, <<"b", "c", "a">>}}
Bodies ==
  {<<Plain("b"), Plain("c"), Plain("d")>>,
   <<Plain("b"), Attr("a", Q("A"), FALSE, FALSE, FALSE), Plain("b")>>,
   <<Attr("a", Q("X"), FALSE, TRUE, FALSE), Plain("a"), Attr("c", Q("T"), TRUE, TRUE, TRUE)>>,
   <<Attr("c", Q("A"), TRUE, TRUE, FALSE), Attr("d", Q("L"), FALSE, TRUE, TRUE), Attr("l", NULL, FALSE, FALSE, TRUE)>>}
Of(n, U) ==
  {<<Class(n, e)>> \o b \o Unique(u) \o <<[kind |-> "end"]>> :
     e \in {NULL, Q("A"), Q("L"), Q("B"), Q("X"), <<"L", "A">>}, b \in Bodies, u \in U}
Others ==
  {<<Typedef("T", t), Identity("j", p), Identity("i", Q("j"))>> :
     t \in {NULL, Q("T"), Q("X"), <<"L", "T">>}, p \in {NULL, Q("i"), Q("j"), Q("X")}}
SmingTexts ==
  {f \o s : f \in Before, s \in Of("B", {NULL} \cup UNION {[1 .. n -> {"a", "c", "b"}] : n \in 0 .. 3})}
  \cup {f \o s : f \in Before \cup Others, s \in Of("A", {NULL, <<>>, <<"a">>})}

Sming == INSTANCE Classes WITH
           Inputs <- SmingTexts, Library <- OldModule, Imports <- [n \in {"A", "L", "T", "i"} |-> "L"],
           Here <- "M", phase <- stage, reports <- complaints

I(n, v) == [name |-> n, value |-> v]
Choice  == {I("a", 0), I("b", 1), I("c", 1), I("c", 2), I("b", 3)}
Lists   == UNION {[1 .. n -> Choice] : n \in 1 .. 2}
           \cup {l \in [1 .. 3 -> Choice] : l[1] \notin {l[2], l[3]} /\ l[2] # l[3]}

Written ==
  {[basetype |-> b, list |-> l, parent |-> NULL, forward |-> FALSE] :
     b \in {"ENUM", "BITS"}, l \in Lists}
  \cup
  {[basetype |-> "ENUM", list |-> l, parent |-> <<I("a", 0), I("c", 2)>>, forward |-> f] :
     l \in [1 .. 2 -> Choice], f \in BOOLEAN}

\* The other part stays where it has nothing left to do.
NoText    == [basetype |-> "ENUM", list |-> <<I("a", 0)>>, parent |-> NULL, forward |-> TRUE]
NoNumbers == /\ text = NoText /\ basetype = "UNKNOWN" /\ list = NoText.list
             /\ pos = 0 /\ errors = {} /\ st = "done"
             /\ phase = "end" /\ old = NoType /\ use = "type"
             /\ i = 1 /\ j = 1 /\ reports = {}
NoModules == /\ modules = <<>> /\ m = 0 /\ loop = "none" /\ at = 1
             /\ kind = <<>> /\ grouped = {} /\ required = {} /\ told = {}
NoReading == /\ source = [decls |-> <<>>] /\ decl = 3 /\ clause = 1
             /\ parser = <<>> /\ module = <<>> /\ sem = <<>> /\ objects = <<>>
             /\ messages = {}
NoClasses == /\ input = <<>> /\ step = 1 /\ types = <<>> /\ identities = <<>> /\ classes = <<>>
             /\ classPtr = 0 /\ complaints = {} /\ stage = "none" /\ printed = <<>>
             /\ cursor = <<0, 0>>

ParserInit == \/ NoModules /\ NoReading /\ NoClasses /\ Init
              \/ NoNumbers /\ NoReading /\ NoClasses /\ Checks!Init
              \/ NoNumbers /\ NoModules /\ NoClasses /\ Reading!ReadingInit
              \/ NoNumbers /\ NoModules /\ NoReading /\ Sming!Init
ParserNext == \/ (Next /\ UNCHANGED <<ended, read, classVars>>)
              \/ (Checks!Next /\ UNCHANGED <<vars, read, classVars>>)
              \/ (Reading!ReadingNext /\ UNCHANGED <<vars, ended, classVars>>)
              \/ (Sming!Next /\ UNCHANGED <<vars, ended, read>>)
ParserSpec == ParserInit /\ [][ParserNext]_<<vars, ended, read, classVars>>

\* Tables, rows, columns and scalars are told apart as they are declared, in
\* whatever order; a row is told to have a wrong SEQUENCE exactly if it has, and one of
\* which no error about tables is told has the columns and the index a table needs.
\* What no group lists and which groups no compliance statement asks for is
\* reported, and nothing else, wherever the lists stand.
ObjectsJudged == Checks!TablesSound /\ Checks!GroupsJudged

\* At the END of a module every index, row, SEQUENCE, default value, revision, import,
\* statement of compliance and variation is judged by its own text alone: nothing
\* that was read before, or broke off, changes it, except as is said there.  And
\* the classes of SMIng have the attributes and the parents that were written,
\* each second one of a name is told, a unique statement is told in its order, and
\* only what is said there stops the program.
ClausesJudged == (source.decls = <<>> \/ Reading!ClausesJudged) /\ Sming!ClassesSound
=============================================================================
