------------------------------ MODULE MCTools ------------------------------
(***************************************************************************)
(* Smidump with every command line of up to three arguments, and some of   *)
(* four; two modules of SMIv2, of which one has severe errors, one of YANG *)
(* and a name that is not found.  The drivers run for the modules of       *)
(* SmiSources, and for its nodes and worlds.                               *)
(*                                                                         *)
(* Or SmiDiff with the pairs of versions below, for which the command line *)
(* is not looked at: a behaviour is one of smidump or one of smidiff.      *)
(***************************************************************************)
EXTENDS Smidump

S == INSTANCE SmiSources

-----------------------------------------------------------------------------
(* A module with every kind of definition, and those that it becomes by    *)
(* changing, removing or adding one.                                       *)

ATypeOf(nm, b, nn, r) ==
  [name |-> nm, basetype |-> b, numbers |-> nn, value |-> NULL, decl |-> "tc",
   chain |-> [k \in DOMAIN r |-> [name |-> IF k = 1 THEN nm ELSE b, ranges |-> r[k]]],
   status |-> "current", format |-> NULL, units |-> NULL, descr |-> "a", ref |-> NULL]
ANumber(nm, v) == [name |-> nm, value |-> v]
AnEnum  == ATypeOf(NULL, "ENUM", {ANumber("a", 1), ANumber("b", 2)}, <<<<>>>>)
TheFlags  == ATypeOf("Flag", "BITS", {ANumber("a", 0)}, <<<<>>>>)
TheSize  == ATypeOf("Size", "OCTETSTRING", {}, <<<<>>, <<<<0, 4>>, <<6, 7>>>>>>)
Integer32 == ATypeOf("Integer32", "INTEGER32", {}, <<<<>>>>)

ANode(k, nm, id) ==
  [name |-> nm, oid |-> id, kind |-> k, decl |-> k, status |-> "current", access |-> "unknown",
   type |-> NULL, index |-> [kind |-> "unknown", list |-> <<>>, row |-> NULL], value |-> NULL,
   format |-> NULL, units |-> NULL, descr |-> "a", ref |-> NULL, list |-> <<>>,
   options |-> <<>>, refined |-> <<>>]
AGroup(nm, ms) == [name |-> nm, members |-> ms]
AnOption(nm, ms) == [name |-> nm, members |-> ms, descr |-> "a", ref |-> NULL]
ARefinement(nm)     == [name |-> nm, descr |-> "a", access |-> "read-only", type |-> NULL, write |-> NULL]

TheNodes ==
  <<ANode("node", "root", <<1>>),
    [ANode("scalar", "s", <<1, 1>>) EXCEPT !.type = AnEnum, !.access = "read-only", !.value = <<"ENUM", 1>>],
    ANode("table", "t", <<1, 2>>),
    [ANode("row", "e", <<1, 2, 1>>) EXCEPT !.index = [kind |-> "index", list |-> <<<<1, 2, 1, 1>>>>, row |-> NULL]],
    [ANode("column", "c", <<1, 2, 1, 1>>) EXCEPT !.type = TheSize, !.access = "read-only"],
    [ANode("notification", "n", <<1, 3>>) EXCEPT !.list = <<AGroup("s", {})>>],
    [ANode("group", "g", <<1, 4>>) EXCEPT !.list = <<AGroup("s", {})>>],
    [ANode("compliance", "k", <<1, 5>>) EXCEPT !.list = <<AGroup("g", {"s"})>>, !.options = <<AnOption("h", {"c"})>>,
                                         !.refined = <<ARefinement("s")>>]>>

TheVersion ==
  [name |-> "M", language |-> "smiv2", identity |-> TRUE, orga |-> "a", contact |-> "a", descr |-> "a",
   ref |-> NULL, revisions |-> <<[date |-> "d", descr |-> "added"], [date |-> "c", descr |-> "a"]>>,
   types |-> <<TheSize, TheFlags>>, nodes |-> TheNodes, shadowed |-> {}]

WithClause(f, x) == [TheVersion EXCEPT ![f] = x]
WithType(k, f, x) == [TheVersion EXCEPT !.types[k][f] = x]
WithRanges(r) == [TheVersion EXCEPT !.types[1] = ATypeOf(@.name, @.basetype, {}, r)]
WithNode(k, f, x) == [TheVersion EXCEPT !.nodes[k][f] = x]
WithKind(k, nm)    == [TheVersion EXCEPT !.nodes[k] = [ANode(nm, @.name, @.oid) EXCEPT
                                             !.type = IF nm = "scalar" THEN Integer32 ELSE NULL]]

OtherClauses ==
  {WithClause("language", "smiv1"), WithClause("identity", FALSE), WithClause("orga", "b"), WithClause("orga", NULL),
   WithClause("contact", NULL), WithClause("descr", "b"), WithClause("ref", "a"),
   WithClause("revisions", <<[date |-> "d", descr |-> "b"]>>),
   WithClause("revisions", <<[date |-> "e", descr |-> "a"], [date |-> "d", descr |-> "added"],
                       [date |-> "c", descr |-> "b"]>>)}
OtherTypes ==
  {WithClause("types", <<TheSize>>), WithClause("types", <<TheFlags, TheSize>>),
   WithType(2, "numbers", {ANumber("a", 0), ANumber("b", 1)}), WithType(2, "numbers", {ANumber("a", 0), ANumber("b", 9)}),
   WithType(2, "numbers", {ANumber("b", 0)}), WithRanges(<<<<>>, <<<<0, 4>>>>>>),
   WithRanges(<<<<<<0, 4>>>>, <<<<0, 4>>, <<6, 7>>>>>>), WithRanges(<<<<>>>>),
   WithType(1, "basetype", "UNKNOWN"), WithType(1, "status", "deprecated"), WithType(1, "value", <<"ENUM", 1>>),
   WithType(1, "format", "1x"), WithType(1, "units", "s"), WithType(1, "decl", "type")}
OtherNodes ==
  {WithClause("nodes", RemoveAt(TheNodes, k)) : k \in DOMAIN TheNodes}
  \cup {WithNode(k, "name", "x") : k \in DOMAIN TheNodes}
  \cup {WithNode(k, "status", s) : k \in {2, 6}, s \in {"deprecated", "unknown"}}
  \cup {WithNode(2, "access", a) : a \in {"read-write", "unknown"}}
  \cup {WithNode(2, "type", t) : t \in {NULL, Integer32, [AnEnum EXCEPT !.numbers = {ANumber("a", 1), ANumber("c", 3)}],
                                    [AnEnum EXCEPT !.name = "E"]}}
  \cup {WithNode(5, "type", ATypeOf("Size", "OCTETSTRING", {}, <<<<<<0, 4>>>>>>))}
  \cup {WithNode(2, "value", v) : v \in {NULL, <<"ENUM", 2>>, <<"INTEGER32", 2>>, <<"UNSIGNED32", 1>>, <<"OCTETSTRING", <<"x">>>>,
                                      <<"OBJECTIDENTIFIER", <<1>>>>, <<"BITS", <<>>>>}}
  \cup {WithNode(4, "index", ix) : ix \in {[kind |-> "augment", list |-> <<>>, row |-> <<9>>],
                                     [kind |-> "index", list |-> <<<<8>>>>, row |-> NULL],
                                     [kind |-> "index", list |-> <<<<1, 2, 1, 1>>, <<8>>>>, row |-> NULL]}}
  \cup {WithNode(k, "list", <<>>) : k \in 6 .. 8} \cup {WithNode(k, "list", <<AGroup("x", {"c"})>>) : k \in 6 .. 8}
  \cup {WithNode(8, "list", <<AGroup("g", {"s"}), AGroup("h", {"c"})>>), WithNode(8, "options", <<>>),
        WithNode(8, "options", <<[AnOption("h", {"c"}) EXCEPT !.descr = "b"]>>), WithNode(8, "refined", <<>>),
        WithNode(8, "refined", <<[ARefinement("s") EXCEPT !.access = "unknown"]>>),
        WithNode(8, "refined", <<[ARefinement("s") EXCEPT !.type = AnEnum]>>),
        WithNode(8, "refined", <<[ARefinement("s") EXCEPT !.write = TheSize]>>)}
  \cup {WithKind(k, nm) : k \in {1, 2, 6, 7}, nm \in {"node", "scalar", "notification", "group"}}
  \cup {WithClause("shadowed", {<<1, 1>>}), WithClause("shadowed", {<<1, 4>>})}

Changes == OtherClauses \cup OtherTypes \cup OtherNodes
SomeVersions ==
  {<<TheVersion, TheVersion>>, <<NULL, TheVersion>>, <<TheVersion, NULL>>} \cup {<<TheVersion, v>> : v \in Changes}
  \cup {<<v, TheVersion>> : v \in Changes}
  \cup {<<v, w>> : v \in {WithNode(2, "access", "unknown"), WithNode(4, "index", [kind |-> "augment", list |-> <<>>, row |-> <<7>>])},
                   w \in OtherNodes}
  \cup {<<v, w>> : v, w \in {WithClause("shadowed", {<<1, 1>>}), WithClause("shadowed", {<<1, 4>>})}}

-----------------------------------------------------------------------------
VARIABLES older, newer, compl, level, ignored, loop, at, told
diffVars == <<older, newer, compl, level, ignored, loop, at, told>>

Tables == {"named-number-added", "named-number-removed", "named-number-changed"}
Diff == INSTANCE SmiDiff WITH
  old <- older, new <- newer, reports <- told,
  Versions <- SomeVersions, Levels <- {3, 6}, Patterns <- {{}, Tables}, ByteSize <- 8,
  Compliances <- {<<NULL, NULL>>, <<"k", "k">>, <<"k", NULL>>, <<"k", "x">>}

SomeSources == S!SomeSources
SomePibs    == S!PibModules
SomeSming   == S!SmingModules
Ranks       == S!Ranks
SomeNodes   == S!SomeNodes
SomeWorlds  == S!SomeWorlds
SomePrefixes == S!SomePrefixes
Positions   == S!Positions
LargeId     == S!LargeId

O(s, l, t) == [short |-> s, long |-> l, type |-> t]
Opts == <<O("h", "help", "exit"), O("c", "config", "string"), O("l", "level", "int"), O("q", "quiet", "flag"),
          O("f", "format", "string"), O("k", "keep-going", "flag")>>
Beginnings == [nm \in {Opts[k].long : k \in DOMAIN Opts} \cup {"key", "fo", ""} |->
                 IF nm = "fo" THEN {"format"} ELSE IF nm = "" THEN {Opts[k].long : k \in DOMAIN Opts}
                 ELSE IF nm = "key" THEN {} ELSE {nm}]

Arg(f, nm, v, l) == [form |-> f, name |-> nm, value |-> v, letters |-> l]
W(nm)     == Arg("word", nm, NULL, <<>>)
L(nm, v)  == Arg("long", nm, v, <<>>)
Sh(l, v) == Arg("short", NULL, v, l)
Digits   == {W("3")}
Arguments ==
  {W("A"), W("B"), W("P"), W("no"), W("3"), W("smiv1"), W("sizes"), Arg("end", NULL, NULL, <<>>), Arg("dash", "-", NULL, <<>>),
   L("quiet", NULL), L("format", NULL), L("fo", "smiv1"), L("key", NULL), L("", NULL), L("quiet", "A"), L("level", "3"),
   Sh(<<"q", "f">>, NULL), Sh(<<"f">>, "smiv1"), Sh(<<"k", "q">>, NULL), Sh(<<"l">>, NULL), Sh(<<"c">>, "A"), Sh(<<"c">>, NULL), Sh(<<"x">>, NULL)}

Lines == UNION {[1 .. nm -> Arguments] : nm \in 0 .. 2}
         \cup {<<a, W("A"), b>> : a, b \in Arguments} 
         \cup {<<Sh(<<"q", "f">>, NULL), W(f), W("A"), a>> : f \in {"smiv1", "sizes"}, a \in Arguments}
         \cup {<<Sh(<<"q", "f">>, NULL), W("yang"), W("A"), W("A"), W("A")>>}
         \cup {<<Sh(l, NULL), W("sppi"), W("A"), W("A")>> : l \in {<<"f">>, <<"q", "f">>}}
         \cup {<<Sh(<<"f">>, NULL), W("sming"), W("A"), W("A")>>}
SomeCommands == {<<W("smidump")>> \o l : l \in Lines}

Registered == [d \in {"smiv1", "smiv2", "sizes", "sppi", "sming", "yang"} |->
                 IF d = "yang" THEN {"sppi"} ELSE IF d = "smiv1" THEN {} ELSE {"yang"}]
Found == [m \in {"A", "B", "P"} |-> [language |-> IF m = "P" THEN "yang" ELSE "smi", severe |-> m = "B"]]

\* The other part stays where it has nothing to do.
NoDiff == /\ older = NULL /\ newer = NULL /\ compl = <<NULL, NULL>> /\ level = 0
          /\ ignored = {} /\ loop = "none" /\ at = 1 /\ told = {}
NoDump == /\ command = <<>> /\ argv = command /\ Line!Init /\ lastindent = -1 /\ Smi!Init /\ Yang!Init /\ Init
          /\ default = FALSE /\ driver = "smiv2" /\ quiet = FALSE /\ keep = FALSE
          /\ errors = FALSE /\ matching_driver = TRUE /\ modv = <<>> /\ i = 2
          /\ phase = "exit"

ToolsInit == (MainInit /\ NoDiff) \/ (NoDump /\ Diff!Init)
ToolsNext == \/ (MainNext /\ UNCHANGED diffVars)
             \/ (Diff!Next /\ UNCHANGED allVars)
ToolsSpec == ToolsInit /\ [][ToolsNext]_<<allVars, diffVars>>

\* smidiff says nothing exactly of versions that are alike, and names what two
\* compliance statements do not both ask for.
DifferencesTold == Diff!DifferencesTold
=============================================================================
