------------------------------- MODULE Lookup -------------------------------
(***************************************************************************)
(* How applications find modules, nodes, types and macros by name or by    *)
(* number, and how numbers, nodes and types are given names: smiGetNode(), *)
(* smiGetType(), smiRenderOID() and the like (lib/smi.c), and the          *)
(* find...() functions below them (lib/smi-data.c).                        *)
(*                                                                         *)
(* What they answer depends on the modules in the order in which they were *)
(* loaded and on the view: the modules that the application asked for by   *)
(* smiLoadModule(), and not those that were loaded for an import or for    *)
(* the name of one of their nodes.                                         *)
(***************************************************************************)
EXTENDS NodeWalk

CONSTANTS
  Language,   \* of the modules, as the numbers of the enumeration
  TypesOf,    \* per module: its types [name, base, list], also those it only refers to
  MacrosOf,   \* per module: the names of its macros
  ImportsOf,  \* per module: set of [module, name]
  Statements, \* nodes with lists: [kind, elements, options, refinements]
  NoFile,     \* the name of a module that cannot be found
  Numbers     \* the object identifiers that applications ask for

IsList(s) == s \in Seq(ToSet(s))
ASSUME ListAssumption ==
  /\ \A m \in Module : /\ IsList(TypesOf[m]) /\ IsList(MacrosOf[m])
                        /\ NULL \notin ToSet(TypesOf[m]) \cup ToSet(MacrosOf[m])
  /\ \A m \in Module : \A type \in ToSet(TypesOf[m]) : IsList(type.list)
  /\ \A s \in Statements : IsList(s.elements) /\ IsList(s.options) /\ IsList(s.refinements)
ASSUME LanguageAssumption == Language \in [Module \cup {""} -> Nat]
ASSUME NumbersAssumption == Numbers \subseteq Oid \ {Nowhere}
\* The names of objects begin with a lower case letter, and the toplevel objects
\* are declared by no module.  NULL is no object.
ASSUME NameAssumption ==
  /\ Name \cap (Module \cup {NoFile, "iso", "ccitt", "joint-iso-ccitt"}) = {}
  /\ NULL \notin [mod : Module \cup {""}, oid : Oid, name : Name \cup {NULL, "iso"}]

VARIABLES
  order,      \* firstModulePtr ...
  view,       \* firstViewPtr ...
  tour,       \* smiGetFirstModule(), smiGetNextModule(), ...
  answer      \* what smiGetNode() has returned, and for which name

lookupVars == <<vars, order, view, tour, answer>>

\* A name as an application writes it: a module and a separator, or none.
Separators == {"::", "!", "."}
Simple(name)       == [first |-> name, sep |-> "", rest |-> NULL]
Full(m, sep, name) == [first |-> m, sep |-> sep, rest |-> name]
Upper(word)        == word \in Module \cup {NoFile}

\* The first index after k whose element is wanted, 0 when there is none.
NextOf(list, k, Meant(_)) ==
  LET later == {i \in DOMAIN list : i > k /\ Meant(list[i])}
  IN  IF later = {} THEN 0 ELSE CHOOSE i \in later : \A j \in later : i <= j
Each(e) == TRUE

-----------------------------------------------------------------------------
(* Names are looked for in the lists of the modules.  An object is told by *)
(* its module, its place there and its number.                             *)

ObjectsOf(m) ==
  IF m = "" THEN <<[mod |-> "", oid |-> <<1>>, name |-> "iso"]>>
  ELSE [i \in DOMAIN text[m].defs |->
          LET d == text[m].defs[i] IN [mod |-> m, oid |-> d.label \o d.subs, name |-> d.name]]

isInView(m) == m \in view

\* The first element with a name in one list, or in those of all modules.
In(list, name)  == LET k == NextOf(list, 0, LAMBDA e : e.name = name)
                   IN  IF k = 0 THEN NULL ELSE list[k]
InAll(lists, name) ==
  LET k == NextOf(order, 0, LAMBDA m : In(lists[m], name) # NULL)
  IN  IF k = 0 THEN NULL ELSE In(lists[order[k]], name)

findObjectByName(name) == InAll([m \in {order[k] : k \in DOMAIN order} |-> ObjectsOf(m)], name)

\* Mutant: a module that has not the name is left for the others.
findObjectByModuleAndName_Others(m, name) ==
  IF In(ObjectsOf(m), name) # NULL THEN In(ObjectsOf(m), name) ELSE findObjectByName(name)

\* Some toplevel objects are always known.
findObjectByModuleAndName(m, name) ==
  IF In(ObjectsOf(m), name) # NULL THEN In(ObjectsOf(m), name)
  ELSE IF name \in {"iso", "ccitt", "joint-iso-ccitt"} THEN findObjectByName(name)
  ELSE NULL

findTypeByName(name)             == InAll(TypesOf, name)
findTypeByModuleAndName(m, name) == In(TypesOf[m], name)
findMacroByName(name)             == InAll(MacrosOf, name)
findMacroByModuleAndName(m, name) == In(MacrosOf[m], name)

findModuleByName(m) == IF \E k \in DOMAIN order : order[k] = m THEN m ELSE NULL
findImportByName(name, m) == {i \in ImportsOf[m] : i.name = name}

-----------------------------------------------------------------------------
(* Numbers.                                                                *)

\* Mutant: only the whole number is looked for.
getNode_Whole(oid) == IF oid \in DOMAIN node THEN oid ELSE Nowhere

\* The deepest node on the way.
getNode(oid) ==
  LET known == {n \in 0 .. Len(oid) : n = 0 \/ SubSeq(oid, 1, n) \in DOMAIN node}
  IN  SubSeq(oid, 1, CHOOSE n \in known : \A k \in known : k <= n)

At(p, i) == [mod |-> node[p].objs[i].mod, oid |-> p, name |-> node[p].objs[i].name]

\* Of the objects of a node in the view the first of the newest language, or
\* the first one of all.
findObjectByNode(p) ==
  IF p \notin DOMAIN node THEN NULL
  ELSE LET objs == node[p].objs
           seen == {i \in DOMAIN objs : isInView(objs[i].mod)}
           Newer(i, j) == \/ Language[objs[i].mod] > Language[objs[j].mod]
                          \/ Language[objs[i].mod] = Language[objs[j].mod] /\ i < j
       IN  At(p, IF seen = {} THEN 1
                 ELSE CHOOSE i \in seen : \A j \in seen \ {i} : Newer(i, j))

findObjectByModuleAndNode(m, p) ==
  IF p \notin DOMAIN node THEN NULL
  ELSE LET k == NextOf(node[p].objs, 0, LAMBDA o : o.mod = m)
       IN  IF k = 0 THEN NULL ELSE At(p, k)

smiGetNodeByOID(oid) == IF oid = <<>> THEN NULL ELSE findObjectByNode(getNode(oid))

-----------------------------------------------------------------------------
(* The functions of the interface.  Those that take a name load the module *)
(* it tells, if it is not there yet: what they answer is defined here for  *)
(* the state after that.                                                   *)

\* Module and name of what is written, "" for no module.  Nothing is taken
\* apart when the module is an argument of its own, and behind the dot of a name
\* in lower case there is an instance identifier, which is ignored.
\* Mutant: names are taken apart at the separator of SMIng only.
getModulenameAndName_SMIng(m, written) ==
  LET qualified == m = NULL /\ Upper(written.first) /\ written.sep = "::"
  IN  [module |-> IF qualified THEN written.first ELSE IF m = NULL THEN "" ELSE m,
       name   |-> IF qualified THEN written.rest
                  ELSE IF written.sep \in {"", "."} THEN written.first ELSE NoFile]
getModulenameAndName(m, written) ==
  LET qualified == m = NULL /\ Upper(written.first) /\ written.sep \in Separators
  IN  [module |-> IF qualified THEN written.first ELSE IF m = NULL THEN "" ELSE m,
       name   |-> IF qualified THEN written.rest
                  ELSE IF written.sep \in {"", "."} THEN written.first ELSE NoFile]

\* The module that is asked: none for a simple name, and none when the module
\* cannot be loaded.
Asked(m, written) ==
  LET told == getModulenameAndName(m, written).module
  IN  IF told = "" THEN NULL ELSE findModuleByName(told)

smiGetNode(m, written) ==
  LET name == getModulenameAndName(m, written).name
  IN  IF Asked(m, written) # NULL THEN findObjectByModuleAndName(Asked(m, written), name)
      ELSE findObjectByName(name)

GetNodeByNumber(m, oid) ==
  IF m # NULL THEN findObjectByModuleAndNode(m, getNode(oid)) ELSE findObjectByNode(getNode(oid))

\* A type that is only referred to is none, also if another module defines it.
Real(type) == type.base # "UNKNOWN"
smiGetType(m, written) ==
  LET name == getModulenameAndName(m, written).name
      type == IF Asked(m, written) # NULL THEN findTypeByModuleAndName(Asked(m, written), name)
              ELSE findTypeByName(name)
  IN  IF type = NULL \/ ~Real(type) THEN NULL ELSE type

smiGetMacro(m, written) ==
  LET name == getModulenameAndName(m, written).name
  IN  IF Asked(m, written) # NULL THEN findMacroByModuleAndName(Asked(m, written), name)
      ELSE findMacroByName(name)

smiIsImported(m, from, name) ==
  \E i \in ImportsOf[m] : i.name = name /\ (from = NULL \/ i.module = from)

\* The object at the node above: that of the module an own one is imported
\* from, else any.
smiGetParentNode(object) ==
  LET up  == Front(object.oid)
      own == findObjectByModuleAndNode(object.mod, up)
      from == IF own = NULL \/ own.name = NULL THEN {} ELSE findImportByName(own.name, own.mod)
      original == IF from = {} THEN NULL
                  ELSE findObjectByModuleAndNode((CHOOSE i \in from : TRUE).module, up)
  IN  IF original # NULL THEN original ELSE findObjectByNode(up)

\* The name of the deepest node that has one, and the numbers that are left.
\* The number of sub-identifiers is the object's own: of a module that was cut
\* short it is still 0.
\* Mutant: the numbers are counted from those asked for.
Rest_Asked(oid, object) == SubSeq(oid, Len(getNode(oid)) + 1, Len(oid))
Rest(oid, object) ==
  SubSeq(oid, 1 + (IF object.mod = "" \/ text[object.mod].complete THEN Len(object.oid) ELSE 0),
         Len(oid))

smiRenderOID(oid) ==
  LET named == {n \in 1 .. Len(oid) : \/ smiGetNodeByOID(SubSeq(oid, 1, n)) = NULL
                                      \/ smiGetNodeByOID(SubSeq(oid, 1, n)).name # NULL}
      last  == CHOOSE n \in named : \A k \in named : k <= n
      found == IF named = {} THEN NULL ELSE smiGetNodeByOID(SubSeq(oid, 1, last))
  IN  IF found = NULL THEN [object |-> NULL, rest |-> oid]
      ELSE [object |-> found, rest |-> Rest(oid, found)]

\* Qualified by the module, unless that is "".
Qualified(m, name) == IF m = "" THEN Simple(name) ELSE Full(m, "::", name)
smiRenderNode(object) == IF object.name = NULL THEN NULL ELSE Qualified(object.mod, object.name)

-----------------------------------------------------------------------------
(* The lists, one element after the other.  An element is its place in the *)
(* list; 0 stands for NULL.                                                *)

smiGetFirstType(m)   == NextOf(TypesOf[m], 0, LAMBDA t : t.name # NULL /\ Real(t))
smiGetNextType(m, k) == NextOf(TypesOf[m], k, LAMBDA t : t.name # NULL /\ Real(t))
smiGetFirstMacro(m)   == NextOf(MacrosOf[m], 0, Each)
smiGetNextMacro(m, k) == NextOf(MacrosOf[m], k, Each)

Numbered == {"ENUM", "BITS"}
\* The numbers of a POINTER are one only.
smiGetFirstNamedNumber(type) ==
  IF type.base \in Numbered \cup {"POINTER"} THEN NextOf(type.list, 0, Each) ELSE 0
smiGetNextNamedNumber(type, k) ==
  IF type.base \in Numbered THEN NextOf(type.list, k, Each) ELSE 0
smiGetFirstRange(type)   == IF type.base \in Numbered THEN 0 ELSE NextOf(type.list, 0, Each)
smiGetNextRange(type, k) == IF type.base \in Numbered THEN 0 ELSE NextOf(type.list, k, Each)

smiGetFirstElement(s)   == NextOf(s.elements, 0, Each)
smiGetNextElement(s, k) == NextOf(s.elements, k, Each)
smiGetFirstOption(s)    == IF s.kind = "compliance" THEN NextOf(s.options, 0, Each) ELSE 0
smiGetNextOption(s, k)  == NextOf(s.options, k, Each)
smiGetFirstRefinement(s)   == IF s.kind = "compliance" THEN NextOf(s.refinements, 0, Each) ELSE 0
smiGetNextRefinement(s, k) == NextOf(s.refinements, k, Each)

\* The other definitions of a node, for a node with children only.
smiGetFirstAlias(p)   == IF Children(p) = {} THEN 0 ELSE 1
smiGetNextAlias(p, k) == NextOf(node[p].objs, k, Each)

\* The elements that a list of calls returns.
Toured(list, first, Next_(_)) ==
  {k \in DOMAIN list : k = first \/ \E j \in 1 .. k - 1 : Next_(j) = k}

-----------------------------------------------------------------------------
NoAnswer == [written |-> Simple(NoFile), found |-> NULL]
Idle == walk = NoWalk /\ kids = NoKids /\ tour = <<>> /\ answer = NoAnswer

LookupInit ==
  /\ Init
  /\ order = <<"">>
  /\ view = {""}
  /\ tour = <<>>
  /\ answer = NoAnswer

\* smiLoadModule() by the application.
View(m) ==
  /\ ~crashed
  /\ ~isInView(m)
  /\ IF m \in loaded THEN UNCHANGED <<vars, order>>
     ELSE smiLoadModule(m) /\ order' = Append(order, m)
  /\ view' = view \cup {m}
  /\ UNCHANGED <<tour, answer>>

\* smiGetModule(), smiGetNode(), smiGetType() and smiGetMacro() load a module
\* that is told by name, as imports do.
Mention(m) ==
  /\ smiLoadModule(m)
  /\ order' = Append(order, m)
  /\ UNCHANGED <<view, tour, answer>>

Call ==
  /\ tour = <<>> /\ answer = NoAnswer
  /\ \/ \E m \in Module, kinds \in Filters : smiGetFirstNode(m, kinds)
     \/ smiGetNextNode
     \/ \E p \in DOMAIN node : smiGetFirstChildNode(p)
     \/ smiGetNextChildNode
  /\ UNCHANGED <<order, view, tour, answer>>

\* Mutant: the list is passed from where it was at first.
NextModule_Dummy(k) == NextOf(order, k, Each)
\* The dummy module is not shown.  A tour is at the module returned last; it
\* has ended when there is none behind it.
NextModule(k) == NextOf(order, k, LAMBDA m : m # "")
smiGetFirstModule ==
  /\ Idle
  /\ NextModule(0) # 0
  /\ tour' = <<order[NextModule(0)]>>
  /\ UNCHANGED <<vars, order, view, answer>>
smiGetNextModule ==
  /\ tour # <<>>
  /\ LET k == NextModule(NextOf(order, 0, LAMBDA m : m = Last(tour)))
     IN  k # 0 /\ tour' = Append(tour, order[k])
  /\ UNCHANGED <<vars, order, view, answer>>

\* An application keeps the node that it was given for a simple name.
Ask(name) ==
  /\ Idle
  /\ smiGetNode(NULL, Simple(name)) # NULL
  /\ answer' = [written |-> Simple(name), found |-> smiGetNode(NULL, Simple(name))]
  /\ UNCHANGED <<vars, order, view, tour>>

LookupNext ==
  \/ \E m \in Module : View(m) \/ Mention(m)
  \/ \E name \in Name : Ask(name)
  \/ Call
  \/ smiGetFirstModule
  \/ smiGetNextModule

LookupSpec == LookupInit /\ [][LookupNext]_lookupVars
-----------------------------------------------------------------------------
(* Properties                                                              *)

Names   == Name \cup {"iso"}
Objects == UNION {ToSet(ObjectsOf(m)) : m \in loaded}
Unique(object, all) == \A o \in all : o.mod = object.mod /\ o.name = object.name => o = object

\* A name with its module is found in that module and nowhere else, whatever
\* the separator, and a simple name where there is one.
NamesRight ==
  LET all == Objects
  IN  /\ \A m \in loaded, name \in Name :
           LET own == smiGetNode(m, Simple(name))
           IN  /\ \A sep \in Separators : smiGetNode(NULL, Full(m, sep, name)) = own
               /\ IF \E o \in all : o.mod = m /\ o.name = name
                  THEN own \in all /\ own.mod = m /\ own.name = name
                  ELSE own = NULL
      /\ \A name \in Names :
           smiGetNode(NULL, Simple(name)) = NULL <=> name \notin {"iso"} \cup {o.name : o \in all}
      /\ \A o \in all : Unique(o, all) => smiGetNode(NULL, smiRenderNode(o)) = o

\* A number leads to the longest known part of it, and a number whose
\* definitions all have names is rendered as a name alone.  What a name and
\* the numbers behind it stand for is the number again.
NumbersRight ==
  \A oid \in Numbers :
    LET found    == smiGetNodeByOID(oid)
        rendered == smiRenderOID(oid)
    IN  /\ found # NULL <=> <<oid[1]>> \in DOMAIN node
        /\ found # NULL =>
             /\ IsPrefix(found.oid, oid)
             /\ \A p \in DOMAIN node : IsPrefix(p, oid) => Len(p) <= Len(found.oid)
        /\ \A m \in loaded : GetNodeByNumber(m, oid) # NULL => GetNodeByNumber(m, oid).mod = m
        /\ (\A m \in loaded : text[m].complete) =>
             /\ (IF rendered.object = NULL THEN <<>> ELSE rendered.object.oid) \o rendered.rest = oid
             /\ oid \in DOMAIN node /\ (\A o \in ToSet(node[oid].objs) : o.name # NULL)
                  => rendered.rest = <<>>

ParentsRight ==
  \A p \in DOMAIN node : \A i \in DOMAIN node[p].objs :
    LET parent == smiGetParentNode(At(p, i))
        above == {o \in Objects : o.oid = Front(p)}
    IN  IF Len(p) = 1 THEN parent = NULL
        ELSE /\ parent.oid = Front(p)
             /\ \A o, q \in above :
                  /\ o = findObjectByModuleAndNode(At(p, i).mod, Front(p))
                  /\ smiIsImported(o.mod, q.mod, o.name)
                  /\ \A from \in findImportByName(o.name, o.mod) : from.module = q.mod
                  => parent.mod = q.mod

\* Unless a module declares two of the same name.
OnlyOne(e, list) == \A other \in ToSet(list) : other.name = e.name => other = e
TypesRight ==
  \A m \in loaded :
    /\ \A type \in ToSet(TypesOf[m]) :
         type.name # NULL /\ Real(type) /\ OnlyOne(type, TypesOf[m])
           => smiGetType(NULL, Full(m, "::", type.name)) = type
    /\ \A macro \in ToSet(MacrosOf[m]) :
         OnlyOne(macro, MacrosOf[m]) => smiGetMacro(NULL, Full(m, "!", macro.name)) = macro

\* Names and numbers are found as smi_node(3) and smi_type(3) promise, and what
\* a simple name has once stood for it stands for as long as the library is in
\* use, whatever is loaded meanwhile: modules are appended to the list that is
\* searched from its start.
AnswerKept == answer.found # NULL => smiGetNode(NULL, answer.written) = answer.found
NamesFound ==
  /\ Idle => NamesRight /\ NumbersRight /\ ParentsRight /\ TypesRight
  /\ AnswerKept

\* Every list is passed in its order, and each element of it is returned once:
\* the children of a node also if others are inserted between two calls, and
\* the modules also if they are loaded meanwhile; of types only those that are
\* defined.
ToursSound ==
  /\ ChildrenInOrder
  /\ IsPrefix(tour, Tail(order))
  /\ Idle => \A m \in loaded :
       /\ Toured(TypesOf[m], smiGetFirstType(m), LAMBDA k : smiGetNextType(m, k))
            = {k \in DOMAIN TypesOf[m] : TypesOf[m][k].name # NULL /\ Real(TypesOf[m][k])}
       /\ Toured(MacrosOf[m], smiGetFirstMacro(m), LAMBDA k : smiGetNextMacro(m, k))
            = DOMAIN MacrosOf[m]
       /\ \A type \in ToSet(TypesOf[m]) :
            \/ type.base = "POINTER"
            \/ DOMAIN type.list =
                  Toured(type.list, smiGetFirstNamedNumber(type),
                         LAMBDA k : smiGetNextNamedNumber(type, k))
                  \cup Toured(type.list, smiGetFirstRange(type),
                              LAMBDA k : smiGetNextRange(type, k))
  /\ order = <<"">> => \A s \in Statements :
       /\ DOMAIN s.elements =
            Toured(s.elements, smiGetFirstElement(s), LAMBDA k : smiGetNextElement(s, k))
       /\ s.kind = "compliance" =>
            /\ DOMAIN s.options =
                 Toured(s.options, smiGetFirstOption(s), LAMBDA k : smiGetNextOption(s, k))
            /\ DOMAIN s.refinements =
                 Toured(s.refinements, smiGetFirstRefinement(s),
                        LAMBDA k : smiGetNextRefinement(s, k))
  /\ Idle => \A p \in DOMAIN node :
       Children(p) = {} \/ DOMAIN node[p].objs =
         Toured(node[p].objs, smiGetFirstAlias(p), LAMBDA k : smiGetNextAlias(p, k))
=============================================================================
