------------------------------ MODULE SmiYang ------------------------------
(***************************************************************************)
(* The translation of SMI modules into YANG modules (lib/smi2yang.c), one  *)
(* module after the other: every prefix that a statement uses has to be    *)
(* declared, every key has to be a leaf, and every leafref has to lead to  *)
(* a leaf, also to one of the translation of another module.               *)
(*                                                                         *)
(* A YANG module is a sequence of statements; each one names the statement *)
(* it stands in, 0 for the module.  Statements that hold texts or numbers, *)
(* and the restrictions of types, are left out.                            *)
(***************************************************************************)
EXTENDS Integers, Sequences, SequencesExt, FiniteSets, Functions

CONSTANTS
  Worlds,     \* sets of modules: what each imports, its types and its nodes
  Nice,       \* Nice[module]: the prefixes it may have, the best one first
  Position,   \* the place of a module's name in the order of strcmp()
  NULL

VARIABLES
  world,      \* the modules that were read
  module,     \* the one that is translated
  prefixes,   \* importList: sequence of modules with their prefixes
  part,       \* the part of the translation that is done
  ahead,      \* the imports, types or nodes of this part that are left
  tree,       \* the statements of the YANG module
  yang        \* the modules translated before

vars == <<world, module, prefixes, part, ahead, tree, yang>>

-----------------------------------------------------------------------------
(* The names of types, and the imports.                                    *)

\* A few rows: of a type of the language, of one that YANG has, of those
\* that are defined in a module of YANG.
convertType ==
  [t \in {<<"", "Integer32">>, <<"", "OctetString">>, <<"", "Enumeration">>,
          <<"", "ObjectIdentifier">>, <<"SNMPv2-SMI", "Counter32">>, <<"SNMPv2-TC", "TruthValue">>,
          <<"SNMPv2-SMI", "IpAddress">>} |->
     CASE t[2] = "Integer32"        -> <<NULL, "int32">>
       [] t[2] = "OctetString"      -> <<NULL, "binary">>
       [] t[2] = "Enumeration"      -> <<NULL, "enumeration">>
       [] t[2] = "TruthValue"       -> <<NULL, "boolean">>
       [] t[2] = "ObjectIdentifier" -> <<"ietf-yang-types", "object-identifier-128">>
       [] t[2] = "Counter32"        -> <<"ietf-yang-types", "counter32">>
       [] t[2] = "IpAddress"        -> <<"ietf-inet-types", "ipv4-address">>]
convertImport == {<<"SNMPv2-SMI", "OBJECT-TYPE">>, <<"SNMPv2-TC", "TEXTUAL-CONVENTION">>}
ignoreImports == {"SNMPv2-SMI", "SNMPv2-CONF"}

Converted(named) == IF named \in DOMAIN convertType THEN convertType[named] ELSE named

guessNicePrefix(list, m) ==
  LET free == {k \in DOMAIN Nice[m] : \A i \in DOMAIN list : list[i].prefix # Nice[m][k]}
  IN IF free = {} THEN Last(Nice[m])
     ELSE Nice[m][CHOOSE k \in free : \A l \in free : k <= l]

getModulePrefix(m) ==
  LET known == {k \in DOMAIN prefixes : prefixes[k].module = m}
  IN IF known = {} THEN guessNicePrefix(prefixes, m) ELSE prefixes[CHOOSE k \in known : TRUE].prefix

syaddImport(list, m) ==
  LET before == SelectSeq(list, LAMBDA i : Position[i.module] < Position[m])
      after  == SelectSeq(list, LAMBDA i : Position[i.module] > Position[m])
  IN IF \E k \in DOMAIN list : list[k].module = m THEN list
     ELSE before \o <<[module |-> m, prefix |-> guessNicePrefix(list, m)]>> \o after

-----------------------------------------------------------------------------
(* The nodes.                                                              *)

Node(k)   == world.nodes[k]
Source    == world.modules[module]
Own(K)    == SelectSeq(Source.nodes, LAMBDA k : Node(k).kind \in K)

\* The columns or scalars below a node.  A node without a definition ends
\* the walk from child to child.
ChildrenOf(k, kind) ==
  LET holes == {i \in DOMAIN Node(k).children : Node(k).children[i] = NULL}
      end   == IF holes = {} THEN Len(Node(k).children)
               ELSE (CHOOSE i \in holes : \A j \in holes : i <= j) - 1
  IN SelectSeq(SubSeq(Node(k).children, 1, end), LAMBDA c : Node(c).kind = kind)

TypeOf(t)  == world.types[t]
NamedType(t) == IF TypeOf(t).name = NULL THEN TypeOf(t).parent ELSE t
\* The type at the end of the chain of parents.
BaseType[t \in DOMAIN world.types] ==
  IF TypeOf(t).parent = NULL THEN t ELSE BaseType[TypeOf(t).parent]

-----------------------------------------------------------------------------
(* Statements.  A reference is a sequence of prefixes and names, with the  *)
(* modules that the prefixes are to stand for.                             *)

Statement(in, keyword, name, reference) ==
  [in |-> in, keyword |-> keyword, name |-> name, reference |-> reference, of |-> NULL, key |-> <<>>]
Step(m, name) ==
  [module |-> m, prefix |-> IF m = NULL THEN NULL ELSE getModulePrefix(m), name |-> name]
Plain(name) == <<name, 1>>

smi2yangType(t) ==
  IF t = NULL THEN <<>>
  ELSE LET named == TypeOf(NamedType(t))
           c     == Converted(<<named.module, named.name>>)
       IN <<Step(c[1], c[2])>>

\* A restricted enumeration has the type enumeration itself.
smi2yangLeaf(in, k, name) ==
  LET t    == Node(k).type
      base == IF t # NULL /\ TypeOf(t).name = NULL /\ TypeOf(t).enum THEN BaseType[t] ELSE t
  IN [Statement(in, "leaf", name, smi2yangType(base)) EXCEPT !.of = k]

\* Mutant: the row is taken as it is, also one that augments another.
EntryOf_Own(k) == Node(k).parent
EntryOf(k) ==
  LET row == Node(k).parent IN IF Node(row).indexkind = "AUGMENT" THEN Node(row).related ELSE row

smi2yangLeafPath(k) ==
  LET m == Node(k).module
  IN IF Node(k).kind = "SCALAR"
     THEN LET group == Node(Node(k).parent).name
          IN <<Step(m, m)>> \o (IF group = NULL THEN <<>> ELSE <<Step(m, group)>>)
             \o <<Step(m, Node(k).name)>>
     ELSE LET table == Node(EntryOf(k)).parent
              home  == Node(table).module
          IN <<Step(home, home), Step(home, Node(table).name), Step(home, Node(EntryOf(k)).name),
               Step(m, Node(k).name)>>

smi2yangListPath(row) ==
  LET m == Node(row).module
  IN <<Step(m, m), Step(m, Node(Node(row).parent).name), Step(m, Node(row).name)>>

smi2yangLeafrefLeaf(in, k, name) ==
  [Statement(in, "leafref", name, smi2yangLeafPath(k)) EXCEPT !.of = k]

\* The name of the c-th object of an index: the second one of a name is
\* called name_2.
IndexName(elements, c) ==
  <<Node(elements[c]).name,
    1 + Cardinality({i \in 1 .. c - 1 : Node(elements[i]).name = Node(elements[c]).name})>>
smi2yangKey(row) == [c \in DOMAIN Node(row).elements |-> IndexName(Node(row).elements, c)]

\* A column of the index is a leaf as often as its name is in the index, any
\* other one if it can be read.
\* Mutant: a column of the index that cannot be read is left out.
Times_Readable(row, k) == IF Node(k).access THEN 1 ELSE 0
Times(row, k) ==
  LET c == Cardinality({i \in DOMAIN Node(row).elements : Node(Node(row).elements[i]).name = Node(k).name})
  IN IF c = 0 /\ Node(k).access THEN 1 ELSE c

smi2yangColumnarLeafs(in, row) ==
  LET columns == ChildrenOf(row, "COLUMN")
  IN FlattenSeq([i \in DOMAIN columns |->
       [n \in 1 .. Times(row, columns[i]) |->
          smi2yangLeaf(in, columns[i], <<Node(columns[i]).name, n>>)]])

smi2yangScalarLeafs(in, group) ==
  LET scalars == SelectSeq(ChildrenOf(group, "SCALAR"), LAMBDA k : Node(k).access)
  IN [i \in DOMAIN scalars |-> smi2yangLeaf(in, scalars[i], Plain(Node(scalars[i]).name))]

\* The columns of other rows in the index of a row.
\* Mutant: an object that is in the index twice is referred to once.
Foreign_Once(row, in) ==
  LET e == Node(row).elements
      f == SelectSeq([c \in DOMAIN e |-> c], LAMBDA c : /\ Node(e[c]).kind = "COLUMN"
                                                        /\ Node(e[c]).parent # row
                                                        /\ IndexName(e, c)[2] = 1)
  IN [i \in DOMAIN f |-> smi2yangLeafrefLeaf(in, e[f[i]], IndexName(e, f[i]))]
Foreign(row, in) ==
  LET e == Node(row).elements
      f == SelectSeq([c \in DOMAIN e |-> c],
                     LAMBDA c : Node(e[c]).kind = "COLUMN" /\ Node(e[c]).parent # row)
  IN [i \in DOMAIN f |-> smi2yangLeafrefLeaf(in, e[f[i]], IndexName(e, f[i]))]

-----------------------------------------------------------------------------
(* The parts of the translation.                                           *)

Parts == <<"imports", "builtins", "head", "typedefs", "identities", "toplevel", "scalars", "tables",
           "augments", "notifications", "aliases", "end">>
After(s) == Parts[1 + CHOOSE k \in DOMAIN Parts : Parts[k] = s]

\* The groups of the scalars that can be read, in the order of their first.
Groups ==
  LET scalars == SelectSeq(Own({"SCALAR"}), LAMBDA k : Node(k).access)
      AddGroup(groups, k) == IF Node(k).parent \in ToSet(groups) THEN groups ELSE Append(groups, Node(k).parent)
  IN FoldLeft(AddGroup, <<>>, scalars)

HasToplevel ==
  \/ Own({"SCALAR"}) # <<>>
  \/ \E k \in ToSet(Own({"ROW"})) : Node(k).indexkind # "AUGMENT"
Toplevel == CHOOSE i \in DOMAIN tree : tree[i].in = 0 /\ tree[i].keyword = "container"

Content(s) ==
  CASE s = "typedefs"      -> Source.types
    [] s = "identities"    -> SelectSeq(Own({"NODE"}), LAMBDA k : Node(k).macro)
    [] s = "scalars"       -> IF HasToplevel THEN Groups ELSE <<>>
    [] s = "tables"        -> IF HasToplevel THEN Own({"TABLE"}) ELSE <<>>
    [] s = "augments"      -> SelectSeq(Own({"ROW"}), LAMBDA k : Node(k).indexkind = "AUGMENT")
    [] s = "notifications" -> Own({"NOTIFICATION"})
    [] s = "aliases"       -> SelectSeq(Own({"NODE"}), LAMBDA k : Node(k).name # NULL)
    [] s \in {"builtins", "head", "toplevel", "end"} -> <<>>

Init ==
  /\ world = NULL /\ module = NULL /\ prefixes = <<>> /\ part = "idle" /\ ahead = <<>>
  /\ tree = <<>> /\ yang = <<>>

\* yangGetModuleFromSmiModule() for the next module.
Translate ==
  /\ part = "idle"
  /\ world' \in IF world = NULL THEN Worlds ELSE {world}
  /\ Cardinality(DOMAIN yang) < Len(world'.order)
  /\ module' = world'.order[1 + Cardinality(DOMAIN yang)]
  /\ ahead' = world'.modules[module'].imports
  /\ part' = "imports"
  /\ UNCHANGED <<prefixes, tree, yang>>

\* The first loop of createImportList().
\* Mutant: the import is taken as the SMI module has it.
Import_Same(i) == IF i \in convertImport THEN NULL ELSE i[1]
Import(i) == IF i \in convertImport THEN NULL ELSE Converted(i)[1]
AddImport ==
  /\ part = "imports" /\ ahead # <<>>
  /\ prefixes' = IF Import(Head(ahead)) = NULL THEN prefixes ELSE syaddImport(prefixes, Import(Head(ahead)))
  /\ ahead' = Tail(ahead)
  /\ UNCHANGED <<world, module, part, tree, yang>>

\* Types that have no module in SMI have one in YANG.
NeedsIdentifier ==
  \/ \E t \in ToSet(Source.types) : TypeOf(TypeOf(t).parent).name = "ObjectIdentifier"
  \/ \E k \in ToSet(Own({"SCALAR", "COLUMN"})) :
       Node(k).type # NULL /\ TypeOf(NamedType(Node(k).type)).name = "ObjectIdentifier"
AddBuiltins ==
  /\ part = "builtins"
  /\ LET list == syaddImport(prefixes, "ietf-yang-smiv2")
     IN prefixes' = IF NeedsIdentifier THEN syaddImport(list, "ietf-yang-types") ELSE list
  /\ part' = "head"
  /\ UNCHANGED <<world, module, ahead, tree, yang>>

\* smi2yangNamespace() and smi2yangImports().
PutHead ==
  /\ part = "head"
  /\ LET listed == SelectSeq(prefixes, LAMBDA i : i.module \notin ignoreImports)
     IN tree' = <<Statement(0, "prefix", Plain(getModulePrefix(module)), <<Step(module, module)>>)>>
                \o [i \in DOMAIN listed |->
                      Statement(0, "import", Plain(listed[i].module), <<Step(listed[i].module, listed[i].module)>>)]
  /\ part' = "typedefs" /\ ahead' = Content("typedefs")
  /\ UNCHANGED <<world, module, prefixes, yang>>

PutToplevel ==
  /\ part = "toplevel"
  /\ tree' = IF HasToplevel THEN Append(tree, Statement(0, "container", Plain(module), <<>>)) ELSE tree
  /\ part' = "scalars" /\ ahead' = Content("scalars")
  /\ UNCHANGED <<world, module, prefixes, yang>>

EndOfPart ==
  /\ ahead = <<>> /\ part \notin {"idle", "builtins", "head", "toplevel", "end"}
  /\ part' = After(part)
  /\ ahead' = Content(part')
  /\ UNCHANGED <<world, module, prefixes, tree, yang>>

\* The next of the definitions of a part; the first statement of a
\* definition that has more than one is number `here'.
here == Len(tree) + 1
Put(s, Statements(_)) ==
  /\ part = s /\ ahead # <<>>
  /\ tree' = tree \o Statements(Head(ahead))
  /\ ahead' = Tail(ahead)
  /\ UNCHANGED <<world, module, prefixes, part, yang>>

Typedef(t) == <<Statement(0, "typedef", Plain(TypeOf(t).name), smi2yangType(TypeOf(t).parent))>>
Identity(k) == <<Statement(0, "identity", Plain(Node(k).name), <<>>)>>
Alias(k) == <<[Statement(0, "alias", Plain(Node(k).name), <<>>) EXCEPT !.of = k]>>

Scalars(group) ==
  <<[Statement(Toplevel, "container", Plain(Node(group).name), <<>>) EXCEPT !.of = group]>>
  \o smi2yangScalarLeafs(here, group)

Table(k) ==
  LET row == Node(k).children[1]
  IN IF Node(row).indexkind \in {"INDEX", "REORDER", "SPARSE", "EXPAND"}
     THEN <<Statement(Toplevel, "container", Plain(Node(k).name), <<>>),
            [Statement(here, "list", Plain(Node(row).name), <<>>) EXCEPT !.key = smi2yangKey(row), !.of = row]>>
          \o Foreign(row, here + 1) \o smi2yangColumnarLeafs(here + 1, row)
     ELSE <<>>

Augment(row) ==
  Alias(Node(row).parent) \o Alias(row)
  \o <<Statement(0, "augment", Plain(Node(row).name), smi2yangListPath(Node(row).related))>>
  \o smi2yangColumnarLeafs(here + 2, row)

NotificationIndex(in, row, ignore) ==
  LET index == SelectSeq(Node(row).elements, LAMBDA k : k # ignore)
  IN [i \in DOMAIN index |-> smi2yangLeafrefLeaf(in, index[i], Plain(Node(index[i]).name))]

\* The container of the c-th object of a notification is number `in'.
Object(k, c, in) ==
  LET row == IF Node(k).kind = "COLUMN" THEN Node(k).parent ELSE NULL
  IN <<Statement(here, "container", <<"object", c>>, <<>>)>>
     \o (IF row # NULL /\ Node(row).indexkind \in {"INDEX", "AUGMENT"}
         THEN NotificationIndex(in, EntryOf(k), k) ELSE <<>>)
     \o (IF Node(k).access THEN <<smi2yangLeafrefLeaf(in, k, Plain(Node(k).name))>>
         ELSE <<smi2yangLeaf(in, k, Plain(Node(k).name))>>)

Notification(k) ==
  LET objects == Node(k).elements
      AddObject(out, c) == out \o Object(objects[c], c, Len(tree) + Len(out) + 1)
  IN FoldLeftDomain(AddObject, <<Statement(0, "notification", Plain(Node(k).name), <<>>)>>, objects)

PutTypedef      == Put("typedefs", Typedef)
PutIdentity     == Put("identities", Identity)
PutScalars      == Put("scalars", Scalars)
PutTable        == Put("tables", Table)
PutAugment      == Put("augments", Augment)
PutNotification == Put("notifications", Notification)
PutAlias        == Put("aliases", Alias)

\* freeImportList(), and the module is there.
\* Mutant: the list is left for the next module.
freeImportList_Not == prefixes
freeImportList     == <<>>
Finish ==
  /\ part = "end"
  /\ yang' = yang @@ (module :> tree)
  /\ tree' = <<>> /\ prefixes' = freeImportList
  /\ part' = "idle"
  /\ UNCHANGED <<world, module, ahead>>

Work ==
  \/ AddImport \/ AddBuiltins \/ PutHead \/ PutToplevel \/ EndOfPart
  \/ PutTypedef \/ PutIdentity \/ PutScalars \/ PutTable \/ PutAugment
  \/ PutNotification \/ PutAlias \/ Finish

-----------------------------------------------------------------------------
(* What is translated is a YANG module.                                    *)

Modules(m) ==
  {m, "ietf-yang-smiv2"} \cup ({Import(i) : i \in ToSet(world.modules[m].imports)} \ {NULL})
Declared(m) ==
  {yang[m][i].reference[1] : i \in {j \in DOMAIN yang[m] : yang[m][j].keyword \in {"prefix", "import"}}}

\* An object of another module may lead to modules that are not imported:
\* those of its type, of its table and of the index of its row.
Borrowed(m) == {i \in DOMAIN yang[m] : yang[m][i].of # NULL /\ world.nodes[yang[m][i].of].module # m}

\* A module whose name begins the name of another has only the prefix that
\* the other may have got before.
Shared(m, p) == \E d \in Declared(m) : d.prefix = p /\ p # Last(Nice[d.module])

\* Nothing is left of the imports of the module translated before.
ImportsNeeded ==
  \A m \in DOMAIN yang : {d.module : d \in Declared(m)} \subseteq Modules(m) \cup {"ietf-yang-types"}

\* A step of a reference names the module that the prefix is declared for.
PrefixesDeclared ==
  \A m \in DOMAIN yang : \A i \in DOMAIN yang[m] : \A r \in ToSet(yang[m][i].reference) :
    r.prefix # NULL =>
      \/ {d.module : d \in {e \in Declared(m) : e.prefix = r.prefix}} = {r.module}
      \/ Shared(m, r.prefix)
      \/ i \in Borrowed(m) /\ r.module \notin Modules(m)

\* The place of statement i in the tree of data.
Place(m) ==
  LET S == yang[m]
      place[i \in 0 .. Len(S)] ==
        IF i = 0 THEN <<>>
        ELSE IF S[i].keyword = "augment"
        THEN [k \in DOMAIN S[i].reference |-> <<S[i].reference[k].module, <<S[i].reference[k].name, 1>>>>]
        ELSE Append(place[S[i].in], <<m, S[i].name>>)
  IN place
Leafs(m) == {i \in DOMAIN yang[m] : yang[m][i].keyword \in {"leaf", "leafref"}}

\* The columns and scalars that the translation of their module has: not a
\* column that cannot be read and is in no index, not what stands behind a
\* node without a definition, nothing of a table without an index.
Shown(k) ==
  LET p == world.nodes[k].parent
  IN /\ world.nodes[p].name # NULL
     /\ k \in ToSet(ChildrenOf(p, world.nodes[k].kind))
     /\ world.nodes[k].kind = "COLUMN" => world.nodes[p].indexkind # NULL /\ Times(p, k) > 0
     /\ world.nodes[k].kind = "SCALAR" => world.nodes[k].access

LeafrefsLead ==
  \A m \in DOMAIN yang : \A i \in Leafs(m) : yang[m][i].keyword = "leafref" =>
    LET r      == yang[m][i].reference
        target == [k \in DOMAIN r |-> <<r[k].module, <<r[k].name, 1>>>>]
        home   == Last(r).module
    IN home \in DOMAIN yang =>
         ((\E j \in Leafs(home) : Place(home)[j] = target) <=> Shown(yang[m][i].of))

\* The index of a list: a scalar in it gets no leaf, and a column of the
\* list and one of another module that have the same name are mixed up.
MixedUp(row) ==
  LET e == world.nodes[row].elements
  IN \E c \in DOMAIN e : \/ world.nodes[e[c]].kind # "COLUMN"
                         \/ \E d \in DOMAIN e : /\ e[c] # e[d]
                                                /\ world.nodes[e[c]].name = world.nodes[e[d]].name
KeysAreLeafs ==
  \A m \in DOMAIN yang : \A i \in DOMAIN yang[m] : yang[m][i].keyword = "list" /\ ~MixedUp(yang[m][i].of) =>
    \A c \in DOMAIN yang[m][i].key :
      Cardinality({j \in Leafs(m) : yang[m][j].in = i /\ yang[m][j].name = yang[m][i].key[c]}) = 1

\* Names are used once.  Where they are not, two modules have an object of
\* this name, or a notification refers to a row whose index has one twice.
Data(m) == {i \in DOMAIN yang[m] : yang[m][i].keyword \in {"leaf", "leafref", "container", "list", "notification"}}
SiblingsUnique ==
  \A m \in DOMAIN yang : \A i, j \in Data(m) :
    LET s == yang[m][i]
        t == yang[m][j]
    IN i < j /\ s.in = t.in /\ s.name = t.name =>
         /\ s.of # NULL /\ t.of # NULL
         /\ IF s.of = t.of THEN yang[m][s.in].name[1] = "object" /\ s.keyword = "leafref"
            ELSE world.nodes[s.of].module # world.nodes[t.of].module

\* What the tools promise of the translation.
YangSound == ImportsNeeded /\ PrefixesDeclared /\ LeafrefsLead /\ KeysAreLeafs /\ SiblingsUnique
=============================================================================
