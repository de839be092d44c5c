------------------------------ MODULE DumpSmi ------------------------------
(***************************************************************************)
(* `smidump -f smiv1' and `-f smiv2': a module that was read is printed as *)
(* an SMIv1 or SMIv2 module (tools/dump-smi.c).  What is printed has to be *)
(* a module again: each definition once, in the macro that the language    *)
(* has for it, and every name that is used defined or imported.            *)
(*                                                                         *)
(* A definition that is printed is an item: its name, its macro, the names *)
(* it uses, and whether it is only a comment.  Clauses that hold texts or  *)
(* words of the language are left out, and so is the conversion of SPPI.   *)
(***************************************************************************)
EXTENDS Integers, Sequences, SequencesExt, FiniteSets

CONSTANTS
  Sources,     \* the modules that may be dumped
  Rank,        \* the place of a name in the order of strcmp()
  NULL

Reserved == {"INTEGER", "OCTET STRING", "OBJECT IDENTIFIER", "BITS", "iso"}

VARIABLES
  source,      \* smiModule
  smiv1, silent,
  asked,       \* the imports that createImportList() still adds
  importList,  \* sequence of <<module, name>>
  section,     \* what is printed: imports, identity, types, ...
  todo,        \* the types or nodes of the section that are left
  text         \* the items printed

vars == <<source, smiv1, silent, asked, importList, section, todo, text>>

-----------------------------------------------------------------------------
(* The tables of names that are called differently; a few rows of each.    *)

convertTypev1 ==
  [n \in {"Counter32", "Gauge32", "Integer32", "Unsigned32", "OctetString", "ObjectIdentifier"} |->
     IF n = "Counter32" THEN "Counter" ELSE IF n \in {"Gauge32", "Unsigned32"} THEN "Gauge"
     ELSE IF n = "Integer32" THEN "INTEGER"
     ELSE IF n = "OctetString" THEN "OCTET STRING" ELSE "OBJECT IDENTIFIER"]
convertTypev2 ==
  [n \in {"INTEGER", "Enumeration", "OctetString", "ObjectIdentifier", "Counter", "Gauge"} |->
     IF n = "INTEGER" THEN "Integer32" ELSE IF n = "Enumeration" THEN "INTEGER"
     ELSE IF n = "OctetString" THEN "OCTET STRING"
     ELSE IF n = "ObjectIdentifier" THEN "OBJECT IDENTIFIER"
     ELSE IF n = "Counter" THEN "Counter32" ELSE "Gauge32"]
convertImportv2 ==
  {<<"RFC1155-SMI", "enterprises", "SNMPv2-SMI", "enterprises">>,
   <<"RFC1155-SMI", "Counter", "SNMPv2-SMI", "Counter32">>,
   <<"RFC1155-SMI", "Gauge", "SNMPv2-SMI", "Gauge32">>,
   <<"RFC1213-MIB", "DisplayString", "SNMPv2-TC", "DisplayString">>}
convertImportv1 ==
  {<<"SNMPv2-SMI", "Counter32", "RFC1155-SMI", "Counter">>,
   <<"SNMPv2-SMI", "Gauge32", "RFC1155-SMI", "Gauge">>,
   <<"SNMPv2-SMI", "mib-2", "RFC1213-MIB", "mib-2">>}
  \cup {<<"SNMPv2-SMI", n, NULL, NULL>> :
          n \in {"Integer32", "Unsigned32", "Counter64", "MODULE-IDENTITY", "OBJECT-IDENTITY",
                 "OBJECT-TYPE", "NOTIFICATION-TYPE"}}

Converted(import) ==
  LET table == IF smiv1 THEN convertImportv1 ELSE convertImportv2
      rows  == {r \in table : r[1] = import[1] /\ r[2] = import[2]}
  IN IF rows = {} THEN import ELSE LET r == CHOOSE r \in rows : TRUE IN <<r[3], r[4]>>

\* named: <<module, name>> of a type, NULL for one without a name.
getTypeString(basetype, named) ==
  LET table == IF smiv1 THEN convertTypev1 ELSE convertTypev2
  IN IF named # NULL /\ basetype \notin {"ENUM", "BITS"} /\ named[2] \in DOMAIN table
     THEN table[named[2]]
     ELSE IF (named = NULL \/ named[1] = "") /\ basetype = "ENUM" THEN "INTEGER"
     ELSE IF (named = NULL \/ named[1] = "") /\ basetype = "BITS"
     THEN IF smiv1 THEN "OCTET STRING" ELSE "BITS"
     ELSE named[2]

\* Mutant: SMIv1 is said to have numbers of 64 bits.
invalidType_V2(type) == type # NULL /\ type.basetype = "INTEGER64"
invalidType(type) ==
  type # NULL /\ type.basetype \in (IF smiv1 THEN {"INTEGER64", "UNSIGNED64"} ELSE {"INTEGER64"})

-----------------------------------------------------------------------------
(* createImportList().                                                     *)

Here       == source.name
Nodes(K)   == SelectSeq(source.nodes, LAMBDA n : n.kind \in K)
Has(K)     == Nodes(K) # <<>>
IsIdentity(n) == n.name = source.identity

\* The type of a node, or the one it restricts: <<module, name>>.
Named(type) == IF type.name = NULL THEN type.parents[1] ELSE <<type.module, type.name>>

isObjectGroup(n)       == \A i \in DOMAIN n.elements : n.elements[i].kind \in {"SCALAR", "COLUMN"}
isNotificationGroup(n) == \A i \in DOMAIN n.elements : n.elements[i].kind = "NOTIFICATION"

TypeImports(n) ==
  {Named(n.type)} \cup IF ~smiv1 /\ n.type.basetype = "INTEGER32"
                       THEN {<<"SNMPv2-SMI", "Integer32">>} ELSE {}
NodeImports ==
  UNION {IF n.type = NULL THEN {} ELSE {i \in TypeImports(n) : i[1] \notin {"", Here}} :
           n \in ToSet(Nodes({"SCALAR", "COLUMN"}))}

MacroImports ==
  LET V2(m, module, cond) == IF ~smiv1 /\ cond /\ Here # module THEN {<<module, m>>} ELSE {}
      groups == Nodes({"GROUP"})
  IN (IF Has({"SCALAR", "COLUMN", "TABLE", "ROW"})
      THEN {<<IF smiv1 THEN "RFC-1212" ELSE "SNMPv2-SMI", "OBJECT-TYPE">>} ELSE {})
     \cup (IF Has({"NOTIFICATION"})
           THEN {IF smiv1 THEN <<"RFC-1215", "TRAP-TYPE">>
                 ELSE <<"SNMPv2-SMI", "NOTIFICATION-TYPE">>} ELSE {})
     \cup V2("MODULE-IDENTITY", "SNMPv2-SMI", source.identity # NULL)
     \cup V2("OBJECT-IDENTITY", "SNMPv2-SMI",
             \E n \in ToSet(Nodes({"NODE"})) : n.status /\ ~IsIdentity(n))
     \cup V2("MODULE-COMPLIANCE", "SNMPv2-CONF", Has({"COMPLIANCE"}))
     \cup V2("OBJECT-GROUP", "SNMPv2-CONF", \E g \in ToSet(groups) : isObjectGroup(g))
     \cup V2("NOTIFICATION-GROUP", "SNMPv2-CONF",
             \E g \in ToSet(groups) : ~isObjectGroup(g) /\ isNotificationGroup(g))
     \cup V2("TEXTUAL-CONVENTION", "SNMPv2-TC",
             \E t \in ToSet(source.types) : t.description)

\* Of the imports of the module the names of nodes, and all from SNMPv2-SMI.
OldImports ==
  {i \in source.imports : \/ i[2] \in source.labels \/ i[1] = "SNMPv2-SMI"
                          \/ ~smiv1 /\ i[1] = "SNMPv2-TC"}

\* Whether import i stands before import j in the list.
\* Mutant: only the modules are compared.
Before_Module(i, j) == Rank[i[1]] < Rank[j[1]]
Before(i, j) == Rank[i[1]] < Rank[j[1]] \/ (i[1] = j[1] /\ Rank[i[2]] < Rank[j[2]])

\* addImport() puts an import before the first one that is not before it.
addImport(list, import) ==
  LET later == {k \in DOMAIN list : ~Before(list[k], import)}
      k     == IF later = {} THEN Len(list) + 1
               ELSE CHOOSE k \in later : \A l \in later : k <= l
  IN IF NULL \in {import[1], import[2]} \/ (k <= Len(list) /\ list[k] = import) THEN list
     ELSE SubSeq(list, 1, k - 1) \o <<import>> \o SubSeq(list, k, Len(list))

\* createImportList() looks for the imports in three rounds; the order of
\* the nodes in a round is left open.
ThisRound ==
  IF asked \cap NodeImports # {} THEN asked \cap NodeImports
  ELSE IF asked \cap MacroImports # {} THEN asked \cap MacroImports ELSE asked

AddImport ==
  /\ section = "imports"
  /\ \E import \in ThisRound :
       /\ importList' = addImport(importList, Converted(import))
       /\ asked' = asked \ {import}
  /\ UNCHANGED <<source, smiv1, silent, section, todo, text>>

\* The tables are applied once more when the list is printed.
fprintImports ==
  SelectSeq([k \in DOMAIN importList |-> Converted(importList[k])], LAMBDA i : NULL \notin {i[1], i[2]})

EndOfImports ==
  /\ section = "imports" /\ asked = {}
  /\ importList' = fprintImports
  /\ section' = "identity"
  /\ UNCHANGED <<source, smiv1, silent, asked, todo, text>>

-----------------------------------------------------------------------------
(* What is printed: an item for a definition.  `borrowed' are the names    *)
(* that it takes from the definitions it is derived from.                  *)

Item(name, macro, uses) ==
  [name |-> name, macro |-> macro, uses |-> {u \in uses : u # NULL}, borrowed |-> {},
   comment |-> FALSE, lines |-> <<>>, clauses |-> <<>>]
Commented(item)       == [item EXCEPT !.comment = TRUE]
Borrowing(item, names) == [item EXCEPT !.borrowed = @ \cup names]

\* getOidString(): the first ancestor that the module imports or defines.
Label(n) ==
  LET known == {k \in DOMAIN n.above :
                  /\ n.above[k].name # NULL
                  /\ \/ n.above[k].name \in {i[2] : i \in source.imports}
                     \/ n.above[k].module = Here
                     \/ n.above[k].name = "iso"}
  IN IF known = {} THEN NULL
     ELSE n.above[CHOOSE k \in known : \A l \in known : k <= l].name

TypeName(type) == getTypeString(type.basetype, Named(type))

Assigned(n)      == Item(n.name, "OBJECT IDENTIFIER", {Label(n)})
Defined(n, macro, uses) == Item(n.name, macro, uses \cup {macro, Label(n)})

\* A definition of a macro that SMIv1 has not: an identifier and, unless
\* smidump is to be silent, the definition in a comment.
Macro(n, macro, uses) ==
  IF ~smiv1 THEN <<Defined(n, macro, uses)>>
  ELSE <<Assigned(n)>> \o IF silent THEN <<>> ELSE <<Commented(Defined(n, macro, uses))>>

fprintModuleIdentity ==
  LET n == CHOOSE n \in ToSet(source.nodes) : n.name = source.identity
  IN IF source.identity = NULL THEN <<>> ELSE Macro(n, "MODULE-IDENTITY", {})

fprintTypeDefinition(type) ==
  LET item == Borrowing(Item(type.name, "::=", {}),
                        {getTypeString(type.basetype, type.parents[1])})
  IN IF type.status THEN <<>>
     ELSE IF invalidType(type) THEN <<Commented(item)>> ELSE <<item>>

\* The SYNTAX of a textual convention is the last of its parents, or the
\* first that is an application type of SMIv2.
smiv2basetypes == {<<"SNMPv2-SMI", n>> : n \in {"IpAddress", "Counter32", "Gauge32", "TimeTicks", "Counter64"}}
Syntax(type) ==
  LET ends == {k \in DOMAIN type.parents : type.parents[k] \in smiv2basetypes \/ k = Len(type.parents)}
  IN type.parents[CHOOSE k \in ends : \A l \in ends : k <= l]

fprintTextualConvention(type) ==
  LET plain == Borrowing(Item(type.name, "::=", {}),
                         {getTypeString(type.basetype, type.parents[1])})
      item  == Borrowing(Item(type.name, "TEXTUAL-CONVENTION", {"TEXTUAL-CONVENTION"}),
                         {getTypeString(type.basetype, Syntax(type))})
  IN IF ~type.status THEN <<>>
     ELSE (IF smiv1 /\ ~invalidType(type) THEN <<plain>> ELSE <<>>)
          \o IF smiv1 /\ silent THEN <<>>
             ELSE IF smiv1 \/ invalidType(type) THEN <<Commented(item)>> ELSE <<item>>

\* The lines of a SEQUENCE.  A comma is printed before a column, at the end
\* of the line before, but not before the one that follows the last valid.
Unknown(c) == c.type = NULL \/ invalidType(c.type)
\* Mutant: the comma is left out before the last column.
AfterLast_End(columns) == Len(columns)
AfterLast(columns) ==
  LET valid == {k \in DOMAIN columns : ~Unknown(columns[k])}
  IN IF valid = {} THEN 0 ELSE 1 + CHOOSE k \in valid : \A l \in valid : l <= k

Column(columns, lines, k) ==
  LET c     == columns[k]
      line  == [name |-> c.name, comment |-> Unknown(c), comma |-> FALSE,
                type |-> IF c.type = NULL THEN NULL ELSE TypeName(c.type)]
      comma == k > 1 /\ k # AfterLast(columns) /\ (~Unknown(columns[k - 1]) \/ ~silent)
      ended == IF comma /\ lines # <<>> THEN [lines EXCEPT ![Len(lines)].comma = TRUE] ELSE lines
  IN IF Unknown(c) /\ silent THEN ended ELSE Append(ended, line)

SequenceOf(n) ==
  LET lines == FoldLeftDomain(LAMBDA out, k : Column(n.columns, out, k), <<>>, n.columns)
  IN [Item(n.entry, "::=", {l.type : l \in {m \in ToSet(lines) : ~m.comment}})
        EXCEPT !.lines = lines]

\* The clause that says how a row is indexed.
Indexed(item, n) ==
  CASE n.indexkind = "INDEX"   -> [item EXCEPT !.uses = @ \cup ToSet(n.index)]
    [] n.indexkind = "AUGMENT" -> IF smiv1 THEN Borrowing(item, ToSet(n.index))
                                  ELSE [item EXCEPT !.uses = @ \cup {n.related}]
    [] n.indexkind = "SPARSE"  -> Borrowing(item, ToSet(n.index))
    [] n.indexkind = NULL      -> item

fprintObject(n) ==
  LET invalid == invalidType(n.type)
      object  == Defined(n, "OBJECT-TYPE", IF n.kind \in {"TABLE", "ROW"} THEN {n.entry}
                                           ELSE IF n.type = NULL THEN {} ELSE {TypeName(n.type)})
  IN IF (invalid /\ silent /\ n.kind \in {"SCALAR", "COLUMN"}) \/ IsIdentity(n) THEN <<>>
     ELSE CASE n.kind = "NODE" ->
                 IF ~n.status \/ smiv1 THEN <<Assigned(n)>>
                 ELSE <<Defined(n, "OBJECT-IDENTITY", {})>>
            [] n.kind = "CAPABILITIES" ->
                 IF smiv1 THEN <<Assigned(n)>>
                 ELSE <<Borrowing(Item(n.name, "OBJECT-IDENTITY", {Label(n)}), {"OBJECT-IDENTITY"})>>
            [] n.kind \in {"SCALAR", "COLUMN", "TABLE"} ->
                 <<IF invalid THEN Commented(object) ELSE object>>
            [] n.kind = "ROW" -> <<Indexed(object, n), SequenceOf(n)>>

\* ENTERPRISE is the next node above with a name and a number that is not 0.
Enterprise(n) ==
  LET named == {k \in DOMAIN n.above : n.above[k].name # NULL /\ ~n.above[k].zero}
  IN n.above[CHOOSE k \in named : \A l \in named : k <= l].name

Names(elements) == {elements[i].name : i \in DOMAIN elements}
fprintNotification(n) ==
  IF smiv1 THEN <<Borrowing(Item(n.name, "TRAP-TYPE", {"TRAP-TYPE"} \cup Names(n.elements)),
                            {Enterprise(n)})>>
  ELSE <<Defined(n, "NOTIFICATION-TYPE", Names(n.elements))>>

fprintGroup(n) ==
  IF isObjectGroup(n) THEN Macro(n, "OBJECT-GROUP", Names(n.elements))
  ELSE IF isNotificationGroup(n) THEN Macro(n, "NOTIFICATION-GROUP", Names(n.elements))
  ELSE <<Assigned(n)>>

\* The MODULE clauses of a compliance: this module first, then the modules
\* of mandatory groups that have not had their clause.
From(list, module) == SelectSeq(list, LAMBDA e : e.module = module)
MandatoryModules(n) ==
  LET others == {n.elements[i].module : i \in DOMAIN n.elements} \ {Here}
      first(m) == CHOOSE i \in DOMAIN n.elements :
                    /\ n.elements[i].module = m
                    /\ \A j \in DOMAIN n.elements : n.elements[j].module = m => i <= j
  IN <<Here>> \o SetToSortSeq(others, LAMBDA a, b : first(a) < first(b))
\* Mutant: this module has a clause for its mandatory groups only.
Clauses_Groups(n) ==
  [k \in DOMAIN MandatoryModules(n) |->
     LET m == MandatoryModules(n)[k]
     IN [module |-> m, groups |-> From(n.elements, m), options |-> <<>>,
         objects |-> <<>>]]
Clauses(n) ==
  [k \in DOMAIN MandatoryModules(n) |->
     LET m == MandatoryModules(n)[k]
     IN [module |-> m, groups |-> From(n.elements, m), options |-> From(n.options, m),
         objects |-> From(n.refinements, m)]]
fprintModuleCompliance(n) ==
  LET items == Macro(n, "MODULE-COMPLIANCE", {})
  IN [k \in DOMAIN items |-> IF items[k].macro = "MODULE-COMPLIANCE"
                             THEN [items[k] EXCEPT !.clauses = Clauses(n)] ELSE items[k]]

-----------------------------------------------------------------------------
(* dumpSmi(): one section after the other.                                 *)

Objects == {"NODE", "TABLE", "ROW", "COLUMN", "SCALAR", "CAPABILITIES"}
Sections == <<"imports", "identity", "types", "conventions", "objects", "notifications",
              "groups", "compliances", "end">>
After(s) == Sections[1 + CHOOSE k \in DOMAIN Sections : Sections[k] = s]
Content(s) ==
  CASE s \in {"types", "conventions"} -> source.types
    [] s = "objects"       -> Nodes(Objects)
    [] s = "notifications" -> Nodes({"NOTIFICATION"})
    [] s = "groups"        -> Nodes({"GROUP"})
    [] s = "compliances"   -> Nodes({"COMPLIANCE"})
    [] s = "end"           -> <<>>

Init ==
  /\ source = NULL /\ smiv1 = FALSE /\ silent = FALSE /\ section = "idle"
  /\ asked = {} /\ importList = <<>> /\ todo = <<>> /\ text = <<>>

\* dumpSmiV1() and dumpSmiV2() for one of the modules.
Open(module, v1, quiet) ==
  /\ section = "idle"
  /\ source' = module /\ smiv1' = v1 /\ silent' = quiet
  /\ section' = "imports"
  /\ asked' = (NodeImports \cup MacroImports \cup OldImports)'
  /\ text' = <<>>
  /\ UNCHANGED <<importList, todo>>

\* Mutant: the list is left for the next module.
freeImportList_Not == importList
freeImportList     == <<>>

Close ==
  /\ section = "end"
  /\ section' = "idle"
  /\ importList' = freeImportList
  /\ source' = NULL /\ text' = <<>>
  /\ UNCHANGED <<smiv1, silent, asked, todo>>

EndOfSection ==
  /\ todo = <<>> /\ section \notin {"idle", "imports", "identity", "end"}
  /\ section' = After(section)
  /\ todo' = Content(section')
  /\ UNCHANGED <<source, smiv1, silent, asked, importList, text>>

PrintIdentity ==
  /\ section = "identity"
  /\ text' = text \o fprintModuleIdentity
  /\ section' = "types"
  /\ todo' = Content("types")
  /\ UNCHANGED <<source, smiv1, silent, asked, importList>>

Put(s, Items(_)) ==
  /\ section = s /\ todo # <<>>
  /\ text' = text \o Items(Head(todo))
  /\ todo' = Tail(todo)
  /\ UNCHANGED <<source, smiv1, silent, asked, importList, section>>

PrintDefinition   == Put("types", fprintTypeDefinition)
PrintConvention   == Put("conventions", fprintTextualConvention)
PrintObject       == Put("objects", fprintObject)
PrintNotification == Put("notifications", fprintNotification)
PrintGroup        == Put("groups", fprintGroup)
PrintCompliance   == Put("compliances", fprintModuleCompliance)

Work ==
  \/ AddImport \/ EndOfImports \/ PrintIdentity \/ EndOfSection
  \/ PrintDefinition \/ PrintConvention \/ PrintObject
  \/ PrintNotification \/ PrintGroup \/ PrintCompliance \/ Close

Next == Work \/ \E m \in Sources, v1, quiet \in BOOLEAN : Open(m, v1, quiet)

Spec == Init /\ [][Next]_vars

-----------------------------------------------------------------------------
(* What is printed is a module.                                            *)

Printed    == section = "end"
Definitions == {text[i] : i \in {j \in DOMAIN text : ~text[j].comment}}
Imported   == {importList[i][2] : i \in DOMAIN importList}
Known      == Reserved \cup Imported \cup {d.name : d \in Definitions}

Asked == {Converted(i) : i \in NodeImports \cup MacroImports \cup OldImports}
ImportsListed ==
  /\ \A i, j \in DOMAIN importList : i < j => Before(importList[i], importList[j])
  /\ Printed => ToSet(importList) = {i \in Asked : NULL \notin {i[1], i[2]}}

\* SMIv1 calls an Unsigned32 a Gauge and does not import that name for it.
Unnamed == IF smiv1 THEN {"Gauge"} ELSE {}
NamesKnown == Printed => \A d \in Definitions : d.uses \subseteq Known \cup Unnamed

Representable ==
  {n.name : n \in {m \in ToSet(source.nodes) : m.kind \in {"SCALAR", "COLUMN"} => ~invalidType(m.type)}}
  \cup {t.name : t \in {u \in ToSet(source.types) : ~invalidType(u)}}
  \cup {n.entry : n \in ToSet(Nodes({"ROW"}))}
PrintedOnce ==
  Printed =>
    /\ {d.name : d \in Definitions} = Representable
    /\ \A i, j \in DOMAIN text :
         i # j /\ ~text[i].comment /\ ~text[j].comment => text[i].name # text[j].name

CommasRight ==
  \A i \in DOMAIN text :
    LET lines == text[i].lines
        valid == {k \in DOMAIN lines : ~lines[k].comment}
    IN \A k \in valid : lines[k].comma = (\E l \in valid : l > k)

\* Every mandatory group is in the clause of its module, and every clause
\* holds what the compliance says of its module.
ComplianceWhole ==
  \A i \in DOMAIN text : text[i].macro = "MODULE-COMPLIANCE" =>
    LET n == CHOOSE m \in ToSet(source.nodes) : m.name = text[i].name
        c == text[i].clauses
    IN /\ c[1].module = Here
       /\ \A k, l \in DOMAIN c : c[k].module = c[l].module => k = l
       /\ \A e \in ToSet(n.elements) :
            \E k \in DOMAIN c : c[k].module = e.module /\ e \in ToSet(c[k].groups)
       /\ \A k \in DOMAIN c : /\ ToSet(c[k].options) = {o \in ToSet(n.options) : o.module = c[k].module}
                              /\ ToSet(c[k].objects) = {o \in ToSet(n.refinements) : o.module = c[k].module}

\* What smidump writes is a module: the imports are listed in the order of
\* the names and each once; every name that is used is defined, imported or
\* part of the language, but for those taken over from a parent type, a
\* related row or the enterprise of a trap; each definition that the language
\* can express stands there once, outside of comments; the columns of a
\* SEQUENCE are divided by commas; and a compliance has a clause for each
\* module with a mandatory group.
DumpSound ==
  /\ ImportsListed /\ NamesKnown /\ PrintedOnce /\ CommasRight /\ ComplianceWhole
=============================================================================
