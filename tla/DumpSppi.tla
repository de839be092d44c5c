------------------------------ MODULE DumpSppi ------------------------------
(***************************************************************************)
(* `smidump -f sppi' (tools/dump-sppi.c): a PIB is printed as it is, and a *)
(* MIB is turned into a PIB.  To each row of a MIB a column InstanceId is  *)
(* added, which becomes its PIB-INDEX, and to the module an identity, a    *)
(* group with all columns, and a compliance statement that asks for it.    *)
(*                                                                         *)
(* Items and the state are those of DumpSmi, to which this driver is a     *)
(* sister.  Texts, defaults, ranges and PIB-REFERENCES are left out.       *)
(***************************************************************************)
EXTENDS Integers, Sequences, SequencesExt, FiniteSets

CONSTANTS PibSources, Rank, NULL

VARIABLES
  source,      \* smiModule
  silent,
  asked, importList, section, todo, text      \* as in DumpSmi

vars == <<source, silent, asked, importList, section, todo, text>>

Smi == INSTANCE DumpSmi WITH smiv1 <- FALSE, Sources <- PibSources

mibtopib  == source.language # "sppi"
Here      == source.name
Nodes(K)  == Smi!Nodes(K)
Has(K)    == Smi!Has(K)

-----------------------------------------------------------------------------
(* Names that are called differently.                                      *)

convertType ==
  [n \in {"INTEGER", "Bits", "OctetString", "ObjectIdentifier", "IpAddress", "Counter64", "Counter32", "Gauge32"} |->
     IF n = "INTEGER" THEN "Integer32" ELSE IF n = "Bits" THEN "BITS"
     ELSE IF n = "OctetString" THEN "OCTET STRING"
     ELSE IF n = "ObjectIdentifier" THEN "OBJECT IDENTIFIER"
     ELSE IF n = "IpAddress" THEN "InetAddress"
     ELSE IF n = "Counter64" THEN "Unsigned64" ELSE "Unsigned32"]
convertImport(import) ==
  IF import \in ({"SNMPv2-SMI"} \X {"Integer32", "Unsigned32", "TimeTicks", "MODULE-IDENTITY",
                                    "MODULE-COMPLIANCE", "OBJECT-TYPE", "OBJECT-IDENTITY"})
                \cup {<<"SNMPv2-TC", "TEXTUAL-CONVENTION">>}
  THEN <<"COPS-PR-SPPI", import[2]>>
  ELSE IF import = <<"SNMPv2-SMI", "IpAddress">> THEN <<"INET-ADDRESS-MIB", "InetAddress">>
  ELSE import

getTypeString(basetype, named) ==
  LET plain == basetype \notin {"ENUM", "BITS"}
  IN IF plain /\ mibtopib /\ named[2] = "SnmpAdminString" THEN "OCTET STRING"
     ELSE IF plain /\ named[2] \in DOMAIN convertType THEN convertType[named[2]]
     ELSE IF named[1] = "" /\ basetype = "ENUM" THEN "INTEGER"
     ELSE IF named[1] = "" /\ basetype = "BITS" THEN "BITS" ELSE named[2]
TypeName(type) == getTypeString(type.basetype, Smi!Named(type))

isSmiOnlyType(name) == name \in {"Counter32", "Counter64", "Gauge32"}
invalidType(type)   == type # NULL /\ type.basetype \in {"FLOAT32", "FLOAT64", "FLOAT128"}

-----------------------------------------------------------------------------
(* createImportList().                                                     *)

Sppi(names) == {"COPS-PR-SPPI"} \X names

\* SPPI has four types of numbers, and imports each where it is the base.
BaseImport(type) ==
  Sppi(IF type.basetype = "INTEGER32" THEN {"Integer32"}
       ELSE IF type.basetype = "INTEGER64" THEN {"Integer64"}
       ELSE IF type.basetype = "UNSIGNED32" THEN {"Unsigned32"}
       ELSE IF type.basetype = "UNSIGNED64" THEN {"Unsigned64"} ELSE {})

NodeImports ==
  UNION {LET named == Smi!Named(n.type)
         IN BaseImport(n.type)
            \cup IF named[1] \in {"", Here} \/ isSmiOnlyType(named[2]) THEN {} ELSE {named} :
           n \in {m \in ToSet(Nodes({"SCALAR", "COLUMN"})) : m.type # NULL}}

\* Mutant: the added column's type is not imported.
ConversionImports_Column ==
  IF ~mibtopib THEN {}
  ELSE {<<"TUBS-SMI", "ibrmibtopib">>}
       \cup IF ~Has({"COLUMN"}) THEN {} ELSE Sppi({"MODULE-COMPLIANCE", "OBJECT-GROUP", "OBJECT-IDENTITY"})
ConversionImports ==
  IF ~mibtopib THEN {}
  ELSE {<<"TUBS-SMI", "ibrmibtopib">>}
       \cup IF ~Has({"COLUMN"}) THEN {}
            ELSE Sppi({"MODULE-COMPLIANCE", "OBJECT-GROUP", "OBJECT-IDENTITY"})
                 \cup {<<"COPS-PR-SPPI-TC", "InstanceId">>}

\* The module COPS-PR-SPPI does not import its own macros, but OBJECT-TYPE.
MacroImports ==
  LET Macro(cond, name) == IF cond /\ Here # "COPS-PR-SPPI" THEN Sppi({name}) ELSE {}
  IN (IF Has({"SCALAR", "COLUMN", "TABLE", "ROW"}) THEN Sppi({"OBJECT-TYPE"}) ELSE {})
     \cup Macro(source.identity # NULL, "MODULE-IDENTITY")
     \cup Macro(\E n \in ToSet(Nodes({"NODE"})) : n.status /\ ~Smi!IsIdentity(n), "OBJECT-IDENTITY")
     \cup Macro(Has({"COMPLIANCE"}), "MODULE-COMPLIANCE")
     \cup Macro(Has({"GROUP"}), "OBJECT-GROUP")
     \cup Macro(\E t \in ToSet(source.types) : t.description, "TEXTUAL-CONVENTION")
     \cup UNION {BaseImport(t) : t \in {u \in ToSet(source.types) : u.status}}

OldImports ==
  {i \in source.imports : /\ i[2] \in source.labels \/ i[1] \in {"SNMPv2-SMI", "SNMPv2-TC"}
                          /\ ~isSmiOnlyType(i[2])}

AllImports == ConversionImports \cup NodeImports \cup MacroImports \cup OldImports

\* The order in which names are added does not matter to a sorted list.
AddImport ==
  /\ section = "imports" /\ asked # {}
  /\ LET import == CHOOSE i \in asked : TRUE
     IN /\ importList' = Smi!addImport(importList, convertImport(import))
        /\ asked' = asked \ {import}
  /\ UNCHANGED <<source, silent, section, todo, text>>

fprintImports == [k \in DOMAIN importList |-> convertImport(importList[k])]
EndOfImports ==
  /\ section = "imports" /\ asked = {}
  /\ importList' = fprintImports
  /\ section' = "identity"
  /\ UNCHANGED <<source, silent, asked, todo, text>>

-----------------------------------------------------------------------------
(* The items.  `body' says whether the clauses are a comment, `at' is the  *)
(* node and the number in it that the item is assigned.                    *)

Item(name, macro, uses, at) ==
  [name |-> name, macro |-> macro, uses |-> {u \in uses : u # NULL}, comment |-> FALSE,
   body |-> FALSE, at |-> at, lines |-> <<>>, index |-> <<>>, clauses |-> <<>>]
At(n)                   == <<Smi!Label(n), n.number>>
Assigned(n)             == Item(n.name, "OBJECT IDENTIFIER", {Smi!Label(n)}, At(n))
Defined(n, macro, uses) == Item(n.name, macro, uses \cup {macro, Smi!Label(n)}, At(n))
Commented(item)         == [item EXCEPT !.comment = TRUE, !.body = TRUE]

Identity == CHOOSE n \in ToSet(source.nodes) : Smi!IsIdentity(n)

\* A module that is converted gets a new place.
fprintModuleIdentity ==
  IF source.identity = NULL THEN <<>>
  ELSE <<IF mibtopib THEN Item(source.identity, "MODULE-IDENTITY", {"MODULE-IDENTITY", "ibrmibtopib"},
                               <<"ibrmibtopib", Identity.number>>)
         ELSE Defined(Identity, "MODULE-IDENTITY", {})>>

\* The type that another one is defined by.
Syntax(type) == getTypeString(type.basetype, type.parents[1])
fprintTypeDefinition(type) ==
  LET item == Item(type.name, "::=", {Syntax(type)}, NULL)
  IN IF type.status THEN <<>> ELSE <<IF invalidType(type) THEN Commented(item) ELSE item>>

\* The clauses may be a comment, the name and the macro are not.
fprintTextualConvention(type) ==
  LET uses == {"TEXTUAL-CONVENTION"} \cup IF invalidType(type) THEN {} ELSE {Syntax(type)}
  IN IF ~type.status THEN <<>>
     ELSE <<[Item(type.name, "TEXTUAL-CONVENTION", uses, NULL) EXCEPT !.body = invalidType(type)]>>

InstanceId(table) == table \o "InstanceId"

\* AUGMENTS and EXTENDS name the other row, an INDEX of a MIB is the new
\* column and the old index; the first of a PIB is the PIB-INDEX.
fprintIndex(n) ==
  CASE n.indexkind \in {"AUGMENT", "SPARSE"} -> <<n.related>>
    [] n.indexkind = "INDEX" -> IF mibtopib THEN <<InstanceId(n.table)>> \o n.index ELSE n.index
    [] OTHER -> <<>>

\* The lines of a SEQUENCE, with commas as in DumpSmi.
Unknown(c) == c.type = NULL \/ invalidType(c.type)
AfterLast(columns) ==
  LET valid == {k \in DOMAIN columns : ~Unknown(columns[k])}
  IN IF valid = {} THEN 0 ELSE 1 + Max(valid)
Comma(lines) == IF lines = <<>> THEN <<[name |-> NULL, comment |-> FALSE, comma |-> TRUE, type |-> NULL]>>
                ELSE [lines EXCEPT ![Len(lines)].comma = TRUE]
Column(columns, lines, k) ==
  LET c     == columns[k]
      comma == k > 1 /\ k # AfterLast(columns) /\ (~Unknown(columns[k - 1]) \/ ~silent)
      ended == IF comma /\ lines # <<>> THEN Comma(lines) ELSE lines
  IN IF Unknown(c) /\ silent THEN ended
     ELSE Append(ended, [name |-> c.name, comment |-> Unknown(c), comma |-> FALSE,
                         type |-> IF c.type = NULL THEN NULL ELSE TypeName(c.type)])
SequenceOf(n) ==
  LET lines == FoldLeftDomain(LAMBDA out, k : Column(n.columns, out, k), <<>>, n.columns)
      all   == IF ~mibtopib THEN lines
               ELSE Append(Comma(lines), [name |-> InstanceId(n.table), comment |-> FALSE,
                                          comma |-> FALSE, type |-> "InstanceId"])
  IN [Item(n.entry, "::=", {l.type : l \in {m \in ToSet(all) : ~m.comment}}, NULL) EXCEPT !.lines = all]

\* The new column has a number behind those of all others.
\* Mutant: the number is that of the last column if there are many.
NewNumber_Last(n) == Max({n.columns[k].number : k \in DOMAIN n.columns} \cup {128})
NewNumber(n)      == Max({n.columns[k].number + 1 : k \in DOMAIN n.columns} \cup {128})
NewColumn(n) ==
  Item(InstanceId(n.table), "OBJECT-TYPE", {"OBJECT-TYPE", "InstanceId", n.name}, <<n.name, NewNumber(n)>>)

Types(n) == IF n.kind \in {"TABLE", "ROW"} THEN {n.entry} ELSE IF n.type = NULL THEN {} ELSE {TypeName(n.type)}
fprintObject(n) ==
  LET object == [Defined(n, "OBJECT-TYPE", Types(n) \cup ToSet(fprintIndex(n))) EXCEPT !.index = fprintIndex(n)]
  IN IF (invalidType(n.type) /\ silent /\ n.kind \in {"SCALAR", "COLUMN"}) \/ Smi!IsIdentity(n) THEN <<>>
     ELSE CASE n.kind = "NODE" -> <<IF n.status THEN Defined(n, "OBJECT-IDENTITY", {}) ELSE Assigned(n)>>
            [] n.kind \in {"SCALAR", "COLUMN", "TABLE"} -> <<IF invalidType(n.type) THEN Commented(object) ELSE object>>
            [] n.kind = "ROW" -> <<object, SequenceOf(n)>> \o IF mibtopib THEN <<NewColumn(n)>> ELSE <<>>

fprintGroup(n) ==
  <<IF Smi!isObjectGroup(n) THEN Defined(n, "OBJECT-GROUP", Smi!Names(n.elements)) ELSE Assigned(n)>>

fprintModuleCompliance(n) ==
  <<[Defined(n, "MODULE-COMPLIANCE", {}) EXCEPT !.clauses = Smi!Clauses(n)]>>

\* What is added to a MIB.  Its number is looked for among the children of
\* no node, so that it always is 128.
newId         == source.identity \o "MIBtoPIBCompliance"
newCompliance == source.identity \o "MIBtoPIBModuleComp"
newGroup      == source.identity \o "MIBtoPIBGroup"
Added ==
  <<Item(newId, "OBJECT-IDENTITY", {"OBJECT-IDENTITY", source.identity}, <<source.identity, 128>>),
    [Item(newCompliance, "MODULE-COMPLIANCE", {"MODULE-COMPLIANCE", newId}, <<newId, 1>>)
       EXCEPT !.clauses = <<[module |-> Here, groups |-> <<[name |-> newGroup]>>]>>],
    Item(newGroup, "OBJECT-GROUP",
         {"OBJECT-GROUP", newId} \cup {n.name : n \in ToSet(Nodes({"COLUMN"}))}
           \cup {InstanceId(n.table) : n \in ToSet(Nodes({"ROW"}))}, <<newId, 2>>)>>

-----------------------------------------------------------------------------
(* doDumpSppi(): one section after the other.                              *)

Sections == <<"imports", "identity", "types", "conventions", "objects", "groups", "compliances", "end">>
After(s) == Sections[1 + CHOOSE k \in DOMAIN Sections : Sections[k] = s]
Content(s) ==
  CASE s \in {"types", "conventions"} -> source.types
    [] s = "objects"     -> Nodes({"NODE", "TABLE", "ROW", "COLUMN", "SCALAR"})
    [] s = "groups"      -> Nodes({"GROUP"})
    [] s = "compliances" -> Nodes({"COMPLIANCE"})
    [] s = "end"         -> <<>>

Open(module, quiet) ==
  /\ section = "idle"
  /\ source' = module /\ silent' = quiet
  /\ section' = "imports" /\ asked' = AllImports' /\ text' = <<>>
  /\ UNCHANGED <<importList, todo>>

PrintIdentity ==
  /\ section = "identity"
  /\ text' = text \o fprintModuleIdentity
  /\ section' = "types" /\ todo' = Content("types")
  /\ UNCHANGED <<source, silent, asked, importList>>

EndOfSection ==
  /\ todo = <<>> /\ section \in {"types", "conventions", "objects", "groups"}
  /\ section' = After(section) /\ todo' = Content(section')
  /\ UNCHANGED <<source, silent, asked, importList, text>>

PrintAdded ==
  /\ section = "compliances" /\ todo = <<>>
  /\ text' = IF mibtopib /\ source.identity # NULL THEN text \o Added ELSE text
  /\ section' = "end"
  /\ UNCHANGED <<source, silent, asked, importList, todo>>

Put(s, Items(_)) ==
  /\ section = s /\ todo # <<>>
  /\ text' = text \o Items(Head(todo))
  /\ todo' = Tail(todo)
  /\ UNCHANGED <<source, silent, asked, importList, section>>
PrintDefinition == Put("types", fprintTypeDefinition)
PrintConvention == Put("conventions", fprintTextualConvention)
PrintObject     == Put("objects", fprintObject)
PrintGroup      == Put("groups", fprintGroup)
PrintCompliance == Put("compliances", fprintModuleCompliance)

freeImportList == <<>>
Close ==
  /\ section = "end"
  /\ section' = "idle" /\ importList' = freeImportList
  /\ source' = NULL /\ text' = <<>>
  /\ UNCHANGED <<silent, asked, todo>>

Work ==
  \/ AddImport \/ EndOfImports \/ PrintIdentity \/ EndOfSection \/ PrintDefinition \/ PrintConvention
  \/ PrintObject \/ PrintGroup \/ PrintCompliance \/ PrintAdded \/ Close

-----------------------------------------------------------------------------
(* What is printed is a PIB.                                               *)

Printed     == section = "end"
Definitions == {text[i] : i \in {j \in DOMAIN text : ~text[j].comment}}
Known       == Smi!Reserved \cup {importList[i][2] : i \in DOMAIN importList} \cup {d.name : d \in Definitions}

\* An object with a float is a comment, though groups may name it; and the
\* macros of what is added are imported only for the sake of columns.
Floats  == {n.name : n \in {m \in ToSet(source.nodes) : invalidType(m.type)}}
Lacking == IF mibtopib /\ ~Has({"COLUMN"})
           THEN {"MODULE-COMPLIANCE", "OBJECT-GROUP", "OBJECT-IDENTITY"} ELSE {}
NamesKnown == Printed => \A d \in Definitions : d.uses \subseteq Known \cup Floats \cup Lacking

ImportsListed ==
  /\ \A i, j \in DOMAIN importList : i < j => Smi!Before(importList[i], importList[j])
  /\ Printed => ToSet(importList) = {convertImport(i) : i \in AllImports}

Kept == {n \in ToSet(source.nodes) : n.kind \notin {"NOTIFICATION", "CAPABILITIES"} /\ n.name \notin Floats}
PrintedOnce ==
  Printed =>
    /\ {n.name : n \in Kept} \subseteq {d.name : d \in Definitions}
    /\ \A i, j \in DOMAIN text : i # j /\ ~text[i].comment /\ ~text[j].comment => text[i].name # text[j].name

\* No two nodes get one number, but for a child 128 of the module's identity.
NumbersFree ==
  Printed => \A d, e \in Definitions :
    d # e /\ d.at # NULL /\ d.at = e.at => source.identity # NULL /\ newId \in {d.name, e.name}

\* The clauses are a comment exactly if the definition is, but for textual
\* conventions of floats.
BodiesFollow ==
  \A i \in DOMAIN text : text[i].comment = text[i].body \/ text[i].macro = "TEXTUAL-CONVENTION"

\* The new column is in the SEQUENCE, the index, the group and the text; a
\* comma is lost only behind a float that is the last column.
Rows == {n \in ToSet(Nodes({"ROW"})) : \A k \in {Len(n.columns)} : ~Unknown(n.columns[k])}
RowsWhole ==
  Printed => \A n \in Rows :
    LET items == {d \in Definitions : d.name = n.entry}
        lines == (CHOOSE d \in items : TRUE).lines
        valid == {k \in DOMAIN lines : ~lines[k].comment}
    IN /\ \A k \in valid : lines[k].comma = (\E l \in valid : l > k)
       /\ {lines[k].name : k \in valid} =
            {n.columns[k].name : k \in {l \in DOMAIN n.columns : ~Unknown(n.columns[l])}}
            \cup IF mibtopib THEN {InstanceId(n.table)} ELSE {}
       /\ mibtopib => \E d \in Definitions : d.name = InstanceId(n.table) /\ d.at[1] = n.name

ComplianceWhole ==
  \A i \in DOMAIN text : text[i].macro = "MODULE-COMPLIANCE" =>
    \A m \in {n \in ToSet(source.nodes) : n.name = text[i].name} : \A e \in ToSet(m.elements) :
      \E k \in DOMAIN text[i].clauses :
        text[i].clauses[k].module = e.module /\ e \in ToSet(text[i].clauses[k].groups)

SppiSound ==
  /\ ImportsListed /\ NamesKnown /\ PrintedOnce /\ NumbersFree /\ BodiesFollow
  /\ RowsWhole /\ ComplianceWhole
=============================================================================
