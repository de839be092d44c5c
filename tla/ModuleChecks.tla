---------------------------- MODULE ModuleChecks ----------------------------
(***************************************************************************)
(* What the parser checks at the END of a module: checkObjects() of        *)
(* parser-smi.y walks the objects of the module in the order they were     *)
(* declared, first to tell tables, rows, columns and scalars apart, then   *)
(* to check each one with the functions of smi-check.c, and once more for  *)
(* the rules of SMIv2 or SPPI about the module as a whole: what belongs to *)
(* no conformance group, which rows lack an index.  At last a fourth loop, *)
(* smiCheckTypeUsage(), looks at types that come with rules of their own.  *)
(*                                                                         *)
(* One action is one object in one of the loops.  Flags and kinds    *)
(* outlive the module; a second module may use and extend the first one.   *)
(***************************************************************************)
EXTENDS Integers, Sequences, FiniteSets

CONSTANTS
  Inputs,   \* sequences of modules that may be parsed
  NULL

Decl   == {"value", "object", "notification", "objectgroup",
           "notificationgroup", "compliance"}
Kind   == {"unknown", "node", "scalar", "table", "row", "column",
           "notification", "group", "compliance"}
Access == {"not-accessible", "notify", "read-only", "read-write", "unknown"}
\* none: not an OBJECT-TYPE; restricted: a nameless type with ranges or named
\* numbers; incomplete: named and not declared; the ids are textual conventions
\* of SPPI.
Syntax == {"none", "integer", "restricted", "incomplete", "sequence", "sequenceof",
           "instanceid", "referenceid", "tagreferenceid", "tagid"}
\* The values of SmiStatus, by which a status is compared with another.
Status == [current |-> 1, deprecated |-> 2, mandatory |-> 3, obsolete |-> 5]
\* The fields of an object: list holds the INDEX of a row, the members of a
\* group, the objects of a notification or the mandatory groups of a compliance
\* statement, with NULL for one that the module it names lacks; seq the SEQUENCE of a row and unique its UNIQUENESS clause, related
\* the row that it augments, that a table is a SEQUENCE OF, or that an attribute
\* refers to.
Fields == {"name", "decl", "parent", "subid", "type", "index", "list", "seq",
           "related", "options", "refined", "unique", "access", "status",
           "tc", "default", "create"}
\* tc is the type with rules of its own that an object has, default its DEFVAL as
\* a number or 0; and create is set in a row that has a column which is read-create.
OwnTypes == {"RowStatus", "StorageType", "TAddress", "TDomain", "InetAddressType", "InetAddress",
             "InetAddressIPv4", "TransportAddressType", "TransportAddress", "TransportAddressIPv4",
             "TransportDomain"}
\* The ranges of a type may be restricted.
Restricts(t) == IF t = "MyInetAddress" THEN "InetAddress" ELSE IF t = "MyInetType" THEN "InetAddressType"
                ELSE IF t = "MyTAddress" THEN "TAddress" ELSE t

Wellformed(ms) ==
  \A n \in DOMAIN ms : \A k \in DOMAIN ms[n].objects :
    LET o == ms[n].objects[k]
    IN  /\ DOMAIN o = Fields
        /\ o.decl \in Decl /\ o.type \in Syntax
        /\ o.access \in Access /\ o.status \in DOMAIN Status
        /\ o.tc # NULL => Restricts(o.tc) \in OwnTypes

VARIABLES
  modules,      \* the modules as they are written
  m,            \* the one whose END has been read
  loop, at,     \* the loop of checkObjects() and its objectPtr
  kind,         \* export.nodekind of every object
  grouped,      \* objects with FLAG_INGROUP
  required,     \* objects with FLAG_INCOMPLIANCE
  errors

checks == <<modules, m, loop, at, kind, grouped, required, errors>>

Elements(s) == {s[k] : k \in DOMAIN s}
Objects(k) == Elements(modules[k].objects)
Parsed     == UNION {Objects(k) : k \in 1 .. m}
Names      == {o.name : o \in UNION {Objects(k) : k \in DOMAIN modules}}
\* lastObjectPtr of a node.  A name that nothing declares is an incomplete object.
Undeclared(n) == [name |-> n, decl |-> "unknown", parent |-> NULL, subid |-> 0,
                  type |-> "none", index |-> "unknown", list |-> <<>>,
                  seq |-> <<>>, related |-> NULL, options |-> <<>>,
                  refined |-> <<>>, unique |-> <<>>, access |-> "unknown",
                  status |-> "unknown", tc |-> NULL, default |-> 0, create |-> FALSE]
Object(n)  == IF \E o \in Parsed : o.name = n
              THEN CHOOSE o \in Parsed : o.name = n ELSE Undeclared(n)
KindOf(n)  == IF n \in DOMAIN kind THEN kind[n] ELSE "unknown"
StatusOf(o) == IF o.status = "unknown" THEN 0 ELSE Status[o.status]
Declared(n) == Object(n).decl # "unknown"
Children(n) == {o \in Parsed : o.parent = n}

Say(k, o, n) == [kind |-> k, of |-> o, about |-> n]
SayIf(p, k, o, n) == IF p THEN {Say(k, o, n)} ELSE {}
-----------------------------------------------------------------------------
(***************************************************************************)
(* The kind of an object.                                                  *)
(***************************************************************************)
InTable(o) == o.parent # NULL /\ KindOf(o.parent) = "table"
InRow(o)   == /\ o.parent # NULL
              /\ \/ Object(o.parent).index # "unknown"
                 \/ KindOf(o.parent) = "row"

\* Mutant: a row is one because of its INDEX only.
ObjectKind_IndexOnly(o) ==
  IF o.type = "sequenceof" THEN "table"
  ELSE IF o.index # "unknown" THEN "row"
  ELSE IF InRow(o) THEN "column"
  ELSE IF o.parent # NULL THEN "scalar" ELSE "unknown"
ObjectKind(o) ==
  IF o.type = "sequenceof" THEN "table"
  ELSE IF o.index # "unknown" \/ InTable(o) THEN "row"
  ELSE IF InRow(o) THEN "column"
  ELSE IF o.parent # NULL THEN "scalar" ELSE "unknown"

NewKind(o) ==
  CASE o.decl = "value" -> "node"
    [] o.decl = "object" -> ObjectKind(o)
    [] o.decl = "notification" -> "notification"
    [] o.decl \in {"objectgroup", "notificationgroup"} -> "group"
    [] o.decl = "compliance" -> "compliance"
-----------------------------------------------------------------------------
(***************************************************************************)
(* The checks of one object.                                               *)
(***************************************************************************)
ParentKinds == [column |-> {"row"}, row |-> {"table"},
                node |-> Kind]
Fits(o) == KindOf(o.parent) \in
             IF KindOf(o.name) \in DOMAIN ParentKinds
             THEN ParentKinds[KindOf(o.name)] ELSE {"node", "unknown"}
Above(n) == Object(n).parent

\* The table above a row must be a SEQUENCE OF its type; a notification must also
\* have a simple node above its parent.
ParentErrors(o) ==
  IF o.parent = NULL THEN {}
  ELSE SayIf(~Fits(o), "parent", o.name, o.parent)
       \cup SayIf(/\ KindOf(o.name) = "row" /\ Object(o.parent).type = "sequenceof"
                  /\ o.type = "integer" \/ Object(o.parent).related # o.name,
                  "row-type", o.name, o.parent)
       \cup SayIf(/\ o.decl = "notification"
                  /\ Above(o.parent) # NULL
                  /\ KindOf(Above(o.parent)) \notin {"node", "unknown"},
                  "parent", o.name, o.parent)

smiCheckRowMembers(o) ==
  {Say("row-child", o.name, c.name) :
     c \in {d \in Children(o.name) : KindOf(d.name) # "column"}}

Accessible(o) == o.access # "not-accessible"
Groupable(o)  == \/ KindOf(o.name) \in {"column", "scalar"} /\ Accessible(o)
                 \/ KindOf(o.name) = "notification"
Listed(o)     == {Object(n) : n \in Elements(o.list)}
Worse(p, o)   == StatusOf(p) > StatusOf(o)

GroupErrors(o) ==
  LET notes == {p \in Listed(o) : KindOf(p.name) = "notification"}
      leaves == {p \in Listed(o) \ notes : Groupable(p)}
  IN  {Say("in-wrong-group", o.name, p.name) :
         p \in IF o.decl = "objectgroup" THEN notes ELSE leaves}
      \cup {Say("invalid-member", o.name, p.name) :
              p \in {q \in Listed(o) : ~Groupable(q) /\ q.decl # "unknown"}}
      \cup {Say("member-status", o.name, p.name) :
              p \in {q \in Listed(o) : Worse(q, o)}}
      \cup SayIf(notes # {} /\ leaves # {}, "mixed", o.name, NULL)

\* The flags that smiCheckGroupMembers() sets.
smiCheckGroupMembers(o) ==
  grouped \cup {p.name : p \in {q \in Listed(o) : Groupable(q)}}

MembersOf(names) == UNION {Elements(Object(n).list) : n \in names}

Mandatory(o) == Elements(o.list) \ {NULL}

ComplianceErrors(o) ==
  LET options == Elements(o.options)
      refined == Elements(o.refined)
      asked   == Mandatory(o) \cup options \cup refined
  IN  {Say("compliance-status", o.name, n) : n \in {k \in asked : Worse(Object(k), o)}}
      \cup {Say("mandatory-and-optional", o.name, n) : n \in options \cap Mandatory(o)}
      \cup {Say("refinement-not-listed", o.name, n) :
              n \in refined \ MembersOf(Mandatory(o) \cup options)}

\* Mutant: groups that are optional are not flagged.
smiCheckComplianceStatus_Mandatory(o) == required \cup Mandatory(o)
\* The flags that smiCheckComplianceStatus() sets.
smiCheckComplianceStatus(o) ==
  required \cup Mandatory(o) \cup Elements(o.options) \cup Elements(o.refined)

NotificationErrors(o) ==
  SayIf(/\ modules[m].language = "smiv2"
        /\ o.parent # NULL /\ Object(o.parent).subid # 0,
        "not-reversible", o.name, NULL)
  \cup {Say("notification-object", o.name, p.name) :
          p \in {q \in Listed(o) : KindOf(q.name) \notin {"scalar", "column"}}}
  \cup {Say("notification-access", o.name, p.name) :
          p \in {q \in Listed(o) : ~Accessible(q)}}

\* The columns of a row, in the order of their subidentifiers.
Columns(o) == LET cs == Children(o.name)
              IN  CHOOSE s \in [1 .. Cardinality(cs) -> cs] :
                    \A i, j \in DOMAIN s : i < j => s[i].subid < s[j].subid

\* The step of the walk along SEQUENCE and columns with which it breaks off.
LastStep(o, n) ==
  LET wrong == {k \in 1 .. n : /\ Object(o.seq[k]).parent = o.name
                               /\ o.seq[k] # Columns(o)[k].name}
  IN  IF wrong = {} THEN n ELSE CHOOSE k \in wrong : \A l \in wrong : k <= l

\* Mutant: the walk is over when one of the two lists is.
Surplus_None(o) == {}
\* The element behind those of the columns, if nothing was out of order.
Surplus(o) == IF Len(o.seq) > Len(Columns(o)) THEN {o.seq[Len(Columns(o)) + 1]} ELSE {}

SequenceErrors(o) ==
  LET cols == Columns(o)
      both == IF Len(o.seq) < Len(cols) THEN Len(o.seq) ELSE Len(cols)
      last == LastStep(o, both)
      broken == /\ last > 0
                /\ Object(o.seq[last]).parent = o.name
                /\ o.seq[last] # cols[last].name
  IN  {Say("sequence-no-column", o.name, o.seq[k]) :
         k \in {i \in 1 .. last : Object(o.seq[i]).parent # o.name}}
      \cup (IF broken THEN {Say("sequence-order", o.name, o.seq[last])} ELSE {})
      \cup {Say("sequence-no-column", o.name, n) : n \in IF broken THEN {} ELSE Surplus(o)}
      \cup {Say("sequence-missing", o.name, c.name) :
              c \in {d \in Children(o.name) \cap Objects(m) :
                       d.name \notin Elements(o.seq)}}

\* Elements of the INDEX that are columns of the row itself, and the value of
\* acc after the last element, for which alone it has been counted.
Auxiliary(o) == {k \in DOMAIN o.list : Object(o.list[k]).parent = o.name}
CountedLast(o) ==
  IF o.list = <<>> THEN 0
  ELSE LET p == Object(o.list[Len(o.list)])
       IN  IF p.parent = o.name /\ Accessible(p) THEN 1 ELSE 0

\* Mutant: columns and index elements are not counted.
smiCheckIndex_Any(o) ==
  {Say("index-accessible", o.name, p.name) :
     p \in {q \in Listed(o) : q.parent = o.name /\ Accessible(q)}}
smiCheckIndex(o) ==
  LET aux  == Cardinality(Auxiliary(o))
      cols == Cardinality(Children(o.name))
  IN  {Say("index-not-column", o.name, p.name) :
         p \in {q \in Listed(o) : /\ KindOf(q.name) # "column"
                                  /\ q.decl # "unknown"}}
      \cup {Say("index-accessible", o.name, p.name) :
              p \in {q \in Listed(o) : /\ aux < cols
                                       /\ modules[m].language = "smiv2"
                                       /\ q.parent = o.name /\ Accessible(q)}}
      \cup SayIf(/\ modules[m].language = "smiv2"
                 /\ aux = cols /\ CountedLast(o) # 1,
                 "index-none-accessible", o.name, NULL)

smiCheckAugment(o) ==
  LET r == Object(o.related)
  IN  IF o.related = NULL THEN {}
      ELSE IF KindOf(r.name) # "row" THEN {Say("augment-no-row", o.name, r.name)}
      ELSE IF r.index = "index" THEN {}
      ELSE IF o.index = "augment" THEN {Say("augment-nested", o.name, r.name)}
      ELSE SayIf(r.index # "sparse", "extends-wrong-row", o.name, r.name)

\* Which error an INDEX, AUGMENTS, EXTENDS or no such clause calls for.
IndexErrors(o) ==
  CASE o.index = "index" -> smiCheckIndex(o)
    [] o.index \in {"augment", "sparse"} -> smiCheckAugment(o)
    [] o.index = "unknown" -> {Say("index-missing", o.name, NULL)}

AccessErrors(o) ==
  SayIf(/\ modules[m].language # "sppi"
        /\ KindOf(o.name) \in {"table", "row"} /\ Accessible(o),
        "table-access", o.name, NULL)

RowErrors(o) ==
  smiCheckRowMembers(o) \cup IndexErrors(o)
  \cup (IF o.type = "incomplete" THEN {} ELSE SequenceErrors(o))
  \cup SayIf(o.subid # 1, "row-subid", o.name, NULL)

ObjectErrors(o) ==
  LET k == KindOf(o.name)
  IN  ParentErrors(o) \cup AccessErrors(o)
      \cup (IF k = "row" THEN RowErrors(o) ELSE {})
      \cup (IF k = "group" THEN GroupErrors(o) ELSE {})
      \cup (IF k = "compliance" THEN ComplianceErrors(o) ELSE {})
      \cup (IF k = "notification" THEN NotificationErrors(o) ELSE {})

smiCheckGroupMembership(o) ==
  SayIf(Groupable(o) /\ o.name \notin grouped, "not-in-group", o.name, NULL)
  \cup SayIf(/\ KindOf(o.name) = "group" /\ o.name \notin required
             /\ o.status # "obsolete", "group-unreferenced", o.name, NULL)

smiCheckUniqueness(o) ==
  LET r == Object(o.related)
      known == Elements(o.seq) \cup (IF o.related # NULL /\ o.index \in {"augment", "sparse"}
                                    THEN Elements(r.seq) ELSE {})
  IN  {Say("not-a-column", o.name, n) : n \in Elements(o.unique) \ known}

\* The groups of the module itself that list an attribute.
GroupsOf(n) == {g \in Objects(m) : KindOf(g.name) = "group" /\ n \in Elements(g.list)}

\* Types without a name, as those of a table.
Nameless == {"none", "restricted", "sequenceof"}

SppiErrors(o) ==
  LET k == KindOf(o.name)
      r == Object(o.related)
  IN  SayIf(InTable(o) /\ o.index = "unknown", "row-lacks-index", o.name, NULL)
      \cup SayIf(k # "row" /\ o.index # "unknown", "index-for-non-row", o.name, NULL)
      \cup SayIf(/\ k = "row" /\ o.index = "index" /\ o.list # <<>>
                 /\ Object(o.list[1]).type \notin Nameless \cup {"instanceid"},
                 "not-instanceid", o.name, NULL)
      \cup SayIf(k = "table" /\ o.access = "unknown", "table-lacks-access", o.name, NULL)
      \cup SayIf(k \in {"node", "row", "scalar"} /\ o.access # "unknown",
                 "access-for-non-table", o.name, NULL)
      \cup (IF k = "row" THEN smiCheckUniqueness(o)
            ELSE SayIf(o.unique # <<>>, "uniqueness-for-non-row", o.name, NULL))
      \cup SayIf(/\ o.type = "referenceid" /\ o.related # NULL
                 /\ KindOf(o.related) # "row", "references-not-row", o.name, NULL)
      \cup SayIf(/\ o.type = "tagreferenceid" /\ o.related # NULL
                 /\ r.type \notin Nameless \cup {"tagid"}, "tag-type", o.name, NULL)
      \cup SayIf(k = "column" /\ GroupsOf(o.name) = {}, "attribute-not-in-group",
                 o.name, NULL)
-----------------------------------------------------------------------------
(***************************************************************************)
(* Types with rules of their own.  An address needs an object that says of *)
(* which type it is: in the INDEX of its row, or before it in the row.     *)
(***************************************************************************)
IndexOf(o) ==
  LET entry == Object(o.parent)
  IN CASE entry.index = "index"   -> Listed(entry)
       [] entry.index = "augment" /\ entry.related # NULL -> Listed(Object(entry.related))
       [] OTHER -> {}
\* Mutant: the object itself and those behind it are looked at as well.
Earlier_All(o) == Children(o.parent)
Earlier(o)     == {p \in Children(o.parent) : p.subid < o.subid}

AddressErrors(o, address, type, types, protected) ==
  SayIf(/\ Restricts(o.tc) = address
        /\ \A p \in IndexOf(o) \cup Earlier(o) : p.tc \notin types, "without-type", o.name, NULL)
  \cup SayIf(o.tc # type /\ Restricts(o.tc) = type, "type-subtyped", o.name, NULL)
  \cup SayIf(o.tc \in protected, "specific", o.name, NULL)
checkInetAddressType(o) ==
  AddressErrors(o, "InetAddress", "InetAddressType", {"InetAddressType"}, {"InetAddressIPv4"})
checkTransportAddressType(o) ==
  AddressErrors(o, "TransportAddress", "TransportAddressType", {"TransportAddressType", "TransportDomain"},
                {"TransportAddressIPv4"})

\* A RowStatus has to be read-create, of which its row knows.
RowStatusErrors(o) ==
  IF o.tc # "RowStatus" THEN {}
  ELSE SayIf(o.default \in 4 .. 6, "rowstatus-default", o.name, NULL)
       \cup SayIf(o.access # "read-write" \/ ~Object(o.parent).create, "rowstatus-access", o.name, NULL)
UsageErrors(o) ==
  IF o.tc = NULL THEN {}
  ELSE RowStatusErrors(o)
       \cup SayIf(o.tc = "StorageType" /\ o.default \in 4 .. 5, "storagetype-default", o.name, NULL)
       \cup SayIf(/\ Restricts(o.tc) = "TAddress"
                  /\ \A p \in Children(o.parent) : p.tc # "TDomain", "without-tdomain", o.name, NULL)
       \cup checkInetAddressType(o) \cup checkTransportAddressType(o)
-----------------------------------------------------------------------------
This == modules[m].objects[at]
Last == at = Len(modules[m].objects)

GoOn(next) == IF Last THEN loop' = next /\ at' = 1
                      ELSE loop' = loop /\ at' = at + 1

SetKind ==
  /\ loop = "kinds"
  /\ kind' = [kind EXCEPT ![This.name] = NewKind(This)]
  /\ GoOn("checks")
  /\ UNCHANGED <<modules, m, grouped, required, errors>>

\* The type of a row that is no SEQUENCE but a restriction has no name to compare
\* with the table's, and its list of ranges is read as one of objects.
Untyped == KindOf(This.name) = "row" /\ This.type = "restricted"

ReadNoSequence ==
  /\ loop = "checks" /\ Untyped
  /\ loop' = "crashed"
  /\ UNCHANGED <<modules, m, at, kind, grouped, required, errors>>

\* An optional group is compared by name with each of the mandatory groups, those
\* that the module lacks included.
Unknown == /\ KindOf(This.name) = "compliance"
           /\ NULL \in Elements(This.list) /\ This.options # <<>>

CompareWithNull ==
  /\ loop = "checks" /\ Unknown
  /\ loop' = "crashed"
  /\ UNCHANGED <<modules, m, at, kind, grouped, required, errors>>

CheckObject ==
  /\ loop = "checks" /\ ~Untyped /\ ~Unknown
  /\ errors' = errors \cup ObjectErrors(This)
  /\ grouped' = IF KindOf(This.name) = "group"
                THEN smiCheckGroupMembers(This) ELSE grouped
  /\ required' = IF KindOf(This.name) = "compliance"
                 THEN smiCheckComplianceStatus(This) ELSE required
  /\ GoOn(CASE modules[m].language = "smiv2" -> "membership"
            [] modules[m].language = "sppi" -> "sppi"
            [] modules[m].language = "smiv1" -> "usage")
  /\ UNCHANGED <<modules, m, kind>>

CheckMembership ==
  /\ loop = "membership"
  /\ errors' = errors \cup smiCheckGroupMembership(This)
  /\ GoOn("usage")
  /\ UNCHANGED <<modules, m, kind, grouped, required>>

CheckSppi ==
  /\ loop = "sppi"
  /\ errors' = errors \cup SppiErrors(This)
  /\ GoOn("usage")
  /\ UNCHANGED <<modules, m, kind, grouped, required>>

CheckTypeUsage ==
  /\ loop = "usage"
  /\ errors' = errors \cup UsageErrors(This)
  /\ GoOn("next")
  /\ UNCHANGED <<modules, m, kind, grouped, required>>

NextModule ==
  /\ loop = "next" /\ m < Len(modules)
  /\ m' = m + 1 /\ loop' = "kinds" /\ at' = 1
  /\ UNCHANGED <<modules, kind, grouped, required, errors>>

Init == /\ modules \in Inputs /\ Wellformed(modules)
        /\ m = 1 /\ loop = "kinds" /\ at = 1
        /\ kind = [n \in Names |-> "unknown"]
        /\ grouped = {} /\ required = {} /\ errors = {}

Next == \/ SetKind \/ CheckObject \/ ReadNoSequence \/ CompareWithNull
        \/ CheckMembership \/ CheckSppi \/ CheckTypeUsage \/ NextModule
Spec == Init /\ [][Next]_checks
-----------------------------------------------------------------------------
ObjectTypes == {o \in Objects(m) : o.decl = "object"}

\* What an object is by what it and its parent are declared as.
MeantRow(o) == /\ o.decl = "object" /\ o.type # "sequenceof"
               /\ o.index # "unknown" \/ Object(o.parent).type = "sequenceof"
Meant(o) == IF o.type = "sequenceof" THEN "table"
            ELSE IF MeantRow(o) THEN "row"
            ELSE IF MeantRow(Object(o.parent)) THEN "column" ELSE "scalar"

Place(n) == CHOOSE k \in DOMAIN modules[m].objects :
              modules[m].objects[k].name = n
Follows(o) == /\ o.parent # NULL
              /\ Object(o.parent) \in Objects(m) => Place(o.parent) < Place(o.name)

\* A row without INDEX is known by its table, and its columns are known by it,
\* so these have to come in this order; all else may be declared in any.
Settled(o) ==
  LET p == Object(o.parent)
  IN  \/ "index" \in {o.index, p.index} \/ "augment" \in {o.index, p.index}
      \/ "sequenceof" = o.type \/ p.decl # "object"
      \/ Follows(o) /\ (p.type = "sequenceof" \/ Follows(p))

\* Tables, rows, columns and scalars are told apart as they are declared, in
\* whatever order, although each one looks at the kind its parent has so far; and
\* that is what they are at the end of the module.
KindsAsWritten ==
  loop \in {"checks", "next"} =>
    \A o \in ObjectTypes : Settled(o) => kind[o.name] = Meant(o)

Sharing(names, ds) ==
  UNION {Elements(o.list) \cup Elements(o.options) \cup Elements(o.refined) :
           o \in {p \in Parsed : p.decl \in ds}} \cap names

\* At the end of a module those of its nodes and notifications are reported that
\* no group lists, of this module or of one parsed before, and those of its
\* groups that no compliance statement asks for, wherever the lists stand.
GroupsJudged ==
  (loop = "next" /\ modules[m].language = "smiv2") =>
    \A o \in Objects(m) :
      /\ Say("not-in-group", o.name, NULL) \in errors
           <=> /\ Groupable(o)
               /\ o.name \notin Sharing(Names, {"objectgroup", "notificationgroup"})
      /\ Say("group-unreferenced", o.name, NULL) \in errors
           <=> /\ kind[o.name] = "group" /\ o.status # "obsolete"
               /\ o.name \notin Sharing(Names, {"compliance"})

Told(k, o) == \E e \in errors : e.kind \in k /\ e.of = o.name
SequenceKinds == {"sequence-no-column", "sequence-order", "sequence-missing"}

\* A row is free of errors about its SEQUENCE exactly if that lists its columns
\* in their order, and each one that is missing in it is reported.
SequenceJudged ==
  loop = "next" =>
    \A o \in {p \in ObjectTypes : kind[p.name] = "row" /\ p.type # "incomplete"} :
      LET own == {c \in Children(o.name) : c \in Objects(m)}
      IN  Cardinality(own) = Cardinality(Children(o.name)) =>
            /\ Told(SequenceKinds, o)
                 <=> o.seq # [k \in DOMAIN Columns(o) |-> Columns(o)[k].name]
            /\ \A c \in own : Say("sequence-missing", o.name, c.name) \in errors
                                <=> c.name \notin Elements(o.seq)

\* Besides, a row of which no error about tables is told has the columns and the
\* index a table needs: RFC 2578 7.7 wants index elements inaccessible if there are other
\* columns, RFC 3159 7.9 a UNIQUENESS clause to list columns of the row or of the
\* one it extends, and RFC 3159 9.1 every column in a group.
TableKinds == SequenceKinds \cup
  {"parent", "row-type", "row-child", "augment-no-row", "augment-nested",
   "index-not-column", "index-missing", "index-accessible",
   "index-none-accessible", "extends-wrong-row", "not-a-column"}
Sound(o) == ~Told(TableKinds, o)
Leading(o) == IF o.index = "index" THEN o ELSE Object(o.related)
ColumnsOf(o) == {c.name : c \in Children(o.name)}
\* A row that may be created or holds addresses tells what a manager needs, or it
\* is told that it does not: wherever the row, its columns and the row it augments
\* are declared.
Needs == [InetAddress |-> {"InetAddressType"}, TransportAddress |-> {"TransportAddressType", "TransportDomain"},
          TAddress |-> {"TDomain"}]
UsageKinds == {"without-type", "without-tdomain"}
Typing(o)  ==
  LET row  == Object(o.parent)
      used == IF row.index = "index" THEN Elements(row.list)
              ELSE IF row.index = "augment" THEN Elements(Object(row.related).list) ELSE {}
      near == {c.name : c \in {d \in Children(o.parent) : Restricts(o.tc) = "TAddress" \/ d.subid < o.subid}}
  IN  {Object(n).tc : n \in near \cup IF Restricts(o.tc) = "TAddress" THEN {} ELSE used}
UsageJudged ==
  loop = "next" =>
    \A o \in {p \in ObjectTypes : p.tc # NULL} :
      /\ Told(UsageKinds, o) <=> /\ Restricts(o.tc) \in DOMAIN Needs
                                 /\ Typing(o) \cap Needs[Restricts(o.tc)] = {}
      /\ o.tc = "RowStatus" =>
           (Told({"rowstatus-access"}, o)
              <=> ~\E r \in Parsed : r.name = o.parent /\ r.create /\ o.access = "read-write")

TablesSound ==
  /\ UsageJudged
  /\ KindsAsWritten
  /\ SequenceJudged
  /\ (loop = "next" /\ modules[m].language # "smiv1") =>
      \A o \in {p \in ObjectTypes : kind[p.name] = "row" /\ Sound(p)} :
        /\ Object(o.parent).type = "sequenceof"
        /\ \A n \in ColumnsOf(o) : kind[n] = "column"
        /\ o.index \in {"index", "augment"} =>
             /\ Leading(o).index = "index"
             /\ \A n \in Elements(o.list) : kind[n] = "column"
        /\ (modules[m].language = "smiv2" /\ ColumnsOf(o) \ Elements(o.list) # {})
             => \A c \in Children(o.name) : c.name \in Elements(o.list) => ~Accessible(c)
        /\ (modules[m].language = "sppi" /\ Sound(Leading(o)))
             => /\ Elements(o.unique) \subseteq ColumnsOf(o) \cup ColumnsOf(Leading(o))
                /\ \A c \in Children(o.name) :
                     GroupsOf(c.name) = {} <=> Say("attribute-not-in-group", c.name, NULL) \in errors

\* The error's text: "exactly one index element of row must be accessible".
OneAccessible ==
  (loop = "next" /\ modules[m].language = "smiv2") =>
    \A o \in {p \in ObjectTypes : kind[p.name] = "row" /\ p.index = "index"} :
      {c.name : c \in Children(o.name)} = Elements(o.list) =>
        (Say("index-none-accessible", o.name, NULL) \in errors
           <=> Cardinality({n \in Elements(o.list) : Accessible(Object(n))}) # 1)
=============================================================================
