------------------------------ MODULE SmiDiff ------------------------------
(***************************************************************************)
(* smidiff (tools/smidiff.c): two versions of a module, each in a data set *)
(* of its own, are compared definition by definition.  Every loop goes     *)
(* through the definitions of one version and looks for the same one in    *)
(* the other: types by their names, nodes by their OIDs.  One action is    *)
(* one iteration of such a loop.  Two lists of named numbers are compared  *)
(* as NumbersDiff is shown to do it.                                       *)
(***************************************************************************)
EXTENDS Integers, Sequences, SequencesExt, FiniteSetsExt

CONSTANTS
  Versions,   \* pairs of versions, NULL for one that cannot be loaded
  Compliances,\* what --old-compliance and --new-compliance may say
  Patterns,   \* what --ignore may say: sets of tags with a prefix
  Levels,     \* what --level may say
  ByteSize,   \* bits of an octet, 8
  NULL

VARIABLES
  old, new,     \* oldModule and newModule
  compl,        \* oldCompl and newCompl
  level, ignored,
  loop, at,     \* the loop and the definition that it is at
  reports       \* what was printed

vars == <<old, new, compl, level, ignored, loop, at, reports>>

-----------------------------------------------------------------------------
(* The table of errors.  An error is named by its tag; where several of    *)
(* one tag differ in their severity, it has a name of its own.             *)

Tag(id) ==
  IF id \in {"status-changed", "legal-status-changed"} THEN "status-change"
  ELSE IF id = "mandatory-group-added" THEN "mandatory-added"
  ELSE IF id = "mandatory-group-removed" THEN "mandatory-removed" ELSE id

Severity(id) ==
  IF id \in {"type-removed", "node-removed", "basetype-changed"} THEN 1
  ELSE IF id \in {"status-changed", "description-removed", "member-added", "member-removed",
                  "object-removed", "named-number-removed", "nodekind-changed",
                  "indexkind-changed", "index-changed", "mandatory-group-added",
                  "mandatory-group-removed", "option-added", "option-removed",
                  "refinement-removed"} THEN 2
  ELSE IF id \in {"ref-removed", "format-removed", "units-removed", "access-removed",
                  "name-removed", "to-implicit", "range-added", "range-removed",
                  "range-changed", "defval-added", "defval-removed", "defval-changed",
                  "organization-removed", "contact-removed", "smi-version-changed",
                  "revision-removed", "object-added", "named-bit-added-old-byte",
                  "status-removed", "mandatory-removed", "mandatory-added",
                  "optional-removed", "optional-added"} THEN 3
  ELSE IF id = "previous-definition" THEN 6 ELSE 5

Report(id, of, what) == [id |-> id, of |-> of, what |-> what]
SayIf(p, id, of, what) == IF p THEN {Report(id, of, what)} ELSE {}
Prior(name) == Report("previous-definition", name, NULL)
WithPrior(rs, name) == IF rs = {} THEN {} ELSE rs \cup {Prior(name)}

\* printError(): what --ignore matches has the severity 9999.
Printed(rs) == {r \in rs : Tag(r.id) \notin ignored /\ Severity(r.id) <= level}

\* The reports that return CODE_SHOW_PREVIOUS, whether they are printed or not: the
\* old definition is shown once, after all of them.
Followed ==
  {"name-changed", "decl-changed", "status-changed", "legal-status-changed", "access-changed",
   "description-removed", "description-changed", "ref-changed", "format-changed",
   "units-changed", "nodekind-changed", "object-removed", "organization-removed",
   "organization-changed", "contact-removed", "contact-changed"}
ShowsPrevious(rs) == \E r \in rs : r.id \in Followed
Previous(rs, name) == rs \cup IF ShowsPrevious(rs) THEN {Prior(name)} ELSE {}

-----------------------------------------------------------------------------
(* Clauses.                                                                *)

\* A clause of the old and of the new definition; NULL is one that is missing.
Clause(o, n, of, added, removed, changed) ==
  SayIf(o = NULL /\ n # NULL, added, of, NULL)
  \cup SayIf(o # NULL /\ n = NULL, removed, of, NULL)
  \cup SayIf(o # NULL /\ n # NULL /\ o # n, changed, of, NULL)

\* Names are never missing here.
checkName(o, n)        == SayIf(o.name # n.name, "name-changed", o.name, n.name)
checkReference(o, n)   == Clause(o.ref, n.ref, n.name, "ref-added", "ref-removed", "ref-changed")
checkFormat(o, n)      == Clause(o.format, n.format, n.name, "format-added", "format-removed", "format-changed")
checkUnits(o, n)       == Clause(o.units, n.units, n.name, "units-added", "units-removed", "units-changed")
checkDescription(o, n) == Clause(o.descr, n.descr, n.name, "description-added", "description-removed",
                                 "description-changed")
checkDecl(o, n)        == SayIf(o.decl # n.decl, "decl-changed", n.name, NULL)
checkAccess(o, n) ==
  IF o.access = n.access THEN {}
  ELSE {Report(IF o.access = "unknown" THEN "access-added"
               ELSE IF n.access = "unknown" THEN "access-removed" ELSE "access-changed", n.name, NULL)}

Declining == {<<"current", "deprecated">>, <<"current", "obsolete">>, <<"deprecated", "obsolete">>}
checkStatus(o, n) ==
  IF o.status = n.status THEN {}
  ELSE {Report(IF o.status = "unknown" THEN "status-added"
               ELSE IF n.status = "unknown" THEN "status-removed"
               ELSE IF <<o.status, n.status>> \in Declining THEN "legal-status-changed"
               ELSE "status-changed", n.name, NULL)}

\* cmpSmiValues() reads both values as the basetype of the old one says.  A value is
\* a pair of its basetype and its content, which is a sequence if it is pointed to;
\* only a named number has a length among the others.
Direct(v)     == v[1] \in {"INTEGER32", "UNSIGNED32", "ENUM"}
LengthOf(v)   == IF ~Direct(v) THEN Len(v[2]) ELSE IF v[1] = "ENUM" THEN 1 ELSE 0
SameKind(o, n) == Direct(o) = Direct(n) /\ (o[1] = "OBJECTIDENTIFIER") = (n[1] = "OBJECTIDENTIFIER")
\* Whether the values are found to be different: both are possible where a pointer is
\* taken for a number or octets for sub-identifiers, none where a number is taken for
\* a pointer.
Answers(o, n) ==
  IF o = NULL \/ n = NULL THEN {FALSE}
  ELSE IF SameKind(o, n) THEN {o[2] # n[2]}
  ELSE IF Direct(o) THEN BOOLEAN
  ELSE IF LengthOf(o) # LengthOf(n) THEN {TRUE}
  ELSE IF LengthOf(o) = 0 THEN {FALSE}
  ELSE IF Direct(n) THEN {} ELSE BOOLEAN

\* differ: what cmpSmiValues() answers.
checkDefVal(o, n, of, differ) ==
  WithPrior(SayIf(o.value # NULL /\ n.value = NULL, "defval-removed", of, NULL)
            \cup SayIf(differ, "defval-changed", of, NULL), of)
  \cup SayIf(o.value = NULL /\ n.value # NULL, "defval-added", of, NULL)

-----------------------------------------------------------------------------
(* Types: the basetype, the ranges of the type and of those above it, and  *)
(* its named numbers, which are sorted.                                    *)

\* The first type upwards that has ranges.
findTypeWithRange(t) ==
  LET has == {k \in DOMAIN t.chain : t.chain[k].ranges # <<>>}
  IN IF t = NULL \/ has = {} THEN NULL ELSE t.chain[Min(has)]

\* Mutant: as many ranges are compared as there are in both types.
Differ_Common(o, n) == \E k \in DOMAIN o \cap DOMAIN n : o[k] # n[k]
Differ(o, n) == o # n

\* of: the node that uses the type, or NULL for a type, which is named itself.
checkRanges(o, n, of) ==
  LET oldTwR == findTypeWithRange(o)
      newTwR == findTypeWithRange(n)
      Of(t)  == IF of # NULL THEN of ELSE t.name
  IN IF oldTwR = NULL
     THEN IF newTwR = NULL THEN {} ELSE {Report("range-added", Of(newTwR), newTwR.ranges)}
     ELSE IF newTwR = NULL THEN {Report("range-removed", Of(oldTwR), oldTwR.ranges), Prior(of)}
     ELSE SayIf(Differ(oldTwR.ranges, newTwR.ranges), "range-changed", Of(oldTwR), newTwR.ranges)

NumbersOf(t) == IF t = NULL THEN {} ELSE t.numbers
OldByte(o, n, v) == /\ n.basetype = "BITS"
                    /\ \A x \in NumbersOf(o) : x.value < v
                    /\ \E x \in NumbersOf(o) : x.value \div ByteSize = v \div ByteSize
checkNamedNumbers(o, n, of) ==
  {Report("named-number-removed", of, x.name) :
     x \in {y \in NumbersOf(o) : \A z \in NumbersOf(n) : z.value # y.value}}
  \cup {Report(IF OldByte(o, n, x.value) THEN "named-bit-added-old-byte" ELSE "named-number-added",
               of, x.name) :
          x \in {y \in NumbersOf(n) : \A z \in NumbersOf(o) : z.value # y.value}}
  \cup {Report("named-number-changed", of, x.name) :
          x \in {y \in NumbersOf(o) : \E z \in NumbersOf(n) : z.value = y.value /\ z.name # y.name}}

\* A type that only one of the two has is reported if it has a name, but not by that
\* name: the argument is missing.  node: the name of the old node, or NULL.
Implicit(t) == IF t.name = NULL THEN "implicit type" ELSE t.name
checkTypeCompatibility(o, n, node) ==
  IF o = NULL \/ n = NULL
  THEN SayIf(o = NULL /\ n # NULL /\ n.name # NULL, "type-added", NULL, NULL)
       \cup SayIf(n = NULL /\ o # NULL /\ o.name # NULL, "type-removed", NULL, NULL)
  ELSE SayIf(o.basetype # n.basetype, "basetype-changed", Implicit(n), NULL)
       \cup (IF o.basetype # n.basetype THEN {Prior(Implicit(o))} ELSE {})
       \cup checkNamedNumbers(o, n, IF node = NULL THEN o.name ELSE node)
       \cup checkRanges(o, n, node)

\* The name of the old type is passed on, whether there is one or not.
NoOldType(o, n) == o.type = NULL /\ n.type # NULL
checkNodeTypeCompatibility(o, n) ==
  IF o.type = NULL /\ n.type = NULL THEN {}
  ELSE IF o.type # NULL /\ n.type # NULL /\ o.type.basetype # n.type.basetype
  THEN {Report("basetype-changed", n.name, NULL), Prior(o.name)}
  ELSE checkNamedNumbers(o.type, n.type, o.name) \cup checkRanges(o.type, n.type, o.name)

checkTypes(o, n, differ) ==
  Previous(checkName(o, n) \cup checkTypeCompatibility(o, n, NULL) \cup checkDefVal(o, n, o.name, differ)
           \cup checkDecl(o, n) \cup (IF n.name = NULL THEN {} ELSE checkStatus(o, n))
           \cup checkFormat(o, n) \cup checkUnits(o, n) \cup checkDescription(o, n)
           \cup checkReference(o, n), o.name)

-----------------------------------------------------------------------------
(* Nodes.  index: its kind and the OIDs of its elements, and that of the   *)
(* row it augments.                                                        *)

ImplicitType(o, n) ==
  IF o.type = NULL \/ n.type = NULL THEN {}
  ELSE WithPrior(SayIf(o.type.name # NULL /\ n.type.name = NULL, "to-implicit", n.name, o.type.name)
                 \cup SayIf(o.type.name = NULL /\ n.type.name # NULL, "from-implicit", o.name, n.type.name),
                 o.name)

checkNodekind(o, n) == SayIf(o.kind # n.kind, "nodekind-changed", n.name, NULL)

\* Elements are compared as far as both lists go, as the new kind of index says.  A
\* line with the name of the module, which is printed before a change of the kind
\* whatever the level is, is left out.
Common(o, n) == 1 .. Min({Len(o.index.list), Len(n.index.list)})
checkIndex(o, n) ==
  WithPrior(SayIf(o.index.kind # n.index.kind, "indexkind-changed", n.name, NULL), o.name)
  \cup WithPrior(SayIf(\/ /\ n.index.kind = "index"
                          /\ \E k \in Common(o, n) : o.index.list[k] # n.index.list[k]
                       \/ /\ n.index.kind = "augment" /\ o.index.row # NULL /\ n.index.row # NULL
                          /\ o.index.row # n.index.row,
                       "index-changed", o.name, NULL), o.name)

checkObject(o, n, differ) ==
  Previous(checkName(o, n) \cup ImplicitType(o, n) \cup checkNodeTypeCompatibility(o, n)
           \cup checkDecl(o, n) \cup checkStatus(o, n) \cup checkAccess(o, n)
           \cup checkNodekind(o, n) \cup checkIndex(o, n) \cup checkDefVal(o, n, n.name, differ)
           \cup checkFormat(o, n) \cup checkUnits(o, n) \cup checkDescription(o, n)
           \cup checkReference(o, n), o.name)

\* Objects of notifications, members of groups and the groups and objects of
\* statements are found by their names: those that the other list lacks, and the
\* first of the other list for those that it has.
Missing(list, other) == {k \in DOMAIN list : \A l \in DOMAIN other : other[l].name # list[k].name}
Same(o, n) == {<<o[k], n[Min({l \in DOMAIN n : n[l].name = o[k].name})]>> :
                 k \in DOMAIN o \ Missing(o, n)}

\* The notification is named, not its object.
checkObjects(o, n) ==
  SayIf(Missing(o.list, n.list) # {}, "object-removed", o.name, NULL)
  \cup SayIf(Missing(n.list, o.list) # {}, "object-added", n.name, NULL)

checkNotification(o, n) ==
  Previous(checkDecl(o, n) \cup checkStatus(o, n) \cup checkObjects(o, n)
           \cup checkDescription(o, n) \cup checkReference(o, n), o.name)

\* Mutant: the second loop is left out.
checkMember_Old(o, n) == {Report("member-removed", o.name, o.list[k].name) : k \in Missing(o.list, n.list)}
checkMember(o, n) ==
  {Report("member-removed", o.name, o.list[k].name) : k \in Missing(o.list, n.list)}
  \cup {Report("member-added", n.name, n.list[k].name) : k \in Missing(n.list, o.list)}

checkGroup(o, n) ==
  Previous(checkName(o, n) \cup checkDecl(o, n) \cup checkStatus(o, n)
           \cup checkDescription(o, n) \cup checkReference(o, n), o.name)
  \cup checkMember(o, n)

\* A group or object of another module is told with the name of the module that is
\* compared, by an error of the same tag and severity.
checkComplMandatory(o, n) ==
  {Report("mandatory-group-removed", o.name, o.list[k].name) : k \in Missing(o.list, n.list)}
  \cup {Report("mandatory-group-added", n.name, n.list[k].name) : k \in Missing(n.list, o.list)}

checkComplOptions(o, n) ==
  {Report("option-removed", o.name, o.options[k].name) : k \in Missing(o.options, n.options)}
  \cup {Report("option-added", n.name, n.options[k].name) : k \in Missing(n.options, o.options)}
  \cup UNION {Previous(checkDescription(p[1], p[2]), p[1].name) : p \in Same(o.options, n.options)}

checkRefinement(o, n) ==
  Previous(checkDescription(o, n) \cup checkAccess(o, n), o.name)
  \cup checkTypeCompatibility(o.type, n.type, o.name)
  \cup checkTypeCompatibility(o.write, n.write, o.name)
checkComplRefinements(o, n) ==
  {Report("refinement-removed", o.name, o.refined[k].name) : k \in Missing(o.refined, n.refined)}
  \cup {Report("refinement-added", n.name, n.refined[k].name) : k \in Missing(n.refined, o.refined)}
  \cup UNION {checkRefinement(p[1], p[2]) : p \in Same(o.refined, n.refined)}

checkCompliance(o, n) ==
  Previous(checkName(o, n) \cup checkDecl(o, n) \cup checkStatus(o, n)
           \cup checkDescription(o, n) \cup checkReference(o, n), o.name)
  \cup checkComplMandatory(o, n) \cup checkComplOptions(o, n) \cup checkComplRefinements(o, n)

-----------------------------------------------------------------------------
(* The loops.                                                              *)

Kinds == [objects |-> {"node", "scalar", "table", "row", "column"},
          notifications |-> {"notification"}, groups |-> {"group"},
          compliances |-> {"compliance"}]
Walk(v, l) == SelectSeq(v.nodes, LAMBDA n : n.kind \in Kinds[l])

\* smiGetNodeByOID() in a data set: of the definitions of an OID in the view it
\* prefers the first one of the latest language, which need not be one of the module
\* that is compared (shadowed), and is only taken if it is.
At(v, oid) ==
  LET has == {k \in DOMAIN v.nodes : v.nodes[k].oid = oid}
  IN IF has = {} \/ oid \in v.shadowed THEN {} ELSE {v.nodes[Min(has)]}

Check(l, o, n, differ) ==
  CASE l = "objects" -> checkObject(o, n, differ)
    [] l = "notifications" -> checkNotification(o, n)
    [] l = "groups" -> checkGroup(o, n)
    [] l = "compliances" -> checkCompliance(o, n)

UnchangedInputs == UNCHANGED <<old, new, compl, level, ignored>>
GoOn(list, next) == IF at < Len(list) THEN loop' = loop /\ at' = at + 1
                                      ELSE loop' = next /\ at' = 1
Say(rs) == reports' = reports \cup Printed(rs)

\* main() loads the old and then the new version, after it has looked at the
\* names of compliances.
LoadModules ==
  /\ loop = "load"
  /\ loop' = IF (compl[1] = NULL) # (compl[2] = NULL) \/ old = NULL \/ new = NULL THEN "exit"
             ELSE IF compl[1] # NULL THEN "mandatory" ELSE "modules"
  /\ UnchangedInputs /\ UNCHANGED <<at, reports>>

\* The clauses of the module itself; its identity is not compared here.
ModuleReports ==
  Clause(old.orga, new.orga, new.name, "organization-added", "organization-removed",
         "organization-changed")
  \cup Clause(old.contact, new.contact, new.name, "contact-added", "contact-removed",
              "contact-changed")
  \cup checkDescription(old, new) \cup checkReference(old, new)
diffModules ==
  /\ loop = "modules"
  /\ Say(SayIf(old.language # new.language, "smi-version-changed", NULL, NULL) \cup ModuleReports)
  /\ loop' = "revisions" /\ at' = 1
  /\ UnchangedInputs

\* Revisions are found by their dates; the text of one that libsmi has added
\* itself is not compared.
Dated(v, d) ==
  LET has == {k \in DOMAIN v.revisions : v.revisions[k].date = d}
  IN IF has = {} THEN NULL ELSE v.revisions[Min(has)]
diffRevisions ==
  /\ loop = "revisions"
  /\ IF at > Len(old.revisions) THEN UNCHANGED reports
     ELSE LET r == old.revisions[at]
              n == Dated(new, r.date)
          IN Say(IF n = NULL THEN {Report("revision-removed", r.date, NULL)}
                 ELSE WithPrior(SayIf(r.descr # "added" /\ n.descr # r.descr,
                                      "revision-changed", r.date, NULL), r.date))
  /\ GoOn(old.revisions, "new revisions")
  /\ UnchangedInputs

\* In the end the old module is shown, at the line of its identity.
newRevisions ==
  /\ loop = "new revisions"
  /\ Say((IF at > Len(new.revisions) THEN {}
          ELSE SayIf(Dated(old, new.revisions[at].date) = NULL, "revision-added",
                     new.revisions[at].date, NULL))
         \cup (IF at >= Len(new.revisions) /\ ShowsPrevious(ModuleReports) /\ old.identity
               THEN {Prior(old.name)} ELSE {}))
  /\ GoOn(new.revisions, "types")
  /\ UnchangedInputs

\* Types of an unknown basetype and implicit ones are not seen.
Types(v) == SelectSeq(v.types, LAMBDA t : t.name # NULL /\ t.basetype # "UNKNOWN")
Typed(v, name) ==
  LET has == {k \in DOMAIN Types(v) : Types(v)[k].name = name}
  IN IF has = {} THEN {} ELSE {Types(v)[Min(has)]}
ThisType == Types(old)[at]

diffTypes ==
  /\ loop = "types"
  /\ IF at > Len(Types(old)) THEN UNCHANGED reports
     ELSE LET found == Typed(new, ThisType.name) IN
          IF found = {} THEN Say({Report("type-removed", ThisType.name, NULL)})
          ELSE \E n \in found : \E differ \in Answers(ThisType.value, n.value) :
                 Say(checkTypes(ThisType, n, differ))
  /\ GoOn(Types(old), "new types")
  /\ UnchangedInputs

newTypes ==
  /\ loop = "new types"
  /\ IF at > Len(Types(new)) THEN UNCHANGED reports
     ELSE Say(SayIf(Typed(old, Types(new)[at].name) = {}, "type-added", Types(new)[at].name, NULL))
  /\ GoOn(Types(new), "objects")
  /\ UnchangedInputs

After == [objects |-> "new objects", notifications |-> "new notifications",
          groups |-> "new groups", compliances |-> "new compliances"]
This  == Walk(old, loop)[at]

Found(oid) == At(new, oid)

\* An object that had no type and has got one; default values that cannot be compared;
\* and a report whose argument is missing, which may be printed.
Untyped  == loop = "objects" /\ \E n \in Found(This.oid) : NoOldType(This, n)
Unread   == \/ loop = "objects" /\ \E n \in Found(This.oid) : Answers(This.value, n.value) = {}
            \/ /\ loop = "types"
               /\ \E n \in Typed(new, ThisType.name) : Answers(ThisType.value, n.value) = {}
Nameless == /\ loop = "compliances"
            /\ \E n \in Found(This.oid) : \E p \in Same(This.refined, n.refined) : \E f \in {"type", "write"} :
                 \E r \in Printed(checkTypeCompatibility(p[1][f], p[2][f], p[1].name)) :
                   r.id \in {"type-added", "type-removed"}
Misread ==
  /\ \/ loop = "types" /\ at <= Len(Types(old)) /\ Unread
     \/ loop \in DOMAIN After /\ at <= Len(Walk(old, loop)) /\ (Untyped \/ Unread \/ Nameless)
  /\ loop' = "crashed"
  /\ UnchangedInputs /\ UNCHANGED <<at, reports>>

diffNodes ==
  /\ loop \in DOMAIN After
  /\ IF at > Len(Walk(old, loop)) THEN UNCHANGED reports
     ELSE LET found == Found(This.oid) IN
          IF found = {} THEN Say({Report("node-removed", This.name, This.kind)})
          ELSE \E n \in found : \E differ \in IF loop = "objects" THEN Answers(This.value, n.value) ELSE {FALSE} :
                 ~Untyped /\ Say(Check(loop, This, n, differ))
  /\ GoOn(Walk(old, loop), After[loop])
  /\ UnchangedInputs

Before == [l \in ToSet(After) |-> CHOOSE k \in DOMAIN After : After[k] = l]
Following  == [objects |-> "notifications", notifications |-> "groups",
           groups |-> "compliances", compliances |-> "end"]
newNodes ==
  /\ loop \in DOMAIN Before
  /\ LET l    == Before[loop]
         list == Walk(new, l)
     IN /\ IF at > Len(list) THEN UNCHANGED reports
           ELSE Say(SayIf(At(old, list[at].oid) = {}, "node-added", list[at].name, list[at].kind))
        /\ GoOn(list, Following[l])
  /\ UnchangedInputs

-----------------------------------------------------------------------------
(* Two compliance statements, by what the groups they list contain.        *)

\* The last statement of the name.
Statement(v, name) ==
  LET has == {k \in DOMAIN v.nodes : v.nodes[k].kind = "compliance" /\ v.nodes[k].name = name}
  IN IF has = {} THEN NULL ELSE v.nodes[Max(has)]
Members(groups) == UNION {g.members : g \in ToSet(groups)}
\* The members of some groups of each that are not mandatory for the other.
CheckMembers(o, n, os, ns, removed, added) ==
  {Report(removed, x, NULL) : x \in Members(os) \ Members(n.list)}
  \cup {Report(added, x, NULL) : x \in Members(ns) \ Members(o.list)}

diffOldNewComplianceMandatory ==
  /\ loop = "mandatory"
  /\ LET o == Statement(old, compl[1])
         n == Statement(new, compl[2])
     IN IF o = NULL \/ n = NULL THEN loop' = "end" /\ UNCHANGED reports
        ELSE /\ Say(CheckMembers(o, n, o.list, n.list, "mandatory-removed", "mandatory-added"))
             /\ loop' = "optional"
  /\ UnchangedInputs /\ UNCHANGED at

\* Members of optional groups are looked for in the mandatory ones.
diffOldNewComplianceOptional ==
  /\ loop = "optional"
  /\ LET o == Statement(old, compl[1])
         n == Statement(new, compl[2])
     IN Say(CheckMembers(o, n, o.options, n.options, "optional-removed", "optional-added"))
  /\ loop' = "end"
  /\ UnchangedInputs /\ UNCHANGED at

Init ==
  /\ \E p \in Versions : old = p[1] /\ new = p[2]
  /\ compl \in Compliances /\ level \in Levels /\ ignored \in Patterns
  /\ loop = "load" /\ at = 1 /\ reports = {}

Next ==
  \/ LoadModules \/ diffModules \/ diffRevisions \/ newRevisions \/ diffTypes \/ newTypes
  \/ diffNodes \/ Misread \/ newNodes
  \/ diffOldNewComplianceMandatory \/ diffOldNewComplianceOptional
Spec == Init /\ [][Next]_vars
-----------------------------------------------------------------------------
\* What is compared of a type and of a node.
TypeOf(t) == IF t = NULL THEN NULL
             ELSE [implicit |-> t.name = NULL, basetype |-> t.basetype, numbers |-> t.numbers,
                   ranges |-> LET r == findTypeWithRange(t) IN IF r = NULL THEN NULL ELSE r.ranges]
\* A number is the same whatever its basetype.
ValueOf(v) == IF v = NULL THEN NULL ELSE IF Direct(v) THEN <<"number", v[2]>> ELSE v
Named(list) == {x.name : x \in ToSet(list)}
Statements(n) ==
  [options |-> {<<x.name, x.descr>> : x \in ToSet(n.options)},
   refined |-> {<<x.name, x.descr, x.access, TypeOf(x.type), TypeOf(x.write)>> : x \in ToSet(n.refined)}]
AlikeNodes(o, n) ==
  /\ \A f \in {"name", "kind", "decl", "status", "access", "index", "format", "units",
               "descr", "ref"} : o[f] = n[f]
  /\ ValueOf(o.value) = ValueOf(n.value)
  /\ TypeOf(o.type) = TypeOf(n.type)
  /\ Named(o.list) = Named(n.list) /\ Statements(o) = Statements(n)
AlikeTypes(o, n) ==
  /\ \A f \in {"decl", "status", "format", "units", "descr", "ref"} : o[f] = n[f]
  /\ ValueOf(o.value) = ValueOf(n.value)
  /\ TypeOf(o) = TypeOf(n)
AlikeModules ==
  /\ \A f \in {"language", "orga", "contact", "descr", "ref"} : old[f] = new[f]
  /\ {r.date : r \in ToSet(old.revisions)} = {r.date : r \in ToSet(new.revisions)}
  /\ \A r \in ToSet(old.revisions) : r \in ToSet(new.revisions) \/ r.descr = "added"

\* Every definition of one is in the other, and is the same there.
Alike ==
  /\ AlikeModules
  /\ Len(Types(old)) = Len(Types(new)) /\ Len(old.nodes) = Len(new.nodes)
  /\ \A o \in ToSet(Types(old)) : \E n \in ToSet(Types(new)) : n.name = o.name /\ AlikeTypes(o, n)
  /\ \A o \in ToSet(old.nodes) : \E n \in ToSet(new.nodes) : n.oid = o.oid /\ AlikeNodes(o, n)

\* What is not looked at: the name of a notification, elements of an index behind
\* those of the other one, a type without a name that a refinement gets or loses, and
\* default values of which only one is a number, or an OID.
Appears(a, b) == (a = NULL) # (b = NULL) /\ NULL \in {t.name : t \in {a, b} \ {NULL}}
Overlooked ==
  \E o \in ToSet(old.nodes), n \in ToSet(new.nodes) :
    /\ o.oid = n.oid
    /\ \/ o.kind = "notification" /\ o.name # n.name
       \/ Len(o.index.list) # Len(n.index.list)
       \/ o.value # NULL /\ n.value # NULL /\ ~SameKind(o.value, n.value)
       \/ \E p \in Same(o.refined, n.refined) :
            Appears(p[1].type, p[2].type) \/ Appears(p[1].write, p[2].write)

Hidden(oid) == oid \in old.shadowed \cup new.shadowed
Has(id)     == {r.of : r \in {q \in reports : q.id = id}}
Complete    == level = 6 /\ ignored = {}

Mandatory(s) == Members(s.list)
Asked(s)     == Members(s.list) \cup Members(s.options)

\* smidiff(1): "check differences between a pair of SMI or SPPI modules".  At its
\* end it has said nothing exactly if every definition of one version is in the
\* other and is the same there.  What both versions define is said to be removed
\* or added only if another module hides it; and every object that one statement
\* asks for and the other does not make mandatory is named.
DifferencesTold ==
  loop = "end" =>
    /\ (Complete /\ compl[1] = NULL /\ old.shadowed \cup new.shadowed = {} /\ ~Overlooked) =>
         (reports = {} <=> Alike)
    /\ \A o \in ToSet(old.nodes), n \in ToSet(new.nodes) :
         (o.oid = n.oid /\ (o.name \in Has("node-removed") \/ n.name \in Has("node-added")))
           => Hidden(o.oid)
    /\ (Complete /\ compl[1] # NULL) =>
         LET o == Statement(old, compl[1])
             n == Statement(new, compl[2])
         IN (o # NULL /\ n # NULL) =>
              /\ Has("mandatory-removed") = Mandatory(o) \ Mandatory(n)
              /\ Has("mandatory-added") = Mandatory(n) \ Mandatory(o)
              /\ Asked(o) \ Mandatory(n) \subseteq Has("mandatory-removed") \cup Has("optional-removed")
              /\ Asked(n) \ Mandatory(o) \subseteq Has("mandatory-added") \cup Has("optional-added")
=============================================================================
