---------------------------- MODULE Declarations ----------------------------
(***************************************************************************)
(* The declarations of a module of SMIv1, SMIv2 or SPPI: what their macros *)
(* ask for, what the clauses of Clauses come to at the end of each one,    *)
(* and what is left to be said at the END of the module: unresolved        *)
(* default values and imports that nobody used.                            *)
(***************************************************************************)
EXTENDS Clauses
LOCAL INSTANCE SequencesExt

(***************************************************************************)
(* The macros.                                                             *)
(***************************************************************************)
Imports(x, needed) ==
  [module EXCEPT !.used = IF needed /\ Import(x) # 0 THEN @ \cup {Import(x)} ELSE @]
NotImported(x, needed) == SayIf(needed /\ Import(x) = 0, "macro_not_imported", x)

\* smiCheckObjectName(): the name of an object may differ in no more than its case from
\* that of a complete object, or of a type, of any module.
redefinition(n, other, external) ==
  IF n \in BaseTypes THEN {Say("basetype_redefinition", n)}
  ELSE {[Say(IF n = other THEN "redefinition" ELSE "case_redefinition", n)
           EXCEPT !.external = external]}
ObjectNameErrors(n) ==
  LET own == {x \in DOMAIN objects \cup module.types : Fold(x) = Fold(n)}
      foreign == {x \in UNION {DOMAIN World[m] : m \in DOMAIN World} : Fold(x) = Fold(n)}
      macros == {x \in foreign : \A m \in DOMAIN World :
                   x \in DOMAIN World[m] => World[m][x].is = "macro"}
  IN  UNION {redefinition(n, x, FALSE) : x \in own}
      \cup UNION {redefinition(n, x, TRUE) : x \in foreign \ macros}

BeginMacro(x, needed, errors) ==
  /\ At({"macro"}) /\ This.macro = x
  /\ module' = Imports(x, needed)
  /\ Mean(Blank, ObjectNameErrors(This.name) \cup NotImported(x, needed) \cup errors)

\* These macros make a module without IMPORTS one of SMIv2.
BeginV2(x, needed, errors) ==
  /\ At({"macro"}) /\ This.macro = x
  /\ module' = [Imports(x, needed) EXCEPT
                  !.language = IF @ = "unknown" THEN "smiv2" ELSE @]
  /\ Mean(Blank, (IF x = "TEXTUAL-CONVENTION" THEN {} ELSE ObjectNameErrors(This.name))
                  \cup NotImported(x, needed) \cup errors)
  /\ UNCHANGED parser

BeginAssignment ==
  /\ At({"assignment"}) /\ UNCHANGED <<parser, module>>
  /\ Mean(Blank, ObjectNameErrors(This.name))

\* The keywords of the well-known types are also names, in the modules that define them.
BaseModules == {"SNMPv2-SMI", "SNMPv2-TC", "SNMPv2-CONF", "RFC-1212", "RFC1065-SMI",
                "RFC1155-SMI", "COPS-PR-SPPI"}
typeName(n) ==
  SayIf(n \in Common \cup SmiOnly /\ source.name \notin BaseModules, "type_smi_or_sppi", n)
  \cup SayIf(n \in SmiOnly /\ Pib /\ Import(n) = 0, "smi_construct_in_pib", n)
  \cup SayIf(n \in Wide /\ Pib /\ source.name # "COPS-PR-SPPI", "type_sppi", n)
BeginType ==
  /\ At({"type"}) /\ Mean(Blank, typeName(This.name)) /\ UNCHANGED <<parser, module>>
choiceClause ==
  /\ At({"choice"}) /\ UNCHANGED <<parser, module>>
  /\ Mean(sem, SayIf(source.name \notin BaseModules, "choice", NULL))

\* The text of a MACRO is skipped.
macroClause ==
  /\ At({"macro_definition"})
  /\ Tell(SayIf(source.name \notin BaseModules \cup {"RFC-1215", "COPS-PR-SPPI-TC"},
                "macro_definition", NULL))
  /\ module' = [module EXCEPT !.statements = @ + 1]
  /\ decl' = decl + 1 /\ clause' = 1
  /\ UNCHANGED <<source, parser, sem, objects>>
BeginTextualConvention ==
  BeginV2("TEXTUAL-CONVENTION", source.name # "SNMPv2-TC", {})
BeginObjectIdentity ==
  /\ BeginMacro("OBJECT-IDENTITY", source.name \notin {"SNMPv2-SMI", "COPS-PR-SPPI"}, {})
  /\ UNCHANGED parser
BeginObjectType ==
  /\ BeginMacro("OBJECT-TYPE", TRUE, {})
  /\ parser' = [parser EXCEPT !.indexFlag = "none", !.variationkind = "unknown"]
BeginTrapType ==
  /\ BeginMacro("TRAP-TYPE", TRUE,
                InPib("TRAP-TYPE") \cup SayIf(V2, "trap_type", NULL))
  /\ UNCHANGED parser
BeginNotificationType ==
  /\ BeginMacro("NOTIFICATION-TYPE", TRUE, InPib("NOTIFICATION-TYPE"))
  /\ UNCHANGED parser
BeginModuleIdentity ==
  /\ BeginMacro("MODULE-IDENTITY", TRUE,
                SayIf(module.identities > 0, "too_many_module_identities", NULL)
                \cup SayIf(module.statements > 0, "module_identity_not_first", NULL))
  /\ UNCHANGED parser
BeginObjectGroup        == BeginV2("OBJECT-GROUP", TRUE, {})
BeginNotificationGroup  ==
  BeginV2("NOTIFICATION-GROUP", TRUE, InPib("NOTIFICATION-GROUP"))
BeginModuleCompliance   == BeginV2("MODULE-COMPLIANCE", TRUE, {})
BeginAgentCapabilities  ==
  BeginV2("AGENT-CAPABILITIES", TRUE, InPib("AGENT-CAPABILITIES"))
-----------------------------------------------------------------------------
(***************************************************************************)
(* The ends of the declarations.                                           *)
(***************************************************************************)
Object(k) == [is |-> k, decl |-> decl, status |-> sem.status, access |-> sem.access,
              type |-> NULL, index |-> NoIndex, unique |-> <<>>, value |-> NULL,
              related |-> NULL, list |-> <<>>, create |-> FALSE,
              options |-> <<>>, refined |-> <<>>, parent |-> This.parent]
Registered(m) == [m EXCEPT !.known = @ \cup {Text[1].name, This.parent},
                           !.statements = @ + 1]
EndOf(d) == At({"end"}) /\ Text[1].of = "macro" /\ Text[1].macro = d
Ends(o, errors) ==
  /\ objects' = (Text[1].name :> o) @@ objects
  /\ Tell(errors) /\ sem' = Blank
  /\ UNCHANGED source
  /\ decl' = decl + 1 /\ clause' = 1

EndAssignment ==
  /\ At({"end"}) /\ Text[1].of = "assignment"
  /\ module' = Registered(module) /\ UNCHANGED parser
  /\ Ends(Object("value"), {})

IsNamed(o, n)  == ~o.type.inline /\ o.type.name = n
Misnamed(o, n) == ~o.type.inline /\ o.type.name # n

\* A SEQUENCE item that was read before is compared with the type now.
SeqTypeErrors(o) ==
  IF Text[1].name \notin DOMAIN module.sequence THEN {}
  ELSE SayIf(~Compatible(module.sequence[Text[1].name], o.type),
             "sequence_type_mismatch", Text[1].name)
       \cup SayIf(Pib /\ IsNamed(o, "Opaque"), "opaque_in_syntax", Text[1].name)
       \cup SayIf(Pib /\ IsNamed(o, "IpAddress"), "ipaddress_in_syntax", Text[1].name)

\* In SMI either INDEX or AUGMENTS counts, in SPPI the first of the two parts
\* gives the kind and the second one is appended.
Indexed(o) ==
  IF Pib
  THEN LET first == IF sem.index.kind = "unknown" THEN NoIndex ELSE sem.index
       IN  [o EXCEPT !.related = first.row,
                     !.index = [first EXCEPT !.row = NULL,
                                  !.implied = sem.mib.implied,
                                  !.list = IF @ = <<>> THEN @ ELSE @ \o sem.mib.list]]
  ELSE LET part == IF parser.indexFlag = "AUGMENTS" THEN sem.index ELSE sem.mib
       IN  [o EXCEPT !.index = [part EXCEPT !.row = NULL], !.related = part.row]

Mismatch(o, v) == \/ o.type.base = "octets" /\ v.base # "octets"
                  \/ o.type.base = "oid" /\ v.base # "oid"
Defaulted(o) ==
  IF sem.value = NULL \/ Mismatch(o, sem.value) THEN o ELSE [o EXCEPT !.value = sem.value]
DefaultErrors(o) ==
  SayIf(sem.value # NULL /\ Mismatch(o, sem.value), "defval_syntax", NULL)

\* PIB-REFERENCES and PIB-TAG share relatedPtr with AUGMENTS and with each other.
Pointer(o, label, name, k) ==
  IF label = NULL
  THEN [object |-> o, told |-> SayIf(Pib /\ IsNamed(o, name), "lacking", k)]
  ELSE [object |-> IF Misnamed(o, name) THEN o ELSE [o EXCEPT !.related = label],
        told |-> SayIf(o.related # NULL, "element_in_use", k)
                 \cup SayIf(Misnamed(o, name), "wrong_type", k)]
Erring(o) ==
  IF sem.errors = <<>> THEN [object |-> o, told |-> {}]
  ELSE [object |-> IF Text[2].of = "table" THEN [o EXCEPT !.list = sem.errors] ELSE o,
        told |-> SayIf(o.index.list # <<>>, "element_in_use", "INSTALL-ERRORS")
                 \cup SayIf(Text[2].of # "table", "install_errors_for_non_table", NULL)]

\* A column that is read-create makes its row creatable if that is declared.
RowOf(p) == p \in DOMAIN objects /\ objects[p].index.kind # "unknown"
\* Mutant: the row need not be there.
Created_Any(p) ==
  IF parser.creatable /\ p \in DOMAIN objects THEN [objects EXCEPT ![p].create = TRUE]
  ELSE objects
Created(p) ==
  IF parser.creatable /\ RowOf(p) THEN [objects EXCEPT ![p].create = TRUE] ELSE objects

EndObjectType ==
  /\ EndOf("OBJECT-TYPE")
  /\ LET o1 == Indexed([Object("object") EXCEPT !.type = sem.type, !.unique = sem.unique])
         r  == Pointer(Defaulted(o1), sem.references, "ReferenceId", "PIB-REFERENCES")
         t  == Pointer(r.object, sem.tag, "TagReferenceId", "PIB-TAG")
         e  == Erring(t.object)
     IN  /\ objects' = (Text[1].name :> e.object) @@ Created(This.parent)
         /\ Tell(SeqTypeErrors(o1) \cup DefaultErrors(o1) \cup r.told \cup t.told
                 \cup e.told
                 \cup SayIf(parser.creatable /\ ~RowOf(This.parent),
                            "scalar_readcreate", NULL))
  /\ parser' = [parser EXCEPT !.creatable = FALSE]
  /\ module' = Registered(module)
  /\ sem' = Blank /\ UNCHANGED source /\ decl' = decl + 1 /\ clause' = 1

EndObjectIdentity ==
  /\ EndOf("OBJECT-IDENTITY")
  /\ module' = Registered(module) /\ UNCHANGED parser
  /\ Ends(Object("identity"), {})

\* The variables of a trap and the objects of a notification or of a group.
Member ==
  /\ At({"member"})
  /\ module' = Label.module /\ UNCHANGED parser
  /\ LET local == Label.ref # NULL /\ Label.ref.module = source.name
         mine  == Text[1].macro \in {"OBJECT-GROUP", "NOTIFICATION-GROUP"}
     IN  Mean([sem EXCEPT !.list = IF Label.ref = NULL THEN @ ELSE Append(@, Label.ref)],
              Label.told \cup SayIf(mine /\ ~local, "compliance_member_not_local",
                                    This.label))
Enterprise == At({"enterprise"}) /\ Refer(sem) /\ UNCHANGED parser

\* A trap stands below subidentifier 0 of its enterprise.
EndTrapType ==
  /\ EndOf("TRAP-TYPE")
  /\ module' = Registered(module) /\ UNCHANGED parser
  /\ Ends([Object("trap") EXCEPT !.list = sem.list, !.status = "current"], {})
EndNotificationType ==
  /\ EndOf("NOTIFICATION-TYPE")
  /\ module' = Registered(module) /\ UNCHANGED parser
  /\ Ends([Object("notification") EXCEPT !.list = sem.list], {})
EndObjectGroup ==
  /\ EndOf("OBJECT-GROUP")
  /\ module' = Registered(module) /\ UNCHANGED parser
  /\ Ends([Object("group") EXCEPT !.list = sem.list, !.access = "not-accessible"], {})
EndNotificationGroup ==
  /\ EndOf("NOTIFICATION-GROUP")
  /\ module' = Registered(module) /\ UNCHANGED parser
  /\ Ends([Object("group") EXCEPT !.list = sem.list, !.access = "not-accessible"], {})
EndTypeDeclaration ==
  /\ At({"end"})
  /\ Text[1].of = "macro" => Text[1].macro = "TEXTUAL-CONVENTION"
  /\ Text[1].of # "assignment"
  /\ module' = [module EXCEPT !.statements = @ + 1, !.types = @ \cup {Text[1].name}]
  /\ UNCHANGED <<parser, objects, messages, source>>
  /\ sem' = Blank /\ decl' = decl + 1 /\ clause' = 1
-----------------------------------------------------------------------------
(***************************************************************************)
(* MODULE-IDENTITY and its revisions.                                      *)
(***************************************************************************)
\* CategoryID is NULL for "all" with a number, and only then the rule for the list
\* takes the first one for "all".
CategoryErrors(c) ==
  SayIf(c.all /\ c.numbered, "subject_categories_all_with_subid", NULL)
  \cup SayIf(~c.all /\ ~c.numbered, "subject_categories_missing_subid", NULL)
SubjectCategories ==
  /\ At({"categories"})
  /\ LET cs == This.names
     IN  Mean(sem,
           IF cs = <<>> THEN SayIf(Pib, "subject_categories_missing", NULL)
           ELSE InMib("SUBJECT-CATEGORIES")
                \cup UNION {CategoryErrors(cs[k]) : k \in DOMAIN cs}
                \cup SayIf(Len(cs) > 1 /\ cs[1].all /\ cs[1].numbered,
                           "subject_categories_all", NULL))
  /\ UNCHANGED <<parser, module>>
LastUpdated ==
  /\ At({"last_updated"})
  /\ module' = [module EXCEPT !.lastUpdated = checkDate(This.date)]
  /\ Mean(sem, DateErrors(This.date)) /\ UNCHANGED parser

\* Behind the last revision that is younger.
\* Mutant: at the end of the list.
addRevision_Append(m, date) == [m EXCEPT !.revisions = Append(@, date)]
addRevision(m, date) ==
  [m EXCEPT !.revisions =
     InsertAt(@, 1 + SelectLastInSeq(@, LAMBDA r : r > date), date)]
Revision ==
  /\ At({"revision"})
  /\ LET date == checkDate(This.date)
         last == module.revisions
     IN  /\ module' = addRevision(module, date)
         /\ Mean(sem, DateErrors(This.date)
                      \cup SayIf(last # <<>> /\ date >= last[Len(last)],
                                 "revision_not_descending", NULL)
                      \cup SayIf(date > module.lastUpdated,
                                 "revision_after_last_update", NULL))
  /\ UNCHANGED parser
RevisionPart ==
  /\ At({"revisions_end"})
  /\ LET missing == \/ module.revisions = <<>>
                    \/ module.revisions[1] # module.lastUpdated
     IN  /\ module' = IF missing THEN addRevision(module, module.lastUpdated) ELSE module
         /\ Mean(sem, SayIf(missing, "revision_missing", NULL))
  /\ UNCHANGED parser
EndModuleIdentity ==
  /\ EndOf("MODULE-IDENTITY")
  /\ module' = [Registered(module) EXCEPT !.identities = @ + 1]
  /\ UNCHANGED parser
  /\ Ends([Object("identity") EXCEPT !.status = "current"], {})
-----------------------------------------------------------------------------
(***************************************************************************)
(* MODULE-COMPLIANCE.  The lists of one MODULE part hold every object      *)
(* once, those of the statement are the parts' lists in their order.       *)
(***************************************************************************)
ComplianceModule ==
  /\ At({"module"})
  /\ parser' = [parser EXCEPT !.complianceModule =
                  IF This.module = source.name \/ This.module \notin DOMAIN World
                  THEN NULL ELSE This.module]
  /\ Mean(sem, {}) /\ UNCHANGED module

\* What a label means, and the import that is marked as used once more.
Marked(m, n) ==
  IF parser.complianceModule = NULL THEN m
  ELSE Use(m, SelectInSeq(m.imports,
                          LAMBDA x : x.name = n /\ x.module = parser.complianceModule))
MandatoryGroup ==
  /\ At({"mandatory"})
  /\ module' = Marked(Label.module, This.label)
  /\ Mean([sem EXCEPT !.mandatory =
             Append(@, IF parser.complianceModule = NULL THEN Label.ref
                       ELSE Found(parser.complianceModule, This.label))],
          Label.told)
  /\ UNCHANGED parser

Once(s, x) == IF x \in ToSet(s) THEN s ELSE Append(s, x)
ComplianceGroup ==
  /\ At({"group"})
  /\ module' = Marked(Label.module, This.label)
  /\ Mean([sem EXCEPT !.partOptions = Once(@, Label.ref)],
          Label.told \cup SayIf(Label.ref \in ToSet(sem.partOptions),
                                "optional_group_already_exists", This.label))
  /\ UNCHANGED parser

BeginComplianceObject ==
  /\ At({"refine"})
  /\ parser' = [parser EXCEPT !.variationkind = "unknown"]
  /\ module' = Label.module
  /\ Mean([sem EXCEPT !.varied = Label.ref], Label.told)
ComplianceObject ==
  /\ At({"refined"})
  /\ parser' = [parser EXCEPT !.creatable = FALSE]
  /\ module' = Marked(module, This.label)
  /\ Mean([sem EXCEPT !.partRefined = Once(@, sem.varied)],
          SayIf(sem.varied \in ToSet(sem.partRefined),
                "refinement_already_exists", This.label))

\* SYNTAX and WRITE-SYNTAX of a refinement or of a variation.
SyntaxPart ==
  /\ At({"refined_syntax"})
  /\ module' = Mentions(This.type)
  /\ parser' = [parser EXCEPT !.default = TypeOf(This.type).base]
  /\ Mean(sem, SyntaxErrors(This.type) \cup NotificationErrors("SYNTAX"))
WriteSyntaxPart ==
  /\ At({"write_syntax"})
  /\ module' = Mentions(This.type)
  /\ parser' = [parser EXCEPT !.default = TypeOf(This.type).base]
  /\ Mean(sem, SyntaxErrors(This.type) \cup InPib("WRITE-SYNTAX")
               \cup NotificationErrors("WRITE-SYNTAX"))

Joined(s) == [s EXCEPT !.options = @ \o s.partOptions, !.partOptions = <<>>,
                       !.refined = @ \o s.partRefined, !.partRefined = <<>>]
\* Mutant: the next label is still looked up in the module.
EndComplianceModule_Kept ==
  /\ At({"module_end"})
  /\ UNCHANGED parser
  /\ module' = IF parser.complianceModule = NULL THEN module
               ELSE Checked(parser.complianceModule, module)
  /\ Mean(Joined(sem), CheckedErrors(parser.complianceModule))
EndComplianceModule ==
  /\ At({"module_end"})
  /\ parser' = [parser EXCEPT !.complianceModule = NULL]
  /\ module' = IF parser.complianceModule = NULL THEN module
               ELSE Checked(parser.complianceModule, module)
  /\ Mean(Joined(sem), CheckedErrors(parser.complianceModule))

EndModuleCompliance ==
  /\ EndOf("MODULE-COMPLIANCE")
  /\ module' = Registered(module) /\ UNCHANGED parser
  /\ Ends([Object("compliance") EXCEPT
             !.list = sem.mandatory, !.options = sem.options,
             !.refined = sem.refined, !.access = "not-accessible"], {})
-----------------------------------------------------------------------------
(***************************************************************************)
(* AGENT-CAPABILITIES.  Only its errors are kept.                          *)
(***************************************************************************)
ModuleCapabilities ==
  /\ At({"supports"})
  /\ parser' = [parser EXCEPT !.capabilitiesModule =
                  IF This.module = source.name \/ This.module \notin DOMAIN World
                  THEN NULL ELSE This.module]
  /\ Mean(sem, {}) /\ UNCHANGED module
EndModuleCapabilities ==
  /\ At({"supports_end"})
  /\ parser' = [parser EXCEPT !.capabilitiesModule = NULL]
  /\ module' = IF parser.capabilitiesModule = NULL THEN module
               ELSE Checked(parser.capabilitiesModule, module)
  /\ Mean(sem, CheckedErrors(parser.capabilitiesModule))
CapabilitiesGroup == At({"includes", "cell"}) /\ Refer(sem) /\ UNCHANGED parser

BeginVariation ==
  /\ At({"variation"})
  /\ parser' = [parser EXCEPT !.variationkind = KindOf(Label.ref)]
  /\ Refer([sem EXCEPT !.varied = Label.ref])
VariationWords == AccessV2 \cup {"write-only"}
\* "not-accessible" is not one of them.
VariationAccess ==
  /\ At({"variation_access"})
  /\ LET w == This.word
         known == w \in VariationWords \ {"not-accessible"}
     IN  Mean(sem,
           IF known /\ parser.variationkind = "notification"
           THEN {Say("invalid_notification_variation_access", w)}
           ELSE SayIf(w = "write-only", "write_only", w)
                \cup SayIf(~known /\ w # "not-implemented",
                           "invalid_variation_access", w))
  /\ UNCHANGED <<parser, module>>
CreationPart ==
  /\ At({"creation"})
  /\ Mean(sem, NotificationErrors("CREATION-REQUIRES"))
  /\ UNCHANGED <<parser, module>>
-----------------------------------------------------------------------------
(***************************************************************************)
(* adjustDefval(): labels of enumerations, bits and object identifiers.    *)
(* A label of a bit that the type does not have is dropped without a word. *)
(***************************************************************************)
\* The names of a type that has some; one that is declared further down has them.
Names(base) == IF base \in {"enum", "bits", "unknown"} THEN {"up", "down"} ELSE {}
Pointed(n) == IF n \in module.known THEN Own(n)
              ELSE IF Import(n) # 0 THEN Found(module.imports[Import(n)].module, n)
              ELSE NULL
Unresolved(v) == v # NULL /\ ~v.resolved
OidUse(v) == IF Unresolved(v) /\ v.base = "oid" /\ v.labels[1] \notin module.known
             THEN {Import(v.labels[1])} \ {0} ELSE {}
Adjusted(v, base) ==
  IF v = NULL THEN NULL
  ELSE IF v.base = "bits"
  THEN [v EXCEPT !.labels = SelectSeq(@, LAMBDA n : n \in Names(base))]
  ELSE IF v.resolved \/ v.base \notin {"oid", "enum"} THEN v
  ELSE IF v.base = "enum" THEN [v EXCEPT !.resolved = v.labels[1] \in Names(base)]
  ELSE IF Pointed(v.labels[1]) = NULL THEN [v EXCEPT !.base = "unknown"]
  ELSE [v EXCEPT !.resolved = TRUE]
AdjustErrors(v) ==
  SayIf(Unresolved(v) /\ v.base = "oid" /\ Pointed(v.labels[1]) = NULL,
        "unknown_oidlabel", v.labels[1])

Variation ==
  /\ At({"varied"})
  /\ parser' = [parser EXCEPT !.creatable = FALSE, !.variationkind = "unknown"]
  /\ module' = [module EXCEPT !.used = @ \cup OidUse(sem.value)]
  /\ Mean([sem EXCEPT !.varied = NULL, !.value = NULL], AdjustErrors(sem.value))
EndAgentCapabilities ==
  /\ EndOf("AGENT-CAPABILITIES")
  /\ module' = Registered(module) /\ UNCHANGED parser
  /\ Ends([Object("capabilities") EXCEPT !.access = "not-accessible"], {})
-----------------------------------------------------------------------------
(***************************************************************************)
(* Error recovery, and the END of the module.                              *)
(***************************************************************************)
Flush ==
  /\ decl <= Len(source.decls) /\ clause > Len(Text)
  /\ Tell({Say("flush_declaration", NULL)})
  /\ sem' = Blank /\ decl' = decl + 1 /\ clause' = 1
  /\ UNCHANGED <<source, parser, module, objects>>

ModuleNameErrors ==
  SayIf(/\ ~Pib /\ source.suffix # "-MIB"
        /\ source.name \notin {"SNMPv2-SMI", "SNMPv2-TC", "SNMPv2-CONF"},
        "mib_modulename_suffix", NULL)
  \cup SayIf(/\ Pib /\ source.suffix # "-PIB"
             /\ source.name \notin {"COPS-PR-SPPI", "SNMPv2-SMI", "SNMPv2-TC"},
             "pib_modulename_suffix", NULL)
ModuleIdentityErrors ==
  SayIf(/\ V2 /\ module.identities < 1
        /\ source.name \notin Standard \cup {"SNMPv2-CONF"}, "no_module_identity", NULL)

EveryUse == module.used \cup UNION {OidUse(objects[n].value) : n \in DOMAIN objects}
Converted == {"internet", "mgmt", "IpAddress", "Counter", "Gauge", "TimeTicks"}
Illegal == {"ExtUTCTime", "ObjectName", "NotificationName"}
ImportErrors(k) ==
  LET i == module.imports[k]
  IN  SayIf(i.module = "SNMPv2-SMI" /\ i.name \in Illegal, "illegal_import", i.name)
      \cup SayIf(k \notin EveryUse /\ i.kind # "notfound", "unused_import", i.name)
      \cup SayIf(V2 /\ i.module \in {"RFC1155-SMI", "RFC1065-SMI"}
                 /\ i.name \in Converted, "obsolete_import", i.name)
checkImportsUsage ==
  IF source.name \in {"SNMPv2-TC", "SNMPv2-CONF", "RFC-1212", "RFC-1215"} THEN {}
  ELSE UNION {ImportErrors(k) : k \in DOMAIN module.imports}

AdjustedOf(n) == IF objects[n].type = NULL THEN objects[n].value
                 ELSE Adjusted(objects[n].value, objects[n].type.base)
End ==
  /\ decl = Len(source.decls) + 1
  /\ objects' = [n \in DOMAIN objects |->
                   [objects[n] EXCEPT !.value = AdjustedOf(n)]]
  /\ module' = [module EXCEPT !.language = IF @ = "unknown" THEN "smiv1" ELSE @,
                              !.used = EveryUse]
  /\ Tell(ModuleNameErrors \cup ModuleIdentityErrors \cup checkImportsUsage
          \cup UNION {AdjustErrors(objects[n].value) : n \in DOMAIN objects}
          \cup {Say("defval_syntax", n) :
                  n \in {n \in DOMAIN objects : Unresolved(AdjustedOf(n))}})
  /\ parser' = [parser EXCEPT !.capabilitiesModule = NULL]
  /\ decl' = decl + 1 /\ UNCHANGED <<source, clause, sem>>

ReadingNext ==
  \/ BeginAssignment \/ BeginType \/ choiceClause \/ macroClause
  \/ BeginTextualConvention \/ BeginObjectIdentity
  \/ BeginObjectType \/ BeginTrapType \/ BeginNotificationType
  \/ BeginModuleIdentity \/ BeginObjectGroup \/ BeginNotificationGroup
  \/ BeginModuleCompliance \/ BeginAgentCapabilities
  \/ Syntax \/ ConceptualTable \/ SequenceItem \/ Status \/ StatusCapabilities \/ AccessClause
  \/ Description \/ IndexPart \/ MibIndex \/ IndexType \/ UniqueType
  \/ SPPIPibReferencesPart \/ SPPIPibTagPart \/ SPPIErrorsPart \/ DefValPart
  \/ Member \/ Enterprise
  \/ SubjectCategories \/ LastUpdated \/ Revision \/ RevisionPart
  \/ ComplianceModule \/ MandatoryGroup \/ ComplianceGroup
  \/ BeginComplianceObject \/ ComplianceObject \/ SyntaxPart \/ WriteSyntaxPart
  \/ EndComplianceModule
  \/ ModuleCapabilities \/ EndModuleCapabilities \/ CapabilitiesGroup
  \/ BeginVariation \/ VariationAccess \/ CreationPart \/ Variation
  \/ EndAssignment \/ EndTypeDeclaration \/ EndObjectIdentity \/ EndObjectType
  \/ EndTrapType \/ EndNotificationType \/ EndModuleIdentity \/ EndObjectGroup
  \/ EndNotificationGroup \/ EndModuleCompliance \/ EndAgentCapabilities
  \/ Flush \/ End
=============================================================================
