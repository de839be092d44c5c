------------------------------ MODULE Clauses ------------------------------
(***************************************************************************)
(* The clauses of the macros of SMIv1, SMIv2 and SPPI as parser-smi.y      *)
(* reads them.  One action is one rule of the grammar: it looks at what    *)
(* the module has declared and imported and at the parser's variables that *)
(* outlive a rule, and adds to the meaning of the declaration.  A          *)
(* declaration whose text breaks off before its "end" is flushed, and the  *)
(* parser's variables keep what its clauses left in them.                  *)
(*                                                                         *)
(* The IMPORTS of the module have been read: ModuleLoader says how they    *)
(* are settled and how they decide on the language.                        *)
(***************************************************************************)
EXTENDS Integers, Sequences, FiniteSets, TLC
LOCAL INSTANCE SequencesExt

CONSTANTS
  Sources,  \* modules that may be read
  World,    \* what the loaded modules declare: module -> name -> [is, type]
  Folded,   \* the letters of the names that are not all lower case
  Now,      \* the time at which the parser runs, in minutes since 1970
  NULL

VARIABLES
  source,   \* the module that is read: name, suffix, language, imports, decls
  decl, clause,  \* the declaration and its clause that come next
  parser,   \* flags and modules of the parser, and its static variables
  module,   \* what is known of the module so far
  sem,      \* the meaning of the clauses of the current declaration
  objects,  \* the objects declared by complete declarations
  messages

reading == <<source, decl, clause, parser, module, sem, objects, messages>>

Text == source.decls[decl]
This == Text[clause]
At(rules) == /\ decl <= Len(source.decls) /\ clause <= Len(Text)
             /\ This.of \in rules

V2  == module.language = "smiv2"
Pib == module.language = "sppi"

Say(k, about) == [kind |-> k, about |-> about, decl |-> decl, external |-> FALSE]
SayIf(p, k, about) == IF p THEN {Say(k, about)} ELSE {}
InPib(what) == SayIf(Pib, "smi_construct_in_pib", what)
InMib(what) == SayIf(~Pib, "sppi_construct_in_mib", what)

NoIndex == [kind |-> "unknown", implied |-> FALSE, list |-> <<>>, row |-> NULL]
Blank == [type |-> NULL, units |-> NULL, access |-> "unknown", status |-> "unknown",
          index |-> NoIndex, mib |-> NoIndex, unique |-> <<>>, value |-> NULL,
          references |-> NULL, tag |-> NULL, errors |-> <<>>, list |-> <<>>,
          mandatory |-> <<>>, options |-> <<>>, refined |-> <<>>,
          partOptions |-> <<>>, partRefined |-> <<>>, varied |-> NULL]

Reset == [creatable |-> FALSE, indexFlag |-> "none", implied |-> FALSE,
          variationkind |-> "unknown", default |-> "unknown",
          complianceModule |-> NULL, capabilitiesModule |-> NULL]

Linked(s) == [language |-> s.language, imports |-> s.imports, used |-> {},
              identities |-> 0, statements |-> 0, lastUpdated |-> 0,
              revisions |-> <<>>, known |-> {}, types |-> {}, sequence |-> <<>>]

ReadingInit ==
  /\ source \in Sources
  /\ decl = 1 /\ clause = 1
  /\ parser = Reset /\ module = Linked(source) /\ sem = Blank
  /\ objects = <<>> /\ messages = {}

\* What every action leaves alone, or moves on.
Onward == clause' = clause + 1 /\ UNCHANGED <<source, decl>>
Tell(errors) == messages' = messages \cup errors
Mean(s, errors) == /\ sem' = s /\ Tell(errors) /\ Onward
                   /\ UNCHANGED objects
-----------------------------------------------------------------------------
(***************************************************************************)
(* Names of imports and of objects.  Import() is 0 if there is none.       *)
(* Objects of a MODULE or SUPPORTS part that are not imported get a faked  *)
(* import, which findImportByName() ignores.                               *)
(***************************************************************************)
Import(n) == SelectInSeq(module.imports, LAMBDA x : x.name = n /\ ~x.faked)
Settled(k) == k # 0 /\ module.imports[k].kind # "notfound"
Use(m, k)  == IF k = 0 THEN m ELSE [m EXCEPT !.used = @ \cup {k}]

IsObject(m, n) == /\ m \in DOMAIN World /\ n \in DOMAIN World[m]
                  /\ World[m][n].is \notin {"type", "macro"}
Ref(m, n)   == [module |-> m, name |-> n]
Found(m, n) == IF IsObject(m, n) THEN Ref(m, n) ELSE NULL
Own(n)      == Ref(source.name, n)

Supporting == IF parser.complianceModule # NULL THEN parser.complianceModule
              ELSE parser.capabilitiesModule
Faked(m, n) == [name |-> n, module |-> m, kind |-> "unknown", faked |-> TRUE]

\* A label of an object identifier: the module's own object, an imported one, one
\* of the module that a compliance or capabilities statement is about, or one
\* that is declared further down.
\* Mutant: the module of a compliance statement comes before the imports.
Resolve_ModuleFirst(n) ==
  IF n \in module.known THEN [ref |-> Own(n), module |-> module, told |-> {}]
  ELSE IF Supporting # NULL /\ IsObject(Supporting, n)
  THEN [ref |-> Ref(Supporting, n), told |-> {},
        module |-> [module EXCEPT !.imports = Append(@, Faked(Supporting, n)),
                                  !.used = @ \cup {Len(module.imports) + 1}]]
  ELSE IF Settled(Import(n))
  THEN [ref |-> Found(module.imports[Import(n)].module, n),
        module |-> Use(module, Import(n)), told |-> {}]
  ELSE [ref |-> Own(n), module |-> [module EXCEPT !.known = @ \cup {n}],
        told |-> SayIf(Supporting # NULL, "identifier_not_in_module", n)]
Resolve(n) ==
  IF n \in module.known THEN [ref |-> Own(n), module |-> module, told |-> {}]
  ELSE IF Settled(Import(n))
  THEN [ref |-> Found(module.imports[Import(n)].module, n),
        module |-> Use(module, Import(n)), told |-> {}]
  ELSE IF Supporting # NULL /\ IsObject(Supporting, n)
  THEN [ref |-> Ref(Supporting, n), told |-> {},
        module |-> [module EXCEPT !.imports = Append(@, Faked(Supporting, n)),
                                  !.used = @ \cup {Len(module.imports) + 1}]]
  ELSE [ref |-> Own(n), module |-> [module EXCEPT !.known = @ \cup {n}],
        told |-> SayIf(Supporting # NULL, "identifier_not_in_module", n)]

KindOf(r) == IF r # NULL /\ r.module # source.name THEN World[r.module][r.name].is
             ELSE "unknown"

\* checkImports(): what is not settled yet is looked up in the given module.
Checked(m, mod) ==
  LET Look(i) ==
        IF i.kind # "unknown" THEN i
        ELSE IF m = NULL THEN [i EXCEPT !.kind = "notfound"]
        ELSE [i EXCEPT !.module = m,
                       !.kind = IF i.name \in DOMAIN World[m] THEN World[m][i.name].is
                                ELSE "notfound"]
  IN  [mod EXCEPT !.imports = [k \in DOMAIN @ |-> Look(@[k])]]
CheckedErrors(m) ==
  {Say("identifier_not_in_module", module.imports[k].name) :
     k \in {k \in DOMAIN module.imports :
              /\ module.imports[k].kind = "unknown" /\ m # NULL
              /\ module.imports[k].name \notin DOMAIN World[m]}}
-----------------------------------------------------------------------------
(***************************************************************************)
(* SYNTAX.  A written type has a text and a form: plain, range, size or    *)
(* names; with a form it is a type without a name, derived from the one    *)
(* that has it.                                                            *)
(***************************************************************************)
AsWritten(n, b) == [name |-> n, base |-> b, inline |-> FALSE]
Builtin ==
  "INTEGER" :> AsWritten("Integer32", "integer32")
  @@ "Integer32" :> AsWritten("Integer32", "integer32")
  @@ "BITS" :> AsWritten("Bits", "bits")
  @@ "OCTET STRING" :> AsWritten("OctetString", "octets")
  @@ "OBJECT IDENTIFIER" :> AsWritten("ObjectIdentifier", "oid")
  @@ [n \in {"IpAddress", "Opaque"} |-> AsWritten(n, "octets")]
  @@ [n \in {"Counter32", "Gauge32", "Unsigned32", "TimeTicks"} |->
        AsWritten(n, "unsigned32")]
  @@ [n \in {"Counter64", "Unsigned64"} |-> AsWritten(n, "unsigned64")]
  @@ "Integer64" :> AsWritten("Integer64", "integer64")
Imported(n) == World[module.imports[Import(n)].module][n].base
\* The type a text stands for.  One that is declared further down has no base yet.
TypeOf(t) ==
  IF t.text = "INTEGER" /\ t.form = "names" THEN AsWritten("Enumeration", "enum")
  ELSE IF t.text \in DOMAIN Builtin THEN Builtin[t.text]
  ELSE IF Settled(Import(t.text)) THEN AsWritten(t.text, Imported(t.text))
  ELSE AsWritten(t.text, "unknown")

Standard == {"SNMPv2-SMI", "SNMPv2-TC", "COPS-PR-SPPI"}
IntegerErrors(t) ==
  SayIf(/\ t.text = "INTEGER" /\ t.form # "names" /\ V2
        /\ source.name \notin Standard, "integer_in_smiv2", t.text)

\* Integer32 and the types of both languages must be imported in both.
Common == {"Integer32", "Unsigned32", "IpAddress", "TimeTicks", "Opaque"}
CommonErrors(t) ==
  SayIf(t.text \in Common /\ Import(t.text) = 0 /\ V2, "smiv2_basetype", t.text)
  \cup SayIf(t.text \in Common /\ Import(t.text) = 0 /\ Pib, "sppi_basetype", t.text)
OpaqueErrors(t) ==
  SayIf(t.text = "Opaque" /\ (V2 \/ Pib), "opaque_obsolete", t.text)

\* Those of SMIv2 are allowed in a PIB that imports them.
Counters == {"Counter32", "Counter64"}
SmiOnly  == Counters \cup {"Gauge32"}
CounterErrors(t) ==
  SayIf(/\ t.text \in SmiOnly /\ Import(t.text) = 0
        /\ V2, "smiv2_basetype", t.text)
  \cup SayIf(/\ t.text \in SmiOnly /\ Import(t.text) = 0
             /\ Pib, "smi_construct_in_pib", t.text)
  \cup SayIf(t.text \in Counters /\ t.form = "range", "range_for_counter", t.text)

\* Those of SPPI may be used in a MIB that imports them.
Wide == {"Integer64", "Unsigned64"}
WideErrors(t) ==
  IF t.text \notin Wide \/ Import(t.text) # 0 THEN {}
  ELSE InMib(t.text) \cup SayIf(Pib, "sppi_basetype", t.text)

\* The types that take no restriction.
RestrictionErrors(t) ==
  SayIf(/\ t.form # "plain" /\ V2
        /\ \/ t.text \in {"IpAddress", "TimeTicks", "OBJECT IDENTIFIER"}
           \/ t.text \in Counters /\ t.form # "range",
        "unexpected_restriction", t.text)

SyntaxErrors(t) ==
  IntegerErrors(t) \cup CommonErrors(t) \cup OpaqueErrors(t) \cup CounterErrors(t)
  \cup WideErrors(t) \cup RestrictionErrors(t)

\* In a SEQUENCE no type takes a restriction, and Integer64 belongs to SPPI even
\* if it is imported.
ItemErrors(t) ==
  CommonErrors(t) \cup OpaqueErrors(t)
  \cup CounterErrors([t EXCEPT !.form = "plain"])
  \cup SayIf(t.form # "plain" /\ V2, "unexpected_restriction", t.text)
  \cup IF t.text = "Integer64"
       THEN InMib(t.text) \cup SayIf(Pib /\ Import(t.text) = 0, "sppi_basetype", t.text)
       ELSE WideErrors(t)

BaseTypes == Common \cup SmiOnly \cup Wide
Fold(n) == IF n \in DOMAIN Folded THEN Folded[n] ELSE n

Inline(t) == t.form # "plain" /\ t.text \notin Counters
Meant(t) == [TypeOf(t) EXCEPT !.inline = Inline(t)]
Mentions(t) == Use(module, Import(t.text))

Syntax ==
  /\ At({"syntax"})
  /\ module' = Mentions(This.type)
  /\ parser' = [parser EXCEPT !.default = TypeOf(This.type).base]
  /\ Mean([sem EXCEPT !.type = Meant(This.type)], SyntaxErrors(This.type))

\* SEQUENCE OF a row type is a type without a name, and no SYNTAX of a DEFVAL.
ConceptualTable ==
  /\ At({"table"})
  /\ module' = Use(module, Import(This.row)) /\ UNCHANGED parser
  /\ Mean([sem EXCEPT !.type = [AsWritten(This.row, "unknown") EXCEPT !.inline = TRUE]], {})

\* The type of a SEQUENCE item is compared with that of a column, whichever of the
\* two is read first.
Compatible(item, t) ==
  \/ item.name = t.name
  \/ item.base = "integer32" /\ t.base = "enum"
  \/ item.base = "octets" /\ t.base = "bits"
ItemType(t) == IF t.text = "BITS" THEN Builtin["OCTET STRING"] ELSE TypeOf(t)
\* What an item has already: the type of a column, its own or an imported one, or the
\* one another SEQUENCE gave it.
Typed(n) ==
  IF n \in DOMAIN objects /\ objects[n].type # NULL THEN {objects[n].type}
  ELSE IF n \in DOMAIN module.sequence THEN {module.sequence[n]}
  ELSE IF n \notin module.known /\ Settled(Import(n))
  THEN {AsWritten(World[module.imports[Import(n)].module][n].type,
                  World[module.imports[Import(n)].module][n].base)}
  ELSE {}
ItemRead(t, n) ==
  IF n \notin module.known /\ Settled(Import(n)) THEN Use(Mentions(t), Import(n))
  ELSE [Mentions(t) EXCEPT !.known = @ \cup {n},
                           !.sequence = IF Typed(n) # {} THEN @ ELSE (n :> ItemType(t)) @@ @]
\* Mutant: the columns that are declared already are not looked at.
SequenceItem_Later ==
  /\ At({"item"})
  /\ module' = ItemRead(This.type, This.label) /\ UNCHANGED parser
  /\ Mean(sem, ItemErrors(This.type))
SequenceItem ==
  /\ At({"item"})
  /\ module' = ItemRead(This.type, This.label) /\ UNCHANGED parser
  /\ Mean(sem, ItemErrors(This.type) \cup
               SayIf(\E t \in Typed(This.label) : ~Compatible(ItemType(This.type), t),
                     "sequence_type_mismatch", This.label))
-----------------------------------------------------------------------------
(***************************************************************************)
(* STATUS, ACCESS, DESCRIPTION and dates.                                  *)
(***************************************************************************)
StatusOf(w) ==
  IF V2 THEN IF w \in {"mandatory", "optional"} THEN "current"
             ELSE IF w \in {"current", "deprecated", "obsolete"} THEN w ELSE "unknown"
  ELSE IF Pib THEN IF w = "deprecated" THEN "obsolete"
                   ELSE IF w \in {"current", "obsolete"} THEN w ELSE "unknown"
  ELSE IF w = "current" THEN "mandatory"
  ELSE IF w = "deprecated" THEN "obsolete"
  ELSE IF w \in {"mandatory", "optional", "obsolete"} THEN w ELSE "unknown"
StatusErrors(w) ==
  LET valid == IF V2 \/ Pib THEN {"current", "deprecated", "obsolete"}
               ELSE {"mandatory", "optional", "deprecated", "obsolete"}
  IN  SayIf(w \notin valid, "invalid_status", w)
Status ==
  /\ At({"status"})
  /\ Mean([sem EXCEPT !.status = StatusOf(This.word)], StatusErrors(This.word))
  /\ UNCHANGED <<parser, module>>

Capable == {"current", "obsolete"}
StatusCapabilities ==
  /\ At({"capabilities_status"})
  /\ Mean([sem EXCEPT !.status = IF This.word \in Capable THEN This.word ELSE "unknown"],
          SayIf(This.word \notin Capable, "invalid_capabilities_status", This.word))
  /\ UNCHANGED <<parser, module>>

AccessV1  == {"not-accessible", "read-only", "read-write"}
AccessV2  == AccessV1 \cup {"accessible-for-notify", "read-create"}
AccessPib == {"install", "install-notify", "notify", "report-only", "not-accessible"}
AccessOf(w) ==
  IF Pib THEN IF w \in AccessPib THEN w ELSE "unknown"
  ELSE IF w = "write-only" THEN "read-write"
  ELSE IF V2 /\ w = "read-create" THEN "read-write"
  ELSE IF V2 /\ w = "accessible-for-notify" THEN "notify"
  ELSE IF w \in AccessV1 THEN w ELSE "unknown"
AccessErrors(w) ==
  IF w = "write-only" /\ ~Pib THEN {Say("write_only", w)}
  ELSE SayIf(w \notin (IF Pib THEN AccessPib ELSE IF V2 THEN AccessV2 ELSE AccessV1),
             "invalid_access", w)

\* The keyword before the word.
MaxAccessErrors(by) ==
  SayIf(by = "MAX-ACCESS" /\ module.language = "smiv1", "max_access_in_smiv1", by)
  \cup SayIf(by = "ACCESS" /\ V2, "access_in_smiv2", by)
  \cup IF by \in {"MAX-ACCESS", "ACCESS", "MIN-ACCESS"} THEN InPib(by) ELSE {}
PibAccessErrors(by, w) ==
  IF by \notin {"PIB-ACCESS", "POLICY-ACCESS", "PIB-MIN-ACCESS"} THEN {}
  ELSE InMib(by)
       \cup SayIf(by = "POLICY-ACCESS", "policy_access", by)
       \cup SayIf(by # "PIB-MIN-ACCESS" /\ AccessOf(w) = "not-accessible",
                  "not_accessible_in_pib_access", by)
       \cup SayIf(by = "PIB-MIN-ACCESS" /\ AccessOf(w) = "report-only",
                  "report_only_in_pib_min_access", by)

AccessClause ==
  /\ At({"access"})
  /\ parser' = [parser EXCEPT !.creatable = @ \/ (V2 /\ This.word = "read-create")]
  /\ Mean([sem EXCEPT !.access = AccessOf(This.word)],
          AccessErrors(This.word) \cup MaxAccessErrors(This.by)
          \cup PibAccessErrors(This.by, This.word))
  /\ UNCHANGED module

\* An OBJECT-TYPE of SMIv1 needs no DESCRIPTION.
Description ==
  /\ At({"description", "no_description"})
  /\ Mean(sem, SayIf(This.of = "no_description" /\ (V2 \/ Pib),
                     "missing_description", NULL)
               \cup SayIf(This.of = "description" /\ This.empty,
                          "empty_description", NULL))
  /\ UNCHANGED <<parser, module>>
-----------------------------------------------------------------------------
(***************************************************************************)
(* ExtUTCTime.  A date has a length and, if its characters are right, the  *)
(* numbers that stand there; two digits are a year of the last century.    *)
(***************************************************************************)
YearOf(d)  == IF d.length = 11 THEN d.year + 1900 ELSE d.year
Readable(d) == d.length \in {11, 13} /\ d.digits
\* timegm(): days since 1970, with months and days beyond their range carried on.
Days(y, month, day) ==
  LET y1 == y + ((month - 1) \div 12)
      m1 == ((month - 1) % 12) + 1
      yy == IF m1 <= 2 THEN y1 - 1 ELSE y1
      mm == (m1 + 9) % 12
  IN  (365 * yy) + (yy \div 4) - (yy \div 100) + (yy \div 400)
      + (((153 * mm) + 2) \div 5) + day - 1 - 719468
Minutes(d) == (Days(YearOf(d), d.month, d.day) * 1440) + (d.hour * 60) + d.minute
Epoch == 10519200    \* 01 Jan 1990
checkDate(d) == IF Readable(d) THEN Minutes(d) ELSE 0
DateErrors(d) ==
  IF d.length \notin {11, 13} THEN {Say("date_length", NULL)}
  ELSE IF ~d.digits THEN {Say("date_character", NULL)}
  ELSE SayIf(d.length = 11 /\ YearOf(d) < 1990, "date_year_2digits", NULL)
       \cup SayIf(d.month \notin 1 .. 12, "date_month", NULL)
       \cup SayIf(d.day \notin 1 .. 31, "date_day", NULL)
       \cup SayIf(d.hour \notin 0 .. 23, "date_hour", NULL)
       \cup SayIf(d.minute \notin 0 .. 59, "date_minutes", NULL)
       \cup SayIf(Minutes(d) < Epoch, "date_in_past", NULL)
       \cup SayIf(Minutes(d) > Now, "date_in_future", NULL)
-----------------------------------------------------------------------------
(***************************************************************************)
(* INDEX, AUGMENTS, PIB-INDEX, EXTENDS and the other clauses that refer to *)
(* objects.                                                                *)
(***************************************************************************)
Label == Resolve(This.label)
Refer(s) == /\ module' = Label.module
            /\ Mean(s, Label.told)

IndexKinds == "PIB-INDEX" :> "index" @@ "AUGMENTS" :> "augment" @@ "EXTENDS" :> "sparse"
IndexPart ==
  /\ At({"entry"})
  /\ LET kind == IndexKinds[This.by]
         pib  == This.by = "PIB-INDEX"
     IN  Mean([sem EXCEPT !.index =
                 [kind |-> kind, implied |-> pib /\ parser.implied,
                  list |-> IF pib THEN <<Label.ref>> ELSE <<>>,
                  row  |-> IF pib THEN NULL ELSE Label.ref]],
              Label.told \cup IF This.by = "AUGMENTS" THEN {} ELSE InMib(This.by))
  /\ module' = Label.module
  /\ parser' = [parser EXCEPT !.indexFlag = This.by]

\* Mutant: IMPLIED of an index that was read before is kept.
MibIndex_Kept ==
  /\ At({"index"}) /\ UNCHANGED <<parser, module>>
  /\ Mean([sem EXCEPT !.mib = [NoIndex EXCEPT !.kind = "index", !.implied = parser.implied]],
          SayIf(~Pib /\ parser.indexFlag # "none", "index_and_augments_used", NULL)
          \cup SayIf(Pib /\ parser.indexFlag # "PIB-INDEX",
                     "index_without_pib_index", NULL))
MibIndex ==
  /\ At({"index"})
  /\ parser' = [parser EXCEPT !.implied = FALSE]
  /\ Mean([sem EXCEPT !.mib = [NoIndex EXCEPT !.kind = "index"]],
          SayIf(~Pib /\ parser.indexFlag # "none", "index_and_augments_used", NULL)
          \cup SayIf(Pib /\ parser.indexFlag # "PIB-INDEX",
                     "index_without_pib_index", NULL))
  /\ UNCHANGED module

IndexType ==
  /\ At({"column"})
  /\ parser' = [parser EXCEPT !.implied = @ \/ This.implied]
  /\ Refer([sem EXCEPT !.mib.list = Append(@, Label.ref),
                       !.mib.implied = parser.implied \/ This.implied])

UniqueType ==
  /\ At({"unique"})
  /\ module' = Label.module
  /\ Mean([sem EXCEPT !.unique = Append(@, Label.ref)],
          Label.told \cup InMib("UNIQUENESS"))
  /\ UNCHANGED parser

SPPIPibReferencesPart ==
  /\ At({"references"})
  /\ module' = Label.module
  /\ Mean([sem EXCEPT !.references = Label.ref],
          Label.told \cup InMib("PIB-REFERENCES"))
  /\ UNCHANGED parser
SPPIPibTagPart ==
  /\ At({"tag"})
  /\ module' = Label.module
  /\ Mean([sem EXCEPT !.tag = Label.ref], Label.told \cup InMib("PIB-TAG"))
  /\ UNCHANGED parser
SPPIErrorsPart ==
  /\ At({"install_error"})
  /\ Mean([sem EXCEPT !.errors = Append(@, This.number)],
          InMib("INSTALL-ERRORS")
          \cup SayIf(This.number \notin 1 .. 65536, "error_number_range", NULL))
  /\ UNCHANGED <<parser, module>>
-----------------------------------------------------------------------------
(***************************************************************************)
(* DEFVAL.  A value has a form; what a label or a string of hexadecimal    *)
(* digits means depends on the SYNTAX that was read last.                  *)
(***************************************************************************)
Value(b, l) == [base |-> b, labels |-> l, resolved |-> TRUE]
ValueOf(f, l) ==
  CASE f = "number" -> Value("unsigned32", <<>>)
    [] f = "string" -> Value("octets", <<>>)
    [] f = "hex"    -> Value(IF parser.default = "octets" THEN "octets" ELSE "unsigned32", <<>>)
    [] f = "bits"   -> Value("bits", l)
    [] f = "oid"    -> Value("oid", <<>>)
    [] f = "label"  -> IF parser.default \in {"enum", "oid"}
                       THEN [Value(parser.default, l) EXCEPT !.resolved = FALSE]
                       ELSE Value(parser.default, <<>>)
ValueErrors(f) ==
  SayIf(f = "label" /\ parser.default \notin {"enum", "oid"}, "defval_syntax", NULL)
  \cup SayIf(f = "oid", IF V2 THEN "oid_defval_smiv2" ELSE "oid_defval_smiv1", NULL)

NotificationErrors(what) ==
  SayIf(parser.variationkind = "notification", "notification_variation", what)

DefValPart ==
  /\ At({"defval"})
  /\ LET v == ValueOf(This.form, This.labels)
         refused == parser.default = "bits" /\ v.base # "bits"
     IN  Mean([sem EXCEPT !.value = IF refused THEN NULL ELSE v],
              ValueErrors(This.form) \cup NotificationErrors("DEFVAL")
              \cup SayIf(refused, "defval_syntax", NULL))
  /\ UNCHANGED <<parser, module>>
=============================================================================
