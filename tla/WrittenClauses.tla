---------------------------- MODULE WrittenClauses ----------------------------
(***************************************************************************)
(* What the text of a module means, clause by clause and without a memory. *)
(***************************************************************************)
EXTENDS Declarations
LOCAL INSTANCE SequencesExt
LOCAL INSTANCE FiniteSetsExt

Finished == decl = Len(source.decls) + 2
Decls    == DOMAIN source.decls
Ofs(d, rule) == {c \in DOMAIN source.decls[d] : source.decls[d][c].of = rule}
Complete(d) == Ofs(d, "end") # {}
Flushed     == {d \in Decls : ~Complete(d)}
MacroOf(d)  == IF source.decls[d][1].of = "macro" THEN source.decls[d][1].macro ELSE "none"
Completed(x) == {d \in Decls : Complete(d) /\ MacroOf(d) = x}
NameOf(d)   == source.decls[d][1].name
EndAt(d)    == source.decls[d][Len(source.decls[d])]
Labels(d, rule) ==
  LET s == SelectSeq(source.decls[d], LAMBDA c : c.of = rule)
  IN  [k \in DOMAIN s |-> s[k].label]
NamesIn(refs) == [k \in DOMAIN refs |-> refs[k].name]
Said(k, d)    == \E e \in messages : e.kind = k /\ e.decl = d
SaidOf(k, n)  == \E e \in messages : e.kind = k /\ e.about = n

\* The index of a row is the one its own clauses write: neither IMPLIED nor
\* AUGMENTS of a row that was read before, or broke off, gets into it.
IndexAsWritten ==
  \A d \in Completed("OBJECT-TYPE") :
    LET o       == objects[NameOf(d)]
        columns == Labels(d, "column")
        first   == {source.decls[d][c] : c \in Ofs(d, "entry")}
        implied == \E c \in Ofs(d, "column") : source.decls[d][c].implied
    IN  IF Pib
        THEN /\ o.index.kind = IF first = {} THEN "unknown"
                               ELSE CHOOSE k \in {IndexKinds[e.by] : e \in first} : TRUE
             /\ NamesIn(o.index.list) =
                  IF \E e \in first : e.by = "PIB-INDEX"
                  THEN Labels(d, "entry") \o columns ELSE <<>>
             /\ o.index.implied = implied
             /\ columns # <<>> /\ o.index.list = <<>> => Said("index_without_pib_index", d)
        ELSE IF \E e \in first : e.by = "AUGMENTS"
        THEN /\ o.index.kind = "augment" /\ ~o.index.implied
             /\ o.related.name = Labels(d, "entry")[1]
        ELSE /\ o.index.kind = IF Ofs(d, "index") = {} THEN "unknown" ELSE "index"
             /\ NamesIn(o.index.list) = columns
             /\ o.index.implied = implied

\* A row is creatable exactly if a column that is declared below it is read-create,
\* and a read-create object without a row before it is told.  Only a declaration
\* that breaks off behind its MAX-ACCESS hands this on to the next object.
V2Macros == {"TEXTUAL-CONVENTION", "OBJECT-GROUP", "NOTIFICATION-GROUP",
             "MODULE-COMPLIANCE", "AGENT-CAPABILITIES"}
IsV2(d) == \/ source.language = "smiv2"
           \/ source.language = "unknown" /\ \E e \in 1 .. d : MacroOf(e) \in V2Macros
Before(p, q) == p[1] < q[1] \/ (p[1] = q[1] /\ p[2] < q[2])
Places(rule) == UNION {{<<d, c>> : c \in Ofs(d, rule)} : d \in Decls}
ClauseAt(p)  == source.decls[p[1]][p[2]]
Creates == {p \in Places("access") : ClauseAt(p).word = "read-create" /\ IsV2(p[1])}
Settles == {p \in Places("end") : p[1] \in Completed("OBJECT-TYPE")}
           \cup Places("refined") \cup Places("varied")
Creating(d) ==
  \E p \in Creates : /\ Before(p, <<d, Len(source.decls[d])>>)
                     /\ ~\E q \in Settles : /\ Before(p, q)
                                            /\ Before(q, <<d, Len(source.decls[d])>>)
RowBefore(d) == \E r \in Completed("OBJECT-TYPE") :
                  /\ r < d /\ NameOf(r) = EndAt(d).parent
                  /\ objects[NameOf(r)].index.kind # "unknown"
RowsCreatable ==
  \A d \in Completed("OBJECT-TYPE") :
    /\ objects[NameOf(d)].create <=>
         \E x \in Completed("OBJECT-TYPE") :
           x > d /\ EndAt(x).parent = NameOf(d) /\ RowBefore(x) /\ Creating(x)
    /\ Said("scalar_readcreate", d) <=> Creating(d) /\ ~RowBefore(d)
    /\ Creating(d) => \/ \E p \in Creates : p[1] = d
                      \/ \E f \in Flushed : f < d /\ \E p \in Creates : p[1] = f

\* A type in a SEQUENCE that is not that of the column is told, whichever of the
\* two is read first.
SequenceTypesJudged ==
  \A d \in Completed("OBJECT-TYPE"), p \in Places("item"), c \in UNION {Ofs(x, "syntax") : x \in Decls} :
    /\ c \in Ofs(d, "syntax")
    /\ ClauseAt(p).label = NameOf(d)
    => (SaidOf("sequence_type_mismatch", NameOf(d)) <=>
          ~Compatible(ItemType(ClauseAt(p).type), TypeOf(source.decls[d][c].type)))

\* A default value that is kept fits the type of its object, and one that is dropped
\* or stays without a meaning is told.
DefvalsTyped ==
  \A d \in Completed("OBJECT-TYPE") :
    LET o == objects[NameOf(d)]
        v == o.value
    IN  Ofs(d, "defval") # {} =>
          IF v = NULL THEN Said("defval_syntax", d)
          ELSE /\ o.type.base \in {"octets", "oid", "bits"} =>
                    v.base = o.type.base \/ SaidOf("defval_syntax", NameOf(d))
               /\ Unresolved(v) => SaidOf("defval_syntax", NameOf(d))
               /\ v.base = "bits" => \A k \in DOMAIN v.labels : v.labels[k] \in Names(o.type.base)

\* The revisions are the dates that are written, the youngest one first, and the
\* date of LAST-UPDATED is one of them; a list in another order and a missing
\* revision are told.
Dates(d) == LET s == SelectSeq(source.decls[d], LAMBDA c : c.of = "revision")
            IN  [k \in DOMAIN s |-> checkDate(s[k].date)]
DatesUpTo(d) == FlattenSeq([k \in 1 .. d |-> Dates(k)])
RevisionsSound ==
  LET all == DatesUpTo(Len(source.decls))
      rev == module.revisions
  IN  /\ \A k \in 2 .. Len(rev) : rev[k - 1] >= rev[k]
      /\ ToSet(all) \subseteq ToSet(rev) /\ Len(all) <= Len(rev)
      /\ ToSet(rev) \subseteq ToSet(all) \cup
           {checkDate(ClauseAt(p).date) : p \in Places("last_updated")}
      /\ \A d \in Completed("MODULE-IDENTITY") :
           \A c \in Ofs(d, "last_updated") :
             /\ checkDate(source.decls[d][c].date) \in ToSet(rev)
             /\ Completed("MODULE-IDENTITY") = {d} /\ Flushed = {} =>
                  /\ Said("revision_missing", d) <=>
                       \/ Dates(d) = <<>>
                       \/ checkDate(source.decls[d][c].date) # Max(ToSet(Dates(d)))
                  /\ Said("revision_not_descending", d) <=>
                       \E k \in 2 .. Len(all) : all[k] >= all[k - 1]

\* An import is told to be unused exactly if no clause that was read, complete or not,
\* names it before the module itself has such an object.
Declares(p, n) ==
  LET c == ClauseAt(p) IN (c.of = "end" /\ n \in {NameOf(p[1]), c.parent})
                          \/ (c.of = "item" /\ c.label = n /\ Import(n) = 0)
Labelled == {"item", "entry", "column", "unique", "references", "tag", "member", "enterprise",
             "mandatory", "group", "refine", "includes", "cell", "variation"}
Typing   == {"syntax", "item", "refined_syntax", "write_syntax"}
NamesType(c, n)  == c.of \in Typing /\ c.type.text = n
NamesLabel(c, n) == c.of \in Labelled /\ c.label = n
NamesMacro(c, n) == c.of = "macro" /\ c.macro = n
NamesRow(c, n)   == c.of = "table" /\ c.row = n
Points(p, n) ==
  LET c == ClauseAt(p)
  IN  /\ c.of = "defval" /\ Complete(p[1]) /\ c.form = "label" /\ c.labels[1] = n
      /\ \E t \in Ofs(p[1], "syntax") : source.decls[p[1]][t].type.text = "OBJECT IDENTIFIER"
AllPlaces == UNION {{<<d, c>> : c \in DOMAIN source.decls[d]} : d \in Decls}
Named(i, p) ==
  LET c == ClauseAt(p)
      n == i.name
      own == \E q \in AllPlaces : Before(q, p) /\ Declares(q, n)
  IN  \/ NamesType(c, n) \/ NamesMacro(c, n) \/ NamesRow(c, n)
      \/ NamesLabel(c, n) /\ ~own
      \/ Points(p, n) /\ ~\E q \in AllPlaces : Declares(q, n)
ImportsJudged ==
  \A k \in DOMAIN source.imports :
    LET i == source.imports[k]
    IN  /\ i.kind # "notfound" /\ Len(source.imports) = Cardinality({x.name : x \in ToSet(source.imports)})
        => (SaidOf("unused_import", i.name) <=>
              ~\E p \in AllPlaces : Named(i, p))

About(d) == {source.decls[d][c].module : c \in Ofs(d, "module") \cup Ofs(d, "supports")}
\* A statement of compliance lists its groups and refinements as they are written,
\* each one once for every module; what is written twice is told.
First(d, c) ==
  LET x == source.decls[d][c]
  IN  ~\E b \in 1 .. (c - 1) :
         /\ source.decls[d][b].of = x.of /\ source.decls[d][b].label = x.label
         /\ ~\E e \in (b + 1) .. (c - 1) : source.decls[d][e].of = "module_end"
FirstLabels(d, rule) ==
  LET cs == SelectSeq([c \in DOMAIN source.decls[d] |-> c],
                      LAMBDA c : source.decls[d][c].of = rule /\ First(d, c))
  IN  [k \in DOMAIN cs |-> source.decls[d][cs[k]].label]
CompliancesListed ==
  \A d \in Completed("MODULE-COMPLIANCE") :
    LET o == objects[NameOf(d)]
        must == Labels(d, "mandatory")
    IN  /\ Len(o.list) = Len(must)
        /\ \A k \in DOMAIN must :
             IF o.list[k] # NULL THEN o.list[k].name = must[k]
             ELSE \E m \in About(d) : m \in DOMAIN World /\ ~IsObject(m, must[k])
        /\ NamesIn(o.options) = FirstLabels(d, "group")
        /\ NamesIn(o.refined) = FirstLabels(d, "refined")
        /\ Said("optional_group_already_exists", d) <=>
             \E c \in Ofs(d, "group") : ~First(d, c)
        /\ Said("refinement_already_exists", d) <=>
             \E c \in Ofs(d, "refined") : ~First(d, c)

\* An object of another module is one that is imported from there, or a statement
\* about that module names it; behind a statement that broke off it may also be
\* one of the module that statement was about.
Lists(o) == IF MacroOf(o.decl) = "OBJECT-TYPE" THEN {} ELSE ToSet(o.list)
References(o) == (ToSet(o.index.list) \cup Lists(o) \cup ToSet(o.options)
                 \cup ToSet(o.refined) \cup {o.related}) \ {NULL}
ReferencesInScope ==
  \A n \in DOMAIN objects :
    MacroOf(objects[n].decl) \notin {"none"} =>
      \A r \in {r \in References(objects[n]) : r.module # source.name} :
        \/ \E i \in ToSet(source.imports) : i.name = r.name /\ i.module = r.module
        \/ r.module \in About(objects[n].decl)
        \/ \E f \in Flushed : f < objects[n].decl /\ r.module \in About(f)

\* What a variation of a notification must not have is told of every such clause, and
\* of nothing else.
NotificationClauses == {"refined_syntax", "write_syntax", "creation", "defval"}
Varies(p, q) == /\ p[1] = q[1] /\ p[2] < q[2]
                /\ ~\E e \in (p[2] + 1) .. q[2] :
                     source.decls[p[1]][e].of \in {"variation", "varied"}
OfNotification(q) ==
  \E p \in Places("variation") :
    /\ Varies(p, q)
    /\ \E x \in Places("supports") :
         /\ x[1] = p[1] /\ x[2] < p[2]
         /\ ~\E e \in x[2] .. p[2] : source.decls[x[1]][e].of = "supports_end"
         /\ LET m == ClauseAt(x).module
                n == ClauseAt(p).label
            IN  IsObject(m, n) /\ World[m][n].is = "notification"
VariationsJudged ==
  \A d \in Decls :
    Said("notification_variation", d) <=>
      \E rule \in NotificationClauses : \E c \in Ofs(d, rule) : OfNotification(<<d, c>>)

\* Two objects whose names have the same letters are told, whatever they are; an
\* object and a type are if the type comes first.
OfType(d) == source.decls[d][1].of = "type" \/ MacroOf(d) = "TEXTUAL-CONVENTION"
NamesJudged ==
  \A d \in {d \in Decls : source.decls[d][1].of \in {"macro", "assignment"} /\ ~OfType(d)} :
    (\E e \in messages : /\ e.kind \in {"redefinition", "case_redefinition"}
                        /\ ~e.external /\ e.decl = d)
      <=> \E b \in 1 .. (d - 1) : Complete(b) /\ Fold(NameOf(b)) = Fold(NameOf(d))

\* All of this at the END of a module.
ClausesJudged ==
  Finished =>
    /\ IndexAsWritten /\ RowsCreatable /\ SequenceTypesJudged /\ DefvalsTyped
    /\ RevisionsSound /\ ImportsJudged /\ CompliancesListed /\ ReferencesInScope
    /\ VariationsJudged /\ NamesJudged
=============================================================================
