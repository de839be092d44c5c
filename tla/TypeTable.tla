----------------------------- MODULE TypeTable -----------------------------
(***************************************************************************)
(* The types of smi-data.c and the semantic actions of the SMIv1/v2 parser *)
(* that refer to them, derive them and name them.  A type may be used      *)
(* before it is defined: the reference then creates an incomplete type,    *)
(* and the definition is merged into it when it is read.                   *)
(*                                                                         *)
(* Types are numbered in the order of their allocation, which is that of   *)
(* the lists of the modules.  The text is chosen declaration by            *)
(* declaration while it is read.  Display hints are left out, and CHOICE,  *)
(* which the parser treats like SEQUENCE.                                  *)
(***************************************************************************)
EXTENDS Naturals, Sequences, FiniteSetsExt

CONSTANTS
  Name,             \* names of types and, with NULL, of none
  NULL,
  APPLICATION,      \* a name that is a keyword of the grammar, as Gauge32
  MaxModules,       \* bound on the modules read
  MaxDeclarations   \* bound on the declarations read in all of them

ASSUME NameAssumption  == APPLICATION \in Name /\ NULL \notin Name \cup {"builtin"}
ASSUME BoundAssumption == MaxModules \in Nat /\ MaxDeclarations \in Nat

VARIABLES
  module,     \* number of the module that is read; 0 is the module ""
  st,         \* what the parser does
  imported,   \* per module: the module that each name is imported from, or 0
  type,       \* all types allocated, in that order
  syntax,     \* the last SYNTAX read: its type, and how it is written
  objects,    \* per object of a finished OBJECT-TYPE: its type
  text,       \* the declarations read
  errors      \* what has been reported

vars == <<module, st, imported, type, syntax, objects, text, errors>>

NIL == 0      \* the NULL pointer to a type
INTEGER32   == 1
OCTETSTRING == 2
ENUM        == 3
BITS        == 4

Basetype == {"UNKNOWN", "INTEGER32", "OCTETSTRING", "ENUM", "BITS"}
Decl     == {"UNKNOWN", "IMPLICIT", "SEQUENCEOF", "DEFINED"}
Lists    == {"none", "ranges", "numbers", "columns"}
Type     == [name : Name \cup {NULL, "builtin"}, mod : 0 .. MaxModules,
             base : Basetype, decl : Decl, parent : Nat, list : Lists,
             owner : Nat, incomplete : BOOLEAN, freed : BOOLEAN]
How      == {"builtin", "restricted", "bits", "name", "range", "size", "enum",
             "sequenceof", "sequence"}
Written  == [how : How, base : Basetype, mod : 0 .. MaxModules,
             ref : Name \cup {NULL}]
Entry    == [at : 1 .. MaxModules, name : Name \cup {NULL}, type : Nat,
             as : Written]
Error    == [kind : {"unknown", "illegal", "redefinition"},
             mod : 1 .. MaxModules, name : Name, at : Nat]

Builtin(b) == [name |-> "builtin", mod |-> 0, base |-> b, decl |-> "UNKNOWN",
               parent |-> NIL, list |-> "none", owner |-> NIL,
               incomplete |-> FALSE, freed |-> FALSE]
Builtins == <<Builtin("INTEGER32"), Builtin("OCTETSTRING"), Builtin("ENUM"),
              Builtin("BITS")>>
NoSyntax == [type |-> NIL, as |-> [how |-> "builtin", base |-> "UNKNOWN",
                                   mod |-> 0, ref |-> NULL]]

(***************************************************************************)
(* smi-data.c                                                              *)
(***************************************************************************)

First(S) == IF S = {} THEN NIL ELSE Min(S)

\* findTypeByModuleAndName(): the first type of the name in module m.
FindType(ts, m, n) ==
  First({t \in DOMAIN ts : ~ts[t].freed /\ ts[t].mod = m /\ ts[t].name = n})

\* findTypeByName(): in the first module that has one.
FindTypeByName(ts, n) ==
  LET hits == {m \in 1 .. module : FindType(ts, m, n) # NIL}
  IN  IF hits = {} THEN NIL ELSE FindType(ts, Min(hits), n)

AddType(ts, n, b, incomplete) ==
  Append(ts, [name |-> n, mod |-> module, base |-> b, decl |-> "UNKNOWN",
              parent |-> NIL, list |-> "none", owner |-> NIL,
              incomplete |-> incomplete, freed |-> FALSE])

\* duplicateType(): the new type is derived from t and is as incomplete as t.
DuplicateType(ts, t) ==
  Append(ts, [name |-> NULL, mod |-> module, base |-> ts[t].base,
              decl |-> "IMPLICIT", parent |-> t, list |-> "none",
              owner |-> NIL, incomplete |-> ts[t].incomplete,
              freed |-> FALSE])

\* The last type gets a list of ranges or of named numbers, which point to it.
Listed(ts, list) ==
  [ts EXCEPT ![Len(ts)] = [@ EXCEPT !.list = list, !.owner = Len(ts)]]

Given(ts, t, n) == [types |-> [ts EXCEPT ![t].name = n], type |-> t]
Merged(ts, other, t, n, owner) ==
  [types |-> [ts EXCEPT ![other] = [ts[t] EXCEPT !.name = n, !.owner = owner],
                        ![t] = [@ EXCEPT !.name = NULL, !.freed = TRUE]],
   type |-> other]
Others(ts, t, n) ==
  First({o \in DOMAIN ts \ {t} :
           ~ts[o].freed /\ ts[o].mod = ts[t].mod /\ ts[o].name = n})

\* Mutants: the type is not merged; the earlier type is freed; the basetype or
\* the parent is not copied.
SetTypeName_NoMerge(ts, t, n) == Given(ts, t, n)
SetTypeName_FreeOther(ts, t, n) ==
  LET other == Others(ts, t, n) IN
  IF other = NIL THEN Given(ts, t, n)
  ELSE [types |-> [ts EXCEPT ![t].name = n,
                             ![other] = [@ EXCEPT !.name = NULL, !.freed = TRUE]],
        type |-> t]
SetTypeName_NoParent(ts, t, n) ==
  LET other == Others(ts, t, n) IN
  IF other = NIL THEN Given(ts, t, n)
  ELSE Merged([ts EXCEPT ![t].parent = ts[other].parent], other, t, n, other)
SetTypeName_NoBase(ts, t, n) ==
  LET other == Others(ts, t, n) IN
  IF other = NIL THEN Given(ts, t, n)
  ELSE Merged([ts EXCEPT ![t].base = ts[other].base], other, t, n, other)

\* setTypeName(): if another type of the module has the name, it takes over all
\* of t, which is freed.  Only named numbers are pointed to the other one, and
\* only if the basetype is known by now.
SetTypeName(ts, t, n) ==
  LET other == Others(ts, t, n) IN
  IF other = NIL THEN Given(ts, t, n)
  ELSE Merged(ts, other, t, n,
              IF ts[t].base \in {"ENUM", "BITS"} THEN other ELSE ts[t].owner)

(***************************************************************************)
(* The SYNTAX rules.                                                       *)
(***************************************************************************)

Source(n) == imported[module][n]     \* the module that n is imported from

\* A local type goes before an imported one.
Lookup(ts, n) ==
  IF FindType(ts, module, n) # NIL THEN FindType(ts, module, n)
  ELSE IF Source(n) # 0 THEN FindType(ts, Source(n), n) ELSE NIL

\* What a name stands for; one that is unknown gets an incomplete type.
Referred(ts, n) == IF Lookup(ts, n) # NIL THEN Lookup(ts, n)
                                            ELSE Len(ts) + 1
Forward(ts, n)  == IF Lookup(ts, n) # NIL THEN ts
                   ELSE AddType(ts, n, "UNKNOWN", TRUE)

AsWritten(how, b, n) ==
  [how |-> how, base |-> b, ref |-> n,
   mod |-> IF n = NULL THEN 0 ELSE IF Source(n) # 0 THEN Source(n) ELSE module]

Reading == st = "body" /\ Len(text) < MaxDeclarations

Read(ts, t, as) ==
  /\ st' = "syntax"
  /\ type' = ts
  /\ syntax' = [type |-> t, as |-> as]
  /\ UNCHANGED <<module, imported, objects, text>>

\* INTEGER, OCTET STRING
ReadBuiltin(t) ==
  /\ Reading
  /\ Read(type, t, AsWritten("builtin", type[t].base, NULL))
  /\ UNCHANGED errors

\* INTEGER (ranges), OCTET STRING (SIZE (ranges)), INTEGER { named numbers }
ReadRestricted(t) ==
  /\ Reading
  /\ Read(Listed(DuplicateType(type, t),
                 IF t = ENUM THEN "numbers" ELSE "ranges"),
          Len(type) + 1, AsWritten("restricted", type[t].base, NULL))
  /\ UNCHANGED errors

\* BITS { named bits } is marked as incomplete.
ReadBits ==
  /\ Reading
  /\ Read(Listed([AddType(type, NULL, "BITS", TRUE) EXCEPT
                    ![Len(type) + 1].decl = "IMPLICIT",
                    ![Len(type) + 1].parent = BITS], "numbers"),
          Len(type) + 1, AsWritten("bits", "BITS", NULL))
  /\ UNCHANGED errors

ReadName(n) ==
  /\ Reading
  /\ Read(Forward(type, n), Referred(type, n), AsWritten("name", "UNKNOWN", n))
  /\ UNCHANGED errors

\* Mutant: named bits cannot be restricted.
Fitting_NoBits(how) ==
  CASE how = "range" -> {"INTEGER32"} [] how = "size" -> {"OCTETSTRING"}
    [] how = "enum"  -> {"ENUM"}

\* The basetypes that a restriction may be written for, and what is restricted
\* if the type has another one.
Fitting(how) ==
  CASE how = "range" -> {"INTEGER32"} [] how = "size" -> {"OCTETSTRING"}
    [] how = "enum"  -> {"ENUM", "BITS"}
Instead(how) ==
  CASE how = "range" -> INTEGER32 [] how = "size" -> OCTETSTRING
    [] how = "enum"  -> ENUM

\* Name (ranges), Name (SIZE (ranges)), Name { named numbers }
ReadSubtype(how, n) ==
  /\ Reading
  /\ LET found   == Lookup(type, n)
         fits    == found = NIL \/ type[found].base \in Fitting(how)
         known   == Forward(type, n)
         derived == DuplicateType(known, IF fits THEN Referred(type, n)
                                                 ELSE Instead(how))
     IN  /\ Read(Listed(derived, IF how = "enum" THEN "numbers" ELSE "ranges"),
                 Len(derived), AsWritten(how, "UNKNOWN", n))
         /\ errors' = IF fits THEN errors
                      ELSE errors \cup {[kind |-> "illegal", mod |-> module,
                                         name |-> n, at |-> Len(text) + 1]}

\* SEQUENCE OF Name
ReadSequenceOf(n) ==
  /\ Reading
  /\ LET known == Forward(type, n)
     IN  Read([AddType(known, NULL, "UNKNOWN", FALSE) EXCEPT
                 ![Len(known) + 1].decl = "SEQUENCEOF",
                 ![Len(known) + 1].parent = Referred(type, n)],
              Len(known) + 1, AsWritten("sequenceof", "UNKNOWN", n))
  /\ UNCHANGED errors

\* SEQUENCE { column Name }
ReadSequence(n) ==
  /\ Reading
  /\ LET known == Forward(type, n)
     IN  Read([AddType(known, NULL, "UNKNOWN", FALSE) EXCEPT
                 ![Len(known) + 1].list = "columns"],
              Len(known) + 1, AsWritten("sequence", "UNKNOWN", n))
  /\ UNCHANGED errors

\* A type whose name is a keyword is looked for in all modules; if there is
\* none, the rule returns NULL.
ReadApplication(restricted) ==
  /\ Reading
  /\ LET found == FindTypeByName(type, APPLICATION)
         as    == [how |-> IF restricted THEN "range" ELSE "name",
                   base |-> "UNKNOWN", ref |-> APPLICATION,
                   mod |-> IF found = NIL THEN module ELSE type[found].mod]
     IN  /\ IF found # NIL /\ restricted
            THEN Read(Listed(DuplicateType(type, found), "ranges"),
                      Len(type) + 1, as)
            ELSE Read(type, found, as)
         /\ errors' = IF found # NIL THEN errors
                      ELSE errors \cup {[kind |-> "unknown", mod |-> module,
                                         name |-> APPLICATION,
                                         at |-> Len(text) + 1]}

(***************************************************************************)
(* Declarations                                                            *)
(***************************************************************************)

\* The rules that use a SYNTAX of NULL read through it.
Crash ==
  /\ st = "syntax"
  /\ syntax.type = NIL
  /\ st' = "crashed"
  /\ UNCHANGED <<module, imported, type, syntax, objects, text, errors>>

\* Mutant: types that are still incomplete count.
Redefined_Forward(ts, n) == FindType(ts, module, n) # NIL

\* smiCheckTypeName() for the module itself.
Redefined(ts, n) ==
  FindType(ts, module, n) # NIL /\ ~ts[FindType(ts, module, n)].incomplete

Declared(n, t) ==
  text' = Append(text, [at |-> module, name |-> n, type |-> t,
                        as |-> syntax.as])

\* Mutant: no type is duplicated.
Unnamed_Any(t) == TRUE

Unnamed(t) == type[t].name = NULL

\* name ::= SYNTAX, or a TEXTUAL-CONVENTION: a type that has a name is
\* duplicated, the last one gets the name.  The modules that define an
\* application type define it as a restricted basetype.
DeclareType(n) ==
  /\ st = "syntax"
  /\ syntax.type # NIL
  /\ n = APPLICATION => syntax.as.how = "restricted"
  /\ LET s   == syntax.type
         own == Unnamed(s)
         t   == IF own THEN s ELSE Len(type) + 1
         new == [IF own THEN type ELSE DuplicateType(type, s)
                 EXCEPT ![t].decl = "DEFINED"]
         set == SetTypeName(new, t, n)
     IN  /\ type' = set.types
         /\ Declared(n, set.type)
         /\ errors' = IF new[t].base # "UNKNOWN" /\ Redefined(type, n)
                      THEN errors \cup {[kind |-> "redefinition",
                                         mod |-> module, name |-> n,
                                         at |-> Len(text) + 1]}
                      ELSE errors
  /\ st' = "body"
  /\ syntax' = NoSyntax
  /\ UNCHANGED <<module, imported, objects>>

\* An OBJECT-TYPE: setObjectType()
DeclareObject ==
  /\ st = "syntax"
  /\ syntax.type # NIL
  /\ objects' = objects \cup {syntax.type}
  /\ Declared(NULL, syntax.type)
  /\ st' = "body"
  /\ syntax' = NoSyntax
  /\ UNCHANGED <<module, imported, type, errors>>

(***************************************************************************)
(* Modules                                                                 *)
(***************************************************************************)

\* The imports whose module has a type of the name get KIND_TYPE.  An import
\* of a keyword is only counted as used.
BeginModule(from) ==
  /\ st = "between"
  /\ module < MaxModules
  /\ \A n \in Name : from[n] # 0 => FindType(type, from[n], n) # NIL
  /\ from[APPLICATION] = 0
  /\ module' = module + 1
  /\ imported' = Append(imported, from)
  /\ st' = "body"
  /\ UNCHANGED <<type, syntax, objects, text, errors>>

\* The type that k parentPtrs lead up to, or the last one on the way.
Above[k \in Nat] ==
  [t \in DOMAIN type |->
     IF k = 0 \/ type[t].parent = NIL THEN t ELSE Above[k - 1][type[t].parent]]
Top(t)     == Above[Len(type)][t]

\* The parentPtrs that lead up from t do not end.
Endless(t) == \E S \in SUBSET DOMAIN type :
                /\ t \in S
                /\ \A u \in S : type[u].parent \in S

\* Mutant: smiCheckTypeFormat() follows types whose basetype is not known too.
Formatted_Any(t) == TRUE
Formatted(t) == type[t].base \in {"INTEGER32", "OCTETSTRING"}

Unknown(t) == /\ type[t].incomplete
              /\ type[t].name # NULL
              /\ type[t].decl = "UNKNOWN"

Own == {t \in DOMAIN type : type[t].mod = module /\ ~type[t].freed}

\* checkTypes() at the end of a module.  The loop of smiCheckTypeFormat() ends
\* only if the parentPtrs do.  A module without declarations adds nothing to
\* those after it and is left out.
EndModule ==
  /\ st = "body"
  /\ \E d \in DOMAIN text : text[d].at = module
  /\ IF \E t \in Own : /\ type[t].name # NULL
                       /\ Formatted(t)
                       /\ Endless(t)
     THEN st' = "hung" /\ UNCHANGED errors
     ELSE /\ st' = "between"
          /\ errors' = errors \cup {[kind |-> "unknown", mod |-> module,
                                     name |-> type[t].name, at |-> 0] :
                                      t \in {u \in Own : Unknown(u)}}
  /\ UNCHANGED <<module, imported, type, syntax, objects, text>>

Init ==
  /\ module = 0 /\ st = "between"
  /\ imported = <<>>
  /\ type = Builtins
  /\ syntax = NoSyntax
  /\ objects = {}
  /\ text = <<>>
  /\ errors = {}

Next ==
  \/ \E from \in [Name -> 0 .. module] : BeginModule(from)
  \/ \E t \in {INTEGER32, OCTETSTRING} : ReadBuiltin(t)
  \/ \E t \in {INTEGER32, OCTETSTRING, ENUM} : ReadRestricted(t)
  \/ ReadBits
  \/ \E n \in Name \ {APPLICATION} :
       \/ ReadName(n)
       \/ \E how \in {"range", "size", "enum"} : ReadSubtype(how, n)
       \/ ReadSequenceOf(n)
       \/ ReadSequence(n)
  \/ \E restricted \in BOOLEAN : ReadApplication(restricted)
  \/ Crash
  \/ \E n \in Name : DeclareType(n)
  \/ DeclareObject
  \/ EndModule

Spec == Init /\ [][Next]_vars

(***************************************************************************)
(* Properties                                                              *)
(***************************************************************************)

\* Every variable has its type, and the types that all modules share are never
\* renamed, restricted or merged.
TypeOK ==
  /\ module \in 0 .. MaxModules
  /\ st \in {"between", "body", "syntax", "hung", "crashed"}
  /\ imported \in Seq([Name -> 0 .. MaxModules]) /\ Len(imported) = module
  /\ type \in Seq(Type)
  /\ \A t \in DOMAIN Builtins : type[t] = Builtins[t]
  /\ syntax \in [type : {NIL} \cup DOMAIN type, as : Written]
  /\ objects \subseteq DOMAIN type
  /\ text \in Seq(Entry)
  /\ errors \subseteq Error

Live == {t \in DOMAIN type : ~type[t].freed}

\* A module has one type of a name: all references are to its definition.
NamesUnique ==
  \A t, u \in Live \ DOMAIN Builtins :
    /\ type[t].mod = type[u].mod
    /\ type[t].name = type[u].name
    /\ type[t].name # NULL
    => t = u

\* No type, object or pending SYNTAX refers to a type that was merged into
\* another one and freed, and the named numbers of an enumeration lead back to
\* the type that has them, so that smiGetNextNamedNumber() finds the rest.
LinksLive ==
  /\ \A t \in Live : type[t].parent \in Live \cup {NIL}
  /\ \A t \in Live :
       type[t].list = "numbers" /\ type[t].base \in {"ENUM", "BITS"}
         => type[t].owner = t
  /\ objects \subseteq Live
  /\ syntax.type \in Live \cup {NIL}

\* The table is one after every step: well-typed, with one type of a name in a
\* module, so that the references before and after its definition are to the
\* same type, and without a link to a type that is gone.
TableSound == TypeOK /\ NamesUnique /\ LinksLive

\* The declarations of name n in module m.
Declarations(m, n) == {d \in DOMAIN text : text[d].at = m /\ text[d].name = n}
Redeclared == \E d, e \in DOMAIN text : /\ d # e
                                        /\ text[d].name # NULL
                                        /\ text[d].at = text[e].at
                                        /\ text[d].name = text[e].name
Shadowed == \E d \in DOMAIN text :
              text[d].name # NULL /\ imported[text[d].at][text[d].name] # 0

\* The basetypes whose types a restriction can be written for.
Restricts ==
  [range |-> {"INTEGER32"}, size |-> {"OCTETSTRING"}, enum |-> {"ENUM", "BITS"}]

\* What the declarations mean, read as a set: the basetype at the end of the
\* references, and whether it could be known when the declaration was read.
\* Declarations that depend on themselves, on a type of another kind than they
\* restrict or on nothing are `exempt'.
Meaning[k \in Nat] ==
  [d \in DOMAIN text |->
    LET as    == text[d].as
        defs  == Declarations(as.mod, as.ref)
        e     == Min(defs)
        known == e < d /\ Meaning[k - 1][e].known
        base  == Meaning[k - 1][e].base
    IN  CASE as.how \in {"builtin", "restricted", "bits"} ->
               [base |-> as.base, known |-> TRUE]
          [] as.how = "sequence" -> [base |-> "UNKNOWN", known |-> TRUE]
          [] as.how \in {"name", "sequenceof", "range", "size", "enum"}
             /\ (k = 0 \/ defs = {}) -> [base |-> "exempt", known |-> FALSE]
          [] as.how = "name" /\ k > 0 /\ defs # {} ->
               [base |-> base, known |-> known]
          [] as.how = "sequenceof" /\ k > 0 /\ defs # {} ->
               [base |-> base, known |-> FALSE]
          [] as.how \in {"range", "size", "enum"} /\ k > 0 /\ defs # {} ->
               [base  |-> IF /\ base \in Restricts[as.how]
                             /\ base = "BITS" => known
                          THEN base ELSE "exempt",
                known |-> known /\ base \in Restricts[as.how]]]
Meant(d)  == Meaning[Len(text)][d].base
Certain(d) == Meaning[Len(text)][d].known

\* Between two modules, if every name was declared once and not imported too.
WellFormed == st = "between" /\ ~Redeclared /\ ~Shadowed

\* Whatever the order of the declarations, forward references included, the
\* parents of a type lead up to the basetype that the text gives it.
RootsAsWritten ==
  WellFormed => \A d \in DOMAIN text :
    Meant(d) # "exempt" => type[Top(text[d].type)].base = Meant(d)

\* Where everything that a type depends on was declared before it, it has its
\* basetype at once.
BaseAsWritten ==
  WellFormed => \A d \in DOMAIN text :
    Certain(d) /\ Meant(d) # "exempt" => type[text[d].type].base = Meant(d)

\* A type is what the text says, however its declarations are ordered.
MeantAsWritten == RootsAsWritten /\ BaseAsWritten

\* At the end of a module ERR_UNKNOWN_TYPE is reported for the names that it
\* uses and neither declares nor imports, and only for them.
UnknownReported ==
  st = "between" => \A m \in 1 .. module, n \in Name \ {APPLICATION} :
    (\E x \in errors : x.kind = "unknown" /\ x.mod = m /\ x.name = n)
    <=> /\ \E d \in DOMAIN text : text[d].at = m /\ text[d].as.ref = n
        /\ Declarations(m, n) = {}
        /\ imported[m][n] = 0

\* A restriction of a type that is known and is of another kind is reported.
RestrictionsReported ==
  WellFormed => \A d \in DOMAIN text :
    LET as   == text[d].as
        defs == Declarations(as.mod, as.ref)
    IN  /\ as.how \in {"range", "size", "enum"}
        /\ as.ref # APPLICATION
        /\ \E e \in defs : e < d /\ Certain(e)
        => ((\E x \in errors : x.kind = "illegal" /\ x.at = d)
            <=> \A e \in defs : Meant(e) \notin Restricts[as.how])

\* What a name refers to is reported if it is wrong, and only then.
ReferencesReported == UnknownReported /\ RestrictionsReported

\* Only a name that was declared before is reported as redefined: to have been
\* referred to is not enough.
RedefinitionsJustified ==
  \A x \in errors : x.kind = "redefinition" =>
    \E d \in Declarations(x.mod, x.name) : d < x.at

\* Errors about names are told of what is wrong with them and of nothing else.
NamesJudged == ReferencesReported /\ RedefinitionsJustified

\* The checks at the end of a module come to an end unless a name was declared
\* twice, even if types are defined by each other.
ChecksEnd == st = "hung" => Redeclared
=============================================================================
