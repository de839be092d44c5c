------------------------------ MODULE Classes ------------------------------
(***************************************************************************)
(* Typedefs, identities and classes of a module in SMIng: what the parser  *)
(* makes of the statements (lib/parser-sming.y, lib/smi-data.c), what      *)
(* lib/smi.c tells of them, and how `smidump -f sming' walks over them     *)
(* (tools/dump-sming.c).                                                   *)
(*                                                                         *)
(* A text is a sequence of statements that are well formed.  Of their      *)
(* clauses those are left out that hold texts.                             *)
(***************************************************************************)
EXTENDS Integers, Sequences, SequencesExt, FiniteSets

CONSTANTS
  Inputs,      \* the texts of the module
  Library,     \* what was read before: types, identities and classes
  Imports,     \* Imports[name]: the module from which the name is imported
  Here,        \* the name of the module that is read
  NULL

VARIABLES
  input, step,     \* the text, and the statement that is read
  types, identities, classes,
  classPtr,        \* the class whose statements are read, or 0
  reports,         \* the errors: what, and of which statement
  phase,           \* parse, print, done; or how the program came to stop
  printed,         \* the classes that are printed
  cursor           \* the attribute of the unique statement to be printed

vars == <<input, step, types, identities, classes, classPtr, reports, phase, printed, cursor>>

-----------------------------------------------------------------------------
(* Looking for names.  A name is <<module, identifier>>, where the module  *)
(* may be missing; attributes are <<class, place>>.                        *)

Nobody == <<0, 0>>

findByModuleAndName(list, m, name) ==
  LET found == {k \in DOMAIN list : list[k].module = m /\ list[k].name = name}
  IN  IF found = {} THEN 0 ELSE Min(found)

\* findType(), findIdentity() and findClass().
\* Mutant: an imported name hides one of the module.
Find_Imported(list, spec) ==
  IF spec[1] # NULL THEN findByModuleAndName(list, spec[1], spec[2])
  ELSE IF spec[2] \in DOMAIN Imports THEN findByModuleAndName(list, Imports[spec[2]], spec[2])
  ELSE findByModuleAndName(list, Here, spec[2])
Find(list, spec) ==
  LET own == findByModuleAndName(list, Here, spec[2])
  IN  IF spec[1] # NULL THEN findByModuleAndName(list, spec[1], spec[2])
      ELSE IF own = 0 /\ spec[2] \in DOMAIN Imports
      THEN findByModuleAndName(list, Imports[spec[2]], spec[2]) ELSE own

\* A class and those it extends; one may extend itself, where this ends.
Chain[c \in 0 .. Len(classes)] ==
  IF c = 0 THEN <<>>
  ELSE <<c>> \o IF classes[c].parent = c THEN <<>> ELSE Chain[classes[c].parent]
Circular(c) == c # 0 /\ classes[Last(Chain[c])].parent = Last(Chain[c])

Called(c, name) == {k \in DOMAIN classes[c].attributes : classes[c].attributes[k].name = name}
\* Mutant: the classes that are extended are not looked at.
smiGetAttribute_Own(c, name) ==
  IF c = 0 \/ Called(c, name) = {} THEN Nobody ELSE <<c, Min(Called(c, name))>>
smiGetAttribute(c, name) ==
  LET holders == {i \in DOMAIN Chain[c] : Called(Chain[c][i], name) # {}}
      d       == Chain[c][Min(holders)]
  IN  IF holders = {} THEN Nobody ELSE <<d, Min(Called(d, name))>>

\* It calls itself for the parent, and never returns if that is the class.
Overflows(c, name) == smiGetAttribute(c, name) = Nobody /\ Circular(c)

-----------------------------------------------------------------------------
(* The statements.                                                         *)

Statement   == input[step]
Told(names) == reports' = reports \cup {<<n, step>> : n \in names}
Said(cond, what) == IF cond THEN {what} ELSE {}
Reading(kind) == phase = "parse" /\ step <= Len(input) /\ Statement.kind = kind

TypedefStatement ==
  /\ Reading("typedef")
  /\ Told(Said(findByModuleAndName(types, Here, Statement.name) # 0, "duplicate type"))
  /\ LET known == Statement.type = NULL \/ Find(types, Statement.type) # 0
     IN IF known
        THEN /\ types' = Append(types, [module |-> Here, name |-> Statement.name])
             /\ step' = step + 1 /\ UNCHANGED phase
        ELSE phase' = "crash" /\ UNCHANGED <<types, step>>
  /\ UNCHANGED <<input, identities, classes, classPtr, printed, cursor>>

addIdentity(name) == [module |-> Here, name |-> name, parent |-> 0]

\* The parent is looked for when the identity is in the list.
IdentityStatement ==
  /\ Reading("identity")
  /\ LET list   == Append(identities, addIdentity(Statement.name))
         parent == IF Statement.parent = NULL THEN 0 ELSE Find(list, Statement.parent)
     IN /\ identities' = [list EXCEPT ![Len(list)].parent = parent]
        /\ Told(Said(Statement.parent # NULL /\ parent = 0, "unknown parent"))
  /\ step' = step + 1
  /\ UNCHANGED <<input, types, classes, classPtr, phase, printed, cursor>>

addClass(name) ==
  [module |-> Here, name |-> name, parent |-> 0, attributes |-> <<>>,
   unique |-> <<>>, scalar |-> FALSE, events |-> <<>>]

ClassStatement ==
  /\ Reading("class")
  /\ LET double == findByModuleAndName(classes, Here, Statement.name) # 0
         list   == IF double THEN classes ELSE Append(classes, addClass(Statement.name))
         parent == IF Statement.extends = NULL THEN 0 ELSE Find(list, Statement.extends)
     IN /\ classPtr' = IF double THEN 0 ELSE Len(list)
        /\ classes'  = IF double THEN list ELSE [list EXCEPT ![Len(list)].parent = parent]
        /\ Told(Said(double, "duplicate class")
                \cup Said(Statement.extends # NULL /\ parent = 0, "unknown class"))
  /\ step' = step + 1
  /\ UNCHANGED <<input, types, identities, phase, printed, cursor>>

\* What an attribute is declared to be; a restriction asks for a type.
TypeOf(s) ==
  IF s.type = NULL \/ Find(types, s.type) # 0 THEN "type"
  ELSE IF ~s.refined /\ Find(classes, s.type) # 0 THEN "class" ELSE "unknown"

\* The new attribute, an attribute with the type's values or an empty one
\* that belongs to no class if the class was declared twice.
Attribute(s) ==
  [name |-> s.name, of |-> TypeOf(s),
   class |-> IF TypeOf(s) = "class" THEN Find(classes, s.type) ELSE 0,
   access |-> s.access /\ TypeOf(s) = "type", value |-> s.default /\ TypeOf(s) = "type"]

\* A name that is there already is an error, but the attribute is made.
\* Mutant: the error of a second attribute of the same name is forgotten.
AttributeErrors_Double(s) ==
  Said(TypeOf(s) = "unknown", "unknown type")
  \cup Said(TypeOf(s) = "class" /\ s.access, "access of a class")
  \cup Said(TypeOf(s) = "type" /\ ~s.access, "no access")
  \cup Said(TypeOf(s) = "class" /\ s.default, "default of a class")
AttributeErrors(s) ==
  Said(smiGetAttribute(classPtr, s.name) # Nobody, "duplicate attribute")
  \cup Said(TypeOf(s) = "unknown", "unknown type")
  \cup Said(TypeOf(s) = "class" /\ s.access, "access of a class")
  \cup Said(TypeOf(s) = "type" /\ ~s.access, "no access")
  \cup Said(TypeOf(s) = "class" /\ s.default, "default of a class")

Stop(how) == phase' = how /\ UNCHANGED <<step, classes, reports>>

AttributeStatement ==
  /\ Reading("attribute")
  /\ IF Overflows(classPtr, Statement.name) THEN Stop("overflow")
     ELSE IF classPtr = 0 /\ TypeOf(Statement) = "type" THEN Stop("crash")
     ELSE /\ Told(AttributeErrors(Statement))
          /\ classes' = IF classPtr = 0 \/ TypeOf(Statement) = "unknown" THEN classes
                        ELSE [classes EXCEPT ![classPtr].attributes = Append(@, Attribute(Statement))]
          /\ step' = step + 1 /\ UNCHANGED phase
  /\ UNCHANGED <<input, types, identities, classPtr, printed, cursor>>

\* The names become attributes, those that are not found pointers to nothing;
\* without names the class is told to be a scalar.
Uniques(s) == [k \in DOMAIN s.names |-> smiGetAttribute(classPtr, s.names[k])]
UniqueStatement ==
  /\ Reading("unique")
  /\ IF classPtr = 0 THEN step' = step + 1 /\ UNCHANGED <<classes, reports, phase>>
     ELSE IF \E k \in DOMAIN Statement.names : Overflows(classPtr, Statement.names[k])
     THEN Stop("overflow")
     ELSE /\ classes' = [classes EXCEPT ![classPtr].unique = Uniques(Statement),
                                        ![classPtr].scalar = (Statement.names = <<>>)]
          /\ Told(Said(Nobody \in ToSet(Uniques(Statement)), "unknown attribute"))
          /\ step' = step + 1 /\ UNCHANGED phase
  /\ UNCHANGED <<input, types, identities, classPtr, printed, cursor>>

addEvent(c, name) ==
  IF c = 0 THEN classes ELSE [classes EXCEPT ![c].events = Append(@, name)]
EventStatement ==
  /\ Reading("event")
  /\ classes' = addEvent(classPtr, Statement.name)
  /\ step' = step + 1
  /\ UNCHANGED <<input, types, identities, classPtr, reports, phase, printed, cursor>>

EndOfClass ==
  /\ Reading("end")
  /\ classPtr' = 0
  /\ step' = step + 1
  /\ UNCHANGED <<input, types, identities, classes, reports, phase, printed, cursor>>

EndOfModule ==
  /\ phase = "parse" /\ step > Len(input)
  /\ phase' = "print"
  /\ UNCHANGED <<input, step, types, identities, classes, classPtr, reports, printed, cursor>>

-----------------------------------------------------------------------------
(* smidump asks for the classes one after the other.                       *)

NextClass(c) ==
  LET later == {k \in DOMAIN classes : k > c /\ classes[k].module = Here}
  IN  IF later = {} THEN 0 ELSE Min(later)

smiGetFirstUniqueAttribute(c) ==
  IF classes[c].scalar \/ classes[c].unique = <<>> THEN Nobody ELSE classes[c].unique[1]

\* It is looked for in the list of the attribute's own class.
\* Mutant: the search begins anew behind the first.
smiGetNextUniqueAttribute_Second(a) ==
  LET list == classes[a[1]].unique
  IN  IF a \notin ToSet(list) \/ Len(list) = 1 THEN Nobody ELSE list[2]
smiGetNextUniqueAttribute(a) ==
  LET list   == classes[a[1]].unique
      places == {k \in DOMAIN list : list[k] = a /\ k < Len(list)}
  IN  IF places = {} THEN Nobody ELSE list[Min(places) + 1]

At == IF printed = <<>> THEN 0 ELSE Last(printed).class

fprintAttributes(c) ==
  [k \in DOMAIN classes[c].attributes |->
     LET a == classes[c].attributes[k]
     IN [name |-> a.name, of |-> a.of, class |-> a.class, access |-> a.of = "type", value |-> a.value]]
fprintEvents(c) == classes[c].events

\* fprintClasses().
PrintClass ==
  /\ phase = "print" /\ cursor = Nobody /\ NextClass(At) # 0
  /\ LET c == NextClass(At)
     IN /\ printed' = Append(printed,
                        [class |-> c, extends |-> classes[c].parent, attributes |-> fprintAttributes(c),
                         scalar |-> classes[c].scalar, unique |-> <<>>, events |-> fprintEvents(c)])
        /\ cursor' = smiGetFirstUniqueAttribute(c)
  /\ UNCHANGED <<input, step, types, identities, classes, classPtr, reports, phase>>

\* fprintUniqueStatement().  Which attribute comes next depends only on the
\* one before: one that comes again will do so forever.
PrintUnique ==
  /\ phase = "print" /\ cursor # Nobody
  /\ IF cursor \in ToSet(Last(printed).unique)
     THEN phase' = "endless" /\ UNCHANGED <<printed, cursor>>
     ELSE /\ printed' = [printed EXCEPT ![Len(printed)].unique = Append(@, cursor)]
          /\ cursor' = smiGetNextUniqueAttribute(cursor)
          /\ UNCHANGED phase
  /\ UNCHANGED <<input, step, types, identities, classes, classPtr, reports>>

EndOfDump ==
  /\ phase = "print" /\ cursor = Nobody /\ NextClass(At) = 0
  /\ phase' = "done"
  /\ UNCHANGED <<input, step, types, identities, classes, classPtr, reports, printed, cursor>>

Init ==
  /\ input \in Inputs /\ step = 1
  /\ types = Library.types /\ identities = Library.identities /\ classes = Library.classes
  /\ classPtr = 0 /\ reports = {} /\ phase = "parse" /\ printed = <<>> /\ cursor = Nobody

Next ==
  \/ TypedefStatement \/ IdentityStatement \/ ClassStatement \/ AttributeStatement
  \/ UniqueStatement \/ EventStatement \/ EndOfClass \/ EndOfModule
  \/ PrintClass \/ PrintUnique \/ EndOfDump

Spec == Init /\ [][Next]_vars

-----------------------------------------------------------------------------
(* What the statements say, by their places in the text.                   *)

Read(kind)    == {i \in DOMAIN input : i < step /\ input[i].kind = kind}
Declared(c)   == Min({i \in Read("class") : input[i].name = classes[c].name})
EndOf(i)      == Min({k \in DOMAIN input : k > i /\ input[k].kind = "end"})
Inside(c, kind) == {k \in Read(kind) : Declared(c) < k /\ k < EndOf(Declared(c))}
OwnClasses    == {c \in DOMAIN classes : classes[c].module = Here}
Kept(c)       == {k \in Inside(c, "attribute") : <<"unknown type", k>> \notin reports}
Place(c, k)   == Cardinality({l \in Kept(c) : l < k}) + 1

\* A class has the attributes and events of its first statement in their order,
\* and extends the class of that name in the module, declared before it or
\* itself, or else the imported one.
ClassesAsWritten ==
  \A c \in OwnClasses :
    /\ Len(classes[c].attributes) = Cardinality(Kept(c))
    /\ \A k \in Kept(c) : classes[c].attributes[Place(c, k)].name = input[k].name
    /\ Len(classes[c].events) = Cardinality(Inside(c, "event"))
    /\ LET spec  == input[Declared(c)].extends
           own   == {d \in OwnClasses : d <= c /\ classes[d].name = spec[2]}
       IN (spec # NULL /\ spec[1] = NULL /\ own # {}) => classes[c].parent \in own

\* An attribute is told to be a second one exactly if its class, or one that
\* is extended, has the name from a statement before.
DuplicatesTold ==
  \A c \in OwnClasses : \A k \in Inside(c, "attribute") :
    <<"duplicate attribute", k>> \in reports <=>
      \E d \in ToSet(Chain[c]) : \E p \in DOMAIN classes[d].attributes :
        classes[d].attributes[p].name = input[k].name /\ (d = c => p < Place(c, k))

\* The names of a unique statement that the class itself declares are told in
\* their order, up to the first that is unknown or of another class.
Written(c) == IF Inside(c, "unique") = {} THEN <<>> ELSE input[Max(Inside(c, "unique"))].names
OwnUpTo(c) ==
  LET others == {k \in DOMAIN Written(c) : Called(c, Written(c)[k]) = {}}
  IN  IF others = {} THEN Len(Written(c)) ELSE Min(others) - 1
UniqueTold ==
  phase = "done" => \A k \in DOMAIN printed :
    LET c    == printed[k].class
        told == [j \in DOMAIN printed[k].unique |->
                   classes[printed[k].unique[j][1]].attributes[printed[k].unique[j][2]].name]
    IN /\ Len(told) >= OwnUpTo(c)
       /\ \A j \in 1 .. OwnUpTo(c) : told[j] = Written(c)[j]
       /\ OwnUpTo(c) = Len(Written(c)) => Len(told) = Len(Written(c))
       /\ printed[k].scalar <=> \E i \in Inside(c, "unique") : input[i].names = <<>>

\* Nothing but this keeps the program from its end: a class that extends
\* itself, a class or a typedef that is wrong, and an attribute that is written
\* twice in a unique statement.
StopsOnlyFor ==
  /\ phase = "overflow" => \E c \in OwnClasses : classes[c].parent = c
  /\ phase = "crash" =>
       \/ Statement.kind = "typedef"
       \/ \E i, j \in Read("class") : i < j /\ input[i].name = input[j].name
  /\ phase = "endless" =>
       \E c \in DOMAIN classes : \E j, k \in DOMAIN classes[c].unique :
         j < k /\ classes[c].unique[j] = classes[c].unique[k]

\* All of this when the program has come to its end, whichever it is.
ClassesSound ==
  phase \notin {"parse", "print"} =>
    ClassesAsWritten /\ DuplicatesTold /\ UniqueTold /\ StopsOnlyFor
=============================================================================
