--------------------------- MODULE TypeTableProofs ---------------------------
(***************************************************************************)
(* Proofs about TypeTable, for any number of modules, names and            *)
(* declarations: whatever is declared, and in whatever order, the table of *)
(* types is sound after every step, names are reported as unknown or       *)
(* redefined exactly if they are, and the checks of a module end.          *)
(*                                                                         *)
(* TableOK says what a table looks like; every rule of the parser appends  *)
(* types to one (Appended) or names one (SetTypeNameSound).  NameInv ties  *)
(* the table to the text, EndInv orders the types by their parents.        *)
(***************************************************************************)
EXTENDS TypeTable, SequenceTheorems, WellFoundedInduction, TLAPS

(***************************************************************************)
(* The invariant                                                           *)
(***************************************************************************)

Shared     == DOMAIN Builtins
LiveIn(ts) == {t \in DOMAIN ts : ~ts[t].freed}

\* The types that all modules share come first; the others are of a module.
SharedOK(ts, m) ==
  /\ ts \in Seq(Type)
  /\ Shared \subseteq DOMAIN ts
  /\ \A t \in Shared : ts[t] = Builtins[t]
  /\ \A t \in DOMAIN ts \ Shared :
       ts[t].mod \in 1 .. m /\ ts[t].name \in Name \cup {NULL}

\* A type is derived from one that is in use and has a name: one without is
\* known to a single declaration.
ParentsOK(ts) ==
  \A t \in LiveIn(ts) :
    ts[t].parent # NIL => /\ ts[t].parent \in LiveIn(ts)
                          /\ ts[ts[t].parent].name # NULL

OwnersOK(ts) ==
  \A t \in LiveIn(ts) :
    ts[t].list = "numbers" /\ ts[t].base \in {"ENUM", "BITS"} => ts[t].owner = t

UniqueIn(ts) ==
  \A t, u \in LiveIn(ts) \ Shared :
    ts[t].mod = ts[u].mod /\ ts[t].name = ts[u].name /\ ts[t].name # NULL => t = u

TableOK(ts, m) == SharedOK(ts, m) /\ ParentsOK(ts) /\ OwnersOK(ts) /\ UniqueIn(ts)

\* A pending SYNTAX without a name is of the module that is read, and not that
\* of an object.
PendingOK ==
  st = "syntax" /\ syntax.type # NIL /\ type[syntax.type].name = NULL
    => syntax.type \notin objects /\ type[syntax.type].mod = module

IInv == /\ TypeOK
        /\ TableOK(type, module)
        /\ objects \subseteq LiveIn(type)
        /\ syntax.type \in LiveIn(type) \cup {NIL}
        /\ st \in {"body", "syntax"} => module # 0
        /\ PendingOK

(***************************************************************************)
(* Tables                                                                  *)
(***************************************************************************)

LEMMA SharedTypes ==
  /\ Shared = 1 .. 4 /\ NIL \notin Shared
  /\ \A t \in Shared : /\ Builtins[t] \in Type /\ Builtins[t].name = "builtin"
                       /\ Builtins[t].mod = 0 /\ Builtins[t].freed = FALSE
                       /\ Builtins[t].parent = NIL
                       /\ Builtins[t].base \in Basetype
  /\ "builtin" # NULL
<1>1. Shared = 1 .. 4
  BY DEF Shared, Builtins
<1>2. \A b \in Basetype : Builtin(b) \in Type
  BY BoundAssumption DEF Builtin, Type, Lists, Decl, NIL
<1>3. \A t \in Shared : \E b \in Basetype : Builtins[t] = Builtin(b)
  BY <1>1 DEF Builtins, Basetype
<1>4. \A t \in Shared : Builtins[t] \in Type
  BY <1>2, <1>3
<1>5. \A b : /\ Builtin(b).name = "builtin" /\ Builtin(b).mod = 0
             /\ Builtin(b).freed = FALSE /\ Builtin(b).parent = NIL
             /\ Builtin(b).base = b
  BY DEF Builtin
<1> QED BY <1>1, <1>3, <1>4, <1>5, NameAssumption DEF NIL

\* A table with one more type.
LEMMA AppendFacts ==
  ASSUME NEW T, NEW ts \in Seq(T), NEW r \in T
  PROVE  /\ Append(ts, r) \in Seq(T) /\ Len(ts) \in Nat
         /\ Len(Append(ts, r)) = Len(ts) + 1
         /\ DOMAIN ts = 1 .. Len(ts) /\ DOMAIN Append(ts, r) = 1 .. Len(ts) + 1
         /\ Len(ts) + 1 \notin DOMAIN ts
         /\ DOMAIN Append(ts, r) = DOMAIN ts \cup {Len(ts) + 1}
         /\ \A t \in DOMAIN ts : Append(ts, r)[t] = ts[t]
         /\ Append(ts, r)[Len(ts) + 1] = r
OBVIOUS

\* A new type is of the module that is read, is derived from one that has a
\* name, has a basetype only if that one has, and has a name only if no other
\* type of the module has it.
NewOK(ts, m, r) ==
  /\ r \in Type /\ r.mod = m /\ m \in 1 .. MaxModules
  /\ r.name \in Name \cup {NULL} /\ r.freed = FALSE
  /\ r.parent # NIL => r.parent \in LiveIn(ts) /\ ts[r.parent].name # NULL
  /\ r.parent # NIL /\ r.base # "UNKNOWN" => ts[r.parent].base # "UNKNOWN"
  /\ r.list = "numbers" => r.owner = Len(ts) + 1
  /\ r.name # NULL => \A t \in LiveIn(ts) : ~(ts[t].mod = m /\ ts[t].name = r.name)

LEMMA Appended ==
  ASSUME NEW ts, NEW m \in Nat, TableOK(ts, m), NEW r, NewOK(ts, m, r)
  PROVE  TableOK(Append(ts, r), m)
<1> DEFINE u == Append(ts, r)
           e == Len(ts) + 1
<1>1. /\ ts \in Seq(Type) /\ r \in Type /\ Shared \subseteq DOMAIN ts
      /\ \A t \in Shared : ts[t] = Builtins[t]
  BY DEF TableOK, SharedOK, NewOK
<1>2. /\ u \in Seq(Type) /\ e \notin DOMAIN ts
      /\ DOMAIN u = DOMAIN ts \cup {e}
      /\ \A t \in DOMAIN ts : u[t] = ts[t]
      /\ u[e] = r
  BY <1>1, AppendFacts
<1> HIDE DEF u, e
<1>3. LiveIn(u) = LiveIn(ts) \cup {e}
  BY <1>2 DEF LiveIn, NewOK
<1>4. e \notin Shared
  BY <1>1, <1>2
<1>5. SharedOK(u, m)
  <2>1. \A t \in DOMAIN u \ Shared : u[t].mod \in 1 .. m /\ u[t].name \in Name \cup {NULL}
    <3> SUFFICES ASSUME NEW t \in DOMAIN u \ Shared
                 PROVE  u[t].mod \in 1 .. m /\ u[t].name \in Name \cup {NULL}
      OBVIOUS
    <3>1. CASE t = e
      BY <3>1, <1>2 DEF NewOK
    <3>2. CASE t # e
      BY <3>2, <1>2 DEF TableOK, SharedOK
    <3> QED BY <3>1, <3>2
  <2> QED BY <1>1, <1>2, <2>1 DEF SharedOK
<1>6. ParentsOK(u)
  <2> SUFFICES ASSUME NEW t \in LiveIn(u), u[t].parent # NIL
               PROVE  u[t].parent \in LiveIn(u) /\ u[u[t].parent].name # NULL
    BY DEF ParentsOK
  <2>1. \E p \in LiveIn(ts) : p = u[t].parent /\ ts[p].name # NULL
    <3>1. CASE t = e
      BY <3>1, <1>2 DEF NewOK
    <3>2. CASE t # e
      <4>1. t \in LiveIn(ts) /\ u[t] = ts[t]
        BY <3>2, <1>2, <1>3 DEF LiveIn
      <4> QED BY <4>1 DEF TableOK, ParentsOK
    <3> QED BY <3>1, <3>2
  <2> QED BY <2>1, <1>2, <1>3 DEF LiveIn
<1>7. OwnersOK(u)
  BY <1>2, <1>3 DEF OwnersOK, TableOK, LiveIn, NewOK, e
<1>8. UniqueIn(u)
  <2> SUFFICES ASSUME NEW t \in LiveIn(u) \ Shared, NEW x \in LiveIn(u) \ Shared,
                      u[t].mod = u[x].mod, u[t].name = u[x].name, u[t].name # NULL
               PROVE  t = x
    BY DEF UniqueIn
  <2>1. \A y \in LiveIn(ts) : u[y] = ts[y]
    BY <1>2 DEF LiveIn
  <2>2. CASE t = e /\ x # e
    BY <2>1, <2>2, <1>2, <1>3 DEF NewOK
  <2>3. CASE t # e /\ x = e
    BY <2>1, <2>3, <1>2, <1>3 DEF NewOK
  <2>4. CASE t # e /\ x # e
    BY <2>1, <2>4, <1>3 DEF TableOK, UniqueIn
  <2> QED BY <2>2, <2>3, <2>4
<1> QED BY <1>5, <1>6, <1>7, <1>8 DEF TableOK, u

LEMMA LessThan ==
  ASSUME NEW m \in Nat, NEW n \in Nat, m < n
  PROVE  <<m, n>> \in OpToRel(<, Nat)
BY DEF OpToRel

\* There is no infinite descent in the natural numbers.
LEMMA Least ==
  ASSUME NEW S \in SUBSET Nat, S # {}
  PROVE  \E n \in S : \A m \in S : n <= m
<1>1. PICK n \in S : \A m \in S : ~(<<m, n>> \in OpToRel(<, Nat))
  BY WFMin, NatLessThanWellFounded
<1>2. ASSUME NEW m \in S PROVE ~(m < n)
  BY <1>1, LessThan
<1> QED BY <1>2

LEMMA FirstOf ==
  ASSUME NEW S \in SUBSET (Nat \ {0})
  PROVE  /\ S = {} => First(S) = NIL
         /\ S # {} => First(S) \in S /\ First(S) # NIL
<1>1. ASSUME S # {} PROVE Min(S) \in S
  BY <1>1, Least DEF Min
<1> QED BY <1>1 DEF First, NIL

\* findTypeByModuleAndName() finds a type if there is one.
LEMMA Finds ==
  ASSUME NEW ts \in Seq(Type), NEW k, NEW n
  PROVE  /\ FindType(ts, k, n) # NIL =>
              /\ FindType(ts, k, n) \in LiveIn(ts)
              /\ ts[FindType(ts, k, n)].mod = k /\ ts[FindType(ts, k, n)].name = n
         /\ FindType(ts, k, n) = NIL =>
              \A t \in LiveIn(ts) : ~(ts[t].mod = k /\ ts[t].name = n)
<1> DEFINE S == {t \in DOMAIN ts : ~ts[t].freed /\ ts[t].mod = k /\ ts[t].name = n}
<1>1. S \in SUBSET (Nat \ {0})
  BY AppendFacts
<1>2. FindType(ts, k, n) = First(S)
  BY DEF FindType
<1>3. S = {} <=> \A t \in LiveIn(ts) : ~(ts[t].mod = k /\ ts[t].name = n)
  BY DEF LiveIn
<1>4. \A t \in S : t \in LiveIn(ts) /\ ts[t].mod = k /\ ts[t].name = n
  BY DEF LiveIn
<1> HIDE DEF S
<1> QED BY <1>1, <1>2, <1>3, <1>4, FirstOf

\* The other type that setTypeName() finds.
LEMMA OtherFound ==
  ASSUME NEW ts \in Seq(Type), NEW t \in DOMAIN ts, NEW n
  PROVE  /\ Others(ts, t, n) # NIL =>
              /\ Others(ts, t, n) \in LiveIn(ts) \ {t}
              /\ ts[Others(ts, t, n)].mod = ts[t].mod
              /\ ts[Others(ts, t, n)].name = n
         /\ Others(ts, t, n) = NIL =>
              \A x \in LiveIn(ts) \ {t} : ~(ts[x].mod = ts[t].mod /\ ts[x].name = n)
<1> DEFINE S == {x \in DOMAIN ts \ {t} :
                   ~ts[x].freed /\ ts[x].mod = ts[t].mod /\ ts[x].name = n}
<1>1. S \in SUBSET (Nat \ {0})
  BY AppendFacts
<1>2. Others(ts, t, n) = First(S)
  BY DEF Others
<1>3. S = {} <=> \A x \in LiveIn(ts) \ {t} : ~(ts[x].mod = ts[t].mod /\ ts[x].name = n)
  BY DEF LiveIn
<1>4. \A x \in S : x \in LiveIn(ts) \ {t} /\ ts[x].mod = ts[t].mod /\ ts[x].name = n
  BY DEF LiveIn
<1> HIDE DEF S
<1> QED BY <1>1, <1>2, <1>3, <1>4, FirstOf

-----------------------------------------------------------------------------
(* setTypeName()                                                           *)

\* What becomes of the types of ts when t gets its name: nothing of those that
\* keep their place, o takes over t, or is t.
Renamed(ts, u, t, n, o) ==
  /\ u \in Seq(Type) /\ DOMAIN u = DOMAIN ts
  /\ o \in LiveIn(ts) /\ u[o].name = n /\ u[o].freed = FALSE
  /\ u[o].mod = ts[t].mod /\ u[o].base = ts[t].base /\ u[o].decl = ts[t].decl
  /\ u[o].parent = ts[t].parent /\ u[o].list = ts[t].list
  /\ u[o].incomplete = ts[t].incomplete
  /\ u[o].owner = IF ts[t].base \in {"ENUM", "BITS"} /\ o # t THEN o ELSE ts[t].owner
  /\ o # t => /\ ts[o].mod = ts[t].mod /\ ts[o].name = n
              /\ u[t].freed = TRUE /\ u[t].name = NULL /\ u[t].mod = ts[t].mod
  /\ o = t => \A x \in LiveIn(ts) \ {t} : ~(ts[x].mod = ts[t].mod /\ ts[x].name = n)
  /\ \A x \in DOMAIN ts : x # t /\ x # o => u[x] = ts[x]

LEMMA Renames ==
  ASSUME NEW ts \in Seq(Type), NEW t \in LiveIn(ts), NEW n \in Name
  PROVE  Renamed(ts, SetTypeName(ts, t, n).types, t, n, SetTypeName(ts, t, n).type)
<1>1. t \in DOMAIN ts /\ ts[t] \in Type /\ ts[t].freed = FALSE
  <2>1. t \in DOMAIN ts /\ ~ts[t].freed
    BY DEF LiveIn
  <2>2. ts[t] \in Type
    BY <2>1
  <2> QED BY <2>1, <2>2 DEF Type
<1> DEFINE o == Others(ts, t, n)
<1>2. CASE o = NIL
  <2> DEFINE r == [ts[t] EXCEPT !.name = n]
             u == [ts EXCEPT ![t] = r]
  <2>1. SetTypeName(ts, t, n) = [types |-> u, type |-> t]
    BY <1>2 DEF SetTypeName, Given
  <2>2. /\ r \in Type /\ r.name = n /\ r.freed = FALSE /\ r.mod = ts[t].mod
        /\ r.base = ts[t].base /\ r.decl = ts[t].decl /\ r.parent = ts[t].parent
        /\ r.list = ts[t].list /\ r.incomplete = ts[t].incomplete
        /\ r.owner = ts[t].owner
    BY <1>1 DEF Type
  <2> HIDE DEF r
  <2>3. /\ u \in Seq(Type) /\ DOMAIN u = DOMAIN ts /\ u[t] = r
        /\ \A x \in DOMAIN ts : x # t => u[x] = ts[x]
    BY <1>1, <2>2
  <2>4. \A x \in LiveIn(ts) \ {t} : ~(ts[x].mod = ts[t].mod /\ ts[x].name = n)
    BY <1>1, <1>2, OtherFound
  <2> HIDE DEF u
  <2>5. Renamed(ts, u, t, n, t)
    BY <1>1, <2>2, <2>3, <2>4 DEF Renamed
  <2> QED BY <2>1, <2>5
<1>3. CASE o # NIL
  <2> DEFINE w == IF ts[t].base \in {"ENUM", "BITS"} THEN o ELSE ts[t].owner
             r == [ts[t] EXCEPT !.name = n, !.owner = w]
             f == [ts[t] EXCEPT !.name = NULL, !.freed = TRUE]
             u == [ts EXCEPT ![o] = r, ![t] = f]
  <2>1. o \in LiveIn(ts) \ {t} /\ ts[o].mod = ts[t].mod /\ ts[o].name = n
    BY <1>1, <1>3, OtherFound
  <2>2. o \in DOMAIN ts /\ o # t /\ o \in Nat
    BY <2>1, AppendFacts DEF LiveIn
  <2> HIDE DEF o
  <2>3. SetTypeName(ts, t, n) = [types |-> u, type |-> o]
    BY <1>3, <2>2 DEF SetTypeName, Merged, o
  <2>4. w \in Nat
    BY <1>1, <2>2 DEF Type
  <2> HIDE DEF w
  <2>5. /\ r \in Type /\ r.name = n /\ r.freed = FALSE /\ r.mod = ts[t].mod
        /\ r.base = ts[t].base /\ r.decl = ts[t].decl /\ r.parent = ts[t].parent
        /\ r.list = ts[t].list /\ r.incomplete = ts[t].incomplete
        /\ r.owner = w
    BY <1>1, <2>4 DEF Type
  <2>6. f \in Type /\ f.freed = TRUE /\ f.name = NULL /\ f.mod = ts[t].mod
    BY <1>1 DEF Type
  <2> HIDE DEF r, f
  <2>7. /\ u \in Seq(Type) /\ DOMAIN u = DOMAIN ts /\ u[o] = r /\ u[t] = f
        /\ \A x \in DOMAIN ts : x # t /\ x # o => u[x] = ts[x]
    BY <1>1, <2>2, <2>5, <2>6
  <2> HIDE DEF u
  <2>8. Renamed(ts, u, t, n, o)
    BY <2>1, <2>2, <2>5, <2>6, <2>7 DEF Renamed, w
  <2> QED BY <2>3, <2>8
<1> QED BY <1>2, <1>3

\* The types in use after a type got its name.
LEMMA RenamedLive ==
  ASSUME NEW ts, NEW u, NEW t \in LiveIn(ts), NEW n, NEW o, Renamed(ts, u, t, n, o)
  PROVE  /\ LiveIn(u) = IF o = t THEN LiveIn(ts) ELSE LiveIn(ts) \ {t}
         /\ o \in LiveIn(u)
         /\ \A x \in LiveIn(u) : x # o => u[x] = ts[x] /\ x # t
BY DEF Renamed, LiveIn

\* setTypeName() leaves a table, whether or not the name was referred to before.
LEMMA SetTypeNameSound ==
  ASSUME NEW ts, NEW m \in Nat, TableOK(ts, m), NEW t \in LiveIn(ts),
         ts[t].name = NULL, NEW n \in Name, NEW u, NEW o, Renamed(ts, u, t, n, o)
  PROVE  TableOK(u, m)
<1>1. /\ u \in Seq(Type) /\ DOMAIN u = DOMAIN ts
      /\ \A x \in DOMAIN ts : x # t /\ x # o => u[x] = ts[x]
      /\ t \in DOMAIN ts /\ o \in DOMAIN ts
      /\ u[o].name = n /\ u[o].mod = ts[t].mod
  BY DEF Renamed, LiveIn
<1>2. n # NULL
  BY NameAssumption
<1>3. t \in DOMAIN ts \ Shared /\ o \in DOMAIN ts \ Shared
  <2>1. t \notin Shared
    BY SharedTypes DEF TableOK, SharedOK
  <2>2. o \notin Shared
    <3>1. ts[o].mod = ts[t].mod
      BY DEF Renamed
    <3>2. ts[t].mod # 0
      BY <1>1, <2>1 DEF TableOK, SharedOK
    <3> QED BY <3>1, <3>2, SharedTypes DEF TableOK, SharedOK
  <2> QED BY <1>1, <2>1, <2>2
<1>4. SharedOK(u, m)
  <2>1. Shared \subseteq DOMAIN u /\ \A x \in Shared : u[x] = Builtins[x]
    BY <1>1, <1>3 DEF TableOK, SharedOK
  <2>2. ASSUME NEW x \in DOMAIN u \ Shared
        PROVE  u[x].mod \in 1 .. m /\ u[x].name \in Name \cup {NULL}
    <3>1. ts[x].mod \in 1 .. m /\ ts[x].name \in Name \cup {NULL} /\ ts[t].mod \in 1 .. m
      BY <1>1, <1>3 DEF TableOK, SharedOK
    <3>2. CASE x = o
      BY <3>1, <3>2, <1>1
    <3>3. CASE x = t /\ t # o
      BY <3>1, <3>3 DEF Renamed
    <3>4. CASE x # t /\ x # o
      BY <3>1, <3>4, <1>1
    <3> QED BY <3>2, <3>3, <3>4
  <2> QED BY <1>1, <2>1, <2>2 DEF SharedOK
<1>5. ParentsOK(u)
  <2> SUFFICES ASSUME NEW x \in LiveIn(u), u[x].parent # NIL
               PROVE  u[x].parent \in LiveIn(u) /\ u[u[x].parent].name # NULL
    BY DEF ParentsOK
  <2>1. \E y \in LiveIn(ts) : u[x].parent = ts[y].parent
    <3>1. CASE x = o
      BY <3>1 DEF Renamed
    <3>2. CASE x # o
      BY <3>2, RenamedLive
    <3> QED BY <3>1, <3>2
  <2>2. u[x].parent \in LiveIn(ts) /\ ts[u[x].parent].name # NULL
    BY <2>1 DEF TableOK, ParentsOK
  <2>3. u[x].parent \in LiveIn(u)
    BY <2>2, RenamedLive
  <2> QED BY <2>2, <2>3, <1>1, <1>2, RenamedLive
<1>6. OwnersOK(u)
  <2> SUFFICES ASSUME NEW x \in LiveIn(u), u[x].list = "numbers",
                      u[x].base \in {"ENUM", "BITS"}
               PROVE  u[x].owner = x
    BY DEF OwnersOK
  <2>1. CASE x = o
    BY <2>1 DEF Renamed, TableOK, OwnersOK
  <2>2. CASE x # o
    BY <2>2, RenamedLive DEF TableOK, OwnersOK
  <2> QED BY <2>1, <2>2
<1>7. UniqueIn(u)
  <2>1. ASSUME NEW x \in LiveIn(u), x # o, u[x].mod = u[o].mod
        PROVE  u[x].name # n
    <3>1. x \in LiveIn(ts) /\ x # t /\ u[x] = ts[x]
      BY <2>1, RenamedLive
    <3>2. CASE o = t
      BY <2>1, <3>1, <3>2, <1>1 DEF Renamed
    <3>3. CASE o # t
      <4>1. ts[o].mod = ts[x].mod /\ ts[o].name = n /\ o \in LiveIn(ts)
        BY <2>1, <3>1, <3>3, <1>1 DEF Renamed
      <4>2. x \notin Shared
        <5>1. ts[o].mod # 0
          BY <1>3 DEF TableOK, SharedOK
        <5> QED BY <4>1, <5>1, SharedTypes DEF TableOK, SharedOK
      <4> QED BY <4>1, <4>2, <3>1, <2>1, <1>2, <1>3 DEF TableOK, UniqueIn
    <3> QED BY <3>2, <3>3
  <2> SUFFICES ASSUME NEW x \in LiveIn(u) \ Shared, NEW y \in LiveIn(u) \ Shared,
                      u[x].mod = u[y].mod, u[x].name = u[y].name, u[x].name # NULL
               PROVE  x = y
    BY DEF UniqueIn
  <2>2. CASE x = o \/ y = o
    BY <2>1, <2>2, <1>1
  <2>3. CASE x # o /\ y # o
    BY <2>3, RenamedLive DEF TableOK, UniqueIn
  <2> QED BY <2>2, <2>3
<1> QED BY <1>4, <1>5, <1>6, <1>7 DEF TableOK
-----------------------------------------------------------------------------
(* The SYNTAX rules                                                        *)

LEMMA StateFacts ==
  ASSUME IInv, st \in {"body", "syntax"}
  PROVE  /\ module \in 1 .. MaxModules /\ module \in Nat /\ MaxModules \in Nat
         /\ type \in Seq(Type) /\ TableOK(type, module)
         /\ imported[module] \in [Name -> 0 .. MaxModules]
<1>1. module \in 0 .. MaxModules /\ module # 0 /\ MaxModules \in Nat
  BY BoundAssumption DEF IInv, TypeOK
<1>2. imported \in Seq([Name -> 0 .. MaxModules]) /\ Len(imported) = module
  BY DEF IInv, TypeOK
<1>3. module \in 1 .. MaxModules
  BY <1>1
<1>4. imported[module] \in [Name -> 0 .. MaxModules]
  BY <1>2, <1>3
<1> QED BY <1>1, <1>3, <1>4 DEF IInv, TypeOK

Referable == Name \ {APPLICATION}

\* What a rule makes of the table when it refers to n: a type that has a name
\* is only created for an unknown n, and n is known from then on.
Extends(ts) == /\ DOMAIN type \subseteq DOMAIN ts
               /\ \A x \in DOMAIN type : ts[x] = type[x]
Created(ts, n) ==
  \A x \in DOMAIN ts \ DOMAIN type :
    /\ ts[x].mod = module
    /\ ts[x].name # NULL => /\ n \in Referable /\ Lookup(type, n) = NIL
                            /\ ts[x].name = n
                            /\ ts[x].incomplete = TRUE /\ ts[x].decl = "UNKNOWN"
                            /\ ts[x].base = "UNKNOWN"
    /\ ts[x].parent # NIL /\ ts[x].base # "UNKNOWN" =>
         ts[x].parent \in DOMAIN type /\ type[ts[x].parent].base # "UNKNOWN"
Resolved(ts, n) ==
  n \in Referable =>
    Source(n) # 0 \/ \E x \in LiveIn(ts) : ts[x].name = n /\ ts[x].mod = module
Extension(ts, n) ==
  TableOK(ts, module) /\ Extends(ts) /\ Created(ts, n) /\ Resolved(ts, n)

LEMMA SameExtends ==
  ASSUME IInv, st = "body", NEW n, n \notin Referable
  PROVE  Extension(type, n)
BY StateFacts DEF Extension, Extends, Created, Resolved

\* A name that is found stands for a type in use that has it.
LEMMA LookupFacts ==
  ASSUME IInv, st = "body", NEW n
  PROVE  /\ Lookup(type, n) # NIL => /\ Lookup(type, n) \in LiveIn(type)
                                     /\ type[Lookup(type, n)].name = n
         /\ Lookup(type, n) = NIL =>
              \A t \in LiveIn(type) : ~(type[t].mod = module /\ type[t].name = n)
         /\ Lookup(type, n) # NIL =>
              \/ Source(n) # 0
              \/ \E x \in LiveIn(type) : type[x].name = n /\ type[x].mod = module
<1>1. type \in Seq(Type)
  BY StateFacts
<1>2. /\ FindType(type, module, n) # NIL =>
           /\ FindType(type, module, n) \in LiveIn(type)
           /\ type[FindType(type, module, n)].mod = module
           /\ type[FindType(type, module, n)].name = n
      /\ FindType(type, module, n) = NIL =>
           \A t \in LiveIn(type) : ~(type[t].mod = module /\ type[t].name = n)
  BY <1>1, Finds
<1>3. FindType(type, Source(n), n) # NIL =>
        /\ FindType(type, Source(n), n) \in LiveIn(type)
        /\ type[FindType(type, Source(n), n)].name = n
  BY <1>1, Finds
<1> QED BY <1>2, <1>3 DEF Lookup

LEMMA ForwardExtends ==
  ASSUME IInv, st = "body", NEW n \in Referable
  PROVE  /\ Extension(Forward(type, n), n)
         /\ Referred(type, n) \in LiveIn(Forward(type, n))
         /\ Forward(type, n)[Referred(type, n)].name = n
         /\ n # NULL
<1>1. n \in Name /\ n # NULL
  BY NameAssumption DEF Referable
<1>2. CASE Lookup(type, n) # NIL
  <2>1. Forward(type, n) = type /\ Referred(type, n) = Lookup(type, n)
    BY <1>2 DEF Forward, Referred
  <2>2. Extension(type, n)
    BY <1>2, StateFacts, LookupFacts DEF Extension, Extends, Created, Resolved
  <2> QED BY <2>1, <2>2, <1>1, <1>2, LookupFacts
<1>3. CASE Lookup(type, n) = NIL
  <2> DEFINE r == [name |-> n, mod |-> module, base |-> "UNKNOWN",
                   decl |-> "UNKNOWN", parent |-> NIL, list |-> "none",
                   owner |-> NIL, incomplete |-> TRUE, freed |-> FALSE]
             u == Append(type, r)
             e == Len(type) + 1
  <2>1. Forward(type, n) = u /\ Referred(type, n) = e
    BY <1>3 DEF Forward, Referred, AddType
  <2>2. r \in Type
    BY <1>1, StateFacts DEF Type, Basetype, Decl, Lists, NIL
  <2>3. NewOK(type, module, r)
    BY <2>2, <1>1, <1>3, StateFacts, LookupFacts DEF NewOK
  <2>4. /\ r.name = n /\ r.mod = module /\ r.incomplete = TRUE
        /\ r.decl = "UNKNOWN" /\ r.freed = FALSE /\ r.base = "UNKNOWN"
    OBVIOUS
  <2> HIDE DEF r
  <2>5. TableOK(u, module)
    BY <2>3, StateFacts, Appended
  <2>6. /\ DOMAIN u = DOMAIN type \cup {e} /\ u[e] = r /\ e \notin DOMAIN type
        /\ \A x \in DOMAIN type : u[x] = type[x]
    BY <2>2, StateFacts, AppendFacts
  <2> HIDE DEF u, e
  <2>7. e \in LiveIn(u) /\ u[e].name = n
    BY <2>4, <2>6 DEF LiveIn
  <2>8. Extension(u, n)
    BY <1>3, <2>4, <2>5, <2>6, <2>7 DEF Extension, Extends, Created, Resolved
  <2> QED BY <1>1, <2>1, <2>7, <2>8
<1> QED BY <1>2, <1>3

\* A table with one more type that has no name.
LEMMA AppendExtends ==
  ASSUME IInv, st = "body", NEW ts, NEW n, Extension(ts, n), NEW r,
         NewOK(ts, module, r), r.name = NULL
  PROVE  /\ Extension(Append(ts, r), n)
         /\ Len(ts) + 1 \in LiveIn(Append(ts, r))
         /\ Append(ts, r)[Len(ts) + 1].name = NULL
         /\ Len(ts) + 1 \notin DOMAIN type
<1> DEFINE u == Append(ts, r)
           e == Len(ts) + 1
<1>1. ts \in Seq(Type) /\ r \in Type /\ r.freed = FALSE
  BY DEF Extension, TableOK, SharedOK, NewOK
<1>2. /\ DOMAIN u = DOMAIN ts \cup {e} /\ u[e] = r /\ e \notin DOMAIN ts
      /\ \A x \in DOMAIN ts : u[x] = ts[x]
  BY <1>1, AppendFacts
<1>3. TableOK(u, module)
  BY StateFacts, Appended DEF Extension
<1> HIDE DEF u, e
<1>4. Extends(u) /\ e \notin DOMAIN type
  BY <1>2 DEF Extension, Extends
<1>5. Created(u, n)
  <2>1. ASSUME NEW x \in DOMAIN u \ DOMAIN type
        PROVE  u[x] = r \/ (x \in DOMAIN ts \ DOMAIN type /\ u[x] = ts[x])
    BY <1>2
  <2>2. r.mod = module
    BY DEF NewOK
  <2>3. r.parent # NIL /\ r.base # "UNKNOWN" =>
          r.parent \in DOMAIN type /\ type[r.parent].base # "UNKNOWN"
    <3>1. r.parent # NIL /\ r.base # "UNKNOWN" =>
            /\ r.parent \in DOMAIN ts /\ ts[r.parent].name # NULL
            /\ ts[r.parent].base # "UNKNOWN"
      BY DEF NewOK, LiveIn
    <3> QED BY <3>1 DEF Extension, Extends, Created
  <2> QED BY <2>1, <2>2, <2>3 DEF Extension, Created
<1>6. Resolved(u, n)
  BY <1>2 DEF Extension, Resolved, LiveIn
<1>7. e \in LiveIn(u) /\ u[e].name = NULL
  BY <1>1, <1>2 DEF LiveIn
<1> QED BY <1>3, <1>4, <1>5, <1>6, <1>7 DEF Extension, u, e

\* The last type of a table is changed.
LEMMA LastChanged ==
  ASSUME NEW ts \in Seq(Type), NEW r \in Type, NEW q \in Type
  PROVE  [Append(ts, r) EXCEPT ![Len(ts) + 1] = q] = Append(ts, q)
<1> DEFINE e == Len(ts) + 1
           a == Append(ts, r)
           b == Append(ts, q)
           u == [a EXCEPT ![e] = q]
<1>1. /\ a \in Seq(Type) /\ DOMAIN a = 1 .. e /\ e \in Nat
      /\ DOMAIN a = DOMAIN ts \cup {e} /\ e \notin DOMAIN ts
      /\ \A x \in DOMAIN ts : a[x] = ts[x]
  BY AppendFacts
<1>2. /\ b \in Seq(Type) /\ Len(b) = e /\ b[e] = q
      /\ \A x \in DOMAIN ts : b[x] = ts[x]
  BY AppendFacts
<1> HIDE DEF a, b, e
<1>3. /\ u \in Seq(Type) /\ DOMAIN u = 1 .. e /\ u[e] = q
      /\ \A x \in DOMAIN ts : u[x] = ts[x]
  BY <1>1
<1> HIDE DEF u
<1>4. \A x \in 1 .. e : u[x] = b[x]
  BY <1>1, <1>2, <1>3
<1>5. Len(u) = e
  BY <1>1, <1>3
<1>6. u = b
  BY <1>2, <1>3, <1>4, <1>5, SeqEqual
<1> QED BY <1>6 DEF a, b, e, u

LEMMA ListedLast ==
  ASSUME NEW ts \in Seq(Type), NEW r \in Type, NEW l \in Lists
  PROVE  /\ Listed(Append(ts, r), l)
              = Append(ts, [r EXCEPT !.list = l, !.owner = Len(ts) + 1])
         /\ [r EXCEPT !.list = l, !.owner = Len(ts) + 1] \in Type
<1> DEFINE e == Len(ts) + 1
           q == [r EXCEPT !.list = l, !.owner = e]
<1>1. e \in Nat /\ Len(Append(ts, r)) = e /\ Append(ts, r)[e] = r
  BY AppendFacts
<1>2. q \in Type
  BY <1>1 DEF Type
<1>3. Listed(Append(ts, r), l) = [Append(ts, r) EXCEPT ![e] = q]
  BY <1>1 DEF Listed
<1> HIDE DEF q
<1>4. [Append(ts, r) EXCEPT ![e] = q] = Append(ts, q)
  BY <1>2, LastChanged
<1> QED BY <1>2, <1>3, <1>4 DEF q

\* duplicateType() of a type that has a name, with or without a list.
Derived(ts, t) ==
  [name |-> NULL, mod |-> module, base |-> ts[t].base, decl |-> "IMPLICIT",
   parent |-> t, list |-> "none", owner |-> NIL,
   incomplete |-> ts[t].incomplete, freed |-> FALSE]

LEMMA DerivedOK ==
  ASSUME IInv, st \in {"body", "syntax"}, NEW ts, TableOK(ts, module),
         NEW t \in LiveIn(ts), ts[t].name # NULL
  PROVE  /\ DuplicateType(ts, t) = Append(ts, Derived(ts, t))
         /\ Derived(ts, t).name = NULL
         /\ NewOK(ts, module, Derived(ts, t))
         /\ NewOK(ts, module, [Derived(ts, t) EXCEPT !.decl = "DEFINED"])
         /\ \A l \in Lists :
              /\ Listed(DuplicateType(ts, t), l)
                   = Append(ts, [Derived(ts, t) EXCEPT !.list = l,
                                                       !.owner = Len(ts) + 1])
              /\ NewOK(ts, module, [Derived(ts, t) EXCEPT !.list = l,
                                                          !.owner = Len(ts) + 1])
              /\ [Derived(ts, t) EXCEPT !.list = l, !.owner = Len(ts) + 1].name = NULL
<1> DEFINE r == Derived(ts, t)
<1>1. ts \in Seq(Type) /\ t \in DOMAIN ts /\ t \in Nat
  BY AppendFacts DEF TableOK, SharedOK, LiveIn
<1>2. ts[t].base \in Basetype /\ ts[t].incomplete \in BOOLEAN
  <2>1. ts[t] \in Type
    BY <1>1
  <2> QED BY <2>1 DEF Type
<1>3. module \in 1 .. MaxModules /\ module \in 0 .. MaxModules
  BY StateFacts
<1>4. r \in Type
  BY <1>1, <1>2, <1>3 DEF Derived, Type, Decl, Lists, NIL
<1>5. /\ r.name = NULL /\ r.mod = module /\ r.parent = t /\ r.freed = FALSE
      /\ r.list = "none" /\ r.base = ts[t].base
  BY DEF Derived
<1>6. DuplicateType(ts, t) = Append(ts, r)
  BY DEF DuplicateType, Derived
<1> HIDE DEF r
<1>7. NewOK(ts, module, r)
  BY <1>3, <1>4, <1>5 DEF NewOK
<1>8. NewOK(ts, module, [r EXCEPT !.decl = "DEFINED"])
  <2> DEFINE q == [r EXCEPT !.decl = "DEFINED"]
  <2>1. q \in Type /\ q.name = NULL /\ q.mod = module /\ q.parent = t
        /\ q.freed = FALSE /\ q.list = "none" /\ q.base = ts[t].base
    BY <1>4, <1>5 DEF Type, Decl
  <2> HIDE DEF q
  <2>2. NewOK(ts, module, q)
    BY <1>3, <2>1 DEF NewOK
  <2> QED BY <2>2 DEF q
<1>9. ASSUME NEW l \in Lists
      PROVE  LET q == [r EXCEPT !.list = l, !.owner = Len(ts) + 1]
             IN  /\ Listed(DuplicateType(ts, t), l) = Append(ts, q)
                 /\ NewOK(ts, module, q) /\ q.name = NULL
  <2> DEFINE q == [r EXCEPT !.list = l, !.owner = Len(ts) + 1]
  <2>1. Listed(Append(ts, r), l) = Append(ts, q) /\ q \in Type
    BY <1>1, <1>4, ListedLast
  <2>2. /\ q.name = NULL /\ q.mod = module /\ q.parent = t
        /\ q.freed = FALSE /\ q.owner = Len(ts) + 1 /\ q.base = ts[t].base
    BY <1>4, <1>5 DEF Type
  <2> HIDE DEF q
  <2>3. NewOK(ts, module, q)
    BY <1>3, <2>1, <2>2 DEF NewOK
  <2> QED BY <1>6, <2>1, <2>2, <2>3 DEF q
<1> QED BY <1>5, <1>6, <1>7, <1>8, <1>9 DEF r

\* How a SYNTAX is written.
LEMMA WrittenOK ==
  ASSUME IInv, st = "body", NEW how \in How, NEW b \in Basetype,
         NEW n \in Name \cup {NULL}
  PROVE  AsWritten(how, b, n) \in Written /\ AsWritten(how, b, n).ref = n
<1>1. module \in 0 .. MaxModules /\ 0 \in 0 .. MaxModules
  BY StateFacts
<1>2. n # NULL => Source(n) \in 0 .. MaxModules
  BY StateFacts DEF Source
<1> QED BY <1>1, <1>2 DEF AsWritten, Written

\* What every SYNTAX rule does: it leaves a table in which the type that the
\* rule returns is in use, and new if it has no name, and reports no more than
\* the error of its own.
ReadErrors ==
  /\ errors \subseteq errors'
  /\ \A x \in errors' \ errors :
       /\ x \in Error /\ x.mod = module
       /\ x.kind = "illegal" \/ (x.kind = "unknown" /\ x.name = APPLICATION)
ReadTable(ts, t, n) ==
  /\ Extension(ts, n)
  /\ t # NIL => t \in LiveIn(ts) /\ (ts[t].name = NULL => t \notin DOMAIN type)
ReadStep ==
  /\ st = "body" /\ st' = "syntax" /\ ReadErrors
  /\ syntax' \in [type : Nat, as : Written]
  /\ ReadTable(type', syntax'.type, syntax'.as.ref)
  /\ UNCHANGED <<module, imported, objects, text>>

LEMMA ReadSteps ==
  ASSUME IInv, st = "body", NEW ts, NEW t \in Nat, NEW as \in Written,
         Read(ts, t, as), ReadErrors, ReadTable(ts, t, as.ref)
  PROVE  ReadStep
BY DEF Read, ReadStep

LEMMA NoErrors == ASSUME UNCHANGED errors PROVE ReadErrors
BY DEF ReadErrors

\* A builtin type is in use and has a name.
LEMMA BuiltinLive ==
  ASSUME IInv, NEW t \in Shared
  PROVE  /\ t \in LiveIn(type) /\ type[t].name # NULL /\ t \in Nat
         /\ type[t].base \in Basetype
BY SharedTypes DEF IInv, TableOK, SharedOK, LiveIn

\* NULL is no name that could be referred to, and neither is the keyword.
LEMMA NotReferable == NULL \notin Referable /\ APPLICATION \notin Referable
                      /\ NULL \in Name \cup {NULL} /\ APPLICATION \in Name
BY NameAssumption DEF Referable

LEMMA BuiltinRead ==
  ASSUME IInv, NEW t \in {INTEGER32, OCTETSTRING}, ReadBuiltin(t) PROVE ReadStep
<1>1. st = "body" /\ UNCHANGED errors /\ t \in Shared
  BY SharedTypes DEF ReadBuiltin, Reading, INTEGER32, OCTETSTRING
<1> DEFINE as == AsWritten("builtin", type[t].base, NULL)
<1>2. Read(type, t, as)
  BY DEF ReadBuiltin
<1>3. as \in Written /\ as.ref = NULL
  BY <1>1, WrittenOK, BuiltinLive, NotReferable DEF How
<1> HIDE DEF as
<1>4. ReadTable(type, t, as.ref)
  BY <1>1, <1>3, NotReferable, SameExtends, BuiltinLive DEF ReadTable
<1> QED BY <1>1, <1>2, <1>3, <1>4, BuiltinLive, NoErrors, ReadSteps

\* What a rule returns that derives a type and gives it a list.
LEMMA ListedRead ==
  ASSUME IInv, st = "body", NEW ts, NEW n, Extension(ts, n),
         NEW t \in LiveIn(ts), ts[t].name # NULL, NEW l \in Lists
  PROVE  /\ ReadTable(Listed(DuplicateType(ts, t), l), Len(ts) + 1, n)
         /\ Len(DuplicateType(ts, t)) = Len(ts) + 1 /\ Len(ts) + 1 \in Nat
<1> DEFINE q == [Derived(ts, t) EXCEPT !.list = l, !.owner = Len(ts) + 1]
<1>1. TableOK(ts, module) /\ ts \in Seq(Type)
  BY DEF Extension, TableOK, SharedOK
<1>2. /\ Listed(DuplicateType(ts, t), l) = Append(ts, q)
      /\ NewOK(ts, module, q) /\ q.name = NULL
      /\ DuplicateType(ts, t) = Append(ts, Derived(ts, t))
      /\ NewOK(ts, module, Derived(ts, t))
  BY <1>1, DerivedOK
<1> HIDE DEF q
<1>3. ReadTable(Append(ts, q), Len(ts) + 1, n)
  BY <1>2, AppendExtends DEF ReadTable
<1>4. Len(DuplicateType(ts, t)) = Len(ts) + 1 /\ Len(ts) + 1 \in Nat
  BY <1>1, <1>2, AppendFacts DEF NewOK
<1> QED BY <1>2, <1>3, <1>4

LEMMA RestrictedRead ==
  ASSUME IInv, NEW t \in {INTEGER32, OCTETSTRING, ENUM}, ReadRestricted(t)
  PROVE  ReadStep
<1>1. st = "body" /\ UNCHANGED errors /\ t \in Shared
  BY SharedTypes DEF ReadRestricted, Reading, INTEGER32, OCTETSTRING, ENUM
<1> DEFINE l  == IF t = ENUM THEN "numbers" ELSE "ranges"
           as == AsWritten("restricted", type[t].base, NULL)
           ts == Listed(DuplicateType(type, t), l)
<1>2. Read(ts, Len(type) + 1, as)
  BY DEF ReadRestricted
<1>3. as \in Written /\ as.ref = NULL
  BY <1>1, WrittenOK, BuiltinLive, NotReferable DEF How
<1>4. l \in Lists
  BY DEF Lists
<1> HIDE DEF as, l
<1>5. ReadTable(ts, Len(type) + 1, as.ref) /\ Len(type) + 1 \in Nat
  BY <1>1, <1>3, <1>4, NotReferable, SameExtends, BuiltinLive, ListedRead
<1> HIDE DEF ts
<1> QED BY <1>1, <1>2, <1>3, <1>5, NoErrors, ReadSteps

LEMMA NameRead ==
  ASSUME IInv, NEW n \in Referable, ReadName(n) PROVE ReadStep
<1> DEFINE as == AsWritten("name", "UNKNOWN", n)
           ts == Forward(type, n)
           t  == Referred(type, n)
<1>1. st = "body" /\ UNCHANGED errors /\ Read(ts, t, as)
  BY DEF ReadName, Reading
<1>2. as \in Written /\ as.ref = n
  BY <1>1, WrittenOK DEF How, Basetype, Referable
<1> HIDE DEF as
<1>3. /\ Extension(ts, n) /\ t \in LiveIn(ts) /\ ts[t].name = n /\ n # NULL
  BY <1>1, ForwardExtends
<1>4. t \in Nat
  BY <1>3, AppendFacts DEF Extension, TableOK, SharedOK, LiveIn
<1> HIDE DEF ts, t
<1>5. ReadTable(ts, t, as.ref)
  BY <1>2, <1>3 DEF ReadTable
<1> QED BY <1>1, <1>2, <1>4, <1>5, NoErrors, ReadSteps

LEMMA SubtypeRead ==
  ASSUME IInv, NEW how \in {"range", "size", "enum"}, NEW n \in Referable,
         ReadSubtype(how, n)
  PROVE  ReadStep
<1> DEFINE found == Lookup(type, n)
           fits  == found = NIL \/ type[found].base \in Fitting(how)
           ts == Forward(type, n)
           t  == IF fits THEN Referred(type, n) ELSE Instead(how)
           l  == IF how = "enum" THEN "numbers" ELSE "ranges"
           as == AsWritten(how, "UNKNOWN", n)
           x  == [kind |-> "illegal", mod |-> module, name |-> n,
                  at |-> Len(text) + 1]
<1>1. /\ st = "body"
      /\ Read(Listed(DuplicateType(ts, t), l), Len(DuplicateType(ts, t)), as)
      /\ errors' = IF fits THEN errors ELSE errors \cup {x}
  BY DEF ReadSubtype, Reading
<1>2. as \in Written /\ as.ref = n
  BY <1>1, WrittenOK DEF How, Basetype, Referable
<1>3. ReadErrors
  <2>1. x \in Error /\ x.mod = module /\ x.kind = "illegal"
    <3>1. Len(text) + 1 \in Nat
      BY DEF IInv, TypeOK
    <3> QED BY <1>1, <3>1, StateFacts DEF Error, Referable
  <2> HIDE DEF x, fits
  <2> QED BY <1>1, <2>1 DEF ReadErrors
<1>4. l \in Lists
  BY DEF Lists
<1> HIDE DEF as, l, x
<1>5. /\ Extension(ts, n) /\ Referred(type, n) \in LiveIn(ts)
      /\ ts[Referred(type, n)].name = n /\ n # NULL
  BY <1>1, ForwardExtends
<1>6. Instead(how) \in Shared
  BY SharedTypes DEF Instead, INTEGER32, OCTETSTRING, ENUM
<1>7. Instead(how) \in LiveIn(ts) /\ ts[Instead(how)].name # NULL
  BY <1>5, <1>6, BuiltinLive DEF Extension, Extends, LiveIn
<1>8. t \in LiveIn(ts) /\ ts[t].name # NULL
  BY <1>5, <1>7
<1> HIDE DEF t, ts, fits
<1>9. /\ ReadTable(Listed(DuplicateType(ts, t), l), Len(ts) + 1, n)
      /\ Len(DuplicateType(ts, t)) = Len(ts) + 1 /\ Len(ts) + 1 \in Nat
  BY <1>1, <1>4, <1>5, <1>8, ListedRead
<1> QED BY <1>1, <1>2, <1>3, <1>9, ReadSteps

\* Two fields of the last type are changed, or one is.
WithParent(ts, r, d, p) ==
  [Append(ts, r) EXCEPT ![Len(ts) + 1].decl = d, ![Len(ts) + 1].parent = p]
WithDecl(ts, r, d) == [Append(ts, r) EXCEPT ![Len(ts) + 1].decl = d]
Child(r, d, p) == [r EXCEPT !.decl = d, !.parent = p]

LEMMA LastDerived ==
  ASSUME NEW ts \in Seq(Type), NEW r \in Type, NEW d \in Decl, NEW p \in Nat
  PROVE  /\ WithParent(ts, r, d, p) = Append(ts, Child(r, d, p))
         /\ WithDecl(ts, r, d) = Append(ts, [r EXCEPT !.decl = d])
<1> DEFINE e == Len(ts) + 1
           a == Append(ts, r)
           q == [r EXCEPT !.decl = d]
           b == Append(ts, q)
           v == [q EXCEPT !.parent = p]
<1>1. a[e] = r /\ q \in Type /\ v \in Type /\ b[e] = q
      /\ DOMAIN a = DOMAIN b /\ e \in DOMAIN a
  <2>1. q \in Type
    BY DEF Type
  <2> HIDE DEF q
  <2>2. v \in Type
    BY <2>1 DEF Type
  <2> HIDE DEF v
  <2> QED BY <2>1, <2>2, AppendFacts
<1>2. [a EXCEPT ![e] = q] = b
  <2> HIDE DEF q, v
  <2> QED BY <1>1, LastChanged
<1>3. [a EXCEPT ![e].decl = d] = b
  BY <1>1, <1>2
<1>4. [b EXCEPT ![e] = v] = Append(ts, v)
  <2> HIDE DEF q, v
  <2> QED BY <1>1, LastChanged
<1>5. [b EXCEPT ![e].parent = p] = Append(ts, v)
  BY <1>1, <1>4
<1>6. [a EXCEPT ![e].decl = d, ![e].parent = p]
        = [[a EXCEPT ![e].decl = d] EXCEPT ![e].parent = p]
  OBVIOUS
<1>7. [r EXCEPT !.decl = d, !.parent = p] = v
  OBVIOUS
<1> QED BY <1>3, <1>5, <1>6, <1>7 DEF WithParent, WithDecl, Child

LEMMA LastListed ==
  ASSUME NEW ts \in Seq(Type), NEW r \in Type, NEW l \in Lists
  PROVE  [Append(ts, r) EXCEPT ![Len(ts) + 1].list = l]
           = Append(ts, [r EXCEPT !.list = l])
<1> DEFINE e == Len(ts) + 1
           a == Append(ts, r)
           q == [r EXCEPT !.list = l]
<1>1. a[e] = r /\ q \in Type
  BY AppendFacts DEF Type
<1>2. [a EXCEPT ![e] = q] = Append(ts, q)
  <2> HIDE DEF q
  <2> QED BY <1>1, LastChanged
<1> HIDE DEF a, e
<1>3. [a EXCEPT ![e].list = l] = [a EXCEPT ![e] = q]
  BY <1>1
<1> QED BY <1>2, <1>3 DEF a, e

\* addType() of a type without a name.
Added(b, incomplete) ==
  [name |-> NULL, mod |-> module, base |-> b, decl |-> "UNKNOWN",
   parent |-> NIL, list |-> "none", owner |-> NIL, incomplete |-> incomplete,
   freed |-> FALSE]

LEMMA AddedOK ==
  ASSUME IInv, st = "body", NEW ts, NEW b \in Basetype, NEW i \in BOOLEAN
  PROVE  AddType(ts, NULL, b, i) = Append(ts, Added(b, i)) /\ Added(b, i) \in Type
BY StateFacts DEF AddType, Added, Type, Decl, Lists, NIL

LEMMA BitsRead == ASSUME IInv, ReadBits PROVE ReadStep
<1> DEFINE e  == Len(type) + 1
           r  == Added("BITS", TRUE)
           s  == [r EXCEPT !.decl = "IMPLICIT", !.parent = BITS]
           q  == [s EXCEPT !.list = "numbers", !.owner = e]
           as == AsWritten("bits", "BITS", NULL)
<1>1. /\ st = "body" /\ UNCHANGED errors
      /\ Read(Listed([AddType(type, NULL, "BITS", TRUE) EXCEPT
                        ![e].decl = "IMPLICIT", ![e].parent = BITS], "numbers"), e, as)
  BY DEF ReadBits, Reading
<1>2. type \in Seq(Type) /\ e \in Nat /\ module \in 1 .. MaxModules
  BY <1>1, StateFacts, AppendFacts
<1>3. r \in Type /\ AddType(type, NULL, "BITS", TRUE) = Append(type, r)
  BY <1>1, AddedOK DEF Basetype
<1>4. BITS \in Shared /\ BITS \in Nat
  BY SharedTypes DEF BITS
<1>5. r.name = NULL /\ r.mod = module /\ r.freed = FALSE
  BY DEF Added
<1> HIDE DEF r
<1>6. /\ s \in Type /\ s.name = NULL /\ s.mod = module /\ s.freed = FALSE
      /\ s.parent = BITS
  BY <1>3, <1>4, <1>5 DEF Type, Decl
<1>7. [Append(type, r) EXCEPT ![e].decl = "IMPLICIT", ![e].parent = BITS]
        = Append(type, s)
  <2> DEFINE d == "IMPLICIT"
  <2>1. d \in Decl
    BY DEF Decl
  <2> HIDE DEF d
  <2>2. WithParent(type, r, d, BITS) = Append(type, Child(r, d, BITS))
    BY <1>2, <1>3, <1>4, <2>1, LastDerived
  <2> QED BY <2>2 DEF WithParent, Child, d
<1> HIDE DEF s
<1>8. Listed(Append(type, s), "numbers") = Append(type, q) /\ q \in Type
  BY <1>2, <1>6, ListedLast DEF Lists
<1>9. q.name = NULL /\ q.mod = module /\ q.freed = FALSE /\ q.parent = BITS /\ q.owner = e
  BY <1>6 DEF Type
<1> HIDE DEF q
<1>10. NewOK(type, module, q)
  <2>1. type[BITS].base = "BITS"
    BY <1>4, SharedTypes DEF BITS, Builtins, Builtin, IInv, TableOK, SharedOK
  <2> QED BY <1>2, <1>4, <1>8, <1>9, <2>1, BuiltinLive DEF NewOK
<1>11. as \in Written /\ as.ref = NULL
  BY <1>1, WrittenOK, NotReferable DEF How, Basetype
<1> HIDE DEF as
<1>12. ReadTable(Append(type, q), e, as.ref)
  BY <1>1, <1>9, <1>10, <1>11, NotReferable, SameExtends, AppendExtends DEF ReadTable
<1> QED BY <1>1, <1>2, <1>3, <1>7, <1>8, <1>11, <1>12, NoErrors, ReadSteps

LEMMA SequenceOfRead ==
  ASSUME IInv, NEW n \in Referable, ReadSequenceOf(n) PROVE ReadStep
<1> DEFINE ts == Forward(type, n)
           p  == Referred(type, n)
           e  == Len(ts) + 1
           r  == Added("UNKNOWN", FALSE)
           q  == [r EXCEPT !.decl = "SEQUENCEOF", !.parent = p]
           as == AsWritten("sequenceof", "UNKNOWN", n)
<1>1. /\ st = "body" /\ UNCHANGED errors
      /\ Read([AddType(ts, NULL, "UNKNOWN", FALSE) EXCEPT
                 ![e].decl = "SEQUENCEOF", ![e].parent = p], e, as)
  BY DEF ReadSequenceOf, Reading
<1>2. /\ Extension(ts, n) /\ p \in LiveIn(ts) /\ ts[p].name = n /\ n # NULL
  BY <1>1, ForwardExtends
<1>3. as \in Written /\ as.ref = n
  BY <1>1, WrittenOK DEF How, Basetype, Referable
<1> HIDE DEF as, ts, p
<1>4. ts \in Seq(Type) /\ e \in Nat /\ p \in Nat /\ module \in 1 .. MaxModules
  <2>1. ts \in Seq(Type) /\ module \in 1 .. MaxModules
    BY <1>1, <1>2, StateFacts DEF Extension, TableOK, SharedOK
  <2> QED BY <1>2, <2>1, AppendFacts DEF LiveIn
<1>5. r \in Type /\ AddType(ts, NULL, "UNKNOWN", FALSE) = Append(ts, r)
  BY <1>1, AddedOK DEF Basetype
<1>6. r.name = NULL /\ r.mod = module /\ r.freed = FALSE /\ r.list = "none"
      /\ r.base = "UNKNOWN"
  BY DEF Added
<1> HIDE DEF r
<1>7. /\ q \in Type /\ q.name = NULL /\ q.mod = module /\ q.freed = FALSE
      /\ q.parent = p /\ q.list = "none" /\ q.base = "UNKNOWN"
  BY <1>4, <1>5, <1>6 DEF Type, Decl
<1>8. [Append(ts, r) EXCEPT ![e].decl = "SEQUENCEOF", ![e].parent = p] = Append(ts, q)
  <2> DEFINE d == "SEQUENCEOF"
  <2>1. d \in Decl
    BY DEF Decl
  <2> HIDE DEF d
  <2>2. WithParent(ts, r, d, p) = Append(ts, Child(r, d, p))
    BY <1>4, <1>5, <2>1, LastDerived
  <2> QED BY <2>2 DEF WithParent, Child, d
<1> HIDE DEF q
<1>9. NewOK(ts, module, q)
  BY <1>2, <1>4, <1>7 DEF NewOK
<1>10. ReadTable(Append(ts, q), e, as.ref)
  BY <1>1, <1>2, <1>3, <1>7, <1>9, AppendExtends DEF ReadTable
<1> QED BY <1>1, <1>3, <1>4, <1>5, <1>8, <1>10, NoErrors, ReadSteps

LEMMA SequenceRead ==
  ASSUME IInv, NEW n \in Referable, ReadSequence(n) PROVE ReadStep
<1> DEFINE ts == Forward(type, n)
           e  == Len(ts) + 1
           r  == Added("UNKNOWN", FALSE)
           q  == [r EXCEPT !.list = "columns"]
           as == AsWritten("sequence", "UNKNOWN", n)
<1>1. /\ st = "body" /\ UNCHANGED errors
      /\ Read([AddType(ts, NULL, "UNKNOWN", FALSE) EXCEPT ![e].list = "columns"], e, as)
  BY DEF ReadSequence, Reading
<1>2. Extension(ts, n)
  BY <1>1, ForwardExtends
<1>3. as \in Written /\ as.ref = n
  BY <1>1, WrittenOK DEF How, Basetype, Referable
<1> HIDE DEF as, ts
<1>4. ts \in Seq(Type) /\ e \in Nat /\ module \in 1 .. MaxModules
  <2>1. ts \in Seq(Type) /\ module \in 1 .. MaxModules
    BY <1>1, <1>2, StateFacts DEF Extension, TableOK, SharedOK
  <2> QED BY <2>1, AppendFacts
<1>5. r \in Type /\ AddType(ts, NULL, "UNKNOWN", FALSE) = Append(ts, r)
  BY <1>1, AddedOK DEF Basetype
<1>6. r.name = NULL /\ r.mod = module /\ r.freed = FALSE /\ r.parent = NIL
  BY DEF Added
<1> HIDE DEF r
<1>7. /\ q \in Type /\ q.name = NULL /\ q.mod = module /\ q.freed = FALSE
      /\ q.parent = NIL /\ q.list = "columns"
  BY <1>5, <1>6 DEF Type, Lists
<1>8. [Append(ts, r) EXCEPT ![e].list = "columns"] = Append(ts, q)
  BY <1>4, <1>5, LastListed DEF Lists
<1> HIDE DEF q
<1>9. NewOK(ts, module, q)
  BY <1>4, <1>7 DEF NewOK
<1>10. ReadTable(Append(ts, q), e, as.ref)
  BY <1>1, <1>2, <1>3, <1>7, <1>9, AppendExtends DEF ReadTable
<1> QED BY <1>1, <1>3, <1>4, <1>5, <1>8, <1>10, NoErrors, ReadSteps

LEMMA ApplicationRead ==
  ASSUME IInv, NEW restricted \in BOOLEAN, ReadApplication(restricted)
  PROVE  ReadStep
<1> DEFINE found == FindTypeByName(type, APPLICATION)
           as == [how |-> IF restricted THEN "range" ELSE "name",
                  base |-> "UNKNOWN", ref |-> APPLICATION,
                  mod |-> IF found = NIL THEN module ELSE type[found].mod]
           x  == [kind |-> "unknown", mod |-> module, name |-> APPLICATION,
                  at |-> Len(text) + 1]
<1>1. /\ st = "body"
      /\ IF found # NIL /\ restricted
         THEN Read(Listed(DuplicateType(type, found), "ranges"), Len(type) + 1, as)
         ELSE Read(type, found, as)
      /\ errors' = IF found # NIL THEN errors ELSE errors \cup {x}
  BY DEF ReadApplication, Reading
<1>2. found # NIL => found \in LiveIn(type) /\ type[found].name = APPLICATION
  BY <1>1, StateFacts, Finds DEF FindTypeByName
<1>3. found \in Nat
  BY <1>1, <1>2, StateFacts, AppendFacts DEF LiveIn, NIL
<1> HIDE DEF found
<1>4. as \in Written /\ as.ref = APPLICATION
  <2>1. found # NIL => type[found].mod \in 0 .. MaxModules
    <3>1. found # NIL => type[found] \in Type
      BY <1>1, <1>2, StateFacts DEF LiveIn
    <3> QED BY <3>1 DEF Type
  <2>2. module \in 0 .. MaxModules
    BY <1>1, StateFacts
  <2> QED BY <2>1, <2>2, NotReferable DEF Written, How, Basetype
<1> HIDE DEF as
<1>5. ReadErrors
  <2>1. x \in Error /\ x.mod = module /\ x.kind = "unknown" /\ x.name = APPLICATION
    <3>1. Len(text) + 1 \in Nat
      BY DEF IInv, TypeOK
    <3> QED BY <1>1, <3>1, StateFacts, NotReferable DEF Error
  <2> HIDE DEF x
  <2> QED BY <1>1, <2>1 DEF ReadErrors
<1>6. Extension(type, APPLICATION) /\ APPLICATION # NULL
  BY <1>1, NotReferable, SameExtends, NameAssumption
<1>7. CASE found # NIL /\ restricted
  <2>1. /\ ReadTable(Listed(DuplicateType(type, found), "ranges"), Len(type) + 1,
                     APPLICATION)
        /\ Len(type) + 1 \in Nat
    BY <1>1, <1>2, <1>6, <1>7, ListedRead DEF Lists
  <2> QED BY <1>1, <1>4, <1>5, <1>7, <2>1, ReadSteps
<1>8. CASE ~(found # NIL /\ restricted)
  <2>1. ReadTable(type, found, APPLICATION)
    BY <1>2, <1>6 DEF ReadTable
  <2> QED BY <1>1, <1>3, <1>4, <1>5, <1>8, <2>1, ReadSteps
<1> QED BY <1>7, <1>8

LEMMA ReadStepKeeps == ASSUME IInv, ReadStep PROVE IInv'
<1>1. /\ TypeOK /\ PendingOK /\ objects \subseteq LiveIn(type) /\ module # 0
  BY DEF IInv, ReadStep
<1>2. /\ UNCHANGED <<module, imported, objects, text>> /\ st' = "syntax"
      /\ syntax' \in [type : Nat, as : Written]
      /\ TableOK(type', module) /\ Extends(type')
      /\ ReadErrors
  BY DEF ReadStep, ReadTable, Extension
<1>3. /\ syntax'.type \in LiveIn(type') \cup {NIL}
      /\ syntax'.type # NIL /\ type'[syntax'.type].name = NULL
           => /\ syntax'.type \in DOMAIN type' \ DOMAIN type
              /\ type'[syntax'.type].mod = module
  BY DEF ReadStep, ReadTable, Extension, Created, LiveIn
<1>4. TableOK(type', module')
  BY <1>2
<1>5. objects' \subseteq LiveIn(type')
  BY <1>1, <1>2 DEF Extends, LiveIn
<1>6. LiveIn(type') \subseteq DOMAIN type'
  BY DEF LiveIn
<1>7. TypeOK'
  <2>1. type' \in Seq(Type) /\ \A t \in DOMAIN Builtins : type'[t] = Builtins[t]
    BY <1>2 DEF TableOK, SharedOK, Shared
  <2>2. syntax' \in [type : {NIL} \cup DOMAIN type', as : Written]
    BY <1>2, <1>3, <1>6
  <2>3. errors' \subseteq Error
    BY <1>1, <1>2 DEF TypeOK, ReadErrors
  <2>4. objects' \subseteq DOMAIN type'
    BY <1>5, <1>6
  <2> QED BY <1>1, <1>2, <2>1, <2>2, <2>3, <2>4 DEF TypeOK
<1>8. PendingOK'
  <2>1. objects' \subseteq DOMAIN type
    BY <1>1, <1>2 DEF TypeOK
  <2> QED BY <1>2, <1>3, <2>1 DEF PendingOK
<1> QED BY <1>1, <1>2, <1>3, <1>4, <1>5, <1>7, <1>8 DEF IInv

\* Every rule but those of declarations and modules reads a SYNTAX.
Syntaxes ==
  \/ \E t \in {INTEGER32, OCTETSTRING} : ReadBuiltin(t)
  \/ \E t \in {INTEGER32, OCTETSTRING, ENUM} : ReadRestricted(t)
  \/ ReadBits
  \/ \E n \in Name \ {APPLICATION} :
       \/ ReadName(n)
       \/ \E how \in {"range", "size", "enum"} : ReadSubtype(how, n)
       \/ ReadSequenceOf(n)
       \/ ReadSequence(n)
  \/ \E restricted \in BOOLEAN : ReadApplication(restricted)

LEMMA SyntaxStep == ASSUME IInv, Syntaxes PROVE ReadStep
<1>1. CASE \E n \in Name \ {APPLICATION} :
             \/ ReadName(n)
             \/ \E how \in {"range", "size", "enum"} : ReadSubtype(how, n)
             \/ ReadSequenceOf(n)
             \/ ReadSequence(n)
  BY <1>1, NameRead, SubtypeRead, SequenceOfRead, SequenceRead DEF Referable
<1>2. CASE \/ \E t \in {INTEGER32, OCTETSTRING} : ReadBuiltin(t)
           \/ \E t \in {INTEGER32, OCTETSTRING, ENUM} : ReadRestricted(t)
           \/ ReadBits
           \/ \E restricted \in BOOLEAN : ReadApplication(restricted)
  BY <1>2, BuiltinRead, RestrictedRead, BitsRead, ApplicationRead
<1> QED BY <1>1, <1>2 DEF Syntaxes

-----------------------------------------------------------------------------
(* Declarations                                                            *)

\* The type that gets the name is the pending one, or one derived from it.
Based(new, t) ==
  /\ t \in DOMAIN type => /\ t \in LiveIn(type) /\ new[t].base = type[t].base
                          /\ new[t].parent = type[t].parent
  /\ t \notin DOMAIN type => /\ new[t].parent \in LiveIn(type)
                             /\ new[t].base = type[new[t].parent].base

\* What DeclareType does: t, the pending type or one derived from it, is in the
\* table new without a name, and o is the type that has the name n afterwards.
DeclareStep(n, new, t, o) ==
  /\ st = "syntax" /\ st' = "body" /\ syntax.type # NIL /\ syntax' = NoSyntax
  /\ TableOK(new, module)
  /\ t \in LiveIn(new) /\ new[t].name = NULL
  /\ new[t].mod = module /\ new[t].decl = "DEFINED"
  /\ t \notin objects /\ (t \in DOMAIN type => type[t].name = NULL)
  /\ DOMAIN new = DOMAIN type \cup {t}
  /\ \A x \in DOMAIN type : x # t => new[x] = type[x]
  /\ Based(new, t)
  /\ Renamed(new, type', t, n, o)
  /\ text' = Append(text, [at |-> module, name |-> n, type |-> o, as |-> syntax.as])
  /\ errors' = IF new[t].base # "UNKNOWN" /\ Redefined(type, n)
               THEN errors \cup {[kind |-> "redefinition", mod |-> module,
                                  name |-> n, at |-> Len(text) + 1]}
               ELSE errors
  /\ UNCHANGED <<module, imported, objects>>

LEMMA DeclareSteps ==
  ASSUME IInv, NEW n \in Name, DeclareType(n)
  PROVE  \E new, t, o : DeclareStep(n, new, t, o)
<1> DEFINE s   == syntax.type
           t   == IF Unnamed(s) THEN s ELSE Len(type) + 1
           new == [IF Unnamed(s) THEN type ELSE DuplicateType(type, s)
                   EXCEPT ![t].decl = "DEFINED"]
           o   == SetTypeName(new, t, n).type
<1>1. /\ st = "syntax" /\ st' = "body" /\ s # NIL /\ syntax' = NoSyntax
      /\ type' = SetTypeName(new, t, n).types
      /\ text' = Append(text, [at |-> module, name |-> n, type |-> o, as |-> syntax.as])
      /\ errors' = IF new[t].base # "UNKNOWN" /\ Redefined(type, n)
                   THEN errors \cup {[kind |-> "redefinition", mod |-> module,
                                      name |-> n, at |-> Len(text) + 1]}
                   ELSE errors
      /\ UNCHANGED <<module, imported, objects>>
  BY DEF DeclareType, Declared
<1>2. s \in LiveIn(type) /\ s \in DOMAIN type /\ type \in Seq(Type)
  BY <1>1 DEF IInv, TypeOK, LiveIn
<1>3. TableOK(type, module) /\ module \in 1 .. MaxModules /\ module \in Nat
  BY <1>1, StateFacts
<1>4. /\ TableOK(new, module) /\ t \in LiveIn(new) /\ new[t].name = NULL
      /\ new[t].mod = module /\ new[t].decl = "DEFINED"
      /\ t \notin objects /\ (t \in DOMAIN type => type[t].name = NULL)
      /\ DOMAIN new = DOMAIN type \cup {t}
      /\ \A x \in DOMAIN type : x # t => new[x] = type[x]
      /\ Based(new, t)
  <2>1. CASE Unnamed(s)
    <3> DEFINE r == [type[s] EXCEPT !.decl = "DEFINED"]
               v == [type EXCEPT ![s] = r]
    <3>1. type[s].name = NULL
      BY <2>1 DEF Unnamed
    <3>2. s \notin objects /\ type[s].mod = module
      BY <1>1, <3>1 DEF IInv, PendingOK
    <3>3. type[s] \in Type
      BY <1>2
    <3>4. /\ r \in Type /\ r.name = NULL /\ r.mod = module /\ r.decl = "DEFINED"
          /\ r.base = type[s].base /\ r.parent = type[s].parent
          /\ r.list = type[s].list /\ r.owner = type[s].owner
          /\ r.freed = type[s].freed
      BY <3>1, <3>2, <3>3 DEF Type, Decl
    <3>5. new = v /\ t = s
      BY <2>1
    <3> HIDE DEF r, new, t, o
    <3>6. /\ v \in Seq(Type) /\ DOMAIN v = DOMAIN type /\ v[s] = r
          /\ \A x \in DOMAIN type : x # s => v[x] = type[x]
      BY <1>2, <3>4
    <3> HIDE DEF v, s
    <3>7. LiveIn(v) = LiveIn(type)
      BY <1>2, <3>4, <3>6 DEF LiveIn
    <3>8. \A x \in DOMAIN type :
            /\ v[x].mod = type[x].mod /\ v[x].name = type[x].name
            /\ v[x].parent = type[x].parent /\ v[x].base = type[x].base
            /\ v[x].list = type[x].list /\ v[x].owner = type[x].owner
      BY <3>1, <3>2, <3>4, <3>6
    <3>9. s \notin Shared
      BY <1>3, <3>1, SharedTypes DEF TableOK, SharedOK
    <3>10. SharedOK(v, module)
      BY <1>3, <3>6, <3>8, <3>9 DEF TableOK, SharedOK
    <3>11. LiveIn(type) \subseteq DOMAIN type
      BY DEF LiveIn
    <3>12. ParentsOK(v)
      BY <1>3, <3>7, <3>8, <3>11 DEF TableOK, ParentsOK
    <3>13. OwnersOK(v)
      BY <1>3, <3>7, <3>8, <3>11 DEF TableOK, OwnersOK
    <3>14. UniqueIn(v)
      BY <1>3, <3>7, <3>8, <3>11 DEF TableOK, UniqueIn
    <3>15. TableOK(v, module)
      BY <3>10, <3>12, <3>13, <3>14 DEF TableOK
    <3> QED BY <1>2, <3>1, <3>2, <3>4, <3>5, <3>6, <3>7, <3>15 DEF Based
  <2>2. CASE ~Unnamed(s)
    <3> DEFINE d == Derived(type, s)
               r == [d EXCEPT !.decl = "DEFINED"]
               e == Len(type) + 1
               v == Append(type, r)
    <3>1. type[s].name # NULL
      BY <2>2 DEF Unnamed
    <3>2. /\ DuplicateType(type, s) = Append(type, d) /\ d \in Type
          /\ d.name = NULL /\ d.mod = module /\ NewOK(type, module, r)
      <4> HIDE DEF s
      <4>1. /\ DuplicateType(type, s) = Append(type, d) /\ d.name = NULL
            /\ NewOK(type, module, d) /\ NewOK(type, module, r)
        BY <1>1, <1>2, <1>3, <3>1, DerivedOK
      <4> QED BY <4>1 DEF NewOK
    <3>3. new = WithDecl(type, d, "DEFINED") /\ t = e
      BY <2>2, <3>2 DEF WithDecl
    <3>4. /\ r \in Type /\ r.name = NULL /\ r.mod = module /\ r.decl = "DEFINED"
          /\ r.freed = FALSE
      BY <3>2 DEF Type, NewOK
    <3>9. r.parent = s /\ r.base = type[s].base
      BY DEF Derived
    <3> HIDE DEF d, new, t, o
    <3>5. WithDecl(type, d, "DEFINED") = v
      <4> DEFINE c == "DEFINED"
      <4>1. c \in Decl
        BY DEF Decl
      <4> HIDE DEF c
      <4>2. WithDecl(type, d, c) = Append(type, [d EXCEPT !.decl = c])
        BY <1>2, <3>2, <4>1, LastDerived, 0 \in Nat
      <4> QED BY <4>2 DEF c
    <3> HIDE DEF r
    <3>6. /\ v \in Seq(Type) /\ DOMAIN v = DOMAIN type \cup {e} /\ v[e] = r
          /\ e \notin DOMAIN type /\ \A x \in DOMAIN type : v[x] = type[x]
      BY <1>2, <3>4, AppendFacts
    <3>7. TableOK(v, module)
      BY <1>3, <3>2, Appended
    <3>8. objects \subseteq DOMAIN type
      BY DEF IInv, TypeOK
    <3>10. t = e /\ v[e].parent = s /\ v[e].base = type[s].base
      BY <3>3, <3>6, <3>9
    <3>11. Based(new, t)
      BY <1>2, <3>3, <3>5, <3>6, <3>10 DEF Based
    <3> HIDE DEF v, e, s
    <3> QED BY <3>3, <3>4, <3>5, <3>6, <3>7, <3>8, <3>11 DEF LiveIn
  <2> QED BY <2>1, <2>2
<1>5. new \in Seq(Type)
  BY <1>4 DEF TableOK, SharedOK
<1> HIDE DEF new, t
<1>6. Renamed(new, type', t, n, o)
  BY <1>1, <1>4, <1>5, Renames
<1> HIDE DEF o, s
<1>7. DeclareStep(n, new, t, o)
  BY <1>1, <1>4, <1>6 DEF DeclareStep, s
<1> QED BY <1>7

LEMMA DeclareStepKeeps ==
  ASSUME IInv, NEW n \in Name, NEW new, NEW t, NEW o, DeclareStep(n, new, t, o)
  PROVE  IInv'
<1>1. /\ TypeOK /\ objects \subseteq LiveIn(type) /\ module \in Nat
      /\ module \in 1 .. MaxModules
  BY StateFacts DEF IInv, DeclareStep
<1>2. /\ st' = "body" /\ syntax' = NoSyntax /\ UNCHANGED <<module, imported, objects>>
      /\ text' = Append(text, [at |-> module, name |-> n, type |-> o, as |-> syntax.as])
      /\ TableOK(new, module) /\ t \in LiveIn(new) /\ t \notin objects
      /\ Renamed(new, type', t, n, o)
  BY DEF DeclareStep
<1>3. TableOK(type', module)
  BY <1>1, <1>2, SetTypeNameSound DEF DeclareStep
<1>4. objects' \subseteq LiveIn(type')
  <2>1. objects \subseteq LiveIn(new)
    BY <1>1, <1>2 DEF DeclareStep, LiveIn
  <2> QED BY <1>2, <2>1, RenamedLive
<1>5. NoSyntax.type = NIL /\ NoSyntax.as \in Written
  <2>1. module \in 0 .. MaxModules /\ 0 \in 0 .. MaxModules
    BY <1>1, BoundAssumption
  <2> QED BY <2>1 DEF NoSyntax, Written, How, Basetype
<1>6. TypeOK'
  <2>1. type' \in Seq(Type) /\ \A x \in DOMAIN Builtins : type'[x] = Builtins[x]
    BY <1>3 DEF TableOK, SharedOK, Shared
  <2>2. syntax' \in [type : {NIL} \cup DOMAIN type', as : Written]
    BY <1>2, <1>5 DEF NoSyntax
  <2>3. objects' \subseteq DOMAIN type'
    BY <1>4 DEF LiveIn
  <2>4. o \in Nat
    BY <1>2, AppendFacts DEF Renamed, LiveIn, TableOK, SharedOK
  <2>5. text' \in Seq(Entry)
    <3> DEFINE x == [at |-> module, name |-> n, type |-> o, as |-> syntax.as]
    <3>1. x \in Entry
      BY <1>1, <2>4 DEF Entry, TypeOK
    <3> HIDE DEF x
    <3>2. text \in Seq(Entry)
      BY <1>1 DEF TypeOK
    <3> QED BY <1>2, <3>1, <3>2, AppendFacts DEF x
  <2>6. errors' \subseteq Error
    <3> DEFINE x == [kind |-> "redefinition", mod |-> module, name |-> n,
                     at |-> Len(text) + 1]
    <3>1. Len(text) + 1 \in Nat
      BY <1>1 DEF TypeOK
    <3>2. x \in Error
      BY <1>1, <3>1 DEF Error
    <3>3. errors' \subseteq errors \cup {x}
      BY DEF DeclareStep
    <3> HIDE DEF x
    <3> QED BY <1>1, <3>2, <3>3 DEF TypeOK
  <2> QED BY <1>1, <1>2, <2>1, <2>2, <2>3, <2>5, <2>6 DEF TypeOK
<1>7. PendingOK'
  BY <1>2 DEF PendingOK
<1>8. syntax'.type = NIL /\ module # 0
  BY <1>1, <1>2, <1>5
<1> QED BY <1>2, <1>3, <1>4, <1>6, <1>7, <1>8 DEF IInv

\* An OBJECT-TYPE
LEMMA DeclareObjectKeeps == ASSUME IInv, DeclareObject PROVE IInv'
<1>1. /\ TypeOK /\ TableOK(type, module) /\ objects \subseteq LiveIn(type)
      /\ st = "syntax" /\ st' = "body" /\ syntax.type # NIL /\ syntax' = NoSyntax
      /\ syntax.type \in LiveIn(type)
      /\ objects' = objects \cup {syntax.type}
      /\ text' = Append(text, [at |-> module, name |-> NULL, type |-> syntax.type,
                               as |-> syntax.as])
      /\ UNCHANGED <<module, imported, type, errors>>
  BY DEF IInv, DeclareObject, Declared
<1>2. module \in 1 .. MaxModules
  BY <1>1, StateFacts
<1>3. NoSyntax.type = NIL /\ NoSyntax.as \in Written
  <2>1. module \in 0 .. MaxModules /\ 0 \in 0 .. MaxModules
    BY <1>2, BoundAssumption
  <2> QED BY <2>1 DEF NoSyntax, Written, How, Basetype
<1>4. text' \in Seq(Entry)
  <2> DEFINE x == [at |-> module, name |-> NULL, type |-> syntax.type, as |-> syntax.as]
  <2>1. syntax.type \in Nat
    BY <1>1, AppendFacts DEF LiveIn, TypeOK
  <2>2. x \in Entry
    BY <1>1, <1>2, <2>1 DEF Entry, TypeOK
  <2> HIDE DEF x
  <2>3. text \in Seq(Entry)
    BY <1>1 DEF TypeOK
  <2> QED BY <1>1, <2>2, <2>3, AppendFacts DEF x
<1>5. TypeOK'
  <2>1. syntax' \in [type : {NIL} \cup DOMAIN type', as : Written]
    BY <1>1, <1>3 DEF NoSyntax
  <2>2. objects' \subseteq DOMAIN type'
    BY <1>1 DEF TypeOK, LiveIn
  <2> QED BY <1>1, <1>4, <2>1, <2>2 DEF TypeOK
<1>6. objects' \subseteq LiveIn(type')
  BY <1>1
<1>7. syntax'.type = NIL /\ PendingOK' /\ module # 0
  BY <1>1, <1>2, <1>3 DEF PendingOK
<1> QED BY <1>1, <1>5, <1>6, <1>7 DEF IInv

-----------------------------------------------------------------------------
(* Modules                                                                 *)

LEMMA BeginModuleKeeps ==
  ASSUME IInv, NEW from \in [Name -> 0 .. module], BeginModule(from) PROVE IInv'
<1>1. /\ TypeOK /\ TableOK(type, module) /\ objects \subseteq LiveIn(type)
      /\ syntax.type \in LiveIn(type) \cup {NIL}
      /\ module < MaxModules /\ module' = module + 1 /\ st' = "body"
      /\ imported' = Append(imported, from)
      /\ UNCHANGED <<type, syntax, objects, text, errors>>
  BY DEF IInv, BeginModule
<1>2. module \in Nat /\ module' \in 0 .. MaxModules /\ module' # 0
  BY <1>1, BoundAssumption DEF TypeOK
<1>3. imported' \in Seq([Name -> 0 .. MaxModules]) /\ Len(imported') = module'
  <2>1. from \in [Name -> 0 .. MaxModules]
    BY <1>1, BoundAssumption DEF TypeOK
  <2>2. imported \in Seq([Name -> 0 .. MaxModules]) /\ Len(imported) = module
    BY <1>1 DEF TypeOK
  <2> QED BY <1>1, <2>1, <2>2, AppendFacts
<1>4. TypeOK'
  BY <1>1, <1>2, <1>3 DEF TypeOK
<1>5. TableOK(type', module')
  <2>1. \A k \in 1 .. module : k \in 1 .. module + 1
    BY <1>2
  <2> QED BY <1>1, <2>1 DEF TableOK, SharedOK
<1> QED BY <1>1, <1>2, <1>4, <1>5 DEF IInv, PendingOK

LEMMA EndModuleKeeps == ASSUME IInv, EndModule PROVE IInv'
<1>1. /\ IInv /\ st = "body" /\ st' \in {"between", "hung"}
      /\ UNCHANGED <<module, imported, type, syntax, objects, text>>
  BY DEF EndModule
<1>2. module \in 1 .. MaxModules /\ TableOK(type, module) /\ module \in Nat
  BY <1>1, StateFacts
<1>3. errors' \subseteq Error
  <2> DEFINE M(t) == [kind |-> "unknown", mod |-> module, name |-> type[t].name, at |-> 0]
  <2>1. ASSUME NEW t \in Own, Unknown(t) PROVE M(t) \in Error
    <3>1. t \in DOMAIN type \ Shared /\ type[t].name # NULL
      BY <2>1, <1>2, SharedTypes DEF Own, Unknown, TableOK, SharedOK
    <3>2. type[t].name \in Name
      BY <3>1, <1>2 DEF TableOK, SharedOK
    <3> QED BY <3>2, <1>2 DEF Error
  <2>2. errors' \subseteq errors \cup {M(t) : t \in {u \in Own : Unknown(u)}}
    BY DEF EndModule
  <2> HIDE DEF M
  <2> QED BY <2>1, <2>2 DEF IInv, TypeOK
<1>4. TypeOK'
  BY <1>1, <1>3 DEF IInv, TypeOK
<1> QED BY <1>1, <1>4 DEF IInv, PendingOK

LEMMA CrashKeeps == ASSUME IInv, Crash PROVE IInv'
<1>1. /\ st' = "crashed"
      /\ UNCHANGED <<module, imported, type, syntax, objects, text, errors>>
  BY DEF Crash
<1>2. TypeOK'
  BY <1>1 DEF IInv, TypeOK
<1> QED BY <1>1, <1>2 DEF IInv, PendingOK

LEMMA InitHolds == Init => IInv
<1> SUFFICES ASSUME Init PROVE IInv
  OBVIOUS
<1>1. /\ module = 0 /\ st = "between" /\ imported = <<>> /\ type = Builtins
      /\ syntax = NoSyntax /\ objects = {} /\ text = <<>> /\ errors = {}
  BY DEF Init
<1>2. Builtins \in Seq(Type)
  <2>1. \A b \in Basetype : Builtin(b) \in Type
    BY BoundAssumption DEF Builtin, Type, Lists, Decl, NIL
  <2> HIDE DEF Builtin
  <2> QED BY <2>1 DEF Builtins, Basetype
<1>3. TableOK(type, module)
  <2>1. SharedOK(type, module)
    BY <1>1, <1>2 DEF SharedOK, Shared
  <2>2. ParentsOK(type)
    BY <1>1, SharedTypes DEF ParentsOK, LiveIn, Shared
  <2>3. OwnersOK(type)
    <3>1. \A t \in Shared : Builtins[t].list = "none"
      BY SharedTypes DEF Builtins, Builtin
    <3> QED BY <1>1, <3>1 DEF OwnersOK, LiveIn, Shared
  <2>4. UniqueIn(type)
    BY <1>1 DEF UniqueIn, LiveIn, Shared
  <2> QED BY <2>1, <2>2, <2>3, <2>4 DEF TableOK
<1>4. NoSyntax.type = NIL /\ NoSyntax \in [type : {NIL} \cup DOMAIN type, as : Written]
  <2>1. 0 \in 0 .. MaxModules
    BY BoundAssumption
  <2> QED BY <2>1 DEF NoSyntax, Written, How, Basetype
<1>5. TypeOK
  <2>1. 0 \in 0 .. MaxModules /\ <<>> \in Seq([Name -> 0 .. MaxModules]) /\ Len(<<>>) = 0
        /\ <<>> \in Seq(Entry)
    BY BoundAssumption
  <2> QED BY <1>1, <1>2, <1>4, <2>1 DEF TypeOK
<1> QED BY <1>1, <1>3, <1>4, <1>5 DEF IInv, PendingOK

\* The steps of the parser: a SYNTAX, a declaration, or the start, the end or
\* the crash of a module.
LEMMA Steps ==
  ASSUME IInv, Next
  PROVE  \/ ReadStep
         \/ \E n \in Name : \E new, t, o : DeclareStep(n, new, t, o)
         \/ DeclareObject
         \/ \E from \in [Name -> 0 .. module] : BeginModule(from)
         \/ EndModule
         \/ Crash
<1>1. Next => \/ Syntaxes \/ \E n \in Name : DeclareType(n)
              \/ DeclareObject
              \/ \E from \in [Name -> 0 .. module] : BeginModule(from)
              \/ EndModule \/ Crash
  BY DEF Next, Syntaxes
<1> QED BY <1>1, SyntaxStep, DeclareSteps

LEMMA StepKeeps == IInv /\ [Next]_vars => IInv'
<1>1. ASSUME IInv, Next PROVE IInv'
  BY <1>1, Steps, ReadStepKeeps, DeclareStepKeeps, DeclareObjectKeeps,
     BeginModuleKeeps, EndModuleKeeps, CrashKeeps
<1>2. ASSUME IInv, UNCHANGED vars PROVE IInv'
  BY <1>2 DEF vars, IInv, TypeOK, PendingOK
<1> QED BY <1>1, <1>2

\* What is said of the table is an invariant.
THEOREM Inductive == Spec => []IInv
BY InitHolds, StepKeeps, PTL DEF Spec

\* The table of types is sound after every step, whatever is declared and
\* referred to, in whatever order: no module gets two types of a name, and
\* merging a definition into the type that was referred to before leaves no
\* type, object or pending SYNTAX with a link to the one that is freed.
THEOREM TableAlwaysSound == Spec => []TableSound
<1>1. ASSUME IInv PROVE TableSound
  <2>1. TypeOK /\ TableOK(type, module)
    BY <1>1 DEF IInv
  <2>2. NamesUnique
    BY <2>1 DEF NamesUnique, TableOK, UniqueIn, Live, LiveIn, Shared
  <2>3. LinksLive
    BY <1>1, <2>1 DEF LinksLive, IInv, TableOK, ParentsOK, OwnersOK, Live, LiveIn
  <2> QED BY <2>1, <2>2, <2>3 DEF TableSound
<1> QED BY <1>1, Inductive, PTL
-----------------------------------------------------------------------------
(* What is reported of names                                               *)

Used(m, n) == \E d \in DOMAIN text : text[d].at = m /\ text[d].as.ref = n
Mentioned(m, n) ==
  \/ Used(m, n)
  \/ st \in {"syntax", "crashed"} /\ m = module /\ syntax.as.ref = n
Known(m, n) ==
  \E x \in LiveIn(type) \ Shared : type[x].mod = m /\ type[x].name = n

\* Name n has been referred to in module m and still has to be declared.
Awaited(m, n) == /\ n \in Referable /\ Mentioned(m, n)
                 /\ Declarations(m, n) = {} /\ imported[m][n] = 0

\* A type has a name because its declaration is awaited, or was read.
NamedOK ==
  \A m, n : \A x \in LiveIn(type) \ Shared :
    type[x].mod = m /\ type[x].name = n /\ n # NULL =>
      \/ type[x].incomplete = TRUE /\ type[x].decl = "UNKNOWN" /\ Awaited(m, n)
      \/ type[x].decl # "UNKNOWN" /\ Declarations(m, n) # {}

\* What a module declares, refers to or imports is known.
KnownOK ==
  /\ \A m \in 1 .. module, n \in Name : Declarations(m, n) # {} => Known(m, n)
  /\ \A m \in 1 .. module, n \in Referable :
       Mentioned(m, n) /\ imported[m][n] = 0 => Known(m, n)
  /\ \A k : \A m \in 1 .. module, n \in Name :
       imported[m][n] = k /\ k # 0 => Known(k, n)

Finished(m) == m \in 1 .. module /\ (m = module => st = "between")
Reported(m, n) ==
  \E x \in errors : x.kind = "unknown" /\ x.mod = m /\ x.name = n

ReportsOK ==
  /\ \A d \in DOMAIN text : text[d].at \in 1 .. module
  /\ \A m, n : n \in Referable /\ Reported(m, n) => Finished(m)
  /\ \A m, n : n \in Referable /\ Finished(m) =>
       (Reported(m, n) <=> /\ Used(m, n) /\ Declarations(m, n) = {}
                           /\ imported[m][n] = 0)

NameInv == NamedOK /\ KnownOK /\ ReportsOK /\ RedefinitionsJustified

\* What a declaration adds to the text.
LEMMA TextGrows ==
  ASSUME IInv, st = "syntax", st' = "body", module' = module,
         NEW r \in Entry, r.at = module, r.as = syntax.as, text' = Append(text, r)
  PROVE  /\ \A m, n : Mentioned(m, n)' <=> Mentioned(m, n)
         /\ \A m, n : m # module => (Used(m, n)' <=> Used(m, n))
         /\ \A m, n : ~(m = module /\ n = r.name)
                        => Declarations(m, n)' = Declarations(m, n)
         /\ \A m, n : Declarations(m, n) \subseteq Declarations(m, n)'
         /\ \A m : m = module => Declarations(m, r.name)' # {}
         /\ (\A d \in DOMAIN text : text[d].at \in 1 .. module)
              => \A d \in DOMAIN text' : text'[d].at \in 1 .. module
<1>1. text \in Seq(Entry) /\ module \in 1 .. MaxModules /\ module \in Nat
  BY StateFacts DEF IInv, TypeOK
<1> DEFINE e == Len(text) + 1
<1>2. /\ DOMAIN text' = DOMAIN text \cup {e} /\ text'[e] = r /\ e \notin DOMAIN text
      /\ \A d \in DOMAIN text : text'[d] = text[d]
  BY <1>1, AppendFacts
<1> HIDE DEF e
<1>3. ASSUME NEW m, NEW n
      PROVE  Used(m, n)' <=> Used(m, n) \/ (m = module /\ syntax.as.ref = n)
  BY <1>2 DEF Used
<1>4. ASSUME NEW m, NEW n PROVE Mentioned(m, n)' <=> Mentioned(m, n)
  BY <1>3 DEF Mentioned
<1>5. ASSUME NEW m, NEW n
      PROVE  Declarations(m, n)' = IF m = module /\ n = r.name
                                   THEN Declarations(m, n) \cup {e}
                                   ELSE Declarations(m, n)
  BY <1>2 DEF Declarations
<1>6. (\A d \in DOMAIN text : text[d].at \in 1 .. module)
        => \A d \in DOMAIN text' : text'[d].at \in 1 .. module
  <2>1. r.at \in 1 .. module
    BY <1>1
  <2> QED BY <1>2, <2>1
<1> QED BY <1>3, <1>4, <1>5, <1>6

\* A type that has a name stays known by it.
LEMMA KnownStays ==
  ASSUME \A x \in LiveIn(type) : type[x].name # NULL =>
           /\ x \in LiveIn(type')
           /\ type'[x].name = type[x].name /\ type'[x].mod = type[x].mod,
         NEW m, NEW n \in Name, Known(m, n)
  PROVE  Known(m, n)'
<1>1. PICK x \in LiveIn(type) \ Shared : type[x].mod = m /\ type[x].name = n
  BY DEF Known
<1>2. n # NULL
  BY NameAssumption
<1>3. x \in LiveIn(type') \ Shared /\ type'[x].mod = m /\ type'[x].name = n
  BY <1>1, <1>2
<1>4. Known(m, n)' <=> \E y \in LiveIn(type') \ Shared :
                         type'[y].mod = m /\ type'[y].name = n
  BY DEF Known, LiveIn, Shared
<1> QED BY <1>3, <1>4

\* A type of a module is not one of those that all share.
LEMMA NotShared ==
  ASSUME NEW ts, NEW m, TableOK(ts, m), NEW x \in LiveIn(ts), ts[x].mod # 0
  PROVE  x \notin Shared
BY SharedTypes DEF TableOK, SharedOK

(* A SYNTAX is read. *)

LEMMA ReadMentions ==
  ASSUME ReadStep, NEW m, NEW n
  PROVE  /\ Used(m, n)' <=> Used(m, n)
         /\ Mentioned(m, n) <=> Used(m, n)
         /\ Mentioned(m, n)' <=> Used(m, n) \/ (m = module /\ syntax'.as.ref = n)
         /\ Declarations(m, n)' = Declarations(m, n)
         /\ Finished(m)' <=> Finished(m)
<1>1. /\ text' = text /\ module' = module /\ st = "body" /\ st' = "syntax"
  BY DEF ReadStep
<1>2. (Used(m, n)' <=> Used(m, n)) /\ Declarations(m, n)' = Declarations(m, n)
  BY <1>1 DEF Used, Declarations
<1> QED BY <1>1, <1>2 DEF Mentioned, Finished

\* The types of before are the same.
LEMMA ReadStays ==
  ASSUME ReadStep
  PROVE  /\ \A x \in DOMAIN type : x \in DOMAIN type' /\ type'[x] = type[x]
         /\ \A x \in LiveIn(type) : x \in LiveIn(type') /\ type'[x] = type[x]
BY DEF ReadStep, ReadTable, Extension, Extends, LiveIn

\* A name that is not found is neither declared nor imported.
LEMMA NotFound ==
  ASSUME IInv, NameInv, st = "body", NEW n \in Referable, Lookup(type, n) = NIL
  PROVE  Declarations(module, n) = {} /\ imported[module][n] = 0
<1>1. /\ type \in Seq(Type) /\ TableOK(type, module)
      /\ module \in 1 .. MaxModules /\ module \in 1 .. module
  BY StateFacts
<1>2. n \in Name
  BY DEF Referable
<1>3. ~Known(module, n)
  BY <1>1, LookupFacts DEF Known
<1>4. imported[module][n] = 0
  <2> SUFFICES ASSUME imported[module][n] # 0 PROVE FALSE
    OBVIOUS
  <2>1. Known(Source(n), n)
    BY <1>1, <1>2 DEF NameInv, KnownOK, Source
  <2>2. FindType(type, Source(n), n) # NIL
    BY <1>1, <2>1, Finds DEF Known
  <2>3. Lookup(type, n) # NIL
    BY <2>2 DEF Lookup, Source
  <2> QED BY <2>3
<1> QED BY <1>1, <1>2, <1>3, <1>4 DEF NameInv, KnownOK

LEMMA ReadNames == ASSUME IInv, NameInv, ReadStep PROVE NameInv'
<1>1. /\ st = "body" /\ st' = "syntax" /\ module' = module /\ imported' = imported
      /\ text' = text /\ ReadErrors
      /\ ReadTable(type', syntax'.type, syntax'.as.ref)
  BY DEF ReadStep
<1>2. /\ module \in 1 .. MaxModules /\ module \in 1 .. module /\ module # 0
      /\ TableOK(type, module)
  BY <1>1, StateFacts
<1>3. NamedOK'
  <2> SUFFICES ASSUME NEW m, NEW n, NEW x \in LiveIn(type') \ Shared,
                      type'[x].mod = m, type'[x].name = n, n # NULL
               PROVE  \/ /\ type'[x].incomplete = TRUE /\ type'[x].decl = "UNKNOWN"
                         /\ Awaited(m, n)'
                      \/ type'[x].decl # "UNKNOWN" /\ Declarations(m, n)' # {}
    BY DEF NamedOK, LiveIn, Shared
  <2>1. CASE x \in DOMAIN type
    <3>1. x \in LiveIn(type) \ Shared /\ type'[x] = type[x]
      BY <2>1, ReadStays DEF LiveIn
    <3>2. \/ /\ type[x].incomplete = TRUE /\ type[x].decl = "UNKNOWN" /\ Awaited(m, n)
          \/ type[x].decl # "UNKNOWN" /\ Declarations(m, n) # {}
      BY <3>1 DEF NameInv, NamedOK
    <3>3. Awaited(m, n) => Awaited(m, n)'
      <4>1. Declarations(m, n)' = Declarations(m, n) /\ (Mentioned(m, n) => Mentioned(m, n)')
        BY ReadMentions
      <4> QED BY <1>1, <4>1 DEF Awaited, Referable
    <3>4. Declarations(m, n)' = Declarations(m, n)
      BY ReadMentions
    <3> QED BY <3>1, <3>2, <3>3, <3>4
  <2>2. CASE x \notin DOMAIN type
    <3>1. /\ m = module /\ n \in Referable /\ Lookup(type, n) = NIL
          /\ n = syntax'.as.ref
          /\ type'[x].incomplete = TRUE /\ type'[x].decl = "UNKNOWN"
      BY <1>1, <2>2 DEF ReadTable, Extension, Created, LiveIn
    <3>2. Declarations(m, n) = {} /\ imported[m][n] = 0
      BY <1>1, <3>1, NotFound
    <3>3. Awaited(m, n)'
      <4>1. Mentioned(m, n)' /\ Declarations(m, n)' = {}
        BY <3>1, <3>2, ReadMentions
      <4> QED BY <1>1, <3>1, <3>2, <4>1 DEF Awaited, Referable
    <3> QED BY <3>1, <3>3
  <2> QED BY <2>1, <2>2
<1>4. \A m, n : n \in Name /\ Known(m, n) => Known(m, n)'
  BY ReadStays, KnownStays
<1>5. KnownOK'
  <2>1. ASSUME NEW m \in 1 .. module, NEW n \in Name, Declarations(m, n)' # {}
        PROVE  Known(m, n)'
    BY <1>4, <2>1, ReadMentions DEF NameInv, KnownOK
  <2>2. ASSUME NEW m \in 1 .. module, NEW n \in Referable, Mentioned(m, n)',
               imported'[m][n] = 0
        PROVE  Known(m, n)'
    <3>1. CASE Used(m, n)
      BY <1>1, <1>4, <2>2, <3>1, ReadMentions DEF NameInv, KnownOK, Referable
    <3>2. CASE m = module /\ n = syntax'.as.ref
      <4>1. PICK x \in LiveIn(type') : type'[x].name = n /\ type'[x].mod = module
        BY <1>1, <2>2, <3>2 DEF ReadTable, Extension, Resolved, Source
      <4>2. x \notin Shared
        BY <1>1, <1>2, <4>1, NotShared DEF ReadTable, Extension
      <4> QED BY <3>2, <4>1, <4>2 DEF Known, LiveIn, Shared
    <3> QED BY <2>2, <3>1, <3>2, ReadMentions
  <2>3. ASSUME NEW k, NEW m \in 1 .. module, NEW n \in Name, imported'[m][n] = k, k # 0
        PROVE  Known(k, n)'
    BY <1>1, <1>4, <2>3 DEF NameInv, KnownOK
  <2> QED BY <1>1, <2>1, <2>2, <2>3 DEF KnownOK, Referable
<1>6. ReportsOK'
  <2>1. ASSUME NEW m, NEW n \in Referable PROVE Reported(m, n)' <=> Reported(m, n)
    BY <1>1 DEF Reported, ReadErrors, Referable
  <2>2. \A m, n : /\ (Finished(m)' <=> Finished(m)) /\ (Used(m, n)' <=> Used(m, n))
                  /\ Declarations(m, n)' = Declarations(m, n)
    BY ReadMentions
  <2> QED BY <1>1, <2>1, <2>2 DEF NameInv, ReportsOK, Referable
<1>7. RedefinitionsJustified'
  BY <1>1 DEF NameInv, RedefinitionsJustified, ReadErrors, Declarations
<1> QED BY <1>3, <1>5, <1>6, <1>7 DEF NameInv

(* A declaration is read. *)

\* What holds after a declaration, of a name or of an object, if the types that
\* have a name keep it.
LEMMA DeclaredReports ==
  ASSUME IInv, NameInv, st = "syntax", st' = "body", module' = module,
         imported' = imported, NEW r \in Entry, r.at = module, r.as = syntax.as,
         text' = Append(text, r),
         \A m, n : n \in Referable => (Reported(m, n)' <=> Reported(m, n))
  PROVE  ReportsOK'
<1>1. ASSUME NEW m, NEW n
      PROVE  /\ Finished(m)' <=> Finished(m)
             /\ Finished(m) => /\ Used(m, n)' <=> Used(m, n)
                               /\ Declarations(m, n)' = Declarations(m, n)
  <2>1. (Finished(m)' <=> Finished(m)) /\ (Finished(m) => m # module)
    BY DEF Finished
  <2> QED BY <2>1, TextGrows
<1>2. \A d \in DOMAIN text' : text'[d].at \in 1 .. module
  BY TextGrows DEF NameInv, ReportsOK
<1> QED BY <1>1, <1>2 DEF NameInv, ReportsOK, Referable

\* A redefinition stays justified when the text grows.
LEMMA StayJustified ==
  ASSUME NameInv, NEW x \in errors, x.kind = "redefinition",
         \A m, n : Declarations(m, n) \subseteq Declarations(m, n)'
  PROVE  \E d \in Declarations(x.mod, x.name)' : d < x.at
<1>1. \A m, n : x.mod = m /\ x.name = n => \E d \in Declarations(m, n)' : d < x.at
  BY DEF NameInv, RedefinitionsJustified
<1> QED BY <1>1

LEMMA DeclareNames ==
  ASSUME IInv, NameInv, NEW n \in Name, NEW new, NEW t, NEW o,
         DeclareStep(n, new, t, o)
  PROVE  NameInv'
<1>1. /\ st = "syntax" /\ st' = "body" /\ module' = module /\ imported' = imported
      /\ Renamed(new, type', t, n, o)
      /\ t \in LiveIn(new) /\ new[t].mod = module /\ new[t].decl = "DEFINED"
      /\ DOMAIN new = DOMAIN type \cup {t}
      /\ t \in DOMAIN type => type[t].name = NULL
      /\ \A x \in DOMAIN type : x # t => new[x] = type[x]
  BY DEF DeclareStep
<1>2. /\ module \in 1 .. MaxModules /\ module \in 1 .. module /\ module # 0
      /\ module \in Nat /\ TableOK(type, module) /\ TypeOK
  BY <1>1, StateFacts DEF IInv
<1>3. PICK r \in Entry : /\ r.at = module /\ r.as = syntax.as /\ r.name = n
                         /\ text' = Append(text, r)
  <2>1. o \in Nat
    BY <1>1, AppendFacts DEF Renamed, LiveIn, DeclareStep, TableOK, SharedOK
  <2>2. [at |-> module, name |-> n, type |-> o, as |-> syntax.as] \in Entry
    BY <1>2, <2>1 DEF Entry, TypeOK
  <2> QED BY <2>2 DEF DeclareStep
<1>4. PICK y : /\ y.kind = "redefinition" /\ y.mod = module /\ y.name = n
               /\ y.at = Len(text) + 1
               /\ errors' = IF new[t].base # "UNKNOWN" /\ Redefined(type, n)
                            THEN errors \cup {y} ELSE errors
  <2>1. PICK y : /\ y = [kind |-> "redefinition", mod |-> module, name |-> n,
                         at |-> Len(text) + 1]
                 /\ errors' = IF new[t].base # "UNKNOWN" /\ Redefined(type, n)
                              THEN errors \cup {y} ELSE errors
    BY DEF DeclareStep
  <2>2. /\ y.kind = "redefinition" /\ y.mod = module /\ y.name = n
        /\ y.at = Len(text) + 1
    BY <2>1
  <2>3. errors' = IF new[t].base # "UNKNOWN" /\ Redefined(type, n)
                  THEN errors \cup {y} ELSE errors
    BY <2>1
  <2> QED BY <2>2, <2>3
<1>5. /\ \A m, k : Mentioned(m, k)' <=> Mentioned(m, k)
      /\ \A m, k : ~(m = module /\ k = n)
                     => Declarations(m, k)' = Declarations(m, k)
      /\ \A m, k : Declarations(m, k) \subseteq Declarations(m, k)'
      /\ \A m : m = module => Declarations(m, n)' # {}
  BY <1>1, <1>3, TextGrows
<1>6. /\ o \in LiveIn(type') /\ type'[o].name = n /\ type'[o].mod = module
      /\ type'[o].decl = "DEFINED"
      /\ \A x \in LiveIn(type') :
           x # o => x \in LiveIn(type) /\ type'[x] = type[x]
  <2>1. o \in LiveIn(type') /\ \A x \in LiveIn(type') : x # o => type'[x] = new[x] /\ x # t
    BY <1>1, RenamedLive
  <2>2. DOMAIN type' = DOMAIN new
    BY <1>1 DEF Renamed
  <2>3. ASSUME NEW x \in LiveIn(type'), x # o
        PROVE  x \in LiveIn(type) /\ type'[x] = type[x]
    BY <1>1, <2>1, <2>2, <2>3 DEF LiveIn
  <2> QED BY <1>1, <2>1, <2>3 DEF Renamed
<1>7. ASSUME NEW x \in LiveIn(type), type[x].name # NULL
      PROVE  /\ x \in LiveIn(type')
             /\ type'[x].name = type[x].name /\ type'[x].mod = type[x].mod
  <2>1. x # t /\ x \in LiveIn(new) /\ new[x] = type[x]
    BY <1>1, <1>7 DEF LiveIn
  <2>2. x \in LiveIn(type')
    BY <1>1, <2>1, RenamedLive
  <2>3. CASE x = o
    <3>1. new[o].name = n /\ new[o].mod = module
      BY <1>1, <2>1, <2>3 DEF Renamed
    <3> QED BY <1>6, <2>1, <2>3, <3>1
  <2>4. CASE x # o
    BY <1>6, <2>2, <2>4
  <2> QED BY <2>2, <2>3, <2>4
<1>8. \A m, k : k \in Name /\ Known(m, k) => Known(m, k)'
  BY <1>7, KnownStays
<1>9. NamedOK'
  <2> SUFFICES ASSUME NEW m, NEW k, NEW x \in LiveIn(type') \ Shared,
                      type'[x].mod = m, type'[x].name = k, k # NULL
               PROVE  \/ /\ type'[x].incomplete = TRUE /\ type'[x].decl = "UNKNOWN"
                         /\ Awaited(m, k)'
                      \/ type'[x].decl # "UNKNOWN" /\ Declarations(m, k)' # {}
    BY DEF NamedOK, LiveIn, Shared
  <2>1. CASE x = o
    BY <1>5, <1>6, <2>1
  <2>2. CASE x # o
    <3>1. x \in LiveIn(type) \ Shared /\ type'[x] = type[x]
      BY <1>6, <2>2
    <3>2. ~(m = module /\ k = n)
      <4>1. TableOK(type', module)
        BY <1>1, <1>2, SetTypeNameSound DEF DeclareStep
      <4>2. o \notin Shared
        BY <1>2, <1>6, <4>1, NotShared
      <4> QED BY <1>6, <2>2, <4>1, <4>2 DEF TableOK, UniqueIn
    <3>3. Declarations(m, k)' = Declarations(m, k) /\ (Mentioned(m, k)' <=> Mentioned(m, k))
      BY <1>5, <3>2
    <3>4. \/ /\ type[x].incomplete = TRUE /\ type[x].decl = "UNKNOWN" /\ Awaited(m, k)
          \/ type[x].decl # "UNKNOWN" /\ Declarations(m, k) # {}
      BY <3>1 DEF NameInv, NamedOK
    <3>5. Awaited(m, k) => Awaited(m, k)'
      BY <1>1, <3>3 DEF Awaited, Referable
    <3> QED BY <3>1, <3>3, <3>4, <3>5
  <2> QED BY <2>1, <2>2
<1>10. KnownOK'
  <2>1. ASSUME NEW m \in 1 .. module, NEW k \in Name, Declarations(m, k)' # {}
        PROVE  Known(m, k)'
    <3>1. CASE m = module /\ k = n
      <4>1. o \notin Shared
        <5>1. TableOK(type', module)
          BY <1>1, <1>2, SetTypeNameSound DEF DeclareStep
        <5> QED BY <1>2, <1>6, <5>1, NotShared
      <4> QED BY <1>6, <3>1, <4>1 DEF Known, LiveIn, Shared
    <3>2. CASE ~(m = module /\ k = n)
      BY <1>5, <1>8, <2>1, <3>2 DEF NameInv, KnownOK
    <3> QED BY <3>1, <3>2
  <2>2. ASSUME NEW m \in 1 .. module, NEW k \in Referable, Mentioned(m, k)',
               imported'[m][k] = 0
        PROVE  Known(m, k)'
    BY <1>1, <1>5, <1>8, <2>2 DEF NameInv, KnownOK, Referable
  <2>3. ASSUME NEW j, NEW m \in 1 .. module, NEW k \in Name, imported'[m][k] = j, j # 0
        PROVE  Known(j, k)'
    BY <1>1, <1>8, <2>3 DEF NameInv, KnownOK
  <2> QED BY <1>1, <2>1, <2>2, <2>3 DEF KnownOK, Referable
<1>11. ReportsOK'
  <2>1. \A m, k : Reported(m, k)' <=> Reported(m, k)
    BY <1>1, <1>4 DEF Reported
  <2> QED BY <1>1, <1>3, <2>1, DeclaredReports
<1>12. RedefinitionsJustified'
  <2> SUFFICES ASSUME NEW x \in errors', x.kind = "redefinition"
               PROVE  \E d \in Declarations(x.mod, x.name)' : d < x.at
    BY DEF RedefinitionsJustified, Declarations
  <2>1. CASE x \in errors
    BY <1>5, <2>1, StayJustified
  <2>2. CASE x \notin errors
    <3>1. x = y /\ Redefined(type, n)
      BY <1>4, <2>2
    <3>2. Declarations(module, n) # {}
      <4> DEFINE f == FindType(type, module, n)
      <4>1. f # NIL /\ type[f].incomplete # TRUE
        BY <3>1 DEF Redefined
      <4>2. f \in LiveIn(type) /\ type[f].mod = module /\ type[f].name = n
        BY <1>2, <4>1, Finds DEF TypeOK
      <4> HIDE DEF f
      <4>3. f \notin Shared /\ n # NULL
        BY <1>2, <4>2, NotShared, NameAssumption
      <4> QED BY <4>1, <4>2, <4>3 DEF NameInv, NamedOK
    <3>3. \A d \in Declarations(module, n) : d < Len(text) + 1
      <4>1. text \in Seq(Entry)
        BY <1>2 DEF TypeOK
      <4>2. DOMAIN text = 1 .. Len(text) /\ Len(text) \in Nat
        BY <4>1, AppendFacts
      <4> QED BY <4>2 DEF Declarations
    <3>4. \A m, k : x.mod = m /\ x.name = k => \E d \in Declarations(m, k)' : d < x.at
      BY <1>4, <1>5, <3>1, <3>2, <3>3
    <3> QED BY <3>4
  <2> QED BY <2>1, <2>2
<1> QED BY <1>9, <1>10, <1>11, <1>12 DEF NameInv

LEMMA DeclareObjectNames == ASSUME IInv, NameInv, DeclareObject PROVE NameInv'
<1>1. /\ st = "syntax" /\ st' = "body" /\ UNCHANGED <<module, imported, type, errors>>
      /\ syntax.type \in Nat
      /\ text' = Append(text, [at |-> module, name |-> NULL, type |-> syntax.type,
                               as |-> syntax.as])
  BY AppendFacts DEF DeclareObject, Declared, IInv, LiveIn, TableOK, SharedOK
<1>2. PICK r \in Entry : /\ r.at = module /\ r.as = syntax.as /\ r.name = NULL
                         /\ text' = Append(text, r)
  <2>1. module \in 1 .. MaxModules /\ syntax.as \in Written
    BY <1>1, StateFacts DEF IInv, TypeOK
  <2>2. [at |-> module, name |-> NULL, type |-> syntax.type, as |-> syntax.as] \in Entry
    BY <1>1, <2>1 DEF Entry
  <2> QED BY <1>1, <2>2
<1>3. /\ \A m, n : Mentioned(m, n)' <=> Mentioned(m, n)
      /\ \A m, n : n # NULL => Declarations(m, n)' = Declarations(m, n)
      /\ \A m, n : Declarations(m, n) \subseteq Declarations(m, n)'
  BY <1>1, <1>2, TextGrows
<1>4. \A m, n : Known(m, n)' <=> Known(m, n)
  BY <1>1 DEF Known, LiveIn, Shared
<1>5. NULL \notin Name
  BY NameAssumption
<1>6. NamedOK'
  <2>1. \A m, n : n # NULL /\ Awaited(m, n) => Awaited(m, n)'
    BY <1>1, <1>3 DEF Awaited, Referable
  <2> QED BY <1>1, <1>3, <2>1 DEF NameInv, NamedOK, LiveIn, Shared
<1>7. KnownOK'
  BY <1>1, <1>3, <1>4, <1>5 DEF NameInv, KnownOK, Referable
<1>8. ReportsOK'
  <2>1. \A m, n : Reported(m, n)' <=> Reported(m, n)
    BY <1>1 DEF Reported
  <2> QED BY <1>1, <1>2, <2>1, DeclaredReports
<1>9. RedefinitionsJustified'
  BY <1>1, <1>3, StayJustified DEF RedefinitionsJustified, Declarations
<1> QED BY <1>6, <1>7, <1>8, <1>9 DEF NameInv
-----------------------------------------------------------------------------
(* A module begins or ends. *)

\* What is said of the text if it does not grow.
LEMMA SameText ==
  ASSUME UNCHANGED <<type, syntax, text>>
  PROVE  /\ \A m, n : Used(m, n)' <=> Used(m, n)
         /\ \A m, n : Declarations(m, n)' = Declarations(m, n)
         /\ \A m, n : Known(m, n)' <=> Known(m, n)
BY DEF Used, Declarations, Known, LiveIn, Shared

LEMMA BeginModuleNames ==
  ASSUME IInv, NameInv, NEW from \in [Name -> 0 .. module], BeginModule(from)
  PROVE  NameInv'
<1>1. /\ st = "between" /\ st' = "body" /\ module' = module + 1
      /\ imported' = Append(imported, from)
      /\ \A n \in Name : from[n] # 0 => FindType(type, from[n], n) # NIL
      /\ UNCHANGED <<type, syntax, objects, text, errors>>
  BY DEF BeginModule
<1>2. /\ module \in Nat /\ TableOK(type, module) /\ type \in Seq(Type)
      /\ imported \in Seq([Name -> 0 .. MaxModules]) /\ Len(imported) = module
  BY DEF IInv, TypeOK
<1>3. /\ \A m \in 1 .. module : m \in 1 .. module' /\ m # module'
                                /\ imported'[m] = imported[m]
      /\ \A m \in 1 .. module' : m = module' \/ m \in 1 .. module
      /\ imported'[module'] = from /\ module' \notin 1 .. module
  <2>1. from \in [Name -> 0 .. MaxModules]
    BY <1>1, BoundAssumption DEF BeginModule, IInv, TypeOK
  <2>2. /\ DOMAIN imported = 1 .. module
        /\ \A m \in DOMAIN imported : imported'[m] = imported[m]
        /\ imported'[module + 1] = from
    BY <1>1, <1>2, <2>1, AppendFacts
  <2> QED BY <1>1, <1>2, <2>2
<1>4. /\ \A m, n : Used(m, n)' <=> Used(m, n)
      /\ \A m, n : Declarations(m, n)' = Declarations(m, n)
      /\ \A m, n : Known(m, n)' <=> Known(m, n)
  BY <1>1, SameText
<1>5. \A m, n : /\ Mentioned(m, n)' <=> Used(m, n)
                /\ Mentioned(m, n) <=> Used(m, n)
  BY <1>1, <1>4 DEF Mentioned
<1>6. \A m, n : m = module' => ~Used(m, n) /\ Declarations(m, n) = {}
  <2>1. \A d \in DOMAIN text : text[d].at # module'
    BY <1>3 DEF NameInv, ReportsOK
  <2> QED BY <2>1 DEF Used, Declarations
<1>7. NamedOK'
  <2>1. ASSUME NEW x \in LiveIn(type) \ Shared PROVE type[x].mod \in 1 .. module
    BY <1>2 DEF TableOK, SharedOK, LiveIn
  <2>2. \A m \in 1 .. module : \A n : Awaited(m, n) => Awaited(m, n)'
    BY <1>3, <1>4, <1>5 DEF Awaited, Referable
  <2> QED BY <1>1, <1>4, <2>1, <2>2 DEF NameInv, NamedOK, LiveIn, Shared
<1>8. KnownOK'
  <2>1. ASSUME NEW m \in 1 .. module', NEW n \in Name, Declarations(m, n)' # {}
        PROVE  Known(m, n)'
    BY <1>3, <1>4, <1>6, <2>1 DEF NameInv, KnownOK
  <2>2. ASSUME NEW m \in 1 .. module', NEW n \in Referable, Mentioned(m, n)',
               imported'[m][n] = 0
        PROVE  Known(m, n)'
    BY <1>3, <1>4, <1>5, <1>6, <2>2 DEF NameInv, KnownOK
  <2>3. ASSUME NEW k, NEW m \in 1 .. module', NEW n \in Name, imported'[m][n] = k, k # 0
        PROVE  Known(k, n)'
    <3>1. CASE m = module'
      <4>1. from[n] = k /\ FindType(type, k, n) # NIL
        BY <1>1, <1>3, <2>3, <3>1
      <4>2. PICK x \in LiveIn(type) : type[x].mod = k /\ type[x].name = n
        BY <1>2, <4>1, Finds
      <4>3. x \notin Shared
        BY <1>2, <2>3, <4>2, NotShared
      <4> QED BY <1>4, <4>2, <4>3 DEF Known
    <3>2. CASE m # module'
      BY <1>3, <1>4, <2>3, <3>2 DEF NameInv, KnownOK
    <3> QED BY <3>1, <3>2
  <2> QED BY <2>1, <2>2, <2>3 DEF KnownOK, Referable
<1>9. ReportsOK'
  <2>1. ASSUME NEW m PROVE Finished(m)' <=> Finished(m)
    BY <1>1, <1>3 DEF Finished
  <2>2. \A m, n : Reported(m, n)' <=> Reported(m, n)
    BY <1>1 DEF Reported
  <2>3. \A m : Finished(m) => imported'[m] = imported[m]
    BY <1>3 DEF Finished
  <2>4. \A d \in DOMAIN text' : text'[d].at \in 1 .. module'
    BY <1>1, <1>3 DEF NameInv, ReportsOK
  <2> QED BY <1>4, <2>1, <2>2, <2>3, <2>4 DEF NameInv, ReportsOK, Referable
<1>10. RedefinitionsJustified'
  BY <1>1 DEF NameInv, RedefinitionsJustified, Declarations
<1> QED BY <1>7, <1>8, <1>9, <1>10 DEF NameInv

\* What the check of a module reports: the names that are awaited in it.
LEMMA EndReports ==
  ASSUME IInv, NameInv, st = "body", NEW n \in Referable
  PROVE  (\E t \in Own : Unknown(t) /\ type[t].name = n)
           <=> Used(module, n) /\ Declarations(module, n) = {}
               /\ imported[module][n] = 0
<1>1. /\ module \in 1 .. module /\ module # 0 /\ module \in Nat
      /\ TableOK(type, module) /\ n \in Name /\ n # NULL
  BY StateFacts, NameAssumption DEF Referable
<1>2. Mentioned(module, n) <=> Used(module, n)
  BY DEF Mentioned
<1>3. ASSUME NEW t \in Own, Unknown(t), type[t].name = n
      PROVE  Used(module, n) /\ Declarations(module, n) = {}
             /\ imported[module][n] = 0
  <2>1. t \in LiveIn(type) /\ type[t].mod = module /\ type[t].decl = "UNKNOWN"
    BY <1>3 DEF Own, LiveIn, Unknown
  <2>2. t \notin Shared
    BY <1>1, <2>1, NotShared
  <2>3. Awaited(module, n)
    BY <1>1, <1>3, <2>1, <2>2 DEF NameInv, NamedOK
  <2> QED BY <1>2, <2>3 DEF Awaited
<1>4. ASSUME Used(module, n), Declarations(module, n) = {}, imported[module][n] = 0
      PROVE  \E t \in Own : Unknown(t) /\ type[t].name = n
  <2>1. PICK t \in LiveIn(type) \ Shared : type[t].mod = module /\ type[t].name = n
    BY <1>1, <1>2, <1>4 DEF NameInv, KnownOK, Known
  <2>2. type[t].incomplete = TRUE /\ type[t].decl = "UNKNOWN"
    BY <1>1, <1>4, <2>1 DEF NameInv, NamedOK
  <2>3. t \in Own /\ Unknown(t)
    BY <1>1, <2>1, <2>2 DEF Own, Unknown, LiveIn
  <2> QED BY <2>1, <2>3
<1> QED BY <1>3, <1>4

LEMMA EndModuleNames == ASSUME IInv, NameInv, EndModule PROVE NameInv'
<1>1. /\ st = "body" /\ st' \in {"between", "hung"}
      /\ st' = "hung" => errors' = errors
      /\ st' = "between" =>
           errors' = errors \cup {[kind |-> "unknown", mod |-> module,
                                   name |-> type[t].name, at |-> 0] :
                                    t \in {u \in Own : Unknown(u)}}
      /\ UNCHANGED <<module, imported, type, syntax, objects, text>>
  BY DEF EndModule
<1>2. module \in 1 .. module
  BY <1>1, StateFacts
<1>3. /\ \A m, n : Used(m, n)' <=> Used(m, n)
      /\ \A m, n : Declarations(m, n)' = Declarations(m, n)
      /\ \A m, n : Known(m, n)' <=> Known(m, n)
  BY <1>1, SameText
<1>4. \A m, n : Mentioned(m, n)' <=> Mentioned(m, n)
  BY <1>1, <1>3 DEF Mentioned
<1>5. NamedOK'
  <2>1. \A m, n : Awaited(m, n) => Awaited(m, n)'
    BY <1>1, <1>3, <1>4 DEF Awaited, Referable
  <2> QED BY <1>1, <1>3, <2>1 DEF NameInv, NamedOK, LiveIn, Shared
<1>6. KnownOK'
  BY <1>1, <1>3, <1>4 DEF NameInv, KnownOK, Referable
<1>7. ASSUME NEW m, NEW n
      PROVE  Reported(m, n)' <=>
               \/ Reported(m, n)
               \/ /\ st' = "between" /\ m = module
                  /\ \E t \in Own : Unknown(t) /\ type[t].name = n
  <2>1. CASE st' = "hung"
    BY <1>1, <2>1 DEF Reported
  <2>2. CASE st' = "between"
    <3> DEFINE E(t) == [kind |-> "unknown", mod |-> module, name |-> type[t].name,
                        at |-> 0]
    <3>1. /\ errors' = errors \cup {E(t) : t \in {u \in Own : Unknown(u)}}
          /\ \A t : E(t).kind = "unknown" /\ E(t).mod = module
                    /\ E(t).name = type[t].name
      BY <1>1, <2>2
    <3> HIDE DEF E
    <3> QED BY <2>2, <3>1 DEF Reported
  <2> QED BY <1>1, <2>1, <2>2
<1>8. ReportsOK'
  <2>1. ASSUME NEW m, NEW n \in Referable, Finished(m)'
        PROVE  Reported(m, n)' <=> /\ Used(m, n) /\ Declarations(m, n) = {}
                                   /\ imported[m][n] = 0
    <3>1. CASE m = module
      <4>1. st' = "between" /\ ~Finished(m)
        BY <1>1, <2>1, <3>1 DEF Finished
      <4>2. ~Reported(m, n)
        BY <4>1 DEF NameInv, ReportsOK
      <4> QED BY <1>1, <1>7, <3>1, <4>1, <4>2, EndReports
    <3>2. CASE m # module
      <4>1. Finished(m)
        BY <1>1, <2>1, <3>2 DEF Finished
      <4> QED BY <1>7, <3>2, <4>1 DEF NameInv, ReportsOK
    <3> QED BY <3>1, <3>2
  <2>2. ASSUME NEW m, NEW n \in Referable, Reported(m, n)' PROVE Finished(m)'
    <3>1. CASE m = module /\ st' = "between"
      BY <1>1, <1>2, <3>1 DEF Finished
    <3>2. CASE ~(m = module /\ st' = "between")
      <4>1. Finished(m) /\ m # module
        BY <1>1, <1>7, <2>2, <3>2 DEF NameInv, ReportsOK, Finished
      <4> QED BY <1>1, <4>1 DEF Finished
    <3> QED BY <3>1, <3>2
  <2>3. \A d \in DOMAIN text' : text'[d].at \in 1 .. module'
    BY <1>1 DEF NameInv, ReportsOK
  <2> QED BY <1>1, <1>3, <2>1, <2>2, <2>3 DEF ReportsOK, Referable
<1>9. RedefinitionsJustified'
  <2> SUFFICES ASSUME NEW x \in errors', x.kind = "redefinition"
               PROVE  \E d \in Declarations(x.mod, x.name)' : d < x.at
    BY DEF RedefinitionsJustified, Declarations
  <2>1. x \in errors
    BY <1>1
  <2> QED BY <1>3, <2>1, StayJustified
<1> QED BY <1>5, <1>6, <1>8, <1>9 DEF NameInv

\* A crash changes nothing of this, and neither does a stutter.
LEMMA QuietNames ==
  ASSUME NameInv, st' = st \/ (st = "syntax" /\ st' = "crashed"),
         UNCHANGED <<module, imported, type, syntax, objects, text, errors>>
  PROVE  NameInv'
<1>1. /\ st' = st \/ (st = "syntax" /\ st' = "crashed")
      /\ UNCHANGED <<module, imported, type, syntax, objects, text, errors>>
  OBVIOUS
<1>2. /\ \A m, n : Used(m, n)' <=> Used(m, n)
      /\ \A m, n : Declarations(m, n)' = Declarations(m, n)
      /\ \A m, n : Known(m, n)' <=> Known(m, n)
  BY <1>1, SameText
<1>3. /\ \A m, n : Mentioned(m, n)' <=> Mentioned(m, n)
      /\ \A m, n : Reported(m, n)' <=> Reported(m, n)
      /\ \A m : Finished(m)' <=> Finished(m)
  BY <1>1, <1>2 DEF Mentioned, Reported, Finished
<1>4. NamedOK'
  <2>1. \A m, n : Awaited(m, n) => Awaited(m, n)'
    BY <1>1, <1>2, <1>3 DEF Awaited, Referable
  <2> QED BY <1>1, <1>2, <2>1 DEF NameInv, NamedOK, LiveIn, Shared
<1>5. KnownOK'
  BY <1>1, <1>2, <1>3 DEF NameInv, KnownOK, Referable
<1>6. ReportsOK'
  BY <1>1, <1>2, <1>3 DEF NameInv, ReportsOK, Referable
<1>7. RedefinitionsJustified'
  BY <1>1 DEF NameInv, RedefinitionsJustified, Declarations
<1> QED BY <1>4, <1>5, <1>6, <1>7 DEF NameInv

LEMMA NamesInit == Init => NameInv
<1> SUFFICES ASSUME Init PROVE NameInv
  OBVIOUS
<1>1. /\ module = 0 /\ st = "between" /\ type = Builtins /\ text = <<>> /\ errors = {}
  BY DEF Init
<1>2. LiveIn(type) \ Shared = {}
  BY <1>1 DEF LiveIn, Shared
<1>3. DOMAIN text = {} /\ 1 .. module = {}
  BY <1>1
<1> QED BY <1>1, <1>2, <1>3
    DEF NameInv, NamedOK, KnownOK, ReportsOK, RedefinitionsJustified, Finished, Reported

\* What is said of names is kept by every step.
LEMMA StepNames == IInv /\ NameInv /\ [Next]_vars => NameInv'
<1>1. Crash => /\ st = "syntax" /\ st' = "crashed"
               /\ UNCHANGED <<module, imported, type, syntax, objects, text, errors>>
  BY DEF Crash
<1>2. ASSUME IInv, NameInv, Next PROVE NameInv'
  BY <1>1, <1>2, Steps, ReadNames, DeclareNames, DeclareObjectNames, BeginModuleNames,
     EndModuleNames, QuietNames
<1>3. ASSUME NameInv, UNCHANGED vars PROVE NameInv'
  BY <1>3, QuietNames DEF vars
<1> QED BY <1>2, <1>3

\* A name that is known is the name of a declared type or of one that is awaited,
\* and what is reported of names follows from that.
THEOREM NamesStay == Spec => []NameInv
BY NamesInit, StepNames, Inductive, PTL DEF Spec

\* At the end of every module ERR_UNKNOWN_TYPE is reported for the names that it
\* uses and neither declares nor imports, and for no others, although a type is
\* created for a name at its first use and completed by a declaration that may
\* come any number of uses later.
THEOREM UnknownAlwaysReported == Spec => []UnknownReported
<1>1. ASSUME IInv, NameInv PROVE UnknownReported
  <2> SUFFICES ASSUME st = "between", NEW m \in 1 .. module,
                      NEW n \in Name \ {APPLICATION}
               PROVE  Reported(m, n) <=> /\ Used(m, n) /\ Declarations(m, n) = {}
                                         /\ imported[m][n] = 0
    BY DEF UnknownReported, Reported, Used
  <2>1. Finished(m) /\ n \in Referable
    BY DEF Finished, Referable
  <2> QED BY <1>1, <2>1 DEF NameInv, ReportsOK
<1> QED BY <1>1, Inductive, NamesStay, PTL

\* A redefinition is reported only of a name that the module had declared before:
\* a forward reference is never taken for a definition.
THEOREM RedefinitionsAlwaysJustified == Spec => []RedefinitionsJustified
<1>1. NameInv => RedefinitionsJustified
  BY DEF NameInv
<1> QED BY <1>1, NamesStay, PTL
-----------------------------------------------------------------------------
(* The checks end.                                                         *)

\* A type whose basetype is known is derived from one whose basetype is known
\* too and that was so before it: f orders the types by that.
Ranks(ts, f) ==
  /\ f \in [DOMAIN ts -> Nat]
  /\ \A x \in LiveIn(ts) : ts[x].parent # NIL /\ ts[x].base # "UNKNOWN" =>
       ts[ts[x].parent].base # "UNKNOWN" /\ f[ts[x].parent] < f[x]
Ranked(ts) == \E f : Ranks(ts, f)

\* What was only referred to so far has no basetype.
ForwardOK ==
  \A x \in LiveIn(type) \ Shared :
    type[x].name # NULL /\ type[x].decl = "UNKNOWN" => type[x].base = "UNKNOWN"

EndInv == ForwardOK /\ (Redeclared \/ Ranked(type)) /\ ChecksEnd

\* What was declared twice stays so.
LEMMA RedeclaredStays ==
  ASSUME IInv, NEW r \in Entry, text' = Append(text, r)
  PROVE  /\ Redeclared => Redeclared'
         /\ \A m : (r.at = m /\ r.name # NULL /\ Declarations(m, r.name) # {})
                      => Redeclared'
<1>1. text \in Seq(Entry)
  BY DEF IInv, TypeOK
<1>2. /\ DOMAIN text' = DOMAIN text \cup {Len(text) + 1} /\ text'[Len(text) + 1] = r
      /\ Len(text) + 1 \notin DOMAIN text
      /\ \A d \in DOMAIN text : text'[d] = text[d]
  BY <1>1, AppendFacts
<1> QED BY <1>2 DEF Redeclared, Declarations

LEMMA ReadEnds == ASSUME IInv, EndInv, ReadStep PROVE EndInv'
<1>1. /\ st = "body" /\ st' = "syntax" /\ text' = text /\ Created(type', syntax'.as.ref)
      /\ TableOK(type, module)
  BY StateFacts DEF ReadStep, ReadTable, Extension
<1>2. /\ \A x \in DOMAIN type : x \in DOMAIN type' /\ type'[x] = type[x]
      /\ \A x \in LiveIn(type') : x \in DOMAIN type => x \in LiveIn(type)
  BY ReadStays DEF LiveIn
<1>3. ForwardOK'
  BY <1>1, <1>2 DEF EndInv, ForwardOK, Created, LiveIn, Shared
<1>4. Redeclared => Redeclared'
  BY <1>1 DEF Redeclared
<1>5. ASSUME Ranked(type) PROVE Ranked(type')
  <2>1. PICK f : Ranks(type, f)
    BY <1>5 DEF Ranked
  <2> DEFINE p(x) == type'[x].parent
             g == [x \in DOMAIN type' |->
                     IF x \in DOMAIN type THEN f[x]
                     ELSE IF p(x) \in DOMAIN type THEN f[p(x)] + 1 ELSE 0]
  <2>2. g \in [DOMAIN type' -> Nat]
    BY <2>1 DEF Ranks
  <2>3. ASSUME NEW x \in LiveIn(type'), p(x) # NIL, type'[x].base # "UNKNOWN"
        PROVE  type'[p(x)].base # "UNKNOWN" /\ g[p(x)] < g[x]
    <3>1. CASE x \in DOMAIN type
      <4>1. x \in LiveIn(type) /\ type'[x] = type[x] /\ type[x].parent = p(x)
        BY <1>2, <3>1
      <4>2. p(x) \in DOMAIN type
        BY <1>1, <2>3, <4>1 DEF TableOK, ParentsOK, LiveIn
      <4>3. type[p(x)].base # "UNKNOWN" /\ f[p(x)] < f[x]
        BY <2>1, <2>3, <4>1 DEF Ranks
      <4> QED BY <1>2, <3>1, <4>2, <4>3
    <3>2. CASE x \notin DOMAIN type
      <4>1. x \in DOMAIN type' /\ p(x) \in DOMAIN type /\ type[p(x)].base # "UNKNOWN"
        BY <1>1, <2>3, <3>2 DEF Created, LiveIn
      <4>2. g[x] = f[p(x)] + 1 /\ g[p(x)] = f[p(x)] /\ f[p(x)] \in Nat
        BY <1>2, <2>1, <3>2, <4>1 DEF Ranks
      <4> QED BY <1>2, <4>1, <4>2
    <3> QED BY <3>1, <3>2
  <2> HIDE DEF g
  <2> QED BY <2>2, <2>3 DEF Ranks, Ranked
<1> QED BY <1>1, <1>3, <1>4, <1>5 DEF EndInv, ChecksEnd

LEMMA DeclareEnds ==
  ASSUME IInv, NameInv, EndInv, NEW n \in Name, NEW new, NEW t, NEW o,
         DeclareStep(n, new, t, o)
  PROVE  EndInv'
<1>1. /\ st = "syntax" /\ st' = "body" /\ module' = module
      /\ Renamed(new, type', t, n, o) /\ Based(new, t)
      /\ TableOK(new, module) /\ new[t].name = NULL
      /\ t \in LiveIn(new) /\ new[t].mod = module /\ new[t].decl = "DEFINED"
      /\ DOMAIN new = DOMAIN type \cup {t}
      /\ \A x \in DOMAIN type : x # t => new[x] = type[x]
  BY DEF DeclareStep
<1>2. /\ module \in 1 .. MaxModules /\ module \in 1 .. module /\ module # 0
      /\ module \in Nat /\ TableOK(type, module) /\ TypeOK
  BY <1>1, StateFacts DEF IInv
<1>3. PICK r \in Entry : /\ r.at = module /\ r.name = n /\ text' = Append(text, r)
  <2>1. o \in Nat
    BY <1>1, AppendFacts DEF Renamed, LiveIn, TableOK, SharedOK
  <2>2. [at |-> module, name |-> n, type |-> o, as |-> syntax.as] \in Entry
    BY <1>2, <2>1 DEF Entry, TypeOK
  <2> QED BY <2>2 DEF DeclareStep
<1>4. Redeclared => Redeclared'
  BY <1>3, RedeclaredStays
<1>5. /\ o \in LiveIn(type') /\ LiveIn(type') \subseteq LiveIn(new)
      /\ type'[o].decl = "DEFINED"
      /\ \A x \in LiveIn(type') : x # o => type'[x] = new[x] /\ x # t
  <2>1. /\ LiveIn(type') = IF o = t THEN LiveIn(new) ELSE LiveIn(new) \ {t}
        /\ o \in LiveIn(type')
        /\ \A x \in LiveIn(type') : x # o => type'[x] = new[x] /\ x # t
    BY <1>1, RenamedLive
  <2>2. type'[o].decl = "DEFINED"
    BY <1>1 DEF Renamed
  <2> QED BY <2>1, <2>2
<1>6. \A x \in LiveIn(new) : x # t => x \in LiveIn(type) /\ new[x] = type[x]
  BY <1>1 DEF LiveIn
<1>7. ForwardOK'
  <2>1. ASSUME NEW x \in LiveIn(type') \ Shared, type'[x].name # NULL,
               type'[x].decl = "UNKNOWN"
        PROVE  type'[x].base = "UNKNOWN"
    <3>1. x # o /\ x \in LiveIn(type) /\ type'[x] = type[x]
      BY <1>5, <1>6, <2>1
    <3> QED BY <2>1, <3>1 DEF EndInv, ForwardOK
  <2> QED BY <2>1 DEF ForwardOK, LiveIn, Shared

\* The type that has the name was declared, or was only referred to.
<1>8. ASSUME o # t, type[o].base # "UNKNOWN" PROVE Redeclared'
  <2>1. o \in LiveIn(type) /\ type[o].name = n /\ type[o].mod = module
    BY <1>1, <1>6, <1>8 DEF Renamed
  <2>2. o \notin Shared /\ n # NULL
    BY <1>2, <2>1, NotShared, NameAssumption
  <2>3. type[o].decl # "UNKNOWN"
    BY <1>8, <2>1, <2>2 DEF EndInv, ForwardOK
  <2>4. Declarations(module, n) # {}
    BY <2>1, <2>2, <2>3 DEF NameInv, NamedOK
  <2> QED BY <1>3, <2>2, <2>4, RedeclaredStays
<1>9. ASSUME Ranked(type), o = t \/ type[o].base = "UNKNOWN" PROVE Ranked(type')
  <2>1. PICK f : Ranks(type, f)
    BY <1>9 DEF Ranked
  <2> DEFINE q == new[t].parent
             g == [x \in DOMAIN new |->
                     IF x \in DOMAIN type THEN f[x]
                     ELSE IF q \in DOMAIN type THEN f[q] + 1 ELSE 0]
             h == [x \in DOMAIN new |-> IF x = o THEN g[t] ELSE g[x]]
  <2>2. g \in [DOMAIN new -> Nat] /\ \A x \in DOMAIN type : g[x] = f[x]
    BY <1>1, <2>1 DEF Ranks
  <2>3. ASSUME NEW x \in LiveIn(new), NEW p, p = new[x].parent, p # NIL,
               new[x].base # "UNKNOWN"
        PROVE  p \in LiveIn(new) /\ p # t /\ new[p].base # "UNKNOWN" /\ g[p] < g[x]
    <3>1. p \in LiveIn(new) /\ p # t
      BY <1>1, <2>3 DEF TableOK, ParentsOK
    <3>2. p \in LiveIn(type) /\ p \in DOMAIN type /\ new[p] = type[p]
      BY <1>6, <3>1 DEF LiveIn
    <3>3. CASE x \in DOMAIN type
      <4>1. x \in LiveIn(type) /\ type[x].parent = p /\ type[x].base # "UNKNOWN"
        BY <1>1, <1>6, <2>3, <3>3 DEF Based
      <4>2. type[p].base # "UNKNOWN" /\ f[p] < f[x]
        BY <2>1, <2>3, <4>1 DEF Ranks
      <4> QED BY <2>2, <3>1, <3>2, <3>3, <4>2
    <3>4. CASE x \notin DOMAIN type
      <4>1. x = t /\ x \in DOMAIN new /\ q = p
        BY <1>1, <2>3, <3>4 DEF LiveIn
      <4>2. new[t].base = type[p].base
        BY <1>1, <3>4, <4>1 DEF Based
      <4>3. g[x] = f[p] + 1 /\ g[p] = f[p] /\ f[p] \in Nat
        BY <2>1, <2>2, <3>2, <3>4, <4>1 DEF Ranks
      <4> QED BY <2>3, <3>1, <3>2, <4>1, <4>2, <4>3
    <3> QED BY <3>3, <3>4
  <2> HIDE DEF g
  <2>4. t \in DOMAIN new /\ DOMAIN type' = DOMAIN new
    BY <1>1 DEF LiveIn, Renamed
  <2>5. h \in [DOMAIN type' -> Nat]
    BY <2>2, <2>4
  <2>6. ASSUME NEW x \in LiveIn(type'), NEW p, p = type'[x].parent, p # NIL,
               type'[x].base # "UNKNOWN"
        PROVE  type'[p].base # "UNKNOWN" /\ h[p] < h[x]
    <3> DEFINE y == IF x = o THEN t ELSE x
    <3>1. /\ y \in LiveIn(new) /\ new[y].parent = p /\ new[y].base # "UNKNOWN"
          /\ x \in DOMAIN new
      BY <1>1, <1>5, <2>4, <2>6 DEF Renamed, LiveIn
    <3>2. h[x] = g[y]
      BY <3>1
    <3> HIDE DEF y
    <3>3. p \in LiveIn(new) /\ p # t /\ new[p].base # "UNKNOWN" /\ g[p] < g[y]
      BY <2>3, <2>6, <3>1
    <3>4. p # o
      BY <1>1, <1>6, <1>9, <3>3
    <3>5. p \in DOMAIN new /\ type'[p] = new[p]
      BY <1>1, <3>3, <3>4 DEF Renamed, LiveIn
    <3>6. h[p] = g[p]
      BY <3>4, <3>5
    <3> QED BY <3>2, <3>3, <3>5, <3>6
  <2> HIDE DEF h
  <2> QED BY <2>5, <2>6 DEF Ranks, Ranked
<1>10. Redeclared' \/ Ranked(type')
  BY <1>4, <1>8, <1>9 DEF EndInv
<1> QED BY <1>1, <1>7, <1>10 DEF EndInv, ChecksEnd

LEMMA DeclareObjectEnds == ASSUME IInv, EndInv, DeclareObject PROVE EndInv'
<1>1. /\ st' = "body" /\ module' = module /\ type' = type /\ syntax.type \in Nat
      /\ st = "syntax"
      /\ text' = Append(text, [at |-> module, name |-> NULL, type |-> syntax.type,
                               as |-> syntax.as])
  BY AppendFacts DEF DeclareObject, Declared, IInv, LiveIn, TableOK, SharedOK
<1>2. PICK r \in Entry : text' = Append(text, r)
  <2>1. module \in 1 .. MaxModules /\ syntax.as \in Written
    BY <1>1, StateFacts DEF IInv, TypeOK
  <2>2. [at |-> module, name |-> NULL, type |-> syntax.type, as |-> syntax.as] \in Entry
    BY <1>1, <2>1 DEF Entry
  <2> QED BY <1>1, <2>2
<1>3. Redeclared => Redeclared'
  BY <1>2, RedeclaredStays
<1>4. (Ranked(type)' <=> Ranked(type)) /\ (ForwardOK' <=> ForwardOK)
  BY <1>1 DEF Ranked, Ranks, ForwardOK, LiveIn, Shared
<1> QED BY <1>1, <1>3, <1>4 DEF EndInv, ChecksEnd

\* Where the types are ordered, the parents of one whose basetype is known end:
\* one of the least rank among those that lead up to each other has a parent of
\* a lesser rank.
LEMMA ParentsEnd ==
  ASSUME IInv, Ranked(type), NEW t \in LiveIn(type), type[t].base # "UNKNOWN"
  PROVE  ~Endless(t)
<1> SUFFICES ASSUME Endless(t) PROVE FALSE
  OBVIOUS
<1>1. PICK S \in SUBSET DOMAIN type : t \in S /\ \A u \in S : type[u].parent \in S
  BY DEF Endless
<1>2. PICK f : Ranks(type, f)
  BY DEF Ranked
<1>3. ParentsOK(type) /\ type \in Seq(Type)
  BY DEF IInv, TypeOK, TableOK
<1> DEFINE K == {u \in S : u \in LiveIn(type) /\ type[u].base # "UNKNOWN"}
           F == {f[u] : u \in K}
<1>4. ASSUME NEW u \in K
      PROVE  type[u].parent \in K /\ f[type[u].parent] < f[u]
  <2>1. u \in S /\ u \in LiveIn(type) /\ type[u].base # "UNKNOWN"
    OBVIOUS
  <2>2. type[u].parent \in S /\ type[u].parent # NIL
    <3>1. type[u].parent \in DOMAIN type
      BY <1>1, <2>1
    <3> QED BY <1>1, <1>3, <2>1, <3>1, AppendFacts DEF NIL
  <2>3. type[u].parent \in LiveIn(type)
    BY <1>3, <2>1, <2>2 DEF ParentsOK
  <2> QED BY <1>2, <2>1, <2>2, <2>3 DEF Ranks
<1>5. F \in SUBSET Nat /\ F # {}
  <2>1. \A u \in K : f[u] \in Nat
    BY <1>2 DEF Ranks, LiveIn
  <2>2. t \in K
    BY <1>1
  <2> HIDE DEF K
  <2> QED BY <2>1, <2>2
<1> HIDE DEF K
<1>6. PICK k \in F : \A j \in F : k <= j
  <2> HIDE DEF F
  <2> QED BY <1>5, Least
<1>7. PICK u \in K : k = f[u]
  BY <1>6
<1>8. type[u].parent \in K /\ f[type[u].parent] < f[u]
  BY <1>4
<1>9. f[type[u].parent] \in F /\ k \in Nat /\ f[type[u].parent] \in Nat
  BY <1>5, <1>6, <1>8
<1> HIDE DEF F
<1> QED BY <1>6, <1>7, <1>8, <1>9

LEMMA EndModuleEnds == ASSUME IInv, EndInv, EndModule PROVE EndInv'
<1>1. /\ st' \in {"between", "hung"}
      /\ st' = "hung" => \E t \in Own : Formatted(t) /\ Endless(t)
      /\ UNCHANGED <<module, imported, type, syntax, objects, text>>
  BY DEF EndModule
<1>2. ASSUME st' = "hung" PROVE Redeclared
  <2>1. PICK t \in Own : Formatted(t) /\ Endless(t)
    BY <1>1, <1>2
  <2>2. t \in LiveIn(type) /\ type[t].base # "UNKNOWN"
    BY <2>1 DEF Own, LiveIn, Formatted
  <2>3. ~Ranked(type)
    BY <2>1, <2>2, ParentsEnd
  <2> QED BY <2>3 DEF EndInv
<1>3. /\ Redeclared' <=> Redeclared
      /\ Ranked(type)' <=> Ranked(type)
      /\ ForwardOK' <=> ForwardOK
  BY <1>1 DEF Redeclared, Ranked, Ranks, ForwardOK, LiveIn, Shared
<1> QED BY <1>1, <1>2, <1>3 DEF EndInv, ChecksEnd

\* The other steps do not change a type or the text.
LEMMA QuietEnds ==
  ASSUME EndInv, st' # "hung" \/ st' = st, UNCHANGED <<type, text>>
  PROVE  EndInv'
<1>1. /\ Redeclared' <=> Redeclared
      /\ Ranked(type)' <=> Ranked(type)
      /\ ForwardOK' <=> ForwardOK
  BY DEF Redeclared, Ranked, Ranks, ForwardOK, LiveIn, Shared
<1> QED BY <1>1 DEF EndInv, ChecksEnd

LEMMA EndsInit == Init => EndInv
<1> SUFFICES ASSUME Init PROVE EndInv
  OBVIOUS
<1>1. st = "between" /\ type = Builtins
  BY DEF Init
<1>2. \A x \in DOMAIN type : type[x].parent = NIL
  BY <1>1, SharedTypes DEF Shared
<1>3. ForwardOK
  BY <1>1 DEF ForwardOK, LiveIn, Shared
<1>4. Ranked(type)
  <2> DEFINE f == [x \in DOMAIN type |-> 0]
  <2>1. Ranks(type, f)
    BY <1>2 DEF Ranks, LiveIn
  <2> QED BY <2>1 DEF Ranked
<1> QED BY <1>1, <1>3, <1>4 DEF EndInv, ChecksEnd

LEMMA StepEnds == IInv /\ NameInv /\ EndInv /\ [Next]_vars => EndInv'
<1>1. /\ Crash => st' # "hung" /\ UNCHANGED <<type, text>>
      /\ \A from : BeginModule(from) => st' # "hung" /\ UNCHANGED <<type, text>>
  BY DEF Crash, BeginModule
<1>2. ASSUME IInv, NameInv, EndInv, Next PROVE EndInv'
  BY <1>1, <1>2, Steps, ReadEnds, DeclareEnds, DeclareObjectEnds, EndModuleEnds,
     QuietEnds
<1>3. ASSUME EndInv, UNCHANGED vars PROVE EndInv'
  BY <1>3, QuietEnds DEF vars
<1> QED BY <1>2, <1>3

\* The checks at the end of a module come to an end unless a name was declared
\* twice: types that are defined by each other have parents without an end, but
\* never a basetype that makes smiCheckTypeFormat() follow them.
THEOREM ChecksAlwaysEnd == Spec => []ChecksEnd
<1>1. EndInv => ChecksEnd
  BY DEF EndInv
<1> QED BY <1>1, EndsInit, StepEnds, Inductive, NamesStay, PTL DEF Spec
=============================================================================
