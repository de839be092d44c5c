---------------------------- MODULE LookupProofs ----------------------------
(***************************************************************************)
(* Proofs about NodeWalk and Lookup.                                       *)
(***************************************************************************)
EXTENDS Lookup, FiniteSetTheorems, WellFoundedInduction, TLAPS

-----------------------------------------------------------------------------
(* The order of object identifiers: p comes before q at the first place    *)
(* where p ends or is smaller.                                             *)

SmallerAt(p, q, i) ==
  /\ i \in 1 .. Len(q) /\ i - 1 <= Len(p)
  /\ \A j \in 1 .. i - 1 : p[j] = q[j]
  /\ i > Len(p) \/ p[i] < q[i]
Lex(p, q) == \E i \in 1 .. Len(q) : SmallerAt(p, q, i)

LEMMA Parts ==
  ASSUME NEW S, NEW s \in Seq(S), NEW n \in 0 .. Len(s)
  PROVE  /\ SubSeq(s, 1, n) \in Seq(S) /\ Len(SubSeq(s, 1, n)) = n
         /\ \A j \in 1 .. n : SubSeq(s, 1, n)[j] = s[j]
OBVIOUS

LEMMA SameSeq ==
  ASSUME NEW S, NEW s \in Seq(S), NEW t \in Seq(S), Len(s) = Len(t),
         \A j \in 1 .. Len(s) : s[j] = t[j]
  PROVE  s = t
OBVIOUS

LEMMA SameParts ==
  ASSUME NEW S, NEW s \in Seq(S), NEW t \in Seq(S), NEW n \in Nat, n <= Len(s), n <= Len(t)
  PROVE  SubSeq(s, 1, n) = SubSeq(t, 1, n) <=> \A j \in 1 .. n : s[j] = t[j]
<1> DEFINE a == SubSeq(s, 1, n)
           b == SubSeq(t, 1, n)
<1>1. /\ a \in Seq(S) /\ Len(a) = n /\ \A j \in 1 .. n : a[j] = s[j]
      /\ b \in Seq(S) /\ Len(b) = n /\ \A j \in 1 .. n : b[j] = t[j]
  BY Parts
<1> HIDE DEF a, b
<1>2. a = b <=> \A j \in 1 .. n : s[j] = t[j]
  BY <1>1, SameSeq
<1> QED BY <1>2 DEF a, b

LEMMA PrefixFacts ==
  ASSUME NEW S, NEW s \in Seq(S), NEW t \in Seq(S)
  PROVE  IsPrefix(s, t) <=> Len(s) <= Len(t) /\ \A j \in 1 .. Len(s) : s[j] = t[j]
BY SameParts DEF IsPrefix

LEMMA BeforeIsLex ==
  ASSUME NEW p \in Seq(Nat), NEW q \in Seq(Nat)
  PROVE  Before(p, q) <=> Lex(p, q)
<1>1. ASSUME IsStrictPrefix(p, q) PROVE Lex(p, q)
  <2>1. Len(p) <= Len(q) /\ (\A j \in 1 .. Len(p) : p[j] = q[j]) /\ p # q
    BY <1>1, PrefixFacts DEF IsStrictPrefix
  <2>2. Len(p) < Len(q)
    BY <2>1, SameSeq
  <2>3. SmallerAt(p, q, Len(p) + 1)
    BY <2>1, <2>2 DEF SmallerAt
  <2> QED BY <2>2, <2>3 DEF Lex
<1>2. ASSUME NEW i \in DOMAIN p \cap DOMAIN q,
             p[i] < q[i], SubSeq(p, 1, i - 1) = SubSeq(q, 1, i - 1)
      PROVE  Lex(p, q)
  <2>1. i - 1 \in Nat /\ i - 1 <= Len(p) /\ i - 1 <= Len(q) /\ i \in 1 .. Len(q)
    OBVIOUS
  <2>2. \A j \in 1 .. i - 1 : p[j] = q[j]
    BY <1>2, <2>1, SameParts
  <2> QED BY <1>2, <2>1, <2>2 DEF Lex, SmallerAt
<1>3. ASSUME NEW i \in 1 .. Len(q), SmallerAt(p, q, i) PROVE Before(p, q)
  <2>1. CASE i > Len(p)
    <3>1. i - 1 = Len(p)
      BY <1>3, <2>1 DEF SmallerAt
    <3>2. IsPrefix(p, q)
      BY <1>3, <3>1, PrefixFacts DEF SmallerAt
    <3>3. p # q
      BY <3>1
    <3> QED BY <3>2, <3>3 DEF Before, IsStrictPrefix
  <2>2. CASE i <= Len(p)
    <3>1. SubSeq(p, 1, i - 1) = SubSeq(q, 1, i - 1)
      BY <1>3, <2>2, SameParts DEF SmallerAt
    <3>2. i \in DOMAIN p \cap DOMAIN q /\ p[i] < q[i]
      BY <1>3, <2>2 DEF SmallerAt
    <3> QED BY <3>1, <3>2 DEF Before
  <2> QED BY <2>1, <2>2
<1> QED BY <1>1, <1>2, <1>3 DEF Before, Lex

LEMMA LessThan ==
  ASSUME NEW m \in Nat, NEW n \in Nat, m < n
  PROVE  <<m, n>> \in OpToRel(<, Nat)
BY DEF OpToRel

LEMMA Least ==
  ASSUME NEW S \in SUBSET Nat, S # {}
  PROVE  \E n \in S : \A m \in S : n <= m
<1>1. PICK n \in S : \A m \in S : ~(<<m, n>> \in OpToRel(<, Nat))
  BY WFMin, NatLessThanWellFounded
<1>2. ASSUME NEW m \in S PROVE ~(m < n)
  BY <1>1, LessThan
<1> QED BY <1>2

\* The order is strict and total.
LEMMA BeforeIrreflexive ==
  ASSUME NEW p \in Seq(Nat) PROVE ~Before(p, p)
BY BeforeIsLex DEF Lex, SmallerAt

LEMMA BeforeTransitive ==
  ASSUME NEW p \in Seq(Nat), NEW q \in Seq(Nat), NEW r \in Seq(Nat),
         Before(p, q), Before(q, r)
  PROVE  Before(p, r)
<1>1. PICK i \in 1 .. Len(q) : SmallerAt(p, q, i)
  BY BeforeIsLex DEF Lex
<1>2. PICK k \in 1 .. Len(r) : SmallerAt(q, r, k)
  BY BeforeIsLex DEF Lex
<1>3. CASE i < k
  <2>1. SmallerAt(p, r, i)
    BY <1>1, <1>2, <1>3 DEF SmallerAt
  <2> QED BY <2>1, <1>2, <1>3, BeforeIsLex DEF Lex, SmallerAt
<1>4. CASE i = k
  <2>1. SmallerAt(p, r, k)
    BY <1>1, <1>2, <1>4 DEF SmallerAt
  <2> QED BY <2>1, BeforeIsLex DEF Lex
<1>5. CASE i > k
  <2>1. SmallerAt(p, r, k)
    BY <1>1, <1>2, <1>5 DEF SmallerAt
  <2> QED BY <2>1, BeforeIsLex DEF Lex
<1> QED BY <1>3, <1>4, <1>5

LEMMA BeforeTotal ==
  ASSUME NEW p \in Seq(Nat), NEW q \in Seq(Nat), p # q
  PROVE  Before(p, q) \/ Before(q, p)
<1> DEFINE D == {i \in 1 .. Len(p) : i > Len(q) \/ p[i] # q[i]}
<1>1. CASE D = {}
  <2>1. Len(p) <= Len(q) /\ \A j \in 1 .. Len(p) : p[j] = q[j]
    <3>1. \A j \in 1 .. Len(p) : j <= Len(q) /\ p[j] = q[j]
      BY <1>1
    <3>2. Len(p) = 0 \/ Len(p) \in 1 .. Len(p)
      OBVIOUS
    <3> QED BY <3>1, <3>2
  <2> QED BY <2>1, PrefixFacts DEF Before, IsStrictPrefix
<1>2. CASE D # {}
  <2>1. PICK i \in D : \A j \in D : i <= j
    BY <1>2, Least, D \subseteq Nat
  <2>2. i \in 1 .. Len(p) /\ (i > Len(q) \/ p[i] # q[i])
    BY <2>1
  <2>3. \A j \in 1 .. i - 1 : j <= Len(q) /\ p[j] = q[j]
    <3>1. ASSUME NEW j \in 1 .. i - 1 PROVE j \notin D /\ j \in 1 .. Len(p)
      BY <2>1, <2>2
    <3> QED BY <3>1
  <2>4. i - 1 <= Len(q)
    <3>1. i - 1 = 0 \/ i - 1 \in 1 .. i - 1
      BY <2>2
    <3> QED BY <2>2, <2>3, <3>1
  <2> HIDE DEF D
  <2>5. CASE i > Len(q) \/ q[i] < p[i]
    <3>1. SmallerAt(q, p, i)
      BY <2>2, <2>3, <2>4, <2>5 DEF SmallerAt
    <3> QED BY <2>2, <3>1, BeforeIsLex DEF Lex
  <2>6. CASE i <= Len(q) /\ p[i] < q[i]
    <3>1. i \in 1 .. Len(q) /\ SmallerAt(p, q, i)
      BY <2>2, <2>3, <2>4, <2>6 DEF SmallerAt
    <3> QED BY <3>1, BeforeIsLex DEF Lex
  <2>7. i <= Len(q) /\ p[i] # q[i] => p[i] < q[i] \/ q[i] < p[i]
    <3>1. i <= Len(q) => p[i] \in Nat /\ q[i] \in Nat
      BY <2>2
    <3> QED BY <3>1
  <2> QED BY <2>2, <2>5, <2>6, <2>7
<1> QED BY <1>1, <1>2

\* A finite set of them has a first one: the one that the fewest are before.
LEMMA FirstExists ==
  ASSUME NEW S \in SUBSET Seq(Nat), IsFiniteSet(S), S # {}
  PROVE  \E p \in S : \A q \in S \ {p} : Before(p, q)
<1> DEFINE Below(p) == {q \in S : Before(q, p)}
           C == {Cardinality(Below(p)) : p \in S}
<1>1. ASSUME NEW p \in S
      PROVE  IsFiniteSet(Below(p)) /\ Cardinality(Below(p)) \in Nat
  <2>1. Below(p) \in SUBSET S
    OBVIOUS
  <2> HIDE DEF Below
  <2> QED BY <2>1, FS_Subset, FS_CardinalityType
<1>2. C \in SUBSET Nat /\ C # {}
  BY <1>1
<1>3. PICK c \in C : \A e \in C : c <= e
  BY <1>2, Least
<1>4. PICK p \in S : c = Cardinality(Below(p))
  OBVIOUS
<1>5. ASSUME NEW q \in S, Before(q, p) PROVE FALSE
  <2>1. Below(q) \subseteq Below(p)
    BY <1>5, BeforeTransitive
  <2>2. q \in Below(p) /\ q \notin Below(q)
    BY <1>5, BeforeIrreflexive
  <2>3. Cardinality(Below(q)) \in C
    OBVIOUS
  <2> HIDE DEF Below, C
  <2>4. Cardinality(Below(q)) <= Cardinality(Below(p))
        /\ (Cardinality(Below(q)) = Cardinality(Below(p)) => Below(q) = Below(p))
    BY <1>1, <2>1, FS_Subset
  <2>5. Cardinality(Below(p)) <= Cardinality(Below(q))
    BY <1>3, <1>4, <2>3
  <2> QED BY <1>1, <2>2, <2>4, <2>5
<1>6. ASSUME NEW q \in S \ {p} PROVE Before(p, q)
  BY <1>5, BeforeTotal
<1> QED BY <1>6

LEMMA OidFacts ==
  /\ Oid \subseteq Seq(Nat) /\ Nowhere \in Oid
  /\ NULL \notin Oid /\ <<1>> \in Oid /\ <<1>> # Nowhere
<1>1. ASSUME NEW s \in Seq(Subid) PROVE s \in Seq(Nat)
  <2>1. Len(s) \in Nat /\ \A i \in 1 .. Len(s) : s[i] \in Subid
    OBVIOUS
  <2>2. s = [i \in 1 .. Len(s) |-> s[i]]
    OBVIOUS
  <2>3. \A i \in 1 .. Len(s) : s[i] \in Nat
    BY <2>1, SubidAssumption
  <2>4. [i \in 1 .. Len(s) |-> s[i]] \in [1 .. Len(s) -> Nat]
    BY <2>3
  <2>5. s \in [1 .. Len(s) -> Nat]
    BY <2>2, <2>4
  <2> QED BY <2>1, <2>5
<1>2. 1 \in Subid => <<1>> \in Seq(Subid)
  OBVIOUS
<1>3. <<1>> # <<>> /\ <<>> \in Seq(Subid)
  OBVIOUS
<1> QED BY <1>1, <1>2, <1>3, SubidAssumption, NullAssumption DEF Oid, Nowhere

LEMMA FirstFacts ==
  ASSUME NEW S \in SUBSET Oid, IsFiniteSet(S)
  PROVE  /\ S = {} => FirstOf(S) = NULL
         /\ S # {} => /\ FirstOf(S) \in S /\ FirstOf(S) # NULL
                      /\ \A q \in S \ {FirstOf(S)} : Before(FirstOf(S), q)
<1>1. CASE S = {}
  BY <1>1 DEF FirstOf
<1>2. CASE S # {}
  <2>1. \E p \in S : \A q \in S \ {p} : Before(p, q)
    BY <1>2, OidFacts, FirstExists
  <2>2. FirstOf(S) \in S /\ \A q \in S \ {FirstOf(S)} : Before(FirstOf(S), q)
    BY <1>2, <2>1 DEF FirstOf
  <2> QED BY <1>2, <2>2, OidFacts
<1> QED BY <1>1, <1>2

-----------------------------------------------------------------------------
(* Numbers and what is computed step by step.                              *)

LEMMA Induct ==
  ASSUME NEW N \in Nat, NEW S, 0 \in S, \A n \in 1 .. N : n - 1 \in S => n \in S
  PROVE  \A n \in 0 .. N : n \in S
<1> DEFINE T == {n \in 0 .. N : n \notin S}
<1>1. ASSUME T # {} PROVE FALSE
  <2>1. PICK n \in T : \A m \in T : n <= m
    BY <1>1, Least, T \subseteq Nat
  <2>2. n \in 1 .. N /\ n \notin S /\ n - 1 \in 0 .. N
    BY <2>1
  <2>3. n - 1 \notin T
    <3> HIDE DEF T
    <3> QED BY <2>1, <2>2
  <2> QED BY <2>2, <2>3
<1> QED BY <1>1

Runs(N, T, z, G) ==
  {f \in [0 .. N -> T] : f[0] = z /\ \A n \in 1 .. N : f[n] = G[n][f[n - 1]]}
LEMMA Iterated ==
  ASSUME NEW N \in Nat, NEW T, NEW z \in T, NEW G \in [1 .. N -> [T -> T]]
  PROVE  Runs(N, T, z, G) # {}
<1> DEFINE Upto(n, f) == f[0] = z /\ \A k \in 1 .. n : f[k] = G[k][f[k - 1]]
           S == {n \in 0 .. N : \E f \in [0 .. n -> T] : Upto(n, f)}
<1>1. 0 \in S
  <2> DEFINE f == [k \in 0 .. 0 |-> z]
  <2>1. f \in [0 .. 0 -> T] /\ f[0] = z /\ 0 \in 0 .. N
    OBVIOUS
  <2> HIDE DEF f
  <2>2. Upto(0, f)
    BY <2>1
  <2> HIDE DEF Upto
  <2> QED BY <2>1, <2>2
<1>2. ASSUME NEW n \in 1 .. N, n - 1 \in S PROVE n \in S
  <2>1. PICK f \in [0 .. n - 1 -> T] : Upto(n - 1, f)
    BY <1>2
  <2> DEFINE g == [k \in 0 .. n |-> IF k = n THEN G[n][f[n - 1]] ELSE f[k]]
  <2>2. f[n - 1] \in T /\ G[n] \in [T -> T]
    OBVIOUS
  <2>3. G[n][f[n - 1]] \in T
    BY <2>2
  <2>4. \A k \in 0 .. n : k # n => k \in 0 .. n - 1 /\ f[k] \in T
    OBVIOUS
  <2>5. g \in [0 .. n -> T]
    BY <2>3, <2>4
  <2>6. g[0] = z
    <3>1. 0 \in 0 .. n /\ 0 # n
      OBVIOUS
    <3>2. g[0] = f[0]
      BY <3>1
    <3> QED BY <2>1, <3>2
  <2>7. ASSUME NEW k \in 1 .. n PROVE g[k] = G[k][g[k - 1]]
    <3>1. k - 1 \in 0 .. n /\ k - 1 # n
      OBVIOUS
    <3>2. g[k - 1] = f[k - 1]
      BY <3>1
    <3>3. CASE k = n
      BY <3>2, <3>3
    <3>4. CASE k # n
      <4>1. k \in 1 .. n - 1 /\ k \in 0 .. n
        BY <3>4
      <4>2. g[k] = f[k]
        BY <3>4, <4>1
      <4> QED BY <2>1, <3>2, <4>1, <4>2
    <3> QED BY <3>3, <3>4
  <2> HIDE DEF g
  <2>8. Upto(n, g)
    BY <2>6, <2>7
  <2> QED BY <2>5, <2>8
<1> HIDE DEF S
<1>3. N \in S
  BY <1>1, <1>2, Induct, N \in 0 .. N
<1> QED BY <1>3 DEF S, Runs

-----------------------------------------------------------------------------
(* Loading.                                                                *)

Cell  == [objs : Seq(Object), oid : BOOLEAN]
Trees == UNION {[D -> Cell] : D \in SUBSET (Oid \ {Nowhere})}

\* Each node has an object, and so has each node above it.
Sound(t) ==
  /\ IsFiniteSet(DOMAIN t)
  /\ \A p \in DOMAIN t : t[p].objs # <<>> /\ Front(p) \in DOMAIN t \cup {Nowhere}

\* A module has an object at a node.
Own(t, p, m) == p \in DOMAIN t /\ \E o \in ToSet(t[p].objs) : o.mod = m

\* A module that is loaded changes nothing of the objects of the others.
Keeps(t, u, m) ==
  /\ DOMAIN t \subseteq DOMAIN u
  /\ \A p \in DOMAIN u : \A o \in Object : o.mod # m =>
       (o \in ToSet(u[p].objs) <=> p \in DOMAIN t /\ o \in ToSet(t[p].objs))
  /\ \A p \in DOMAIN u : ~(p \in DOMAIN t) => ~u[p].oid
  /\ \A p \in DOMAIN t : u[p].oid = t[p].oid
  /\ \A p \in DOMAIN t : Own(t, p, m) => Own(u, p, m)

LEMMA TreeFacts ==
  ASSUME NEW t \in Trees
  PROVE  /\ DOMAIN t \subseteq Oid \ {Nowhere} /\ t \in [DOMAIN t -> Cell]
         /\ \A p \in DOMAIN t : /\ t[p] \in Cell /\ t[p].objs \in Seq(Object)
                                /\ t[p].oid \in BOOLEAN
<1>1. PICK D \in SUBSET (Oid \ {Nowhere}) : t \in [D -> Cell]
  BY DEF Trees
<1>2. DOMAIN t = D
  BY <1>1
<1> QED BY <1>1, <1>2 DEF Cell

LEMMA MakeTree ==
  ASSUME NEW D \in SUBSET (Oid \ {Nowhere}), NEW t \in [D -> Cell]
  PROVE  t \in Trees
BY DEF Trees

LEMMA KeepsTransitive ==
  ASSUME NEW t, NEW u, NEW w, NEW m, Keeps(t, u, m), Keeps(u, w, m)
  PROVE  Keeps(t, w, m)
BY DEF Keeps

LEMMA KeepsItself == ASSUME NEW t, NEW m PROVE Keeps(t, t, m)
BY DEF Keeps

LEMMA OidParts ==
  ASSUME NEW p \in Oid, p # Nowhere
  PROVE  /\ Len(p) \in Nat \ {0} /\ Front(p) \in Oid /\ Front(p) = SubSeq(p, 1, Len(p) - 1)
         /\ Len(Front(p)) = Len(p) - 1
<1>1. Len(p) \in Nat /\ Len(p) # 0
  BY DEF Oid, Nowhere
<1>2. Len(p) - 1 \in 0 .. Len(p)
  BY <1>1
<1>3. Front(p) = SubSeq(p, 1, Len(p) - 1)
  BY DEF Front
<1> QED BY <1>1, <1>2, <1>3, Parts DEF Oid

\* The elements of a sequence with one more.
LEMMA Appended ==
  ASSUME NEW S, NEW s \in Seq(S), NEW e \in S
  PROVE  /\ Append(s, e) \in Seq(S) /\ Append(s, e) # <<>>
         /\ ToSet(Append(s, e)) = ToSet(s) \cup {e} /\ Last(Append(s, e)) = e
<1> DEFINE a == Append(s, e)
<1>1. /\ a \in Seq(S) /\ Len(a) = Len(s) + 1 /\ a[Len(s) + 1] = e
      /\ \A i \in 1 .. Len(s) : a[i] = s[i]
      /\ Len(s) \in Nat /\ DOMAIN s = 1 .. Len(s) /\ DOMAIN a = 1 .. Len(a)
  OBVIOUS
<1> HIDE DEF a
<1>2. a # <<>> /\ Last(a) = e
  BY <1>1 DEF Last
<1>3. ASSUME NEW x \in ToSet(a) PROVE x \in ToSet(s) \cup {e}
  <2>1. PICK i \in DOMAIN a : x = a[i]
    BY DEF ToSet
  <2> QED BY <1>1, <2>1 DEF ToSet
<1>4. ASSUME NEW x \in ToSet(s) \cup {e} PROVE x \in ToSet(a)
  <2>1. CASE x = e
    BY <1>1, <2>1 DEF ToSet
  <2>2. CASE x \in ToSet(s)
    <3>1. PICK i \in DOMAIN s : x = s[i]
      BY <2>2 DEF ToSet
    <3> QED BY <1>1, <3>1 DEF ToSet
  <2> QED BY <2>1, <2>2
<1>5. ToSet(a) = ToSet(s) \cup {e}
  BY <1>3, <1>4
<1> QED BY <1>1, <1>2, <1>5 DEF a

LEMMA Split ==
  ASSUME NEW S, NEW s \in Seq(S), s # <<>>
  PROVE  /\ Last(s) \in S /\ Front(s) \in Seq(S)
         /\ ToSet(s) = ToSet(Front(s)) \cup {Last(s)}
<1>1. Len(s) \in Nat /\ Len(s) # 0 /\ DOMAIN s = 1 .. Len(s) /\ \A i \in 1 .. Len(s) : s[i] \in S
  OBVIOUS
<1>2. Last(s) = s[Len(s)] /\ Front(s) = SubSeq(s, 1, Len(s) - 1)
  BY DEF Last, Front
<1>3. Len(s) - 1 \in 0 .. Len(s)
  BY <1>1
<1>4. /\ Front(s) \in Seq(S) /\ Len(Front(s)) = Len(s) - 1
      /\ \A i \in 1 .. Len(s) - 1 : Front(s)[i] = s[i]
  BY <1>2, <1>3, Parts
<1>5. DOMAIN Front(s) = 1 .. Len(s) - 1
  BY <1>4
<1>6. ASSUME NEW x \in ToSet(s) PROVE x \in ToSet(Front(s)) \cup {Last(s)}
  <2>1. PICK i \in 1 .. Len(s) : x = s[i]
    BY <1>1 DEF ToSet
  <2>2. i = Len(s) \/ i \in 1 .. Len(s) - 1
    <3>1. PICK n \in Nat : n = Len(s)
      BY <1>1
    <3> QED BY <3>1
  <2> QED BY <1>2, <1>4, <1>5, <2>1, <2>2 DEF ToSet
<1>7. ASSUME NEW x \in ToSet(Front(s)) \cup {Last(s)} PROVE x \in ToSet(s)
  <2>1. CASE x = Last(s)
    BY <1>1, <1>2, <2>1 DEF ToSet
  <2>2. CASE x \in ToSet(Front(s))
    <3>1. PICK i \in 1 .. Len(s) - 1 : x = Front(s)[i]
      BY <1>5, <2>2 DEF ToSet
    <3>2. i \in 1 .. Len(s) /\ x = s[i]
      BY <1>1, <1>4, <3>1
    <3> QED BY <1>1, <3>2 DEF ToSet
  <2> QED BY <2>1, <2>2
<1> QED BY <1>1, <1>2, <1>4, <1>6, <1>7

LEMMA NumberFacts ==
  ASSUME NEW t \in Trees, NEW m \in Module, NEW oid \in Oid \ {Nowhere}
  PROVE  LET u == Number(t, m, oid)
         IN  /\ u \in Trees /\ DOMAIN u = DOMAIN t \cup {oid} /\ Keeps(t, u, m)
             /\ Last(u[oid].objs).mod = m
             /\ Sound(t) /\ Front(oid) \in DOMAIN t \cup {Nowhere} => Sound(u)
<1> DEFINE u == Number(t, m, oid)
           new == [mod |-> m, kind |-> UNKNOWN, name |-> NULL]
<1>0. new \in Object /\ new.mod = m
  BY DEF Object
<1>1. CASE oid \notin DOMAIN t
  <2>2. u = [p \in DOMAIN t \cup {oid} |-> IF p = oid THEN [objs |-> <<new>>, oid |-> FALSE] ELSE t[p]]
    BY <1>1 DEF Number
  <2>3. DOMAIN u = DOMAIN t \cup {oid} /\ u[oid] = [objs |-> <<new>>, oid |-> FALSE]
        /\ \A p \in DOMAIN t : u[p] = t[p]
    BY <1>1, <2>2
  <2>4. <<new>> \in Seq(Object) /\ ToSet(<<new>>) = {new} /\ Last(<<new>>) = new /\ <<new>> # <<>>
    BY <1>0 DEF ToSet, Last
  <2>5. [objs |-> <<new>>, oid |-> FALSE] \in Cell
    BY <2>4 DEF Cell
  <2> HIDE DEF new, u
  <2>6. u \in Trees
    <3>1. \A p \in DOMAIN t \cup {oid} :
             (IF p = oid THEN [objs |-> <<new>>, oid |-> FALSE] ELSE t[p]) \in Cell
      BY <2>5, TreeFacts
    <3>2. u \in [DOMAIN t \cup {oid} -> Cell]
      BY <2>2, <3>1
    <3>3. DOMAIN t \cup {oid} \in SUBSET (Oid \ {Nowhere})
      BY TreeFacts
    <3> QED BY <3>2, <3>3, MakeTree
  <2>7. Keeps(t, u, m)
    BY <1>0, <1>1, <2>3, <2>4 DEF Keeps, Own
  <2>8. ASSUME Sound(t), Front(oid) \in DOMAIN t \cup {Nowhere}
        PROVE  Sound(u)
    <3>1. IsFiniteSet(DOMAIN u)
      BY <2>3, <2>8, FS_AddElement DEF Sound
    <3> QED BY <1>0, <2>3, <2>4, <2>8, <3>1 DEF Sound
  <2>9. Last(u[oid].objs).mod = m
    BY <1>0, <2>3, <2>4
  <2> QED BY <2>3, <2>6, <2>7, <2>8, <2>9 DEF u
<1>2. CASE oid \in DOMAIN t /\ Last(t[oid].objs).mod = m
  <2>1. u = t
    BY <1>2 DEF Number
  <2> QED BY <1>2, <2>1, KeepsItself
<1>3. CASE oid \in DOMAIN t /\ Last(t[oid].objs).mod # m
  <2>1. u = [t EXCEPT ![oid].objs = Append(@, new)]
    BY <1>3 DEF Number
  <2>2. t \in [DOMAIN t -> Cell] /\ t[oid] \in Cell /\ t[oid].objs \in Seq(Object)
    BY <1>3, TreeFacts
  <2>3. /\ Append(t[oid].objs, new) \in Seq(Object) /\ Append(t[oid].objs, new) # <<>>
        /\ ToSet(Append(t[oid].objs, new)) = ToSet(t[oid].objs) \cup {new}
        /\ Last(Append(t[oid].objs, new)) = new
    BY <1>0, <2>2, Appended
  <2> DEFINE objs == Append(t[oid].objs, new)
  <2>4. DOMAIN u = DOMAIN t /\ u[oid].objs = objs /\ u[oid].oid = t[oid].oid
        /\ \A p \in DOMAIN t \ {oid} : u[p] = t[p]
    BY <1>3, <2>1, <2>2 DEF Cell
  <2>5. u \in [DOMAIN t -> Cell]
    BY <1>3, <2>1, <2>2, <2>3 DEF Cell
  <2> HIDE DEF new, u, objs
  <2>6. u \in Trees
    BY <2>5, TreeFacts, MakeTree
  <2>7. Keeps(t, u, m)
    BY <1>0, <1>3, <2>3, <2>4 DEF Keeps, Own, objs
  <2>8. ASSUME Sound(t) PROVE Sound(u)
    BY <1>0, <1>3, <2>3, <2>4, <2>8 DEF Sound, objs
  <2>9. Last(u[oid].objs).mod = m
    BY <1>0, <2>3, <2>4 DEF objs
  <2> QED BY <1>3, <2>4, <2>6, <2>7, <2>8, <2>9 DEF u
<1> QED BY <1>1, <1>2, <1>3

LEMMA Joined ==
  ASSUME NEW S, NEW a \in Seq(S), NEW b \in Seq(S)
  PROVE  /\ a \o b \in Seq(S) /\ Len(a \o b) = Len(a) + Len(b)
         /\ Len(a) \in Nat /\ Len(b) \in Nat
         /\ \A j \in 1 .. Len(a) + Len(b) :
              (a \o b)[j] = IF j <= Len(a) THEN a[j] ELSE b[j - Len(a)]
OBVIOUS

\* The number that a declaration and the first n of its numbers stand for.
Value(d, n) == d.label \o SubSeq(d.subs, 1, n)
Values(d)   == {Value(d, n) : n \in 1 .. Len(d.subs)}

LEMMA ValueFacts ==
  ASSUME NEW d \in Definition, NEW n \in 0 .. Len(d.subs)
  PROVE  /\ Value(d, n) \in Oid /\ Value(d, 0) = d.label
         /\ Value(d, Len(d.subs)) = d.label \o d.subs
         /\ n # 0 => Value(d, n) # Nowhere /\ Front(Value(d, n)) = Value(d, n - 1)
<1> DEFINE l == d.label
           s == d.subs
<1>1. l \in Seq(Subid) /\ s \in Seq(Subid)
  BY DEF Definition, Oid
<1>2. /\ Len(s) \in Nat /\ Len(l) \in Nat /\ Len(s) \in 0 .. Len(s) /\ 0 \in 0 .. Len(s)
  BY <1>1
<1>3. ASSUME NEW k \in 0 .. Len(s)
      PROVE  /\ l \o SubSeq(s, 1, k) \in Seq(Subid) /\ Len(l \o SubSeq(s, 1, k)) = Len(l) + k
             /\ \A j \in 1 .. Len(l) + k :
                  (l \o SubSeq(s, 1, k))[j] = IF j <= Len(l) THEN l[j] ELSE s[j - Len(l)]
  <2> DEFINE e == SubSeq(s, 1, k)
  <2>1. e \in Seq(Subid) /\ Len(e) = k /\ \A j \in 1 .. k : e[j] = s[j]
    BY <1>1, Parts
  <2> HIDE DEF e, l, s
  <2>2. /\ l \o e \in Seq(Subid) /\ Len(l \o e) = Len(l) + k
        /\ \A j \in 1 .. Len(l) + k : (l \o e)[j] = IF j <= Len(l) THEN l[j] ELSE e[j - Len(l)]
    BY <1>1, <2>1, Joined
  <2>3. \A j \in 1 .. Len(l) + k : j <= Len(l) \/ j - Len(l) \in 1 .. k
    BY <1>2
  <2> QED BY <2>1, <2>2, <2>3 DEF e
<1>4. Value(d, n) \in Oid
  BY <1>3 DEF Value, Oid
<1>5. Value(d, 0) = l
  <2> HIDE DEF l, s
  <2>2. l \o SubSeq(s, 1, 0) \in Seq(Subid) /\ Len(l \o SubSeq(s, 1, 0)) = Len(l)
    BY <1>2, <1>3
  <2>1. \A j \in 1 .. Len(l) : (l \o SubSeq(s, 1, 0))[j] = l[j]
    BY <1>2, <1>3
  <2> USE DEF l, s
  <2> QED BY <1>1, <2>1, <2>2, SameSeq DEF Value
<1>6. Value(d, Len(s)) = l \o s
  <2>1. SubSeq(s, 1, Len(s)) = s
    BY <1>1, <1>2, Parts, SameSeq
  <2> QED BY <2>1 DEF Value
<1>7. ASSUME n # 0
      PROVE  Value(d, n) # Nowhere /\ Front(Value(d, n)) = Value(d, n - 1)
  <2> DEFINE v == Value(d, n)
             w == Value(d, n - 1)
  <2>1. n - 1 \in 0 .. Len(s) /\ n \in Nat
    BY <1>2, <1>7
  <2>2. /\ v \in Seq(Subid) /\ Len(v) = Len(l) + n
        /\ \A j \in 1 .. Len(l) + n : v[j] = IF j <= Len(l) THEN l[j] ELSE s[j - Len(l)]
    BY <1>3 DEF Value
  <2>3. /\ w \in Seq(Subid) /\ Len(w) = Len(l) + (n - 1)
        /\ \A j \in 1 .. Len(l) + (n - 1) : w[j] = IF j <= Len(l) THEN l[j] ELSE s[j - Len(l)]
    BY <1>3, <2>1 DEF Value
  <2> HIDE DEF v, w
  <2>4. v # Nowhere /\ v \in Oid
    BY <1>2, <1>7, <2>1, <2>2 DEF Nowhere, Oid
  <2>5. Front(v) = SubSeq(v, 1, Len(v) - 1) /\ Len(v) - 1 \in 0 .. Len(v) /\ Len(v) - 1 = Len(w)
    BY <2>1, <2>2, <2>3, <2>4, <1>2, OidParts
  <2>6. /\ Front(v) \in Seq(Subid) /\ Len(Front(v)) = Len(w)
        /\ \A j \in 1 .. Len(w) : Front(v)[j] = v[j]
    BY <2>2, <2>5, Parts
  <2>7. \A j \in 1 .. Len(w) : v[j] = w[j]
    BY <1>2, <2>1, <2>2, <2>3
  <2>8. Front(v) = w
    BY <2>3, <2>6, <2>7, SameSeq
  <2> QED BY <2>4, <2>8 DEF v, w
<1> QED BY <1>4, <1>5, <1>6, <1>7

LEMMA DeclareFacts ==
  ASSUME NEW t \in Trees, NEW m \in Module, NEW d \in Definition
  PROVE  LET u == Declare(t, m, d)
         IN  /\ u \in Trees /\ DOMAIN u = DOMAIN t \cup Values(d) /\ Keeps(t, u, m)
             /\ Sound(t) /\ d.label \in DOMAIN t \cup {Nowhere} => Sound(u)
             /\ d.label \o d.subs \in DOMAIN u => Own(u, d.label \o d.subs, m)
<1> DEFINE N   == Len(d.subs)
           Is(f) == f = [n \in 0 .. N |->
                      IF n = 0 THEN t ELSE Number(f[n - 1], m, d.label \o SubSeq(d.subs, 1, n))]
           g   == CHOOSE f : Is(f)
           oid == d.label \o d.subs
           all == g[N]
           objs == all[oid].objs
           own == [mod |-> m, kind |-> d.kind, name |-> d.name]
           u   == Declare(t, m, d)
<1>1. N \in Nat /\ N \in 0 .. N /\ 0 \in 0 .. N
  BY DEF Definition, Oid
<1>2. u = [all EXCEPT ![oid].objs =
            IF d.subs # <<>> /\ objs # <<>> /\ Last(objs).kind = UNKNOWN
            THEN Append(Front(objs), own) ELSE Append(objs, own)]
  BY DEF Declare
<1>3. g \in [0 .. N -> Trees] /\ g[0] = t /\ \A n \in 1 .. N : g[n] = Number(g[n - 1], m, Value(d, n))
  <2> DEFINE G == [n \in 1 .. N |-> [x \in Trees |-> Number(x, m, Value(d, n))]]
  <2>1. \A n \in 1 .. N : \A x \in Trees : Number(x, m, Value(d, n)) \in Trees
    BY ValueFacts, NumberFacts, <1>1, \A n \in 1 .. N : n \in 0 .. N /\ n # 0
  <2>2. G \in [1 .. N -> [Trees -> Trees]]
    BY <2>1
  <2>3. \A n \in 1 .. N : \A x \in Trees : G[n][x] = Number(x, m, Value(d, n))
    OBVIOUS
  <2> HIDE DEF G, N
  <2>0. Runs(N, Trees, t, G) # {}
    BY <1>1, <2>2, Iterated
  <2>4. PICK f \in [0 .. N -> Trees] : f[0] = t /\ \A n \in 1 .. N : f[n] = G[n][f[n - 1]]
    <3>1. PICK f : f \in Runs(N, Trees, t, G)
      BY <2>0
    <3> QED BY <3>1 DEF Runs
  <2>5. \A n \in 1 .. N : n - 1 \in 0 .. N /\ f[n - 1] \in Trees
    BY <1>1
  <2>6. \A n \in 1 .. N : f[n] = Number(f[n - 1], m, Value(d, n))
    BY <2>3, <2>4, <2>5
  <2>7. f = [n \in 0 .. N |-> f[n]]
    BY <2>4
  <2>8. \A n \in 0 .. N : f[n] = IF n = 0 THEN t ELSE Number(f[n - 1], m, d.label \o SubSeq(d.subs, 1, n))
    BY <1>1, <2>4, <2>6 DEF Value
  <2>9. Is(f)
    BY <2>7, <2>8
  <2>10. Is(g)
    BY <2>9
  <2>11. \A n \in 0 .. N : g[n] = IF n = 0 THEN t ELSE Number(g[n - 1], m, d.label \o SubSeq(d.subs, 1, n))
    BY <2>10
  <2>12. DOMAIN g = 0 .. N /\ g = [n \in 0 .. N |-> g[n]]
    BY <2>10
  <2> HIDE DEF g
  <2> DEFINE S == {n \in 0 .. N : g[n] \in Trees}
  <2>13. 0 \in S
    BY <1>1, <2>11
  <2>14. \A n \in 1 .. N : n - 1 \in S => n \in S
    <3>1. ASSUME NEW n \in 1 .. N, g[n - 1] \in Trees PROVE g[n] \in Trees
      <4>1. n \in 0 .. N /\ n # 0
        BY <1>1
      <4>3. Value(d, n) \in Oid \ {Nowhere}
        BY <4>1, ValueFacts DEF N
      <4>4. g[n] = Number(g[n - 1], m, Value(d, n))
        BY <2>11, <4>1 DEF Value
      <4>2. g[n] = Number(g[n - 1], m, Value(d, n)) /\ Value(d, n) \in Oid \ {Nowhere}
        BY <4>3, <4>4
      <4> DEFINE x == g[n - 1]
                 v == Value(d, n)
                 y == g[n]
      <4>5. x \in Trees /\ v \in Oid \ {Nowhere} /\ y = Number(x, m, v)
        BY <3>1, <4>2
      <4> HIDE DEF x, v, y
      <4>6. y \in Trees
        BY <4>5, NumberFacts
      <4> QED BY <4>6 DEF y
    <3> QED BY <3>1, <1>1, \A n \in 1 .. N : n \in 0 .. N /\ n - 1 \in 0 .. N
  <2> HIDE DEF S
  <2>15. \A n \in 0 .. N : n \in S
    BY <1>1, <2>13, <2>14, Induct
  <2>16. g \in [0 .. N -> Trees]
    BY <2>12, <2>15 DEF S
  <2>17. \A n \in 1 .. N : g[n] = Number(g[n - 1], m, Value(d, n))
    BY <2>11 DEF Value
  <2> QED BY <1>1, <2>11, <2>16, <2>17
<1> HIDE DEF g, Is
<1> DEFINE Upto(n) == {Value(d, k) : k \in 1 .. n}
           Fits == Sound(t) /\ d.label \in DOMAIN t \cup {Nowhere}
           Right(n) == /\ DOMAIN g[n] = DOMAIN t \cup Upto(n) /\ Keeps(t, g[n], m)
                       /\ n # 0 => Last(g[n][Value(d, n)].objs).mod = m
                       /\ Fits => Sound(g[n])
<1>4. \A n \in 0 .. N : Right(n)
  <2> DEFINE S == {n \in 0 .. N : Right(n)}
  <2>1. Right(0)
    <3>1. Upto(0) = {}
      OBVIOUS
    <3> QED BY <1>3, <3>1, KeepsItself
  <2>2. ASSUME NEW n \in 1 .. N, Right(n - 1) PROVE Right(n)
    <3>1. /\ n - 1 \in 0 .. N /\ n \in 0 .. N /\ n # 0 /\ g[n - 1] \in Trees
          /\ g[n] = Number(g[n - 1], m, Value(d, n))
      BY <1>1, <1>3
    <3>2. Value(d, n) \in Oid \ {Nowhere} /\ Front(Value(d, n)) = Value(d, n - 1)
      BY <3>1, ValueFacts
    <3>3. Upto(n) = Upto(n - 1) \cup {Value(d, n)}
      <4>1. \A k \in 1 .. n : k = n \/ k \in 1 .. n - 1
        BY <1>1
      <4>2. \A k \in 1 .. n - 1 : k \in 1 .. n
        BY <1>1
      <4>3. n \in 1 .. n
        BY <1>1
      <4> QED BY <4>1, <4>2, <4>3
    <3>4. Fits => Front(Value(d, n)) \in DOMAIN g[n - 1] \cup {Nowhere}
      <4>1. CASE n = 1
        <5>0. Value(d, 0) = d.label
          BY <1>1, ValueFacts
        <5>1. Value(d, 0) = d.label /\ n - 1 = 0
          BY <4>1, <5>0
        <5> QED BY <2>2, <3>2, <5>1
      <4>2. CASE n # 1
        <5>1. n - 1 \in 1 .. n - 1
          BY <1>1, <4>2
        <5> QED BY <2>2, <3>2, <5>1
      <4> QED BY <4>1, <4>2
    <3> HIDE DEF Upto, Fits
    <3>5. /\ DOMAIN g[n] = DOMAIN g[n - 1] \cup {Value(d, n)} /\ Keeps(g[n - 1], g[n], m)
          /\ Last(g[n][Value(d, n)].objs).mod = m
          /\ Fits => Sound(g[n])
      <4> DEFINE x == g[n - 1]
                 v == Value(d, n)
                 y == g[n]
      <4>1. /\ x \in Trees /\ v \in Oid \ {Nowhere} /\ y = Number(x, m, v)
            /\ Fits => Sound(x) /\ Front(v) \in DOMAIN x \cup {Nowhere}
        BY <2>2, <3>1, <3>2, <3>4
      <4> HIDE DEF x, v, y
      <4>2. /\ DOMAIN y = DOMAIN x \cup {v} /\ Keeps(x, y, m) /\ Last(y[v].objs).mod = m
            /\ Fits => Sound(y)
        BY <4>1, NumberFacts
      <4> QED BY <4>2 DEF x, v, y
    <3>6. Keeps(t, g[n], m)
      BY <2>2, <3>5, KeepsTransitive
    <3> QED BY <2>2, <3>3, <3>5, <3>6
  <2> HIDE DEF Right
  <2>3. 0 \in S
    BY <1>1, <2>1
  <2>4. \A n \in 1 .. N : n - 1 \in S => n \in S
    BY <2>2, <1>1
  <2> HIDE DEF S
  <2>5. \A n \in 0 .. N : n \in S
    BY <1>1, <2>3, <2>4, Induct
  <2> QED BY <2>5 DEF S
<1>5. /\ all \in Trees /\ DOMAIN all = DOMAIN t \cup Values(d) /\ Keeps(t, all, m)
      /\ N # 0 => Last(all[Value(d, N)].objs).mod = m
      /\ Fits => Sound(all)
  <2>1. Right(N) /\ g[N] \in Trees
    BY <1>1, <1>3, <1>4
  <2>2. Upto(N) = Values(d)
    BY DEF Values
  <2> QED BY <2>1, <2>2
<1>6. oid \in Oid /\ own \in Object /\ own.mod = m
  BY ValueFacts, <1>1 DEF Definition, Object
<1> DEFINE new == IF d.subs # <<>> /\ objs # <<>> /\ Last(objs).kind = UNKNOWN
                  THEN Append(Front(objs), own) ELSE Append(objs, own)
<1>7. u = [all EXCEPT ![oid].objs = new]
  BY <1>2
<1> HIDE DEF u, all, own, oid, new, Upto, Right, objs, Fits
<1>8. CASE oid \notin DOMAIN all
  <2>1. u = all
    BY <1>5, <1>7, <1>8, TreeFacts
  <2> QED BY <1>5, <1>8, <2>1 DEF Fits, u, oid
<1>9. CASE oid \in DOMAIN all
  <2>1. /\ all \in [DOMAIN all -> Cell] /\ all[oid] \in Cell /\ objs \in Seq(Object)
        /\ DOMAIN all \subseteq Oid \ {Nowhere}
    BY <1>5, <1>9, TreeFacts DEF objs
  <2>2. d.subs # <<>> => N # 0 /\ oid = Value(d, N)
    <3>1. d.subs \in Seq(Subid)
      BY DEF Definition, Oid
    <3>2. d.subs # <<>> => N # 0
      BY <3>1
    <3> QED BY <3>2, <1>1, ValueFacts DEF oid
  <2>3. d.subs # <<>> => Last(objs).mod = m
    BY <1>5, <2>2 DEF objs
  <2>4. new \in Seq(Object) /\ new # <<>> /\ own \in ToSet(new) /\ \A o \in Object :
          o.mod # m => (o \in ToSet(new) <=> o \in ToSet(objs))
    <3>1. CASE d.subs # <<>> /\ objs # <<>> /\ Last(objs).kind = UNKNOWN
      <4>1. /\ Front(objs) \in Seq(Object) /\ Last(objs) \in Object
            /\ ToSet(objs) = ToSet(Front(objs)) \cup {Last(objs)}
        BY <2>1, <3>1, Split
      <4>2. new = Append(Front(objs), own)
        BY <3>1 DEF new
      <4> QED BY <1>6, <2>3, <3>1, <4>1, <4>2, Appended
    <3>2. CASE ~(d.subs # <<>> /\ objs # <<>> /\ Last(objs).kind = UNKNOWN)
      <4>1. new = Append(objs, own)
        BY <3>2 DEF new
      <4> QED BY <1>6, <2>1, <4>1, Appended
    <3> QED BY <3>1, <3>2
  <2>5. DOMAIN u = DOMAIN all /\ u[oid].objs = new /\ u[oid].oid = all[oid].oid
        /\ \A p \in DOMAIN all \ {oid} : u[p] = all[p]
    BY <1>7, <1>9, <2>1 DEF Cell
  <2>6. u \in [DOMAIN all -> Cell]
    BY <1>7, <1>9, <2>1, <2>4 DEF Cell
  <2>7. u \in Trees
    BY <2>1, <2>6, MakeTree
  <2>8. Keeps(all, u, m)
    BY <1>6, <1>9, <2>4, <2>5 DEF Keeps, Own, objs
  <2>9. Keeps(t, u, m)
    BY <1>5, <2>8, KeepsTransitive
  <2>10. ASSUME Fits PROVE Sound(u)
    <3>1. Sound(all)
      BY <1>5, <2>10
    <3> QED BY <2>4, <2>5, <3>1 DEF Sound
  <2>11. Own(u, oid, m)
    BY <1>6, <1>9, <2>4, <2>5 DEF Own
  <2> QED BY <1>5, <2>5, <2>7, <2>9, <2>10, <2>11 DEF u, Fits, oid
<1> QED BY <1>8, <1>9

\* Above a node there are nodes up to the root.
LEMMA Closed ==
  ASSUME NEW t \in Trees, Sound(t), NEW p \in DOMAIN t, NEW n \in 1 .. Len(p)
  PROVE  SubSeq(p, 1, n) \in DOMAIN t
<1>1. p \in Seq(Subid) /\ Len(p) \in Nat /\ DOMAIN t \subseteq Oid \ {Nowhere}
  BY TreeFacts DEF Oid
<1> DEFINE N == Len(p) - 1
           S == {k \in 0 .. N : SubSeq(p, 1, Len(p) - k) \in DOMAIN t}
<1>2. N \in Nat /\ 0 \in 0 .. N /\ Len(p) - n \in 0 .. N
  BY <1>1
<1>3. 0 \in S
  <2>1. SubSeq(p, 1, Len(p)) = p
    BY <1>1, Parts, SameSeq
  <2>2. Len(p) - 0 = Len(p)
    BY <1>1
  <2> QED BY <1>2, <2>1, <2>2
<1>4. ASSUME NEW k \in 1 .. N, k - 1 \in S PROVE k \in S
  <2> DEFINE q == SubSeq(p, 1, Len(p) - (k - 1))
             r == SubSeq(p, 1, Len(p) - k)
  <2>1. /\ q \in DOMAIN t /\ k \in 0 .. N /\ Len(p) - k \in 1 .. Len(p)
        /\ Len(p) - k \in 0 .. Len(p) /\ Len(p) - (k - 1) \in 0 .. Len(p)
        /\ Len(p) - (k - 1) - 1 = Len(p) - k
    BY <1>1, <1>2, <1>4
  <2>2. /\ q \in Seq(Subid) /\ Len(q) = Len(p) - (k - 1)
        /\ \A j \in 1 .. Len(p) - (k - 1) : q[j] = p[j]
        /\ r \in Seq(Subid) /\ Len(r) = Len(p) - k /\ \A j \in 1 .. Len(p) - k : r[j] = p[j]
    BY <1>1, <2>1, Parts
  <2> HIDE DEF q, r
  <2>3. Front(q) \in DOMAIN t \cup {Nowhere}
    BY <2>1 DEF Sound
  <2>4. Front(q) = SubSeq(q, 1, Len(q) - 1) /\ Front(q) \in Seq(Subid)
    BY <1>1, <2>1, OidParts DEF Oid
  <2>5. Len(Front(q)) = Len(r) /\ \A j \in 1 .. Len(r) : Front(q)[j] = r[j]
    <3>1. Len(q) - 1 \in 0 .. Len(q) /\ Len(q) - 1 = Len(r)
      BY <1>1, <2>1, <2>2
    <3>2. Len(SubSeq(q, 1, Len(r))) = Len(r) /\ \A j \in 1 .. Len(r) : SubSeq(q, 1, Len(r))[j] = q[j]
      BY <2>2, <3>1, Parts
    <3>3. Front(q) = SubSeq(q, 1, Len(r))
      BY <2>4, <3>1
    <3>4. \A j \in 1 .. Len(r) : j \in 1 .. Len(p) - (k - 1) /\ j \in 1 .. Len(p) - k
      BY <1>1, <2>1, <2>2
    <3>5. \A j \in 1 .. Len(r) : q[j] = r[j]
      BY <2>2, <3>4
    <3> QED BY <3>2, <3>3, <3>5
  <2>6. Front(q) = r
    BY <2>2, <2>4, <2>5, SameSeq
  <2>7. r # Nowhere
    BY <2>1, <2>2 DEF Nowhere
  <2> QED BY <2>1, <2>3, <2>6, <2>7 DEF r
<1> HIDE DEF S, N
<1>5. Len(p) - n \in S
  BY <1>2, <1>3, <1>4, Induct
<1>6. Len(p) - (Len(p) - n) = n
  BY <1>1
<1> QED BY <1>5, <1>6 DEF S

LEMMA PrefixPart ==
  ASSUME NEW l \in Oid, NEW v \in Oid, IsPrefix(l, v)
  PROVE  l = Nowhere \/ (Len(l) \in 1 .. Len(v) /\ l = SubSeq(v, 1, Len(l)))
<1>1. /\ l \in Seq(Subid) /\ v \in Seq(Subid) /\ Len(l) <= Len(v)
      /\ l = SubSeq(v, 1, Len(l))
  <2>1. l \in Seq(Subid) /\ v \in Seq(Subid)
    BY DEF Oid
  <2>2. Len(l) <= Len(v) /\ \A j \in 1 .. Len(l) : l[j] = v[j]
    BY <2>1, PrefixFacts
  <2>3. Len(l) \in 0 .. Len(v)
    BY <2>1, <2>2
  <2>4. l = SubSeq(v, 1, Len(l))
    BY <2>1, <2>2, <2>3, Parts, SameSeq
  <2> QED BY <2>1, <2>2, <2>4
<1> QED BY <1>1 DEF Nowhere

Known(m) ==
  \A i \in DOMAIN text[m].defs :
    \/ text[m].defs[i].label \in DOMAIN node
    \/ \E j \in 1 .. i - 1 : IsPrefix(text[m].defs[i].label,
                                      text[m].defs[j].label \o text[m].defs[j].subs)

\* What a declaration stands for is a node, and the module has an object there.
Stands(m, i) == text[m].defs[i].label \o text[m].defs[i].subs
Declared(t, m, i) == Stands(m, i) = Nowhere \/ Own(t, Stands(m, i), m)

LEMMA GrownFacts ==
  ASSUME NEW m \in Module, text \in Texts, node \in Trees, Sound(node), Known(m)
  PROVE  LET u == Grown(m)
         IN  /\ u \in Trees /\ Sound(u) /\ Keeps(node, u, m)
             /\ \A i \in DOMAIN text[m].defs : Declared(u, m, i)
<1> DEFINE defs  == text[m].defs
           N     == Len(defs)
           Is(f) == f = [n \in 0 .. N |-> IF n = 0 THEN node ELSE Declare(f[n - 1], m, defs[n])]
           g     == CHOOSE f : Is(f)
           value(j) == defs[j].label \o defs[j].subs
<1>1. /\ defs \in Seq(Definition) /\ N \in Nat /\ N \in 0 .. N /\ 0 \in 0 .. N
      /\ DOMAIN defs = 1 .. N /\ \A n \in 1 .. N : defs[n] \in Definition
  <2>1. defs \in Seq(Definition)
    BY TextAssumption
  <2> HIDE DEF defs
  <2> QED BY <2>1
<1>2. Grown(m) = g[N]
  BY DEF Grown
<1>3. g \in [0 .. N -> Trees] /\ g[0] = node /\ \A n \in 1 .. N : g[n] = Declare(g[n - 1], m, defs[n])
  <2> DEFINE G == [n \in 1 .. N |-> [x \in Trees |-> Declare(x, m, defs[n])]]
  <2> HIDE DEF defs, N
  <2>1. \A n \in 1 .. N : \A x \in Trees : Declare(x, m, defs[n]) \in Trees
    BY DeclareFacts, <1>1
  <2>2. G \in [1 .. N -> [Trees -> Trees]]
    BY <2>1
  <2>3. \A n \in 1 .. N : \A x \in Trees : G[n][x] = Declare(x, m, defs[n])
    OBVIOUS
  <2> HIDE DEF G
  <2>0. Runs(N, Trees, node, G) # {}
    BY <1>1, <2>2, Iterated
  <2>4. PICK f \in [0 .. N -> Trees] : f[0] = node /\ \A n \in 1 .. N : f[n] = G[n][f[n - 1]]
    <3>1. PICK f : f \in Runs(N, Trees, node, G)
      BY <2>0
    <3> QED BY <3>1 DEF Runs
  <2>5. \A n \in 1 .. N : n - 1 \in 0 .. N /\ f[n - 1] \in Trees
    BY <1>1
  <2>6. \A n \in 1 .. N : f[n] = Declare(f[n - 1], m, defs[n])
    BY <2>3, <2>4, <2>5
  <2>7. f = [n \in 0 .. N |-> f[n]]
    BY <2>4
  <2>8. \A n \in 0 .. N : f[n] = IF n = 0 THEN node ELSE Declare(f[n - 1], m, defs[n])
    BY <1>1, <2>4, <2>6
  <2>9. Is(f)
    BY <2>7, <2>8
  <2>10. Is(g)
    BY <2>9
  <2>11. \A n \in 0 .. N : g[n] = IF n = 0 THEN node ELSE Declare(g[n - 1], m, defs[n])
    BY <2>10
  <2>12. DOMAIN g = 0 .. N /\ g = [n \in 0 .. N |-> g[n]]
    BY <2>10
  <2> HIDE DEF g, Is
  <2> DEFINE S == {n \in 0 .. N : g[n] \in Trees}
  <2>13. 0 \in S
    BY <1>1, <2>11
  <2>14. \A n \in 1 .. N : n - 1 \in S => n \in S
    <3>1. ASSUME NEW n \in 1 .. N, g[n - 1] \in Trees PROVE g[n] \in Trees
      <4>1. n \in 0 .. N /\ n # 0
        BY <1>1
      <4>2. g[n] = Declare(g[n - 1], m, defs[n]) /\ defs[n] \in Definition
        BY <1>1, <2>11, <4>1
      <4> DEFINE x == g[n - 1]
                 d == defs[n]
                 y == g[n]
      <4>5. x \in Trees /\ d \in Definition /\ y = Declare(x, m, d)
        BY <3>1, <4>2
      <4> HIDE DEF x, d, y
      <4>6. y \in Trees
        BY <4>5, DeclareFacts
      <4> QED BY <4>6 DEF y
    <3> QED BY <3>1, <1>1, \A n \in 1 .. N : n \in 0 .. N /\ n - 1 \in 0 .. N
  <2> HIDE DEF S
  <2>15. \A n \in 0 .. N : n \in S
    BY <1>1, <2>13, <2>14, Induct
  <2>16. g \in [0 .. N -> Trees]
    BY <2>12, <2>15 DEF S
  <2>17. \A n \in 1 .. N : n \in 0 .. N /\ n # 0
    BY <1>1
  <2> QED BY <1>1, <2>11, <2>16, <2>17
<1>4. \A i \in 1 .. N : \/ defs[i].label \in DOMAIN node
                         \/ \E j \in 1 .. i - 1 : IsPrefix(defs[i].label, value(j))
  BY <1>1 DEF Known
<1> HIDE DEF g, Is, defs, N
<1> DEFINE Right(n) == /\ Sound(g[n]) /\ Keeps(node, g[n], m)
                       /\ \A j \in 1 .. n : value(j) = Nowhere \/ Own(g[n], value(j), m)
<1>5. Right(0)
  BY <1>3, KeepsItself
<1>6. ASSUME NEW n \in 1 .. N, Right(n - 1) PROVE Right(n)
  <2>1. /\ n - 1 \in 0 .. N /\ n \in 0 .. N /\ g[n - 1] \in Trees /\ g[n] \in Trees
        /\ g[n] = Declare(g[n - 1], m, defs[n]) /\ defs[n] \in Definition
        /\ \A j \in 1 .. n - 1 : defs[j] \in Definition /\ j \in 1 .. N
    BY <1>1, <1>3
  <2> DEFINE x == g[n - 1]
             d == defs[n]
             y == g[n]
  <2>2. d.label \in DOMAIN x \cup {Nowhere} /\ d.label \in Oid
    <3>1. d.label \in Oid
      BY <2>1 DEF Definition
    <3>2. CASE d.label \in DOMAIN node
      BY <1>6, <3>1, <3>2 DEF Keeps
    <3>3. ASSUME NEW j \in 1 .. n - 1, IsPrefix(d.label, value(j))
          PROVE  d.label \in DOMAIN x \cup {Nowhere}
      <4>1. value(j) \in DOMAIN x \cup {Nowhere} /\ DOMAIN x \subseteq Oid
        BY <1>6, <2>1, TreeFacts DEF Own
      <4>2. value(j) \in Oid
        BY <4>1, OidFacts
      <4> DEFINE v == value(j)
                 l == d.label
      <4>3. l \in Oid /\ v \in Oid /\ v \in DOMAIN x \cup {Nowhere} /\ IsPrefix(l, v)
        BY <3>1, <3>3, <4>1, <4>2
      <4> HIDE DEF v, l, x
      <4>4. l = Nowhere \/ (Len(l) \in 1 .. Len(v) /\ l = SubSeq(v, 1, Len(l)))
        BY <4>3, PrefixPart
      <4>5. ASSUME v = Nowhere PROVE l \in DOMAIN x \cup {Nowhere}
        <5>1. Len(v) = 0
          BY <4>5 DEF Nowhere
        <5> QED BY <4>4, <5>1
      <4>6. ASSUME v # Nowhere PROVE l \in DOMAIN x \cup {Nowhere}
        <5>1. v \in DOMAIN x /\ x \in Trees /\ Sound(x)
          BY <1>6, <2>1, <4>3, <4>6 DEF x
        <5> QED BY <4>4, <5>1, Closed
      <4> QED BY <4>5, <4>6 DEF l, x
    <3> QED BY <1>4, <2>1, <3>1, <3>2, <3>3
  <2>3. /\ x \in Trees /\ d \in Definition /\ y = Declare(x, m, d) /\ Sound(x)
        /\ Keeps(node, x, m) /\ \A j \in 1 .. n - 1 : value(j) = Nowhere \/ Own(x, value(j), m)
    BY <1>6, <2>1
  <2> HIDE DEF x, d, y
  <2>4. /\ Sound(y) /\ Keeps(x, y, m) /\ DOMAIN y = DOMAIN x \cup Values(d)
        /\ d.label \o d.subs \in DOMAIN y => Own(y, d.label \o d.subs, m)
    BY <2>2, <2>3, DeclareFacts
  <2>5. Keeps(node, y, m)
    BY <2>3, <2>4, KeepsTransitive
  <2>6. d.label \o d.subs \in DOMAIN y \cup {Nowhere}
    <3>1. Len(d.subs) \in Nat /\ Len(d.subs) \in 0 .. Len(d.subs) /\ 0 \in 0 .. Len(d.subs)
      BY <2>3 DEF Definition, Oid
    <3>2. /\ Value(d, 0) = d.label /\ Value(d, Len(d.subs)) = d.label \o d.subs
      BY <2>3, <3>1, ValueFacts
    <3>3. CASE Len(d.subs) = 0
      BY <2>2, <2>4, <3>2, <3>3
    <3>4. CASE Len(d.subs) # 0
      <4>1. Len(d.subs) \in 1 .. Len(d.subs)
        BY <3>1, <3>4
      <4> QED BY <2>4, <3>2, <4>1 DEF Values
    <3> QED BY <3>3, <3>4
  <2>7. ASSUME NEW j \in 1 .. n PROVE value(j) = Nowhere \/ Own(y, value(j), m)
    <3>1. j = n \/ j \in 1 .. n - 1
      BY <2>1
    <3>2. CASE j = n
      BY <2>4, <2>6, <3>2 DEF d
    <3>3. CASE j \in 1 .. n - 1
      <4>1. value(j) = Nowhere \/ (Own(x, value(j), m) /\ value(j) \in DOMAIN x)
        BY <2>3, <3>3 DEF Own
      <4> QED BY <2>4, <4>1 DEF Keeps
    <3> QED BY <3>1, <3>2, <3>3
  <2> QED BY <2>4, <2>5, <2>7 DEF y
<1> DEFINE S == {n \in 0 .. N : Right(n)}
<1>7. N \in S
  <2> HIDE DEF Right
  <2>1. 0 \in S
    BY <1>1, <1>5
  <2>2. \A n \in 1 .. N : n - 1 \in S => n \in S
    BY <1>1, <1>6
  <2> HIDE DEF S
  <2> QED BY <1>1, <2>1, <2>2, Induct
<1>8. g[N] \in Trees /\ Right(N)
  BY <1>1, <1>3, <1>7
<1>9. \A i \in DOMAIN defs : Declared(g[N], m, i)
  BY <1>1, <1>8 DEF Declared, Stands, defs
<1> QED BY <1>2, <1>8, <1>9 DEF defs

NodesInv ==
  /\ text \in Texts
  /\ loaded \subseteq Module
  /\ node \in Trees
  /\ Sound(node)
  /\ \A p \in DOMAIN node : \A o \in ToSet(node[p].objs) : o.mod \in loaded \cup {""}
  /\ \A m \in loaded : \A i \in DOMAIN text[m].defs : Declared(node, m, i)

\* smiLoadModule() adds nodes, and objects of the module that is loaded.
LEMMA LoadFacts ==
  ASSUME NodesInv, NEW m \in Module, smiLoadModule(m)
  PROVE  /\ NodesInv' /\ m \notin loaded /\ loaded' = loaded \cup {m}
         /\ DOMAIN node \subseteq DOMAIN node'
         /\ text' = text /\ walk' = walk /\ kids' = kids
<1> DEFINE tree == Grown(m)
           own  == OidsOf(tree, m)
           full == [o \in DOMAIN tree |-> [tree[o] EXCEPT !.oid = @ \/ o \in own]]
<1>1. /\ m \notin loaded /\ loaded' = loaded \cup {m} /\ text' = text
      /\ walk' = walk /\ kids' = kids /\ node' \in {tree, full}
  BY DEF smiLoadModule
<1>2. Known(m)
  BY DEF smiLoadModule, Known
<1>3. /\ tree \in Trees /\ Sound(tree) /\ Keeps(node, tree, m)
      /\ \A i \in DOMAIN text[m].defs : Declared(tree, m, i)
  BY <1>2, GrownFacts DEF NodesInv
<1> HIDE DEF tree, own
<1>4. full \in Trees /\ Sound(full) /\ DOMAIN full = DOMAIN tree
      /\ \A p \in DOMAIN tree : full[p].objs = tree[p].objs
  <2>1. ASSUME NEW o \in DOMAIN tree
        PROVE  /\ [tree[o] EXCEPT !.oid = @ \/ o \in own] \in Cell
               /\ [tree[o] EXCEPT !.oid = @ \/ o \in own].objs = tree[o].objs
    <3>1. tree[o] \in Cell
      BY <1>3, TreeFacts
    <3>2. (tree[o].oid \/ o \in own) \in BOOLEAN
      OBVIOUS
    <3> QED BY <3>1, <3>2 DEF Cell
  <2>2. full \in [DOMAIN tree -> Cell]
    BY <2>1
  <2>3. DOMAIN full = DOMAIN tree /\ \A p \in DOMAIN tree : full[p].objs = tree[p].objs
    BY <2>1
  <2>4. DOMAIN tree \in SUBSET (Oid \ {Nowhere})
    BY <1>3, TreeFacts
  <2> HIDE DEF full
  <2>5. full \in Trees
    BY <2>2, <2>4, MakeTree
  <2> QED BY <1>3, <2>3, <2>5 DEF Sound
<1> HIDE DEF full
<1>5. /\ node' \in Trees /\ DOMAIN node' = DOMAIN tree
      /\ \A p \in DOMAIN tree : node'[p].objs = tree[p].objs
  BY <1>1, <1>3, <1>4
<1>6. Sound(node')
  BY <1>1, <1>3, <1>4
<1>7. ASSUME NEW p \in DOMAIN node', NEW o \in ToSet(node'[p].objs)
      PROVE  o.mod \in loaded' \cup {""}
  <2>1. p \in DOMAIN tree /\ o \in ToSet(tree[p].objs) /\ o \in Object
    <3>1. tree[p].objs \in Seq(Object)
      BY <1>3, <1>5, TreeFacts
    <3>2. o \in ToSet(tree[p].objs)
      BY <1>5
    <3> HIDE DEF tree
    <3> QED BY <1>5, <3>1, <3>2 DEF ToSet
  <2>2. CASE o.mod = m
    BY <1>1, <2>2
  <2>3. CASE o.mod # m
    BY <1>1, <1>3, <2>1, <2>3 DEF Keeps, NodesInv
  <2> QED BY <2>2, <2>3
<1>9. ASSUME NEW k \in loaded', NEW i \in DOMAIN text'[k].defs
      PROVE  Declared(node, k, i)'
  <2>1. Declared(tree, k, i)
    <3>1. CASE k = m
      BY <1>1, <1>3, <3>1
    <3>2. CASE k # m
      <4>1. Stands(k, i) = Nowhere \/ Own(node, Stands(k, i), k)
        BY <1>1, <3>2 DEF NodesInv, Declared
      <4>2. ASSUME Own(node, Stands(k, i), k) PROVE Own(tree, Stands(k, i), k)
        <5>1. Stands(k, i) \in DOMAIN node /\ Stands(k, i) \in DOMAIN tree
          BY <1>3, <4>2 DEF Own, Keeps
        <5>2. PICK o \in ToSet(node[Stands(k, i)].objs) : o.mod = k
          BY <4>2 DEF Own
        <5>3. o \in Object
          <6> DEFINE s == node[Stands(k, i)].objs
          <6>1. s \in Seq(Object) /\ o \in ToSet(s)
            BY <5>1, TreeFacts DEF NodesInv
          <6> HIDE DEF s
          <6> QED BY <6>1 DEF ToSet
        <5> QED BY <1>3, <3>2, <5>1, <5>2, <5>3 DEF Own, Keeps
      <4> QED BY <4>1, <4>2 DEF Declared
    <3> QED BY <3>1, <3>2
  <2>2. Stands(k, i)' = Stands(k, i)
    BY <1>1 DEF Stands
  <2> QED BY <1>5, <2>1, <2>2 DEF Declared, Own
<1>8. NodesInv'
  BY <1>1, <1>5, <1>6, <1>7, <1>9 DEF NodesInv, Sound
<1> QED BY <1>1, <1>3, <1>5, <1>8 DEF Keeps

-----------------------------------------------------------------------------
(* The children of a node.                                                 *)

KidsInv ==
  /\ kids \in [st : {"going", "ended"}, of : Oid, had : SUBSET Oid, seen : Seq(Oid)]
  /\ kids.had \subseteq Children(kids.of)
  /\ ToSet(kids.seen) \subseteq Children(kids.of)
  /\ Ascending(kids.seen)
  /\ kids.st = "going" =>
       kids.seen # <<>> /\ \A q \in kids.had : q \in ToSet(kids.seen) \/ Before(Last(kids.seen), q)
  /\ kids.st = "ended" => kids.had \subseteq ToSet(kids.seen)

LEMMA ChildFacts ==
  ASSUME NodesInv, NEW p
  PROVE  /\ Children(p) \subseteq DOMAIN node /\ Children(p) \in SUBSET Oid
         /\ IsFiniteSet(Children(p)) /\ \A q \in Children(p) : Front(q) = p
         /\ IsFiniteSet(DOMAIN node) /\ DOMAIN node \subseteq Oid \ {Nowhere}
<1>1. DOMAIN node \subseteq Oid \ {Nowhere} /\ IsFiniteSet(DOMAIN node)
  BY TreeFacts DEF NodesInv, Sound
<1>2. Children(p) \in SUBSET DOMAIN node /\ \A q \in Children(p) : Front(q) = p
  BY DEF Children
<1>3. IsFiniteSet(Children(p))
  BY <1>1, <1>2, FS_Subset
<1> QED BY <1>1, <1>2, <1>3

LEMMA Onward_ ==
  ASSUME NEW s \in Seq(Oid), s # <<>>, Ascending(s), NEW p \in Oid, Before(Last(s), p)
  PROVE  Ascending(Append(s, p)) /\ Last(Append(s, p)) = p
<1> DEFINE a == Append(s, p)
           N == Len(s)
<1>1. /\ N \in Nat \ {0} /\ DOMAIN s = 1 .. N /\ DOMAIN a = 1 .. N + 1 /\ a[N + 1] = p
      /\ Len(a) = N + 1 /\ \A i \in 1 .. N : a[i] = s[i] /\ s[i] \in Oid
  OBVIOUS
<1>2. Last(s) = s[N] /\ Last(a) = a[Len(a)]
  BY DEF Last
<1> HIDE DEF a, N
<1>3. ASSUME NEW i \in DOMAIN a, NEW j \in DOMAIN a, i < j PROVE Before(a[i], a[j])
  <2>1. i \in 1 .. N /\ (j \in 1 .. N \/ j = N + 1)
    BY <1>1, <1>3
  <2>2. CASE j \in 1 .. N
    BY <1>1, <1>3, <2>1, <2>2 DEF Ascending
  <2>3. CASE j = N + 1 /\ i = N
    BY <1>1, <1>2, <2>1, <2>3
  <2>4. CASE j = N + 1 /\ i # N
    <3>1. i < N /\ N \in 1 .. N
      BY <1>1, <2>1, <2>4
    <3>2. Before(s[i], s[N]) /\ Before(s[N], p)
      BY <1>1, <1>2, <2>1, <3>1 DEF Ascending
    <3>3. s[i] \in Seq(Nat) /\ s[N] \in Seq(Nat) /\ p \in Seq(Nat)
      BY <1>1, <2>1, <3>1, OidFacts
    <3>4. Before(s[i], p)
      BY <3>2, <3>3, BeforeTransitive
    <3> QED BY <1>1, <2>1, <2>4, <3>4
  <2> QED BY <2>1, <2>2, <2>3, <2>4
<1> QED BY <1>1, <1>2, <1>3 DEF Ascending, a

LEMMA KidsStep ==
  ASSUME NodesInv, KidsInv, smiGetNextChildNode
  PROVE  KidsInv'
<1> DEFINE p == Last(kids.seen)
           S == {q \in Children(Front(p)) : Before(p, q)}
           next == NextPtr(p)
<1>1. /\ kids.st = "going" /\ node' = node
      /\ kids' = IF next = NULL THEN [kids EXCEPT !.st = "ended"]
                 ELSE [kids EXCEPT !.seen = Append(@, next)]
  BY DEF smiGetNextChildNode
<1>2. kids.seen \in Seq(Oid) /\ kids.seen # <<>>
  BY <1>1 DEF KidsInv
<1>3. p \in ToSet(kids.seen) /\ p \in Oid
  BY <1>2, Split
<1>4. Front(p) = kids.of /\ p \in Children(kids.of)
  BY <1>3, ChildFacts DEF KidsInv
<1>5. S \in SUBSET Oid /\ IsFiniteSet(S) /\ S \subseteq Children(kids.of)
  <2>1. S \in SUBSET Children(kids.of)
    BY <1>4
  <2> HIDE DEF S
  <2> QED BY <2>1, ChildFacts, FS_Subset
<1>6. next = FirstOf(S)
  BY DEF NextPtr
<1>7. \A q \in kids.had : q \in ToSet(kids.seen) \/ q \in S
  BY <1>1, <1>4 DEF KidsInv
<1>8. \A q \in S : Before(p, q)
  OBVIOUS
<1> HIDE DEF p, S, next
<1>10. CASE next = NULL
  <2>1. S = {}
    BY <1>5, <1>6, <1>10, FirstFacts
  <2>2. kids' = [kids EXCEPT !.st = "ended"]
    BY <1>1, <1>10
  <2>3. /\ kids' \in [st : {"going", "ended"}, of : Oid, had : SUBSET Oid, seen : Seq(Oid)]
        /\ kids'.st = "ended" /\ kids'.of = kids.of /\ kids'.had = kids.had /\ kids'.seen = kids.seen
    BY <2>2 DEF KidsInv
  <2>4. Children(kids.of)' = Children(kids.of)
    BY <1>1, <2>3 DEF Children
  <2> QED BY <1>7, <2>1, <2>3, <2>4 DEF KidsInv
<1>11. CASE next # NULL
  <2>1. S # {} /\ next \in S /\ \A q \in S \ {next} : Before(next, q)
    BY <1>5, <1>6, <1>11, FirstFacts
  <2>2. kids' = [kids EXCEPT !.seen = Append(kids.seen, next)]
    BY <1>1, <1>11
  <2>3. next \in Oid /\ Before(Last(kids.seen), next) /\ next \in Children(kids.of)
    BY <1>5, <1>8, <2>1 DEF p
  <2>4. /\ Append(kids.seen, next) \in Seq(Oid) /\ Append(kids.seen, next) # <<>>
        /\ ToSet(Append(kids.seen, next)) = ToSet(kids.seen) \cup {next}
        /\ Last(Append(kids.seen, next)) = next /\ Ascending(Append(kids.seen, next))
    BY <1>2, <2>3, Appended, Onward_ DEF KidsInv
  <2>5. /\ kids' \in [st : {"going", "ended"}, of : Oid, had : SUBSET Oid, seen : Seq(Oid)]
        /\ kids'.st = "going" /\ kids'.of = kids.of /\ kids'.had = kids.had
        /\ kids'.seen = Append(kids.seen, next)
    BY <1>1, <2>2, <2>4 DEF KidsInv
  <2>6. Children(kids.of)' = Children(kids.of)
    BY <1>1, <2>5 DEF Children
  <2> QED BY <1>7, <2>1, <2>3, <2>4, <2>5, <2>6 DEF KidsInv
<1> QED BY <1>10, <1>11

LEMMA KidsFirst ==
  ASSUME NodesInv, NEW p \in DOMAIN node, smiGetFirstChildNode(p)
  PROVE  KidsInv'
<1> DEFINE c == Children(p)
           first == FirstOf(c)
<1>1. node' = node
      /\ kids' = [st   |-> IF c = {} THEN "ended" ELSE "going", of |-> p, had |-> c,
                  seen |-> IF c = {} THEN <<>> ELSE <<first>>]
  BY DEF smiGetFirstChildNode, FirstChild
<1>2. c \in SUBSET Oid /\ IsFiniteSet(c) /\ p \in Oid
  BY ChildFacts
<1>3. Children(p)' = c
  BY <1>1 DEF Children
<1> HIDE DEF c, first
<1>4. CASE c = {}
  <2>1. kids' = [st |-> "ended", of |-> p, had |-> c, seen |-> <<>>]
    BY <1>1, <1>4
  <2>2. kids'.st = "ended" /\ kids'.of = p /\ kids'.had = c /\ kids'.seen = <<>>
        /\ kids' \in [st : {"going", "ended"}, of : Oid, had : SUBSET Oid, seen : Seq(Oid)]
    BY <1>2, <2>1
  <2>3. ToSet(<<>>) = {} /\ Ascending(<<>>)
    BY DEF ToSet, Ascending
  <2> QED BY <1>3, <1>4, <2>2, <2>3 DEF KidsInv
<1>5. CASE c # {}
  <2>1. first \in c /\ \A q \in c \ {first} : Before(first, q)
    BY <1>2, <1>5, FirstFacts DEF first
  <2>2. kids' = [st |-> "going", of |-> p, had |-> c, seen |-> <<first>>]
    BY <1>1, <1>5
  <2>3. kids'.st = "going" /\ kids'.of = p /\ kids'.had = c /\ kids'.seen = <<first>>
        /\ kids' \in [st : {"going", "ended"}, of : Oid, had : SUBSET Oid, seen : Seq(Oid)]
    BY <1>2, <2>1, <2>2
  <2>4. ToSet(<<first>>) = {first} /\ Ascending(<<first>>) /\ Last(<<first>>) = first
        /\ <<first>> # <<>>
    BY DEF ToSet, Ascending, Last
  <2> QED BY <1>3, <2>1, <2>3, <2>4 DEF KidsInv
<1> QED BY <1>4, <1>5

\* The children of a node remain when others are inserted between them.
LEMMA KidsKept ==
  ASSUME KidsInv, kids' = kids, DOMAIN node \subseteq DOMAIN node'
  PROVE  KidsInv'
<1>1. Children(kids.of) \subseteq Children(kids.of)'
  BY DEF Children
<1> QED BY <1>1 DEF KidsInv

-----------------------------------------------------------------------------
(* The lists.                                                              *)

\* What NextOf() returns for the set of the places that are wanted.
Low(L) == IF L = {} THEN 0 ELSE CHOOSE i \in L : \A j \in L : i <= j

LEMMA LowFacts ==
  ASSUME NEW L \in SUBSET Nat
  PROVE  L # {} => Low(L) \in L /\ \A j \in L : Low(L) <= j
BY Least DEF Low

\* The order of the modules, and the way through it.
Dummy   == ""
Places  == Module \cup {Dummy}
OrderInv ==
  /\ order \in Seq(Places) /\ Len(order) # 0 /\ order[1] = Dummy
  /\ \A i \in 2 .. Len(order) : order[i] \in loaded
  /\ \A i, j \in 1 .. Len(order) : order[i] = order[j] => i = j
  /\ \A m \in loaded : \E i \in 2 .. Len(order) : order[i] = m
TourInv ==
  /\ tour \in Seq(Module) /\ Len(tour) + 1 <= Len(order)
  /\ \A i \in 1 .. Len(tour) : tour[i] = order[i + 1]

LEMMA OrderGrows ==
  ASSUME NodesInv, OrderInv, TourInv, NEW m \in Module, smiLoadModule(m),
         order' = Append(order, m), tour' = tour
  PROVE  OrderInv' /\ TourInv'
<1> DEFINE a == Append(order, m)
           N == Len(order)
<1>1. /\ N \in Nat \ {0} /\ a \in Seq(Places) /\ a[N + 1] = m
      /\ Len(a) = N + 1 /\ \A i \in 1 .. N : a[i] = order[i]
  <2>1. m \in Places /\ order \in Seq(Places)
    BY DEF OrderInv, Places
  <2>2. Len(order) # 0
    BY DEF OrderInv
  <2> QED BY <2>1, <2>2
<1>2. m \notin loaded /\ loaded' = loaded \cup {m} /\ m # Dummy
  BY LoadFacts, NullAssumption DEF Dummy
<1>3. \A i \in 1 .. N : order[i] \in loaded \cup {Dummy}
  <2>1. \A i \in 1 .. N : i = 1 \/ i \in 2 .. N
    BY <1>1
  <2> QED BY <2>1 DEF OrderInv
<1> HIDE DEF a, N
<1>4. \A i \in 1 .. N + 1 : i \in 1 .. N \/ i = N + 1
  BY <1>1
<1>5. \A i, j \in 1 .. N + 1 : a[i] = a[j] => i = j
  <2>1. \A i, j \in 1 .. N : a[i] = a[j] => i = j
    BY <1>1 DEF OrderInv, N
  <2>2. \A i \in 1 .. N : a[i] # a[N + 1]
    BY <1>1, <1>2, <1>3
  <2> QED BY <1>4, <2>1, <2>2
<1>6. \A i \in 2 .. N + 1 : a[i] \in loaded \cup {m}
  <2>1. \A i \in 2 .. N + 1 : i = N + 1 \/ i \in 2 .. N
    BY <1>1
  <2>2. \A i \in 2 .. N : i \in 1 .. N /\ order[i] \in loaded
    BY <1>1 DEF OrderInv, N
  <2> QED BY <1>1, <2>1, <2>2
<1>7. \A k \in loaded \cup {m} : \E i \in 2 .. N + 1 : a[i] = k
  <2>1. ASSUME NEW k \in loaded PROVE \E i \in 2 .. N + 1 : a[i] = k
    <3>1. PICK i \in 2 .. N : order[i] = k
      BY DEF OrderInv, N
    <3>2. i \in 1 .. N /\ i \in 2 .. N + 1
      BY <1>1
    <3> QED BY <1>1, <3>1, <3>2
  <2>2. N + 1 \in 2 .. N + 1
    BY <1>1
  <2> QED BY <1>1, <2>1, <2>2
<1>8. order' = a /\ Len(order') = N + 1 /\ 1 \in 1 .. N
  BY <1>1 DEF a
<1>9. OrderInv'
  BY <1>1, <1>2, <1>5, <1>6, <1>7, <1>8 DEF OrderInv
<1>10. TourInv'
  <2>1. Len(tour) + 1 <= N /\ Len(tour) \in Nat
    BY DEF TourInv, N
  <2>2. Len(tour) + 1 <= N + 1 /\ \A i \in 1 .. Len(tour) : i + 1 \in 1 .. N
    BY <1>1, <2>1
  <2>3. \A i \in 1 .. Len(tour) : tour[i] = a[i + 1]
    BY <1>1, <2>2 DEF TourInv
  <2> QED BY <1>8, <2>2, <2>3 DEF TourInv
<1> QED BY <1>9, <1>10

LEMMA NextModuleFacts ==
  ASSUME NodesInv, OrderInv, NEW k \in 0 .. Len(order)
  PROVE  LET n == NextModule(k)
         IN  n # 0 => /\ k < Len(order) /\ n = (IF k = 0 THEN 2 ELSE k + 1)
                      /\ n \in 2 .. Len(order)
<1> DEFINE L == {i \in DOMAIN order : i > k /\ order[i] # Dummy}
           n == NextModule(k)
<1>1. n = Low(L)
  BY DEF NextModule, NextOf, Low, Dummy
<1>2. /\ DOMAIN order = 1 .. Len(order) /\ Len(order) \in Nat /\ order[1] = Dummy
      /\ \A i \in 2 .. Len(order) : order[i] # Dummy
  <2>1. \A i \in 2 .. Len(order) : order[i] \in Module
    BY DEF OrderInv, NodesInv
  <2>2. Dummy \notin Module
    BY NullAssumption DEF Dummy
  <2> QED BY <2>1, <2>2 DEF OrderInv
<1>3. ASSUME n # 0 PROVE L # {}
  BY <1>1, <1>3 DEF Low
<1>4. L \subseteq 2 .. Len(order) /\ \A i \in L : i > k
  <2>1. \A i \in 1 .. Len(order) : i = 1 \/ i \in 2 .. Len(order)
    BY <1>2
  <2> QED BY <1>2, <2>1
<1>5. \A i \in 2 .. Len(order) : i > k => i \in L
  BY <1>2
<1>6. L \in SUBSET Nat
  BY <1>4
<1> HIDE DEF L, n
<1>7. ASSUME n # 0
      PROVE  k < Len(order) /\ n = (IF k = 0 THEN 2 ELSE k + 1) /\ n \in 2 .. Len(order)
  <2>1. n \in L /\ \A j \in L : n <= j
    BY <1>1, <1>3, <1>6, <1>7, LowFacts
  <2>2. n \in 2 .. Len(order) /\ n > k
    BY <1>4, <2>1
  <2>3. CASE k = 0
    <3>1. 2 \in L
      BY <1>2, <1>5, <2>2, <2>3
    <3> QED BY <2>1, <2>2, <2>3, <3>1
  <2>4. CASE k # 0
    <3>1. k + 1 \in L
      BY <1>2, <1>5, <2>2, <2>4
    <3> QED BY <2>1, <2>2, <2>4, <3>1
  <2> QED BY <2>3, <2>4
<1> QED BY <1>7 DEF n

LEMMA TourFirst ==
  ASSUME NodesInv, OrderInv, TourInv, smiGetFirstModule
  PROVE  OrderInv' /\ TourInv'
<1>1. tour' = <<order[NextModule(0)]>> /\ NextModule(0) # 0 /\ order' = order /\ loaded' = loaded
  BY DEF smiGetFirstModule, vars
<1>2. Len(order) \in Nat /\ 0 \in 0 .. Len(order)
  BY DEF OrderInv
<1>3. NextModule(0) = 2 /\ 2 \in 2 .. Len(order)
  BY <1>1, <1>2, NextModuleFacts
<1>4. order[2] \in Module
  BY <1>3 DEF OrderInv, NodesInv
<1>5. tour' = <<order[2]>> /\ tour' \in Seq(Module) /\ Len(tour') = 1 /\ tour'[1] = order[2]
  BY <1>1, <1>3, <1>4
<1>6. \A i \in 1 .. 1 : i = 1
  OBVIOUS
<1>7. TourInv'
  BY <1>1, <1>2, <1>3, <1>5, <1>6 DEF TourInv
<1> QED BY <1>1, <1>7 DEF OrderInv

LEMMA TourNext ==
  ASSUME NodesInv, OrderInv, TourInv, smiGetNextModule
  PROVE  OrderInv' /\ TourInv'
<1> DEFINE L == {i \in DOMAIN order : i > 0 /\ order[i] = Last(tour)}
           n == Low(L)
           k == NextModule(n)
           N == Len(tour)
<1>1. /\ NextOf(order, 0, LAMBDA m : m = Last(tour)) = n
  BY DEF NextOf, Low
<1>2. tour # <<>> /\ k # 0 /\ tour' = Append(tour, order[k]) /\ order' = order /\ loaded' = loaded
  BY <1>1 DEF smiGetNextModule, vars
<1>3. /\ N \in Nat /\ N # 0 /\ N + 1 \in 1 .. Len(order) /\ DOMAIN order = 1 .. Len(order)
      /\ Last(tour) = order[N + 1] /\ Len(order) \in Nat
  BY <1>2 DEF TourInv, OrderInv, Last
<1>4. L = {N + 1}
  BY <1>3 DEF OrderInv
<1>5. n = N + 1
  <2>1. L \in SUBSET Nat /\ L # {}
    BY <1>3, <1>4
  <2> HIDE DEF L
  <2> QED BY <1>4, <2>1, LowFacts
<1> HIDE DEF L, n, k
<1>6. k = N + 2 /\ k \in 2 .. Len(order)
  <2>1. n \in 0 .. Len(order) /\ n # 0
    BY <1>3, <1>5
  <2>2. k = n + 1 /\ k \in 2 .. Len(order)
    BY <1>2, <2>1, NextModuleFacts DEF k
  <2> QED BY <1>3, <1>5, <2>2
<1>7. order[k] \in Module /\ tour \in Seq(Module)
  BY <1>6 DEF OrderInv, NodesInv, TourInv
<1> DEFINE a == Append(tour, order[k])
<1>8. a \in Seq(Module) /\ Len(a) = N + 1 /\ a[N + 1] = order[k] /\ \A i \in 1 .. N : a[i] = tour[i]
  BY <1>7
<1> HIDE DEF a, N
<1>9. \A i \in 1 .. N + 1 : a[i] = order[i + 1]
  <2>1. \A i \in 1 .. N + 1 : i = N + 1 \/ i \in 1 .. N
    BY <1>3
  <2>2. \A i \in 1 .. N : a[i] = order[i + 1]
    BY <1>8 DEF TourInv, N
  <2>3. a[N + 1] = order[N + 1 + 1]
    BY <1>3, <1>6, <1>8
  <2> QED BY <2>1, <2>2, <2>3
<1>10. TourInv'
  <2>1. N + 1 + 1 <= Len(order)
    BY <1>3, <1>6
  <2> QED BY <1>2, <1>8, <1>9, <2>1 DEF TourInv, a
<1> QED BY <1>2, <1>10 DEF OrderInv

\* The places in W after j, of a list of N elements; and those that are returned
\* when every call returns the next of them.
After(N, W, j) == {i \in 1 .. N : i > j /\ i \in W}
Passed(N, W)   == {k \in 1 .. N : k = Low(After(N, W, 0))
                                  \/ \E j \in 1 .. k - 1 : Low(After(N, W, j)) = k}

LEMMA PassedFacts ==
  ASSUME NEW N \in Nat, NEW W \in SUBSET (1 .. N)
  PROVE  Passed(N, W) = W
<1>1. ASSUME NEW j \in Nat PROVE After(N, W, j) \in SUBSET Nat
  BY DEF After
<1>2. ASSUME NEW j \in Nat, NEW k \in 1 .. N, k = Low(After(N, W, j)) PROVE k \in W
  <2>1. After(N, W, j) # {}
    BY <1>2 DEF Low
  <2>2. k \in After(N, W, j)
    BY <1>1, <1>2, <2>1, LowFacts
  <2> QED BY <2>2 DEF After
<1>3. ASSUME NEW k \in W PROVE Low(After(N, W, k - 1)) = k
  <2>1. k \in After(N, W, k - 1) /\ k - 1 \in Nat /\ \A i \in After(N, W, k - 1) : k <= i
    BY DEF After
  <2>2. /\ Low(After(N, W, k - 1)) \in After(N, W, k - 1) /\ Low(After(N, W, k - 1)) <= k
    BY <1>1, <2>1, LowFacts
  <2>3. Low(After(N, W, k - 1)) \in Nat /\ k \in Nat
    BY <1>1, <2>1, <2>2
  <2> QED BY <2>1, <2>2, <2>3
<1>4. ASSUME NEW k \in Passed(N, W) PROVE k \in W
  <2>1. k \in 1 .. N /\ \E j \in Nat : k = Low(After(N, W, j))
    BY DEF Passed
  <2> QED BY <1>2, <2>1
<1>5. ASSUME NEW k \in W PROVE k \in Passed(N, W)
  <2>1. k \in 1 .. N /\ (k - 1 = 0 \/ k - 1 \in 1 .. k - 1)
    OBVIOUS
  <2> QED BY <1>3, <2>1 DEF Passed
<1> QED BY <1>4, <1>5

LEMMA ListFacts ==
  ASSUME NEW s, IsList(s)
  PROVE  Len(s) \in Nat /\ DOMAIN s = 1 .. Len(s)
BY DEF IsList

LEMMA TypesToured ==
  ASSUME NEW m \in Module
  PROVE  Toured(TypesOf[m], smiGetFirstType(m), LAMBDA k : smiGetNextType(m, k))
           = {k \in DOMAIN TypesOf[m] : TypesOf[m][k].name # NULL /\ Real(TypesOf[m][k])}
<1> DEFINE s == TypesOf[m]
           N == Len(s)
           W == {k \in DOMAIN s : s[k].name # NULL /\ Real(s[k])}
<1>1. N \in Nat /\ DOMAIN s = 1 .. N
  BY ListFacts, ListAssumption
<1>2. ASSUME NEW j \in Nat PROVE smiGetNextType(m, j) = Low(After(N, W, j))
  <2> DEFINE L == {i \in DOMAIN s : i > j /\ s[i].name # NULL /\ Real(s[i])}
  <2>1. smiGetNextType(m, j) = Low(L)
    BY DEF smiGetNextType, NextOf, Low
  <2>2. L = After(N, W, j)
    BY <1>1 DEF After
  <2> QED BY <2>1, <2>2
<1>3. smiGetFirstType(m) = smiGetNextType(m, 0)
  BY DEF smiGetFirstType, smiGetNextType
<1> DEFINE all == Toured(s, smiGetFirstType(m), LAMBDA k : smiGetNextType(m, k))
<1>4. all =
        {k \in DOMAIN s : k = smiGetFirstType(m) \/ \E j \in 1 .. k - 1 : smiGetNextType(m, j) = k}
  BY DEF Toured
<1>5. W \in SUBSET (1 .. N)
  BY <1>1
<1> HIDE DEF s, N, all, W
<1>6. all = Passed(N, W)
  <2>1. \A k \in 1 .. N : \A j \in 1 .. k - 1 : j \in Nat
    BY <1>1
  <2> QED BY <2>1, <1>1, <1>2, <1>3, <1>4 DEF Passed
<1> QED BY <1>1, <1>5, <1>6, PassedFacts DEF s, W, all

\* The lists of which every element is returned.
LEMMA AllPassed ==
  ASSUME NEW N \in Nat, NEW j \in Nat
  PROVE  {i \in 1 .. N : i > j} = After(N, 1 .. N, j)
BY DEF After

LEMMA MacrosToured ==
  ASSUME NEW m \in Module
  PROVE  Toured(MacrosOf[m], smiGetFirstMacro(m), LAMBDA k : smiGetNextMacro(m, k))
           = DOMAIN MacrosOf[m]
<1> DEFINE s == MacrosOf[m]
           N == Len(s)
<1>1. N \in Nat /\ DOMAIN s = 1 .. N
  BY ListFacts, ListAssumption
<1>2. ASSUME NEW j \in Nat
      PROVE  smiGetNextMacro(m, j) = Low(After(N, 1 .. N, j))
  <2> DEFINE L == {i \in DOMAIN s : i > j}
  <2>1. smiGetNextMacro(m, j) = Low(L)
    BY DEF smiGetNextMacro, NextOf, Low, Each
  <2>2. L = After(N, 1 .. N, j)
    BY <1>1, AllPassed
  <2> QED BY <2>1, <2>2
<1>3. smiGetFirstMacro(m) = smiGetNextMacro(m, 0)
  BY DEF smiGetFirstMacro, smiGetNextMacro
<1> DEFINE all == Toured(s, smiGetFirstMacro(m), LAMBDA k : smiGetNextMacro(m, k))
<1>4. all =
        {k \in DOMAIN s : k = smiGetFirstMacro(m) \/ \E j \in 1 .. k - 1 : smiGetNextMacro(m, j) = k}
  BY DEF Toured
<1> HIDE DEF s, N, all
<1>5. all = Passed(N, 1 .. N)
  <2>1. \A k \in 1 .. N : \A j \in 1 .. k - 1 : j \in Nat
    BY <1>1
  <2> QED BY <2>1, <1>1, <1>2, <1>3, <1>4 DEF Passed
<1> QED BY <1>1, <1>5, PassedFacts DEF s, all

LEMMA ValuesToured ==
  ASSUME NEW type, IsList(type.list), type.base # "POINTER"
  PROVE  DOMAIN type.list =
           Toured(type.list, smiGetFirstNamedNumber(type), LAMBDA k : smiGetNextNamedNumber(type, k))
           \cup Toured(type.list, smiGetFirstRange(type), LAMBDA k : smiGetNextRange(type, k))
<1> DEFINE s == type.list
           N == Len(s)
           numbers == Toured(s, smiGetFirstNamedNumber(type), LAMBDA k : smiGetNextNamedNumber(type, k))
           ranges  == Toured(s, smiGetFirstRange(type), LAMBDA k : smiGetNextRange(type, k))
           numbered == type.base \in Numbered
<1>1. N \in Nat /\ DOMAIN s = 1 .. N
  BY ListFacts
<1>2. ASSUME NEW j \in Nat
      PROVE  NextOf(s, j, Each) = Low(After(N, 1 .. N, j))
  <2> DEFINE L == {i \in DOMAIN s : i > j}
  <2>1. NextOf(s, j, Each) = Low(L)
    BY DEF NextOf, Low, Each
  <2>2. L = After(N, 1 .. N, j)
    BY <1>1, AllPassed
  <2> QED BY <2>1, <2>2
<1>3. /\ smiGetFirstNamedNumber(type) = IF numbered THEN NextOf(s, 0, Each) ELSE 0
      /\ \A j \in Nat : smiGetNextNamedNumber(type, j) = IF numbered THEN NextOf(s, j, Each) ELSE 0
      /\ smiGetFirstRange(type) = IF numbered THEN 0 ELSE NextOf(s, 0, Each)
      /\ \A j \in Nat : smiGetNextRange(type, j) = IF numbered THEN 0 ELSE NextOf(s, j, Each)
  BY DEF smiGetFirstNamedNumber, smiGetNextNamedNumber, smiGetFirstRange, smiGetNextRange
<1>4. /\ numbers = {k \in DOMAIN s : k = smiGetFirstNamedNumber(type)
                       \/ \E j \in 1 .. k - 1 : smiGetNextNamedNumber(type, j) = k}
      /\ ranges = {k \in DOMAIN s : k = smiGetFirstRange(type)
                      \/ \E j \in 1 .. k - 1 : smiGetNextRange(type, j) = k}
  BY DEF Toured
<1> HIDE DEF s, N, numbers, ranges, numbered
<1>5. ASSUME numbered PROVE numbers = Passed(N, 1 .. N) /\ ranges = {}
  BY <1>1, <1>2, <1>3, <1>4, <1>5 DEF Passed
<1>6. ASSUME ~numbered PROVE ranges = Passed(N, 1 .. N) /\ numbers = {}
  BY <1>1, <1>2, <1>3, <1>4, <1>6 DEF Passed
<1>7. DOMAIN s = numbers \cup ranges
  BY <1>1, <1>5, <1>6, PassedFacts
<1> QED BY <1>7 DEF s, numbers, ranges

LEMMA StatementsToured ==
  ASSUME NEW s \in Statements
  PROVE  /\ DOMAIN s.elements =
              Toured(s.elements, smiGetFirstElement(s), LAMBDA k : smiGetNextElement(s, k))
         /\ s.kind = "compliance" =>
              /\ DOMAIN s.options =
                   Toured(s.options, smiGetFirstOption(s), LAMBDA k : smiGetNextOption(s, k))
              /\ DOMAIN s.refinements =
                   Toured(s.refinements, smiGetFirstRefinement(s),
                          LAMBDA k : smiGetNextRefinement(s, k))
<1>1. ASSUME NEW list, IsList(list)
      PROVE  DOMAIN list = {k \in DOMAIN list : k = NextOf(list, 0, Each)
                                \/ \E j \in 1 .. k - 1 : NextOf(list, j, Each) = k}
  <2> DEFINE N == Len(list)
  <2>1. N \in Nat /\ DOMAIN list = 1 .. N
    BY <1>1, ListFacts
  <2>2. ASSUME NEW j \in Nat
        PROVE  NextOf(list, j, Each) = Low(After(N, 1 .. N, j))
    <3> DEFINE L == {i \in DOMAIN list : i > j}
    <3>1. NextOf(list, j, Each) = Low(L)
      BY DEF NextOf, Low, Each
    <3>2. L = After(N, 1 .. N, j)
      BY <2>1, AllPassed
    <3> QED BY <3>1, <3>2
  <2> HIDE DEF N
  <2>3. {k \in DOMAIN list : k = NextOf(list, 0, Each)
            \/ \E j \in 1 .. k - 1 : NextOf(list, j, Each) = k} = Passed(N, 1 .. N)
    BY <2>1, <2>2 DEF Passed
  <2> QED BY <2>1, <2>3, PassedFacts
<1>2. IsList(s.elements) /\ IsList(s.options) /\ IsList(s.refinements)
  BY ListAssumption
<1>3. DOMAIN s.elements =
        Toured(s.elements, smiGetFirstElement(s), LAMBDA k : smiGetNextElement(s, k))
  BY <1>1, <1>2 DEF Toured, smiGetFirstElement, smiGetNextElement
<1>4. ASSUME s.kind = "compliance"
      PROVE  DOMAIN s.options =
                   Toured(s.options, smiGetFirstOption(s), LAMBDA k : smiGetNextOption(s, k))
  BY <1>1, <1>2, <1>4 DEF Toured, smiGetFirstOption, smiGetNextOption
<1>5. ASSUME s.kind = "compliance"
      PROVE  DOMAIN s.refinements =
                   Toured(s.refinements, smiGetFirstRefinement(s),
                          LAMBDA k : smiGetNextRefinement(s, k))
  BY <1>1, <1>2, <1>5 DEF Toured, smiGetFirstRefinement, smiGetNextRefinement
<1> QED BY <1>3, <1>4, <1>5

LEMMA AliasesToured ==
  ASSUME NodesInv, NEW p \in DOMAIN node, Children(p) # {}
  PROVE  DOMAIN node[p].objs =
           Toured(node[p].objs, smiGetFirstAlias(p), LAMBDA k : smiGetNextAlias(p, k))
<1> DEFINE s == node[p].objs
           N == Len(s)
<1>1. N \in Nat /\ DOMAIN s = 1 .. N /\ N # 0
  <2>1. s \in Seq(Object) /\ s # <<>>
    BY TreeFacts DEF NodesInv, Sound
  <2> HIDE DEF s
  <2> QED BY <2>1
<1>2. ASSUME NEW j \in Nat
      PROVE  smiGetNextAlias(p, j) = Low(After(N, 1 .. N, j))
  <2> DEFINE L == {i \in DOMAIN s : i > j}
  <2>1. smiGetNextAlias(p, j) = Low(L)
    BY DEF smiGetNextAlias, NextOf, Low, Each
  <2>2. L = After(N, 1 .. N, j)
    BY <1>1, AllPassed
  <2> QED BY <2>1, <2>2
<1>3. smiGetFirstAlias(p) = 1
  BY DEF smiGetFirstAlias
<1> DEFINE all == Toured(s, smiGetFirstAlias(p), LAMBDA k : smiGetNextAlias(p, k))
<1>4. all =
        {k \in DOMAIN s : k = smiGetFirstAlias(p) \/ \E j \in 1 .. k - 1 : smiGetNextAlias(p, j) = k}
  BY DEF Toured
<1> HIDE DEF s, N, all
<1>5. Low(After(N, 1 .. N, 0)) = 1
  <2>1. After(N, 1 .. N, 0) \in SUBSET Nat /\ 1 \in After(N, 1 .. N, 0)
        /\ \A i \in After(N, 1 .. N, 0) : 1 <= i
    BY <1>1 DEF After
  <2>2. /\ Low(After(N, 1 .. N, 0)) \in After(N, 1 .. N, 0) /\ Low(After(N, 1 .. N, 0)) <= 1
    BY <2>1, LowFacts
  <2>3. Low(After(N, 1 .. N, 0)) \in Nat
    BY <2>1, <2>2
  <2> QED BY <2>1, <2>2, <2>3
<1>6. all = Passed(N, 1 .. N)
  <2>1. \A k \in 1 .. N : \A j \in 1 .. k - 1 : j \in Nat
    BY <1>1
  <2> QED BY <2>1, <1>1, <1>2, <1>3, <1>4, <1>5 DEF Passed
<1> QED BY <1>1, <1>6, PassedFacts DEF s, all

-----------------------------------------------------------------------------
(* The invariant.                                                          *)

LookupInv == NodesInv /\ KidsInv /\ OrderInv /\ TourInv

LEMMA InitInv == LookupInit => LookupInv
<1> SUFFICES ASSUME LookupInit PROVE LookupInv
  OBVIOUS
<1> DEFINE iso  == [mod |-> "", kind |-> UNKNOWN, name |-> "iso"]
           cell == [objs |-> <<iso>>, oid |-> TRUE]
           D    == {<<1>>}
<1>1. /\ text \in Texts /\ loaded = {} /\ kids = NoKids /\ node = [o \in D |-> cell]
      /\ order = <<"">> /\ tour = <<>>
  BY DEF LookupInit, Init
<1>2. iso \in Object /\ iso.mod = ""
  BY DEF Object
<1> HIDE DEF iso
<1>3. <<iso>> \in Seq(Object) /\ ToSet(<<iso>>) = {iso} /\ <<iso>> # <<>>
  <2>1. iso \in Object
    BY <1>2
  <2> QED BY <2>1 DEF ToSet
<1>4. cell \in Cell /\ cell.objs = <<iso>>
  BY <1>3 DEF Cell
<1>5. D \in SUBSET (Oid \ {Nowhere}) /\ IsFiniteSet(D)
  BY OidFacts, FS_Singleton
<1>6. Front(<<1>>) = Nowhere
  <2>1. <<1>> \in Oid /\ <<1>> # Nowhere /\ Len(<<1>>) = 1
    BY OidFacts
  <2>2. Len(Front(<<1>>)) = 0 /\ Front(<<1>>) \in Oid
    BY <2>1, OidParts
  <2> QED BY <2>2 DEF Nowhere, Oid
<1>7. /\ node \in [D -> Cell] /\ DOMAIN node = D /\ node[<<1>>].objs = <<iso>>
  BY <1>1, <1>4
<1> HIDE DEF cell
<1>8. node \in Trees
  BY <1>5, <1>7, MakeTree
<1>9. NodesInv
  BY <1>1, <1>2, <1>3, <1>5, <1>6, <1>7, <1>8 DEF NodesInv, Sound
<1>10. KidsInv
  <2>1. ToSet(<<>>) = {} /\ Ascending(<<>>) /\ <<>> \in Seq(Oid)
    BY DEF ToSet, Ascending
  <2>2. /\ kids.st = "ended" /\ kids.of = Nowhere /\ kids.had = {} /\ kids.seen = <<>>
        /\ kids \in [st : {"going", "ended"}, of : Oid, had : SUBSET Oid, seen : Seq(Oid)]
    BY <1>1, <2>1, OidFacts DEF NoKids
  <2> QED BY <2>1, <2>2 DEF KidsInv
<1>11. OrderInv /\ TourInv
  <2>1. order = <<Dummy>> /\ Dummy \in Places
    BY <1>1 DEF Dummy, Places
  <2>2. order \in Seq(Places) /\ Len(order) = 1 /\ order[1] = Dummy
    BY <2>1
  <2>3. tour = <<>> /\ loaded = {}
    BY <1>1
  <2>4. tour \in Seq(Module) /\ Len(tour) = 0
    BY <2>3
  <2>5. OrderInv
    BY <2>2, <2>3 DEF OrderInv
  <2>6. TourInv
    BY <2>2, <2>4 DEF TourInv
  <2> QED BY <2>5, <2>6
<1> QED BY <1>9, <1>10, <1>11 DEF LookupInv

LEMMA StepInv == LookupInv /\ [LookupNext]_lookupVars => LookupInv'
<1> SUFFICES ASSUME LookupInv, [LookupNext]_lookupVars PROVE LookupInv'
  OBVIOUS
<1> USE DEF LookupInv
<1>1. ASSUME UNCHANGED <<text, node, loaded>> PROVE NodesInv'
  BY <1>1 DEF NodesInv, Sound, Declared, Stands, Own
<1>2. ASSUME UNCHANGED <<order, tour, loaded>> PROVE OrderInv' /\ TourInv'
  BY <1>2 DEF OrderInv, TourInv
<1>3. ASSUME UNCHANGED <<node, kids>> PROVE KidsInv'
  BY <1>3, KidsKept
<1>4. ASSUME NEW m \in Module, smiLoadModule(m), order' = Append(order, m), tour' = tour
      PROVE  LookupInv'
  BY <1>4, LoadFacts, OrderGrows, KidsKept
<1>5. ASSUME NEW m \in Module, View(m) PROVE LookupInv'
  <2>1. CASE m \in loaded
    <3>1. UNCHANGED <<text, node, loaded, kids, order, tour>>
      BY <1>5, <2>1 DEF View, vars
    <3> QED BY <3>1, <1>1, <1>2, <1>3
  <2>2. CASE m \notin loaded
    <3>1. smiLoadModule(m) /\ order' = Append(order, m) /\ tour' = tour
      BY <1>5, <2>2 DEF View
    <3> QED BY <3>1, <1>4
  <2> QED BY <2>1, <2>2
<1>6. ASSUME NEW m \in Module, Mention(m) PROVE LookupInv'
  BY <1>4, <1>6 DEF Mention
<1>7. ASSUME NEW name \in Name, Ask(name) PROVE LookupInv'
  <2>1. UNCHANGED <<text, node, loaded, kids, order, tour>>
    BY <1>7 DEF Ask, vars
  <2> QED BY <2>1, <1>1, <1>2, <1>3
<1>8. ASSUME Call PROVE LookupInv'
  <2>1. UNCHANGED <<text, node, loaded>>
    BY <1>8 DEF Call, smiGetFirstNode, smiGetNextNode, smiGetFirstChildNode, smiGetNextChildNode
  <2>2. NodesInv' /\ OrderInv' /\ TourInv'
    BY <1>1, <1>2, <1>8, <2>1 DEF Call
  <2>3. CASE \E m \in Module, kinds \in Filters : smiGetFirstNode(m, kinds)
    BY <1>3, <2>1, <2>2, <2>3 DEF smiGetFirstNode
  <2>4. CASE smiGetNextNode
    BY <1>3, <2>1, <2>2, <2>4 DEF smiGetNextNode
  <2>5. CASE \E p \in DOMAIN node : smiGetFirstChildNode(p)
    BY <2>2, <2>5, KidsFirst
  <2>6. CASE smiGetNextChildNode
    BY <2>2, <2>6, KidsStep
  <2> QED BY <1>8, <2>3, <2>4, <2>5, <2>6 DEF Call
<1>9. CASE smiGetFirstModule
  <2>1. UNCHANGED <<text, node, loaded, kids>>
    BY <1>9 DEF smiGetFirstModule, vars
  <2> QED BY <2>1, <1>1, <1>3, <1>9, TourFirst
<1>10. CASE smiGetNextModule
  <2>1. UNCHANGED <<text, node, loaded, kids>>
    BY <1>10 DEF smiGetNextModule, vars
  <2> QED BY <2>1, <1>1, <1>3, <1>10, TourNext
<1>11. CASE UNCHANGED lookupVars
  <2>1. UNCHANGED <<text, node, loaded, kids, order, tour>>
    BY <1>11 DEF lookupVars, vars
  <2> QED BY <2>1, <1>1, <1>2, <1>3
<1> QED BY <1>5, <1>6, <1>7, <1>8, <1>9, <1>10, <1>11 DEF LookupNext

LEMMA ToursAreSound == LookupInv => ToursSound
<1> SUFFICES ASSUME LookupInv PROVE ToursSound
  OBVIOUS
<1>1. ChildrenInOrder
  BY DEF LookupInv, KidsInv, ChildrenInOrder
<1>2. IsPrefix(tour, Tail(order))
  <2>1. tour \in Seq(Places) /\ Len(tour) \in Nat /\ Len(tour) + 1 <= Len(order)
    <3>1. tour \in Seq(Module) /\ Len(tour) + 1 <= Len(order)
      BY DEF LookupInv, TourInv
    <3>2. Module \subseteq Places
      BY DEF Places
    <3> QED BY <3>1, <3>2
  <2>2. order \in Seq(Places) /\ Len(order) # 0
    BY DEF LookupInv, OrderInv
  <2>3. /\ Tail(order) \in Seq(Places) /\ Len(Tail(order)) = Len(order) - 1 /\ Len(order) \in Nat
        /\ \A i \in 1 .. Len(order) - 1 : Tail(order)[i] = order[i + 1]
    BY <2>2
  <2>4. Len(tour) <= Len(Tail(order)) /\ \A i \in 1 .. Len(tour) : tour[i] = Tail(order)[i]
    <3>1. \A i \in 1 .. Len(tour) : i \in 1 .. Len(order) - 1
      BY <2>1, <2>3
    <3> QED BY <2>1, <2>3, <3>1 DEF LookupInv, TourInv
  <2> QED BY <2>1, <2>3, <2>4, PrefixFacts
<1>3. \A m \in loaded : m \in Module /\ \A type \in ToSet(TypesOf[m]) : IsList(type.list)
  BY ListAssumption DEF LookupInv, NodesInv
<1>4. \A p \in DOMAIN node : Children(p) = {} \/ DOMAIN node[p].objs =
         Toured(node[p].objs, smiGetFirstAlias(p), LAMBDA k : smiGetNextAlias(p, k))
  BY AliasesToured DEF LookupInv
<1> QED BY <1>1, <1>2, <1>3, <1>4, TypesToured, MacrosToured, ValuesToured, StatementsToured
        DEF ToursSound

\* Every list that an application passes with smiGetFirst...() and smiGetNext...()
\* is passed in its order, each element once, whatever is loaded meanwhile.
THEOREM ToursRight == LookupSpec => []ToursSound
<1>1. LookupInit => LookupInv
  BY InitInv
<1>2. LookupInv /\ [LookupNext]_lookupVars => LookupInv'
  BY StepInv
<1>3. LookupInv => ToursSound
  BY ToursAreSound
<1> QED BY <1>1, <1>2, <1>3, PTL DEF LookupSpec

-----------------------------------------------------------------------------
(* Names.                                                                  *)

LEMMA InFacts ==
  ASSUME NEW s, Len(s) \in Nat, DOMAIN s = 1 .. Len(s), NULL \notin ToSet(s), NEW name
  PROVE  /\ In(s, name) = NULL => \A e \in ToSet(s) : e.name # name
         /\ In(s, name) # NULL => In(s, name) \in ToSet(s) /\ In(s, name).name = name
<1> DEFINE L == {i \in DOMAIN s : i > 0 /\ s[i].name = name}
           k == Low(L)
<1>1. In(s, name) = IF k = 0 THEN NULL ELSE s[k]
  BY DEF In, NextOf, Low
<1>2. L \in SUBSET Nat /\ \A i \in L : i # 0 /\ i \in DOMAIN s /\ s[i].name = name
  OBVIOUS
<1>3. \A i \in DOMAIN s : s[i].name = name => i \in L
  OBVIOUS
<1> HIDE DEF L
<1>4. CASE L = {}
  <2>1. k = 0
    BY <1>4 DEF Low
  <2> QED BY <1>1, <1>3, <1>4, <2>1 DEF ToSet
<1>5. CASE L # {}
  <2>1. k \in L
    BY <1>2, <1>5, LowFacts
  <2> HIDE DEF k
  <2>2. k # 0 /\ k \in DOMAIN s /\ s[k].name = name
    BY <1>2, <2>1
  <2>3. s[k] \in ToSet(s)
    BY <2>2 DEF ToSet
  <2> QED BY <1>1, <2>2, <2>3
<1> QED BY <1>4, <1>5

Written == [mod : Module \cup {""}, oid : Oid, name : Name \cup {NULL, "iso"}]
Iso     == [mod |-> "", oid |-> <<1>>, name |-> "iso"]

LEMMA IsoFacts == /\ ObjectsOf("") = <<Iso>> /\ ToSet(<<Iso>>) = {Iso} /\ Iso # NULL
                  /\ Iso.name = "iso" /\ Iso.mod = ""
                  /\ Len(<<Iso>>) \in Nat /\ DOMAIN <<Iso>> = 1 .. Len(<<Iso>>)
<1>1. Iso \in Written
  BY OidFacts DEF Written, Iso
<1>2. Iso # NULL
  BY <1>1, NameAssumption DEF Written
<1>3. Iso.name = "iso" /\ Iso.mod = ""
  BY DEF Iso
<1>4. ObjectsOf("") = <<Iso>>
  BY DEF ObjectsOf, Iso
<1>5. ToSet(<<Iso>>) = {Iso} /\ Len(<<Iso>>) \in Nat /\ DOMAIN <<Iso>> = 1 .. Len(<<Iso>>)
  BY DEF ToSet
<1> QED BY <1>2, <1>3, <1>4, <1>5

LEMMA ObjectsFacts ==
  ASSUME NodesInv, NEW m \in loaded
  PROVE  LET s == ObjectsOf(m)
         IN  /\ Len(s) \in Nat /\ DOMAIN s = 1 .. Len(s) /\ NULL \notin ToSet(s)
             /\ DOMAIN s = DOMAIN text[m].defs
             /\ \A i \in DOMAIN s : s[i].mod = m /\ s[i].oid = Stands(m, i) /\ s[i].oid \in Oid
             /\ \A o \in ToSet(s) : o \in Written /\ o.mod = m /\ o.name \in Name
<1> DEFINE s == ObjectsOf(m)
           defs == text[m].defs
<1>1. m \in Module /\ m # ""
  BY NullAssumption DEF NodesInv
<1>2. defs \in Seq(Definition)
  BY <1>1, TextAssumption DEF NodesInv
<1>3. s = [i \in DOMAIN defs |->
             [mod |-> m, oid |-> defs[i].label \o defs[i].subs, name |-> defs[i].name]]
  BY <1>1 DEF ObjectsOf
<1>4. ASSUME NEW i \in DOMAIN defs
      PROVE  /\ defs[i].label \o defs[i].subs \in Oid /\ defs[i].name \in Name
             /\ defs[i].label \o defs[i].subs = Stands(m, i)
  <2>1. defs[i] \in Definition
    <3> HIDE DEF defs
    <3> QED BY <1>2
  <2>2. defs[i].label \in Seq(Subid) /\ defs[i].subs \in Seq(Subid) /\ defs[i].name \in Name
    BY <2>1 DEF Definition, Oid
  <2> QED BY <2>2, Joined DEF Oid, Stands
<1> HIDE DEF s
<1>5. DOMAIN defs = 1 .. Len(defs) /\ Len(defs) \in Nat
  <2> HIDE DEF defs
  <2> QED BY <1>2
<1> HIDE DEF defs
<1>6. DOMAIN s = DOMAIN defs /\ Len(s) = Len(defs)
  <2>1. DOMAIN s = 1 .. Len(defs)
    BY <1>3, <1>5
  <2>2. s \in Seq({s[i] : i \in DOMAIN s})
    BY <1>3, <1>5, <2>1
  <2> QED BY <1>5, <2>1, <2>2
<1>7. \A i \in DOMAIN s : /\ s[i].mod = m /\ s[i].name \in Name /\ s[i] \in Written
                           /\ s[i].oid = Stands(m, i) /\ s[i].oid \in Oid
  BY <1>1, <1>3, <1>4, <1>6 DEF Written
<1>8. \A o \in ToSet(s) : o \in Written /\ o.mod = m /\ o.name \in Name
  BY <1>7 DEF ToSet
<1>9. NULL \notin ToSet(s)
  BY <1>8, NameAssumption DEF Written
<1> QED BY <1>5, <1>6, <1>7, <1>8, <1>9 DEF s, defs

\* What a simple name stands for is in the first module that has it.
Hits(name) == {i \in DOMAIN order : i > 0 /\ In(ObjectsOf(order[i]), name) # NULL}

LEMMA FindFacts ==
  ASSUME OrderInv, NEW name
  PROVE  findObjectByName(name) =
           IF Low(Hits(name)) = 0 THEN NULL ELSE In(ObjectsOf(order[Low(Hits(name))]), name)
<1> DEFINE D     == {order[k] : k \in DOMAIN order}
           lists == [m \in D |-> ObjectsOf(m)]
           H     == {i \in DOMAIN order : i > 0 /\ In(lists[order[i]], name) # NULL}
<1>1. findObjectByName(name) =
        IF Low(H) = 0 THEN NULL ELSE In(lists[order[Low(H)]], name)
  BY DEF findObjectByName, InAll, NextOf, Low
<1>2. \A i \in DOMAIN order : lists[order[i]] = ObjectsOf(order[i])
  OBVIOUS
<1>3. H = Hits(name)
  BY <1>2 DEF Hits
<1>4. Low(H) = 0 \/ Low(H) \in DOMAIN order
  <2>1. H \in SUBSET DOMAIN order /\ DOMAIN order \in SUBSET Nat
    BY DEF OrderInv
  <2> HIDE DEF H
  <2>2. CASE H = {}
    BY <2>2 DEF Low
  <2>3. CASE H # {}
    BY <2>1, <2>3, LowFacts
  <2> QED BY <2>2, <2>3
<1> HIDE DEF lists, H
<1> QED BY <1>1, <1>2, <1>3, <1>4

LEMMA SimpleNames ==
  ASSUME NEW name
  PROVE  smiGetNode(NULL, Simple(name)) = findObjectByName(name)
<1>1. Simple(name).first = name /\ Simple(name).sep = ""
  BY DEF Simple
<1>2. Simple(name).sep \notin Separators
  BY <1>1 DEF Separators
<1>4. getModulenameAndName(NULL, Simple(name)).module = ""
      /\ getModulenameAndName(NULL, Simple(name)).name = name
  BY <1>1, <1>2 DEF getModulenameAndName
<1> QED BY <1>4 DEF smiGetNode, Asked

LEMMA AskedOf ==
  ASSUME NodesInv, OrderInv, NEW m \in loaded, NEW name, NEW sep \in Separators
  PROVE  /\ smiGetNode(m, Simple(name)) = findObjectByModuleAndName(m, name)
         /\ smiGetNode(NULL, Full(m, sep, name)) = findObjectByModuleAndName(m, name)
         /\ Asked(NULL, Full(m, sep, name)) = m
         /\ getModulenameAndName(NULL, Full(m, sep, name)).name = name
<1>1. m \in Module /\ m # "" /\ m # NULL
  BY NullAssumption DEF NodesInv
<1>2. findModuleByName(m) = m
  <2>1. PICK i \in 2 .. Len(order) : order[i] = m
    BY DEF OrderInv
  <2>2. i \in DOMAIN order
    BY DEF OrderInv
  <2> QED BY <2>1, <2>2 DEF findModuleByName
<1>3. /\ Simple(name).first = name /\ Simple(name).sep = ""
      /\ Full(m, sep, name).first = m /\ Full(m, sep, name).sep = sep
      /\ Full(m, sep, name).rest = name
  BY DEF Simple, Full
<1>4. /\ getModulenameAndName(m, Simple(name)).module = m
      /\ getModulenameAndName(m, Simple(name)).name = name
  BY <1>1, <1>3 DEF getModulenameAndName
<1>5. Upper(m)
  BY <1>1 DEF Upper
<1>6. /\ getModulenameAndName(NULL, Full(m, sep, name)).module = m
      /\ getModulenameAndName(NULL, Full(m, sep, name)).name = name
  BY <1>3, <1>5 DEF getModulenameAndName
<1> QED BY <1>1, <1>2, <1>4, <1>6 DEF smiGetNode, Asked

LEMMA OwnNames ==
  ASSUME NodesInv, NEW m \in loaded, NEW name \in Name
  PROVE  /\ findObjectByModuleAndName(m, name) = In(ObjectsOf(m), name)
         /\ IF \E o \in Objects : o.mod = m /\ o.name = name
            THEN /\ In(ObjectsOf(m), name) \in Objects
                 /\ In(ObjectsOf(m), name).mod = m /\ In(ObjectsOf(m), name).name = name
            ELSE In(ObjectsOf(m), name) = NULL
<1> DEFINE s == ObjectsOf(m)
<1>1. /\ Len(s) \in Nat /\ DOMAIN s = 1 .. Len(s) /\ NULL \notin ToSet(s)
      /\ \A o \in ToSet(s) : o.mod = m
  BY ObjectsFacts
<1>2. \A n \in loaded : \A o \in ToSet(ObjectsOf(n)) : o.mod = n
  BY ObjectsFacts
<1>3. ToSet(s) \subseteq Objects /\ \A o \in Objects : o.mod = m => o \in ToSet(s)
  BY <1>2 DEF Objects
<1> HIDE DEF s
<1>4. /\ In(s, name) = NULL => \A e \in ToSet(s) : e.name # name
      /\ In(s, name) # NULL => In(s, name) \in ToSet(s) /\ In(s, name).name = name
  BY <1>1, InFacts
<1>5. name \notin {"iso", "ccitt", "joint-iso-ccitt"}
  BY NameAssumption
<1>6. findObjectByModuleAndName(m, name) = In(s, name)
  BY <1>5 DEF findObjectByModuleAndName, s
<1> QED BY <1>1, <1>3, <1>4, <1>6 DEF s

LEMMA SimpleFound ==
  ASSUME NodesInv, OrderInv, NEW name \in Names
  PROVE  findObjectByName(name) = NULL <=> name \notin {"iso"} \cup {o.name : o \in Objects}
<1> DEFINE H == Hits(name)
<1>1. DOMAIN order = 1 .. Len(order) /\ Len(order) \in Nat /\ H \in SUBSET Nat /\ 1 \in DOMAIN order
  BY DEF OrderInv, Hits
<1>2. findObjectByName(name) = NULL <=> H = {}
  <2> HIDE DEF H
  <2>1. CASE H = {}
    BY <2>1, FindFacts DEF Low, H
  <2>2. CASE H # {}
    <3>1. Low(H) \in H
      BY <1>1, <2>2, LowFacts
    <3> DEFINE k == Low(H)
    <3> HIDE DEF k
    <3>2. k # 0 /\ In(ObjectsOf(order[k]), name) # NULL
      BY <3>1 DEF k, H, Hits
    <3> QED BY <2>2, <3>2, FindFacts DEF k, H
  <2> QED BY <2>1, <2>2
<1>3. ASSUME name = "iso" PROVE H # {}
  <2>1. In(<<Iso>>, name) # NULL
    BY <1>3, IsoFacts, InFacts
  <2>2. order[1] = ""
    BY DEF OrderInv, Dummy
  <2>3. In(ObjectsOf(order[1]), name) # NULL
    BY <2>1, <2>2, IsoFacts
  <2> QED BY <1>1, <2>3 DEF Hits
<1>4. ASSUME name \in Name, NEW i \in H
      PROVE  name \in {o.name : o \in Objects}
  <2>1. i \in 1 .. Len(order) /\ In(ObjectsOf(order[i]), name) # NULL
    BY <1>1 DEF Hits
  <2>2. CASE i = 1
    <3>1. order[1] = ""
      BY DEF OrderInv, Dummy
    <3>2. In(<<Iso>>, name) # NULL
      BY <2>1, <2>2, <3>1, IsoFacts
    <3>3. In(<<Iso>>, name) \in {Iso} /\ In(<<Iso>>, name).name = name
      BY <3>2, IsoFacts, InFacts
    <3>4. name = "iso"
      BY <3>3, IsoFacts
    <3> QED BY <1>4, <3>4, NameAssumption
  <2>3. CASE i # 1
    <3>1. i \in 2 .. Len(order)
      BY <2>1, <2>3
    <3>2. order[i] \in loaded
      BY <3>1 DEF OrderInv
    <3> DEFINE m == order[i]
               s == ObjectsOf(m)
    <3>3. Len(s) \in Nat /\ DOMAIN s = 1 .. Len(s) /\ NULL \notin ToSet(s)
      BY <3>2, ObjectsFacts
    <3>4. ToSet(s) \subseteq Objects
      BY <3>2 DEF Objects
    <3>5. In(s, name) # NULL
      BY <2>1
    <3> HIDE DEF s
    <3>6. In(s, name) \in Objects /\ In(s, name).name = name
      BY <3>3, <3>4, <3>5, InFacts
    <3> QED BY <3>6
  <2> QED BY <2>2, <2>3
<1>5. ASSUME NEW o \in Objects, o.name = name PROVE H # {}
  <2>1. PICK m \in loaded : o \in ToSet(ObjectsOf(m))
    BY DEF Objects
  <2>2. PICK i \in 2 .. Len(order) : order[i] = m
    BY DEF OrderInv
  <2> DEFINE s == ObjectsOf(m)
  <2>3. Len(s) \in Nat /\ DOMAIN s = 1 .. Len(s) /\ NULL \notin ToSet(s) /\ o \in ToSet(s)
    BY <2>1, ObjectsFacts
  <2> HIDE DEF s
  <2>4. In(s, name) # NULL
    BY <1>5, <2>3, InFacts
  <2>5. i \in DOMAIN order /\ i > 0
    BY <1>1
  <2>6. i \in H
    BY <2>2, <2>4, <2>5 DEF Hits, s
  <2> QED BY <2>6
<1> HIDE DEF H
<1>6. name = "iso" \/ name \in Name
  BY DEF Names
<1>7. H = {} <=> name \notin {"iso"} \cup {o.name : o \in Objects}
  <2>1. ASSUME H = {} PROVE name \notin {"iso"} \cup {o.name : o \in Objects}
    BY <1>3, <1>5, <2>1
  <2>2. ASSUME H # {}, name # "iso" PROVE name \in {o.name : o \in Objects}
    BY <1>4, <1>6, <2>2
  <2> QED BY <2>1, <2>2
<1> QED BY <1>2, <1>7

LEMMA NamesAreRight == NodesInv /\ OrderInv => NamesRight
<1> SUFFICES ASSUME NodesInv, OrderInv PROVE NamesRight
  OBVIOUS
<1>1. ASSUME NEW m \in loaded, NEW name \in Name
      PROVE  /\ \A sep \in Separators : smiGetNode(NULL, Full(m, sep, name)) = smiGetNode(m, Simple(name))
             /\ IF \E o \in Objects : o.mod = m /\ o.name = name
                THEN /\ smiGetNode(m, Simple(name)) \in Objects
                     /\ smiGetNode(m, Simple(name)).mod = m /\ smiGetNode(m, Simple(name)).name = name
                ELSE smiGetNode(m, Simple(name)) = NULL
  <2>1. "::" \in Separators
    BY DEF Separators
  <2>2. smiGetNode(m, Simple(name)) = findObjectByModuleAndName(m, name)
    BY <2>1, AskedOf
  <2>3. \A sep \in Separators : smiGetNode(NULL, Full(m, sep, name)) = smiGetNode(m, Simple(name))
    BY <2>2, AskedOf
  <2>4. smiGetNode(m, Simple(name)) = In(ObjectsOf(m), name)
    BY <2>2, OwnNames
  <2> QED BY <2>3, <2>4, OwnNames
<1>2. \A name \in Names :
        smiGetNode(NULL, Simple(name)) = NULL <=> name \notin {"iso"} \cup {o.name : o \in Objects}
  BY SimpleNames, SimpleFound
<1>3. ASSUME NEW o \in Objects, Unique(o, Objects)
      PROVE  smiGetNode(NULL, smiRenderNode(o)) = o
  <2>1. PICK m \in loaded : o \in ToSet(ObjectsOf(m))
    BY DEF Objects
  <2>2. o.mod = m /\ o.name \in Name /\ o.name # NULL /\ m # ""
    <3>1. o.mod = m /\ o.name \in Name
      BY <2>1, ObjectsFacts
    <3>2. NULL \notin Name /\ "" \notin Module
      BY NullAssumption
    <3>3. m \in Module
      BY DEF NodesInv
    <3> QED BY <3>1, <3>2, <3>3
  <2>3. smiRenderNode(o) = Full(m, "::", o.name)
    BY <2>2 DEF smiRenderNode, Qualified
  <2>4. "::" \in Separators
    BY DEF Separators
  <2>5. smiGetNode(NULL, Full(m, "::", o.name)) = smiGetNode(m, Simple(o.name))
    BY <1>1, <2>2, <2>4
  <2>6. /\ smiGetNode(m, Simple(o.name)) \in Objects
        /\ smiGetNode(m, Simple(o.name)).mod = m /\ smiGetNode(m, Simple(o.name)).name = o.name
    BY <1>1, <2>2
  <2>7. smiGetNode(m, Simple(o.name)) = o
    BY <1>3, <2>2, <2>6 DEF Unique
  <2> QED BY <2>3, <2>5, <2>7
<1> QED BY <1>1, <1>2, <1>3 DEF NamesRight

-----------------------------------------------------------------------------
(* What a name has stood for it goes on to stand for.                      *)

AnswerInv ==
  answer.found # NULL =>
    \E name \in Name : answer.written = Simple(name) /\ findObjectByName(name) = answer.found

\* The list of an order of the modules, and where it has a name.
HitsOf(o, name) == {i \in DOMAIN o : i > 0 /\ In(ObjectsOf(o[i]), name) # NULL}
FoundIn(o, name) ==
  IF Low(HitsOf(o, name)) = 0 THEN NULL ELSE In(ObjectsOf(o[Low(HitsOf(o, name))]), name)

\* A module at the end of the list changes nothing of what is found already.
LEMMA FoundKept ==
  ASSUME OrderInv, NEW m \in Places, NEW name, FoundIn(order, name) # NULL
  PROVE  FoundIn(Append(order, m), name) = FoundIn(order, name)
<1> DEFINE a == Append(order, m)
           N == Len(order)
           H == HitsOf(order, name)
           K == HitsOf(a, name)
<1>1. /\ N \in Nat /\ DOMAIN order = 1 .. N /\ DOMAIN a = 1 .. N + 1
      /\ \A i \in 1 .. N : a[i] = order[i]
  <2>1. order \in Seq(Places)
    BY DEF OrderInv
  <2> QED BY <2>1
<1> HIDE DEF a, N
<1>2. H \in SUBSET (1 .. N) /\ K \in SUBSET (1 .. N + 1)
  BY <1>1 DEF HitsOf
<1>3. \A i \in 1 .. N : i \in H <=> i \in K
  BY <1>1 DEF HitsOf
<1>4. Low(H) # 0
  BY DEF FoundIn
<1> HIDE DEF H, K
<1>5. H # {}
  BY <1>4 DEF Low
<1>6. Low(H) \in H /\ \A j \in H : Low(H) <= j
  BY <1>1, <1>2, <1>5, LowFacts, H \in SUBSET Nat
<1>7. Low(H) \in K /\ Low(H) \in 1 .. N
  BY <1>2, <1>3, <1>6
<1>8. Low(K) \in K /\ \A j \in K : Low(K) <= j
  BY <1>1, <1>2, <1>7, LowFacts, K \in SUBSET Nat
<1>9. Low(K) = Low(H)
  <2> DEFINE x == Low(H)
             y == Low(K)
  <2>1. y <= x /\ y \in 1 .. N + 1 /\ x \in 1 .. N
    BY <1>2, <1>7, <1>8
  <2> HIDE DEF x, y
  <2>2. y \in 1 .. N
    BY <1>1, <2>1
  <2>3. x <= y
    BY <1>3, <1>6, <1>8, <2>2 DEF x, y
  <2>4. x = y
    BY <1>1, <2>1, <2>2, <2>3
  <2> QED BY <2>4 DEF x, y
<1> QED BY <1>1, <1>7, <1>9 DEF FoundIn, H, K, a

LEMMA FindIsFound == OrderInv => \A name \in Name : findObjectByName(name) = FoundIn(order, name)
BY FindFacts DEF FoundIn, HitsOf, Hits

FoundAll == \A name \in Name : findObjectByName(name) = FoundIn(order, name)
LEMMA FindThen == OrderInv' => FoundAll'
<1>1. OrderInv => FoundAll
  BY FindIsFound DEF FoundAll
<1> QED BY <1>1, PTL

LEMMA AnswerGrows ==
  ASSUME NodesInv, OrderInv, AnswerInv, NEW m \in Module, smiLoadModule(m),
         OrderInv', order' = Append(order, m), answer' = answer
  PROVE  AnswerInv'
<1>1. text' = text
  BY LoadFacts
<1>2. \A name \in Name : findObjectByName(name)' = FoundIn(order, name)'
  BY FindThen DEF FoundAll
<1>3. \A x : ObjectsOf(x)' = ObjectsOf(x)
  BY <1>1 DEF ObjectsOf
<1>4. \A name \in Name : FoundIn(order, name)' = FoundIn(order', name)
  BY <1>3 DEF FoundIn, HitsOf
<1>5. m \in Places
  BY DEF Places
<1>6. SUFFICES ASSUME answer.found # NULL PROVE AnswerInv'
  BY DEF AnswerInv
<1>7. PICK name \in Name : answer.written = Simple(name) /\ findObjectByName(name) = answer.found
  BY <1>6 DEF AnswerInv
<1>8. FoundIn(order, name) = answer.found
  BY <1>7, FindIsFound
<1>9. FoundIn(Append(order, m), name) = answer.found
  BY <1>5, <1>6, <1>8, FoundKept
<1>10. findObjectByName(name)' = answer.found
  BY <1>2, <1>4, <1>9
<1> QED BY <1>7, <1>10 DEF AnswerInv

LEMMA AnswerStays ==
  ASSUME OrderInv, OrderInv', AnswerInv, UNCHANGED <<text, order, answer>>
  PROVE  AnswerInv'
<1>1. \A x : ObjectsOf(x)' = ObjectsOf(x)
  BY DEF ObjectsOf
<1>2. \A name \in Name : findObjectByName(name)' = findObjectByName(name)
  <2>1. \A name \in Name : FoundIn(order, name)' = FoundIn(order, name)
    BY <1>1 DEF FoundIn, HitsOf
  <2>2. \A name \in Name : findObjectByName(name)' = FoundIn(order, name)'
    BY FindThen DEF FoundAll
  <2> QED BY <2>1, <2>2, FindIsFound
<1> QED BY <1>2 DEF AnswerInv

LEMMA AnswerInit == LookupInit => AnswerInv
<1>1. NoAnswer.found = NULL
  BY DEF NoAnswer
<1>2. LookupInit => answer = NoAnswer
  BY DEF LookupInit
<1> QED BY <1>1, <1>2 DEF AnswerInv

LEMMA AnswerStep == LookupInv /\ LookupInv' /\ AnswerInv /\ [LookupNext]_lookupVars => AnswerInv'
<1> SUFFICES ASSUME LookupInv, LookupInv', AnswerInv, [LookupNext]_lookupVars PROVE AnswerInv'
  OBVIOUS
<1>1. NodesInv /\ OrderInv /\ OrderInv'
  BY DEF LookupInv
<1>2. ASSUME NEW m \in Module, View(m) PROVE AnswerInv'
  <2>1. CASE m \in loaded
    BY <1>1, <1>2, <2>1, AnswerStays DEF View, vars
  <2>2. CASE m \notin loaded
    BY <1>1, <1>2, <2>2, AnswerGrows DEF View
  <2> QED BY <2>1, <2>2
<1>3. ASSUME NEW m \in Module, Mention(m) PROVE AnswerInv'
  BY <1>1, <1>3, AnswerGrows DEF Mention
<1>4. ASSUME NEW name \in Name, Ask(name) PROVE AnswerInv'
  <2>1. /\ UNCHANGED <<text, order>>
        /\ answer' = [written |-> Simple(name), found |-> smiGetNode(NULL, Simple(name))]
    BY <1>4 DEF Ask, vars
  <2>2. smiGetNode(NULL, Simple(name)) = findObjectByName(name)
    BY SimpleNames
  <2>3. answer'.written = Simple(name) /\ answer'.found = findObjectByName(name)
    BY <2>1, <2>2
  <2>4. \A x : ObjectsOf(x)' = ObjectsOf(x)
    BY <2>1 DEF ObjectsOf
  <2>5. FoundIn(order, name)' = FoundIn(order, name)
    BY <2>1, <2>4 DEF FoundIn, HitsOf
  <2>6. findObjectByName(name)' = findObjectByName(name)
    BY <1>1, <2>5, FindThen, FindIsFound DEF FoundAll
  <2> QED BY <2>3, <2>6 DEF AnswerInv
<1>5. CASE Call
  BY <1>1, <1>5, AnswerStays
     DEF Call, smiGetFirstNode, smiGetNextNode, smiGetFirstChildNode, smiGetNextChildNode
<1>6. CASE smiGetFirstModule \/ smiGetNextModule
  BY <1>1, <1>6, AnswerStays DEF smiGetFirstModule, smiGetNextModule, vars
<1>7. CASE UNCHANGED lookupVars
  BY <1>1, <1>7, AnswerStays DEF lookupVars, vars
<1> QED BY <1>2, <1>3, <1>4, <1>5, <1>6, <1>7 DEF LookupNext

LEMMA AnswersKept == AnswerInv => AnswerKept
<1> SUFFICES ASSUME AnswerInv, answer.found # NULL
             PROVE  smiGetNode(NULL, answer.written) = answer.found
  BY DEF AnswerKept
<1>1. PICK name \in Name : answer.written = Simple(name) /\ findObjectByName(name) = answer.found
  BY DEF AnswerInv
<1> QED BY <1>1, SimpleNames

-----------------------------------------------------------------------------
(* Numbers.                                                                *)

LEMMA Greatest ==
  ASSUME NEW N \in Nat, NEW S \in SUBSET (0 .. N), S # {}
  PROVE  \E n \in S : \A m \in S : m <= n
<1> DEFINE T == {N - n : n \in S}
<1>1. T \in SUBSET Nat /\ T # {}
  OBVIOUS
<1> HIDE DEF T
<1>2. PICK k \in T : \A j \in T : k <= j
  BY <1>1, Least
<1>3. PICK n \in S : k = N - n
  BY <1>2 DEF T
<1>4. ASSUME NEW m \in S PROVE m <= n
  <2>1. N - m \in T
    BY DEF T
  <2>2. N - n <= N - m /\ n \in Nat /\ m \in Nat
    BY <1>2, <1>3, <2>1
  <2> QED BY <2>2
<1> QED BY <1>4

\* Of some places there is a first one with the greatest value.
UpTo(S, n) == {i \in S : i <= n}
LEMMA UpToFacts ==
  ASSUME NEW S \in SUBSET (Nat \ {0}), NEW n \in Nat \ {0}
  PROVE  /\ UpTo(S, 0) = {}
         /\ n \notin S => UpTo(S, n) = UpTo(S, n - 1)
         /\ n \in S => UpTo(S, n) = UpTo(S, n - 1) \cup {n}
         /\ \A i \in UpTo(S, n - 1) : i \in S /\ i \in Nat /\ i < n
<1>1. \A i \in S : i \in Nat /\ ~(i <= 0) /\ (i <= n <=> i <= n - 1 \/ i = n)
  OBVIOUS
<1>2. UpTo(S, 0) = {}
  BY <1>1 DEF UpTo
<1>3. n \notin S => UpTo(S, n) = UpTo(S, n - 1)
  BY <1>1 DEF UpTo
<1>4. n \in S => UpTo(S, n) = UpTo(S, n - 1) \cup {n}
  BY <1>1 DEF UpTo
<1>5. \A i \in UpTo(S, n - 1) : i \in S /\ i \in Nat /\ i < n
  BY <1>1 DEF UpTo
<1> QED BY <1>2, <1>3, <1>4, <1>5

LEMMA Newest ==
  ASSUME NEW N \in Nat, NEW f \in [1 .. N -> Nat], NEW S \in SUBSET (1 .. N), S # {}
  PROVE  \E i \in S : \A j \in S \ {i} : f[i] > f[j] \/ (f[i] = f[j] /\ i < j)
<1> DEFINE Best(i, j) == f[i] > f[j] \/ (f[i] = f[j] /\ i < j)
           Has(n) == UpTo(S, n) = {} \/ \E i \in UpTo(S, n) : \A j \in UpTo(S, n) \ {i} : Best(i, j)
           T == {n \in 0 .. N : Has(n)}
<1>1. /\ S \in SUBSET (Nat \ {0}) /\ 0 \in 0 .. N /\ N \in 0 .. N
      /\ \A i \in S : f[i] \in Nat
  OBVIOUS
<1>2. ASSUME NEW n \in 1 .. N, Has(n - 1) PROVE Has(n)
  <2> DEFINE A == UpTo(S, n - 1)
             B == UpTo(S, n)
  <2>1. n \in Nat \ {0}
    OBVIOUS
  <2>2. /\ n \notin S => B = A
        /\ n \in S => B = A \cup {n}
        /\ \A i \in A : i \in S /\ i \in Nat /\ i < n
    BY <1>1, <2>1, UpToFacts
  <2>3. A = {} \/ \E i \in A : \A j \in A \ {i} : Best(i, j)
    BY <1>2
  <2> HIDE DEF A, B
  <2>4. B = {} \/ \E i \in B : \A j \in B \ {i} : Best(i, j)
    <3>1. CASE n \notin S
      <4>1. B = A
        BY <2>2, <3>1
      <4> QED BY <2>3, <4>1
    <3>2. CASE n \in S /\ A = {}
      <4>1. B = {n}
        BY <2>2, <3>2
      <4> QED BY <4>1
    <3>3. CASE n \in S /\ A # {}
      <4>1. PICK i \in A : \A j \in A \ {i} : Best(i, j)
        BY <2>3, <3>3
      <4>2. B = A \cup {n}
        BY <2>2, <3>3
      <4>3. f[n] \in Nat /\ n \in Nat /\ \A j \in A : f[j] \in Nat /\ j \in Nat /\ j < n
        BY <1>1, <2>1, <2>2, <3>3
      <4>4. CASE f[n] > f[i]
        <5>1. \A j \in A : Best(n, j)
          <6>1. \A j \in A : j = i \/ f[i] > f[j] \/ f[i] = f[j]
            BY <4>1
          <6> QED BY <4>3, <4>4, <6>1
        <5> QED BY <4>2, <5>1
      <4>5. CASE ~(f[n] > f[i])
        <5>1. Best(i, n)
          BY <4>3, <4>5
        <5>2. \A j \in B \ {i} : Best(i, j)
          BY <4>1, <4>2, <5>1
        <5> QED BY <4>2, <5>2
      <4> QED BY <4>4, <4>5
    <3> QED BY <3>1, <3>2, <3>3
  <2> QED BY <2>4 DEF A, B
<1>3. Has(0)
  BY <1>1, UpToFacts, 1 \in Nat \ {0}
<1> HIDE DEF Has
<1>4. \A n \in 1 .. N : n - 1 \in T => n \in T
  <2>1. \A n \in 1 .. N : n \in 0 .. N
    OBVIOUS
  <2> QED BY <1>2, <2>1
<1>5. 0 \in T
  BY <1>1, <1>3
<1> HIDE DEF T
<1>6. N \in T
  BY <1>1, <1>4, <1>5, Induct
<1>7. UpTo(S, N) = S
  <2>1. \A i \in S : i <= N
    OBVIOUS
  <2> QED BY <2>1 DEF UpTo
<1>8. Has(N)
  BY <1>6 DEF T
<1> QED BY <1>7, <1>8 DEF Has

\* At a node there is an object, and the one that findObjectByNode() chooses is
\* one of them.
LEMMA RecordOf ==
  ASSUME NEW A, NEW B, NEW C, NEW a \in A, NEW b \in B, NEW c \in C
  PROVE  LET r == [mod |-> a, oid |-> b, name |-> c]
         IN  r \in [mod : A, oid : B, name : C] /\ r.mod = a /\ r.oid = b /\ r.name = c
OBVIOUS

LEMMA AtFacts ==
  ASSUME NodesInv, NEW p \in DOMAIN node, NEW i \in DOMAIN node[p].objs
  PROVE  /\ At(p, i) \in Written /\ At(p, i) # NULL /\ At(p, i).oid = p
         /\ At(p, i).mod = node[p].objs[i].mod /\ At(p, i).name = node[p].objs[i].name
         /\ At(p, i).mod \in loaded \cup {""}
<1> DEFINE s == node[p].objs
           o == s[i]
<1>1. s \in Seq(Object) /\ p \in Oid
  BY TreeFacts DEF NodesInv
<1>2. i \in DOMAIN s
  OBVIOUS
<1>3. At(p, i) = [mod |-> o.mod, oid |-> p, name |-> o.name]
  BY DEF At
<1>4. o \in ToSet(s)
  BY <1>2 DEF ToSet
<1>5. o.mod \in loaded \cup {""}
  BY <1>4 DEF NodesInv
<1> HIDE DEF s
<1>6. o \in Object
  BY <1>1, <1>2
<1> HIDE DEF o
<1>7. o.mod \in Module \cup {""} /\ o.name \in Name \cup {NULL, "iso"}
  BY <1>6 DEF Object
<1>8. At(p, i) \in Written /\ At(p, i).mod = o.mod /\ At(p, i).oid = p /\ At(p, i).name = o.name
  <2> DEFINE A == Module \cup {""}
             C == Name \cup {NULL, "iso"}
  <2>1. o.mod \in A /\ o.name \in C
    BY <1>7
  <2>2. Written = [mod : A, oid : Oid, name : C]
    BY DEF Written
  <2> HIDE DEF A, C
  <2> QED BY <1>1, <1>3, <2>1, <2>2, RecordOf
<1>9. At(p, i) # NULL
  BY <1>8, NameAssumption DEF Written
<1> QED BY <1>5, <1>8, <1>9 DEF o, s

LEMMA NodeObject ==
  ASSUME NodesInv, NEW p
  PROVE  IF p \in DOMAIN node
         THEN \E i \in DOMAIN node[p].objs : findObjectByNode(p) = At(p, i)
         ELSE findObjectByNode(p) = NULL
<1>1. CASE p \notin DOMAIN node
  BY <1>1 DEF findObjectByNode
<1>2. CASE p \in DOMAIN node
  <2> DEFINE objs == node[p].objs
             seen == {i \in DOMAIN objs : isInView(objs[i].mod)}
             f    == [i \in DOMAIN objs |-> Language[objs[i].mod]]
             Newer(i, j) == \/ Language[objs[i].mod] > Language[objs[j].mod]
                            \/ Language[objs[i].mod] = Language[objs[j].mod] /\ i < j
             k    == IF seen = {} THEN 1 ELSE CHOOSE i \in seen : \A j \in seen \ {i} : Newer(i, j)
  <2>1. findObjectByNode(p) = At(p, k)
    BY <1>2 DEF findObjectByNode
  <2>2. objs \in Seq(Object) /\ objs # <<>>
    BY <1>2, TreeFacts DEF NodesInv, Sound
  <2> HIDE DEF objs
  <2>3. /\ Len(objs) \in Nat \ {0} /\ DOMAIN objs = 1 .. Len(objs)
        /\ \A i \in DOMAIN objs : objs[i] \in Object
    BY <2>2
  <2>4. \A i \in DOMAIN objs : Language[objs[i].mod] \in Nat
    BY <2>3, LanguageAssumption DEF Object
  <2>5. f \in [1 .. Len(objs) -> Nat] /\ seen \in SUBSET (1 .. Len(objs))
    BY <2>3, <2>4
  <2>6. \A i \in DOMAIN objs : f[i] = Language[objs[i].mod]
    OBVIOUS
  <2> HIDE DEF f
  <2>7. seen # {} => k \in seen
    <3> HIDE DEF seen
    <3>1. ASSUME seen # {} PROVE \E i \in seen : \A j \in seen \ {i} : Newer(i, j)
      <4>1. PICK i \in seen : \A j \in seen \ {i} : f[i] > f[j] \/ (f[i] = f[j] /\ i < j)
        BY <2>3, <2>5, <3>1, Newest
      <4>2. \A j \in seen : f[j] = Language[objs[j].mod]
        BY <2>3, <2>5, <2>6
      <4> QED BY <4>1, <4>2
    <3> QED BY <3>1
  <2>8. k \in DOMAIN objs
    <3>1. 1 \in DOMAIN objs
      BY <2>3
    <3>2. seen = {} => k = 1
      OBVIOUS
    <3> HIDE DEF k, seen
    <3> QED BY <2>3, <2>5, <2>7, <3>1, <3>2
  <2> HIDE DEF k
  <2> QED BY <1>2, <2>1, <2>8 DEF objs
<1> QED BY <1>1, <1>2

LEMMA NodeFound ==
  ASSUME NodesInv, NEW p
  PROVE  /\ p \notin DOMAIN node => findObjectByNode(p) = NULL
         /\ p \in DOMAIN node => /\ findObjectByNode(p) # NULL /\ findObjectByNode(p).oid = p
                                 /\ findObjectByNode(p).mod \in loaded \cup {""}
<1>1. CASE p \notin DOMAIN node
  BY <1>1, NodeObject
<1>2. CASE p \in DOMAIN node
  <2>1. PICK i \in DOMAIN node[p].objs : findObjectByNode(p) = At(p, i)
    BY <1>2, NodeObject
  <2> QED BY <1>2, <2>1, AtFacts
<1> QED BY <1>1, <1>2

\* The object of a module at a node is found if there is one.
LEMMA ModuleNode ==
  ASSUME NodesInv, NEW p, NEW m
  PROVE  LET o == findObjectByModuleAndNode(m, p)
         IN  /\ Own(node, p, m) => o # NULL
             /\ o # NULL => p \in DOMAIN node /\ o.mod = m /\ o.oid = p
<1>1. CASE p \notin DOMAIN node
  BY <1>1 DEF findObjectByModuleAndNode, Own
<1>2. CASE p \in DOMAIN node
  <2> DEFINE s == node[p].objs
             L == {i \in DOMAIN s : i > 0 /\ s[i].mod = m}
             k == Low(L)
  <2>1. findObjectByModuleAndNode(m, p) = IF k = 0 THEN NULL ELSE At(p, k)
    BY <1>2 DEF findObjectByModuleAndNode, NextOf, Low
  <2>2. DOMAIN s \in SUBSET Nat /\ \A i \in DOMAIN s : i > 0
    <3>1. s \in Seq(Object)
      BY <1>2, TreeFacts DEF NodesInv
    <3> HIDE DEF s
    <3> QED BY <3>1
  <2>3. L \in SUBSET Nat /\ \A i \in L : i # 0 /\ i \in DOMAIN s /\ s[i].mod = m
    BY <2>2
  <2>4. Own(node, p, m) => L # {}
    BY <2>2 DEF Own, ToSet
  <2> HIDE DEF L
  <2>5. L = {} => k = 0
    BY DEF Low
  <2>6. L # {} => k \in L
    BY <2>3, LowFacts
  <2> HIDE DEF k
  <2>7. CASE L = {}
    BY <2>1, <2>4, <2>5, <2>7
  <2>8. CASE L # {}
    <3>1. k # 0 /\ k \in DOMAIN s /\ s[k].mod = m
      BY <2>3, <2>6, <2>8
    <3>2. findObjectByModuleAndNode(m, p) = At(p, k)
      BY <2>1, <3>1
    <3>3. At(p, k) # NULL /\ At(p, k).oid = p /\ At(p, k).mod = m
      BY <1>2, <3>1, AtFacts
    <3> QED BY <1>2, <3>2, <3>3
  <2> QED BY <2>7, <2>8
<1> QED BY <1>1, <1>2

\* The deepest node on the way, and the root when there is none.
KnownTo(oid) == {n \in 0 .. Len(oid) : n = 0 \/ SubSeq(oid, 1, n) \in DOMAIN node}

LEMMA Single ==
  ASSUME NEW S, NEW s \in Seq(S), Len(s) # 0
  PROVE  SubSeq(s, 1, 1) = <<s[1]>>
<1>1. Len(s) \in Nat /\ 1 \in 0 .. Len(s) /\ s[1] \in S
  OBVIOUS
<1> DEFINE a == SubSeq(s, 1, 1)
           b == <<s[1]>>
<1>2. a \in Seq(S) /\ Len(a) = 1 /\ \A j \in 1 .. 1 : a[j] = s[j]
  BY <1>1, Parts
<1>3. b \in Seq(S) /\ Len(b) = 1 /\ b[1] = s[1]
  BY <1>1
<1> HIDE DEF a, b
<1>4. \A j \in 1 .. Len(a) : a[j] = b[j]
  <2>1. \A j \in 1 .. 1 : j = 1
    OBVIOUS
  <2> QED BY <1>2, <1>3, <2>1
<1>5. a = b
  BY <1>2, <1>3, <1>4, SameSeq
<1> QED BY <1>5 DEF a, b

LEMMA DeepestNode ==
  ASSUME NodesInv, NEW oid \in Oid, oid # Nowhere
  PROVE  \E g \in 0 .. Len(oid) :
           /\ getNode(oid) = SubSeq(oid, 1, g)
           /\ g = 0 <=> getNode(oid) \notin DOMAIN node
           /\ g # 0 <=> <<oid[1]>> \in DOMAIN node
           /\ \A n \in 1 .. Len(oid) : SubSeq(oid, 1, n) \in DOMAIN node => n <= g
<1> DEFINE g == CHOOSE n \in KnownTo(oid) : \A k \in KnownTo(oid) : k <= n
<1>1. oid \in Seq(Subid) /\ Len(oid) \in Nat \ {0}
  BY OidParts DEF Oid
<1>2. getNode(oid) = SubSeq(oid, 1, g)
  BY DEF getNode, KnownTo
<1>3. KnownTo(oid) \in SUBSET (0 .. Len(oid)) /\ 0 \in KnownTo(oid)
  BY <1>1 DEF KnownTo
<1>4. g \in KnownTo(oid) /\ \A k \in KnownTo(oid) : k <= g
  BY <1>1, <1>3, Greatest
<1> HIDE DEF g
<1>5. g \in 0 .. Len(oid)
  BY <1>3, <1>4
<1>6. \A n \in 1 .. Len(oid) : SubSeq(oid, 1, n) \in DOMAIN node => n <= g
  <2>1. \A n \in 1 .. Len(oid) : n \in 0 .. Len(oid)
    OBVIOUS
  <2> QED BY <1>4, <2>1 DEF KnownTo
<1>7. g # 0 => SubSeq(oid, 1, g) \in DOMAIN node
  BY <1>4 DEF KnownTo
<1>8. g = 0 => SubSeq(oid, 1, g) = Nowhere
  <2>1. Len(SubSeq(oid, 1, 0)) = 0 /\ SubSeq(oid, 1, 0) \in Seq(Subid)
    BY <1>1, Parts, 0 \in 0 .. Len(oid)
  <2> QED BY <2>1 DEF Nowhere
<1>9. Nowhere \notin DOMAIN node
  BY TreeFacts DEF NodesInv
<1>10. SubSeq(oid, 1, 1) = <<oid[1]>>
  BY <1>1, Single
<1>11. ASSUME g # 0 PROVE <<oid[1]>> \in DOMAIN node
  <2> DEFINE q == SubSeq(oid, 1, g)
  <2>1. /\ q \in DOMAIN node /\ q \in Seq(Subid) /\ Len(q) = g /\ 1 \in 1 .. g
        /\ \A j \in 1 .. g : q[j] = oid[j]
    BY <1>1, <1>5, <1>7, <1>11, Parts
  <2> HIDE DEF q
  <2>2. SubSeq(q, 1, 1) \in DOMAIN node
    BY <2>1, Closed DEF NodesInv
  <2>3. SubSeq(q, 1, 1) = <<q[1]>> /\ q[1] = oid[1]
    BY <1>11, <2>1, Single
  <2> QED BY <2>2, <2>3
<1>12. ASSUME <<oid[1]>> \in DOMAIN node PROVE g # 0
  <2>1. 1 \in 1 .. Len(oid)
    BY <1>1
  <2>2. 1 <= g
    BY <1>6, <1>10, <1>12, <2>1
  <2> QED BY <2>2
<1> QED BY <1>2, <1>5, <1>6, <1>7, <1>8, <1>9, <1>11, <1>12

\* What is found for a number.
LEMMA ByOid ==
  ASSUME NodesInv, NEW oid \in Oid, oid # Nowhere
  PROVE  LET found == smiGetNodeByOID(oid)
         IN  /\ found # NULL <=> <<oid[1]>> \in DOMAIN node
             /\ found # NULL =>
                  /\ found.oid = getNode(oid) /\ found.mod \in loaded \cup {""}
                  /\ found.oid \in Oid /\ IsPrefix(found.oid, oid)
                  /\ \A p \in DOMAIN node : IsPrefix(p, oid) => Len(p) <= Len(found.oid)
<1>1. PICK g \in 0 .. Len(oid) :
           /\ getNode(oid) = SubSeq(oid, 1, g)
           /\ g = 0 <=> getNode(oid) \notin DOMAIN node
           /\ g # 0 <=> <<oid[1]>> \in DOMAIN node
           /\ \A n \in 1 .. Len(oid) : SubSeq(oid, 1, n) \in DOMAIN node => n <= g
  BY DeepestNode
<1> DEFINE q == getNode(oid)
<1>2. smiGetNodeByOID(oid) = findObjectByNode(q)
  BY DEF smiGetNodeByOID, Nowhere
<1>3. /\ oid \in Seq(Subid) /\ q \in Seq(Subid) /\ Len(q) = g /\ \A j \in 1 .. g : q[j] = oid[j]
      /\ Len(oid) \in Nat /\ g <= Len(oid)
  BY <1>1, Parts DEF Oid
<1> HIDE DEF q
<1>4. IsPrefix(q, oid) /\ q \in Oid
  BY <1>3, PrefixFacts DEF Oid
<1>5. \A p \in DOMAIN node : IsPrefix(p, oid) => Len(p) <= g
  <2> SUFFICES ASSUME NEW p \in DOMAIN node, IsPrefix(p, oid) PROVE Len(p) <= g
    OBVIOUS
  <2>1. p \in Oid /\ p # Nowhere
    BY TreeFacts DEF NodesInv
  <2>2. Len(p) \in 1 .. Len(oid) /\ p = SubSeq(oid, 1, Len(p))
    BY <2>1, PrefixPart
  <2> QED BY <1>1, <2>2
<1>6. q \notin DOMAIN node => findObjectByNode(q) = NULL
  BY NodeFound
<1>7. q \in DOMAIN node => /\ findObjectByNode(q) # NULL /\ findObjectByNode(q).oid = q
                           /\ findObjectByNode(q).mod \in loaded \cup {""}
  BY NodeFound
<1>8. q \in DOMAIN node <=> <<oid[1]>> \in DOMAIN node
  BY <1>1 DEF q
<1> QED BY <1>2, <1>3, <1>4, <1>5, <1>6, <1>7, <1>8 DEF q

LEMMA Whole ==
  ASSUME NEW S, NEW s \in Seq(S)
  PROVE  /\ SubSeq(s, 1, Len(s)) = s /\ <<>> \o s = s
         /\ SubSeq(s, Len(s) + 1, Len(s)) = <<>>
<1>1. SubSeq(s, 1, Len(s)) = s
  BY Parts, SameSeq, Len(s) \in 0 .. Len(s)
<1>2. <<>> \o s = s
  OBVIOUS
<1>3. SubSeq(s, Len(s) + 1, Len(s)) = <<>>
  OBVIOUS
<1> QED BY <1>1, <1>2, <1>3

\* A prefix and the numbers that are left.
LEMMA Restored ==
  ASSUME NEW S, NEW s \in Seq(S), NEW t \in Seq(S), IsPrefix(t, s)
  PROVE  t \o SubSeq(s, 1 + Len(t), Len(s)) = s
<1> DEFINE r == SubSeq(s, 1 + Len(t), Len(s))
           n == Len(t)
           k == Len(s)
<1>1. n \in Nat /\ k \in Nat /\ n <= k /\ \A j \in 1 .. n : t[j] = s[j]
  BY PrefixFacts
<1>2. r \in Seq(S) /\ Len(r) = k - n /\ \A j \in 1 .. k - n : r[j] = s[n + j]
  BY <1>1
<1> HIDE DEF r
<1>3. /\ t \o r \in Seq(S) /\ Len(t \o r) = n + (k - n)
      /\ \A j \in 1 .. n + (k - n) : (t \o r)[j] = IF j <= n THEN t[j] ELSE r[j - n]
  BY <1>2, Joined
<1>4. ASSUME NEW j \in 1 .. k PROVE (t \o r)[j] = s[j]
  <2>1. (t \o r)[j] = IF j <= n THEN t[j] ELSE r[j - n]
    BY <1>1, <1>3
  <2>2. CASE j <= n
    BY <1>1, <2>1, <2>2
  <2>3. CASE ~(j <= n)
    <3>1. j - n \in 1 .. k - n /\ n + (j - n) = j
      BY <1>1, <2>3
    <3> QED BY <1>2, <2>1, <2>3, <3>1
  <2> QED BY <2>2, <2>3
<1>5. Len(t \o r) = Len(s)
  BY <1>1, <1>3
<1> HIDE DEF n, k
<1> QED BY <1>3, <1>4, <1>5, SameSeq DEF r, k

\* Rendering names the deepest node that has a name.
LEMMA Rendered ==
  ASSUME NodesInv, NEW oid \in Oid, oid # Nowhere, \A m \in loaded : text[m].complete
  PROVE  LET r == smiRenderOID(oid)
         IN  /\ (IF r.object = NULL THEN <<>> ELSE r.object.oid) \o r.rest = oid
             /\ oid \in DOMAIN node /\ (\A o \in ToSet(node[oid].objs) : o.name # NULL)
                  => r.rest = <<>>
<1> DEFINE at(n)  == smiGetNodeByOID(SubSeq(oid, 1, n))
           named == {n \in 1 .. Len(oid) : at(n) = NULL \/ at(n).name # NULL}
           last  == CHOOSE n \in named : \A k \in named : k <= n
           found == IF named = {} THEN NULL ELSE at(last)
           r == smiRenderOID(oid)
<1>1. r = IF found = NULL THEN [object |-> NULL, rest |-> oid]
          ELSE [object |-> found, rest |-> Rest(oid, found)]
  BY DEF smiRenderOID
<1>2. oid \in Seq(Subid) /\ Len(oid) \in Nat \ {0}
  BY OidParts DEF Oid
<1>3. named # {} => last \in named /\ \A k \in named : k <= last
  <2>1. named \in SUBSET (0 .. Len(oid))
    OBVIOUS
  <2> HIDE DEF named
  <2> QED BY <1>2, <2>1, Greatest
<1>4. ASSUME NEW n \in 1 .. Len(oid), at(n) # NULL
      PROVE  at(n).mod \in loaded \cup {""} /\ at(n).oid \in Oid /\ IsPrefix(at(n).oid, oid)
  <2> DEFINE q == SubSeq(oid, 1, n)
             o == smiGetNodeByOID(q)
  <2>1. n \in 0 .. Len(oid)
    BY <1>2
  <2>2. q \in Seq(Subid) /\ Len(q) = n /\ \A j \in 1 .. n : q[j] = oid[j]
    BY <1>2, <2>1, Parts
  <2> HIDE DEF q
  <2>3. q \in Oid /\ q # Nowhere
    BY <2>2 DEF Oid, Nowhere
  <2>4. o.mod \in loaded \cup {""} /\ o.oid \in Oid /\ IsPrefix(o.oid, q)
    BY <1>4, <2>3, ByOid DEF q
  <2> DEFINE x == o.oid
  <2>5. x \in Seq(Subid) /\ IsPrefix(x, q)
    BY <2>4 DEF Oid
  <2> HIDE DEF o, x
  <2>6. Len(x) <= n /\ \A j \in 1 .. Len(x) : x[j] = q[j]
    BY <2>2, <2>5, PrefixFacts
  <2>7. Len(x) <= Len(oid) /\ \A j \in 1 .. Len(x) : x[j] = oid[j]
    BY <1>2, <2>2, <2>5, <2>6
  <2>8. IsPrefix(x, oid)
    BY <1>2, <2>5, <2>7, PrefixFacts
  <2> QED BY <2>4, <2>8 DEF x, o, q
<1>5. ASSUME found # NULL
      PROVE  /\ found.oid \in Seq(Subid) /\ IsPrefix(found.oid, oid)
             /\ Rest(oid, found) = SubSeq(oid, 1 + Len(found.oid), Len(oid))
  <2>1. named # {} /\ last \in 1 .. Len(oid) /\ found = at(last) /\ at(last) # NULL
    BY <1>3, <1>5
  <2> HIDE DEF named, last
  <2>2. found.mod \in loaded \cup {""} /\ found.oid \in Oid /\ IsPrefix(found.oid, oid)
    BY <1>4, <2>1
  <2> HIDE DEF found
  <2>3. found.mod = "" \/ text[found.mod].complete
    BY <2>2
  <2> QED BY <2>2, <2>3 DEF Oid, Rest
<1>6. (IF r.object = NULL THEN <<>> ELSE r.object.oid) \o r.rest = oid
  <2> HIDE DEF r, found
  <2>1. CASE found = NULL
    <3>1. r.object = NULL /\ r.rest = oid
      BY <1>1, <2>1
    <3> QED BY <1>2, <3>1, Whole
  <2>2. CASE found # NULL
    <3>1. r.object = found /\ r.rest = Rest(oid, found)
      BY <1>1, <2>2
    <3>2. found.oid \o SubSeq(oid, 1 + Len(found.oid), Len(oid)) = oid
      BY <1>2, <1>5, <2>2, Restored
    <3> QED BY <1>5, <2>2, <3>1, <3>2
  <2> QED BY <2>1, <2>2
<1>7. ASSUME oid \in DOMAIN node, \A o \in ToSet(node[oid].objs) : o.name # NULL
      PROVE  r.rest = <<>>
  <2>1. SubSeq(oid, 1, Len(oid)) = oid
    BY <1>2, Whole
  <2>2. PICK g \in 0 .. Len(oid) :
           /\ getNode(oid) = SubSeq(oid, 1, g)
           /\ \A n \in 1 .. Len(oid) : SubSeq(oid, 1, n) \in DOMAIN node => n <= g
    BY DeepestNode
  <2>3. getNode(oid) = oid
    <3>1. Len(oid) \in 1 .. Len(oid)
      BY <1>2
    <3>2. Len(oid) <= g
      BY <1>7, <2>1, <2>2, <3>1
    <3>3. g = Len(oid)
      BY <1>2, <3>2
    <3> QED BY <2>1, <2>2, <3>3
  <2>4. smiGetNodeByOID(oid) = findObjectByNode(oid)
    BY <2>3 DEF smiGetNodeByOID, Nowhere
  <2>5. PICK i \in DOMAIN node[oid].objs : findObjectByNode(oid) = At(oid, i)
    BY <1>7, NodeObject
  <2>6. At(oid, i) # NULL /\ At(oid, i).oid = oid /\ At(oid, i).name = node[oid].objs[i].name
    BY <1>7, AtFacts
  <2>7. node[oid].objs[i] \in ToSet(node[oid].objs)
    BY DEF ToSet
  <2>8. At(oid, i).name # NULL
    BY <1>7, <2>6, <2>7
  <2>9. at(Len(oid)) = At(oid, i)
    BY <2>1, <2>4, <2>5
  <2>10. Len(oid) \in named
    BY <1>2, <2>8, <2>9
  <2>11. \A k \in named : k <= Len(oid)
    OBVIOUS
  <2>12. last \in named /\ Len(oid) <= last /\ last <= Len(oid) /\ last \in 1 .. Len(oid)
    BY <1>3, <2>10, <2>11
  <2>13. last = Len(oid) /\ named # {}
    BY <1>2, <2>10, <2>12
  <2> HIDE DEF named, last
  <2>14. found = At(oid, i)
    BY <2>9, <2>13
  <2> HIDE DEF found
  <2>15. r.rest = Rest(oid, found)
    BY <1>1, <2>6, <2>14
  <2>16. Rest(oid, found) = SubSeq(oid, 1 + Len(oid), Len(oid))
    BY <1>5, <2>6, <2>14
  <2>17. 1 + Len(oid) = Len(oid) + 1
    BY <1>2
  <2> QED BY <1>2, <2>15, <2>16, <2>17, Whole
<1> QED BY <1>6, <1>7

LEMMA NumbersAreRight == NodesInv => NumbersRight
<1> SUFFICES ASSUME NodesInv, NEW oid \in Numbers
             PROVE  LET found    == smiGetNodeByOID(oid)
                        rendered == smiRenderOID(oid)
                    IN  /\ found # NULL <=> <<oid[1]>> \in DOMAIN node
                        /\ found # NULL =>
                             /\ IsPrefix(found.oid, oid)
                             /\ \A p \in DOMAIN node : IsPrefix(p, oid) => Len(p) <= Len(found.oid)
                        /\ \A m \in loaded :
                             GetNodeByNumber(m, oid) # NULL => GetNodeByNumber(m, oid).mod = m
                        /\ (\A m \in loaded : text[m].complete) =>
                             /\ (IF rendered.object = NULL THEN <<>> ELSE rendered.object.oid)
                                   \o rendered.rest = oid
                             /\ oid \in DOMAIN node /\ (\A o \in ToSet(node[oid].objs) : o.name # NULL)
                                  => rendered.rest = <<>>
  BY DEF NumbersRight
<1>1. oid \in Oid /\ oid # Nowhere
  BY NumbersAssumption
<1>2. ASSUME NEW m \in loaded
      PROVE  GetNodeByNumber(m, oid) # NULL => GetNodeByNumber(m, oid).mod = m
  <2>1. m # NULL
    BY NullAssumption DEF NodesInv
  <2>2. GetNodeByNumber(m, oid) = findObjectByModuleAndNode(m, getNode(oid))
    BY <2>1 DEF GetNodeByNumber
  <2> QED BY <2>2, ModuleNode
<1> QED BY <1>1, <1>2, ByOid, Rendered

-----------------------------------------------------------------------------
(* Parents and types.                                                      *)

LEMMA ParentsAreRight == NodesInv => ParentsRight
<1> SUFFICES ASSUME NodesInv, NEW p \in DOMAIN node, NEW i \in DOMAIN node[p].objs
             PROVE  LET parent == smiGetParentNode(At(p, i))
                        above == {o \in Objects : o.oid = Front(p)}
                    IN  IF Len(p) = 1 THEN parent = NULL
                        ELSE /\ parent.oid = Front(p)
                             /\ \A o, q \in above :
                                  /\ o = findObjectByModuleAndNode(At(p, i).mod, Front(p))
                                  /\ smiIsImported(o.mod, q.mod, o.name)
                                  /\ \A from \in findImportByName(o.name, o.mod) : from.module = q.mod
                                  => parent.mod = q.mod
  BY DEF ParentsRight
<1> DEFINE object == At(p, i)
           up   == Front(p)
           own  == findObjectByModuleAndNode(object.mod, up)
           from == IF own = NULL \/ own.name = NULL THEN {} ELSE findImportByName(own.name, own.mod)
           of   == (CHOOSE x \in from : TRUE).module
           original == IF from = {} THEN NULL ELSE findObjectByModuleAndNode(of, up)
           parent == smiGetParentNode(object)
<1>1. object.oid = p
  BY AtFacts
<1>2. parent = IF original # NULL THEN original ELSE findObjectByNode(up)
  BY <1>1 DEF smiGetParentNode
<1>3. /\ p \in Oid /\ p # Nowhere /\ up \in DOMAIN node \cup {Nowhere} /\ Nowhere \notin DOMAIN node
      /\ Len(p) \in Nat \ {0} /\ Len(up) = Len(p) - 1 /\ up \in Oid
  <2>1. p \in Oid /\ p # Nowhere /\ Nowhere \notin DOMAIN node
    BY TreeFacts DEF NodesInv
  <2>2. up \in DOMAIN node \cup {Nowhere}
    BY DEF NodesInv, Sound
  <2> QED BY <2>1, <2>2, OidParts
<1>4. original # NULL => up \in DOMAIN node /\ original.oid = up
  BY ModuleNode
<1> HIDE DEF object, up
<1>5. CASE Len(p) = 1
  <2>1. up = Nowhere
    BY <1>3, <1>5 DEF Nowhere, Oid
  <2>2. original = NULL
    BY <1>3, <1>4, <2>1
  <2>3. findObjectByNode(up) = NULL
    BY <1>3, <2>1, NodeFound
  <2>4. parent = NULL
    BY <1>2, <2>2, <2>3
  <2> QED BY <1>5, <2>4 DEF object
<1>6. CASE Len(p) # 1
  <2>1. up # Nowhere
    BY <1>3, <1>6 DEF Nowhere
  <2>2. up \in DOMAIN node
    BY <1>3, <2>1
  <2>3. parent.oid = up
    BY <1>2, <1>4, <2>2, NodeFound
  <2>4. ASSUME NEW o \in Objects, NEW q \in Objects, o.oid = up, q.oid = up, o = own,
               smiIsImported(o.mod, q.mod, o.name),
               \A x \in findImportByName(o.name, o.mod) : x.module = q.mod
        PROVE  parent.mod = q.mod
    <3>1. PICK m \in loaded : o \in ToSet(ObjectsOf(m))
      BY DEF Objects
    <3>2. PICK k \in loaded : q \in ToSet(ObjectsOf(k))
      BY DEF Objects
    <3>3. o # NULL /\ o.name \in Name
      BY <3>1, ObjectsFacts
    <3>4. o.name # NULL
      BY <3>3, NullAssumption
    <3>5. from = findImportByName(o.name, o.mod)
      BY <2>4, <3>3, <3>4
    <3>6. from # {}
      <4>1. q.mod = k /\ k # NULL
        <5>1. q.mod = k
          BY <3>2, ObjectsFacts
        <5>2. k \in Module
          BY DEF NodesInv
        <5> QED BY <5>1, <5>2, NullAssumption
      <4>2. \E x \in ImportsOf[o.mod] : x.name = o.name
        BY <2>4 DEF smiIsImported
      <4> QED BY <3>5, <4>2 DEF findImportByName
    <3>7. of = q.mod
      <4> HIDE DEF from
      <4>1. (CHOOSE x \in from : TRUE) \in from
        BY <3>6
      <4> QED BY <2>4, <3>5, <4>1
    <3>8. Own(node, up, q.mod)
      <4> DEFINE t == ObjectsOf(k)
      <4>1. /\ DOMAIN t = DOMAIN text[k].defs
            /\ \A j \in DOMAIN t : t[j].mod = k /\ t[j].oid = Stands(k, j)
        BY ObjectsFacts
      <4>2. PICK j \in DOMAIN t : q = t[j]
        BY <3>2 DEF ToSet
      <4>3. Stands(k, j) = up /\ q.mod = k /\ j \in DOMAIN text[k].defs
        BY <2>4, <4>1, <4>2
      <4>4. Declared(node, k, j)
        BY <4>3 DEF NodesInv
      <4> QED BY <2>1, <4>3, <4>4 DEF Declared
    <3>9. original = findObjectByModuleAndNode(q.mod, up)
      <4> HIDE DEF from, of
      <4> QED BY <3>6, <3>7
    <3>10. original # NULL /\ original.mod = q.mod
      BY <3>8, <3>9, ModuleNode
    <3> QED BY <1>2, <3>10
  <2> QED BY <1>6, <2>3, <2>4 DEF object, up
<1> QED BY <1>5, <1>6

LEMMA TypesAreRight == NodesInv /\ OrderInv => TypesRight
<1> SUFFICES ASSUME NodesInv, OrderInv, NEW m \in loaded
             PROVE  /\ \A type \in ToSet(TypesOf[m]) :
                         type.name # NULL /\ Real(type) /\ OnlyOne(type, TypesOf[m])
                           => smiGetType(NULL, Full(m, "::", type.name)) = type
                    /\ \A macro \in ToSet(MacrosOf[m]) :
                         OnlyOne(macro, MacrosOf[m])
                           => smiGetMacro(NULL, Full(m, "!", macro.name)) = macro
  BY DEF TypesRight
<1>1. m \in Module /\ m # NULL
  BY NullAssumption DEF NodesInv
<1>2. "::" \in Separators /\ "!" \in Separators
  BY DEF Separators
<1>3. ASSUME NEW list \in {TypesOf[m], MacrosOf[m]}, NEW e \in ToSet(list), OnlyOne(e, list)
      PROVE  In(list, e.name) = e /\ e # NULL
  <2>1. IsList(list) /\ NULL \notin ToSet(list)
    BY <1>1, <1>3, ListAssumption
  <2>2. Len(list) \in Nat /\ DOMAIN list = 1 .. Len(list)
    BY <2>1 DEF IsList
  <2>3. /\ In(list, e.name) = NULL => \A x \in ToSet(list) : x.name # e.name
        /\ In(list, e.name) # NULL => In(list, e.name) \in ToSet(list) /\ In(list, e.name).name = e.name
    BY <2>1, <2>2, InFacts
  <2> QED BY <1>3, <2>1, <2>3 DEF OnlyOne
<1>4. ASSUME NEW type \in ToSet(TypesOf[m]), type.name # NULL, Real(type), OnlyOne(type, TypesOf[m])
      PROVE  smiGetType(NULL, Full(m, "::", type.name)) = type
  <2>1. In(TypesOf[m], type.name) = type /\ type # NULL
    BY <1>3, <1>4
  <2>2. /\ Asked(NULL, Full(m, "::", type.name)) = m
        /\ getModulenameAndName(NULL, Full(m, "::", type.name)).name = type.name
    BY <1>2, AskedOf
  <2> QED BY <1>1, <1>4, <2>1, <2>2 DEF smiGetType, findTypeByModuleAndName
<1>5. ASSUME NEW macro \in ToSet(MacrosOf[m]), OnlyOne(macro, MacrosOf[m])
      PROVE  smiGetMacro(NULL, Full(m, "!", macro.name)) = macro
  <2>1. In(MacrosOf[m], macro.name) = macro
    BY <1>3, <1>5
  <2>2. /\ Asked(NULL, Full(m, "!", macro.name)) = m
        /\ getModulenameAndName(NULL, Full(m, "!", macro.name)).name = macro.name
    BY <1>2, AskedOf
  <2> QED BY <1>1, <2>1, <2>2 DEF smiGetMacro, findMacroByModuleAndName
<1> QED BY <1>4, <1>5

\* Names, numbers, parents and types are found as smi_node(3) and smi_type(3)
\* promise, whatever modules are loaded in whatever order, and what a simple name
\* has stood for it stands for as long as the library is in use.
THEOREM NamesAlwaysFound == LookupSpec => []NamesFound
<1>1. LookupInit => LookupInv /\ AnswerInv
  BY InitInv, AnswerInit
<1>2. LookupInv /\ AnswerInv /\ [LookupNext]_lookupVars => LookupInv' /\ AnswerInv'
  BY StepInv, AnswerStep
<1>3. LookupInv /\ AnswerInv => NamesFound
  BY NamesAreRight, NumbersAreRight, ParentsAreRight, TypesAreRight, AnswersKept
     DEF LookupInv, NamesFound
<1> QED BY <1>1, <1>2, <1>3, PTL DEF LookupSpec
=============================================================================
