--------------------------- MODULE PduSizesProofs ---------------------------
(***************************************************************************)
(* Proof that no message is smaller than the best case that `smidump -f    *)
(* sizes' prints, and none exceeds the worst case by more than what is     *)
(* never counted: whatever the width of an octet, the length from which    *)
(* on lengths have the long form, the types, and the number of variables   *)
(* and index columns.                                                      *)
(***************************************************************************)
EXTENDS PduSizes, FiniteSetTheorems, WellFoundedInduction, TLAPS

-----------------------------------------------------------------------------
(* Numbers.                                                                *)

LEMMA Monotone ==
  ASSUME NEW a \in Int, NEW b \in Int, a <= b, NEW c \in Nat
  PROVE  a * c <= b * c /\ a * c \in Int /\ b * c \in Int
OBVIOUS

LEMMA Halves ==
  /\ Half \in Nat /\ Half >= 2 /\ Octet = 2 * Half
  /\ P4 \in Nat /\ P8 \in Nat /\ P4 >= 16 * Octet /\ P8 >= P4
  /\ P4 = 2 * (P4 \div 2) /\ P8 = 2 * (P8 \div 2)
<1>1. Half \in Nat /\ Half >= 2 /\ Octet = 2 * Half
  BY OctetAssumption DEF Half
<1>2. P2 \in Nat /\ P2 >= 4 * Octet /\ P2 = 2 * (Half * Octet) /\ Half * Octet \in Nat
  <2>1. P2 \in Nat /\ P2 >= 4 * Octet
    BY OctetAssumption, Monotone DEF P2
  <2>2. Octet * Octet = 2 * (Half * Octet)
    BY <1>1, OctetAssumption
  <2>3. QED BY <2>1, <2>2, <1>1, OctetAssumption DEF P2
<1>3. P4 \in Nat /\ P4 >= 4 * P2 /\ P4 = 2 * (Half * Octet * P2) /\ Half * Octet * P2 \in Nat
  <2>1. P2 * P2 >= 4 * P2
    BY <1>2, OctetAssumption, Monotone
  <2>2. P2 * P2 = 2 * (Half * Octet * P2)
    <3> DEFINE h == Half * Octet
    <3> HIDE DEF h
    <3>1. h \in Nat /\ P2 = 2 * h BY <1>2 DEF h
    <3>2. P2 * P2 = 2 * (h * P2) BY <3>1, <1>2
    <3>3. QED BY <3>2 DEF h
  <2>3. QED BY <2>1, <2>2, <1>1, <1>2, OctetAssumption DEF P4
<1>4. P8 \in Nat /\ P8 >= P4 /\ P8 = 2 * (Half * Octet * P2 * P4)
  <2> DEFINE h == Half * Octet * P2
  <2> HIDE DEF h
  <2>1. h \in Nat /\ P4 = 2 * h BY <1>3 DEF h
  <2>2. P4 * P4 = 2 * (h * P4) /\ h * P4 \in Nat BY <2>1, <1>3
  <2>3. P4 * P4 >= 1 * P4 BY <1>3, <1>2, OctetAssumption, Monotone
  <2>4. QED BY <2>2, <2>3, <1>3 DEF P8, h
<1>5. P4 = 2 * (P4 \div 2)
  <2> DEFINE h == Half * Octet * P2
  <2> HIDE DEF h
  <2>1. h \in Nat /\ P4 = 2 * h BY <1>3 DEF h
  <2>2. QED BY <2>1
<1>6. P8 = 2 * (P8 \div 2)
  <2> DEFINE h == Half * Octet * P2 * P4
  <2> HIDE DEF h
  <2>1. h \in Int /\ P8 = 2 * h
    <3> DEFINE g == Half * Octet * P2
    <3> HIDE DEF g
    <3>1. g \in Nat BY <1>3 DEF g
    <3>2. g * P4 \in Int BY <3>1, <1>3
    <3>3. QED BY <3>2, <1>4 DEF h, g
  <2>2. QED BY <2>1
<1>7. QED BY <1>1, <1>2, <1>3, <1>4, <1>5, <1>6, OctetAssumption

LEMMA Quotients ==
  ASSUME NEW a \in Nat, NEW b \in Nat, a <= b, NEW h \in Nat \ {0}
  PROVE  a \div h \in Nat /\ a \div h <= b \div h
<1> DEFINE p == a \div h
           q == b \div h
<1>1. p \in Nat /\ q \in Nat OBVIOUS
<1>2. h * p <= a /\ b < h * (q + 1)
  <2>1. a = h * (a \div h) + (a % h) /\ a % h \in 0 .. h - 1 OBVIOUS
  <2>2. b = h * (b \div h) + (b % h) /\ b % h \in 0 .. h - 1 OBVIOUS
  <2>3. h * p \in Int /\ h * q \in Int /\ h * (q + 1) = h * q + h BY <1>1
  <2>4. QED BY <2>1, <2>2, <2>3
<1> HIDE DEF p, q
<1>3. ASSUME q + 1 <= p PROVE FALSE
  <2>1. (q + 1) * h <= p * h BY <1>1, <1>3, Monotone
  <2>2. (q + 1) * h = h * (q + 1) /\ p * h = h * p BY <1>1
  <2>3. h * p \in Int /\ h * (q + 1) \in Int BY <1>1
  <2>4. QED BY <1>2, <2>1, <2>2, <2>3
<1>4. p <= q BY <1>1, <1>3
<1>5. QED BY <1>1, <1>4 DEF p, q

LEMMA Less ==
  ASSUME NEW a \in Nat, NEW b \in Nat, a < b
  PROVE  <<a, b>> \in OpToRel(<, Nat)
BY DEF OpToRel

\* The least element of a set of integers that is bounded below.
LEMMA LeastNat ==
  ASSUME NEW S \in SUBSET Nat, S # {}
  PROVE  \E a \in S : \A b \in S : a <= b
<1>1. PICK a \in S : \A b \in S : ~(<<b, a>> \in OpToRel(<, Nat))
  BY WFMin, NatLessThanWellFounded
<1>2. ASSUME NEW b \in S PROVE ~(b < a)
  BY <1>1, Less
<1>3. QED BY <1>2

LEMMA LeastInt ==
  ASSUME NEW S \in SUBSET Int, S # {}, NEW low \in Int, \A x \in S : low <= x
  PROVE  \E x \in S : \A y \in S : x <= y
<1> DEFINE T == {b \in Nat : low + b \in S}
<1>1. ASSUME NEW x \in S PROVE x - low \in T
  <2>1. x - low \in Nat /\ low + (x - low) = x OBVIOUS
  <2>2. QED BY <2>1
<1>2. T \in SUBSET Nat /\ T # {} BY <1>1
<1>3. PICK a \in T : \A b \in T : a <= b BY <1>2, LeastNat
<1>4. low + a \in S /\ a \in Nat BY <1>3
<1>5. ASSUME NEW y \in S PROVE low + a <= y
  <2>1. a <= y - low BY <1>1, <1>3
  <2>2. QED BY <2>1, <1>4
<1>6. QED BY <1>4, <1>5

LEMMA LeastFacts ==
  ASSUME NEW S \in SUBSET Int, S # {}, NEW low \in Int, \A x \in S : low <= x
  PROVE  Least(S) \in S /\ \A y \in S : Least(S) <= y
BY LeastInt DEF Least

LEMMA GreatestFacts ==
  ASSUME NEW S \in SUBSET Int, S # {}, NEW high \in Int, \A x \in S : x <= high
  PROVE  Greatest(S) \in S /\ \A y \in S : y <= Greatest(S)
<1> DEFINE T == {a \in Int : -a \in S}
<1>1. ASSUME NEW x \in S PROVE -x \in T
  <2>1. -x \in Int /\ -(-x) = x OBVIOUS
  <2>2. QED BY <2>1
<1>2. T \in SUBSET Int /\ T # {} /\ -high \in Int
  <2>1. PICK x \in S : TRUE OBVIOUS
  <2>2. -x \in T BY <1>1
  <2>3. -high \in Int OBVIOUS
  <2>4. QED BY <2>2, <2>3
<1>3. ASSUME NEW a \in T PROVE -high <= a
  <2>1. -a <= high /\ a \in Int OBVIOUS
  <2>2. QED BY <2>1
<1>4. PICK z \in T : \A y \in T : z <= y BY <1>2, <1>3, LeastInt
<1>5. ASSUME NEW y \in S PROVE y <= -z
  <2>1. z <= -y /\ z \in Int BY <1>1, <1>4
  <2>2. QED BY <2>1
<1>6. -z \in S OBVIOUS
<1>7. QED BY <1>5, <1>6 DEF Greatest

-----------------------------------------------------------------------------
(* Lengths.                                                                *)

LEMMA ReachedFacts ==
  ASSUME NEW S, IsFiniteSet(S), S \subseteq Int
  PROVE  /\ \A a \in Int : Reached(a, S) \in Nat
         /\ \A a, b \in Int : a <= b => Reached(a, S) <= Reached(b, S)
<1>1. ASSUME NEW a \in Int
      PROVE  IsFiniteSet({p \in S : p <= a}) /\ Reached(a, S) \in Nat
  <2>1. IsFiniteSet({p \in S : p <= a}) BY FS_Subset
  <2>2. QED BY <2>1, FS_CardinalityType DEF Reached
<1>2. ASSUME NEW a \in Int, NEW b \in Int, a <= b
      PROVE  Reached(a, S) <= Reached(b, S)
  <2>1. ASSUME NEW p \in S, p <= a PROVE p <= b
    <3>1. p \in Int OBVIOUS
    <3>2. QED BY <3>1, <2>1, <1>2
  <2>3. {p \in S : p <= a} \in SUBSET {p \in S : p <= b} BY <2>1
  <2>4. QED BY <2>3, <1>1, FS_Subset DEF Reached
<1>3. QED BY <1>1, <1>2

LEMMA PowersFinite ==
  /\ IsFiniteSet(Powers) /\ Powers \subseteq Int
  /\ IsFiniteSet({1} \cup Powers) /\ {1} \cup Powers \subseteq Int
  /\ IsFiniteSet(HalfPowers) /\ HalfPowers \subseteq Int
<1>1. ASSUME NEW a, NEW b, NEW c, NEW d, NEW e, NEW f, NEW g
      PROVE  IsFiniteSet({a, b, c, d, e, f, g})
  <2>1. IsFiniteSet({a}) BY FS_Singleton
  <2>2. IsFiniteSet({a} \cup {b}) BY <2>1, FS_AddElement
  <2>3. IsFiniteSet({a} \cup {b} \cup {c}) BY <2>2, FS_AddElement
  <2>4. IsFiniteSet({a} \cup {b} \cup {c} \cup {d}) BY <2>3, FS_AddElement
  <2>5. IsFiniteSet({a} \cup {b} \cup {c} \cup {d} \cup {e}) BY <2>4, FS_AddElement
  <2>6. IsFiniteSet({a} \cup {b} \cup {c} \cup {d} \cup {e} \cup {f}) BY <2>5, FS_AddElement
  <2>7. IsFiniteSet({a} \cup {b} \cup {c} \cup {d} \cup {e} \cup {f} \cup {g}) BY <2>6, FS_AddElement
  <2>8. {a, b, c, d, e, f, g} = {a} \cup {b} \cup {c} \cup {d} \cup {e} \cup {f} \cup {g} OBVIOUS
  <2>9. QED BY <2>7, <2>8
<1>2. IsFiniteSet(Powers) BY <1>1 DEF Powers
<1>3. IsFiniteSet(HalfPowers) BY <1>1 DEF HalfPowers
<1>4. Powers \cup {1} = {1} \cup Powers OBVIOUS
<1>5. IsFiniteSet({1} \cup Powers) BY <1>2, <1>4, FS_AddElement
<1>6. Powers \subseteq Int
  <2>1. P2 \in Int BY OctetAssumption DEF P2
  <2>2. P3 \in Int /\ P4 \in Int BY <2>1, OctetAssumption DEF P3, P4
  <2>3. P4 * Octet \in Int /\ P4 * P2 \in Int /\ P4 * P3 \in Int BY <2>1, <2>2, OctetAssumption
  <2>4. QED BY <2>1, <2>2, <2>3, OctetAssumption DEF Powers
<1>7. HalfPowers \subseteq Int
  <2>1. Half \in Int BY Halves
  <2>2. H2 \in Int BY <2>1 DEF H2
  <2>3. H4 \in Int /\ H2 * Half \in Int BY <2>1, <2>2 DEF H4
  <2>4. H4 * Half \in Int /\ H4 * H2 \in Int BY <2>1, <2>2, <2>3
  <2>5. H4 * H2 * Half \in Int BY <2>1, <2>4
  <2>6. QED BY <2>1, <2>2, <2>3, <2>4, <2>5 DEF HalfPowers
<1>8. QED BY <1>2, <1>3, <1>5, <1>6, <1>7

LEMMA PowersReached ==
  /\ \A a \in Int : /\ Reached(a, Powers) \in Nat /\ Reached(a, HalfPowers) \in Nat
                    /\ Reached(a, {1} \cup Powers) \in Nat
  /\ \A a, b \in Int : a <= b =>
       /\ Reached(a, Powers) <= Reached(b, Powers)
       /\ Reached(a, HalfPowers) <= Reached(b, HalfPowers)
       /\ Reached(a, {1} \cup Powers) <= Reached(b, {1} \cup Powers)
<1>1. /\ \A a \in Int : Reached(a, Powers) \in Nat
      /\ \A a, b \in Int : a <= b => Reached(a, Powers) <= Reached(b, Powers)
  BY ReachedFacts, PowersFinite
<1>2. /\ \A a \in Int : Reached(a, HalfPowers) \in Nat
      /\ \A a, b \in Int : a <= b => Reached(a, HalfPowers) <= Reached(b, HalfPowers)
  BY ReachedFacts, PowersFinite
<1>3. /\ \A a \in Int : Reached(a, {1} \cup Powers) \in Nat
      /\ \A a, b \in Int :
           a <= b => Reached(a, {1} \cup Powers) <= Reached(b, {1} \cup Powers)
  <2> DEFINE S == {1} \cup Powers
  <2>1. IsFiniteSet(S) /\ S \subseteq Int BY PowersFinite
  <2> HIDE DEF S
  <2>2. /\ \A a \in Int : Reached(a, S) \in Nat
        /\ \A a, b \in Int : a <= b => Reached(a, S) <= Reached(b, S)
    BY <2>1, ReachedFacts
  <2>3. QED BY <2>2 DEF S
<1>4. QED BY <1>1, <1>2, <1>3

LEMMA LengthGrows ==
  /\ \A a \in Int : /\ ber_len_length(a) \in Nat /\ ber_len_length(a) >= 1
                    /\ LongForm(a) \in Nat /\ ber_len_length(a) <= 1 + LongForm(a)
  /\ \A a, b \in Int : a <= b => ber_len_length(a) <= ber_len_length(b)
<1>1. LongLength \in Int BY LongAssumption
<1>2. ASSUME NEW a \in Int
      PROVE  /\ ber_len_length(a) \in Nat /\ ber_len_length(a) >= 1
             /\ LongForm(a) \in Nat /\ ber_len_length(a) <= 1 + LongForm(a)
  <2>1. Reached(a, Powers) \in Nat BY PowersReached
  <2>2. QED BY <1>1, <2>1 DEF ber_len_length, LongForm
<1>3. ASSUME NEW a \in Int, NEW b \in Int, a <= b
      PROVE  ber_len_length(a) <= ber_len_length(b)
  <2>1. Reached(a, Powers) \in Nat /\ Reached(b, Powers) \in Nat BY PowersReached
  <2>2. Reached(a, Powers) <= Reached(b, Powers) BY <1>3, PowersReached
  <2>3. QED BY <1>1, <1>3, <2>1, <2>2 DEF ber_len_length
<1>4. QED BY <1>2, <1>3

\* Each length grows with what it is the length of.
LEMMA WrappedGrows ==
  /\ \A a \in Int : Wrapped(a) \in Int /\ (a >= 0 => Wrapped(a) >= 2)
  /\ \A a, b \in Int : a <= b => Wrapped(a) <= Wrapped(b)
<1>1. ASSUME NEW a \in Int
      PROVE  Wrapped(a) \in Int /\ (a >= 0 => Wrapped(a) >= 2)
  BY LengthGrows DEF Wrapped
<1>2. ASSUME NEW a \in Int, NEW b \in Int, a <= b PROVE Wrapped(a) <= Wrapped(b)
  <2>1. /\ ber_len_length(a) \in Nat /\ ber_len_length(b) \in Nat
        /\ ber_len_length(a) <= ber_len_length(b)
    BY <1>2, LengthGrows
  <2>2. QED BY <1>2, <2>1 DEF Wrapped
<1>3. QED BY <1>1, <1>2

\* The part p of a message is a at least, and what is counted of it is b at most.
Counts(a, p, b) ==
  /\ a \in Int /\ b \in Int /\ p.size \in Int /\ p.extra \in Int
  /\ a <= p.size /\ p.size - p.extra <= b

\* A tag and a length keep this: what the long form adds is not counted.
LEMMA EnclosedCounts ==
  ASSUME NEW a, NEW b, NEW p, Counts(a, p, b)
  PROVE  Counts(Wrapped(a), Enclosed(p), Wrapped(b))
<1>1. /\ a \in Int /\ b \in Int /\ p.size \in Int /\ p.extra \in Int
      /\ a <= p.size /\ p.size - p.extra <= b
  BY DEF Counts
<1>2. /\ Enclosed(p).size = p.size + 2 + LongForm(p.size)
      /\ Enclosed(p).extra = p.extra + LongForm(p.size)
  BY DEF Enclosed
<1>3. /\ LongForm(p.size) \in Nat /\ ber_len_length(p.size) <= 1 + LongForm(p.size)
      /\ ber_len_length(p.size) \in Nat /\ ber_len_length(a) \in Nat
      /\ ber_len_length(a) <= ber_len_length(p.size)
      /\ ber_len_length(b) \in Nat /\ ber_len_length(b) >= 1
  BY <1>1, LengthGrows
<1> DEFINE e == Enclosed(p)
<1> HIDE DEF e
<1>4. e.size = p.size + 2 + LongForm(p.size) /\ e.extra = p.extra + LongForm(p.size)
  BY <1>2 DEF e
<1>5. Counts(Wrapped(a), e, Wrapped(b)) BY <1>1, <1>3, <1>4 DEF Counts, Wrapped
<1>6. QED BY <1>5 DEF e

LEMMA BesideCounts ==
  ASSUME NEW a, NEW b, NEW p, Counts(a, p, b), NEW c, NEW d, NEW q, Counts(c, q, d)
  PROVE  Counts(a + c, Beside(p, q), b + d)
<1>1. /\ Beside(p, q).size = p.size + q.size /\ Beside(p, q).extra = p.extra + q.extra
  BY DEF Beside
<1> DEFINE e == Beside(p, q)
<1> HIDE DEF e
<1>2. e.size = p.size + q.size /\ e.extra = p.extra + q.extra BY <1>1 DEF e
<1>3. Counts(a + c, e, b + d) BY <1>2 DEF Counts
<1>4. QED BY <1>3 DEF e

LEMMA InFullCounts ==
  ASSUME NEW a \in Int, NEW k \in Int, NEW b \in Int, a <= k, k <= b
  PROVE  Counts(a, InFull(k), b)
<1>1. InFull(k).size = k /\ InFull(k).extra = 0 BY DEF InFull
<1>2. QED BY <1>1 DEF Counts

\* Nothing is counted of what is left out.
LEMMA LeftOutCounts ==
  ASSUME NEW k \in Nat
  PROVE  Counts(0, LeftOut(k), 0)
<1>1. LeftOut(k).size = k /\ LeftOut(k).extra = k BY DEF LeftOut
<1>2. QED BY <1>1 DEF Counts

LEMMA SubidGrows ==
  /\ \A a \in Int : ber_len_subid(a) \in Nat /\ ber_len_subid(a) >= 1
  /\ \A a, b \in Int : a <= b => ber_len_subid(a) <= ber_len_subid(b)
<1>1. ASSUME NEW a \in Int PROVE ber_len_subid(a) \in Nat /\ ber_len_subid(a) >= 1
  <2>1. Reached(a, HalfPowers) \in Nat BY PowersReached
  <2>2. QED BY <2>1 DEF ber_len_subid
<1>2. ASSUME NEW a \in Int, NEW b \in Int, a <= b
      PROVE  ber_len_subid(a) <= ber_len_subid(b)
  <2>1. Reached(a, HalfPowers) \in Nat /\ Reached(b, HalfPowers) \in Nat BY PowersReached
  <2>2. Reached(a, HalfPowers) <= Reached(b, HalfPowers) BY <1>2, PowersReached
  <2>3. QED BY <2>1, <2>2 DEF ber_len_subid
<1>3. QED BY <1>1, <1>2

LEMMA OctetsGrow ==
  /\ \A a \in Int : Octets(a) \in Nat
  /\ \A a, b \in Nat : a <= b => Octets(a) <= Octets(b)
  /\ \A a \in Int : Octets(0) <= Octets(a)
  /\ \A a \in Int : a < 0 => Octets(a) = Octets(-a - 1)
<1> DEFINE S == {1} \cup Powers
<1>1. ASSUME NEW a \in Nat PROVE a \div Half \in Nat
  BY Quotients, Halves
<1>2. ASSUME NEW a \in Nat PROVE Octets(a) = 1 + Reached(a \div Half, S)
  BY DEF Octets
<1>3. ASSUME NEW a \in Int, a < 0
      PROVE  Octets(a) = 1 + Reached((-a - 1) \div Half, S) /\ -a - 1 \in Nat
  BY <1>3 DEF Octets
<1>4. ASSUME NEW a \in Nat, NEW b \in Nat, a <= b PROVE Octets(a) <= Octets(b)
  <2>1. a \div Half \in Int /\ b \div Half \in Int /\ a \div Half <= b \div Half
    BY <1>1, <1>4, Quotients, Halves
  <2>2. Reached(a \div Half, S) <= Reached(b \div Half, S)
    BY <2>1, PowersReached
  <2>3. Reached(a \div Half, S) \in Nat /\ Reached(b \div Half, S) \in Nat
    BY <2>1, PowersReached
  <2>4. QED BY <1>2, <2>2, <2>3
<1>5. ASSUME NEW a \in Int PROVE Octets(a) \in Nat
  <2>1. CASE a >= 0
    <3>1. a \in Nat /\ a \div Half \in Int BY <2>1, <1>1
    <3>2. Reached(a \div Half, S) \in Nat BY <3>1, PowersReached
    <3>3. QED BY <3>1, <3>2, <1>2
  <2>2. CASE a < 0
    <3>1. (-a - 1) \div Half \in Int BY <2>2, <1>1, <1>3
    <3>2. Reached((-a - 1) \div Half, S) \in Nat BY <3>1, PowersReached
    <3>3. QED BY <3>2, <2>2, <1>3
  <2>3. QED BY <2>1, <2>2
<1>6. ASSUME NEW a \in Int, a < 0 PROVE Octets(a) = Octets(-a - 1)
  BY <1>2, <1>3, <1>6
<1>7. ASSUME NEW a \in Int PROVE Octets(0) <= Octets(a)
  <2>1. CASE a >= 0 BY <2>1, <1>4
  <2>2. CASE a < 0
    <3>1. -a - 1 \in Nat /\ 0 <= -a - 1 BY <2>2
    <3>2. QED BY <3>1, <2>2, <1>4, <1>6
  <2>3. QED BY <2>1, <2>2
<1>8. QED BY <1>4, <1>5, <1>6, <1>7

\* The length of an int grows with its octets.
LEMMA IntLength ==
  /\ \A a \in Int : ber_len_int(a) \in Int /\ ber_len_int(a) >= 2
  /\ \A a, b \in Int : Octets(a) <= Octets(b) => ber_len_int(a) <= ber_len_int(b)
BY OctetsGrow, WrappedGrows DEF ber_len_int

LEMMA IntCounts ==
  ASSUME NEW a \in Int, NEW v \in Int, NEW b \in Int,
         Octets(a) <= Octets(v), Octets(v) <= Octets(b)
  PROVE  Counts(ber_len_int(a), Int32(v), ber_len_int(b))
<1>1. Octets(a) \in Int /\ Octets(v) \in Int /\ Octets(b) \in Int BY OctetsGrow
<1>2. Counts(Octets(a), InFull(Octets(v)), Octets(b)) BY <1>1, InFullCounts
<1>3. QED BY <1>2, EnclosedCounts DEF Int32, ber_len_int

-----------------------------------------------------------------------------
(* Types.                                                                  *)

LEMMA Limited ==
  /\ IntMax \in Nat /\ IntMin = -IntMax - 1 /\ IntMax < P4 /\ P4 - 1 \in Nat
  /\ LongMax \in Nat /\ P8 - 1 \in Nat
  /\ MaxSubid = P4 - 1 /\ MaxOid \in 12 .. P4 - 1
BY Halves, IdAssumption DEF IntMax, IntMin, LongMax, MaxSubid

LEMMA ElementOfSeq ==
  ASSUME NEW S, NEW s \in Seq(S), NEW k \in DOMAIN s
  PROVE  s[k] \in S
OBVIOUS

LEMMA RangesFacts ==
  ASSUME NEW t \in Type
  PROVE  /\ HasRanges(t) <=> Ranges(t) # {}
         /\ \A r \in Ranges(t) : /\ r.min \in Int /\ r.max \in Int /\ r.min <= r.max
                                 /\ r.min \in Representable(t) /\ r.max \in Representable(t)
<1>1. t.chain \in Seq(SUBSET Limits) BY DEF Type, AnyType
<1>2. CASE ~HasRanges(t) BY <1>2 DEF Ranges
<1>3. CASE HasRanges(t)
  <2> DEFINE D == {i \in DOMAIN t.chain : t.chain[i] # {}}
             First(i) == t.chain[i] # {} /\ \A j \in 1 .. i - 1 : t.chain[j] = {}
  <2>1. D \in SUBSET Nat /\ D # {} BY <1>1, <1>3 DEF HasRanges
  <2>2. PICK i \in D : \A j \in D : i <= j BY <2>1, LeastNat
  <2>3. i \in DOMAIN t.chain /\ First(i)
    <3>1. ASSUME NEW j \in 1 .. i - 1 PROVE t.chain[j] = {}
      <4>1. j \in DOMAIN t.chain /\ j < i BY <1>1
      <4>2. j \notin D BY <2>2, <4>1, <2>1
      <4>3. QED BY <4>1, <4>2
    <3>2. QED BY <3>1
  <2> DEFINE c == CHOOSE k \in DOMAIN t.chain : First(k)
  <2>4. c \in DOMAIN t.chain /\ First(c) BY <2>3
  <2>5. Ranges(t) = t.chain[c] BY <1>3 DEF Ranges
  <2>6. Ranges(t) # {} BY <2>4, <2>5
  <2>7. ASSUME NEW r \in Ranges(t)
        PROVE  /\ r.min \in Int /\ r.max \in Int /\ r.min <= r.max
               /\ r.min \in Representable(t) /\ r.max \in Representable(t)
    <3>1. r \in t.chain[c] /\ c \in DOMAIN t.chain BY <2>4, <2>5
    <3>2. t.chain[c] \in SUBSET Limits BY <3>1, <1>1, ElementOfSeq
    <3>5. r \in Limits BY <3>1, <3>2
    <3>3. {r.min, r.max} \subseteq Representable(t)
      BY <3>1 DEF Type
    <3>4. QED BY <3>5, <3>3 DEF Limits
  <2>8. QED BY <1>3, <2>6, <2>7
<1>4. QED BY <1>2, <1>3

LEMMA LeastOfNat ==
  ASSUME NEW S \in SUBSET Nat, NEW x \in S, NEW top \in Nat
  PROVE  Least(S \cup {top}) \in Nat /\ Least(S \cup {top}) <= x
<1>1. S \cup {top} \in SUBSET Int /\ S \cup {top} # {} /\ \A y \in S \cup {top} : 0 <= y
  OBVIOUS
<1>2. Least(S \cup {top}) \in S \cup {top} /\ \A y \in S \cup {top} : Least(S \cup {top}) <= y
  BY <1>1, LeastFacts
<1>3. QED BY <1>2

LEMMA GreatestOfNat ==
  ASSUME NEW m \in Nat, NEW S \in SUBSET (0 .. m), NEW x \in S, NEW low \in Int, low <= 0
  PROVE  Greatest(S \cup {low}) \in x .. m
<1> DEFINE U == S \cup {low}
<1>1. U \in SUBSET Int /\ U # {} /\ \A y \in U : y <= m
  OBVIOUS
<1>2. x \in U /\ (\A y \in U : y > low => y \in S) OBVIOUS
<1> HIDE DEF U
<1>3. Greatest(U) \in U /\ \A y \in U : y <= Greatest(U)
  BY <1>1, GreatestFacts
<1>4. x <= Greatest(U) /\ Greatest(U) <= m /\ Greatest(U) \in Int BY <1>1, <1>2, <1>3
<1>5. QED BY <1>4 DEF U

\* The largest number that is representable.
Largest(t) == IF t.basetype \in {"ENUM", "INTEGER32"} THEN IntMax
              ELSE IF t.basetype = "UNSIGNED32" THEN P4 - 1
              ELSE IF t.basetype = "INTEGER64" THEN LongMax ELSE P8 - 1

IsNumber(t) == ~IsString(t) /\ ~IsOid(t)

\* What getAbsMin*() and getAbsMax*() return are limits of the numbers of a
\* regular type, but for those below 0 of an unrestricted one.
LEMMA NumbersBetween ==
  ASSUME NEW t \in Type, IsNumber(t), Regular(t), NEW v \in Values(t)
  PROVE  /\ Lower(t) \in Nat /\ Upper(t) \in Nat /\ Lower(t) <= Upper(t)
         /\ Upper(t) <= Largest(t)
         /\ v \in Int
         /\ \/ v >= 0 /\ Lower(t) <= v /\ v <= Upper(t)
            \/ v < 0 /\ Lower(t) = 0 /\ -v - 1 \in Nat /\ -v - 1 <= Upper(t)
<1> DEFINE R == Ranges(t)
<1>1. t.basetype \in {"ENUM", "INTEGER32", "UNSIGNED32", "INTEGER64", "UNSIGNED64"}
  BY DEF Type, AnyType, Basetype, IsNumber, IsString, IsOid
<1>2. CASE t.basetype = "ENUM"
  <2>1. Values(t) = t.numbers /\ t.numbers \subseteq IntMin .. IntMax
    BY <1>2 DEF Values, Type, Representable
  <2>2. \A x \in t.numbers : x >= 0 BY <1>2, <2>1 DEF Regular
  <2>3. t.numbers \in SUBSET (0 .. IntMax) /\ t.numbers \in SUBSET Nat
    BY <2>1, <2>2, Limited
  <2>4. \A x \in t.numbers : Abs(t, x) = x BY <2>3 DEF Abs
  <2>5. Lows(t) = t.numbers /\ Highs(t) = t.numbers BY <2>4, <1>2 DEF Lows, Highs
  <2>6. Lower(t) = Least(t.numbers \cup {IntMax}) /\ Upper(t) = Greatest(t.numbers \cup {0})
    BY <2>5, <2>1, <1>2 DEF Lower, Upper, Top, IsSigned
  <2>7. Lower(t) \in Nat /\ Lower(t) <= v BY <2>1, <2>3, <2>6, LeastOfNat, Limited
  <2>8. Upper(t) \in v .. IntMax
    <3>1. IntMax \in Nat BY Limited
    <3>2. v \in t.numbers BY <2>1
    <3>3. QED BY <2>3, <2>6, <3>1, <3>2, GreatestOfNat
  <2>9. v \in Nat /\ Largest(t) = IntMax BY <2>1, <2>3, <1>2 DEF Largest
  <2>10. QED BY <2>7, <2>8, <2>9, Limited
<1>3. CASE t.basetype # "ENUM" /\ HasRanges(t)
  <2>1. Values(t) = UNION {r.min .. r.max : r \in R} BY <1>3 DEF Values
  <2>2. PICK r \in R : v \in r.min .. r.max BY <2>1
  <2>3. ASSUME NEW q \in R
        PROVE  q.min \in Nat /\ q.max \in 0 .. Largest(t) /\ q.min <= q.max
    <3>1. q.min \in Int /\ q.max \in Int /\ q.min <= q.max BY RangesFacts
    <3>2. q.min >= 0
      <4>1. CASE t.basetype \in {"INTEGER32", "INTEGER64"}
        <5>1. q.min \in Values(t) BY <3>1, <2>1
        <5>2. QED BY <4>1, <5>1, <1>3 DEF Regular
      <4>2. CASE t.basetype \in {"UNSIGNED32", "UNSIGNED64"}
        <5>1. q.min \in Representable(t) BY RangesFacts
        <5>2. q.min \in 0 .. P4 - 1 \/ q.min \in 0 .. P8 - 1
          BY <4>2, <5>1 DEF Representable
        <5>3. QED BY <5>2, Limited
      <4>3. QED BY <4>1, <4>2, <1>1, <1>3
    <3>3. q.max <= Largest(t)
      <4>1. q.max \in Representable(t) BY RangesFacts
      <4>2. QED BY <4>1, <1>1, <1>3, Limited DEF Representable, Largest
    <3>4. QED BY <3>1, <3>2, <3>3
  <2>4. \A q \in R : Abs(t, q.min) = q.min /\ Abs(t, q.max) = q.max
    <3>1. \A q \in R : q.min >= 0 /\ q.max >= 0 /\ q.min \in Int /\ q.max \in Int BY <2>3
    <3>2. QED BY <3>1 DEF Abs
  <2> DEFINE A == {q.min : q \in R}
             B == {q.max : q \in R}
  <2>5. Lows(t) = A /\ Highs(t) = B BY <1>3, <2>4 DEF Lows, Highs
  <2>6. A \in SUBSET Nat /\ r.min \in A /\ B \in SUBSET (0 .. Largest(t)) /\ r.max \in B
    BY <2>3
  <2>7. Top(t) \in Nat /\ Largest(t) \in Nat BY Limited, Halves DEF Top, Largest
  <2> DEFINE b == IF IsSigned(t) THEN Bottom(t) ELSE 0
  <2>8. b \in Int /\ b <= 0 BY Limited DEF Bottom
  <2>9. Lower(t) = Least(A \cup {Top(t)}) /\ Upper(t) = Greatest(B \cup {b})
    BY <2>5, <2>6 DEF Lower, Upper
  <2> HIDE DEF A, B, b
  <2>10. Lower(t) \in Nat /\ Lower(t) <= r.min BY <2>6, <2>7, <2>9, LeastOfNat
  <2>11. Upper(t) \in r.max .. Largest(t) BY <2>6, <2>7, <2>8, <2>9, GreatestOfNat
  <2>12. r.min \in Nat /\ r.max \in Nat /\ v \in r.min .. r.max BY <2>2, <2>3
  <2>13. QED BY <2>7, <2>10, <2>11, <2>12
<1>4. CASE t.basetype # "ENUM" /\ ~HasRanges(t)
  <2>1. t.basetype \in {"INTEGER32", "UNSIGNED32"} BY <1>1, <1>4 DEF Regular, IsLong
  <2>2. R = {} BY <1>4, RangesFacts
  <2>3. Lows(t) = {} /\ Highs(t) = {} BY <1>4, <2>2 DEF Lows, Highs
  <2>4. Lower(t) = 0 /\ Upper(t) = Largest(t)
    BY <2>1, <2>3 DEF Lower, Upper, Top, Largest
  <2>5. v \in Representable(t) BY <1>4 DEF Values
  <2>6. CASE t.basetype = "INTEGER32"
    BY <2>4, <2>5, <2>6, Limited DEF Representable, Largest
  <2>7. CASE t.basetype = "UNSIGNED32"
    BY <2>4, <2>5, <2>7, Limited DEF Representable, Largest
  <2>8. QED BY <2>1, <2>6, <2>7
<1>5. QED BY <1>2, <1>3, <1>4

\* The mean is between them if their sum is that of the machine.
LEMMA MeanBetween ==
  ASSUME NEW t, NEW a \in Nat, NEW b \in Nat, a <= b, Lower(t) = a, Upper(t) = b,
         Sum(t) = Upper(t) + Lower(t)
  PROVE  Number(t, "mean") \in Nat /\ a <= Number(t, "mean") /\ Number(t, "mean") <= b
<1>1. Number(t, "mean") = (a + b) \div 2 BY DEF Number, Quotient
<1>2. QED BY <1>1

\* So do the lengths of the numbers.
LEMMA NumberLength ==
  ASSUME NEW t \in Type, IsNumber(t), Regular(t), NEW v \in Values(t)
  PROVE  /\ Octets(Lower(t)) <= Octets(v) /\ Octets(v) <= Octets(Upper(t))
         /\ Central(t) => /\ ber_len_int(Lower(t)) <= ber_len_int(Number(t, "mean"))
                          /\ ber_len_int(Number(t, "mean")) <= ber_len_int(Upper(t))
                          /\ Number(t, "mean") \in Nat
<1>1. /\ Lower(t) \in Nat /\ Upper(t) \in Nat /\ Lower(t) <= Upper(t) /\ v \in Int
      /\ \/ v >= 0 /\ Lower(t) <= v /\ v <= Upper(t)
         \/ v < 0 /\ Lower(t) = 0 /\ -v - 1 \in Nat /\ -v - 1 <= Upper(t)
  BY NumbersBetween
<1>2. Octets(Lower(t)) <= Octets(v) /\ Octets(v) <= Octets(Upper(t))
  <2>1. CASE v >= 0 BY <1>1, <2>1, OctetsGrow
  <2>2. CASE v < 0
    <3>1. Octets(v) = Octets(-v - 1) /\ -v - 1 \in Nat /\ -v - 1 <= Upper(t) /\ Lower(t) = 0
      BY <1>1, <2>2, OctetsGrow
    <3>2. QED BY <3>1, <1>1, OctetsGrow
  <2>3. QED BY <1>1, <2>1, <2>2
<1>3. ASSUME Central(t)
      PROVE  /\ Octets(Lower(t)) <= Octets(Number(t, "mean"))
             /\ Octets(Number(t, "mean")) <= Octets(Upper(t))
             /\ Number(t, "mean") \in Nat
  <2>1. Sum(t) = Upper(t) + Lower(t) BY <1>3 DEF Central, IsNumber
  <2>2. /\ Number(t, "mean") \in Nat /\ Lower(t) <= Number(t, "mean")
        /\ Number(t, "mean") <= Upper(t)
    BY <1>1, <2>1, MeanBetween
  <2>3. QED BY <2>2, <1>1, OctetsGrow
<1>4. QED BY <1>1, <1>2, <1>3, IntLength

-----------------------------------------------------------------------------
(* Instances.                                                              *)

LEMMA ModSmall ==
  ASSUME NEW a \in 0 .. P4 - 1
  PROVE  a % P4 = a
<1> DEFINE q == a \div P4
<1>1. P4 \in Nat \ {0} /\ a \in Nat /\ a < P4 BY Limited, Halves
<1>2. q \in Int /\ a = P4 * q + (a % P4) /\ a % P4 \in 0 .. P4 - 1 BY <1>1
<1> HIDE DEF q
<1>3. ASSUME q >= 1 PROVE FALSE
  <2>1. 1 * P4 <= q * P4 /\ q * P4 \in Int BY <1>1, <1>2, <1>3, Monotone
  <2>2. q * P4 = P4 * q BY <1>1, <1>2
  <2>3. QED BY <1>1, <1>2, <2>1, <2>2
<1>4. ASSUME q <= -1 PROVE FALSE
  <2>1. q * P4 <= -1 * P4 /\ q * P4 \in Int BY <1>1, <1>2, <1>4, Monotone
  <2>2. q * P4 = P4 * q BY <1>1, <1>2
  <2>3. QED BY <1>1, <1>2, <2>1, <2>2
<1>5. q = 0 BY <1>2, <1>3, <1>4
<1>6. QED BY <1>1, <1>2, <1>5

\* The octets of the largest character, and of the largest number of an OID.
CharLength == ber_len_subid(Octet - 1)
IdLength   == ber_len_subid(MaxSubid)

LEMMA LargestLengths ==
  CharLength \in Nat /\ IdLength \in Nat /\ CharLength <= IdLength /\ 2 <= IdLength
<1>1. CharLength \in Nat /\ IdLength \in Nat /\ CharLength <= IdLength
  BY SubidGrows, Limited, Halves, OctetAssumption DEF CharLength, IdLength
<1>2. Reached(MaxSubid, HalfPowers) >= 1
  <2> DEFINE T == {p \in HalfPowers : p <= MaxSubid}
  <2>1. Half \in T BY Limited, Halves DEF HalfPowers
  <2>2. IsFiniteSet(T) BY PowersFinite, FS_Subset
  <2>3. Cardinality(T) \in Nat /\ (Cardinality(T) = 0 <=> T = {})
    BY <2>2, FS_CardinalityType, FS_EmptySet
  <2>4. Cardinality(T) >= 1 BY <2>1, <2>3
  <2>5. QED BY <2>4 DEF Reached
<1>3. Reached(MaxSubid, HalfPowers) \in Nat BY PowersReached, Limited
<1>4. QED BY <1>1, <1>2, <1>3 DEF IdLength, ber_len_subid

IsPath(o) == o.len \in Nat /\ o.size \in Int

LEMMA AppendNumberFacts ==
  ASSUME NEW o, IsPath(o), o.len < MaxOid, NEW v \in 0 .. P4 - 1
  PROVE  /\ AppendNumber(o, v).len = o.len + 1
         /\ AppendNumber(o, v).size = o.size + ber_len_subid(v)
         /\ IsPath(AppendNumber(o, v))
<1>1. v % P4 = v BY ModSmall
<1>2. ber_len_subid(v) \in Nat
  <2>1. v \in Int OBVIOUS
  <2>2. QED BY <2>1, SubidGrows
<1>3. QED BY <1>1, <1>2 DEF AppendNumber, Append1, IsPath

LEMMA FitsFacts ==
  ASSUME NEW o, IsPath(o), o.len <= MaxOid, NEW k \in Nat
  PROVE  /\ Fits(o, k) \in Nat /\ Fits(o, k) <= k /\ o.len + Fits(o, k) <= MaxOid
         /\ Fits(o, k) = k \/ o.len + Fits(o, k) = MaxOid
BY Limited DEF Fits, IsPath

\* The counted instances are limits of the real one: the longest one has at least
\* a character's octets more for each number that it has more.
Near(o) ==
  /\ IsPath(o["min"]) /\ IsPath(o["real"]) /\ IsPath(o["max"])
  /\ o["min"].len <= o["real"].len /\ o["real"].len <= o["max"].len
  /\ o["min"].size <= o["real"].size
  /\ o["real"].size + CharLength * (o["max"].len - o["real"].len) <= o["max"].size

NearMean(o) ==
  /\ IsPath(o["mean"])
  /\ o["min"].len <= o["mean"].len /\ o["mean"].len <= o["max"].len
  /\ o["min"].size <= o["mean"].size /\ o["mean"].size <= o["max"].size

LEMMA NearLimits ==
  ASSUME NEW o, Near(o)
  PROVE  o["real"].size <= o["max"].size
<1>1. 0 * CharLength <= (o["max"].len - o["real"].len) * CharLength
  <2>1. o["max"].len - o["real"].len \in Int /\ 0 <= o["max"].len - o["real"].len
    BY DEF Near, IsPath
  <2>2. QED BY <2>1, LargestLengths, Monotone
<1>2. /\ 0 * CharLength = 0
      /\ (o["max"].len - o["real"].len) * CharLength
           = CharLength * (o["max"].len - o["real"].len)
      /\ CharLength * (o["max"].len - o["real"].len) \in Int
  BY LargestLengths DEF Near, IsPath
<1>3. QED BY <1>1, <1>2 DEF Near, IsPath

Longer(o, part, t) ==
  [c \in Case |-> IF c = "real" THEN Append1(o[c], part.len, part.size)
                  ELSE append_index(o[c], t, c)]

LEMMA LongerFields ==
  ASSUME NEW o, NEW part, NEW t
  PROVE  /\ Longer(o, part, t)["min"] = append_index(o["min"], t, "min")
         /\ Longer(o, part, t)["mean"] = append_index(o["mean"], t, "mean")
         /\ Longer(o, part, t)["max"] = append_index(o["max"], t, "max")
         /\ Longer(o, part, t)["real"].len = o["real"].len + part.len
         /\ Longer(o, part, t)["real"].size = o["real"].size + part.size
BY DEF Longer, Case, Flag, Append1

\* What is known of an instance to which an index is appended.
Appendable(o, part, t) ==
  /\ Near(o) /\ t \in Type
  /\ part \in IndexParts(t, FALSE)
  /\ Regular(t) /\ ~IsLong(t)
  /\ IsOid(t) => o["max"].len = o["min"].len
  /\ o["max"].len < MaxOid
  /\ o["real"].len + part.len <= MaxOid

LEMMA NumberAppended ==
  ASSUME NEW o, NEW part, NEW t, Appendable(o, part, t), IsNumber(t)
  PROVE  /\ Near(Longer(o, part, t))
         /\ (Central(t) /\ t.basetype # "ENUM" /\ NearMean(o)) => NearMean(Longer(o, part, t))
<1> DEFINE L == Longer(o, part, t)
<1>1. PICK v \in Values(t) : v >= 0 /\ part = [len |-> 1, size |-> ber_len_subid(v)]
  BY DEF Appendable, IndexParts, IsNumber
<1>2. /\ Lower(t) \in Nat /\ Upper(t) \in Nat /\ Lower(t) <= Upper(t) /\ Upper(t) <= Largest(t)
      /\ v \in Int /\ Lower(t) <= v /\ v <= Upper(t)
  BY <1>1, NumbersBetween DEF Appendable
<1>3. Largest(t) <= P4 - 1 /\ Largest(t) \in Int
  <2>1. t.basetype \in {"ENUM", "INTEGER32", "UNSIGNED32"}
    BY DEF Appendable, IsLong, IsNumber, IsString, IsOid, Type, AnyType, Basetype
  <2>2. Largest(t) = IntMax \/ Largest(t) = P4 - 1 BY <2>1 DEF Largest
  <2>3. QED BY <2>2, Limited, Halves
<1>4. /\ Lower(t) \in 0 .. P4 - 1 /\ Upper(t) \in 0 .. P4 - 1 /\ v \in 0 .. P4 - 1
  BY <1>1, <1>2, <1>3, Limited
<1>5. /\ append_index(o["min"], t, "min") = AppendNumber(o["min"], Lower(t))
      /\ append_index(o["max"], t, "max") = AppendNumber(o["max"], Upper(t))
      /\ t.basetype # "ENUM" =>
           append_index(o["mean"], t, "mean") = AppendNumber(o["mean"], Number(t, "mean"))
  BY DEF append_index, Appendable, IsNumber, Number
<1>6. /\ IsPath(o["min"]) /\ IsPath(o["real"]) /\ IsPath(o["max"])
      /\ o["min"].len < MaxOid /\ o["max"].len < MaxOid
  BY Limited DEF Appendable, Near, IsPath
<1>7. /\ IsPath(L["min"]) /\ IsPath(L["max"])
      /\ L["min"].len = o["min"].len + 1 /\ L["min"].size = o["min"].size + ber_len_subid(Lower(t))
      /\ L["max"].len = o["max"].len + 1 /\ L["max"].size = o["max"].size + ber_len_subid(Upper(t))
  BY <1>4, <1>5, <1>6, LongerFields, AppendNumberFacts
<1>8. L["real"].len = o["real"].len + 1 /\ L["real"].size = o["real"].size + ber_len_subid(v)
  BY <1>1, LongerFields
<1>9. /\ ber_len_subid(Lower(t)) \in Nat /\ ber_len_subid(v) \in Nat /\ ber_len_subid(Upper(t)) \in Nat
      /\ ber_len_subid(Lower(t)) <= ber_len_subid(v) /\ ber_len_subid(v) <= ber_len_subid(Upper(t))
  BY <1>2, SubidGrows
<1>10. L["max"].len - L["real"].len = o["max"].len - o["real"].len
  BY <1>6, <1>7, <1>8 DEF IsPath
<1>11. CharLength * (o["max"].len - o["real"].len) \in Int
  BY <1>6, LargestLengths DEF IsPath
<1>12. Near(L)
  <2>1. IsPath(L["real"]) BY <1>6, <1>8, <1>9 DEF IsPath
  <2>2. L["min"].len <= L["real"].len /\ L["real"].len <= L["max"].len
    BY <1>6, <1>7, <1>8 DEF Appendable, Near, IsPath
  <2>3. L["min"].size <= L["real"].size
    BY <1>6, <1>7, <1>8, <1>9 DEF Appendable, Near, IsPath
  <2>4. L["real"].size + CharLength * (L["max"].len - L["real"].len) <= L["max"].size
    BY <1>6, <1>7, <1>8, <1>9, <1>10, <1>11 DEF Appendable, Near, IsPath
  <2>5. QED BY <1>7, <2>1, <2>2, <2>3, <2>4 DEF Near
<1>13. ASSUME Central(t), t.basetype # "ENUM", NearMean(o) PROVE NearMean(L)
  <2>1. Sum(t) = Upper(t) + Lower(t) BY <1>13 DEF Central, IsNumber
  <2>2. /\ Number(t, "mean") \in Nat /\ Lower(t) <= Number(t, "mean")
        /\ Number(t, "mean") <= Upper(t)
    BY <1>2, <2>1, MeanBetween
  <2>3. Number(t, "mean") \in 0 .. P4 - 1 BY <1>4, <2>2, Limited
  <2>4. IsPath(o["mean"]) /\ o["mean"].len < MaxOid
    BY <1>6, <1>13, Limited DEF NearMean, IsPath
  <2>5. /\ IsPath(L["mean"]) /\ L["mean"].len = o["mean"].len + 1
        /\ L["mean"].size = o["mean"].size + ber_len_subid(Number(t, "mean"))
    BY <1>5, <1>13, <2>3, <2>4, LongerFields, AppendNumberFacts
  <2>6. /\ ber_len_subid(Number(t, "mean")) \in Nat
        /\ ber_len_subid(Lower(t)) <= ber_len_subid(Number(t, "mean"))
        /\ ber_len_subid(Number(t, "mean")) <= ber_len_subid(Upper(t))
    BY <1>2, <2>2, SubidGrows
  <2>7. QED BY <1>6, <1>7, <1>9, <1>13, <2>4, <2>5, <2>6 DEF NearMean, IsPath
<1>14. QED BY <1>12, <1>13

LEMMA StringAppended ==
  ASSUME NEW o, NEW part, NEW t, Appendable(o, part, t), IsString(t)
  PROVE  Near(Longer(o, part, t))
<1> DEFINE L == Longer(o, part, t)
           low == t.size["min"]
           high == t.size["max"]
           short == AppendNumber(o["min"], low)
           long == AppendNumber(o["max"], high)
           p == Fits(short, low)
           q == Fits(long, high)
<1>1. low \in 0 .. P4 - 1 /\ high \in 0 .. P4 - 1
  BY Limited DEF Appendable, Type, AnyType, Flag
<1>2. PICK k \in low .. high : \E s \in k .. k * CharLength :
        part = Append1([len |-> 1, size |-> ber_len_subid(k)], k, s)
  BY DEF Appendable, IndexParts, CharLength
<1>2a. PICK s \in k .. k * CharLength :
         part = Append1([len |-> 1, size |-> ber_len_subid(k)], k, s)
  BY <1>2
<1>3. /\ k \in Nat /\ low <= k /\ k <= high /\ s \in Int /\ k <= s /\ s <= k * CharLength
      /\ k * CharLength \in Int
  BY <1>1, LargestLengths, Limited
<1>4. part.len = 1 + k /\ part.size = ber_len_subid(k) + s BY <1>2a DEF Append1
<1>5. /\ append_index(o["min"], t, "min") = Append1(short, p, p)
      /\ append_index(o["max"], t, "max") = Append1(long, q, q * CharLength)
  BY DEF append_index, AppendString, IsString, IsOid, Characters, CharLength
<1>6. /\ IsPath(o["min"]) /\ IsPath(o["real"]) /\ IsPath(o["max"])
      /\ o["min"].len < MaxOid /\ o["max"].len < MaxOid
  BY Limited DEF Appendable, Near, IsPath
<1>7. /\ IsPath(short) /\ short.len = o["min"].len + 1
      /\ short.size = o["min"].size + ber_len_subid(low)
      /\ IsPath(long) /\ long.len = o["max"].len + 1
      /\ long.size = o["max"].size + ber_len_subid(high)
  BY <1>1, <1>6, AppendNumberFacts
<1>8. low \in Nat /\ high \in Nat /\ short.len <= MaxOid /\ long.len <= MaxOid
  BY <1>1, <1>6, <1>7, Limited DEF IsPath
<1>9. /\ p \in Nat /\ p <= low
      /\ q \in Nat /\ q <= high /\ (q = high \/ long.len + q = MaxOid)
  BY <1>7, <1>8, FitsFacts
<1>10. /\ L["min"].len = o["min"].len + 1 + p
       /\ L["min"].size = o["min"].size + ber_len_subid(low) + p
       /\ L["max"].len = o["max"].len + 1 + q
       /\ L["max"].size = o["max"].size + ber_len_subid(high) + q * CharLength
       /\ L["real"].len = o["real"].len + 1 + k
       /\ L["real"].size = o["real"].size + ber_len_subid(k) + s
  <2>1. /\ Append1(short, p, p).len = short.len + p
        /\ Append1(short, p, p).size = short.size + p
        /\ Append1(long, q, q * CharLength).len = long.len + q
        /\ Append1(long, q, q * CharLength).size = long.size + q * CharLength
    BY DEF Append1
  <2>2. /\ ber_len_subid(k) \in Nat BY <1>3, SubidGrows
  <2> HIDE DEF short, long, p, q, low, high
  <2>3. /\ L["min"].len = short.len + p /\ L["min"].size = short.size + p
        /\ L["max"].len = long.len + q /\ L["max"].size = long.size + q * CharLength
    BY <2>1, <1>5, LongerFields
  <2>4. /\ L["real"].len = o["real"].len + part.len
        /\ L["real"].size = o["real"].size + part.size
    BY LongerFields
  <2>5. o["real"].len \in Int /\ o["real"].size \in Int BY <1>6 DEF IsPath
  <2>6. /\ L["real"].len = o["real"].len + 1 + k
        /\ L["real"].size = o["real"].size + ber_len_subid(k) + s
    BY <1>3, <1>4, <2>2, <2>4, <2>5
  <2> HIDE DEF L
  <2>7. QED BY <2>3, <2>6, <1>7
<1> HIDE DEF L, short, long, p, q, low, high
<1>11. /\ ber_len_subid(low) \in Nat /\ ber_len_subid(k) \in Nat /\ ber_len_subid(high) \in Nat
       /\ ber_len_subid(low) <= ber_len_subid(k) /\ ber_len_subid(k) <= ber_len_subid(high)
  BY <1>1, <1>3, <1>8, SubidGrows
<1>12. q * CharLength \in Nat BY <1>9, LargestLengths
<1>13. /\ o["min"].len <= o["real"].len /\ o["real"].len <= o["max"].len
       /\ o["min"].size <= o["real"].size
       /\ o["real"].size + CharLength * (o["max"].len - o["real"].len) <= o["max"].size
       /\ o["real"].len + 1 + k <= MaxOid
  BY <1>3, <1>4, <1>6 DEF Appendable, Near, IsPath
<1>14. IsPath(L["min"]) /\ IsPath(L["real"]) /\ IsPath(L["max"])
  BY <1>3, <1>6, <1>9, <1>10, <1>11, <1>12 DEF IsPath
<1>15. L["min"].len <= L["real"].len /\ L["min"].size <= L["real"].size
  BY <1>3, <1>6, <1>8, <1>9, <1>10, <1>11, <1>13 DEF IsPath
<1>16. L["real"].len <= L["max"].len
  <2>1. CASE q = high BY <2>1, <1>3, <1>6, <1>8, <1>10, <1>13 DEF IsPath
  <2>2. CASE long.len + q = MaxOid BY <2>2, <1>3, <1>6, <1>7, <1>9, <1>10, <1>13 DEF IsPath
  <2>3. QED BY <1>9, <2>1, <2>2
<1>17. L["real"].size + CharLength * (L["max"].len - L["real"].len) <= L["max"].size
  <2> DEFINE d == o["max"].len - o["real"].len
  <2>1. d \in Int BY <1>6 DEF IsPath
  <2>2. L["max"].len - L["real"].len = d + q - k BY <1>3, <1>6, <1>9, <1>10 DEF IsPath
  <2> HIDE DEF d
  <2>3. CharLength * (d + q - k) = CharLength * d + q * CharLength - k * CharLength
    BY <2>1, <1>3, <1>9, LargestLengths
  <2>4. CharLength * d \in Int BY <2>1, LargestLengths
  <2>5. o["real"].size + CharLength * d <= o["max"].size BY <1>13 DEF d
  <2>6. QED
    BY <2>2, <2>3, <2>4, <2>5, <1>3, <1>6, <1>10, <1>11, <1>12 DEF IsPath
<1>18. QED BY <1>14, <1>15, <1>16, <1>17 DEF Near, L

LEMMA OidAppended ==
  ASSUME NEW o, NEW part, NEW t, Appendable(o, part, t), IsOid(t)
  PROVE  Near(Longer(o, part, t))
<1> DEFINE L == Longer(o, part, t)
           len == o["max"].len
           left == MaxOid - len
           short == AppendNumber(o["min"], 2)
           long == AppendNumber(o["max"], left)
           p == Fits(short, 2)
           q == Fits(long, left)
<1>1. /\ IsPath(o["min"]) /\ IsPath(o["real"]) /\ IsPath(o["max"])
      /\ len \in Nat /\ len < MaxOid /\ MaxOid \in Nat
      /\ o["min"].len = len /\ o["real"].len = len
  BY Limited DEF Appendable, Near, IsPath
<1>2. left \in Nat /\ left \in 0 .. P4 - 1 /\ left >= 1 /\ 2 \in 0 .. P4 - 1
  BY <1>1, Limited, Halves
<1>3. PICK k \in 2 .. MaxOid : \E s \in k - 1 .. (k - 1) * IdLength :
        part = Append1([len |-> 1, size |-> ber_len_subid(k)], k, 1 + s)
  BY DEF Appendable, IndexParts, IsOid, IsString, IdLength
<1>3a. PICK s \in k - 1 .. (k - 1) * IdLength :
         part = Append1([len |-> 1, size |-> ber_len_subid(k)], k, 1 + s)
  BY <1>3
<1>4. /\ k \in Nat /\ 2 <= k /\ s \in Int /\ k - 1 <= s /\ s <= (k - 1) * IdLength
      /\ (k - 1) * IdLength \in Int
  BY <1>1, LargestLengths
<1>5. part.len = 1 + k /\ part.size = ber_len_subid(k) + 1 + s
  <2>1. ber_len_subid(k) \in Nat BY <1>4, SubidGrows
  <2>2. QED BY <2>1, <1>3a, <1>4 DEF Append1
<1>6. len + 1 + k <= MaxOid BY <1>1, <1>4, <1>5 DEF Appendable
<1>7. /\ IsPath(short) /\ short.len = len + 1
      /\ short.size = o["min"].size + ber_len_subid(2)
      /\ IsPath(long) /\ long.len = len + 1
      /\ long.size = o["max"].size + ber_len_subid(left)
  BY <1>1, <1>2, AppendNumberFacts
<1>8. p \in Nat /\ p <= 2 /\ q \in Nat /\ q = MaxOid - len - 1
  <2>1. short.len <= MaxOid /\ long.len <= MaxOid /\ 2 \in Nat BY <1>1, <1>7
  <2>2. p \in Nat /\ p <= 2 BY <2>1, <1>7, FitsFacts
  <2>3. q \in Nat /\ long.len + q <= MaxOid /\ (q = left \/ long.len + q = MaxOid)
    BY <2>1, <1>2, <1>7, FitsFacts
  <2> HIDE DEF q
  <2>4. QED BY <2>2, <2>3, <1>1, <1>7
<1>9. q > 0 /\ k <= q BY <1>1, <1>4, <1>6, <1>8
<1>10. /\ append_index(o["min"], t, "min") = Append1(short, p, p)
       /\ append_index(o["max"], t, "max") = Append1(long, q, ber_len_subid(2) + (q - 1) * IdLength)
  BY <1>9 DEF append_index, AppendOid, IdLength
<1>11. /\ L["min"].len = len + 1 + p
       /\ L["min"].size = o["min"].size + ber_len_subid(2) + p
       /\ L["max"].len = len + 1 + q
       /\ L["max"].size = o["max"].size + ber_len_subid(left) + (ber_len_subid(2) + (q - 1) * IdLength)
       /\ L["real"].len = len + 1 + k
       /\ L["real"].size = o["real"].size + ber_len_subid(k) + 1 + s
  <2> DEFINE x == ber_len_subid(2) + (q - 1) * IdLength
  <2>1. /\ Append1(short, p, p).len = short.len + p
        /\ Append1(short, p, p).size = short.size + p
        /\ Append1(long, q, x).len = long.len + q
        /\ Append1(long, q, x).size = long.size + x
    BY DEF Append1
  <2>2. ber_len_subid(k) \in Nat BY <1>4, SubidGrows
  <2> HIDE DEF short, long, p, q, x, left
  <2>3. /\ L["min"].len = short.len + p /\ L["min"].size = short.size + p
        /\ L["max"].len = long.len + q /\ L["max"].size = long.size + x
    BY <2>1, <1>10, LongerFields DEF x
  <2>4. /\ L["real"].len = o["real"].len + part.len
        /\ L["real"].size = o["real"].size + part.size
    BY LongerFields
  <2>5. /\ L["real"].len = len + 1 + k
        /\ L["real"].size = o["real"].size + ber_len_subid(k) + 1 + s
    BY <1>1, <1>4, <1>5, <2>2, <2>4 DEF IsPath
  <2> HIDE DEF L
  <2>6. QED BY <2>3, <2>5, <1>7 DEF x
<1> HIDE DEF L, len, left, short, long, p, q
<1>12. /\ ber_len_subid(2) \in Nat /\ ber_len_subid(k) \in Nat /\ ber_len_subid(left) \in Nat
       /\ 1 <= ber_len_subid(2) /\ ber_len_subid(2) <= ber_len_subid(k)
       /\ ber_len_subid(k) <= ber_len_subid(left)
  <2>1. k <= left BY <1>1, <1>4, <1>6 DEF left
  <2>2. QED BY <2>1, <1>2, <1>4, SubidGrows
<1>13. (q - 1) * IdLength \in Nat
  <2>1. q - 1 \in Nat BY <1>8, <1>9
  <2>2. QED BY <2>1, LargestLengths
<1>14. o["min"].size <= o["real"].size /\ o["real"].size <= o["max"].size
  BY NearLimits DEF Appendable, Near
<1>15. IsPath(L["min"]) /\ IsPath(L["real"]) /\ IsPath(L["max"])
  BY <1>1, <1>4, <1>8, <1>11, <1>12, <1>13 DEF IsPath
<1>16. L["min"].len <= L["real"].len /\ L["real"].len <= L["max"].len
  BY <1>1, <1>4, <1>8, <1>9, <1>11
<1>17. L["min"].size <= L["real"].size
  BY <1>1, <1>4, <1>8, <1>11, <1>12, <1>14 DEF IsPath
<1>18. L["real"].size + CharLength * (L["max"].len - L["real"].len) <= L["max"].size
  <2>1. L["max"].len - L["real"].len = q - k BY <1>1, <1>4, <1>8, <1>11
  <2>2. q - k \in Nat BY <1>4, <1>8, <1>9
  <2>3. CharLength * (q - k) <= IdLength * (q - k) /\ CharLength * (q - k) \in Int
    BY <2>2, LargestLengths, Monotone
  <2>4. IdLength * (q - k) = (q - 1) * IdLength - (k - 1) * IdLength
    BY <1>4, <1>8, LargestLengths
  <2>5. QED BY <2>1, <2>3, <2>4, <1>1, <1>4, <1>11, <1>12, <1>13, <1>14 DEF IsPath
<1>19. QED BY <1>15, <1>16, <1>17, <1>18 DEF Near, L

LEMMA IndexAppended ==
  ASSUME NEW o, NEW part, NEW t, Appendable(o, part, t)
  PROVE  Near(Longer(o, part, t))
BY NumberAppended, StringAppended, OidAppended DEF IsNumber

-----------------------------------------------------------------------------
(* The values.                                                             *)

LEMMA ValueBetween ==
  ASSUME NEW t \in Type, Regular(t), NEW s \in ValueSizes(t)
  PROVE  /\ Counts(ber_len_val(t, "min"), s, ber_len_val(t, "max"))
         /\ Central(t) => /\ ber_len_val(t, "mean") \in Int
                          /\ ber_len_val(t, "min") <= ber_len_val(t, "mean")
                          /\ ber_len_val(t, "mean") <= ber_len_val(t, "max")
<1>1. CASE IsString(t)
  <2>1. t.size \in [Flag -> 0 .. MaxSubid] /\ t.special \in BOOLEAN BY DEF Type, AnyType
  <2>2. /\ t.size["min"] \in Nat /\ t.size["max"] \in Nat /\ t.size["mean"] \in Nat
    BY <2>1, Limited DEF Flag
  <2>3. PICK k \in t.size["min"] .. t.size["max"] : s = Beside(LeftOut(2 + LongForm(k)), InFull(k))
    BY <1>1 DEF ValueSizes
  <2>4. /\ ber_len_val(t, "min") = t.size["min"] /\ ber_len_val(t, "max") = t.size["max"]
        /\ ber_len_val(t, "mean") = Size(t, "mean")
    BY <1>1 DEF ber_len_val, Size
  <2>5. Size(t, "mean") \in t.size["min"] .. t.size["max"]
    <3>1. CASE t.special BY <3>1 DEF Size, Type
    <3>2. CASE ~t.special
      <4>1. Size(t, "mean") = (t.size["max"] + t.size["min"]) \div 2 BY <3>2 DEF Size
      <4>2. QED BY <4>1, <2>2, <2>3
    <3>3. QED BY <3>1, <3>2
  <2>6. Counts(t.size["min"], s, t.size["max"])
    <3>1. k \in Int /\ t.size["min"] <= k /\ k <= t.size["max"] BY <2>2, <2>3
    <3>2. 2 + LongForm(k) \in Nat BY <3>1, LengthGrows
    <3>3. /\ Counts(0, LeftOut(2 + LongForm(k)), 0)
          /\ Counts(t.size["min"], InFull(k), t.size["max"])
      BY <2>2, <3>1, <3>2, LeftOutCounts, InFullCounts
    <3>4. Counts(0 + t.size["min"], s, 0 + t.size["max"]) BY <2>3, <3>3, BesideCounts
    <3>5. 0 + t.size["min"] = t.size["min"] /\ 0 + t.size["max"] = t.size["max"] BY <2>2
    <3>6. QED BY <3>4, <3>5
  <2>7. QED BY <2>2, <2>4, <2>5, <2>6
<1>2. CASE IsOid(t)
  <2> DEFINE a == ber_len_subid((MaxSubid + 80) % P4)
             b == (MaxOid - 2) * IdLength
  <2>1. ~IsString(t) BY <1>2 DEF IsString, IsOid
  <2>2. /\ ber_len_val(t, "min") = Wrapped(1) /\ ber_len_val(t, "mean") = Wrapped(14)
        /\ ber_len_val(t, "max") = Wrapped(a + b)
    BY <1>2, <2>1 DEF ber_len_val, IdLength
  <2>3. PICK f \in 1 .. ber_len_subid(MaxSubid), x \in 0 .. b :
          s = Enclosed(Beside(InFull(1 + x), LeftOut(f - 1)))
    BY <1>2, <2>1 DEF ValueSizes, IdLength
  <2>4. (MaxSubid + 80) % P4 \in Int BY Limited, Halves
  <2>5. a \in Nat /\ a >= 1 BY <2>4, SubidGrows
  <2>6. b \in Nat /\ b >= 20
    <3>1. MaxOid - 2 \in Nat /\ 10 <= MaxOid - 2 BY Limited
    <3>2. 10 * IdLength <= (MaxOid - 2) * IdLength /\ 10 * IdLength >= 20
      BY <3>1, LargestLengths, Monotone
    <3>3. QED BY <3>1, <3>2, LargestLengths
  <2> HIDE DEF a, b
  <2>7. /\ 1 + x \in Int /\ 1 <= 1 + x /\ 1 + x <= a + b /\ a + b \in Int /\ 14 <= a + b
        /\ f - 1 \in Nat
    BY <2>3, <2>5, <2>6
  <2>8. Counts(Wrapped(1), s, Wrapped(a + b))
    <3>1. Counts(1, InFull(1 + x), a + b) /\ Counts(0, LeftOut(f - 1), 0)
      BY <2>7, InFullCounts, LeftOutCounts
    <3>2. Counts(1 + 0, Beside(InFull(1 + x), LeftOut(f - 1)), a + b + 0)
      BY <3>1, BesideCounts
    <3>3. 1 + 0 = 1 /\ a + b + 0 = a + b BY <2>7
    <3>4. QED BY <2>3, <3>2, <3>3, EnclosedCounts
  <2>9. QED BY <2>2, <2>7, <2>8, WrappedGrows
<1>3. CASE IsNumber(t)
  <2>1. PICK v \in Values(t) : s = Int32(v) BY <1>3 DEF ValueSizes, IsNumber
  <2>2. /\ ber_len_val(t, "min") = ber_len_int(Lower(t)) /\ ber_len_val(t, "max") = ber_len_int(Upper(t))
        /\ ber_len_val(t, "mean") = ber_len_int(Number(t, "mean"))
    BY <1>3 DEF ber_len_val, IsNumber, Number
  <2>3. v \in Int /\ Lower(t) \in Int /\ Upper(t) \in Int BY <1>3, NumbersBetween
  <2>4. /\ Octets(Lower(t)) <= Octets(v) /\ Octets(v) <= Octets(Upper(t))
        /\ Central(t) => /\ ber_len_int(Lower(t)) <= ber_len_int(Number(t, "mean"))
                         /\ ber_len_int(Number(t, "mean")) <= ber_len_int(Upper(t))
                         /\ Number(t, "mean") \in Nat
    BY <1>3, NumberLength
  <2>5. Counts(ber_len_int(Lower(t)), s, ber_len_int(Upper(t)))
    BY <2>1, <2>3, <2>4, IntCounts
  <2>6. QED BY <2>2, <2>3, <2>4, <2>5, IntLength
<1>4. QED BY <1>1, <1>2, <1>3 DEF IsNumber

-----------------------------------------------------------------------------
(* The invariant.                                                          *)

\* SizesBracket, whatever was met.
Bracket(s, x) == Counts(s["min"], [size |-> s["real"], extra |-> x], s["max"])
MeanBracket(s) == s["mean"] \in Int /\ s["min"] <= s["mean"] /\ s["mean"] <= s["max"]

Typed ==
  /\ st \in {"idle", "variables", "index", "done"}
  /\ n \in Nat /\ regular \in BOOLEAN /\ central \in BOOLEAN
  /\ todo \in Seq(Variable)

\* A variable is being looked at: its index is made of types, the last of which is
\* not IMPLIED if nothing irregular was met.
Indexing ==
  st = "index" =>
    /\ todo # <<>> /\ index \in Seq(Type)
    /\ (regular /\ index # <<>>) => ~Head(todo).implied

Bracketed ==
  regular => /\ Bracket(total, uncounted) /\ (central => MeanBracket(total))
             /\ st = "index" => Near(oid) /\ (central => NearMean(oid))

SizesInv == Typed /\ Indexing /\ Bracketed

LEMMA SeqFacts ==
  ASSUME NEW S, NEW s \in Seq(S), s # <<>>
  PROVE  Head(s) \in S /\ Tail(s) \in Seq(S)
OBVIOUS

LEMMA InitSizes == Init => SizesInv
BY DEF Init, SizesInv, Typed, Indexing, Bracketed, Bracket, Counts, MeanBracket, All, Case, Flag

LEMMA BeginSizes ==
  ASSUME NEW k, NEW list \in Seq(Variable), NEW start, NEW extra,
         Begin(k, list, start, extra), Bracket(start, extra), MeanBracket(start)
  PROVE  SizesInv'
BY DEF Begin, SizesInv, Typed, Indexing, Bracketed, Bracket, MeanBracket

\* An OID to which nothing was appended yet.
LEMMA AllNear ==
  ASSUME NEW o, IsPath(o)
  PROVE  Near(All(o)) /\ NearMean(All(o))
<1>1. All(o)["min"] = o /\ All(o)["mean"] = o /\ All(o)["max"] = o /\ All(o)["real"] = o
  BY DEF All, Case, Flag
<1>2. CharLength * (o.len - o.len) = 0 BY LargestLengths DEF IsPath
<1>3. QED BY <1>1, <1>2 DEF Near, NearMean, IsPath

LEMMA VariableFacts ==
  ASSUME NEW v \in Variable
  PROVE  /\ v.type \in Type /\ IndexTypes(v) \in Seq(Type) /\ IsPath(v.oid)
         /\ v.implied \in BOOLEAN
<1>1. v.index \in Seq(Type) /\ v.related \in Seq(Type) /\ v.type \in Type
      /\ v.implied \in BOOLEAN /\ v.oid \in Path
  BY DEF Variable
<1>2. IsPath(v.oid) BY <1>1 DEF Path, IsPath
<1>3. <<>> \in Seq(Type) OBVIOUS
<1>4. IndexTypes(v) \in Seq(Type) BY <1>1, <1>3 DEF IndexTypes
<1>5. QED BY <1>1, <1>2, <1>4

LEMMA SkipSizes == SizesInv /\ SkipVariable => SizesInv'
<1> SUFFICES ASSUME SizesInv, SkipVariable PROVE SizesInv' OBVIOUS
<1>1. todo' \in Seq(Variable) BY SeqFacts DEF SkipVariable, SizesInv, Typed
<1>2. QED BY <1>1 DEF SkipVariable, SizesInv, Typed, Indexing, Bracketed

LEMMA BeginVariableSizes == SizesInv /\ BeginVariable => SizesInv'
<1> SUFFICES ASSUME SizesInv, BeginVariable PROVE SizesInv' OBVIOUS
<1> DEFINE v == Head(todo)
<1>1. v \in Variable /\ Tail(todo) \in Seq(Variable) /\ todo # <<>>
  BY SeqFacts DEF BeginVariable, SizesInv, Typed
<1>2. /\ IndexTypes(v) \in Seq(Type) /\ IsPath(v.oid) /\ v.implied \in BOOLEAN
  BY <1>1, VariableFacts
<1>3. /\ UNCHANGED <<total, uncounted, central>> /\ st = "variables"
      /\ n \in Nat /\ regular \in BOOLEAN /\ central \in BOOLEAN
      /\ regular => Bracket(total, uncounted) /\ (central => MeanBracket(total))
  BY DEF BeginVariable, SizesInv, Typed, Bracketed
<1>4. CASE v.nodekind = "OTHER" /\ todo' = Tail(todo) /\ regular' = FALSE /\ n' = n + 1
           /\ UNCHANGED <<st, index, oid>>
  <2>1. Bracketed' BY <1>4 DEF Bracketed
  <2>2. n' \in Nat /\ regular' \in BOOLEAN /\ central' \in BOOLEAN /\ todo' \in Seq(Variable)
    <3> HIDE DEF v
    <3>1. regular' = FALSE BY <1>4
    <3>2. central' = central BY <1>3
    <3>3. n' = n + 1 /\ todo' = Tail(todo) BY <1>4
    <3>4. n' \in Nat BY <1>3, <3>3
    <3>5. regular' \in BOOLEAN /\ central' \in BOOLEAN BY <1>3, <3>1, <3>2
    <3>6. todo' \in Seq(Variable) BY <1>1, <3>3
    <3>7. QED BY <3>4, <3>5, <3>6
  <2>3. st' = "variables" BY <1>3, <1>4
  <2>4. Typed' /\ Indexing' BY <2>2, <2>3 DEF Typed, Indexing
  <2>5. QED BY <2>1, <2>4 DEF SizesInv
<1>5. CASE /\ v.nodekind = "SCALAR"
           /\ oid' = All(Append1(v.oid, 1, 1)) /\ index' = <<>> /\ st' = "index"
           /\ UNCHANGED <<todo, n, regular>>
  <2>1. IsPath(Append1(v.oid, 1, 1)) BY <1>2 DEF IsPath, Append1
  <2>2. Near(oid') /\ NearMean(oid') BY <1>5, <2>1, AllNear
  <2>3. index' \in Seq(Type) BY <1>5
  <2>4. Bracketed' BY <1>3, <1>5, <2>2 DEF Bracketed
  <2>5. Typed' /\ Indexing' BY <1>1, <1>3, <1>5, <2>3 DEF SizesInv, Typed, Indexing
  <2>6. QED BY <2>4, <2>5 DEF SizesInv
<1>6. CASE /\ v.nodekind = "COLUMN"
           /\ oid' = All(v.oid) /\ index' = IndexTypes(v) /\ st' = "index"
           /\ regular' = (regular /\ ~v.implied /\ IndexTypes(v) # <<>>)
           /\ UNCHANGED <<todo, n>>
  <2>1. Near(oid') /\ NearMean(oid') BY <1>2, <1>6, AllNear
  <2>2. regular' \in BOOLEAN /\ (regular' => regular /\ ~v.implied) BY <1>6
  <2>3. Bracketed' BY <1>3, <1>6, <2>1, <2>2 DEF Bracketed
  <2>4. Typed' /\ Indexing' BY <1>1, <1>2, <1>3, <1>6, <2>2 DEF SizesInv, Typed, Indexing
  <2>5. QED BY <2>3, <2>4 DEF SizesInv
<1>7. QED BY <1>4, <1>5, <1>6 DEF BeginVariable

LEMMA AppendSizes == SizesInv /\ AppendIndex => SizesInv'
<1> SUFFICES ASSUME SizesInv, AppendIndex PROVE SizesInv' OBVIOUS
<1> DEFINE t == Head(index)
<1>1. /\ st = "index" /\ index # <<>> /\ todo # <<>> /\ index \in Seq(Type)
      /\ (regular => ~Head(todo).implied)
      /\ n \in Nat /\ regular \in BOOLEAN /\ central \in BOOLEAN /\ todo \in Seq(Variable)
  BY DEF AppendIndex, SizesInv, Typed, Indexing
<1>2. t \in Type /\ Tail(index) \in Seq(Type) BY <1>1, SeqFacts
<1>3. PICK part \in IndexParts(t, IsFixed(t) \/ (Head(todo).implied /\ Len(index) = 1)) :
        /\ oid["real"].len + part.len <= MaxOid
        /\ oid' = Longer(oid, part, t)
  BY DEF AppendIndex, Longer
<1>4. /\ index' = Tail(index) /\ UNCHANGED <<st, todo, total, uncounted, n>>
      /\ regular' = (regular /\ RegularIndex(t))
      /\ central' = (central /\ Central(t) /\ ~IsString(t) /\ t.basetype # "ENUM" /\ ~IsOid(t))
  BY DEF AppendIndex
<1>5. ASSUME regular'
      PROVE  Near(oid') /\ (central' => NearMean(oid'))
  <2>1. regular /\ RegularIndex(t) /\ ~Head(todo).implied BY <1>1, <1>4, <1>5
  <2>2. Near(oid) /\ (central => NearMean(oid)) BY <1>1, <2>1 DEF SizesInv, Bracketed
  <2>3. (IsFixed(t) \/ (Head(todo).implied /\ Len(index) = 1)) = FALSE
    BY <2>1 DEF RegularIndex
  <2>4. Appendable(oid, part, t)
    BY <1>2, <1>3, <2>1, <2>2, <2>3 DEF Appendable, RegularIndex
  <2>5. Near(Longer(oid, part, t)) BY <2>4, IndexAppended
  <2>6. ASSUME central' PROVE NearMean(Longer(oid, part, t))
    <3>1. central /\ Central(t) /\ IsNumber(t) /\ t.basetype # "ENUM"
      BY <1>4, <2>6 DEF IsNumber
    <3>2. NearMean(oid) BY <2>2, <3>1
    <3>3. QED BY <2>4, <3>1, <3>2, NumberAppended
  <2>7. QED BY <1>3, <2>5, <2>6
<1>6. Bracketed'
  <2>1. ASSUME regular' PROVE Bracket(total', uncounted') /\ (central' => MeanBracket(total'))
    <3>1. regular /\ (central' => central) BY <1>4, <2>1
    <3>2. Bracket(total, uncounted) /\ (central => MeanBracket(total)) BY <3>1 DEF SizesInv, Bracketed
    <3>3. total' = total /\ uncounted' = uncounted BY <1>4
    <3>4. QED BY <3>1, <3>2, <3>3
  <2>2. QED BY <1>5, <2>1 DEF Bracketed
<1>7. regular' \in BOOLEAN /\ central' \in BOOLEAN /\ (regular' => regular) BY <1>4
<1>8. Typed' /\ Indexing' BY <1>1, <1>2, <1>4, <1>7 DEF Typed, Indexing
<1>9. QED BY <1>6, <1>8 DEF SizesInv

LEMMA EndSizes == SizesInv /\ EndVariable => SizesInv'
<1> SUFFICES ASSUME SizesInv, EndVariable PROVE SizesInv' OBVIOUS
<1> DEFINE t == Head(todo).type
           Size1(c) == Wrapped(Wrapped(oid[c].size) + ber_len_val(t, c))
           Sent(s) == Enclosed(Beside(Enclosed(InFull(oid["real"].size)), s))
<1>1. /\ st = "index" /\ todo # <<>>
      /\ n \in Nat /\ regular \in BOOLEAN /\ central \in BOOLEAN /\ todo \in Seq(Variable)
  BY DEF EndVariable, SizesInv, Typed, Indexing
<1>2. t \in Type /\ Tail(todo) \in Seq(Variable) BY <1>1, SeqFacts, VariableFacts
<1>3. PICK s \in ValueSizes(t) :
        /\ total' = [c \in Case |->
                       IF c = "real" THEN total[c] + Sent(s).size
                       ELSE total[c] + Wrapped(Wrapped(oid[c].size) + ber_len_val(t, c))]
        /\ uncounted' = uncounted + Sent(s).extra
  BY DEF EndVariable
<1>4. /\ total'["min"] = total["min"] + Size1("min")
      /\ total'["mean"] = total["mean"] + Size1("mean")
      /\ total'["max"] = total["max"] + Size1("max")
      /\ total'["real"] = total["real"] + Sent(s).size
  BY <1>3 DEF Case, Flag
<1>5. /\ todo' = Tail(todo) /\ n' = n + 1 /\ st' = "variables"
      /\ regular' = (regular /\ Regular(t)) /\ central' = (central /\ Central(t))
  BY DEF EndVariable
<1>6. ASSUME NEW a \in Int, NEW b \in Int, NEW x \in Int, NEW y \in Int, a <= b, x <= y
      PROVE  /\ Wrapped(Wrapped(a) + x) \in Int /\ Wrapped(Wrapped(b) + y) \in Int
             /\ Wrapped(Wrapped(a) + x) <= Wrapped(Wrapped(b) + y)
  <2>1. Wrapped(a) \in Int /\ Wrapped(b) \in Int /\ Wrapped(a) <= Wrapped(b)
    BY <1>6, WrappedGrows
  <2>2. Wrapped(a) + x \in Int /\ Wrapped(b) + y \in Int /\ Wrapped(a) + x <= Wrapped(b) + y
    BY <1>6, <2>1
  <2>3. QED BY <2>2, WrappedGrows
<1>7. ASSUME regular' PROVE Bracket(total', uncounted') /\ (central' => MeanBracket(total'))
  <2>1. regular /\ Regular(t) BY <1>5, <1>7
  <2>2. /\ Bracket(total, uncounted) /\ (central => MeanBracket(total))
        /\ Near(oid) /\ (central => NearMean(oid))
    BY <1>1, <2>1 DEF SizesInv, Bracketed
  <2>3. /\ oid["min"].size \in Int /\ oid["real"].size \in Int /\ oid["max"].size \in Int
        /\ oid["min"].size <= oid["real"].size /\ oid["real"].size <= oid["max"].size
    BY <2>2, NearLimits DEF Near, IsPath
  <2>4. /\ Counts(ber_len_val(t, "min"), s, ber_len_val(t, "max"))
        /\ Central(t) => /\ ber_len_val(t, "mean") \in Int
                         /\ ber_len_val(t, "min") <= ber_len_val(t, "mean")
                         /\ ber_len_val(t, "mean") <= ber_len_val(t, "max")
    BY <1>2, <2>1, ValueBetween
  <2>5. Counts(Size1("min"), Sent(s), Size1("max"))
    <3>1. Counts(oid["min"].size, InFull(oid["real"].size), oid["max"].size)
      BY <2>3, InFullCounts
    <3>2. Counts(Wrapped(oid["min"].size), Enclosed(InFull(oid["real"].size)),
                 Wrapped(oid["max"].size))
      BY <3>1, EnclosedCounts
    <3>3. Counts(Wrapped(oid["min"].size) + ber_len_val(t, "min"),
                 Beside(Enclosed(InFull(oid["real"].size)), s),
                 Wrapped(oid["max"].size) + ber_len_val(t, "max"))
      BY <2>4, <3>2, BesideCounts
    <3>4. QED BY <3>3, EnclosedCounts
  <2>6. Bracket(total', uncounted')
    <3> DEFINE old == [size |-> total["real"], extra |-> uncounted]
               new == [size |-> total'["real"], extra |-> uncounted']
    <3>1. Counts(total["min"], old, total["max"]) BY <2>2 DEF Bracket
    <3>2. Counts(total["min"] + Size1("min"), Beside(old, Sent(s)), total["max"] + Size1("max"))
      BY <2>5, <3>1, BesideCounts
    <3>3. Beside(old, Sent(s)) = new BY <1>3, <1>4 DEF Beside
    <3> HIDE DEF Size1, Sent
    <3>4. Counts(total'["min"], new, total'["max"]) BY <1>4, <3>2, <3>3
    <3>5. QED BY <3>4 DEF Bracket
  <2>7. ASSUME central' PROVE MeanBracket(total')
    <3>1. central /\ Central(t) BY <1>5, <2>7
    <3>2. /\ oid["mean"].size \in Int
          /\ oid["min"].size <= oid["mean"].size /\ oid["mean"].size <= oid["max"].size
      BY <2>2, <3>1 DEF NearMean, IsPath
    <3>3. ber_len_val(t, "min") \in Int /\ ber_len_val(t, "max") \in Int BY <2>4 DEF Counts
    <3>4. Size1("min") \in Int /\ Size1("mean") \in Int /\ Size1("min") <= Size1("mean")
      BY <1>6, <2>3, <2>4, <3>1, <3>2, <3>3
    <3>5. Size1("max") \in Int /\ Size1("mean") <= Size1("max")
      BY <1>6, <2>3, <2>4, <3>1, <3>2, <3>3
    <3>6. /\ total["min"] \in Int /\ total["max"] \in Int
          /\ total["mean"] \in Int /\ total["min"] <= total["mean"] /\ total["mean"] <= total["max"]
      BY <2>2, <3>1 DEF Bracket, Counts, MeanBracket
    <3> HIDE DEF Size1
    <3>7. QED BY <1>4, <3>4, <3>5, <3>6 DEF MeanBracket
  <2>8. QED BY <2>6, <2>7
<1>8. Typed' /\ Indexing'
  <2>1. n' \in Nat /\ regular' \in BOOLEAN /\ central' \in BOOLEAN BY <1>1, <1>5
  <2>2. QED BY <1>2, <1>5, <2>1 DEF Typed, Indexing
<1>9. Bracketed' BY <1>5, <1>7 DEF Bracketed
<1>10. QED BY <1>8, <1>9 DEF SizesInv

LEMMA ClosedGrows ==
  ASSUME NEW a \in Int, NEW b \in Int, a <= b,
         NEW i1 \in Int, NEW i2 \in Int, i1 <= i2,
         NEW s1 \in Int, NEW s2 \in Int, s1 <= s2,
         NEW p1 \in Int, NEW p2 \in Int, p1 <= p2
  PROVE  /\ Closed(a, i1, s1, p1) \in Int /\ Closed(b, i2, s2, p2) \in Int
         /\ Closed(a, i1, s1, p1) <= Closed(b, i2, s2, p2)
<1>1. Wrapped(a) \in Int /\ Wrapped(b) \in Int /\ Wrapped(a) <= Wrapped(b) BY WrappedGrows
<1> DEFINE x == Wrapped(a) + i1 + s1 + p1
           y == Wrapped(b) + i2 + s2 + p2
<1>2. x \in Int /\ y \in Int /\ x <= y BY <1>1
<1>3. Wrapped(x) \in Int /\ Wrapped(y) \in Int /\ Wrapped(x) <= Wrapped(y)
  BY <1>2, WrappedGrows
<1>4. QED BY <1>3 DEF Closed

\* The message around its variables and three numbers.
Pdu(p, id, status, place) == Enclosed(Beside(Enclosed(p), Beside(id, Beside(status, place))))

LEMMA ClosedCounts ==
  ASSUME NEW a, NEW p, NEW b, Counts(a, p, b),
         NEW i1, NEW id, NEW i2, Counts(i1, id, i2),
         NEW s1, NEW status, NEW s2, Counts(s1, status, s2),
         NEW p1, NEW place, NEW p2, Counts(p1, place, p2)
  PROVE  Counts(Closed(a, i1, s1, p1), Pdu(p, id, status, place), Closed(b, i2, s2, p2))
<1>1. Counts(Wrapped(a), Enclosed(p), Wrapped(b)) BY EnclosedCounts
<1>2. Counts(s1 + p1, Beside(status, place), s2 + p2) BY BesideCounts
<1>3. Counts(i1 + (s1 + p1), Beside(id, Beside(status, place)), i2 + (s2 + p2))
  BY <1>2, BesideCounts
<1>4. Counts(Wrapped(a) + (i1 + (s1 + p1)), Beside(Enclosed(p), Beside(id, Beside(status, place))),
             Wrapped(b) + (i2 + (s2 + p2)))
  BY <1>1, <1>3, BesideCounts
<1>5. /\ Wrapped(a) + (i1 + (s1 + p1)) = Wrapped(a) + i1 + s1 + p1
      /\ Wrapped(b) + (i2 + (s2 + p2)) = Wrapped(b) + i2 + s2 + p2
  BY <1>1 DEF Counts
<1>6. QED BY <1>4, <1>5, EnclosedCounts DEF Closed, Pdu

LEMMA CloseSizes == SizesInv /\ Close => SizesInv'
<1> SUFFICES ASSUME SizesInv, Close PROVE SizesInv' OBVIOUS
<1> DEFINE zero == ber_len_int(0)
<1>1. /\ n \in Nat /\ regular \in BOOLEAN /\ central \in BOOLEAN /\ todo \in Seq(Variable)
  BY DEF SizesInv, Typed
<1> DEFINE sum == [size |-> total["real"], extra |-> uncounted]
<1>2. PICK id \in Ids, status \in Ints(0, 18), place \in Ints(0, n) :
        /\ kind = "notification" => status = Int32(0) /\ place = Int32(0)
        /\ total' =
             [c \in Case |->
                IF c = "real" THEN Pdu(sum, id, status, place).size
                ELSE IF c = "min" THEN Closed(total[c], zero, zero, zero)
                ELSE IF c = "mean" THEN Closed(total[c], ber_len_int(MeanId), zero, zero)
                ELSE Closed(total[c], ber_len_int(WorstId), ber_len_int(18), ber_len_int(Worst))]
        /\ uncounted' = Pdu(sum, id, status, place).extra
  BY DEF Close, Pdu
<1>3. /\ total'["min"] = Closed(total["min"], zero, zero, zero)
      /\ total'["mean"] = Closed(total["mean"], ber_len_int(MeanId), zero, zero)
      /\ total'["max"] = Closed(total["max"], ber_len_int(WorstId), ber_len_int(18), ber_len_int(Worst))
      /\ total'["real"] = Pdu(sum, id, status, place).size
  BY <1>2 DEF Case, Flag
<1>4. /\ st' = "done" /\ UNCHANGED <<kind, todo, n, central>>
      /\ regular' = (regular /\ (kind # "notification" => n > 0 /\ Octets(n) = Octets(n - 1)))
  BY DEF Close
<1>5. ASSUME NEW a \in Int PROVE zero \in Int /\ ber_len_int(a) \in Int /\ zero <= ber_len_int(a)
  BY OctetsGrow, IntLength
<1>6. MeanId \in Int /\ WorstId \in Int /\ MeanId \in IntMin .. IntMax
  BY IdAssumption, Limited
<1>7. ASSUME NEW v \in IntMin .. IntMax
      PROVE  v \in Int /\ Octets(v) <= Octets(WorstId) /\ ber_len_int(v) <= ber_len_int(WorstId)
  <2>1. v \in Int BY Limited
  <2>2. Octets(v) <= Octets(WorstId) BY IdAssumption
  <2>3. QED BY <2>1, <2>2, <1>6, IntLength
<1>8. Counts(zero, id, ber_len_int(WorstId))
  <2>1. PICK v \in IntMin .. IntMax : id = Int32(v) BY DEF Ids, Ints
  <2>2. v \in Int /\ Octets(0) <= Octets(v) /\ Octets(v) <= Octets(WorstId)
    BY <1>7, OctetsGrow
  <2>3. QED BY <2>1, <2>2, <1>6, IntCounts
<1>9. Counts(zero, status, ber_len_int(18))
  <2>1. PICK v \in 0 .. 18 : status = Int32(v) BY DEF Ints
  <2>2. Octets(0) <= Octets(v) /\ Octets(v) <= Octets(18) BY OctetsGrow
  <2>3. QED BY <2>1, <2>2, IntCounts
<1>10. ASSUME regular'
       PROVE  Worst \in Nat /\ Counts(zero, place, ber_len_int(Worst))
  <2>1. PICK v \in 0 .. n : place = Int32(v) BY DEF Ints
  <2>2. CASE kind = "notification"
    <3>1. Worst = 0 /\ place = Int32(0) BY <2>2, <1>2 DEF Worst
    <3>2. Octets(0) <= Octets(0) BY OctetsGrow
    <3>3. QED BY <3>1, <3>2, IntCounts
  <2>3. CASE kind # "notification"
    <3>1. Worst = n - 1 /\ n > 0 /\ Octets(n) = Octets(n - 1)
      BY <2>3, <1>4, <1>10 DEF Worst
    <3>2. n - 1 \in Nat /\ v \in Nat /\ v <= n BY <1>1, <3>1
    <3>3. Octets(v) <= Octets(n) /\ Octets(0) <= Octets(v)
      <4>1. v \in Int BY <3>2
      <4>2. Octets(0) <= Octets(v) BY <4>1, OctetsGrow
      <4>3. Octets(v) <= Octets(n) BY <1>1, <3>2, OctetsGrow
      <4>4. QED BY <4>2, <4>3
    <3>4. Octets(v) <= Octets(n - 1) BY <3>1, <3>3
    <3>5. Counts(zero, place, ber_len_int(n - 1)) BY <2>1, <3>2, <3>3, <3>4, IntCounts
    <3>6. QED BY <3>1, <3>2, <3>5
  <2>4. QED BY <2>2, <2>3
<1>11. ASSUME regular' PROVE Bracket(total', uncounted') /\ (central' => MeanBracket(total'))
  <2>1. Bracket(total, uncounted) /\ (central => MeanBracket(total))
    BY <1>4, <1>11 DEF SizesInv, Bracketed
  <2>2. zero \in Int /\ ber_len_int(WorstId) \in Int /\ ber_len_int(MeanId) \in Int
        /\ ber_len_int(18) \in Int /\ ber_len_int(Worst) \in Int
        /\ zero <= ber_len_int(MeanId) /\ ber_len_int(MeanId) <= ber_len_int(WorstId)
        /\ zero <= ber_len_int(18) /\ zero <= ber_len_int(Worst)
    BY <1>5, <1>6, <1>7, <1>10, <1>11
  <2> DEFINE e == total["min"]
             m == total["mean"]
             f == total["max"]
             small == Closed(e, zero, zero, zero)
             mean  == Closed(m, ber_len_int(MeanId), zero, zero)
             large == Closed(f, ber_len_int(WorstId), ber_len_int(18), ber_len_int(Worst))
             pdu   == Pdu(sum, id, status, place)
             new   == [size |-> total'["real"], extra |-> uncounted']
  <2>3. /\ Counts(e, sum, f) /\ e \in Int /\ f \in Int
        /\ central => m \in Int /\ e <= m /\ m <= f
    BY <2>1 DEF Bracket, Counts, MeanBracket
  <2>4. /\ total'["min"] = small /\ total'["mean"] = mean /\ total'["max"] = large
        /\ total'["real"] = pdu.size /\ uncounted' = pdu.extra
    BY <1>2, <1>3
  <2>5. zero \in Int /\ zero <= zero BY <2>2
  <2>6. Counts(zero, place, ber_len_int(Worst)) BY <1>10, <1>11
  <2> HIDE DEF zero, e, m, f, sum
  <2>7. Counts(small, pdu, large)
    BY <1>8, <1>9, <2>3, <2>6, ClosedCounts
  <2>8. ASSUME central PROVE mean \in Int /\ small <= mean /\ mean <= large
    <3>1. m \in Int /\ e <= m /\ m <= f BY <2>3, <2>8
    <3>2. mean \in Int /\ small <= mean
      BY <2>2, <2>3, <2>5, <3>1, ClosedGrows
    <3>3. mean <= large
      BY <2>2, <2>3, <3>1, ClosedGrows
    <3>4. QED BY <3>2, <3>3
  <2> HIDE DEF small, mean, large, pdu
  <2>9. Bracket(total', uncounted')
    <3>1. new.size = pdu.size /\ new.extra = pdu.extra BY <2>4
    <3>2. Counts(total'["min"], new, total'["max"]) BY <2>4, <2>7, <3>1 DEF Counts
    <3>3. QED BY <3>2 DEF Bracket
  <2>10. central' => central BY <1>4
  <2>11. ASSUME central' PROVE MeanBracket(total')
    BY <2>4, <2>8, <2>10, <2>11 DEF MeanBracket
  <2>12. QED BY <2>9, <2>11
<1>12. Bracketed' BY <1>4, <1>11 DEF Bracketed
<1>13. Typed' /\ Indexing' BY <1>1, <1>4 DEF Typed, Indexing
<1>14. QED BY <1>12, <1>13 DEF SizesInv

\* Children and objects are variables; the constant sizes before the objects of a
\* notification enclose that of sysUpTime.
LEMMA DumpSizes ==
  ASSUME NEW node \in Counted
  PROVE  /\ DumpGroup(node) => SizesInv'
         /\ \A small \in BOOLEAN : DumpCreate(node, small) => SizesInv'
         /\ \A uptime \in 15 .. 19 : DumpNotification(node, uptime) => SizesInv'
<1>1. /\ node.children \in Seq(Variable) /\ node.objects \in Seq(Variable)
      /\ node.oid.size \in Int
  BY NodeAssumption DEF Node, Path
<1>2. Bracket(All(0), 0) /\ MeanBracket(All(0))
  BY DEF Bracket, Counts, MeanBracket, All, Case, Flag
<1>3. DumpGroup(node) => SizesInv' BY <1>1, <1>2, BeginSizes DEF DumpGroup
<1>4. \A small \in BOOLEAN : DumpCreate(node, small) => SizesInv'
  BY <1>1, <1>2, BeginSizes DEF DumpCreate
<1>5. ASSUME NEW uptime \in 15 .. 19, DumpNotification(node, uptime) PROVE SizesInv'
  <2> DEFINE trap  == Wrapped(Wrapped(node.oid.size) + Wrapped(snmpTrapOid0Size))
             sent  == Enclosed(Beside(Enclosed(InFull(node.oid.size)),
                                      Enclosed(InFull(snmpTrapOid0Size))))
             start == [min |-> 15 + trap, mean |-> 18 + trap, max |-> 19 + trap,
                       real |-> uptime + sent.size]
             whole == [size |-> uptime + sent.size, extra |-> sent.extra]
  <2>1. Counts(trap, sent, trap)
    <3>1. /\ Counts(node.oid.size, InFull(node.oid.size), node.oid.size)
          /\ Counts(snmpTrapOid0Size, InFull(snmpTrapOid0Size), snmpTrapOid0Size)
      BY <1>1, InFullCounts DEF snmpTrapOid0Size
    <3>2. QED BY <3>1, EnclosedCounts, BesideCounts
  <2>2. Begin("notification", node.objects, start, sent.extra)
    BY <1>5 DEF DumpNotification, trap, sent
  <2> HIDE DEF trap, sent
  <2>3. Counts(15 + trap, whole, 19 + trap) BY <2>1 DEF Counts
  <2>4. trap \in Int BY <2>1 DEF Counts
  <2>5. Bracket(start, sent.extra) /\ MeanBracket(start) BY <2>3, <2>4 DEF Bracket, MeanBracket
  <2> HIDE DEF start
  <2>6. QED BY <1>1, <2>2, <2>5, BeginSizes
<1>6. QED BY <1>3, <1>4, <1>5

\* No message whose variables have types that allow it is smaller than the best case
\* or, but for the octets that are not counted, larger than the worst case; and the
\* mean is between them where it can be: dumpSizeOfPDU(), dumpSizeOfCreatePDU(),
\* dumpSizeOfNotificationPDU().
THEOREM SizesEnclose == Spec => []SizesBracket
<1>1. SizesInv /\ [Next]_vars => SizesInv'
  <2> SUFFICES ASSUME SizesInv, [Next]_vars PROVE SizesInv' OBVIOUS
  <2>1. ASSUME NEW node \in Counted,
               \/ DumpGroup(node)
               \/ \E small \in BOOLEAN : DumpCreate(node, small)
               \/ \E uptime \in 15 .. 19 : DumpNotification(node, uptime)
        PROVE  SizesInv'
    BY <2>1, DumpSizes
  <2>2. CASE SkipVariable BY <2>2, SkipSizes
  <2>3. CASE BeginVariable BY <2>3, BeginVariableSizes
  <2>4. CASE AppendIndex BY <2>4, AppendSizes
  <2>5. CASE EndVariable BY <2>5, EndSizes
  <2>6. CASE Close BY <2>6, CloseSizes
  <2>7. CASE UNCHANGED vars
    BY <2>7 DEF vars, SizesInv, Typed, Indexing, Bracketed
  <2>8. QED BY <2>1, <2>2, <2>3, <2>4, <2>5, <2>6, <2>7 DEF Next
<1>2. SizesInv => SizesBracket
  BY DEF SizesInv, Bracketed, Bracket, Counts, MeanBracket, SizesBracket
<1>3. QED BY InitSizes, <1>1, <1>2, PTL DEF Spec

=============================================================================
