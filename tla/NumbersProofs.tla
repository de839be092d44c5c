--------------------------- MODULE NumbersProofs ----------------------------
(***************************************************************************)
(* Proofs about NumbersDiff, for lists of any length: the sort of named    *)
(* numbers leaves its list in order, keeps every number of it and stays    *)
(* within it, through the reading of an old and of a new type.             *)
(*                                                                         *)
(* The sort moves one item of a sequence: Shift(s, n, p) is s with the     *)
(* item n + 1 put before the item p of the first n.                        *)
(***************************************************************************)
EXTENDS NumbersDiff, TLAPS

Items(s) == {s[k] : k \in DOMAIN s}

Sorted(s, n) == \A a, b \in 1 .. n : a < b => s[a].value <= s[b].value

\* Where the item of a place comes from.
Source(n, p, k) == IF k < p THEN k ELSE IF k = p THEN n + 1
                   ELSE IF k <= n + 1 THEN k - 1 ELSE k
Shift(s, n, p) == [k \in DOMAIN s |-> s[Source(n, p, k)]]

\* Every place gets an item of the list, and no two places the same one.
LEMMA SourceOneToOne ==
  ASSUME NEW l \in Nat, NEW n \in Nat, n < l, NEW p \in 1 .. n + 1
  PROVE  /\ \A k \in 1 .. l : Source(n, p, k) \in 1 .. l
         /\ \A a, b \in 1 .. l : a # b => Source(n, p, a) # Source(n, p, b)
         /\ \A k \in 1 .. l : \E a \in 1 .. l : Source(n, p, a) = k
<1>1. /\ \A k \in 1 .. l : Source(n, p, k) \in 1 .. l
      /\ \A a, b \in 1 .. l : a # b => Source(n, p, a) # Source(n, p, b)
  BY DEF Source
<1>2. ASSUME NEW k \in 1 .. l
      PROVE  \E a \in 1 .. l : Source(n, p, a) = k
  <2>1. CASE k < p
    BY <2>1 DEF Source
  <2>2. CASE k = n + 1
    <3>1. p \in 1 .. l /\ Source(n, p, p) = k
      BY <2>2 DEF Source
    <3> QED BY <3>1
  <2>3. CASE p <= k /\ k <= n
    <3>1. k + 1 \in 1 .. l /\ Source(n, p, k + 1) = k
      BY <2>3 DEF Source
    <3> QED BY <3>1
  <2>4. CASE n + 1 < k
    BY <2>4 DEF Source
  <2> QED BY <2>1, <2>2, <2>3, <2>4
<1> QED BY <1>1, <1>2

\* Moving an item keeps the type, the length and the items of the list.
LEMMA ShiftKeeps ==
  ASSUME NEW s \in Seq(Item), NEW n \in Nat, n < Len(s), NEW p \in 1 .. n + 1
  PROVE  /\ Shift(s, n, p) \in Seq(Item)
         /\ Len(Shift(s, n, p)) = Len(s)
         /\ Items(Shift(s, n, p)) = Items(s)
         /\ Distinct(s) => Distinct(Shift(s, n, p))
<1> DEFINE m == Shift(s, n, p)
<1>1. DOMAIN s = 1 .. Len(s) /\ Len(s) \in Nat /\ \A k \in 1 .. Len(s) : s[k] \in Item
  OBVIOUS
<1>2. /\ \A k \in 1 .. Len(s) : Source(n, p, k) \in 1 .. Len(s)
      /\ \A a, b \in 1 .. Len(s) : a # b => Source(n, p, a) # Source(n, p, b)
      /\ \A k \in 1 .. Len(s) : \E a \in 1 .. Len(s) : Source(n, p, a) = k
  BY <1>1, SourceOneToOne
<1>3. /\ m = [k \in 1 .. Len(s) |-> s[Source(n, p, k)]]
      /\ \A k \in 1 .. Len(s) : m[k] = s[Source(n, p, k)]
  BY <1>1 DEF Shift
<1>4. m \in Seq(Item) /\ Len(m) = Len(s) /\ DOMAIN m = 1 .. Len(s)
  <2>1. m \in [1 .. Len(s) -> Item]
    BY <1>1, <1>2, <1>3
  <2> HIDE DEF m
  <2> QED BY <2>1, <1>1
<1> HIDE DEF m
<1>5. Items(m) = Items(s)
  <2>1. ASSUME NEW x \in Items(m) PROVE x \in Items(s)
    BY <1>1, <1>2, <1>3, <1>4 DEF Items
  <2>2. ASSUME NEW x \in Items(s) PROVE x \in Items(m)
    BY <1>1, <1>2, <1>3, <1>4 DEF Items
  <2> QED BY <2>1, <2>2
<1>6. ASSUME Distinct(s) PROVE Distinct(m)
  <2>1. \A a, b \in 1 .. Len(s) : a # b => s[a].value # s[b].value
    BY <1>1, <1>6 DEF Distinct
  <2>2. SUFFICES ASSUME NEW a \in 1 .. Len(s), NEW b \in 1 .. Len(s), a # b
                 PROVE  m[a].value # m[b].value
    BY <1>4 DEF Distinct
  <2> QED BY <2>1, <2>2, <1>2, <1>3
<1> QED BY <1>4, <1>5, <1>6 DEF m

\* An item that is put behind the smaller and before the greater ones of what
\* is sorted makes it sorted by one item more.
LEMMA ShiftSorted ==
  ASSUME NEW s \in Seq(Item), NEW n \in Nat, n < Len(s), NEW p \in 1 .. n + 1,
         Sorted(s, n),
         \A q \in 1 .. p - 1 : s[q].value <= s[n + 1].value,
         \A q \in p .. n : s[n + 1].value <= s[q].value
  PROVE  Sorted(Shift(s, n, p), n + 1)
<1>1. DOMAIN s = 1 .. Len(s) /\ Len(s) \in Nat /\ \A k \in 1 .. Len(s) : s[k] \in Item
  OBVIOUS
<1>2. \A k \in 1 .. Len(s) : s[k].value \in Int
  BY <1>1 DEF Item
<1>3. SUFFICES ASSUME NEW a \in 1 .. n + 1, NEW b \in 1 .. n + 1, a < b
               PROVE  s[Source(n, p, a)].value <= s[Source(n, p, b)].value
  BY <1>1 DEF Shift, Sorted
<1>4. CASE a = p
  BY <1>1, <1>3, <1>4 DEF Source, Sorted
<1>5. CASE b = p
  BY <1>1, <1>3, <1>5 DEF Source, Sorted
<1>6. CASE a # p /\ b # p
  <2>1. /\ Source(n, p, a) \in 1 .. n /\ Source(n, p, b) \in 1 .. n
        /\ Source(n, p, a) < Source(n, p, b)
    BY <1>3, <1>6 DEF Source
  <2> QED BY <2>1 DEF Sorted
<1> QED BY <1>4, <1>5, <1>6

-----------------------------------------------------------------------------
(***************************************************************************)
(* The inductive invariant.  That the items stay the same ones makes a     *)
(* list without equal numbers stay without them, and in such a list the    *)
(* search for a place never gets behind the item it looks for: the last    *)
(* one that was passed is greater.                                         *)
(***************************************************************************)
NInv == /\ NumbersTypeOK
        /\ PassedSorted
        /\ Items(list) = Items(text.list)
        /\ Distinct(text.list) => Distinct(list)
        /\ NoRunOff

\* What a type looks like when its list has been read.
LEMMA BeginSound ==
  ASSUME NEW t \in Texts
  PROVE  /\ t.list \in Seq(Item) /\ Len(t.list) \in Nat /\ Len(t.list) > 0
         /\ Begin(t).text = t /\ Begin(t).list = t.list /\ Begin(t).pos = 0
         /\ Begin(t).basetype \in Basetype
         /\ Begin(t).errors = {} /\ Begin(t).st = "read"
<1>1. t \in Text
  BY TextAssumption
<1>2. t.list \in Seq(Item) /\ t.list # <<>> /\ t.basetype \in {"ENUM", "BITS"}
  BY <1>1 DEF Text
<1>3. Len(t.list) \in Nat /\ Len(t.list) > 0
  BY <1>2
<1> QED BY <1>2, <1>3 DEF Begin, Basetype

\* The shape of a list that is being sorted.
LEMMA Shape ==
  ASSUME NumbersTypeOK
  PROVE  /\ list \in Seq(Item) /\ text.list \in Seq(Item)
         /\ DOMAIN list = 1 .. Len(list) /\ Len(list) \in Nat /\ Len(list) > 0
         /\ DOMAIN text.list = 1 .. Len(text.list) /\ Len(list) = Len(text.list)
         /\ pos \in Nat /\ pos <= Len(list)
         /\ \A k \in 1 .. Len(list) : list[k] \in Item
         /\ \A k \in 1 .. Len(list) : list[k].value \in Int /\ list[k].name \in Name
<1>1. /\ text \in Texts /\ list \in Seq(Item) /\ Len(list) = Len(text.list)
      /\ pos \in 0 .. Len(list)
  BY DEF NumbersTypeOK
<1>2. text.list \in Seq(Item) /\ Len(text.list) > 0
  BY <1>1, BeginSound
<1>3. /\ DOMAIN list = 1 .. Len(list) /\ Len(list) \in Nat
      /\ DOMAIN text.list = 1 .. Len(text.list)
      /\ \A k \in 1 .. Len(list) : list[k] \in Item
  BY <1>1, <1>2
<1>4. \A k \in 1 .. Len(list) : list[k].value \in Int /\ list[k].name \in Name
  BY <1>3 DEF Item
<1> QED BY <1>1, <1>2, <1>3, <1>4

\* The sort passes a sorted part of the list.
LEMMA PassedIsSorted ==
  ASSUME NumbersTypeOK, PassedSorted, st = "order"
  PROVE  basetype # "UNKNOWN" => Sorted(list, pos)
  BY Shape DEF PassedSorted, Sorted

\* What an item that does not stay where it is has before it.
LEMMA NotKept ==
  ASSUME NumbersTypeOK, pos < Len(list), ~Keeps
  PROVE  /\ pos >= 1 /\ list[pos + 1].value <= list[pos].value
         /\ Rest(1) = list[1]
         /\ \A q \in 1 .. pos : Rest(q) = list[q]
  BY Shape DEF Keeps, This, Rest

\* The place that is found lies behind the smaller and before the greater ones.
LEMMA PlaceFits ==
  ASSUME NumbersTypeOK, PassedSorted, st = "order", pos < Len(list), ~Keeps,
         basetype # "UNKNOWN",
         NEW p \in 1 .. pos + 1, IsPlace(p)
  PROVE  /\ \A q \in 1 .. p - 1 : list[q].value <= list[pos + 1].value
         /\ \A q \in p .. pos : list[pos + 1].value <= list[q].value
<1>1. /\ pos \in Nat /\ Len(list) \in Nat
      /\ \A k \in 1 .. Len(list) : list[k].value \in Int
  BY Shape
<1>2. /\ pos >= 1 /\ Rest(1) = list[1]
      /\ \A q \in 1 .. pos : Rest(q) = list[q]
  BY NotKept
<1>3. \A a, b \in 1 .. pos : a < b => list[a].value <= list[b].value
  BY PassedIsSorted DEF Sorted
<1>4. CASE list[1].value > list[pos + 1].value
  <2>1. p = 1
    BY <1>2, <1>4 DEF IsPlace, This
  <2> QED BY <2>1, <1>1, <1>2, <1>3, <1>4
<1>5. CASE ~(list[1].value > list[pos + 1].value)
  <2>1. /\ p >= 2 /\ (p < Len(list) => Beyond(p))
        /\ \A q \in 2 .. p - 1 : ~Beyond(q)
    BY <1>1, <1>2, <1>5 DEF IsPlace, This
  <2>2. \A q \in 1 .. pos : (Beyond(q) => list[q].value >= list[pos + 1].value)
                            /\ (~Beyond(q) => list[q].value <= list[pos + 1].value)
    BY <1>1, <1>2 DEF Beyond, This
  <2>3. \A q \in 1 .. p - 1 : list[q].value <= list[pos + 1].value
    BY <2>1, <2>2, <1>1, <1>5
  <2>4. CASE p <= pos
    <3>1. list[p].value >= list[pos + 1].value
      BY <2>1, <2>2, <2>4, <1>1
    <3> QED BY <3>1, <2>3, <2>4, <1>1, <1>3
  <2>5. CASE p = pos + 1
    BY <2>3, <2>5, <1>1
  <2> QED BY <2>4, <2>5, <1>1
<1> QED BY <1>4, <1>5

\* In a list of two, or without equal numbers, a place behind the item is not
\* found.
LEMMA PlaceWithin ==
  ASSUME NumbersTypeOK, pos < Len(list), ~Keeps,
         Distinct(list) \/ Len(list) <= 2,
         NEW p \in 1 .. Len(list), IsPlace(p)
  PROVE  p <= pos + 1
<1>1. /\ pos \in Nat /\ Len(list) \in Nat /\ DOMAIN list = 1 .. Len(list)
      /\ \A k \in 1 .. Len(list) : list[k].value \in Int
  BY Shape
<1>2. /\ pos >= 1 /\ list[pos + 1].value <= list[pos].value
      /\ Rest(1) = list[1] /\ Rest(pos) = list[pos]
  BY NotKept, <1>1
<1>3. CASE Len(list) <= 2
  BY <1>1, <1>2, <1>3
<1>4. CASE Distinct(list)
  <2>1. list[pos].value > list[pos + 1].value
    <3>1. list[pos].value # list[pos + 1].value
      BY <1>1, <1>2, <1>4 DEF Distinct
    <3> QED BY <3>1, <1>1, <1>2
  <2>2. SUFFICES ASSUME p > pos + 1 PROVE FALSE
    BY <1>1
  <2>3. CASE pos = 1
    BY <2>1, <2>2, <2>3, <1>1, <1>2 DEF IsPlace, This
  <2>4. CASE pos # 1
    <3>1. Beyond(pos)
      BY <2>1, <1>1, <1>2 DEF Beyond, This
    <3>2. p # 1 /\ pos \in 2 .. p - 1
      BY <2>2, <2>4, <1>1, <1>2
    <3>3. ~Beyond(pos)
      BY <3>2 DEF IsPlace
    <3> QED BY <3>1, <3>3
  <2> QED BY <2>3, <2>4
<1> QED BY <1>3, <1>4

-----------------------------------------------------------------------------
\* The steps of the sort and of the checks keep the invariant.

LEMMA MessagesSound ==
  /\ ZeroNotNamed \in Error /\ NotAscending \in Error
  /\ \A n \in Name : Message("name-redefinition", n, 0) \in Error
  /\ \A v \in Int : Message("number-redefinition", "", v) \in Error
  /\ \A n \in Name, v \in Int : Message("subtype", n, v) \in Error
<1>1. "" \in Name
  BY DEF Name
<1>2. \A k \in {"zero-not-named", "not-ascending", "name-redefinition",
                "number-redefinition", "subtype"}, n \in Name, v \in Int :
        Message(k, n, v) \in Error
  BY DEF Message, Error
<1>3. ZeroNotNamed \in Error
  <2> DEFINE none == ""
  <2>1. none \in Name
    BY <1>1
  <2> HIDE DEF none
  <2>2. Message("zero-not-named", none, 0) \in Error
    BY <1>2, <2>1
  <2> QED BY <2>2 DEF none, ZeroNotNamed
<1>4. NotAscending \in Error
  <2> DEFINE none == ""
  <2>1. none \in Name
    BY <1>1
  <2> HIDE DEF none
  <2>2. Message("not-ascending", none, 0) \in Error
    BY <1>2, <2>1
  <2> QED BY <2>2 DEF none, NotAscending
<1>5. \A v \in Int : Message("number-redefinition", "", v) \in Error
  BY <1>1, <1>2
<1>6. \A n \in Name : Message("name-redefinition", n, 0) \in Error
  BY <1>2
<1>7. \A n \in Name, v \in Int : Message("subtype", n, v) \in Error
  BY <1>2
<1> QED BY <1>3, <1>4, <1>5, <1>6, <1>7

\* A step that leaves the list alone keeps what is said of its items.
LEMMA ListStays ==
  ASSUME NInv, list' = list, text' = text, NumbersTypeOK', PassedSorted', NoRunOff'
  PROVE  NInv'
<1>1. Items(list)' = Items(list) /\ Items(text.list)' = Items(text.list)
  BY DEF Items
<1>2. (Distinct(list)' <=> Distinct(list)) /\ (Distinct(text.list)' <=> Distinct(text.list))
  BY DEF Distinct
<1> QED BY <1>1, <1>2 DEF NInv

LEMMA CheckFirstBitKeeps == NInv /\ CheckFirstBit => NInv'
<1> SUFFICES ASSUME NInv, CheckFirstBit PROVE NInv'
  OBVIOUS
<1>1. NumbersTypeOK'
  BY MessagesSound DEF NInv, NumbersTypeOK, CheckFirstBit
<1>2. PassedSorted'
  BY DEF NInv, PassedSorted, CheckFirstBit
<1>3. list' = list /\ text' = text /\ st' # "crashed"
  BY DEF CheckFirstBit
<1> QED BY <1>1, <1>2, <1>3, ListStays DEF NoRunOff

LEMMA KeepNumberKeeps == NInv /\ KeepNumber => NInv'
<1> SUFFICES ASSUME NInv, KeepNumber PROVE NInv'
  OBVIOUS
<1>1. NumbersTypeOK
  BY DEF NInv
<1>2. NumbersTypeOK'
  BY <1>1, Shape DEF NumbersTypeOK, KeepNumber
<1>3. PassedSorted'
  <2> SUFFICES ASSUME NEW a \in DOMAIN list, NEW b \in DOMAIN list, a < b,
                      b <= pos + 1, basetype # "UNKNOWN"
               PROVE  list[a].value <= list[b].value
    BY DEF PassedSorted, KeepNumber
  <2>1. \A c, d \in DOMAIN list : c < d /\ d <= pos => list[c].value <= list[d].value
    BY DEF NInv, PassedSorted
  <2>2. CASE b <= pos
    BY <2>1, <2>2
  <2>3. CASE b = pos + 1
    <3>1. a \in 1 .. pos /\ pos \in DOMAIN list
      BY <2>3, <1>1, Shape
    <3>2. list[a].value <= list[pos].value
      BY <3>1, <2>1, <1>1, Shape
    <3>3. list[pos + 1].value > list[pos].value
      BY <3>1, <1>1, Shape DEF KeepNumber, Keeps, This
    <3> QED BY <3>1, <3>2, <3>3, <2>3, <1>1, Shape
  <2> QED BY <2>2, <2>3, <1>1, Shape
<1>4. list' = list /\ text' = text /\ st' # "crashed"
  BY DEF KeepNumber
<1> QED BY <1>2, <1>3, <1>4, ListStays DEF NoRunOff

LEMMA ReinsertNumberKeeps == NInv /\ ReinsertNumber => NInv'
<1> SUFFICES ASSUME NInv, ReinsertNumber PROVE NInv'
  OBVIOUS
<1>1. NumbersTypeOK /\ PassedSorted /\ st = "order" /\ pos < Len(list) /\ ~Keeps
  BY DEF NInv, ReinsertNumber
<1>2. PICK p \in 1 .. Len(list) : IsPlace(p) /\ p <= pos + 1 /\ list' = Moved(p)
  BY DEF ReinsertNumber
<1>3. p \in 1 .. pos + 1 /\ pos \in Nat /\ list \in Seq(Item)
  BY <1>1, <1>2, Shape
<1>4. list' = Shift(list, pos, p)
  <2>1. Moved(p) = Shift(list, pos, p)
    BY <1>1, <1>3, Shape DEF Moved, Shift, Source, This
  <2> QED BY <2>1, <1>2
<1>5. /\ list' \in Seq(Item) /\ Len(list') = Len(list)
      /\ Items(list') = Items(list) /\ (Distinct(list) => Distinct(list'))
  BY <1>1, <1>3, <1>4, ShiftKeeps
<1>6. NumbersTypeOK'
  <2>1. /\ pos' = pos + 1 /\ errors' = errors \cup {NotAscending}
        /\ text' = text /\ basetype' = basetype /\ st' = st
    BY DEF ReinsertNumber
  <2>2. pos' \in 0 .. Len(list') /\ Len(list') = Len(text'.list)
    BY <2>1, <1>1, <1>5, Shape
  <2>3. errors' \subseteq Error
    BY <2>1, <1>1, MessagesSound DEF NumbersTypeOK
  <2> QED BY <2>1, <2>2, <2>3, <1>1, <1>5 DEF NumbersTypeOK
<1>7. PassedSorted'
  <2>1. CASE basetype = "UNKNOWN"
    BY <2>1 DEF PassedSorted, ReinsertNumber
  <2>2. CASE basetype # "UNKNOWN"
    <3>1. Sorted(list', pos + 1)
      <4>1. /\ \A q \in 1 .. p - 1 : list[q].value <= list[pos + 1].value
            /\ \A q \in p .. pos : list[pos + 1].value <= list[q].value
        BY <1>1, <1>2, <1>3, <2>2, PlaceFits
      <4>2. Sorted(list, pos)
        BY <1>1, <2>2, PassedIsSorted
      <4> QED BY <4>1, <4>2, <1>1, <1>3, <1>4, ShiftSorted
    <3>2. pos' = pos + 1 /\ st' = "order" /\ DOMAIN list' = 1 .. Len(list')
      BY <1>1, <1>5 DEF ReinsertNumber
    <3> QED BY <3>1, <3>2, <1>1, <1>5, Shape DEF PassedSorted, Sorted
  <2> QED BY <2>1, <2>2
<1>8. text' = text /\ st' = st
  BY DEF ReinsertNumber
<1>9. Items(list') = Items(text'.list) /\ (Distinct(text'.list) => Distinct(list'))
  BY <1>5, <1>8 DEF NInv
<1>10. NoRunOff'
  BY <1>1, <1>8 DEF NoRunOff
<1> QED BY <1>6, <1>7, <1>9, <1>10 DEF NInv, Items, Distinct

LEMMA RunOffKeeps == NInv /\ RunOff => NInv'
<1> SUFFICES ASSUME NInv, RunOff PROVE NInv'
  OBVIOUS
<1>1. NumbersTypeOK /\ pos < Len(list) /\ ~Keeps
  BY DEF NInv, RunOff
<1>2. PICK p \in 1 .. Len(list) : IsPlace(p) /\ p > pos + 1
  BY DEF RunOff
<1>3. ~(Distinct(list) \/ Len(list) <= 2)
  BY <1>1, <1>2, PlaceWithin, Shape
<1>4. ~(Distinct(text.list) \/ Len(text.list) <= 2)
  BY <1>1, <1>3, Shape DEF NInv
<1>5. NumbersTypeOK'
  BY <1>1, MessagesSound DEF NumbersTypeOK, RunOff
<1>6. PassedSorted'
  BY DEF NInv, PassedSorted, RunOff
<1>7. list' = list /\ text' = text
  BY DEF RunOff
<1>8. NoRunOff'
  BY <1>4, <1>7 DEF NoRunOff, Distinct
<1> QED BY <1>5, <1>6, <1>7, <1>8, ListStays

LEMMA EndOfOrderKeeps == NInv /\ EndOfOrder => NInv'
<1> SUFFICES ASSUME NInv, EndOfOrder PROVE NInv'
  OBVIOUS
<1>1. NumbersTypeOK
  BY DEF NInv
<1>2. NumbersTypeOK'
  BY <1>1 DEF NumbersTypeOK, EndOfOrder
<1>3. PassedSorted'
  BY <1>1, Shape DEF NInv, PassedSorted, EndOfOrder
<1>4. list' = list /\ text' = text /\ st' # "crashed"
  BY DEF EndOfOrder
<1> QED BY <1>2, <1>3, <1>4, ListStays DEF NoRunOff

LEMMA CheckNumbersKeeps == NInv /\ CheckNumbers => NInv'
<1> SUFFICES ASSUME NInv, CheckNumbers PROVE NInv'
  OBVIOUS
<1>1. NumbersTypeOK
  BY DEF NInv
<1>2. Redefinitions \subseteq Error
  BY <1>1, Shape, MessagesSound DEF Redefinitions
<1>3. Missing \subseteq Error
  BY <1>1, Shape, MessagesSound DEF Missing
<1>4. NumbersTypeOK'
  BY <1>1, <1>2, <1>3 DEF NumbersTypeOK, CheckNumbers
<1>5. PassedSorted'
  BY DEF NInv, PassedSorted, CheckNumbers
<1>6. list' = list /\ text' = text /\ st' # "crashed"
  BY DEF CheckNumbers
<1> QED BY <1>4, <1>5, <1>6, ListStays DEF NoRunOff

LEMMA NumbersNextKeeps == NInv /\ NumbersNext => NInv'
  BY CheckFirstBitKeeps, KeepNumberKeeps, ReinsertNumberKeeps, RunOffKeeps,
     EndOfOrderKeeps, CheckNumbersKeeps DEF NumbersNext

LEMMA StillKeeps == NInv /\ UNCHANGED numbers => NInv'
<1> SUFFICES ASSUME NInv, UNCHANGED numbers PROVE NInv'
  OBVIOUS
<1>1. /\ text' = text /\ basetype' = basetype /\ list' = list /\ pos' = pos
      /\ errors' = errors /\ st' = st
  BY DEF numbers
<1>2. NumbersTypeOK'
  BY <1>1 DEF NInv, NumbersTypeOK
<1>3. PassedSorted'
  BY <1>1 DEF NInv, PassedSorted
<1>4. NoRunOff'
  BY <1>1 DEF NInv, NoRunOff, Distinct
<1> QED BY <1>1, <1>2, <1>3, <1>4, ListStays

-----------------------------------------------------------------------------
LEMMA InitKeeps == Init => NInv
<1> SUFFICES ASSUME Init PROVE NInv
  OBVIOUS
<1>1. PICK t \in Texts : Start(Begin(t))
  BY DEF Init, NumbersInit
<1>2. /\ text = t /\ list = t.list /\ pos = 0 /\ errors = {} /\ st = "read"
      /\ basetype \in Basetype /\ list \in Seq(Item) /\ Len(list) > 0
  BY <1>1, BeginSound DEF Start
<1>3. NumbersTypeOK
  BY <1>2 DEF NumbersTypeOK
<1>4. PassedSorted
  BY <1>2, <1>3, Shape DEF PassedSorted
<1> QED BY <1>2, <1>3, <1>4 DEF NInv, NoRunOff

\* Reading the new type starts over.
LEMMA LoadNewKeeps == LoadNew => NInv'
<1> SUFFICES ASSUME LoadNew PROVE NInv'
  OBVIOUS
<1>1. PICK t \in Texts :
        /\ text' = Begin(t).text /\ basetype' = Begin(t).basetype
        /\ list' = Begin(t).list /\ pos' = Begin(t).pos
        /\ errors' = Begin(t).errors /\ st' = Begin(t).st
  BY DEF LoadNew
<1>2. /\ text' = t /\ list' = t.list /\ pos' = 0 /\ errors' = {} /\ st' = "read"
      /\ basetype' \in Basetype /\ list' \in Seq(Item) /\ Len(list') > 0
  BY <1>1, BeginSound
<1>3. NumbersTypeOK'
  BY <1>2 DEF NumbersTypeOK
<1>4. PassedSorted'
  <2>1. \A b \in DOMAIN list' : b > 0
    BY <1>2
  <2> QED BY <1>2, <2>1 DEF PassedSorted
<1> QED BY <1>2, <1>3, <1>4 DEF NInv, NoRunOff, Items, Distinct

LEMMA NextKeeps == NInv /\ [Next]_vars => NInv'
<1> SUFFICES ASSUME NInv, [Next]_vars PROVE NInv'
  OBVIOUS
<1>1. CASE NumbersNext
  BY <1>1, NumbersNextKeeps
<1>2. CASE LoadNew
  BY <1>2, LoadNewKeeps
<1>3. CASE Compare \/ Removed \/ Added \/ Kept \/ EndOfMerge \/ UNCHANGED vars
  <2>1. UNCHANGED numbers
    BY <1>3 DEF Compare, Removed, Added, Kept, EndOfMerge, UnchangedBut, vars
  <2> QED BY <2>1, StillKeeps
<1> QED BY <1>1, <1>2, <1>3 DEF Next

LEMMA Invariant == Spec => []NInv
<1>1. Init => NInv
  BY InitKeeps
<1>2. NInv /\ [Next]_vars => NInv'
  BY NextKeeps
<1> QED BY <1>1, <1>2, PTL DEF Spec

\* smiCheckNamedNumbersOrder() leaves the numbers of every list in ascending
\* order, keeps all of them, and stays within a list that has no number twice.
THEOREM Ordered == Spec => []NumbersOrdered
<1>1. NInv => NumbersOrdered
  BY DEF NInv, NumbersOrdered, Items
<1> QED BY <1>1, Invariant, PTL

\* Whatever is read, the list stays a list of named numbers as long as it was.
THEOREM NumbersTyped == Spec => []NumbersTypeOK
<1>1. NInv => NumbersTypeOK
  BY DEF NInv
<1> QED BY <1>1, Invariant, PTL

-----------------------------------------------------------------------------
(***************************************************************************)
(* The merge of an old list o and a new list w without equal numbers, when *)
(* it has got to the place x of the one and y of the other.                *)
(***************************************************************************)
Strict(s) == \A a, b \in DOMAIN s : a < b => s[a].value < s[b].value

\* All that is passed in one list is smaller than all that is left in the other.
Apart(o, w, x, y) ==
  /\ \A a \in 1 .. x - 1, b \in y .. Len(w) : o[a].value < w[b].value
  /\ \A a \in x .. Len(o), b \in 1 .. y - 1 : w[b].value < o[a].value

GoneTo(o, w, n) == {Changed("removed", o[a].name, "") :
                      a \in {c \in 1 .. n : o[c].value \notin Values(w)}}
ByteShared(t, o, v) == /\ t = "BITS"
                       /\ \A u \in Values(o) : u < v
                       /\ \E u \in Values(o) : u \div ByteSize = v \div ByteSize
Kind(t, o, v) == IF ByteShared(t, o, v) THEN "old-byte" ELSE "added"
ComeTo(t, o, w, n) == {Changed(Kind(t, o, w[b].value), w[b].name, "") :
                         b \in {c \in 1 .. n : w[c].value \notin Values(o)}}
RenamedTo(o, w, n) ==
  {Changed("changed", o[p[1]].name, w[p[2]].name) :
     p \in {q \in (1 .. n) \X DOMAIN w :
              /\ o[q[1]].value = w[q[2]].value
              /\ o[q[1]].name # w[q[2]].name}}

\* A list of named numbers, as the provers see it.
LEMMA ListShape ==
  ASSUME NEW s \in Seq(Item)
  PROVE  /\ DOMAIN s = 1 .. Len(s) /\ Len(s) \in Nat
         /\ \A k \in 1 .. Len(s) : s[k].value \in Int
         /\ Values(s) \subseteq Int
<1>1. DOMAIN s = 1 .. Len(s) /\ Len(s) \in Nat /\ \A k \in 1 .. Len(s) : s[k] \in Item
  OBVIOUS
<1>2. \A k \in 1 .. Len(s) : s[k].value \in Int
  BY <1>1 DEF Item
<1> QED BY <1>1, <1>2 DEF Values

LEMMA StrictSorted ==
  ASSUME NEW s \in Seq(Item), Sorted(s, Len(s)), Distinct(s)
  PROVE  Strict(s)
  BY ListShape DEF Sorted, Distinct, Strict

\* Octets are counted in the order of their bits.
LEMMA DivMonotone ==
  ASSUME NEW a \in Int, NEW b \in Int, a <= b
  PROVE  /\ a \div ByteSize \in Int /\ b \div ByteSize \in Int
         /\ a \div ByteSize <= b \div ByteSize
  BY ByteAssumption

LEMMA StrictShape ==
  ASSUME NEW s \in Seq(Item), Strict(s)
  PROVE  /\ DOMAIN s = 1 .. Len(s) /\ Len(s) \in Nat
         /\ \A k \in 1 .. Len(s) : s[k].value \in Int
         /\ \A a, b \in 1 .. Len(s) : a < b => s[a].value < s[b].value
         /\ \A v : v \in Values(s) <=> \E k \in 1 .. Len(s) : s[k].value = v
<1>1. /\ DOMAIN s = 1 .. Len(s) /\ Len(s) \in Nat
      /\ \A k \in 1 .. Len(s) : s[k].value \in Int
  BY ListShape
<1>2. \A a, b \in 1 .. Len(s) : a < b => s[a].value < s[b].value
  BY <1>1 DEF Strict
<1> QED BY <1>1, <1>2 DEF Values

\* A number that only the old list has.
LEMMA RemovedStep ==
  ASSUME NEW o \in Seq(Item), NEW w \in Seq(Item), Strict(o), Strict(w),
         NEW x \in 1 .. Len(o), NEW y \in 1 .. Len(w) + 1, Apart(o, w, x, y),
         y <= Len(w) => o[x].value < w[y].value
  PROVE  /\ Apart(o, w, x + 1, y)
         /\ GoneTo(o, w, x) = GoneTo(o, w, x - 1)
                              \cup {Changed("removed", o[x].name, "")}
         /\ RenamedTo(o, w, x) = RenamedTo(o, w, x - 1)
<1>1. /\ Len(o) \in Nat /\ Len(w) \in Nat
      /\ \A k \in 1 .. Len(o) : o[k].value \in Int
      /\ \A k \in 1 .. Len(w) : w[k].value \in Int
  BY StrictShape
<1>2. /\ \A a, b \in 1 .. Len(o) : a < b => o[a].value < o[b].value
      /\ \A a, b \in 1 .. Len(w) : a < b => w[a].value < w[b].value
  BY StrictShape
<1>3. ASSUME NEW b \in y .. Len(w) PROVE o[x].value < w[b].value
  <2>1. b \in 1 .. Len(w) /\ y \in 1 .. Len(w) /\ y <= b /\ o[x].value < w[y].value
    BY <1>1
  <2>2. y < b => w[y].value < w[b].value
    BY <2>1, <1>2
  <2> QED BY <2>1, <2>2, <1>1
<1>4. \A b \in 1 .. y - 1 : w[b].value < o[x].value
  BY <1>1 DEF Apart
<1>5. \A b \in 1 .. Len(w) : w[b].value # o[x].value
  BY <1>1, <1>3, <1>4
<1>6. Apart(o, w, x + 1, y)
  BY <1>1, <1>3 DEF Apart
<1>7. o[x].value \notin Values(w)
  BY <1>5, StrictShape
<1>8. {c \in 1 .. x : o[c].value \notin Values(w)}
        = {c \in 1 .. x - 1 : o[c].value \notin Values(w)} \cup {x}
  BY <1>1, <1>7
<1>9. {q \in (1 .. x) \X DOMAIN w :
         o[q[1]].value = w[q[2]].value /\ o[q[1]].name # w[q[2]].name}
      = {q \in (1 .. x - 1) \X DOMAIN w :
           o[q[1]].value = w[q[2]].value /\ o[q[1]].name # w[q[2]].name}
  <2>1. DOMAIN w = 1 .. Len(w)
    BY StrictShape
  <2> QED BY <2>1, <1>1, <1>5
<1>10. GoneTo(o, w, x) = GoneTo(o, w, x - 1)
                         \cup {Changed("removed", o[x].name, "")}
  BY <1>8 DEF GoneTo
<1>11. RenamedTo(o, w, x) = RenamedTo(o, w, x - 1)
  BY <1>9 DEF RenamedTo
<1> QED BY <1>6, <1>10, <1>11

\* A number that only the new list has.
LEMMA AddedStep ==
  ASSUME NEW o \in Seq(Item), NEW w \in Seq(Item), Strict(o), Strict(w),
         NEW t,
         NEW x \in 1 .. Len(o) + 1, NEW y \in 1 .. Len(w), Apart(o, w, x, y),
         x <= Len(o) => o[x].value > w[y].value
  PROVE  /\ Apart(o, w, x, y + 1)
         /\ ComeTo(t, o, w, y) = ComeTo(t, o, w, y - 1)
              \cup {Changed(Kind(t, o, w[y].value), w[y].name, "")}
         /\ Kind(t, o, w[y].value)
              = IF /\ x > Len(o) /\ t = "BITS" /\ o # <<>>
                   /\ w[y].value \div ByteSize <= o[Len(o)].value \div ByteSize
                THEN "old-byte" ELSE "added"
<1>1. /\ Len(o) \in Nat /\ Len(w) \in Nat
      /\ \A k \in 1 .. Len(o) : o[k].value \in Int
      /\ \A k \in 1 .. Len(w) : w[k].value \in Int
  BY StrictShape
<1>2. /\ \A a, b \in 1 .. Len(o) : a < b => o[a].value < o[b].value
      /\ \A a, b \in 1 .. Len(w) : a < b => w[a].value < w[b].value
  BY StrictShape
<1>3. ASSUME NEW a \in x .. Len(o) PROVE w[y].value < o[a].value
  <2>1. a \in 1 .. Len(o) /\ x \in 1 .. Len(o) /\ x <= a /\ w[y].value < o[x].value
    BY <1>1
  <2>2. x < a => o[x].value < o[a].value
    BY <2>1, <1>2
  <2> QED BY <2>1, <2>2, <1>1
<1>4. \A a \in 1 .. x - 1 : o[a].value < w[y].value
  BY <1>1 DEF Apart
<1>5. \A a \in 1 .. Len(o) : o[a].value # w[y].value
  BY <1>1, <1>3, <1>4
<1>6. Apart(o, w, x, y + 1)
  BY <1>1, <1>3 DEF Apart
<1>7. w[y].value \notin Values(o)
  BY <1>5, StrictShape
<1>8. {c \in 1 .. y : w[c].value \notin Values(o)}
        = {c \in 1 .. y - 1 : w[c].value \notin Values(o)} \cup {y}
  BY <1>1, <1>7
<1>9. ComeTo(t, o, w, y) = ComeTo(t, o, w, y - 1)
        \cup {Changed(Kind(t, o, w[y].value), w[y].name, "")}
  BY <1>8 DEF ComeTo
<1>10. ASSUME x > Len(o)
       PROVE  \A a \in 1 .. Len(o) : o[a].value < w[y].value
  BY <1>1, <1>4, <1>10
<1>11. (\A u \in Values(o) : u < w[y].value) <=> x > Len(o)
  <2>1. ASSUME x > Len(o) PROVE \A u \in Values(o) : u < w[y].value
    BY <1>10, <2>1, StrictShape
  <2>2. ASSUME ~(x > Len(o)) PROVE ~ \A u \in Values(o) : u < w[y].value
    <3>1. x \in 1 .. Len(o) /\ ~(o[x].value < w[y].value)
      BY <2>2, <1>1
    <3>2. o[x].value \in Values(o)
      BY <3>1, StrictShape
    <3> QED BY <3>1, <3>2
  <2> QED BY <2>1, <2>2
<1>12. ASSUME x > Len(o)
       PROVE  (\E u \in Values(o) : u \div ByteSize = w[y].value \div ByteSize)
              <=> /\ o # <<>>
                  /\ w[y].value \div ByteSize <= o[Len(o)].value \div ByteSize
  <2>1. ASSUME NEW u \in Values(o), u \div ByteSize = w[y].value \div ByteSize
        PROVE  /\ o # <<>>
               /\ w[y].value \div ByteSize <= o[Len(o)].value \div ByteSize
    <3>1. PICK a \in 1 .. Len(o) : u = o[a].value
      BY StrictShape
    <3>2. Len(o) \in 1 .. Len(o) /\ u \in Int /\ o[Len(o)].value \in Int
      BY <1>1, <3>1
    <3>3. u <= o[Len(o)].value
      <4>1. a < Len(o) => o[a].value < o[Len(o)].value
        BY <1>2, <3>2
      <4> QED BY <4>1, <1>1, <3>1, <3>2
    <3>4. u \div ByteSize <= o[Len(o)].value \div ByteSize
      BY <3>2, <3>3, DivMonotone
    <3>5. o # <<>>
      BY <3>2
    <3> QED BY <2>1, <3>4, <3>5
  <2>2. ASSUME o # <<>>,
               w[y].value \div ByteSize <= o[Len(o)].value \div ByteSize
        PROVE  \E u \in Values(o) : u \div ByteSize = w[y].value \div ByteSize
    <3>1. Len(o) \in 1 .. Len(o)
      BY <2>2
    <3>2. o[Len(o)].value \in Values(o)
      BY <3>1, StrictShape
    <3>3. /\ o[Len(o)].value <= w[y].value
          /\ o[Len(o)].value \in Int /\ w[y].value \in Int
      BY <3>1, <1>1, <1>10, <1>12
    <3>4. /\ o[Len(o)].value \div ByteSize <= w[y].value \div ByteSize
          /\ o[Len(o)].value \div ByteSize \in Int
          /\ w[y].value \div ByteSize \in Int
      BY <3>3, DivMonotone
    <3>5. o[Len(o)].value \div ByteSize = w[y].value \div ByteSize
      <4> DEFINE p == o[Len(o)].value \div ByteSize
                 q == w[y].value \div ByteSize
      <4>1. p \in Int /\ q \in Int /\ p <= q /\ q <= p
        BY <3>4, <2>2
      <4> HIDE DEF p, q
      <4>2. p = q
        BY <4>1
      <4> QED BY <4>2 DEF p, q
    <3> QED BY <3>2, <3>5
  <2> QED BY <2>1, <2>2
<1>13. ByteShared(t, o, w[y].value)
       <=> /\ x > Len(o) /\ t = "BITS" /\ o # <<>>
           /\ w[y].value \div ByteSize <= o[Len(o)].value \div ByteSize
  BY <1>11, <1>12 DEF ByteShared
<1> QED BY <1>6, <1>9, <1>13 DEF Kind

\* A number that both lists have.
LEMMA KeptStep ==
  ASSUME NEW o \in Seq(Item), NEW w \in Seq(Item), Strict(o), Strict(w),
         NEW t,
         NEW x \in 1 .. Len(o), NEW y \in 1 .. Len(w), Apart(o, w, x, y),
         o[x].value = w[y].value
  PROVE  /\ Apart(o, w, x + 1, y + 1)
         /\ GoneTo(o, w, x) = GoneTo(o, w, x - 1)
         /\ ComeTo(t, o, w, y) = ComeTo(t, o, w, y - 1)
         /\ RenamedTo(o, w, x)
              = IF o[x].name = w[y].name THEN RenamedTo(o, w, x - 1)
                ELSE RenamedTo(o, w, x - 1)
                     \cup {Changed("changed", o[x].name, w[y].name)}
<1>1. /\ Len(o) \in Nat /\ Len(w) \in Nat
      /\ \A k \in 1 .. Len(o) : o[k].value \in Int
      /\ \A k \in 1 .. Len(w) : w[k].value \in Int
  BY StrictShape
<1>2. /\ \A a, b \in 1 .. Len(o) : a < b => o[a].value < o[b].value
      /\ \A a, b \in 1 .. Len(w) : a < b => w[a].value < w[b].value
  BY StrictShape
<1>3. ASSUME NEW b \in 1 .. Len(w), w[b].value = o[x].value PROVE b = y
  <2>1. b < y => w[b].value < w[y].value
    BY <1>2
  <2>2. y < b => w[y].value < w[b].value
    BY <1>2
  <2> QED BY <2>1, <2>2, <1>1, <1>3
<1>4. Apart(o, w, x + 1, y + 1)
  <2>1. ASSUME NEW a \in 1 .. (x + 1) - 1, NEW b \in y + 1 .. Len(w)
        PROVE  o[a].value < w[b].value
    <3>1. /\ a \in 1 .. x /\ b \in 1 .. Len(w) /\ y < b /\ b \in y .. Len(w)
          /\ w[y].value < w[b].value
      BY <1>1, <1>2
    <3>2. a # x => a \in 1 .. x - 1 /\ o[a].value < w[b].value
      BY <3>1, <1>1 DEF Apart
    <3> QED BY <3>1, <3>2
  <2>2. ASSUME NEW a \in x + 1 .. Len(o), NEW b \in 1 .. (y + 1) - 1
        PROVE  w[b].value < o[a].value
    <3>1. /\ b \in 1 .. y /\ a \in 1 .. Len(o) /\ x < a /\ a \in x .. Len(o)
          /\ o[x].value < o[a].value
      BY <1>1, <1>2
    <3>2. b # y => b \in 1 .. y - 1 /\ w[b].value < o[a].value
      BY <3>1, <1>1 DEF Apart
    <3> QED BY <3>1, <3>2
  <2> QED BY <2>1, <2>2 DEF Apart
<1>5. o[x].value \in Values(w) /\ w[y].value \in Values(o)
  BY StrictShape
<1>6. {c \in 1 .. x : o[c].value \notin Values(w)}
        = {c \in 1 .. x - 1 : o[c].value \notin Values(w)}
  BY <1>1, <1>5
<1>7. {c \in 1 .. y : w[c].value \notin Values(o)}
        = {c \in 1 .. y - 1 : w[c].value \notin Values(o)}
  BY <1>1, <1>5
<1> DEFINE Pairs(n) == {q \in (1 .. n) \X DOMAIN w :
                          o[q[1]].value = w[q[2]].value /\ o[q[1]].name # w[q[2]].name}
           report(p) == Changed("changed", o[p[1]].name, w[p[2]].name)
<1>8. Pairs(x) = IF o[x].name = w[y].name THEN Pairs(x - 1)
                 ELSE Pairs(x - 1) \cup {<<x, y>>}
  <2>1. DOMAIN w = 1 .. Len(w)
    BY StrictShape
  <2> QED BY <2>1, <1>1, <1>3
<1>9. \A n : RenamedTo(o, w, n) = {report(p) : p \in Pairs(n)}
  BY DEF RenamedTo
<1>10. RenamedTo(o, w, x)
         = IF o[x].name = w[y].name THEN RenamedTo(o, w, x - 1)
           ELSE RenamedTo(o, w, x - 1)
                \cup {Changed("changed", o[x].name, w[y].name)}
  <2>1. report(<<x, y>>) = Changed("changed", o[x].name, w[y].name)
    OBVIOUS
  <2> DEFINE A == Pairs(x - 1)
  <2>2. CASE o[x].name = w[y].name
    BY <2>2, <1>8, <1>9
  <2>3. CASE o[x].name # w[y].name
    <3> HIDE DEF report
    <3>1. Pairs(x) = A \cup {<<x, y>>}
      BY <2>3, <1>8
    <3>2. /\ RenamedTo(o, w, x) = {report(p) : p \in Pairs(x)}
          /\ RenamedTo(o, w, x - 1) = {report(p) : p \in A}
      BY <1>9
    <3> HIDE DEF A, Pairs
    <3>3. RenamedTo(o, w, x) = RenamedTo(o, w, x - 1) \cup {report(<<x, y>>)}
      BY <3>1, <3>2
    <3> QED BY <3>3, <2>1, <2>3
  <2> QED BY <2>2, <2>3
<1> QED BY <1>4, <1>6, <1>7, <1>10 DEF GoneTo, ComeTo

-----------------------------------------------------------------------------
(***************************************************************************)
(* The invariant of the comparison: what is reported is what the passed    *)
(* parts of both lists differ in, and the two parts end at the same value. *)
(***************************************************************************)
\* Types of nodes with different basetypes are not compared any further.
GivenUp == use = "node" /\ Other # {}

MergedSoFar ==
  /\ i \in 1 .. Len(Old) + 1 /\ j \in 1 .. Len(New) + 1
  /\ Apart(Old, New, i, j)
  /\ reports = Other \cup GoneTo(Old, New, i - 1)
                     \cup ComeTo(basetype, Old, New, j - 1)
                     \cup RenamedTo(Old, New, i - 1)

MInv ==
  /\ phase \in {"old", "new", "merge", "end"}
  /\ old.list \in Seq(Item) /\ Sorted(Old, Len(Old))
  /\ phase \in {"old", "new"} => reports = {}
  /\ phase \in {"merge", "end"} => st = "done"
  /\ phase = "merge" => ~GivenUp
  /\ (phase = "end" /\ GivenUp) => reports = Other
  /\ (phase \in {"merge", "end"} /\ ~GivenUp /\ Distinct(Old) /\ Distinct(New))
       => MergedSoFar
  /\ (phase = "end" /\ ~GivenUp /\ Distinct(Old) /\ Distinct(New))
       => i = Len(Old) + 1 /\ j = Len(New) + 1

\* What the parser gives of a list it has read is sorted.
LEMMA NewShape ==
  ASSUME NInv
  PROVE  New \in Seq(Item) /\ (st = "done" => Sorted(New, Len(New)))
<1>1. NumbersTypeOK /\ PassedSorted
  BY DEF NInv
<1>2. CASE basetype = "UNKNOWN"
  BY <1>2 DEF New, Given, Sorted
<1>3. CASE basetype # "UNKNOWN"
  <2>1. New = list
    BY <1>3 DEF New, Given
  <2>2. st = "done" => Sorted(list, Len(list))
    BY <1>1, <1>3, Shape DEF PassedSorted, Sorted
  <2> QED BY <2>1, <2>2, <1>1, Shape
<1> QED BY <1>2, <1>3

LEMMA OldShape ==
  ASSUME MInv
  PROVE  Old \in Seq(Item)
  BY DEF MInv, Old, Given

\* The lists that are merged do not change under it.
LEMMA ListsStill ==
  ASSUME UNCHANGED <<numbers, old>>
  PROVE  /\ Old' = Old /\ New' = New /\ Other' = Other
         /\ basetype' = basetype /\ st' = st /\ old' = old
<1>1. basetype' = basetype /\ list' = list /\ st' = st /\ old' = old
  BY DEF numbers
<1> QED BY <1>1 DEF Old, New, Given, Other

LEMMA MergeLists ==
  ASSUME NInv, MInv, phase = "merge", Distinct(Old), Distinct(New)
  PROVE  /\ Old \in Seq(Item) /\ New \in Seq(Item) /\ Strict(Old) /\ Strict(New)
         /\ Len(Old) \in Nat /\ Len(New) \in Nat
         /\ i \in 1 .. Len(Old) + 1 /\ j \in 1 .. Len(New) + 1
         /\ Apart(Old, New, i, j)
         /\ reports = Other \cup GoneTo(Old, New, i - 1)
                            \cup ComeTo(basetype, Old, New, j - 1)
                            \cup RenamedTo(Old, New, i - 1)
<1>1. Old \in Seq(Item) /\ New \in Seq(Item)
  BY NewShape, OldShape
<1>2. Sorted(Old, Len(Old)) /\ Sorted(New, Len(New))
  BY NewShape DEF MInv
<1>3. Strict(Old) /\ Strict(New)
  BY <1>1, <1>2, StrictSorted
<1>4. Len(Old) \in Nat /\ Len(New) \in Nat
  BY <1>1
<1>5. MergedSoFar
  BY DEF MInv
<1> QED BY <1>1, <1>3, <1>4, <1>5 DEF MergedSoFar

LEMMA NextPlace ==
  ASSUME NEW l \in Nat, NEW x \in 1 .. l + 1, x <= l
  PROVE  x \in 1 .. l /\ x + 1 \in 1 .. l + 1 /\ (x + 1) - 1 = x
  OBVIOUS

\* A step of the merge keeps all but the progress.
LEMMA MergeFrame ==
  ASSUME NInv, MInv, phase = "merge", UnchangedBut,
         (Distinct(Old) /\ Distinct(New)) => MergedSoFar'
  PROVE  MInv'
<1>1. /\ Old' = Old /\ New' = New /\ Other' = Other /\ st' = st /\ old' = old
      /\ phase' = phase /\ use' = use
  BY ListsStill DEF UnchangedBut
<1>2. GivenUp' = GivenUp
  BY <1>1 DEF GivenUp
<1> QED BY <1>1, <1>2 DEF MInv, Sorted, Distinct

LEMMA RemovedKeeps == NInv /\ MInv /\ Removed => MInv'
<1> SUFFICES ASSUME NInv, MInv, Removed PROVE MInv'
  OBVIOUS
<1>1. /\ phase = "merge" /\ i <= Len(Old) /\ UnchangedBut
      /\ j <= Len(New) => Old[i].value < New[j].value
      /\ reports' = reports \cup {Changed("removed", Old[i].name, "")}
      /\ i' = i + 1 /\ j' = j
  BY DEF Removed, Merging
<1>2. ASSUME Distinct(Old), Distinct(New) PROVE MergedSoFar'
  <2>1. /\ Old \in Seq(Item) /\ New \in Seq(Item) /\ Strict(Old) /\ Strict(New)
        /\ Len(Old) \in Nat /\ Len(New) \in Nat
        /\ i \in 1 .. Len(Old) + 1 /\ j \in 1 .. Len(New) + 1
        /\ Apart(Old, New, i, j)
        /\ reports = Other \cup GoneTo(Old, New, i - 1)
                           \cup ComeTo(basetype, Old, New, j - 1)
                           \cup RenamedTo(Old, New, i - 1)
    BY <1>1, <1>2, MergeLists
  <2>2. i \in 1 .. Len(Old) /\ i + 1 \in 1 .. Len(Old) + 1 /\ (i + 1) - 1 = i
    <3>1. i <= Len(Old)
      BY <1>1
    <3> QED BY <3>1, <2>1, NextPlace
  <2>3. /\ Apart(Old, New, i + 1, j)
        /\ GoneTo(Old, New, i) = GoneTo(Old, New, i - 1)
                                 \cup {Changed("removed", Old[i].name, "")}
        /\ RenamedTo(Old, New, i) = RenamedTo(Old, New, i - 1)
    BY <2>1, <2>2, <1>1, RemovedStep
  <2>4. /\ Old' = Old /\ New' = New /\ Other' = Other /\ basetype' = basetype
    BY <1>1, ListsStill DEF UnchangedBut
  <2>5. /\ i' \in 1 .. Len(Old') + 1 /\ j' \in 1 .. Len(New') + 1
        /\ Apart(Old', New', i', j')
    BY <2>1, <2>2, <2>3, <2>4, <1>1
  <2>6. reports' = Other \cup GoneTo(Old, New, i) \cup ComeTo(basetype, Old, New, j - 1)
                         \cup RenamedTo(Old, New, i)
    BY <2>1, <2>3, <1>1
  <2> QED BY <2>2, <2>4, <2>5, <2>6, <1>1 DEF MergedSoFar
<1> QED BY <1>1, <1>2, MergeFrame

LEMMA AddedKeeps == NInv /\ MInv /\ Added => MInv'
<1> SUFFICES ASSUME NInv, MInv, Added PROVE MInv'
  OBVIOUS
<1> DEFINE k == IF i > Len(Old) /\ basetype = "BITS" /\ OldByte(New[j].value)
                THEN "old-byte" ELSE "added"
<1>1. /\ phase = "merge" /\ j <= Len(New) /\ UnchangedBut
      /\ i <= Len(Old) => Old[i].value > New[j].value
      /\ reports' = reports \cup {Changed(k, New[j].name, "")}
      /\ j' = j + 1 /\ i' = i
  BY DEF Added, Merging
<1>2. ASSUME Distinct(Old), Distinct(New) PROVE MergedSoFar'
  <2>1. /\ Old \in Seq(Item) /\ New \in Seq(Item) /\ Strict(Old) /\ Strict(New)
        /\ Len(Old) \in Nat /\ Len(New) \in Nat
        /\ i \in 1 .. Len(Old) + 1 /\ j \in 1 .. Len(New) + 1
        /\ Apart(Old, New, i, j)
        /\ reports = Other \cup GoneTo(Old, New, i - 1)
                           \cup ComeTo(basetype, Old, New, j - 1)
                           \cup RenamedTo(Old, New, i - 1)
    BY <1>1, <1>2, MergeLists
  <2>2. j \in 1 .. Len(New) /\ j + 1 \in 1 .. Len(New) + 1 /\ (j + 1) - 1 = j
    <3>1. j <= Len(New)
      BY <1>1
    <3> QED BY <3>1, <2>1, NextPlace
  <2>3. /\ Apart(Old, New, i, j + 1)
        /\ ComeTo(basetype, Old, New, j) = ComeTo(basetype, Old, New, j - 1)
             \cup {Changed(Kind(basetype, Old, New[j].value), New[j].name, "")}
        /\ Kind(basetype, Old, New[j].value)
             = IF /\ i > Len(Old) /\ basetype = "BITS" /\ Old # <<>>
                  /\ New[j].value \div ByteSize <= Old[Len(Old)].value \div ByteSize
               THEN "old-byte" ELSE "added"
    BY <2>1, <2>2, <1>1, AddedStep
  <2>4. k = Kind(basetype, Old, New[j].value)
    BY <2>3 DEF OldByte
  <2> HIDE DEF k
  <2>5. /\ Old' = Old /\ New' = New /\ Other' = Other /\ basetype' = basetype
    BY <1>1, ListsStill DEF UnchangedBut
  <2>6. /\ i' \in 1 .. Len(Old') + 1 /\ j' \in 1 .. Len(New') + 1
        /\ Apart(Old', New', i', j')
    BY <2>1, <2>2, <2>3, <2>5, <1>1
  <2>7. reports' = Other \cup GoneTo(Old, New, i - 1) \cup ComeTo(basetype, Old, New, j)
                         \cup RenamedTo(Old, New, i - 1)
    BY <2>1, <2>3, <2>4, <1>1
  <2> QED BY <2>2, <2>5, <2>6, <2>7, <1>1 DEF MergedSoFar
<1> QED BY <1>1, <1>2, MergeFrame

LEMMA KeptKeeps == NInv /\ MInv /\ Kept => MInv'
<1> SUFFICES ASSUME NInv, MInv, Kept PROVE MInv'
  OBVIOUS
<1>1. /\ phase = "merge" /\ i <= Len(Old) /\ j <= Len(New) /\ UnchangedBut
      /\ Old[i].value = New[j].value
      /\ reports' = IF Old[i].name = New[j].name THEN reports
                    ELSE reports \cup {Changed("changed", Old[i].name, New[j].name)}
      /\ i' = i + 1 /\ j' = j + 1
  BY DEF Kept, Merging, Both, Passed
<1>2. ASSUME Distinct(Old), Distinct(New) PROVE MergedSoFar'
  <2>1. /\ Old \in Seq(Item) /\ New \in Seq(Item) /\ Strict(Old) /\ Strict(New)
        /\ Len(Old) \in Nat /\ Len(New) \in Nat
        /\ i \in 1 .. Len(Old) + 1 /\ j \in 1 .. Len(New) + 1
        /\ Apart(Old, New, i, j)
        /\ reports = Other \cup GoneTo(Old, New, i - 1)
                           \cup ComeTo(basetype, Old, New, j - 1)
                           \cup RenamedTo(Old, New, i - 1)
    BY <1>1, <1>2, MergeLists
  <2>2. /\ i \in 1 .. Len(Old) /\ i + 1 \in 1 .. Len(Old) + 1 /\ (i + 1) - 1 = i
        /\ j \in 1 .. Len(New) /\ j + 1 \in 1 .. Len(New) + 1 /\ (j + 1) - 1 = j
    <3>1. i <= Len(Old) /\ j <= Len(New)
      BY <1>1
    <3> QED BY <3>1, <2>1, NextPlace
  <2>3. /\ Apart(Old, New, i + 1, j + 1)
        /\ GoneTo(Old, New, i) = GoneTo(Old, New, i - 1)
        /\ ComeTo(basetype, Old, New, j) = ComeTo(basetype, Old, New, j - 1)
        /\ RenamedTo(Old, New, i)
             = IF Old[i].name = New[j].name THEN RenamedTo(Old, New, i - 1)
               ELSE RenamedTo(Old, New, i - 1)
                    \cup {Changed("changed", Old[i].name, New[j].name)}
    <3>1. Old[i].value = New[j].value
      BY <1>1
    <3> QED BY <3>1, <2>1, <2>2, KeptStep
  <2>4. /\ Old' = Old /\ New' = New /\ Other' = Other /\ basetype' = basetype
    BY <1>1, ListsStill DEF UnchangedBut
  <2>5. /\ i' \in 1 .. Len(Old') + 1 /\ j' \in 1 .. Len(New') + 1
        /\ Apart(Old', New', i', j')
    BY <2>1, <2>2, <2>3, <2>4, <1>1
  <2>6. reports' = Other \cup GoneTo(Old, New, i) \cup ComeTo(basetype, Old, New, j)
                         \cup RenamedTo(Old, New, i)
    BY <2>1, <2>3, <1>1
  <2> QED BY <2>2, <2>4, <2>5, <2>6, <1>1 DEF MergedSoFar
<1> QED BY <1>1, <1>2, MergeFrame

\* Nothing is passed when the merge begins.
LEMMA NothingPassed ==
  ASSUME NEW o, NEW w, NEW t
  PROVE  /\ Apart(o, w, 1, 1)
         /\ GoneTo(o, w, 1 - 1) = {} /\ ComeTo(t, o, w, 1 - 1) = {}
         /\ RenamedTo(o, w, 1 - 1) = {}
<1>1. 1 .. 1 - 1 = {}
  OBVIOUS
<1>2. Apart(o, w, 1, 1)
  BY <1>1 DEF Apart
<1>3. GoneTo(o, w, 1 - 1) = {} /\ ComeTo(t, o, w, 1 - 1) = {}
  BY <1>1 DEF GoneTo, ComeTo
<1>4. RenamedTo(o, w, 1 - 1) = {}
  BY <1>1 DEF RenamedTo
<1> QED BY <1>2, <1>3, <1>4

LEMMA CompareKeeps == NInv /\ MInv /\ Compare => MInv'
<1> SUFFICES ASSUME NInv, MInv, Compare PROVE MInv'
  OBVIOUS
<1>1. PICK u \in {"type", "node"} :
        /\ use' = u
        /\ IF old.basetype = basetype
           THEN phase' = "merge" /\ UNCHANGED reports
           ELSE /\ phase' = IF u = "node" THEN "end" ELSE "merge"
                /\ reports' = {Basetypes}
  BY DEF Compare
<1>2. /\ phase = "new" /\ st = "done" /\ reports = {} /\ i' = 1 /\ j' = 1
      /\ UNCHANGED <<numbers, old>>
  BY DEF Compare, MInv
<1>3. /\ Old' = Old /\ New' = New /\ Other' = Other /\ st' = "done" /\ old' = old
      /\ basetype' = basetype
  BY <1>2, ListsStill
<1>4. reports' = Other
  BY <1>1, <1>2 DEF Other
<1>5. /\ phase' \in {"merge", "end"}
      /\ phase' = "end" <=> GivenUp'
  BY <1>1, <1>3 DEF GivenUp, Other
<1>6. Len(Old) \in Nat /\ Len(New) \in Nat
  BY OldShape, NewShape
<1>7. i' \in 1 .. Len(Old') + 1 /\ j' \in 1 .. Len(New') + 1
  BY <1>2, <1>3, <1>6
<1>8. Apart(Old', New', i', j')
  BY <1>2, NothingPassed
<1>9. reports' = Other' \cup GoneTo(Old', New', i' - 1)
                        \cup ComeTo(basetype', Old', New', j' - 1)
                        \cup RenamedTo(Old', New', i' - 1)
  BY <1>2, <1>3, <1>4, NothingPassed
<1>10. MergedSoFar'
  BY <1>7, <1>8, <1>9 DEF MergedSoFar
<1>11. old'.list \in Seq(Item) /\ Sorted(Old', Len(Old'))
  BY <1>3 DEF MInv
<1> QED BY <1>3, <1>4, <1>5, <1>10, <1>11 DEF MInv

LEMMA LoadNewKeepsMerge == NInv /\ MInv /\ LoadNew => MInv'
<1> SUFFICES ASSUME NInv, MInv, LoadNew PROVE MInv'
  OBVIOUS
<1>1. /\ phase = "old" /\ st = "done" /\ phase' = "new" /\ reports' = reports
      /\ old' = [basetype |-> basetype, list |-> list]
  BY DEF LoadNew
<1>2. Old' = New
  BY <1>1 DEF Old, New
<1>3. Sorted(Old', Len(Old'))
  BY <1>1, <1>2, NewShape
<1>4. old'.list \in Seq(Item)
  <2>1. list \in Seq(Item)
    BY DEF NInv, NumbersTypeOK
  <2> QED BY <1>1, <2>1
<1>5. reports' = {}
  BY <1>1 DEF MInv
<1> QED BY <1>1, <1>3, <1>4, <1>5 DEF MInv

LEMMA EndOfMergeKeeps == NInv /\ MInv /\ EndOfMerge => MInv'
<1> SUFFICES ASSUME NInv, MInv, EndOfMerge PROVE MInv'
  OBVIOUS
<1>1. /\ phase = "merge" /\ phase' = "end" /\ ~(i <= Len(Old) \/ j <= Len(New))
      /\ UNCHANGED <<numbers, old>> /\ use' = use /\ i' = i /\ j' = j
      /\ reports' = reports
  BY DEF EndOfMerge, Merging
<1>2. /\ Old' = Old /\ New' = New /\ Other' = Other /\ st' = st /\ old' = old
      /\ basetype' = basetype
  BY <1>1, ListsStill
<1>3. GivenUp' = GivenUp /\ MergedSoFar' = MergedSoFar
  BY <1>1, <1>2 DEF GivenUp, MergedSoFar
<1>4. /\ st = "done" /\ ~GivenUp
      /\ old.list \in Seq(Item) /\ Sorted(Old, Len(Old))
      /\ (Distinct(Old) /\ Distinct(New)) => MergedSoFar
  BY <1>1 DEF MInv
<1>5. ASSUME Distinct(Old), Distinct(New)
      PROVE  i = Len(Old) + 1 /\ j = Len(New) + 1
  <2>1. /\ Len(Old) \in Nat /\ Len(New) \in Nat
        /\ i \in 1 .. Len(Old) + 1 /\ j \in 1 .. Len(New) + 1
    BY <1>1, <1>5, MergeLists
  <2>2. ~(i <= Len(Old)) /\ ~(j <= Len(New))
    BY <1>1
  <2> QED BY <2>1, <2>2
<1>6. /\ old'.list \in Seq(Item) /\ Sorted(Old', Len(Old'))
      /\ Distinct(Old') = Distinct(Old) /\ Distinct(New') = Distinct(New)
  BY <1>2, <1>4
<1>7. (Distinct(Old') /\ Distinct(New')) =>
        MergedSoFar' /\ i' = Len(Old') + 1 /\ j' = Len(New') + 1
  BY <1>1, <1>2, <1>3, <1>4, <1>5, <1>6
<1> QED BY <1>1, <1>2, <1>3, <1>4, <1>6, <1>7 DEF MInv

\* The parser and the comparison do not overlap.
LEMMA ReadingKeepsMerge ==
  NInv /\ MInv /\ NumbersNext /\ UNCHANGED diff => MInv'
<1> SUFFICES ASSUME NInv, MInv, NumbersNext, UNCHANGED diff PROVE MInv'
  OBVIOUS
<1>1. st # "done"
  BY DEF NumbersNext, CheckFirstBit, KeepNumber, ReinsertNumber, RunOff,
         EndOfOrder, CheckNumbers
<1>2. /\ phase' = phase /\ old' = old /\ reports' = reports
      /\ phase \in {"old", "new"}
  BY <1>1 DEF diff, MInv
<1>3. Old' = Old
  BY <1>2 DEF Old
<1> QED BY <1>2, <1>3 DEF MInv

LEMMA StillKeepsMerge == NInv /\ MInv /\ UNCHANGED vars => MInv'
<1> SUFFICES ASSUME NInv, MInv, UNCHANGED vars PROVE MInv'
  OBVIOUS
<1>1. /\ UNCHANGED <<numbers, old>> /\ phase' = phase /\ use' = use /\ i' = i
      /\ j' = j /\ reports' = reports
  BY DEF vars, diff
<1>2. /\ Old' = Old /\ New' = New /\ Other' = Other /\ st' = st /\ old' = old
      /\ basetype' = basetype
  BY <1>1, ListsStill
<1>3. GivenUp' = GivenUp /\ MergedSoFar' = MergedSoFar
  BY <1>1, <1>2 DEF GivenUp, MergedSoFar
<1>4. Distinct(Old') = Distinct(Old) /\ Distinct(New') = Distinct(New)
  BY <1>2
<1> QED BY <1>1, <1>2, <1>3, <1>4 DEF MInv

LEMMA InitKeepsMerge == Init => MInv
<1> SUFFICES ASSUME Init PROVE MInv
  OBVIOUS
<1>1. phase = "old" /\ old = NoType /\ reports = {}
  BY DEF Init
<1>2. Old = <<>> /\ old.list = <<>>
  BY <1>1 DEF Old, Given, NoType
<1>3. Sorted(Old, Len(Old)) /\ old.list \in Seq(Item)
  BY <1>2 DEF Sorted
<1> QED BY <1>1, <1>3 DEF MInv

LEMMA MergeInvariant == Spec => [](NInv /\ MInv)
<1>1. Init => NInv /\ MInv
  BY InitKeeps, InitKeepsMerge
<1>2. NInv /\ MInv /\ [Next]_vars => (NInv /\ MInv)'
  <2> SUFFICES ASSUME NInv, MInv, [Next]_vars PROVE MInv'
    BY NextKeeps
  <2>1. CASE NumbersNext /\ UNCHANGED diff
    BY <2>1, ReadingKeepsMerge
  <2>2. CASE LoadNew
    BY <2>2, LoadNewKeepsMerge
  <2>3. CASE Compare
    BY <2>3, CompareKeeps
  <2>4. CASE Removed
    BY <2>4, RemovedKeeps
  <2>5. CASE Added
    BY <2>5, AddedKeeps
  <2>6. CASE Kept
    BY <2>6, KeptKeeps
  <2>7. CASE EndOfMerge
    BY <2>7, EndOfMergeKeeps
  <2>8. CASE UNCHANGED vars
    BY <2>8, StillKeepsMerge
  <2> QED BY <2>1, <2>2, <2>3, <2>4, <2>5, <2>6, <2>7, <2>8 DEF Next
<1> QED BY <1>1, <1>2, PTL DEF Spec

\* At the end of both lists the parts that have been passed are the whole lists.
LEMMA AllPassed ==
  ASSUME Old \in Seq(Item), New \in Seq(Item)
  PROVE  /\ GoneTo(Old, New, Len(Old)) = Gone
         /\ ComeTo(basetype, Old, New, Len(New)) = Come({x \in Fresh : Overlooked(x)})
         /\ RenamedTo(Old, New, Len(Old)) = Renamed
<1>1. /\ DOMAIN Old = 1 .. Len(Old) /\ DOMAIN New = 1 .. Len(New)
  BY ListShape
<1>2. GoneTo(Old, New, Len(Old)) = Gone
  BY <1>1 DEF GoneTo, Gone, ItemsOf
<1> DEFINE plain == {x \in Fresh : Overlooked(x)}
\* A new bit in an old byte is overlooked unless all old bits are below it.
<1>3. ASSUME NEW x \in Fresh
      PROVE  (InOldByte(x) /\ x \notin plain) <=> ByteShared(basetype, Old, x.value)
  <2>1. x \in Item /\ x.value \in Int /\ x.value \notin Values(Old)
    <3>1. PICK b \in 1 .. Len(New) : x = New[b]
      BY <1>1 DEF Fresh, ItemsOf
    <3>2. New[b] \in Item
      OBVIOUS
    <3> QED BY <3>1, <3>2 DEF Fresh, Item
  <2>2. \A v \in Values(Old) : v \in Int
    <3>1. \A a \in 1 .. Len(Old) : Old[a] \in Item
      OBVIOUS
    <3> QED BY <1>1, <3>1 DEF Values, Item
  <2>3. (~ \E v \in Values(Old) : v > x.value) <=> \A v \in Values(Old) : v < x.value
    BY <2>1, <2>2
  <2> QED BY <2>3 DEF InOldByte, Overlooked, ByteShared
<1>4. ComeTo(basetype, Old, New, Len(New)) = Come(plain)
  <2>1. \A b \in {c \in 1 .. Len(New) : New[c].value \notin Values(Old)} : New[b] \in Fresh
    BY <1>1 DEF Fresh, ItemsOf
  <2>2. \A x \in Fresh : \E b \in {c \in 1 .. Len(New) : New[c].value \notin Values(Old)} :
                           New[b] = x
    BY <1>1 DEF Fresh, ItemsOf
  <2>3. \A x \in Fresh : Kind(basetype, Old, x.value) =
                           IF InOldByte(x) /\ x \notin plain THEN "old-byte" ELSE "added"
    BY <1>3 DEF Kind
  <2> QED BY <2>1, <2>2, <2>3 DEF ComeTo, Come
<1>5. RenamedTo(Old, New, Len(Old)) = Renamed
  <2>1. ASSUME NEW r \in RenamedTo(Old, New, Len(Old)) PROVE r \in Renamed
    <3>1. PICK a \in DOMAIN Old, b \in DOMAIN New :
            /\ Old[a].value = New[b].value /\ Old[a].name # New[b].name
            /\ r = Changed("changed", Old[a].name, New[b].name)
      BY <1>1 DEF RenamedTo
    <3>2. <<Old[a], New[b]>> \in {q \in ItemsOf(Old) \X ItemsOf(New) :
                                    q[1].value = q[2].value /\ q[1].name # q[2].name}
      BY <3>1 DEF ItemsOf
    <3> QED BY <3>1, <3>2 DEF Renamed
  <2>2. ASSUME NEW r \in Renamed PROVE r \in RenamedTo(Old, New, Len(Old))
    <3>1. PICK a \in DOMAIN Old, b \in DOMAIN New :
            /\ Old[a].value = New[b].value /\ Old[a].name # New[b].name
            /\ r = Changed("changed", Old[a].name, New[b].name)
      BY DEF Renamed, ItemsOf
    <3>2. <<a, b>> \in {q \in (1 .. Len(Old)) \X DOMAIN New :
                          /\ Old[q[1]].value = New[q[2]].value
                          /\ Old[q[1]].name # New[q[2]].name}
      BY <3>1, <1>1
    <3> QED BY <3>1, <3>2 DEF RenamedTo
  <2> QED BY <2>1, <2>2
<1> QED BY <1>2, <1>4, <1>5

\* smidiff reports of the named numbers of two types what differs, all of it and
\* nothing else but for the bits that it overlooks, however many there are and in whatever order they are written.
THEOREM Exact == Spec => []DifferencesExact
<1>1. NInv /\ MInv => DifferencesExact
  <2> SUFFICES ASSUME NInv, MInv, phase = "end", Distinct(Old), Distinct(New)
               PROVE  IF use = "node" /\ Other # {} THEN reports = Other
                      ELSE \E plain \in SUBSET {x \in Fresh : Overlooked(x)} :
                             reports = Other \cup Gone \cup Come(plain) \cup Renamed
    BY DEF DifferencesExact
  <2>1. CASE GivenUp
    BY <2>1 DEF MInv, GivenUp
  <2>2. CASE ~GivenUp
    <3>1. MergedSoFar /\ i = Len(Old) + 1 /\ j = Len(New) + 1
      BY <2>2 DEF MInv
    <3>2. /\ Old \in Seq(Item) /\ New \in Seq(Item)
          /\ Len(Old) \in Nat /\ Len(New) \in Nat
      BY OldShape, NewShape
    <3>3. i - 1 = Len(Old) /\ j - 1 = Len(New)
      BY <3>1, <3>2
    <3>4. reports = Other \cup GoneTo(Old, New, Len(Old))
                          \cup ComeTo(basetype, Old, New, Len(New))
                          \cup RenamedTo(Old, New, Len(Old))
      BY <3>1, <3>3 DEF MergedSoFar
    <3>5. /\ GoneTo(Old, New, Len(Old)) = Gone
          /\ ComeTo(basetype, Old, New, Len(New)) = Come({x \in Fresh : Overlooked(x)})
          /\ RenamedTo(Old, New, Len(Old)) = Renamed
      BY <3>2, AllPassed
    <3> QED BY <3>4, <3>5, <2>2 DEF GivenUp
  <2> QED BY <2>1, <2>2
<1> QED BY <1>1, MergeInvariant, PTL
-----------------------------------------------------------------------------
(***************************************************************************)
(* What is reported of one list.  The checks at the end see the sorted     *)
(* list; what they tell of it holds of the list as it was written because  *)
(* moving an item changes neither which items there are nor which names    *)
(* and numbers occur twice.  As long as nothing was found out of order the *)
(* list is the one that was written, and the first item that does not stay *)
(* is a number that is not greater than its neighbour.                     *)
(***************************************************************************)
NameTwice(s, n) ==
  \E a, b \in DOMAIN s : a # b /\ s[a].name = n /\ s[b].name = n
NumberTwice(s, v) ==
  \E a, b \in DOMAIN s : a # b /\ s[a].value = v /\ s[b].value = v
SameTwice(s, t) == /\ \A n : NameTwice(s, n) <=> NameTwice(t, n)
                   /\ \A v : NumberTwice(s, v) <=> NumberTwice(t, v)

\* Among the first n numbers one is not greater than the one before it.
Descends(s, n) == \E k \in 1 .. n - 1 : s[k].value >= s[k + 1].value
NoZero(s)      == \A k \in DOMAIN s : s[k].value # 0

OrderJudged ==
  /\ errors \subseteq {ZeroNotNamed, NotAscending}
  /\ ZeroNotNamed \in errors <=> (basetype = "BITS" /\ NoZero(text.list))
  /\ NotAscending \in errors <=> Descends(text.list, pos)
  /\ NotAscending \notin errors => list = text.list

JInv ==
  /\ SameTwice(list, text.list)
  /\ st = "read" => errors = {} /\ list = text.list /\ pos = 0
  /\ st = "order" => basetype # "UNKNOWN"
  /\ (st = "check" /\ basetype # "UNKNOWN") => pos = Len(list)
  /\ (st \in {"order", "check"} /\ basetype # "UNKNOWN") => OrderJudged
  /\ NumbersJudged

\* Moving an item moves each pair of equal ones.
LEMMA ShiftSameTwice ==
  ASSUME NEW s \in Seq(Item), NEW n \in Nat, n < Len(s), NEW p \in 1 .. n + 1
  PROVE  SameTwice(Shift(s, n, p), s)
<1> DEFINE m == Shift(s, n, p)
<1>1. DOMAIN s = 1 .. Len(s) /\ Len(s) \in Nat
  OBVIOUS
<1>2. /\ \A k \in 1 .. Len(s) : Source(n, p, k) \in 1 .. Len(s)
      /\ \A a, b \in 1 .. Len(s) : a # b => Source(n, p, a) # Source(n, p, b)
      /\ \A k \in 1 .. Len(s) : \E a \in 1 .. Len(s) : Source(n, p, a) = k
  BY <1>1, SourceOneToOne
<1>3. DOMAIN m = 1 .. Len(s) /\ \A k \in 1 .. Len(s) : m[k] = s[Source(n, p, k)]
  BY <1>1 DEF Shift
<1> HIDE DEF m
<1>4. ASSUME NEW x PROVE NameTwice(m, x) <=> NameTwice(s, x)
  <2>1. ASSUME NameTwice(m, x) PROVE NameTwice(s, x)
    <3>1. PICK a \in 1 .. Len(s), b \in 1 .. Len(s) :
            a # b /\ m[a].name = x /\ m[b].name = x
      BY <2>1, <1>3 DEF NameTwice
    <3>2. PICK c \in 1 .. Len(s), d \in 1 .. Len(s) :
            c = Source(n, p, a) /\ d = Source(n, p, b)
      BY <1>2
    <3>3. c # d /\ s[c] = m[a] /\ s[d] = m[b]
      BY <3>1, <3>2, <1>2, <1>3
    <3> QED BY <3>1, <3>3, <1>1 DEF NameTwice
  <2>2. ASSUME NameTwice(s, x) PROVE NameTwice(m, x)
    <3>1. PICK a \in 1 .. Len(s), b \in 1 .. Len(s) :
            a # b /\ s[a].name = x /\ s[b].name = x
      BY <2>2, <1>1 DEF NameTwice
    <3>2. PICK c \in 1 .. Len(s), d \in 1 .. Len(s) :
            Source(n, p, c) = a /\ Source(n, p, d) = b
      BY <1>2
    <3>3. c # d /\ m[c] = s[a] /\ m[d] = s[b]
      BY <3>1, <3>2, <1>3
    <3> QED BY <3>1, <3>3, <1>3 DEF NameTwice
  <2> QED BY <2>1, <2>2
<1>5. ASSUME NEW x PROVE NumberTwice(m, x) <=> NumberTwice(s, x)
  <2>1. ASSUME NumberTwice(m, x) PROVE NumberTwice(s, x)
    <3>1. PICK a \in 1 .. Len(s), b \in 1 .. Len(s) :
            a # b /\ m[a].value = x /\ m[b].value = x
      BY <2>1, <1>3 DEF NumberTwice
    <3>2. PICK c \in 1 .. Len(s), d \in 1 .. Len(s) :
            c = Source(n, p, a) /\ d = Source(n, p, b)
      BY <1>2
    <3>3. c # d /\ s[c] = m[a] /\ s[d] = m[b]
      BY <3>1, <3>2, <1>2, <1>3
    <3> QED BY <3>1, <3>3, <1>1 DEF NumberTwice
  <2>2. ASSUME NumberTwice(s, x) PROVE NumberTwice(m, x)
    <3>1. PICK a \in 1 .. Len(s), b \in 1 .. Len(s) :
            a # b /\ s[a].value = x /\ s[b].value = x
      BY <2>2, <1>1 DEF NumberTwice
    <3>2. PICK c \in 1 .. Len(s), d \in 1 .. Len(s) :
            Source(n, p, c) = a /\ Source(n, p, d) = b
      BY <1>2
    <3>3. c # d /\ m[c] = s[a] /\ m[d] = s[b]
      BY <3>1, <3>2, <1>3
    <3> QED BY <3>1, <3>3, <1>3 DEF NumberTwice
  <2> QED BY <2>1, <2>2
<1> QED BY <1>4, <1>5 DEF SameTwice, m

\* The reports tell apart what they are about.
LEMMA MessagesApart ==
  /\ ZeroNotNamed # NotAscending
  /\ \A n, v : /\ Message("name-redefinition", n, 0) \notin {ZeroNotNamed, NotAscending}
               /\ Message("number-redefinition", "", v) \notin {ZeroNotNamed, NotAscending}
               /\ Message("subtype", n, v) \notin {ZeroNotNamed, NotAscending}
               /\ Message("name-redefinition", n, 0) # Message("number-redefinition", "", v)
  /\ \A n, m, v : Message("name-redefinition", n, 0) # Message("subtype", m, v)
  /\ \A n, u, v : Message("number-redefinition", "", u) # Message("subtype", n, v)
  /\ \A n, m : Message("name-redefinition", n, 0) = Message("name-redefinition", m, 0) => n = m
  /\ \A u, v : Message("number-redefinition", "", u) = Message("number-redefinition", "", v)
                 => u = v
  /\ \A n, m, u, v : Message("subtype", n, u) = Message("subtype", m, v) => n = m /\ u = v
  BY DEF Message, ZeroNotNamed, NotAscending

LEMMA FirstBitJudged == NInv /\ JInv /\ CheckFirstBit => JInv'
<1> SUFFICES ASSUME NInv, JInv, CheckFirstBit PROVE JInv'
  OBVIOUS
<1>1. /\ st = "read" /\ errors = {} /\ list = text.list /\ pos = 0
      /\ text' = text /\ basetype' = basetype /\ list' = list /\ pos' = pos
      /\ st' = IF basetype = "UNKNOWN" THEN "check" ELSE "order"
      /\ errors' = IF basetype = "BITS" /\ ~ZeroNamed
                   THEN errors \cup {ZeroNotNamed} ELSE errors
  BY DEF CheckFirstBit, JInv
<1>2. SameTwice(list', text'.list)
  BY <1>1 DEF JInv
<1>3. OrderJudged'
  <2>1. ~ZeroNamed <=> NoZero(text.list)
    BY <1>1 DEF ZeroNamed, NoZero
  <2>2. ~Descends(text.list, 0)
    BY DEF Descends
  <2>3. /\ errors' \subseteq {ZeroNotNamed, NotAscending}
        /\ ZeroNotNamed \in errors' <=> (basetype = "BITS" /\ NoZero(text.list))
        /\ NotAscending \notin errors'
    BY <2>1, <1>1, MessagesApart
  <2> QED BY <2>2, <2>3, <1>1 DEF OrderJudged
<1>4. NumbersJudged'
  BY <1>1 DEF NumbersJudged
<1> QED BY <1>1, <1>2, <1>3, <1>4 DEF JInv

\* What the next number says of the order of those before it.
LEMMA DescendsNext ==
  ASSUME NEW s, NEW n \in Nat
  PROVE  Descends(s, n + 1)
           <=> (Descends(s, n) \/ (n > 0 /\ s[n].value >= s[n + 1].value))
<1>1. 1 .. (n + 1) - 1 = 1 .. n
  OBVIOUS
<1>2. CASE n = 0
  BY <1>1, <1>2 DEF Descends
<1>3. CASE n > 0
  <2>1. 1 .. n = (1 .. n - 1) \cup {n}
    BY <1>3
  <2> QED BY <1>1, <1>3, <2>1 DEF Descends
<1> QED BY <1>2, <1>3

LEMMA KeepNumberJudged == NInv /\ JInv /\ KeepNumber => JInv'
<1> SUFFICES ASSUME NInv, JInv, KeepNumber PROVE JInv'
  OBVIOUS
<1>1. /\ st = "order" /\ pos < Len(list) /\ Keeps /\ pos' = pos + 1
      /\ text' = text /\ basetype' = basetype /\ list' = list /\ errors' = errors
      /\ st' = st /\ basetype # "UNKNOWN" /\ OrderJudged
  BY DEF KeepNumber, JInv
<1>2. NumbersTypeOK
  BY DEF NInv
<1>3. OrderJudged'
  <2>1. NotAscending \in errors <=> Descends(text.list, pos + 1)
    <3>1. Descends(text.list, pos + 1)
            <=> (\/ Descends(text.list, pos)
                 \/ (pos > 0 /\ text.list[pos].value >= text.list[pos + 1].value))
      BY <1>2, Shape, DescendsNext
    <3>2. CASE NotAscending \in errors
      BY <3>1, <3>2, <1>1 DEF OrderJudged
    <3>3. CASE NotAscending \notin errors
      <4>1. list = text.list /\ ~Descends(text.list, pos)
        BY <3>3, <1>1 DEF OrderJudged
      <4>2. pos > 0 => ~(list[pos].value >= list[pos + 1].value)
        BY <1>1, <1>2, Shape DEF Keeps, This
      <4> QED BY <3>1, <3>3, <4>1, <4>2
    <3> QED BY <3>2, <3>3
  <2> QED BY <2>1, <1>1 DEF OrderJudged
<1>4. NumbersJudged'
  BY <1>1 DEF NumbersJudged
<1> QED BY <1>1, <1>3, <1>4 DEF JInv

LEMMA ReinsertNumberJudged == NInv /\ JInv /\ ReinsertNumber => JInv'
<1> SUFFICES ASSUME NInv, JInv, ReinsertNumber PROVE JInv'
  OBVIOUS
<1>1. /\ st = "order" /\ pos < Len(list) /\ ~Keeps /\ pos' = pos + 1
      /\ text' = text /\ basetype' = basetype /\ st' = st
      /\ errors' = errors \cup {NotAscending}
      /\ basetype # "UNKNOWN" /\ OrderJudged /\ NumbersTypeOK
  BY DEF ReinsertNumber, JInv, NInv
<1>2. PICK p \in 1 .. Len(list) : IsPlace(p) /\ p <= pos + 1 /\ list' = Moved(p)
  BY DEF ReinsertNumber
<1>3. p \in 1 .. pos + 1 /\ pos \in Nat /\ list \in Seq(Item)
  BY <1>1, <1>2, Shape
<1>4. list' = Shift(list, pos, p)
  <2>1. Moved(p) = Shift(list, pos, p)
    BY <1>1, <1>3, Shape DEF Moved, Shift, Source, This
  <2> QED BY <2>1, <1>2
<1>5. SameTwice(list', text'.list)
  <2>1. SameTwice(list', list)
    BY <1>1, <1>3, <1>4, ShiftSameTwice
  <2>2. SameTwice(list, text.list)
    BY DEF JInv
  <2> QED BY <2>1, <2>2, <1>1 DEF SameTwice
<1>6. OrderJudged'
  <2>1. Descends(text.list, pos + 1)
    <3>1. Descends(text.list, pos + 1)
            <=> (\/ Descends(text.list, pos)
                 \/ (pos > 0 /\ text.list[pos].value >= text.list[pos + 1].value))
      BY <1>3, DescendsNext
    <3>2. CASE NotAscending \in errors
      BY <3>1, <3>2, <1>1 DEF OrderJudged
    <3>3. CASE NotAscending \notin errors
      <4>1. list = text.list
        BY <3>3, <1>1 DEF OrderJudged
      <4>2. pos > 0 /\ list[pos].value >= list[pos + 1].value
        BY <1>1, Shape DEF Keeps, This
      <4> QED BY <3>1, <4>1, <4>2
    <3> QED BY <3>2, <3>3
  <2>2. /\ errors' \subseteq {ZeroNotNamed, NotAscending}
        /\ ZeroNotNamed \in errors' <=> (basetype = "BITS" /\ NoZero(text.list))
        /\ NotAscending \in errors'
    BY <1>1, MessagesApart DEF OrderJudged
  <2> QED BY <2>1, <2>2, <1>1 DEF OrderJudged
<1>7. NumbersJudged'
  BY <1>1 DEF NumbersJudged
<1> QED BY <1>1, <1>5, <1>6, <1>7 DEF JInv

LEMMA RunOffJudged == NInv /\ JInv /\ RunOff => JInv'
  BY DEF JInv, RunOff, NumbersJudged

LEMMA EndOfOrderJudged == NInv /\ JInv /\ EndOfOrder => JInv'
<1> SUFFICES ASSUME NInv, JInv, EndOfOrder PROVE JInv'
  OBVIOUS
<1>1. /\ st = "order" /\ pos = Len(list) /\ st' = "check" /\ text' = text
      /\ basetype' = basetype /\ list' = list /\ pos' = pos /\ errors' = errors
      /\ basetype # "UNKNOWN" /\ OrderJudged
  BY DEF EndOfOrder, JInv
<1>2. OrderJudged'
  BY <1>1 DEF OrderJudged
<1>3. NumbersJudged'
  BY <1>1 DEF NumbersJudged
<1> QED BY <1>1, <1>2, <1>3 DEF JInv

\* The redefinitions that are found are the names and numbers that occur twice.
LEMMA RedefinitionsFound ==
  ASSUME NumbersTypeOK
  PROVE  /\ \A n : Message("name-redefinition", n, 0) \in Redefinitions
                     <=> NameTwice(list, n)
         /\ \A v : Message("number-redefinition", "", v) \in Redefinitions
                     <=> NumberTwice(list, v)
         /\ \A n, v : Message("subtype", n, v) \notin Redefinitions
         /\ {ZeroNotNamed, NotAscending} \cap Redefinitions = {}
<1>1. DOMAIN list = 1 .. Len(list) /\ Len(list) \in Nat
  BY Shape
<1> DEFINE N == {Message("name-redefinition", list[i_].name, 0) :
                   i_ \in {k \in DOMAIN list :
                            \E l \in k + 1 .. Len(list) : list[l].name = list[k].name}}
           V == {Message("number-redefinition", "", list[i_].value) :
                   i_ \in {k \in DOMAIN list :
                            \E l \in k + 1 .. Len(list) : list[l].value = list[k].value}}
<1>2. Redefinitions = N \cup V
  BY DEF Redefinitions
<1>3. ASSUME NEW n PROVE Message("name-redefinition", n, 0) \in N <=> NameTwice(list, n)
  <2>1. ASSUME Message("name-redefinition", n, 0) \in N PROVE NameTwice(list, n)
    <3>1. PICK k \in DOMAIN list :
            /\ \E l \in k + 1 .. Len(list) : list[l].name = list[k].name
            /\ Message("name-redefinition", n, 0)
                 = Message("name-redefinition", list[k].name, 0)
      BY <2>1
    <3>2. PICK l \in k + 1 .. Len(list) : list[l].name = list[k].name
      BY <3>1
    <3>3. list[k].name = n
      BY <3>1, MessagesApart
    <3> QED BY <3>2, <3>3, <1>1 DEF NameTwice
  <2>2. ASSUME NameTwice(list, n) PROVE Message("name-redefinition", n, 0) \in N
    <3>1. PICK a \in 1 .. Len(list), b \in 1 .. Len(list) :
            a # b /\ list[a].name = n /\ list[b].name = n
      BY <2>2, <1>1 DEF NameTwice
    <3>2. PICK k \in 1 .. Len(list), l \in 1 .. Len(list) :
            k < l /\ list[k].name = n /\ list[l].name = n
      BY <3>1
    <3>3. k \in DOMAIN list /\ l \in k + 1 .. Len(list) /\ list[l].name = list[k].name
      BY <3>2, <1>1
    <3> QED BY <3>2, <3>3
  <2> QED BY <2>1, <2>2
<1>4. ASSUME NEW v PROVE Message("number-redefinition", "", v) \in V <=> NumberTwice(list, v)
  <2>1. ASSUME Message("number-redefinition", "", v) \in V PROVE NumberTwice(list, v)
    <3>1. PICK k \in DOMAIN list :
            /\ \E l \in k + 1 .. Len(list) : list[l].value = list[k].value
            /\ Message("number-redefinition", "", v)
                 = Message("number-redefinition", "", list[k].value)
      BY <2>1
    <3>2. PICK l \in k + 1 .. Len(list) : list[l].value = list[k].value
      BY <3>1
    <3>3. list[k].value = v
      BY <3>1, MessagesApart
    <3> QED BY <3>2, <3>3, <1>1 DEF NumberTwice
  <2>2. ASSUME NumberTwice(list, v) PROVE Message("number-redefinition", "", v) \in V
    <3>1. PICK a \in 1 .. Len(list), b \in 1 .. Len(list) :
            a # b /\ list[a].value = v /\ list[b].value = v
      BY <2>2, <1>1 DEF NumberTwice
    <3>2. PICK k \in 1 .. Len(list), l \in 1 .. Len(list) :
            k < l /\ list[k].value = v /\ list[l].value = v
      BY <3>1
    <3>3. k \in DOMAIN list /\ l \in k + 1 .. Len(list) /\ list[l].value = list[k].value
      BY <3>2, <1>1
    <3> QED BY <3>2, <3>3
  <2> QED BY <2>1, <2>2
<1>5. /\ \A n : Message("name-redefinition", n, 0) \notin V
      /\ \A v : Message("number-redefinition", "", v) \notin N
      /\ \A n, v : Message("subtype", n, v) \notin N \cup V
      /\ {ZeroNotNamed, NotAscending} \cap (N \cup V) = {}
  <2>1. ASSUME NEW r \in N PROVE r.kind = "name-redefinition"
    BY DEF Message
  <2>2. ASSUME NEW r \in V PROVE r.kind = "number-redefinition"
    <3>1. PICK v : r = Message("number-redefinition", "", v)
      BY <2>2
    <3> QED BY <3>1 DEF Message
  <2> HIDE DEF N, V
  <2>3. /\ \A n, v : /\ Message("name-redefinition", n, 0).kind = "name-redefinition"
                     /\ Message("number-redefinition", "", v).kind = "number-redefinition"
                     /\ Message("subtype", n, v).kind = "subtype"
        /\ ZeroNotNamed.kind = "zero-not-named" /\ NotAscending.kind = "not-ascending"
    BY DEF Message, ZeroNotNamed, NotAscending
  <2> QED BY <2>1, <2>2, <2>3
<1> HIDE DEF N, V
<1> QED BY <1>2, <1>3, <1>4, <1>5

\* The items that are missing are those the parent does not have.
LEMMA MissingFound ==
  ASSUME NumbersTypeOK, NEW x \in Items(list)
  PROVE  Message("subtype", x.name, x.value) \in Missing
           <=> /\ text.parent # NULL
               /\ \A l \in DOMAIN text.parent : text.parent[l] # x
<1>1. \A y, z \in Item : (y.name = z.name /\ y.value = z.value) => y = z
  BY DEF Item
<1>2. x \in Item /\ \A k \in DOMAIN list : list[k] \in Item
  BY Shape DEF Items
<1>3. ASSUME Message("subtype", x.name, x.value) \in Missing
      PROVE  text.parent # NULL /\ \A l \in DOMAIN text.parent : text.parent[l] # x
  <2>1. PICK k \in DOMAIN list :
          /\ text.parent # NULL
          /\ \A l \in DOMAIN text.parent : text.parent[l] # list[k]
          /\ Message("subtype", x.name, x.value)
               = Message("subtype", list[k].name, list[k].value)
    BY <1>3 DEF Missing
  <2>2. x.name = list[k].name /\ x.value = list[k].value
    BY <2>1 DEF Message
  <2>3. x = list[k]
    BY <2>2, <1>1, <1>2
  <2> QED BY <2>1, <2>3
<1>4. ASSUME text.parent # NULL, \A l \in DOMAIN text.parent : text.parent[l] # x
      PROVE  Message("subtype", x.name, x.value) \in Missing
  <2>1. PICK k \in DOMAIN list : list[k] = x
    BY DEF Items
  <2> QED BY <2>1, <1>4 DEF Missing
<1> QED BY <1>3, <1>4

\* And nothing else is reported with them.
LEMMA MissingApart ==
  /\ \A n : Message("name-redefinition", n, 0) \notin Missing
  /\ \A v : Message("number-redefinition", "", v) \notin Missing
  /\ {ZeroNotNamed, NotAscending} \cap Missing = {}
<1>1. ASSUME NEW r \in Missing PROVE r.kind = "subtype"
  BY DEF Missing, Message
<1>2. \A n, v : /\ Message("name-redefinition", n, 0).kind # "subtype"
               /\ Message("number-redefinition", "", v).kind # "subtype"
  BY DEF Message
<1>3. ZeroNotNamed.kind # "subtype" /\ NotAscending.kind # "subtype"
  BY DEF Message, ZeroNotNamed, NotAscending
<1> QED BY <1>1, <1>2, <1>3

LEMMA CheckNumbersJudged == NInv /\ JInv /\ CheckNumbers => JInv'
<1> SUFFICES ASSUME NInv, JInv, CheckNumbers PROVE JInv'
  OBVIOUS
<1>1. /\ st = "check" /\ st' = "done" /\ text' = text /\ basetype' = basetype
      /\ list' = list /\ pos' = pos
      /\ errors' = IF basetype = "UNKNOWN" THEN errors
                   ELSE errors \cup Redefinitions \cup Missing
      /\ NumbersTypeOK /\ SameTwice(list, text.list) /\ Items(list) = Items(text.list)
  BY DEF CheckNumbers, JInv, NInv
<1>2. ASSUME basetype # "UNKNOWN" PROVE NumbersJudged'
  <2> DEFINE w == text.list
  <2>1. /\ errors' = errors \cup Redefinitions \cup Missing
        /\ pos = Len(w) /\ OrderJudged /\ DOMAIN w = 1 .. Len(w) /\ Len(w) \in Nat
    BY <1>1, <1>2, Shape DEF JInv
  <2>2. ZeroNotNamed \in errors' <=> (basetype = "BITS" /\ \A k \in DOMAIN w : w[k].value # 0)
    BY <2>1, <1>1, RedefinitionsFound, MissingApart DEF OrderJudged, NoZero
  <2>3. NotAscending \in errors' <=> \E k \in 1 .. Len(w) - 1 : w[k].value >= w[k + 1].value
    BY <2>1, <1>1, RedefinitionsFound, MissingApart DEF OrderJudged, Descends
  <2>4. ASSUME NEW k \in DOMAIN w
        PROVE  /\ Message("name-redefinition", w[k].name, 0) \in errors'
                    <=> \E l \in DOMAIN w : l # k /\ w[l].name = w[k].name
               /\ Message("number-redefinition", "", w[k].value) \in errors'
                    <=> \E l \in DOMAIN w : l # k /\ w[l].value = w[k].value
               /\ Message("subtype", w[k].name, w[k].value) \in errors'
                    <=> /\ text.parent # NULL
                        /\ \A l \in DOMAIN text.parent : text.parent[l] # w[k]
    <3>1. /\ Message("name-redefinition", w[k].name, 0) \notin errors
          /\ Message("number-redefinition", "", w[k].value) \notin errors
          /\ Message("subtype", w[k].name, w[k].value) \notin errors
      BY <2>1, MessagesApart DEF OrderJudged
    <3>2. Message("name-redefinition", w[k].name, 0) \in errors' <=> NameTwice(w, w[k].name)
      BY <3>1, <2>1, <1>1, RedefinitionsFound, MissingApart DEF SameTwice
    <3>3. Message("number-redefinition", "", w[k].value) \in errors'
            <=> NumberTwice(w, w[k].value)
      BY <3>1, <2>1, <1>1, RedefinitionsFound, MissingApart DEF SameTwice
    <3>4. NameTwice(w, w[k].name) <=> \E l \in DOMAIN w : l # k /\ w[l].name = w[k].name
      BY DEF NameTwice
    <3>5. NumberTwice(w, w[k].value) <=> \E l \in DOMAIN w : l # k /\ w[l].value = w[k].value
      BY DEF NumberTwice
    <3>6. Message("subtype", w[k].name, w[k].value) \in errors'
            <=> Message("subtype", w[k].name, w[k].value) \in Missing
      BY <3>1, <2>1, <1>1, RedefinitionsFound
    <3>7. w[k] \in Items(list)
      BY <1>1 DEF Items
    <3>8. Message("subtype", w[k].name, w[k].value) \in Missing
            <=> /\ text.parent # NULL
                /\ \A l \in DOMAIN text.parent : text.parent[l] # w[k]
      BY <3>7, <1>1, MissingFound
    <3> QED BY <3>2, <3>3, <3>4, <3>5, <3>6, <3>8
  <2>5. text'.list = w /\ text'.parent = text.parent /\ basetype' = basetype
    BY <1>1
  <2> HIDE DEF w
  <2>6. SUFFICES
          /\ ZeroNotNamed \in errors'
               <=> basetype' = "BITS" /\ \A k \in DOMAIN text'.list : text'.list[k].value # 0
          /\ NotAscending \in errors'
               <=> \E k \in 1 .. Len(text'.list) - 1 :
                     text'.list[k].value >= text'.list[k + 1].value
          /\ \A k \in DOMAIN text'.list :
               /\ Message("name-redefinition", text'.list[k].name, 0) \in errors'
                    <=> \E l \in DOMAIN text'.list :
                          l # k /\ text'.list[l].name = text'.list[k].name
               /\ Message("number-redefinition", "", text'.list[k].value) \in errors'
                    <=> \E l \in DOMAIN text'.list :
                          l # k /\ text'.list[l].value = text'.list[k].value
               /\ Message("subtype", text'.list[k].name, text'.list[k].value) \in errors'
                    <=> /\ text'.parent # NULL
                        /\ \A l \in DOMAIN text'.parent : text'.parent[l] # text'.list[k]
    BY ZenonT(30) DEF NumbersJudged
  <2>7. ZeroNotNamed \in errors'
          <=> basetype' = "BITS" /\ \A k \in DOMAIN text'.list : text'.list[k].value # 0
    BY <2>2, <2>5
  <2>8. NotAscending \in errors'
          <=> \E k \in 1 .. Len(text'.list) - 1 :
                text'.list[k].value >= text'.list[k + 1].value
    BY <2>3, <2>5
  <2>9. ASSUME NEW k \in DOMAIN text'.list
        PROVE  /\ Message("name-redefinition", text'.list[k].name, 0) \in errors'
                    <=> \E l \in DOMAIN text'.list :
                          l # k /\ text'.list[l].name = text'.list[k].name
               /\ Message("number-redefinition", "", text'.list[k].value) \in errors'
                    <=> \E l \in DOMAIN text'.list :
                          l # k /\ text'.list[l].value = text'.list[k].value
               /\ Message("subtype", text'.list[k].name, text'.list[k].value) \in errors'
                    <=> /\ text'.parent # NULL
                        /\ \A l \in DOMAIN text'.parent : text'.parent[l] # text'.list[k]
    <3>1. k \in DOMAIN w
      BY <2>5
    <3>2. Message("name-redefinition", w[k].name, 0) \in errors'
            <=> \E l \in DOMAIN w : l # k /\ w[l].name = w[k].name
      BY <2>4, <3>1
    <3>3. Message("number-redefinition", "", w[k].value) \in errors'
            <=> \E l \in DOMAIN w : l # k /\ w[l].value = w[k].value
      BY <2>4, <3>1
    <3>4. Message("subtype", w[k].name, w[k].value) \in errors'
            <=> text.parent # NULL /\ \A l \in DOMAIN text.parent : text.parent[l] # w[k]
      BY <2>4, <3>1
    <3> QED BY <3>2, <3>3, <3>4, <2>5
  <2> QED BY <2>7, <2>8, <2>9
<1>3. NumbersJudged'
  <2>1. CASE basetype = "UNKNOWN"
    BY <2>1, <1>1 DEF NumbersJudged
  <2> QED BY <2>1, <1>2
<1> QED BY <1>1, <1>3 DEF JInv

LEMMA NumbersNextJudged == NInv /\ JInv /\ NumbersNext => JInv'
  BY FirstBitJudged, KeepNumberJudged, ReinsertNumberJudged, RunOffJudged,
     EndOfOrderJudged, CheckNumbersJudged DEF NumbersNext

\* A list that is just read has nothing reported of it.
LEMMA BeginJudged ==
  ASSUME NEW t \in Texts, Start(Begin(t))
  PROVE  JInv
<1>1. text = t /\ list = t.list /\ pos = 0 /\ errors = {} /\ st = "read"
  BY BeginSound DEF Start
<1> QED BY <1>1 DEF JInv, SameTwice, NumbersJudged

LEMMA LoadNewJudged == LoadNew => JInv'
<1> SUFFICES ASSUME LoadNew PROVE JInv'
  OBVIOUS
<1>1. PICK t \in Texts :
        /\ text' = Begin(t).text /\ basetype' = Begin(t).basetype
        /\ list' = Begin(t).list /\ pos' = Begin(t).pos
        /\ errors' = Begin(t).errors /\ st' = Begin(t).st
  BY DEF LoadNew
<1>2. text' = t /\ list' = t.list /\ pos' = 0 /\ errors' = {} /\ st' = "read"
  BY <1>1, BeginSound
<1>3. SameTwice(list, text.list)'
  BY <1>2 DEF SameTwice
<1>4. NumbersJudged'
  BY <1>2 DEF NumbersJudged
<1> QED BY <1>2, <1>3, <1>4 DEF JInv

LEMMA StillJudged == JInv /\ UNCHANGED numbers => JInv'
<1> SUFFICES ASSUME JInv, UNCHANGED numbers PROVE JInv'
  OBVIOUS
<1>1. /\ text' = text /\ basetype' = basetype /\ list' = list /\ pos' = pos
      /\ errors' = errors /\ st' = st
  BY DEF numbers
<1>2. OrderJudged' <=> OrderJudged
  BY <1>1 DEF OrderJudged
<1>3. NumbersJudged'
  <2>1. NumbersJudged' <=> NumbersJudged
    BY <1>1 DEF NumbersJudged
  <2> QED BY <2>1 DEF JInv
<1>4. SameTwice(list, text.list)'
  BY <1>1 DEF JInv, SameTwice
<1> QED BY <1>1, <1>2, <1>3, <1>4 DEF JInv

\* Whatever list is written, each of its names and numbers that occurs twice,
\* each item its parent does not have, a missing first bit and a number out of
\* order is reported, and nothing that is not so, although the list was sorted
\* before most of it was looked at.
THEOREM Judged == Spec => []NumbersJudged
<1>1. Init => NInv /\ JInv
  <2> SUFFICES ASSUME Init PROVE JInv
    BY InitKeeps
  <2>1. PICK t \in Texts : Start(Begin(t))
    BY DEF Init, NumbersInit
  <2> QED BY <2>1, BeginJudged
<1>2. NInv /\ JInv /\ [Next]_vars => (NInv /\ JInv)'
  <2> SUFFICES ASSUME NInv, JInv, [Next]_vars PROVE JInv'
    BY NextKeeps
  <2>1. CASE NumbersNext
    BY <2>1, NumbersNextJudged
  <2>2. CASE LoadNew
    BY <2>2, LoadNewJudged
  <2>3. CASE Compare \/ Removed \/ Added \/ Kept \/ EndOfMerge \/ UNCHANGED vars
    <3>1. UNCHANGED numbers
      BY <2>3 DEF Compare, Removed, Added, Kept, EndOfMerge, UnchangedBut, vars
    <3> QED BY <3>1, StillJudged
  <2> QED BY <2>1, <2>2, <2>3 DEF Next
<1>3. JInv => NumbersJudged
  BY DEF JInv
<1> QED BY <1>1, <1>2, <1>3, PTL DEF Spec
=============================================================================
