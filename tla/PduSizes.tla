------------------------------ MODULE PduSizes ------------------------------
(***************************************************************************)
(* `smidump -f sizes': the smallest, the mean and the largest size of the  *)
(* messages that carry the variables of a group, that create a row, or     *)
(* that are sent for a notification (tools/dump-sizes.c).                  *)
(*                                                                         *)
(* One node is looked at: an action is an iteration of the loop over its   *)
(* variables or of the loop over the columns of an INDEX clause.  Next to  *)
(* the three sums a fourth one is kept, "real", of a message in which the  *)
(* indices and values are any that the types allow, counted as BER has it; *)
(* the program does not have it.  It counts some octets of such a message  *)
(* not at all: "uncounted" is how many these are.                          *)
(*                                                                         *)
(* How many octets a value takes, and which values of a type are taken for *)
(* the smallest, the mean and the largest one, comes first.  An octet has  *)
(* Octet values, an int four octets, a long four or eight.  The loops that *)
(* shift a value until nothing is left of it count the powers that it      *)
(* reaches.                                                                *)
(***************************************************************************)
EXTENDS Integers, Sequences, FiniteSets

CONSTANTS
  Octet,       \* 256
  LongLength,  \* 128: lengths from here on have the long form
  Wide         \* whether a long, of which SmiInteger32 is one, has eight octets

ASSUME OctetAssumption == Octet \in Nat /\ Octet >= 4 /\ Octet % 2 = 0
ASSUME LongAssumption  == LongLength \in Nat \ {0}
ASSUME WideAssumption  == Wide \in BOOLEAN

Half == Octet \div 2
P2 == Octet * Octet
P3 == P2 * Octet
P4 == P2 * P2
P8 == P4 * P4
Powers     == {Octet, P2, P3, P4, P4 * Octet, P4 * P2, P4 * P3}
H2 == Half * Half
H4 == H2 * H2
HalfPowers == {Half, H2, H2 * Half, H4, H4 * Half, H4 * H2, H4 * H2 * Half}

IntMax   == P4 \div 2 - 1
IntMin   == -IntMax - 1
MaxSubid == P4 - 1
LongMax  == P8 \div 2 - 1

Reached(n, S) == Cardinality({p \in S : p <= n})

\* The octets of a length: the octet that tells their number is not counted.
ber_len_length(n) == IF n < LongLength THEN 1 ELSE 1 + Reached(n, Powers)
ber_len_subid(s)  == 1 + Reached(s, HalfPowers)
\* Tag and length around n octets; an OID of which the numbers take n octets.
Wrapped(n) == n + ber_len_length(n) + 1

\* ber_len_int32(), ber_len_int64(), ber_len_uint32() and ber_len_uint64(): octets
\* are counted until the rest and the sign bit of the last one agree.
Octets(v)      == LET m == IF v < 0 THEN -v - 1 ELSE v
                  IN 1 + Reached(m \div Half, {1} \cup Powers)
ber_len_int(v) == Wrapped(Octets(v))

\* Parts of a real message: their octets, and how many of them the program does not
\* count.  A length of the long form is told by an octet before those of the number.
InFull(k)    == [size |-> k, extra |-> 0]
LeftOut(k)   == [size |-> k, extra |-> k]
Beside(p, q) == [size |-> p.size + q.size, extra |-> p.extra + q.extra]
LongForm(k)  == IF k < LongLength THEN 0 ELSE 1 + Reached(k, Powers)
Enclosed(p)  == [size |-> p.size + 2 + LongForm(p.size), extra |-> p.extra + LongForm(p.size)]
Int32(v)     == Enclosed(InFull(Octets(v)))

-----------------------------------------------------------------------------
(* Types: chain are the lists of ranges of the type and its ancestors.     *)

Flag     == {"min", "mean", "max"}
Limits    == {r \in [min : Int, max : Int] : r.min <= r.max}
Basetype == {"OBJECTIDENTIFIER", "OCTETSTRING", "BITS", "ENUM", "INTEGER32",
             "UNSIGNED32", "INTEGER64", "UNSIGNED64"}
\* size: what smiGetMinSize() and smiGetMaxSize() return, and the mean of them, or
\* the entry of specialTypes[].
AnyType == [basetype : Basetype, chain : Seq(SUBSET Limits), numbers : SUBSET Int,
            size : [Flag -> 0 .. MaxSubid], special : BOOLEAN]

\* The numbers that a value of the basetype may be.
Representable(t) ==
  IF t.basetype \in {"ENUM", "INTEGER32"} THEN IntMin .. IntMax
  ELSE IF t.basetype = "UNSIGNED32" THEN 0 .. P4 - 1
  ELSE IF t.basetype = "INTEGER64" THEN -LongMax - 1 .. LongMax
  ELSE 0 .. P8 - 1

Type ==
  {t \in AnyType :
     /\ t.numbers \subseteq Representable(t)
     /\ \A i \in DOMAIN t.chain : \A r \in t.chain[i] : {r.min, r.max} \subseteq Representable(t)
     /\ t.special => t.size["mean"] \in t.size["min"] .. t.size["max"]}

IsString(t) == t.basetype \in {"OCTETSTRING", "BITS"}
IsSigned(t) == t.basetype \in {"INTEGER32", "INTEGER64"}
IsLong(t)   == t.basetype \in {"INTEGER64", "UNSIGNED64"}
IsOid(t)    == t.basetype = "OBJECTIDENTIFIER"

\* The ranges of the nearest ancestor that has any.
HasRanges(t) == \E i \in DOMAIN t.chain : t.chain[i] # {}
Ranges(t)    == IF HasRanges(t)
                THEN t.chain[CHOOSE i \in DOMAIN t.chain :
                               /\ t.chain[i] # {}
                               /\ \A j \in 1 .. i - 1 : t.chain[j] = {}]
                ELSE {}

Least(S)    == CHOOSE x \in S : \A y \in S : x <= y
Greatest(S) == CHOOSE x \in S : \A y \in S : x >= y
\* abs() and m_abs(): the smallest number has no opposite.
Bottom(t) == IF IsLong(t) THEN -LongMax - 1 ELSE IntMin
Abs(t, v) == IF v < 0 /\ v # Bottom(t) THEN -v ELSE v

\* Which limits of the ranges are looked at, and what there is without any.
Lows(t)  == IF t.basetype = "ENUM" THEN {Abs(t, v) : v \in t.numbers}
            ELSE IF IsSigned(t) THEN {Abs(t, r.min) : r \in Ranges(t)}
            ELSE {r.min : r \in Ranges(t)}
Highs(t) == IF t.basetype = "ENUM" THEN {Abs(t, v) : v \in t.numbers}
            ELSE IF IsSigned(t) THEN {Abs(t, r.max) : r \in Ranges(t)}
            ELSE {r.max : r \in Ranges(t)}
Top(t)   == IF t.basetype = "UNSIGNED32" THEN P4 - 1
            ELSE IF t.basetype = "INTEGER64" THEN LongMax
            ELSE IF t.basetype = "UNSIGNED64" THEN P8 - 1 ELSE IntMax

\* getAbsMinEnum(), getAbsMinInteger32(), getMinUnsigned32(), ...
\* Mutant: without ranges the least one is the largest number also for ints.
Lower_Top(t) == Least(Lows(t) \cup {Top(t)})
Lower(t) == IF Lows(t) # {} THEN Least(Lows(t) \cup {Top(t)})
            ELSE IF t.basetype \in {"INTEGER32", "UNSIGNED32"} THEN 0 ELSE Top(t)
\* getAbsMaxEnum(), getAbsMaxInteger32(), getMaxUnsigned32(), ...
Upper(t) == IF Highs(t) # {}
            THEN Greatest(Highs(t) \cup {IF IsSigned(t) THEN Bottom(t) ELSE 0})
            ELSE IF t.basetype \in {"INTEGER32", "UNSIGNED32"} THEN Top(t)
            ELSE IF t.basetype = "INTEGER64" THEN Bottom(t) ELSE 0

\* (a + b) / 2 in longs or long longs, with and without a sign.
Width(t)     == IF IsLong(t) \/ Wide THEN P8 ELSE P4
Sum(t)       == IF t.basetype \in {"UNSIGNED32", "UNSIGNED64"}
                THEN (Upper(t) + Lower(t)) % Width(t)
                ELSE ((Upper(t) + Lower(t) + Width(t) \div 2) % Width(t)) - Width(t) \div 2
Quotient(n)  == IF n < 0 THEN -((-n) \div 2) ELSE n \div 2
Number(t, f) == IF f = "min" THEN Lower(t) ELSE IF f = "max" THEN Upper(t)
                ELSE Quotient(Sum(t))
Size(t, f)   == IF f = "mean" /\ ~t.special THEN (t.size["max"] + t.size["min"]) \div 2
                ELSE t.size[f]

\* The numbers a value of the type may be.
Values(t) == IF t.basetype = "ENUM" THEN t.numbers
             ELSE IF HasRanges(t) THEN UNION {r.min .. r.max : r \in Ranges(t)}
             ELSE Representable(t)

\* Types of which Lower() and Upper() are limits: with a sign they are not, as soon
\* as a number is negative, and a type of 64 bits has to have ranges.
Regular(t) ==
  /\ t.basetype \in {"ENUM", "INTEGER32", "INTEGER64"} =>
       (\A v \in Values(t) : v >= 0) \/ (t.basetype = "INTEGER32" /\ ~HasRanges(t))
  /\ IsLong(t) => HasRanges(t)

\* The mean of the numbers is between them, because their sum is.
Central(t) == IsString(t) \/ IsOid(t) \/ Sum(t) = Upper(t) + Lower(t)

-----------------------------------------------------------------------------
(* Messages.                                                               *)

CONSTANTS
  Counted,    \* the nodes that may be looked at
  MaxOid,   \* 128 numbers
  MeanId,   \* 1073741824
  WorstId   \* -214783648

Path      == [len : Nat, size : Nat]   \* numbers of an OID, and their octets
IndexKind == {"UNKNOWN", "INDEX", "AUGMENT", "REORDER", "SPARSE", "EXPAND"}
\* index: of the row of a column; related: the columns of the row it augments.
Variable  ==
  [nodekind : {"SCALAR", "COLUMN", "OTHER"}, access : {"NONE", "NOTIFY", "RO", "RW", "INSTALL"},
   oid : Path, type : Type, default : BOOLEAN, rowStatus : BOOLEAN,
   indexkind : IndexKind, index : Seq(Type), related : Seq(Type), implied : BOOLEAN]
Node == [nodekind : {"ROW", "NODE", "NOTIFICATION"}, create : BOOLEAN, oid : Path,
         children : Seq(Variable), objects : Seq(Variable)]

ASSUME NodeAssumption == Counted \subseteq Node
ASSUME IdAssumption ==
  /\ MaxOid \in 12 .. MaxSubid
  /\ MeanId \in IntMin .. IntMax /\ WorstId \in IntMin .. IntMax
  /\ \A v \in IntMin .. IntMax : Octets(v) <= Octets(WorstId)

VARIABLES
  st,      \* idle, variables, index, done
  kind,    \* of the message: group, create, small, notification
  todo,    \* the variables left
  index,   \* the columns of the INDEX clause left
  oid,     \* the OID of the instance, in each case
  total,   \* best, avg, worst, and the real one
  uncounted, \* octets of the real one that the program leaves out
  n,       \* the number of variables
  regular, \* nothing was met for which the limits are known not to hold,
  central  \* nor anything for which the mean is not between them

vars == <<st, kind, todo, index, oid, total, uncounted, n, regular, central>>

Case     == Flag \cup {"real"}
All(x)   == [c \in Case |-> x]
Append1(o, k, s) == [len |-> o.len + k, size |-> o.size + s]

Init ==
  /\ st = "idle" /\ kind = "group" /\ todo = <<>> /\ index = <<>>
  /\ oid = All([len |-> 0, size |-> 0]) /\ total = All(0)
  /\ uncounted = 0 /\ n = 0
  /\ regular = TRUE /\ central = TRUE

Begin(k, list, start, extra) ==
  /\ st' = "variables" /\ kind' = k /\ todo' = list /\ total' = start /\ uncounted' = extra
  /\ n' = 0 /\ regular' = TRUE /\ central' = TRUE
  /\ UNCHANGED <<index, oid>>

IsGroup(node) ==
  \/ node.nodekind = "ROW"
  \/ \E i \in DOMAIN node.children :
       node.children[i].nodekind = "SCALAR" /\ node.children[i].access \in {"RO", "RW", "INSTALL"}

\* dumpSizeOfPDU()
DumpGroup(node) ==
  /\ st = "idle" /\ IsGroup(node)
  /\ Begin("group", node.children, All(0), 0)

\* dumpSizeOfCreatePDU(); small: the columns with a DEFVAL are not given.
DumpCreate(node, small) ==
  /\ st = "idle" /\ node.nodekind = "ROW" /\ node.create
  /\ Begin(IF small THEN "small" ELSE "create", node.children, All(0), 0)

\* dumpSizeOfNotificationPDU(): sysUpTime, then snmpTrapOID, and the objects.
snmpTrapOid0Size == 10
DumpNotification(node, uptime) ==
  /\ st = "idle" /\ node.nodekind = "NOTIFICATION"
  /\ LET trap  == Wrapped(Wrapped(node.oid.size) + Wrapped(snmpTrapOid0Size))
         sent  == Enclosed(Beside(Enclosed(InFull(node.oid.size)),
                                  Enclosed(InFull(snmpTrapOid0Size))))
         start == [min |-> 15 + trap, mean |-> 18 + trap, max |-> 19 + trap,
                   real |-> uptime + sent.size]
     IN Begin("notification", node.objects, start, sent.extra)

-----------------------------------------------------------------------------
(* A variable: its OID with the index, and its value.                      *)

\* Which of the children are variables of the message.
Asked(v) == CASE kind = "group"  -> v.access \in {"RO", "RW"}
              [] kind = "create" -> v.access = "RW"
              [] kind = "small"  -> v.access = "RW" /\ (v.default => v.rowStatus)
              [] OTHER -> TRUE

SkipVariable ==
  /\ st = "variables" /\ todo # <<>> /\ ~Asked(Head(todo))
  /\ todo' = Tail(todo)
  /\ UNCHANGED <<st, kind, index, oid, total, uncounted, n, regular, central>>

IndexTypes(v) == IF v.indexkind \in {"INDEX", "REORDER"} THEN v.index
                 ELSE IF v.indexkind \in {"AUGMENT", "SPARSE"} THEN v.related ELSE <<>>

BeginVariable ==
  /\ st = "variables" /\ todo # <<>> /\ Asked(Head(todo))
  /\ LET v == Head(todo)
     IN \/ /\ v.nodekind = "OTHER"   \* counts as nothing
           /\ todo' = Tail(todo) /\ regular' = FALSE
           /\ n' = n + 1
           /\ UNCHANGED <<st, index, oid>>
        \/ /\ v.nodekind = "SCALAR"
           /\ oid' = All(Append1(v.oid, 1, 1)) /\ index' = <<>> /\ st' = "index"
           /\ UNCHANGED <<todo, n, regular>>
        \/ /\ v.nodekind = "COLUMN"
           /\ oid' = All(v.oid) /\ index' = IndexTypes(v) /\ st' = "index"
           /\ regular' = (regular /\ ~v.implied /\ IndexTypes(v) # <<>>)
           /\ UNCHANGED <<todo, n>>
  /\ UNCHANGED <<kind, total, uncounted, central>>

Fits(o, k) == IF k <= MaxOid - o.len THEN k ELSE MaxOid - o.len

AppendNumber(o, v) ==
  IF o.len < MaxOid THEN Append1(o, 1, ber_len_subid(v % P4)) ELSE o

\* The characters are 255; 1, 85, 170, 85, 170, ...; or 0.
\* Mutant: a character of the longest string takes one octet.
Characters_Short(k, f) == k
Characters(k, f) ==
  IF f = "max" THEN k * ber_len_subid(Octet - 1)
  ELSE IF f = "min" \/ k = 0 THEN k
  ELSE k + (k \div 2) * (ber_len_subid(Octet \div 3) - 1)
         + ((k - 1) \div 2) * (ber_len_subid((2 * Octet) \div 3) - 1)
AppendString(o, t, f) ==
  LET k  == IF f = "mean" /\ ~t.special THEN t.size["max"] + t.size["min"] \div 2
            ELSE t.size[f]
      o1 == AppendNumber(o, k)
      m  == Fits(o1, k)
  IN Append1(o1, m, Characters(m, f))

\* The numbers are 2, 4294967295, ...; 1, 2, ..., 16; or 0.
AppendOid(o, f) ==
  LET k  == IF f = "max" THEN MaxOid - o.len ELSE IF f = "mean" THEN 16 ELSE 2
      o1 == AppendNumber(o, k)
      m  == Fits(o1, k)
  IN Append1(o1, m, IF f = "max" /\ m > 0
                    THEN ber_len_subid(2) + (m - 1) * ber_len_subid(MaxSubid) ELSE m)

\* append_index(): `implied' is asked of the column, where it is never set.
append_index(o, t, f) ==
  IF IsOid(t) THEN AppendOid(o, f)
  ELSE IF IsString(t) THEN AppendString(o, t, f)
  ELSE IF IsLong(t) THEN o
  ELSE IF t.basetype = "ENUM" /\ f = "mean"
       THEN AppendNumber(o, (Upper(t) - Lower(t)) \div 2)
  ELSE AppendNumber(o, Number(t, f))

\* What an instance may have in the place of this column; strings of fixed size, and
\* the last one of an IMPLIED index, have no length.
IndexParts(t, bare) ==
  LET Length(k) == IF bare THEN [len |-> 0, size |-> 0]
                   ELSE [len |-> 1, size |-> ber_len_subid(k)]
  IN IF IsString(t)
     THEN UNION {{Append1(Length(k), k, s) : s \in k .. k * ber_len_subid(Octet - 1)} :
                   k \in t.size["min"] .. t.size["max"]}
     ELSE IF IsOid(t)
     THEN UNION {{Append1(Length(k), k, 1 + s) : s \in k - 1 .. (k - 1) * ber_len_subid(MaxSubid)} :
                   k \in 2 .. MaxOid}
     ELSE {[len |-> 1, size |-> ber_len_subid(v)] : v \in {w \in Values(t) : w >= 0}}
IsFixed(t) == IsString(t) /\ t.size["min"] = t.size["max"]

\* The counted index is known to be a limit of real ones: append_index() counts a
\* length for all strings, and what does not fit is cut off.
RegularIndex(t) ==
  /\ Regular(t) /\ ~IsLong(t)
  /\ ~IsFixed(t)
  /\ IsOid(t) => oid["max"].len = oid["min"].len
  /\ oid["max"].len < MaxOid

AppendIndex ==
  /\ st = "index" /\ index # <<>>
  /\ \E part \in IndexParts(Head(index), IsFixed(Head(index))
                                             \/ (Head(todo).implied /\ Len(index) = 1)) :
       /\ oid["real"].len + part.len <= MaxOid
       /\ oid' = [c \in Case |-> IF c = "real" THEN Append1(oid[c], part.len, part.size)
                                 ELSE append_index(oid[c], Head(index), c)]
  /\ regular' = (regular /\ RegularIndex(Head(index)))
  /\ central' = (central /\ Central(Head(index)) /\ ~IsString(Head(index))
                         /\ Head(index).basetype # "ENUM" /\ ~IsOid(Head(index)))
  /\ index' = Tail(index)
  /\ UNCHANGED <<st, kind, todo, total, uncounted, n>>

\* ber_len_val(): the octets of strings, everything else with tag and length.
ber_len_val(t, f) ==
  IF IsString(t) THEN Size(t, f)
  ELSE IF IsOid(t)
  THEN Wrapped(IF f = "max"
               THEN ber_len_subid((MaxSubid + 80) % P4) + (MaxOid - 2) * ber_len_subid(MaxSubid)
               ELSE IF f = "mean" THEN 14 ELSE 1)
  ELSE ber_len_int(Number(t, f))

\* Any value of the type, with tag and length, which are not counted for strings.  The
\* first two numbers of an OID are one; in the worst case it is taken for 2.4294967295,
\* which overflows to one octet.
ValueSizes(t) ==
  IF IsString(t)
  THEN {Beside(LeftOut(2 + LongForm(k)), InFull(k)) : k \in t.size["min"] .. t.size["max"]}
  ELSE IF IsOid(t)
  THEN {Enclosed(Beside(InFull(1 + s), LeftOut(f - 1))) :
          f \in 1 .. ber_len_subid(MaxSubid), s \in 0 .. (MaxOid - 2) * ber_len_subid(MaxSubid)}
  ELSE {Int32(v) : v \in Values(t)}

EndVariable ==
  /\ st = "index" /\ index = <<>>
  /\ LET t == Head(todo).type
     IN /\ \E value \in ValueSizes(t) :
             LET pair == Enclosed(Beside(Enclosed(InFull(oid["real"].size)), value))
             IN /\ total' = [c \in Case |->
                               IF c = "real" THEN total[c] + pair.size
                               ELSE total[c] + Wrapped(Wrapped(oid[c].size) + ber_len_val(t, c))]
                /\ uncounted' = uncounted + pair.extra
        /\ regular' = (regular /\ Regular(t))
        /\ central' = (central /\ Central(t))
  /\ todo' = Tail(todo) /\ n' = n + 1 /\ st' = "variables"
  /\ UNCHANGED <<kind, index, oid>>

-----------------------------------------------------------------------------
(* The headers around the variables.                                       *)

Closed(size, id, status, place) ==
  Wrapped(Wrapped(size) + id + status + place)

Worst == IF kind = "notification" THEN 0 ELSE n - 1

Ints(low, high) == {Int32(v) : v \in low .. high}
Ids == Ints(IntMin, IntMax)

Close ==
  /\ st = "variables" /\ todo = <<>>
  /\ \E id \in Ids, status \in Ints(0, 18), place \in Ints(0, n) :
       /\ kind = "notification" => status = Int32(0) /\ place = Int32(0)
       /\ LET list == Enclosed([size |-> total["real"], extra |-> uncounted])
              pdu  == Enclosed(Beside(list, Beside(id, Beside(status, place))))
          IN /\ total' =
                  [c \in Case |->
                     IF c = "real" THEN pdu.size
                     ELSE IF c = "min" THEN Closed(total[c], ber_len_int(0), ber_len_int(0), ber_len_int(0))
                     ELSE IF c = "mean" THEN Closed(total[c], ber_len_int(MeanId), ber_len_int(0), ber_len_int(0))
                     ELSE Closed(total[c], ber_len_int(WorstId), ber_len_int(18), ber_len_int(Worst))]
             /\ uncounted' = pdu.extra
  \* the error-index is n at most, but counted as n - 1
  /\ regular' = (regular /\ (kind # "notification" =>
                               n > 0 /\ Octets(n) = Octets(n - 1)))
  /\ st' = "done"
  /\ UNCHANGED <<kind, todo, index, oid, n, central>>

Next ==
  \/ \E node \in Counted : \/ DumpGroup(node)
                          \/ \E small \in BOOLEAN : DumpCreate(node, small)
                          \/ \E uptime \in 15 .. 19 : DumpNotification(node, uptime)
  \/ SkipVariable \/ BeginVariable \/ AppendIndex \/ EndVariable \/ Close

Spec == Init /\ [][Next]_vars

-----------------------------------------------------------------------------
(* What the program promises.                                              *)

\* No message is smaller than the best case, and none larger than the worst case but
\* for the octets that the program is known to leave out (smidump(1): "best case /
\* worst case ... PDU sizes"): as far as the types are ones for which the two can be
\* limits.  A message with nothing uncounted is enclosed: one without a string as value
\* or a part of 128 octets or more, in which OIDs begin with a number of one octet.  dumpSizeOfPDU(), dumpSizeOfCreatePDU(),
\* dumpSizeOfNotificationPDU().
SizesBracket ==
  regular => /\ total["min"] <= total["real"] /\ total["real"] <= total["max"] + uncounted
             /\ central => total["min"] <= total["mean"] /\ total["mean"] <= total["max"]
=============================================================================
