----------------------------- MODULE TypeRanges -----------------------------
(***************************************************************************)
(* The range and size restrictions of types.  The scanner reads the limits *)
(* as C integers, smiCheckTypeRanges() of smi-check.c casts them to the    *)
(* basetype of the type, sorts the list and joins adjacent ranges, and     *)
(* smiCheckValueType(), smiGetMinSize() and smiGetMaxSize() rely on the    *)
(* list it leaves.                                                         *)
(*                                                                         *)
(* One action is one iteration of a loop of smiCheckTypeRanges().  The     *)
(* list of ranges is a sequence; where the code cuts the linked list, the  *)
(* sequence is cut.                                                        *)
(***************************************************************************)
EXTENDS Integers, Sequences, FiniteSetsExt

CONSTANTS
  INT_MAX,       \* largest SmiInteger32; the type is two's complement
  LONG_MAX,      \* largest long of the build, which the scanner parses with
  SIZE_MAX,      \* 65535, the largest size of an OCTET STRING
  Restrictions,  \* per depth of derivation: the lists of limits written
  Numbers        \* the numbers written as a DEFVAL

UINT_MAX  == 2 * INT_MAX + 1
Modulus   == UINT_MAX + 1
ULONG_MAX == 2 * LONG_MAX + 1
MaxTypes  == Len(Restrictions)
Limited   == UNION {Restrictions[d] : d \in DOMAIN Restrictions}

ASSUME WidthAssumption == INT_MAX \in Nat \ {0} /\ LONG_MAX \in Nat
                          /\ LONG_MAX >= INT_MAX
ASSUME SizeAssumption  == SIZE_MAX \in 1 .. UINT_MAX
ASSUME RestrictionAssumption ==
  Restrictions \in Seq(SUBSET (Seq(Int \X Int) \ {<<>>}))
ASSUME NumberAssumption == Numbers \subseteq Int

VARIABLES
  language,   \* of the module
  types,      \* types whose ranges are checked, each derived from the last
  job,        \* the smiCheckTypeRanges() call in progress
  default     \* the last smiCheckValueType() call

vars == <<language, types, job, default>>

NumberType == {"INTEGER32", "UNSIGNED32", "INTEGER64", "UNSIGNED64"}
\* UNKNOWN is the basetype of a type derived from one that is not yet defined.
Basetype   == NumberType \cup {"OCTETSTRING", "UNKNOWN"}
CastTo     == [INTEGER32 |-> "INTEGER32", UNSIGNED32 |-> "UNSIGNED32",
               OCTETSTRING |-> "UNSIGNED32"]
Casting    == DOMAIN CastTo
Value      == {v \in [basetype : NumberType, value : Int] :
                 /\ v.basetype = "INTEGER32" => v.value \in -INT_MAX - 1 .. INT_MAX
                 /\ v.basetype = "UNSIGNED32" => v.value \in 0 .. UINT_MAX}
RangeOf    == [min : Value, max : Value]
Error      == {"number-range", "range-bounds", "range-exchanged",
               "range-overlap", "range-ascending", "defval-basetype",
               "defval-range"}
Written    == Seq(Int \X Int)
Type       == [base : Basetype, written : Written, list : Seq(RangeOf),
               errors : SUBSET Error]
Job        == [st : {"idle", "check", "seek", "normalize"}, base : Basetype,
               written : Written, rest : Seq(RangeOf), list : Seq(RangeOf),
               range : RangeOf, at : Nat, kept : Seq(RangeOf),
               errors : SUBSET Error]
Zero       == [basetype |-> "UNSIGNED32", value |-> 0]
Idle       == [st |-> "idle", base |-> "UNKNOWN", written |-> <<>>,
               rest |-> <<>>, list |-> <<>>,
               range |-> [min |-> Zero, max |-> Zero], at |-> 0,
               kept |-> <<>>, errors |-> {}]
NoDefault  == [type |-> 0, number |-> 0, errors |-> {}]

(***************************************************************************)
(* C integers.                                                             *)
(***************************************************************************)

AsUnsigned(n) == n % Modulus
AsSigned(n)   == IF AsUnsigned(n) > INT_MAX THEN AsUnsigned(n) - Modulus
                                            ELSE AsUnsigned(n)

\* A number in the file: strtoul() and strtol(), then the 64 bit tokens.
Overflows(n) == n > ULONG_MAX \/ n < -LONG_MAX - 1

Scan(n) ==
  IF n >= 0
  THEN IF ~Overflows(n) THEN [basetype |-> "UNSIGNED32", value |-> AsUnsigned(n)]
       ELSE IF language = "smiv1"
            THEN [basetype |-> "UNSIGNED32", value |-> AsUnsigned(ULONG_MAX)]
            ELSE [basetype |-> "UNSIGNED64", value |-> n]
  ELSE IF ~Overflows(n) THEN [basetype |-> "INTEGER32", value |-> AsSigned(n)]
       ELSE IF language = "sppi" THEN [basetype |-> "INTEGER64", value |-> n]
            ELSE [basetype |-> "INTEGER32", value |-> AsSigned(-LONG_MAX - 1)]

ScanErrors(n) ==
  IF \/ n >= 0 /\ Overflows(n) /\ language = "smiv1"
     \/ n < 0 /\ Overflows(n) /\ language # "sppi"
  THEN {"number-range"} ELSE {}

ScanRange(w) == [min |-> Scan(w[1]), max |-> Scan(w[2])]

\* -1 and 1 mean adjacent, -2 and 2 further apart, 0 equal or incomparable.
Clamp(d) == IF d > 2 THEN 2 ELSE IF d < -2 THEN -2 ELSE d

compareValues(a, b) ==
  IF a.basetype = b.basetype
  THEN IF a.basetype \in {"INTEGER32", "UNSIGNED32"} THEN Clamp(a.value - b.value)
                                                     ELSE 0
  ELSE IF a.basetype = "UNSIGNED32" /\ b.basetype = "INTEGER32"
  THEN IF b.value < -1 \/ (a.value > 1 /\ a.value - 1 > INT_MAX)
       THEN 2 ELSE AsSigned(a.value - b.value)
  ELSE IF a.basetype = "INTEGER32" /\ b.basetype = "UNSIGNED32"
  THEN IF a.value < -1 \/ (b.value > 1 /\ b.value - 1 > INT_MAX)
       THEN -2 ELSE AsSigned(b.value - a.value)
  ELSE 0

(***************************************************************************)
(* smiCheckTypeRanges(): the parts of the first loop's body.               *)
(***************************************************************************)

\* The union's bits are reinterpreted.
Cast(b, v) ==
  IF b \notin Casting THEN v
  ELSE [basetype |-> CastTo[b],
        value |-> IF CastTo[b] = "INTEGER32" THEN AsSigned(v.value)
                                             ELSE AsUnsigned(v.value)]

\* Mutant: the size limit of OCTET STRING is not checked.
OutOfBasetype_NoSize(b, v) ==
  \/ b = "INTEGER32" /\ v.basetype = "UNSIGNED32" /\ v.value > INT_MAX
  \/ b \in {"UNSIGNED32", "OCTETSTRING"} /\ v.basetype = "INTEGER32"
                                         /\ v.value < 0

OutOfBasetype(b, v) ==
  \/ b = "INTEGER32" /\ v.basetype = "UNSIGNED32" /\ v.value > INT_MAX
  \/ b \in {"UNSIGNED32", "OCTETSTRING"} /\ v.basetype = "INTEGER32"
                                         /\ v.value < 0
  \/ b = "OCTETSTRING" /\ v.basetype = "UNSIGNED32" /\ v.value > SIZE_MAX

Limits(b, r) == [min |-> Cast(b, r.min), max |-> Cast(b, r.max)]

Exchanged(r) == compareValues(r.min, r.max) > 0
Ordered(r)   == IF Exchanged(r) THEN [min |-> r.max, max |-> r.min] ELSE r

If(c, e) == IF c THEN {e} ELSE {}

\* Mutant: the search starts at the second range, so that nothing is put at the
\* head.
AtHead_Never(list, r) == FALSE

AtHead(list, r) == compareValues(r.min, list[1].min) <= 0

HeadErrors(list, r) ==
  {"range-ascending"}
  \cup If(compareValues(r.max, list[1].min) >= 0, "range-overlap")

\* The range is linked in after the i-th one.
Found(list, r, i) ==
  i < Len(list) => compareValues(r.min, list[i + 1].min) <= 0

LinkErrors(list, r, i) ==
  If(\/ i < Len(list) /\ compareValues(r.max, list[i + 1].min) >= 0
     \/ compareValues(r.min, list[i].max) <= 0, "range-overlap")
  \cup If(i < Len(list), "range-ascending")

\* In the middle, pp->nextPtr is set to NULL after p has been linked in: p and
\* what follows leave the list.
Linked(list, r, i) == IF i = Len(list) THEN Append(list, r) ELSE SubSeq(list, 1, i)

(***************************************************************************)
(* smiGetMinSize(), smiGetMaxSize(): over the list and up the derivation.  *)
(***************************************************************************)

OwnMin(list) ==
  LET min == Min({SIZE_MAX} \cup {AsUnsigned(list[i].min.value) :
                                    i \in DOMAIN list})
  IN  IF min < SIZE_MAX THEN min ELSE 0

\* Mutant: the upper limit of the first range is taken for the largest one.
OwnMax_First(list) ==
  IF list = <<>> \/ AsUnsigned(list[1].max.value) \notin 1 .. SIZE_MAX - 1
  THEN SIZE_MAX ELSE AsUnsigned(list[1].max.value)

OwnMax(list) ==
  LET max == Max({0} \cup {AsUnsigned(list[i].max.value) : i \in DOMAIN list})
  IN  IF max > 0 /\ max < SIZE_MAX THEN max ELSE SIZE_MAX

\* A type's parent is the type before it; the first one's is a basetype.
smiGetMinSize[t \in 0 .. Len(types)] ==
  IF t = 0 \/ types[t].base # "OCTETSTRING" THEN 0
  ELSE Max({OwnMin(types[t].list), smiGetMinSize[t - 1]})

smiGetMaxSize[t \in 0 .. Len(types)] ==
  IF t = 0 THEN SIZE_MAX
  ELSE IF types[t].base # "OCTETSTRING" THEN UINT_MAX
  ELSE Min({OwnMax(types[t].list), smiGetMaxSize[t - 1]})

(***************************************************************************)
(* smiCheckValueType() of a DEFVAL.                                        *)
(***************************************************************************)

DefaultOutOfBasetype(b, v) ==
  \/ /\ b = "INTEGER32"
     /\ \/ v.basetype = "INTEGER64" /\ (v.value < -INT_MAX - 1 \/ v.value > INT_MAX)
        \/ v.basetype = "UNSIGNED32" /\ v.value > INT_MAX
        \/ v.basetype = "UNSIGNED64" /\ AsUnsigned(v.value) > INT_MAX
  \/ /\ b = "UNSIGNED32"
     /\ \/ v.basetype = "INTEGER64" /\ (v.value < 0 \/ v.value > UINT_MAX)
        \/ v.basetype = "INTEGER32" /\ v.value < 0

\* A value of another basetype than a range's limits compares as equal.
CastDefault(b, v) == IF b \in Casting THEN Cast(b, v)
                                      ELSE [v EXCEPT !.basetype = b]

\* Mutant: a value next to a range is taken to be inside.
ValueErrors_Near(ty, v) ==
  LET c == CastDefault(ty.base, v) IN
  If(DefaultOutOfBasetype(ty.base, v), "defval-basetype")
  \cup If(/\ ty.base \in NumberType
          /\ ~\E i \in DOMAIN ty.list :
                 /\ compareValues(ty.list[i].min, c) <= 0
                 /\ compareValues(ty.list[i].max, c) >= -1, "defval-range")

ValueErrors(ty, v) ==
  LET c == CastDefault(ty.base, v) IN
  If(DefaultOutOfBasetype(ty.base, v), "defval-basetype")
  \cup If(/\ ty.base \in NumberType
          /\ ~\E i \in DOMAIN ty.list :
                 /\ compareValues(ty.list[i].min, c) <= 0
                 /\ compareValues(ty.list[i].max, c) >= 0, "defval-range")

(***************************************************************************)
(* Actions                                                                 *)
(***************************************************************************)

Init ==
  /\ language \in {"smiv1", "smiv2", "sppi"}
  /\ types = <<>>
  /\ job = Idle
  /\ default = NoDefault

\* The parser creates a type with duplicateType(parent), sets its list and
\* calls smiCheckTypeRanges(); the result of the last DEFVAL is forgotten.
BeginType(b, w) ==
  /\ job.st = "idle"
  /\ Len(types) < MaxTypes
  /\ w \in Restrictions[Len(types) + 1]
  /\ types # <<>> => b = types[Len(types)].base
  /\ b \in {"INTEGER64", "UNSIGNED64"} => language = "sppi"
  /\ job' = [Idle EXCEPT !.st = "check", !.base = b, !.written = w,
                         !.rest = <<>> \o [i \in DOMAIN w |-> ScanRange(w[i])],
                         !.errors = UNION {ScanErrors(w[i][1])
                                           \cup ScanErrors(w[i][2]) :
                                             i \in DOMAIN w}]
  /\ default' = NoDefault
  /\ UNCHANGED <<language, types>>

\* One iteration of the first loop: the limits are cast and exchanged, and the
\* first range and one that belongs at the head are linked in.
CheckRange ==
  /\ job.st = "check"
  /\ job.rest # <<>>
  /\ LET raw == Head(job.rest)
         cast == Limits(job.base, raw)
         r == Ordered(cast)
         errors == job.errors \cup If(\/ OutOfBasetype(job.base, raw.min)
                                      \/ OutOfBasetype(job.base, raw.max),
                                      "range-bounds")
                              \cup If(Exchanged(cast), "range-exchanged")
     IN  \/ /\ job.list = <<>>
            /\ job' = [job EXCEPT !.rest = Tail(@), !.list = <<r>>,
                                  !.errors = errors]
         \/ /\ job.list # <<>>
            /\ AtHead(job.list, r)
            /\ job' = [job EXCEPT !.rest = Tail(@), !.list = <<r>> \o @,
                                  !.errors = errors \cup HeadErrors(job.list, r)]
         \/ /\ job.list # <<>>
            /\ ~AtHead(job.list, r)
            /\ job' = [job EXCEPT !.rest = Tail(@), !.st = "seek", !.at = 1,
                                  !.range = r, !.errors = errors]
  /\ UNCHANGED <<language, types, default>>

\* The inner loop over pp.
SeekOn ==
  /\ job.st = "seek"
  /\ ~Found(job.list, job.range, job.at)
  /\ job' = [job EXCEPT !.at = @ + 1]
  /\ UNCHANGED <<language, types, default>>

LinkRange ==
  /\ job.st = "seek"
  /\ Found(job.list, job.range, job.at)
  /\ job' = [job EXCEPT
       !.st = "check",
       !.list = Linked(job.list, job.range, job.at),
       !.errors = @ \cup LinkErrors(job.list, job.range, job.at)]
  /\ UNCHANGED <<language, types, default>>

EndOfRanges ==
  /\ job.st = "check"
  /\ job.rest = <<>>
  /\ job' = [job EXCEPT !.st = "normalize"]
  /\ UNCHANGED <<language, types, default>>

\* Mutant: ranges that are two apart are joined too.
Adjacent_Near(list) == /\ Len(list) > 1
                       /\ compareValues(list[1].max, list[2].min) < 0

\* Mutant: nothing is joined.
Adjacent_Never(list) == FALSE

\* The first range ends just before the second one starts.
Adjacent(list) == /\ Len(list) > 1
                  /\ compareValues(list[1].max, list[2].min) = -1

\* One iteration of the second loop: the next range takes over an adjacent
\* one, which is freed.
JoinRanges ==
  /\ job.st = "normalize"
  /\ Adjacent(job.list)
  /\ job' = [job EXCEPT
       !.list = <<[job.list[2] EXCEPT !.min = job.list[1].min]>>
                \o Tail(Tail(job.list))]
  /\ UNCHANGED <<language, types, default>>

KeepRange ==
  /\ job.st = "normalize"
  /\ job.list # <<>>
  /\ ~Adjacent(job.list)
  /\ job' = [job EXCEPT !.kept = Append(@, Head(job.list)), !.list = Tail(@)]
  /\ UNCHANGED <<language, types, default>>

\* The type is left with the list that was kept.
EndType ==
  /\ job.st = "normalize"
  /\ job.list = <<>>
  /\ types' = Append(types, [base |-> job.base, written |-> job.written,
                             list |-> job.kept, errors |-> job.errors])
  /\ job' = Idle
  /\ UNCHANGED <<language, default>>

\* An object of type t has the DEFVAL n.
CheckDefault(t, n) ==
  /\ job.st = "idle"
  /\ default' = [type |-> t, number |-> n,
                 errors |-> ScanErrors(n) \cup ValueErrors(types[t], Scan(n))]
  /\ UNCHANGED <<language, types, job>>

Next ==
  \/ \E b \in Basetype, w \in Limited : BeginType(b, w)
  \/ CheckRange
  \/ SeekOn
  \/ LinkRange
  \/ EndOfRanges
  \/ JoinRanges
  \/ KeepRange
  \/ EndType
  \/ \E t \in DOMAIN types, n \in Numbers : CheckDefault(t, n)

Spec == Init /\ [][Next]_vars

(***************************************************************************)
(* Properties                                                              *)
(***************************************************************************)

\* Every variable has its type.
TypeOK ==
  /\ language \in {"smiv1", "smiv2", "sppi"}
  /\ types \in Seq(Type)
  /\ job \in Job
  /\ default \in [type : 0 .. Len(types), number : Int, errors : SUBSET Error]

\* The ranges of s are in ascending order of their lower limits.
Ascending(s) ==
  \A i, j \in DOMAIN s : i < j => compareValues(s[i].min, s[j].min) <= 0

\* What smiCheckTypeRanges() leaves is sorted, whatever the order in which the
\* ranges were written, which of them overlap and which were exchanged.
ListsSorted ==
  \A t \in DOMAIN types : types[t].base \in Casting => Ascending(types[t].list)

\* It is also normalized: no range ends just before the next one starts.
ListsNormalized ==
  \A t \in DOMAIN types : types[t].base \in Casting =>
    \A i \in 1 .. Len(types[t].list) - 1 :
       types[t].list[i].max.value # types[t].list[i + 1].min.value - 1

Low(p)  == Min({p[1], p[2]})
High(p) == Max({p[1], p[2]})
InType(b, n) ==
  CASE b = "INTEGER32"   -> n \in -INT_MAX - 1 .. INT_MAX
    [] b = "UNSIGNED32"  -> n \in 0 .. UINT_MAX
    [] b = "OCTETSTRING" -> n \in 0 .. SIZE_MAX
    [] OTHER             -> TRUE
LimitsIn(b, w) == \A i \in DOMAIN w : InType(b, w[i][1]) /\ InType(b, w[i][2])
Allowed(w) == UNION {Low(w[i]) .. High(w[i]) : i \in DOMAIN w}
Kept(list) == UNION {list[i].min.value .. list[i].max.value : i \in DOMAIN list}

\* A range is written between two earlier ones.
Between(w) ==
  \E i, j, k \in DOMAIN w : /\ j < i /\ k < i
                            /\ Low(w[j]) < Low(w[i])
                            /\ Low(w[i]) <= Low(w[k])

\* Sorting and joining change the list, not the numbers it allows, unless a
\* range is written between two earlier ones.
NumbersKept ==
  \A t \in DOMAIN types :
    LET ty == types[t] IN
    ty.base \in Casting /\ LimitsIn(ty.base, ty.written) /\ ~Between(ty.written)
      => Kept(ty.list) = Allowed(ty.written)

WellFormed(b, w) ==
  /\ LimitsIn(b, w)
  /\ \A i \in DOMAIN w : w[i][1] <= w[i][2]
  /\ \A i, j \in DOMAIN w : i < j => w[i][2] < w[j][1]

\* The scanner reads a number, and both limits of a range, as 32 bit numbers.
Scanned(n) == Scan(n).value = n /\ Scan(n).basetype \in {"INTEGER32", "UNSIGNED32"}
Short(p)   == Scanned(p[1]) /\ Scanned(p[2])

\* An error is reported for a list of ranges exactly if something is wrong with
\* it: limits outside the basetype, exchanged limits, an overlap, disorder.
ErrorsJustified ==
  \A t \in DOMAIN types :
    LET ty == types[t] IN
    /\ ty.base \in Casting
    /\ \A i \in DOMAIN ty.written : Short(ty.written[i])
    => (ty.errors = {} <=> WellFormed(ty.base, ty.written))

\* What is left of a list of ranges allows the numbers that were written, and
\* errors are reported of it exactly if something is wrong with it.
RangesJudged == NumbersKept /\ ErrorsJustified

\* A string that meets every restriction up the derivation has a size between
\* smiGetMinSize() and smiGetMaxSize(), which applications allocate from.
SizesCover ==
  \A t \in DOMAIN types :
    /\ types[t].base = "OCTETSTRING"
    /\ \A u \in 1 .. t : LimitsIn("OCTETSTRING", types[u].written)
                         /\ ~Between(types[u].written)
    => \A n \in 0 .. SIZE_MAX :
         (\A u \in 1 .. t : n \in Allowed(types[u].written)) =>
            smiGetMinSize[t] <= n /\ n <= smiGetMaxSize[t]

\* A DEFVAL is rejected exactly if it is outside its type's ranges as they were
\* written, before they were sorted and joined.
DefaultsJudged ==
  default.type # 0 =>
    LET ty == types[default.type]
        n == default.number
    IN  /\ ty.base \in {"INTEGER32", "UNSIGNED32"}
        /\ LimitsIn(ty.base, ty.written)
        /\ ~Between(ty.written)
        /\ Scanned(n)
        => (default.errors = {} <=> n \in Allowed(ty.written))

\* The sizes and DEFVALs that are derived from the ranges agree with what was
\* written, all the way up the derivation.
ValuesJudged == SizesCover /\ DefaultsJudged
=============================================================================
