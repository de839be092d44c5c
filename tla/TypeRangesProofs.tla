-------------------------- MODULE TypeRangesProofs --------------------------
(***************************************************************************)
(* Proofs about TypeRanges for integers of every width, restrictions of    *)
(* every length and derivations of every depth: whatever is written, the   *)
(* list smiCheckTypeRanges() leaves is in ascending order and normalized,  *)
(* allows the numbers that were written, and is reported exactly if it is  *)
(* in error; DEFVALs and sizes are judged by what was written.             *)
(*                                                                         *)
(* IInv says what the list looks like, CoverInv what it stands for, ErrInv *)
(* what has been reported of it so far.                                    *)
(***************************************************************************)
EXTENDS TypeRanges, SequenceTheorems, WellFoundedInduction, TLAPS

\* The limits of all ranges of s have the basetype that b is cast to.
Uniform(b, s) ==
  \A i \in DOMAIN s : /\ s[i].min.basetype = CastTo[b]
                      /\ s[i].max.basetype = CastTo[b]

Sorted(s) == \A i, j \in DOMAIN s : i < j => s[i].min.value <= s[j].min.value

\* No range of s ends just before the next one.
Apart(s) ==
  \A i \in 1 .. Len(s) - 1 : s[i].max.value # s[i + 1].min.value - 1

Below(s, r) == \A i \in DOMAIN s : s[i].min.value <= r.min.value

\* The inductive invariant: what is kept is final, and comes before what is left.
JobInv ==
  /\ job.st # "normalize" => job.kept = <<>>
  /\ job.st = "seek" => job.at \in 1 .. Len(job.list)
  /\ job.base \in Casting =>
       /\ job.st = "seek" =>
            /\ job.range.min.basetype = CastTo[job.base]
            /\ job.range.max.basetype = CastTo[job.base]
            /\ \A i \in 1 .. job.at :
                 job.list[i].min.value < job.range.min.value
       /\ Uniform(job.base, job.list)
       /\ Uniform(job.base, job.kept)
       /\ Sorted(job.list)
       /\ Sorted(job.kept)
       /\ Apart(job.kept)
       /\ job.list # <<>> =>
            /\ Below(job.kept, job.list[1])
            /\ job.kept # <<>> =>
                 job.kept[Len(job.kept)].max.value # job.list[1].min.value - 1

TypesInv ==
  \A t \in DOMAIN types : types[t].base \in Casting =>
    /\ Uniform(types[t].base, types[t].list)
    /\ Sorted(types[t].list)
    /\ Apart(types[t].list)

IInv == TypeOK /\ JobInv /\ TypesInv

-----------------------------------------------------------------------------
(***************************************************************************)
(* Values                                                                  *)
(***************************************************************************)

\* The constants that the widths give are numbers.
LEMMA Widths == /\ INT_MAX \in Nat /\ INT_MAX > 0
                /\ UINT_MAX \in Nat
                /\ Modulus \in Nat /\ Modulus > 0 /\ Modulus = UINT_MAX + 1
                /\ ULONG_MAX \in Nat /\ LONG_MAX \in Nat
  BY WidthAssumption DEF UINT_MAX, Modulus, ULONG_MAX

\* Reinterpreting an integer gives one of the type's width.
LEMMA Reinterpreted ==
  ASSUME NEW n \in Int
  PROVE  /\ AsUnsigned(n) \in 0 .. UINT_MAX
         /\ AsSigned(n) \in -INT_MAX - 1 .. INT_MAX
<1>1. AsUnsigned(n) \in 0 .. UINT_MAX
  BY Widths DEF AsUnsigned
<1>2. QED
  BY <1>1, Widths DEF AsSigned, UINT_MAX, Modulus

\* What the scanner reads is a value.
LEMMA ScanValue == ASSUME NEW n \in Int PROVE Scan(n) \in Value
<1>1. -LONG_MAX - 1 \in Int /\ UINT_MAX \in 0 .. UINT_MAX
  BY Widths
<1>2. QED
  BY <1>1, Reinterpreted, Widths DEF Scan, Value, NumberType

\* A cast value is one of the basetype that is cast to.
LEMMA CastValue ==
  ASSUME NEW b \in Basetype, NEW v \in Value
  PROVE  /\ Cast(b, v) \in Value
         /\ b \in Casting => Cast(b, v).basetype = CastTo[b]
<1>1. v.value \in Int
  BY DEF Value
<1>2. /\ CastTo["INTEGER32"] = "INTEGER32" /\ CastTo["UNSIGNED32"] = "UNSIGNED32"
      /\ CastTo["OCTETSTRING"] = "UNSIGNED32"
      /\ Casting = {"INTEGER32", "UNSIGNED32", "OCTETSTRING"}
  BY DEF CastTo, Casting
<1>3. QED
  BY <1>1, <1>2, Reinterpreted DEF Cast, Value, NumberType

\* Values of the same 32 bit type are compared as numbers, -1 being adjacency.
LEMMA Compared ==
  ASSUME NEW a \in Value, NEW b \in Value, a.basetype = b.basetype,
         a.basetype \in {"INTEGER32", "UNSIGNED32"}
  PROVE  /\ compareValues(a, b) <= 0 <=> a.value <= b.value
         /\ compareValues(a, b) > 0 <=> a.value > b.value
         /\ compareValues(a, b) = -1 <=> a.value = b.value - 1
  BY DEF compareValues, Clamp, Value

LEMMA CastTypes == \A b \in Casting : CastTo[b] \in {"INTEGER32", "UNSIGNED32"}
  BY DEF Casting, CastTo

LEMMA RangeFields ==
  ASSUME NEW r \in RangeOf
  PROVE  r.min \in Value /\ r.max \in Value
  BY DEF RangeOf

\* Each element of a list of ranges is one, and has limits.
LEMMA ListFacts ==
  ASSUME NEW s \in Seq(RangeOf)
  PROVE  /\ Len(s) \in Nat /\ DOMAIN s = 1 .. Len(s)
         /\ \A i \in DOMAIN s : /\ s[i] \in RangeOf
                               /\ s[i].min \in Value /\ s[i].max \in Value
                               /\ s[i].min.value \in Int
                               /\ s[i].max.value \in Int
         /\ s # <<>> <=> Len(s) > 0
<1>1. Len(s) \in Nat /\ DOMAIN s = 1 .. Len(s)
  BY LenProperties
<1>2. \A i \in DOMAIN s : s[i] \in RangeOf
  BY <1>1, ElementOfSeq
<1>3. s # <<>> <=> Len(s) > 0
  BY EmptySeq, <1>1
<1>4. QED
  BY <1>1, <1>2, <1>3, RangeFields DEF Value

-----------------------------------------------------------------------------
(***************************************************************************)
(* Lists: what each way of linking a range preserves.                      *)
(***************************************************************************)

\* A range put before a sorted list that starts no lower.
LEMMA PutFirst ==
  ASSUME NEW b \in Casting, NEW s \in Seq(RangeOf), NEW r \in RangeOf,
         Uniform(b, s), Sorted(s), r.min.basetype = CastTo[b],
         r.max.basetype = CastTo[b],
         s # <<>> => r.min.value <= s[1].min.value
  PROVE  /\ <<r>> \o s \in Seq(RangeOf)
         /\ Uniform(b, <<r>> \o s)
         /\ Sorted(<<r>> \o s)
         /\ <<r>> \o s # <<>>
         /\ (<<r>> \o s)[1] = r
<1> DEFINE u == <<r>> \o s
<1>1. /\ <<r>> \in Seq(RangeOf) /\ Len(<<r>>) = 1 /\ <<r>>[1] = r
  OBVIOUS
<1>2. /\ u \in Seq(RangeOf) /\ Len(u) = 1 + Len(s)
      /\ \A i \in 1 .. 1 + Len(s) : u[i] = IF i <= 1 THEN r ELSE s[i - 1]
  <2>1. \A i \in 1 .. 1 : <<r>>[i] = r
    BY <1>1
  <2>2. QED
    BY <1>1, <2>1, ConcatProperties, ListFacts
<1>3. /\ Len(s) \in Nat /\ DOMAIN s = 1 .. Len(s) /\ DOMAIN u = 1 .. 1 + Len(s)
      /\ \A i \in 1 .. Len(s) : s[i].min.value \in Int
      /\ r.min.value \in Int
  BY <1>2, ListFacts, RangeFields DEF Value
<1>4. Uniform(b, u)
  BY <1>2, <1>3 DEF Uniform
<1>5. \A i \in 1 .. Len(s) : r.min.value <= s[i].min.value
  <2> SUFFICES ASSUME NEW i \in 1 .. Len(s)
               PROVE  r.min.value <= s[i].min.value
    OBVIOUS
  <2>1. s # <<>> /\ 1 \in 1 .. Len(s) /\ r.min.value <= s[1].min.value
    BY <1>3, ListFacts
  <2>2. s[1].min.value <= s[i].min.value
    BY <2>1, <1>3 DEF Sorted
  <2>3. QED
    BY <2>1, <2>2, <1>3
<1>6. Sorted(u)
  <2> SUFFICES ASSUME NEW i \in 1 .. 1 + Len(s), NEW j \in 1 .. 1 + Len(s), i < j
               PROVE  u[i].min.value <= u[j].min.value
    BY <1>3 DEF Sorted
  <2>1. j > 1 /\ u[j] = s[j - 1] /\ j - 1 \in 1 .. Len(s)
    BY <1>2, <1>3
  <2>2. CASE i = 1
    BY <2>1, <2>2, <1>2, <1>3, <1>5
  <2>3. CASE i > 1
    <3>1. u[i] = s[i - 1] /\ i - 1 \in 1 .. Len(s) /\ i - 1 < j - 1
      BY <2>3, <1>2, <1>3
    <3>2. QED
      BY <2>1, <3>1, <1>3 DEF Sorted
  <2>4. QED
    BY <2>2, <2>3
<1>7. QED
  BY <1>2, <1>3, <1>4, <1>6, ListFacts

\* A range appended to a sorted list that does not end higher.
LEMMA PutLast ==
  ASSUME NEW b \in Casting, NEW s \in Seq(RangeOf), NEW r \in RangeOf,
         Uniform(b, s), Sorted(s), Below(s, r), r.min.basetype = CastTo[b],
         r.max.basetype = CastTo[b]
  PROVE  /\ Append(s, r) \in Seq(RangeOf)
         /\ Uniform(b, Append(s, r))
         /\ Sorted(Append(s, r))
<1> DEFINE u == Append(s, r)
<1>1. /\ u \in Seq(RangeOf) /\ Len(u) = Len(s) + 1
      /\ \A i \in 1 .. Len(s) : u[i] = s[i]
      /\ u[Len(s) + 1] = r
  BY AppendProperties
<1>2. /\ Len(s) \in Nat /\ DOMAIN s = 1 .. Len(s) /\ DOMAIN u = 1 .. Len(s) + 1
  BY <1>1, ListFacts
<1>3. Uniform(b, u)
  BY <1>1, <1>2 DEF Uniform
<1>4. Sorted(u)
  <2> HIDE DEF u
  <2> SUFFICES ASSUME NEW i \in 1 .. Len(s) + 1, NEW j \in 1 .. Len(s) + 1, i < j
               PROVE  u[i].min.value <= u[j].min.value
    BY <1>2 DEF Sorted
  <2>1. i \in 1 .. Len(s) /\ u[i] = s[i]
    BY <1>1, <1>2
  <2>2. CASE j = Len(s) + 1
    BY <2>1, <2>2, <1>1, <1>2 DEF Below
  <2>3. CASE j # Len(s) + 1
    BY <2>1, <2>3, <1>1, <1>2 DEF Sorted
  <2>4. QED
    BY <2>2, <2>3
<1>5. QED
  BY <1>1, <1>3, <1>4

\* A prefix of a sorted list.
LEMMA Cut ==
  ASSUME NEW b \in Casting, NEW s \in Seq(RangeOf), NEW n \in 1 .. Len(s),
         Uniform(b, s), Sorted(s)
  PROVE  /\ SubSeq(s, 1, n) \in Seq(RangeOf)
         /\ Uniform(b, SubSeq(s, 1, n))
         /\ Sorted(SubSeq(s, 1, n))
<1> DEFINE u == SubSeq(s, 1, n)
<1>1. Len(s) \in Nat /\ DOMAIN s = 1 .. Len(s) /\ \A i \in 1 .. n : s[i] \in RangeOf
  BY ListFacts
<1>2. u \in Seq(RangeOf) /\ Len(u) = n /\ \A i \in 1 .. n : u[i] = s[i]
  BY <1>1, SubSeqProperties
<1>3. DOMAIN u = 1 .. n
  BY <1>2, ListFacts
<1>4. QED
  BY <1>1, <1>2, <1>3 DEF Uniform, Sorted

-----------------------------------------------------------------------------
(***************************************************************************)
(* The steps                                                               *)
(***************************************************************************)

\* A range that is cast and exchanged has limits of the basetype.
LEMMA Ready ==
  ASSUME NEW b \in Basetype, NEW raw \in RangeOf
  PROVE  LET r == Ordered(Limits(b, raw)) IN
         /\ r \in RangeOf
         /\ b \in Casting => /\ r.min.basetype = CastTo[b]
                            /\ r.max.basetype = CastTo[b]
<1>1. raw.min \in Value /\ raw.max \in Value
  BY RangeFields
<1>2. /\ Limits(b, raw).min = Cast(b, raw.min)
      /\ Limits(b, raw).max = Cast(b, raw.max)
      /\ Limits(b, raw) \in RangeOf
  BY <1>1, CastValue DEF Limits, RangeOf
<1>3. /\ b \in Casting => /\ Limits(b, raw).min.basetype = CastTo[b]
                         /\ Limits(b, raw).max.basetype = CastTo[b]
  BY <1>1, <1>2, CastValue
<1>4. QED
  BY <1>2, <1>3, RangeFields DEF Ordered, RangeOf

LEMMA InitIInv == Init => IInv
<1> SUFFICES ASSUME Init PROVE IInv
  OBVIOUS
<1>1. Zero \in Value
  BY Widths DEF Zero, Value, NumberType
<1>2. Idle \in Job
  BY <1>1, EmptySeq DEF Idle, Job, RangeOf, Written, Basetype
<1>3. TypeOK
  BY <1>2, EmptySeq DEF Init, TypeOK, NoDefault
<1>4. QED
  BY <1>3 DEF Init, IInv, JobInv, TypesInv, Idle, Casting, CastTo

LEMMA BeginTypeInv ==
  ASSUME IInv, NEW b \in Basetype, NEW w \in Limited,
         BeginType(b, w)
  PROVE  IInv'
<1> USE DEF IInv
<1>1. w \in Seq(Int \X Int)
  <2>1. PICK d \in DOMAIN Restrictions : w \in Restrictions[d]
    BY DEF Limited
  <2>2. Restrictions[d] \in SUBSET (Seq(Int \X Int) \ {<<>>})
    BY RestrictionAssumption, LenProperties, ElementOfSeq
  <2>3. QED
    BY <2>1, <2>2
<1> DEFINE f == [i \in DOMAIN w |-> ScanRange(w[i])]
           e == UNION {ScanErrors(w[i][1]) \cup ScanErrors(w[i][2]) : i \in DOMAIN w}
<1>2. <<>> \o f \in Seq(RangeOf)
  <2>1. DOMAIN w = 1 .. Len(w) /\ Len(w) \in Nat
    BY <1>1, LenProperties
  <2>2. \A i \in DOMAIN w : ScanRange(w[i]) \in RangeOf
    <3>1. \A i \in DOMAIN w : w[i][1] \in Int /\ w[i][2] \in Int
      BY <1>1, <2>1, ElementOfSeq
    <3>2. QED
      BY <3>1, ScanValue DEF ScanRange, RangeOf
  <2>3. f \in [1 .. Len(w) -> RangeOf]
    BY <2>1, <2>2
  <2>4. f \in Seq(RangeOf)
    BY <2>1, <2>3, SeqDef
  <2>5. QED
    BY <2>4, ConcatEmptySeq
<1>3. e \in SUBSET Error
  BY DEF ScanErrors, Error
<1>4. job' = [Idle EXCEPT !.st = "check", !.base = b, !.written = w,
                          !.rest = <<>> \o f, !.errors = e]
  BY DEF BeginType
<1>5. /\ job'.st = "check" /\ job'.base = b /\ job'.list = <<>>
      /\ job'.kept = <<>>
  BY <1>4 DEF Idle
<1>6. job' \in Job
  <2>1. Zero \in Value
    BY Widths DEF Zero, Value, NumberType
  <2>2. Idle \in Job
    BY <2>1, EmptySeq DEF Idle, Job, RangeOf, Written, Basetype
  <2> HIDE DEF f, e, Idle
  <2>3. QED
    BY <2>2, <1>1, <1>2, <1>3, <1>4 DEF Job, Written
<1>7. TypeOK'
  BY <1>6 DEF BeginType, TypeOK, NoDefault
<1>8. JobInv'
  BY <1>5 DEF JobInv, Uniform, Sorted, Apart, Below
<1>9. TypesInv'
  BY DEF BeginType, TypesInv
<1>10. QED
  BY <1>7, <1>8, <1>9

LEMMA CheckRangeInv == ASSUME IInv, CheckRange PROVE IInv'
<1> USE DEF IInv
<1>1. job \in Job /\ job.base \in Basetype
  BY DEF TypeOK, Job
<1>2. Head(job.rest) \in RangeOf /\ Tail(job.rest) \in Seq(RangeOf)
  BY <1>1, HeadTailProperties DEF CheckRange, Job
<1> DEFINE raw == Head(job.rest)
           cast == Limits(job.base, raw)
           r == Ordered(cast)
           errors == job.errors \cup If(\/ OutOfBasetype(job.base, raw.min)
                                        \/ OutOfBasetype(job.base, raw.max),
                                        "range-bounds")
                                \cup If(Exchanged(cast), "range-exchanged")
<1>3. /\ r \in RangeOf
      /\ job.base \in Casting => /\ r.min.basetype = CastTo[job.base]
                                /\ r.max.basetype = CastTo[job.base]
  BY <1>1, <1>2, Ready
<1>4. errors \in SUBSET Error /\ HeadErrors(job.list, r) \in SUBSET Error
  BY <1>1 DEF If, Error, HeadErrors, Job
<1>5. job.list \in Seq(RangeOf) /\ job.st = "check" /\ job.kept = <<>>
  BY <1>1 DEF JobInv, CheckRange, Job
<1>6. UNCHANGED <<language, types, default>>
  BY DEF CheckRange
<1>7. \/ /\ job.list = <<>>
         /\ job' = [job EXCEPT !.rest = Tail(job.rest), !.list = <<r>>,
                               !.errors = errors]
      \/ /\ job.list # <<>>
         /\ AtHead(job.list, r)
         /\ job' = [job EXCEPT !.rest = Tail(job.rest),
                               !.list = <<r>> \o job.list,
                               !.errors = errors \cup HeadErrors(job.list, r)]
      \/ /\ job.list # <<>>
         /\ ~AtHead(job.list, r)
         /\ job' = [job EXCEPT !.rest = Tail(job.rest), !.st = "seek", !.at = 1,
                               !.range = r, !.errors = errors]
  BY DEF CheckRange
<1>8. job.list # <<>> => /\ Len(job.list) \in Nat /\ Len(job.list) > 0
                         /\ job.list[1] \in RangeOf /\ 1 \in DOMAIN job.list
  BY <1>5, ListFacts
<1>9. job.base \in Casting /\ job.list # <<>> =>
        (compareValues(r.min, job.list[1].min) <= 0
           <=> r.min.value <= job.list[1].min.value)
  BY <1>3, <1>8, RangeFields, Compared, CastTypes DEF JobInv, Uniform
<1> HIDE DEF raw, cast, r, errors
<1>10. CASE job.list = <<>> \/ AtHead(job.list, r)
  <2> DEFINE u == <<r>> \o job.list
  <2>1. /\ job'.st = "check" /\ job'.base = job.base /\ job'.kept = <<>>
        /\ job'.list = u
    <3>1. job.list = <<>> => u = <<r>>
      BY <1>3, ConcatEmptySeq
    <3>2. QED
      BY <1>1, <1>5, <1>7, <1>10, <3>1 DEF Job
  <2>2. u \in Seq(RangeOf)
    <3>1. <<r>> \in Seq(RangeOf)
      BY <1>3
    <3>2. QED
      BY <3>1, <1>5, ConcatProperties
  <2>3. job' \in Job
    <3>1. job.list = <<>> => u = <<r>>
      BY <1>3, ConcatEmptySeq
    <3>2. PICK e \in SUBSET Error :
            job' = [job EXCEPT !.rest = Tail(job.rest), !.list = u, !.errors = e]
      <4>1. CASE job.list = <<>>
        BY <1>4, <1>7, <3>1, <4>1
      <4>2. CASE job.list # <<>>
        <5>1. errors \cup HeadErrors(job.list, r) \in SUBSET Error
          BY <1>4
        <5>2. QED
          BY <1>7, <1>10, <4>2, <5>1
      <4>3. QED
        BY <4>1, <4>2
    <3> HIDE DEF u
    <3>3. QED
      BY <1>1, <1>2, <2>2, <3>2 DEF Job
  <2>4. JobInv'
    <3>1. ASSUME job.base \in Casting
          PROVE  Uniform(job.base, u) /\ Sorted(u)
      <4>1. job.list # <<>> => r.min.value <= job.list[1].min.value
        BY <1>9, <1>10, <3>1 DEF AtHead
      <4>2. QED
        BY <1>3, <1>5, <3>1, <4>1, PutFirst DEF JobInv
    <3>2. /\ Uniform(job.base, <<>>) /\ Sorted(<<>>) /\ Apart(<<>>)
          /\ Below(<<>>, job'.list[1])
      BY DEF Uniform, Sorted, Apart, Below
    <3> HIDE DEF u
    <3>3. QED
      BY <2>1, <3>1, <3>2 DEF JobInv
  <2>5. QED
    BY <1>6, <2>3, <2>4 DEF TypeOK, TypesInv
<1>11. CASE job.list # <<>> /\ ~AtHead(job.list, r)
  <2>1. job' = [job EXCEPT !.rest = Tail(job.rest), !.st = "seek", !.at = 1,
                           !.range = r, !.errors = errors]
    BY <1>7, <1>11
  <2>2. job' \in Job
    BY <1>1, <1>2, <1>3, <1>4, <2>1 DEF Job
  <2>3. /\ job'.st = "seek" /\ job'.base = job.base /\ job'.kept = <<>>
        /\ job'.list = job.list /\ job'.at = 1 /\ job'.range = r
    BY <1>1, <1>5, <2>1 DEF Job
  <2>4. 1 \in 1 .. Len(job.list)
    BY <1>8, <1>11
  <2>5. job.base \in Casting =>
          \A i \in 1 .. 1 : job.list[i].min.value < r.min.value
    BY <1>3, <1>5, <1>8, <1>9, <1>11, ListFacts, RangeFields DEF AtHead, Value
  <2>6. JobInv'
    BY <1>3, <1>5, <2>3, <2>4, <2>5 DEF JobInv
  <2>7. QED
    BY <1>6, <2>2, <2>6 DEF TypeOK, TypesInv
<1>12. QED
  BY <1>10, <1>11

LEMMA SeekOnInv == ASSUME IInv, SeekOn PROVE IInv'
<1> USE DEF IInv
<1>1. /\ job \in Job /\ job.st = "seek" /\ job.list \in Seq(RangeOf)
      /\ job.range \in RangeOf /\ job.at \in 1 .. Len(job.list)
      /\ Len(job.list) \in Nat
  BY ListFacts DEF TypeOK, JobInv, SeekOn, Job
<1>2. /\ job' = [job EXCEPT !.at = job.at + 1]
      /\ UNCHANGED <<language, types, default>>
      /\ ~Found(job.list, job.range, job.at)
  BY DEF SeekOn
<1>3. /\ job.at < Len(job.list) /\ job.at + 1 \in 1 .. Len(job.list)
      /\ ~(compareValues(job.range.min, job.list[job.at + 1].min) <= 0)
  BY <1>1, <1>2 DEF Found
<1>4. job' \in Job
  BY <1>1, <1>2 DEF Job
<1>5. job.base \in Casting =>
        job.list[job.at + 1].min.value < job.range.min.value
  <2> SUFFICES ASSUME job.base \in Casting
               PROVE  job.list[job.at + 1].min.value < job.range.min.value
    OBVIOUS
  <2>1. /\ job.list[job.at + 1].min \in Value /\ job.range.min \in Value
        /\ job.list[job.at + 1].min.value \in Int
        /\ job.at + 1 \in DOMAIN job.list
    BY <1>1, <1>3, ListFacts, RangeFields
  <2>2. job.list[job.at + 1].min.basetype = job.range.min.basetype
    BY <1>1, <2>1 DEF JobInv, Uniform
  <2>3. job.range.min.basetype \in {"INTEGER32", "UNSIGNED32"}
    BY <1>1, CastTypes DEF JobInv
  <2>4. ~(job.range.min.value <= job.list[job.at + 1].min.value)
    BY <1>3, <2>1, <2>2, <2>3, Compared
  <2>5. job.range.min.value \in Int
    BY <2>1 DEF Value
  <2>6. QED
    BY <2>1, <2>4, <2>5
<1>6. JobInv'
  <2>1. /\ job'.st = "seek" /\ job'.base = job.base /\ job'.kept = job.kept
        /\ job'.list = job.list /\ job'.at = job.at + 1
        /\ job'.range = job.range
    BY <1>1, <1>2 DEF Job
  <2>2. \A i \in 1 .. job.at + 1 : i \in 1 .. job.at \/ i = job.at + 1
    BY <1>1
  <2>3. QED
    BY <1>1, <1>3, <1>5, <2>1, <2>2 DEF JobInv
<1>7. QED
  BY <1>2, <1>4, <1>6 DEF TypeOK, TypesInv

LEMMA LinkRangeInv == ASSUME IInv, LinkRange PROVE IInv'
<1> USE DEF IInv
<1>1. /\ job \in Job /\ job.st = "seek" /\ job.list \in Seq(RangeOf)
      /\ job.range \in RangeOf /\ job.at \in 1 .. Len(job.list)
      /\ Len(job.list) \in Nat
  BY ListFacts DEF TypeOK, JobInv, LinkRange, Job
<1> DEFINE u == Linked(job.list, job.range, job.at)
           e == job.errors \cup LinkErrors(job.list, job.range, job.at)
<1>2. /\ job' = [job EXCEPT !.st = "check", !.list = u, !.errors = e]
      /\ UNCHANGED <<language, types, default>>
  BY DEF LinkRange
<1>3. e \in SUBSET Error
  BY <1>1 DEF LinkErrors, If, Error, Job
<1>4. u \in Seq(RangeOf)
  <2>1. Append(job.list, job.range) \in Seq(RangeOf)
    BY <1>1, AppendProperties
  <2>2. SubSeq(job.list, 1, job.at) \in Seq(RangeOf)
    BY <1>1, ListFacts, SubSeqProperties
  <2>3. QED
    BY <2>1, <2>2 DEF Linked
<1>5. job.base \in Casting => Uniform(job.base, u) /\ Sorted(u)
  <2> SUFFICES ASSUME job.base \in Casting
               PROVE  Uniform(job.base, u) /\ Sorted(u)
    OBVIOUS
  <2>1. /\ Uniform(job.base, job.list) /\ Sorted(job.list)
        /\ job.range.min.basetype = CastTo[job.base]
        /\ job.range.max.basetype = CastTo[job.base]
        /\ \A i \in 1 .. job.at : job.list[i].min.value < job.range.min.value
    BY <1>1 DEF JobInv
  <2>2. CASE job.at = Len(job.list)
    <3>1. Below(job.list, job.range)
      <4>1. \A i \in DOMAIN job.list :
              /\ i \in 1 .. job.at
              /\ job.list[i].min.value \in Int /\ job.range.min.value \in Int
        BY <1>1, <2>2, ListFacts, RangeFields DEF Value
      <4>2. QED
        BY <4>1, <2>1 DEF Below
    <3>2. u = Append(job.list, job.range)
      BY <2>2 DEF Linked
    <3>3. QED
      BY <1>1, <2>1, <3>1, <3>2, PutLast
  <2>3. CASE job.at # Len(job.list)
    BY <1>1, <2>1, <2>3, Cut DEF Linked
  <2>4. QED
    BY <2>2, <2>3
<1> HIDE DEF u, e
<1>6. job' \in Job
  BY <1>1, <1>2, <1>3, <1>4 DEF Job
<1>7. /\ job'.st = "check" /\ job'.base = job.base /\ job'.kept = job.kept
      /\ job'.list = u
  BY <1>1, <1>2 DEF Job
<1>8. job.kept = <<>>
  BY <1>1 DEF JobInv
<1>9. JobInv'
  BY <1>5, <1>7, <1>8 DEF JobInv, Uniform, Sorted, Apart, Below
<1>10. QED
  BY <1>2, <1>6, <1>9 DEF TypeOK, TypesInv

LEMMA EndOfRangesInv == ASSUME IInv, EndOfRanges PROVE IInv'
<1> USE DEF IInv
<1>1. job' = [job EXCEPT !.st = "normalize"] /\ job \in Job /\ job.st = "check"
      /\ UNCHANGED <<language, types, default>>
  BY DEF EndOfRanges, TypeOK
<1>2. job' \in Job
  BY <1>1 DEF Job
<1>3. /\ job'.st = "normalize" /\ job'.base = job.base /\ job'.kept = job.kept
      /\ job'.list = job.list
  BY <1>1 DEF Job
<1>4. JobInv'
  BY <1>1, <1>3 DEF JobInv
<1>5. QED
  BY <1>1, <1>2, <1>4 DEF TypeOK, TypesInv

\* Dropping the first range of a sorted list leaves one that starts no lower.
LEMMA DropFirst ==
  ASSUME NEW b \in Casting, NEW s \in Seq(RangeOf), s # <<>>,
         Uniform(b, s), Sorted(s)
  PROVE  /\ Tail(s) \in Seq(RangeOf) /\ Len(Tail(s)) = Len(s) - 1
         /\ \A i \in 1 .. Len(s) - 1 : Tail(s)[i] = s[i + 1]
         /\ Uniform(b, Tail(s))
         /\ Sorted(Tail(s))
<1>1. /\ Len(s) \in Nat /\ Len(s) > 0 /\ DOMAIN s = 1 .. Len(s)
  BY ListFacts
<1>2. /\ Tail(s) \in Seq(RangeOf) /\ Len(Tail(s)) = Len(s) - 1
      /\ \A i \in 1 .. Len(s) - 1 : Tail(s)[i] = s[i + 1]
  BY <1>1, HeadTailProperties
<1>3. DOMAIN Tail(s) = 1 .. Len(s) - 1
  BY <1>2, ListFacts
<1>4. \A i \in 1 .. Len(s) - 1 : i + 1 \in 1 .. Len(s)
  BY <1>1
<1>5. Uniform(b, Tail(s))
  BY <1>1, <1>2, <1>3, <1>4 DEF Uniform
<1>6. Sorted(Tail(s))
  <2> SUFFICES ASSUME NEW i \in 1 .. Len(s) - 1, NEW j \in 1 .. Len(s) - 1, i < j
               PROVE  Tail(s)[i].min.value <= Tail(s)[j].min.value
    BY <1>3 DEF Sorted
  <2>1. i + 1 < j + 1
    OBVIOUS
  <2>2. QED
    BY <1>1, <1>2, <1>4, <2>1 DEF Sorted
<1>7. QED
  BY <1>2, <1>5, <1>6

LEMMA KeepRangeInv == ASSUME IInv, KeepRange PROVE IInv'
<1> USE DEF IInv
<1>1. /\ job \in Job /\ job.st = "normalize" /\ job.list \in Seq(RangeOf)
      /\ job.kept \in Seq(RangeOf) /\ job.list # <<>>
      /\ Len(job.list) \in Nat /\ Len(job.list) > 0
      /\ job.list[1] \in RangeOf
  BY ListFacts DEF TypeOK, KeepRange, Job
<1> DEFINE r == job.list[1]
           kept == Append(job.kept, r)
<1>2. /\ job' = [job EXCEPT !.kept = kept, !.list = Tail(job.list)]
      /\ UNCHANGED <<language, types, default>>
      /\ ~Adjacent(job.list)
  <2>1. Head(job.list) = r
    BY <1>1, HeadTailProperties
  <2>2. QED
    BY <2>1 DEF KeepRange
<1>3. /\ kept \in Seq(RangeOf) /\ Len(kept) = Len(job.kept) + 1
      /\ \A i \in 1 .. Len(job.kept) : kept[i] = job.kept[i]
      /\ kept[Len(job.kept) + 1] = r
      /\ Len(job.kept) \in Nat
      /\ DOMAIN kept = 1 .. Len(job.kept) + 1
      /\ DOMAIN job.kept = 1 .. Len(job.kept)
  BY <1>1, AppendProperties, ListFacts
<1>4. Tail(job.list) \in Seq(RangeOf)
  BY <1>1, HeadTailProperties
<1>5. ASSUME job.base \in Casting
      PROVE  /\ Uniform(job.base, Tail(job.list)) /\ Sorted(Tail(job.list))
             /\ Uniform(job.base, kept) /\ Sorted(kept) /\ Apart(kept)
             /\ Tail(job.list) # <<>> =>
                  /\ Below(kept, Tail(job.list)[1])
                  /\ kept[Len(kept)].max.value # Tail(job.list)[1].min.value - 1
  <2>1. /\ Uniform(job.base, job.list) /\ Sorted(job.list)
        /\ Uniform(job.base, job.kept) /\ Sorted(job.kept) /\ Apart(job.kept)
        /\ Below(job.kept, r)
        /\ job.kept # <<>> =>
             job.kept[Len(job.kept)].max.value # r.min.value - 1
    BY <1>1, <1>5 DEF JobInv
  <2>2. /\ r.min.basetype = CastTo[job.base] /\ r.max.basetype = CastTo[job.base]
    BY <1>1, <2>1, ListFacts DEF Uniform
  <2>3. Uniform(job.base, kept) /\ Sorted(kept)
    BY <1>1, <1>5, <2>1, <2>2, PutLast
  <2>4. Apart(kept)
    <3> HIDE DEF kept, r
    <3> SUFFICES ASSUME NEW i \in 1 .. Len(job.kept)
                 PROVE  kept[i].max.value # kept[i + 1].min.value - 1
      BY <1>3 DEF Apart
    <3>1. CASE i = Len(job.kept)
      <4>1. job.kept # <<>>
        BY <1>1, ListFacts
      <4>2. QED
        BY <1>3, <2>1, <3>1, <4>1
    <3>2. CASE i # Len(job.kept)
      <4>1. i \in 1 .. Len(job.kept) - 1 /\ i + 1 \in 1 .. Len(job.kept)
        BY <1>3, <3>2
      <4>2. QED
        BY <1>3, <2>1, <4>1 DEF Apart
    <3>3. QED
      BY <3>1, <3>2
  <2>5. /\ Len(Tail(job.list)) = Len(job.list) - 1
        /\ \A i \in 1 .. Len(job.list) - 1 : Tail(job.list)[i] = job.list[i + 1]
        /\ Uniform(job.base, Tail(job.list)) /\ Sorted(Tail(job.list))
    BY <1>1, <1>5, <2>1, DropFirst
  <2>6. ASSUME Tail(job.list) # <<>>
        PROVE  /\ Below(kept, Tail(job.list)[1])
               /\ kept[Len(kept)].max.value # Tail(job.list)[1].min.value - 1
    <3>1. /\ Len(job.list) > 1 /\ Tail(job.list)[1] = job.list[2]
          /\ 1 \in DOMAIN job.list /\ 2 \in DOMAIN job.list
      BY <1>1, <1>4, <2>5, <2>6, ListFacts
    <3>2. r.min.value <= job.list[2].min.value
      BY <2>1, <3>1 DEF Sorted
    <3>3. /\ r.min.value \in Int /\ job.list[2].min.value \in Int
          /\ r.max \in Value /\ job.list[2].min \in Value
          /\ \A i \in 1 .. Len(job.kept) : job.kept[i].min.value \in Int
      BY <1>1, <1>3, <3>1, ListFacts
    <3>4. Below(kept, job.list[2])
      <4> HIDE DEF kept, r
      <4> SUFFICES ASSUME NEW i \in 1 .. Len(job.kept) + 1
                   PROVE  kept[i].min.value <= job.list[2].min.value
        BY <1>3 DEF Below
      <4>1. CASE i = Len(job.kept) + 1
        BY <1>3, <3>2, <4>1
      <4>2. CASE i \in 1 .. Len(job.kept)
        <5>1. job.kept[i].min.value <= r.min.value
          BY <1>3, <2>1, <4>2 DEF Below
        <5>2. QED
          BY <1>3, <3>2, <3>3, <4>2, <5>1
      <4>3. QED
        BY <1>3, <4>1, <4>2
    <3>5. r.max.value # job.list[2].min.value - 1
      <4>1. compareValues(r.max, job.list[2].min) # -1
        BY <1>1, <1>2, <3>1 DEF Adjacent
      <4>2. job.list[2].min.basetype = CastTo[job.base]
        BY <2>1, <3>1 DEF Uniform
      <4> HIDE DEF r
      <4>3. QED
        BY <1>5, <2>2, <3>3, <4>1, <4>2, Compared, CastTypes
    <3>6. QED
      BY <1>3, <3>1, <3>4, <3>5
  <2>7. QED
    BY <2>3, <2>4, <2>5, <2>6
<1> HIDE DEF kept, r
<1>6. job' \in Job
  BY <1>1, <1>2, <1>3, <1>4 DEF Job
<1>7. /\ job'.st = "normalize" /\ job'.base = job.base
      /\ job'.kept = kept /\ job'.list = Tail(job.list)
  BY <1>1, <1>2 DEF Job
<1>8. JobInv'
  BY <1>5, <1>7 DEF JobInv
<1>9. QED
  BY <1>2, <1>6, <1>8 DEF TypeOK, TypesInv

LEMMA JoinRangesInv == ASSUME IInv, JoinRanges PROVE IInv'
<1> USE DEF IInv
<1>1. /\ job \in Job /\ job.st = "normalize" /\ job.list \in Seq(RangeOf)
      /\ job.kept \in Seq(RangeOf) /\ job.list # <<>>
      /\ Len(job.list) \in Nat /\ Len(job.list) > 1
      /\ DOMAIN job.list = 1 .. Len(job.list)
      /\ job.list[1] \in RangeOf /\ job.list[2] \in RangeOf
  BY ListFacts DEF TypeOK, JoinRanges, Adjacent, Job
<1> DEFINE r == [job.list[2] EXCEPT !.min = job.list[1].min]
           s == Tail(Tail(job.list))
           u == <<r>> \o s
<1>2. /\ job' = [job EXCEPT !.list = u]
      /\ UNCHANGED <<language, types, default>>
  BY DEF JoinRanges
<1>3. /\ r \in RangeOf /\ r.min = job.list[1].min /\ r.max = job.list[2].max
  BY <1>1, RangeFields DEF RangeOf
<1>4. /\ Tail(job.list) \in Seq(RangeOf) /\ Tail(job.list) # <<>>
      /\ Len(Tail(job.list)) = Len(job.list) - 1
      /\ s \in Seq(RangeOf)
  <2>1. /\ Tail(job.list) \in Seq(RangeOf)
        /\ Len(Tail(job.list)) = Len(job.list) - 1
    BY <1>1, HeadTailProperties
  <2>2. Tail(job.list) # <<>>
    <3>1. Len(Tail(job.list)) # 0
      BY <1>1, <2>1
    <3>2. QED
      BY <3>1, EmptySeq
  <2>3. QED
    BY <2>1, <2>2, HeadTailProperties
<1>5. u \in Seq(RangeOf) /\ u # <<>> /\ u[1] = r
  <2> HIDE DEF r, s
  <2>1. /\ <<r>> \in Seq(RangeOf) /\ Len(<<r>>) = 1 /\ <<r>>[1] = r
    BY <1>3
  <2>2. u \in Seq(RangeOf) /\ Len(u) = 1 + Len(s) /\ u[1] = r
    BY <1>4, <2>1, ConcatProperties, ListFacts
  <2>3. QED
    BY <1>4, <2>2, ListFacts
<1>6. ASSUME job.base \in Casting
      PROVE  Uniform(job.base, u) /\ Sorted(u)
  <2>1. Uniform(job.base, job.list) /\ Sorted(job.list)
    BY <1>6 DEF JobInv
  <2>2. /\ \A i \in 1 .. Len(job.list) - 1 : Tail(job.list)[i] = job.list[i + 1]
        /\ Uniform(job.base, Tail(job.list)) /\ Sorted(Tail(job.list))
    BY <1>1, <1>6, <2>1, DropFirst
  <2>3. /\ Len(s) = Len(Tail(job.list)) - 1
        /\ \A i \in 1 .. Len(Tail(job.list)) - 1 : s[i] = Tail(job.list)[i + 1]
        /\ Uniform(job.base, s) /\ Sorted(s)
    BY <1>4, <1>6, <2>2, DropFirst
  <2>4. s # <<>> => r.min.value <= s[1].min.value
    <3> SUFFICES ASSUME s # <<>> PROVE r.min.value <= s[1].min.value
      OBVIOUS
    <3>1. Len(s) > 0 /\ Len(job.list) > 2
      <4>1. Len(s) = Len(job.list) - 2
        BY <1>1, <1>4, <2>3
      <4> HIDE DEF s
      <4>2. Len(s) > 0
        BY <1>4, ListFacts
      <4>3. QED
        BY <1>1, <4>1, <4>2
    <3>2. s[1] = job.list[3]
      <4>1. /\ 1 \in 1 .. Len(Tail(job.list)) - 1
            /\ 2 \in 1 .. Len(job.list) - 1
        BY <1>1, <1>4, <3>1
      <4>2. s[1] = Tail(job.list)[1 + 1] /\ Tail(job.list)[2] = job.list[2 + 1]
        BY <2>2, <2>3, <4>1
      <4>3. 1 + 1 = 2 /\ 2 + 1 = 3
        OBVIOUS
      <4> QED BY <4>2, <4>3
    <3>3. job.list[1].min.value <= job.list[3].min.value
      <4>1. 1 \in DOMAIN job.list /\ 3 \in DOMAIN job.list
        <5>1. DOMAIN job.list = 1 .. Len(job.list) /\ Len(job.list) \in Nat
          BY <1>1, ListFacts
        <5> HIDE DEF s
        <5> QED BY <5>1, <3>1
      <4>2. QED
        BY <2>1, <4>1 DEF Sorted
    <3> HIDE DEF s, r
    <3>4. QED
      BY <1>3, <3>2, <3>3
  <2>5. r.min.basetype = CastTo[job.base] /\ r.max.basetype = CastTo[job.base]
    BY <1>1, <1>3, <2>1 DEF Uniform
  <2> HIDE DEF r, s
  <2>6. QED
    BY <1>3, <1>4, <1>6, <2>3, <2>4, <2>5, PutFirst
<1> HIDE DEF r, s, u
<1>7. job' \in Job
  BY <1>1, <1>2, <1>5 DEF Job
<1>8. /\ job'.st = "normalize" /\ job'.base = job.base
      /\ job'.kept = job.kept /\ job'.list = u
  BY <1>1, <1>2 DEF Job
<1>9. JobInv'
  BY <1>1, <1>3, <1>5, <1>6, <1>8 DEF JobInv, Below
<1>10. QED
  BY <1>2, <1>7, <1>9 DEF TypeOK, TypesInv

LEMMA EndTypeInv == ASSUME IInv, EndType PROVE IInv'
<1> USE DEF IInv
<1>1. job \in Job /\ job.st = "normalize" /\ types \in Seq(Type)
      /\ default \in [type : 0 .. Len(types), number : Int, errors : SUBSET Error]
  BY DEF TypeOK, EndType
<1> DEFINE ty == [base |-> job.base, written |-> job.written,
                  list |-> job.kept, errors |-> job.errors]
<1>2. ty \in Type
  BY <1>1 DEF Job, Type
<1>3. /\ types' = Append(types, ty) /\ job' = Idle
      /\ UNCHANGED <<language, default>>
  BY DEF EndType
<1>4. job.base \in Casting => /\ Uniform(job.base, job.kept)
                              /\ Sorted(job.kept) /\ Apart(job.kept)
  BY DEF JobInv
<1>5. /\ ty.base = job.base /\ ty.list = job.kept
  OBVIOUS
<1> HIDE DEF ty
<1>6. /\ types' \in Seq(Type) /\ Len(types') = Len(types) + 1
      /\ Len(types) \in Nat
      /\ \A t \in 1 .. Len(types) : types'[t] = types[t]
      /\ types'[Len(types) + 1] = ty
      /\ DOMAIN types = 1 .. Len(types)
      /\ DOMAIN types' = 1 .. Len(types) + 1
  BY <1>1, <1>2, <1>3, AppendProperties, LenProperties
<1>7. Idle \in Job
  <2>1. Zero \in Value
    BY Widths DEF Zero, Value, NumberType
  <2>2. QED
    BY <2>1, EmptySeq DEF Idle, Job, RangeOf, Written, Basetype
<1>8. TypeOK'
  <2>1. default' \in [type : 0 .. Len(types'), number : Int, errors : SUBSET Error]
    BY <1>1, <1>3, <1>6
  <2>2. QED
    BY <1>3, <1>6, <1>7, <2>1 DEF TypeOK
<1>9. JobInv'
  BY <1>3 DEF JobInv, Idle, Casting, CastTo
<1>10. TypesInv'
  <2> SUFFICES ASSUME NEW t \in DOMAIN types', types'[t].base \in Casting
               PROVE  /\ Uniform(types'[t].base, types'[t].list)
                      /\ Sorted(types'[t].list)
                      /\ Apart(types'[t].list)
    BY DEF TypesInv
  <2>1. CASE t = Len(types) + 1
    BY <1>4, <1>5, <1>6, <2>1
  <2>2. CASE t # Len(types) + 1
    BY <1>6, <2>2 DEF TypesInv
  <2>3. QED
    BY <2>1, <2>2
<1>11. QED
  BY <1>8, <1>9, <1>10

LEMMA CheckDefaultInv ==
  ASSUME IInv, NEW t \in DOMAIN types, NEW n \in Numbers, CheckDefault(t, n)
  PROVE  IInv'
<1> USE DEF IInv
<1> DEFINE e == ScanErrors(n) \cup ValueErrors(types[t], Scan(n))
<1>1. default' = [type |-> t, number |-> n, errors |-> e]
      /\ UNCHANGED <<language, types, job>>
  BY DEF CheckDefault
<1>2. e \in SUBSET Error
  BY DEF ScanErrors, ValueErrors, If, Error
<1>3. t \in 0 .. Len(types)
  BY LenProperties DEF TypeOK
<1>4. n \in Int
  BY NumberAssumption
<1> HIDE DEF e
<1>5. TypeOK'
  BY <1>1, <1>2, <1>3, <1>4 DEF TypeOK
<1>6. QED
  BY <1>1, <1>5 DEF JobInv, TypesInv

LEMMA NextIInv == IInv /\ [Next]_vars => IInv'
<1> SUFFICES ASSUME IInv, [Next]_vars PROVE IInv'
  OBVIOUS
<1>1. CASE \E b \in Basetype, w \in Limited : BeginType(b, w)
  BY <1>1, BeginTypeInv
<1>2. CASE CheckRange
  BY <1>2, CheckRangeInv
<1>3. CASE SeekOn
  BY <1>3, SeekOnInv
<1>4. CASE LinkRange
  BY <1>4, LinkRangeInv
<1>5. CASE EndOfRanges
  BY <1>5, EndOfRangesInv
<1>6. CASE JoinRanges
  BY <1>6, JoinRangesInv
<1>7. CASE KeepRange
  BY <1>7, KeepRangeInv
<1>8. CASE EndType
  BY <1>8, EndTypeInv
<1>9. CASE \E t \in DOMAIN types, n \in Numbers : CheckDefault(t, n)
  BY <1>9, CheckDefaultInv
<1>10. CASE UNCHANGED vars
  BY <1>10 DEF vars, IInv, TypeOK, JobInv, TypesInv
<1>11. QED
  BY <1>1, <1>2, <1>3, <1>4, <1>5, <1>6, <1>7, <1>8, <1>9, <1>10 DEF Next

\* No step of smiCheckTypeRanges() leaves the invariant.
THEOREM Inductive == Spec => []IInv
<1>1. Init => IInv
  BY InitIInv
<1>2. IInv /\ [Next]_vars => IInv'
  BY NextIInv
<1>3. QED
  BY <1>1, <1>2, PTL DEF Spec

-----------------------------------------------------------------------------
(***************************************************************************)
(* What the invariant shows                                                *)
(***************************************************************************)

\* Every state of smiCheckTypeRanges() and of the types has its type.
THEOREM TypeCorrect == Spec => []TypeOK
<1>1. IInv => TypeOK
  BY DEF IInv
<1>2. QED
  BY <1>1, Inductive, PTL

\* The list of ranges of a checked type has a type's fields.
LEMMA TypeFacts ==
  ASSUME IInv, NEW t \in DOMAIN types, types[t].base \in Casting
  PROVE  /\ types[t].list \in Seq(RangeOf)
         /\ Uniform(types[t].base, types[t].list)
         /\ Sorted(types[t].list)
         /\ Apart(types[t].list)
<1>1. types[t] \in Type
  BY LenProperties, ElementOfSeq DEF IInv, TypeOK
<1>2. QED
  BY <1>1 DEF IInv, TypesInv, Type

\* smiCheckTypeRanges() leaves a list in ascending order, whatever was written:
\* the early exit of the search in smiCheckValueType() may rely on it.
THEOREM RangesSorted == Spec => []ListsSorted
<1>1. IInv => ListsSorted
  <2> SUFFICES ASSUME IInv, NEW t \in DOMAIN types, types[t].base \in Casting,
                      NEW i \in DOMAIN types[t].list,
                      NEW j \in DOMAIN types[t].list, i < j
               PROVE  compareValues(types[t].list[i].min,
                                    types[t].list[j].min) <= 0
    BY DEF ListsSorted, Ascending
  <2> DEFINE a == types[t].list[i].min
             c == types[t].list[j].min
  <2>1. a \in Value /\ c \in Value
    BY TypeFacts, ListFacts
  <2>2. /\ a.basetype = c.basetype
        /\ a.basetype \in {"INTEGER32", "UNSIGNED32"}
        /\ a.value <= c.value
    BY TypeFacts, CastTypes DEF Uniform, Sorted
  <2> HIDE DEF a, c
  <2>3. compareValues(a, c) <= 0
    BY <2>1, <2>2, Compared
  <2>4. QED
    BY <2>3 DEF a, c
<1>2. QED
  BY <1>1, Inductive, PTL

\* It also leaves no two ranges of which one ends just before the other starts.
THEOREM RangesNormalized == Spec => []ListsNormalized
<1>1. IInv => ListsNormalized
  BY TypeFacts DEF ListsNormalized, Apart
<1>2. QED
  BY <1>1, Inductive, PTL
-----------------------------------------------------------------------------
(***************************************************************************)
(* What the list allows: which of the written ranges it stands for.  These *)
(* are the first Taken of them, job.range being on its way to its place.   *)
(***************************************************************************)
Done  == Len(job.written) - Len(job.rest)
Taken == IF job.st = "seek" THEN Done - 1 ELSE Done

Proper(s)  == \A i \in DOMAIN s : s[i].min.value <= s[i].max.value
In(s, x)   == \E i \in DOMAIN s : s[i].min.value <= x /\ x <= s[i].max.value
Covered(w, n, x) == \E i \in 1 .. n : Low(w[i]) <= x /\ x <= High(w[i])
Clear(b, w) == b \in Casting /\ LimitsIn(b, w) /\ ~Between(w)

RestInv ==
  job.st # "idle" =>
    /\ Len(job.rest) <= Len(job.written)
    /\ \A k \in 1 .. Len(job.rest) : job.rest[k] = ScanRange(job.written[Done + k])
    /\ job.st = "seek" => Done > 0
    /\ job.st = "normalize" => job.rest = <<>>

\* As long as no range is written between two others, each range of the list
\* starts where a written one starts, and nothing that was written is lost.
KeepInv ==
  (job.st # "idle" /\ Clear(job.base, job.written)) =>
    /\ Proper(job.list) /\ Proper(job.kept)
    /\ job.st # "normalize" =>
         \A k \in DOMAIN job.list :
           \E l \in 1 .. Taken : Low(job.written[l]) = job.list[k].min.value
    /\ job.st = "seek" =>
         /\ job.range.min.value = Low(job.written[Done])
         /\ job.range.max.value = High(job.written[Done])
    /\ \A x \in Int : (In(job.list, x) \/ In(job.kept, x))
                        <=> Covered(job.written, Taken, x)

TypesKept ==
  \A t \in DOMAIN types : Clear(types[t].base, types[t].written) =>
    \A x \in Int : In(types[t].list, x)
                     <=> Covered(types[t].written, Len(types[t].written), x)

-----------------------------------------------------------------------------
\* Numbers of the basetype are read and cast as they are written.

LEMMA LowHigh ==
  ASSUME NEW p \in Int \X Int
  PROVE  /\ Low(p) \in Int /\ High(p) \in Int /\ Low(p) <= High(p)
         /\ Low(p) = IF p[1] <= p[2] THEN p[1] ELSE p[2]
         /\ High(p) = IF p[1] <= p[2] THEN p[2] ELSE p[1]
<1>1. p[1] \in Int /\ p[2] \in Int
  OBVIOUS
<1> DEFINE S == {p[1], p[2]}
           a == IF p[1] <= p[2] THEN p[1] ELSE p[2]
           c == IF p[1] <= p[2] THEN p[2] ELSE p[1]
<1>2. a \in S /\ \A y \in S : a <= y
  BY <1>1
<1>3. c \in S /\ \A y \in S : c >= y
  BY <1>1
<1>4. \A x, y \in S : x \in Int /\ y \in Int
  BY <1>1
<1> HIDE DEF S
<1>5. \A x \in S : (\A y \in S : x <= y) => x = a
  BY <1>2, <1>4
<1>6. \A x \in S : (\A y \in S : x >= y) => x = c
  BY <1>3, <1>4
<1>7. Min(S) = a
  <2> HIDE DEF a
  <2> QED BY <1>2, <1>5 DEF Min
<1>8. Max(S) = c
  <2> HIDE DEF c
  <2> QED BY <1>3, <1>6 DEF Max
<1>9. Low(p) = a /\ High(p) = c
  BY <1>7, <1>8 DEF Low, High, S
<1> QED BY <1>1, <1>9

\* A number that fits is reinterpreted as itself.
LEMMA Fits ==
  ASSUME NEW n \in Int
  PROVE  /\ n \in 0 .. UINT_MAX => AsUnsigned(n) = n
         /\ n \in -INT_MAX - 1 .. INT_MAX => AsSigned(n) = n
<1>1. n \in 0 .. UINT_MAX => AsUnsigned(n) = n
  BY Widths DEF AsUnsigned
<1>2. ASSUME n \in -INT_MAX - 1 .. INT_MAX PROVE AsSigned(n) = n
  <2>1. CASE n >= 0
    BY <1>2, <2>1, Widths DEF AsSigned, AsUnsigned, UINT_MAX, Modulus
  <2>2. CASE n < 0
    <3>1. AsUnsigned(n) = n + Modulus
      BY <1>2, <2>2, Widths DEF AsUnsigned, UINT_MAX, Modulus
    <3> QED BY <1>2, <2>2, <3>1, Widths DEF AsSigned, UINT_MAX, Modulus
  <2> QED BY <2>1, <2>2
<1> QED BY <1>1, <1>2

LEMMA CastFits ==
  ASSUME NEW b \in Casting, NEW n \in Int, InType(b, n)
  PROVE  /\ ~Overflows(n) /\ Scan(n).value = n
         /\ Cast(b, Scan(n)).value = n
         /\ Cast(b, Scan(n)).basetype = CastTo[b]
<1>1. /\ b \in {"INTEGER32", "UNSIGNED32", "OCTETSTRING"}
      /\ CastTo["INTEGER32"] = "INTEGER32" /\ CastTo["UNSIGNED32"] = "UNSIGNED32"
      /\ CastTo["OCTETSTRING"] = "UNSIGNED32"
  BY DEF Casting, CastTo
<1>2. /\ b = "INTEGER32" => n \in -INT_MAX - 1 .. INT_MAX
      /\ b = "UNSIGNED32" => n \in 0 .. UINT_MAX
      /\ b = "OCTETSTRING" => n \in 0 .. SIZE_MAX
  BY <1>1 DEF InType
<1>3. n \in -INT_MAX - 1 .. INT_MAX \/ n \in 0 .. UINT_MAX
  BY <1>1, <1>2, SizeAssumption, Widths
<1>4. ~Overflows(n)
  BY <1>3, WidthAssumption DEF Overflows, ULONG_MAX, UINT_MAX
<1>5. Scan(n).value = n
  <2>1. CASE n >= 0
    <3>1. n \in 0 .. UINT_MAX
      BY <1>3, <2>1, Widths DEF UINT_MAX
    <3> QED BY <1>4, <2>1, <3>1, Fits DEF Scan
  <2>2. CASE n < 0
    <3>1. n \in -INT_MAX - 1 .. INT_MAX
      BY <1>3, <2>2, Widths
    <3> QED BY <1>4, <2>2, <3>1, Fits DEF Scan
  <2> QED BY <2>1, <2>2
<1>6. Cast(b, Scan(n)) = [basetype |-> CastTo[b],
                          value |-> IF CastTo[b] = "INTEGER32" THEN AsSigned(n)
                                    ELSE AsUnsigned(n)]
  BY <1>5 DEF Cast
<1>7. b # "INTEGER32" => n \in 0 .. UINT_MAX
  BY <1>1, <1>2, SizeAssumption, Widths
<1> QED BY <1>1, <1>2, <1>4, <1>5, <1>6, <1>7, Fits

\* A range of the basetype becomes what was written, from the lower limit to
\* the higher one.
LEMMA RangeFits ==
  ASSUME NEW b \in Casting, NEW p \in Int \X Int, InType(b, p[1]), InType(b, p[2])
  PROVE  LET r == Ordered(Limits(b, ScanRange(p)))
         IN  /\ r.min.value = Low(p) /\ r.max.value = High(p)
             /\ Exchanged(Limits(b, ScanRange(p))) <=> p[1] > p[2]
<1> DEFINE c == Limits(b, ScanRange(p))
<1>1. p[1] \in Int /\ p[2] \in Int /\ b \in Basetype
  BY DEF Casting, CastTo, Basetype, NumberType
<1>2. c.min = Cast(b, Scan(p[1])) /\ c.max = Cast(b, Scan(p[2]))
  BY DEF Limits, ScanRange
<1>3. c.min.value = p[1] /\ c.max.value = p[2]
  BY <1>1, <1>2, CastFits
<1>4. /\ c.min \in Value /\ c.max \in Value
      /\ c.min.basetype = CastTo[b] /\ c.max.basetype = CastTo[b]
  BY <1>1, <1>2, ScanValue, CastValue
<1>5. CastTo[b] \in {"INTEGER32", "UNSIGNED32"}
  BY CastTypes
<1> HIDE DEF c
<1>6. Exchanged(c) <=> p[1] > p[2]
  BY <1>3, <1>4, <1>5, Compared DEF Exchanged
<1>7. Ordered(c).min.value = Low(p) /\ Ordered(c).max.value = High(p)
  BY <1>1, <1>3, <1>6, LowHigh DEF Ordered
<1> QED BY <1>6, <1>7 DEF c

\* What a list of written limits consists of.
LEMMA WrittenFacts ==
  ASSUME NEW w \in Written
  PROVE  /\ Len(w) \in Nat /\ DOMAIN w = 1 .. Len(w)
         /\ \A k \in 1 .. Len(w) : /\ w[k] \in Int \X Int
                                  /\ w[k][1] \in Int /\ w[k][2] \in Int
<1>1. Len(w) \in Nat /\ DOMAIN w = 1 .. Len(w)
  BY LenProperties DEF Written
<1>2. \A k \in 1 .. Len(w) : w[k] \in Int \X Int
  BY <1>1, ElementOfSeq DEF Written
<1> QED BY <1>1, <1>2

\* One range more is written.
LEMMA CoveredNext ==
  ASSUME NEW w, NEW n \in Nat, NEW x
  PROVE  Covered(w, n + 1, x)
           <=> (Covered(w, n, x) \/ (Low(w[n + 1]) <= x /\ x <= High(w[n + 1])))
<1>1. \A i \in 1 .. n + 1 : i \in 1 .. n \/ i = n + 1
  OBVIOUS
<1>2. 1 .. n \subseteq 1 .. n + 1 /\ n + 1 \in 1 .. n + 1
  OBVIOUS
<1> QED BY <1>1, <1>2 DEF Covered
-----------------------------------------------------------------------------
\* What a list allows when a range is linked in or taken out.

LEMMA InFirst ==
  ASSUME NEW s \in Seq(RangeOf), NEW r \in RangeOf
  PROVE  /\ Len(<<r>> \o s) = Len(s) + 1 /\ (<<r>> \o s)[1] = r
         /\ \A k \in 1 .. Len(s) : (<<r>> \o s)[k + 1] = s[k]
         /\ \A x : In(<<r>> \o s, x)
                     <=> ((r.min.value <= x /\ x <= r.max.value) \/ In(s, x))
         /\ (Proper(s) /\ r.min.value <= r.max.value) => Proper(<<r>> \o s)
<1> DEFINE u == <<r>> \o s
<1>1. /\ <<r>> \in Seq(RangeOf) /\ Len(<<r>>) = 1 /\ <<r>>[1] = r
  OBVIOUS
<1>2. /\ u \in Seq(RangeOf) /\ Len(u) = 1 + Len(s)
      /\ \A i \in 1 .. 1 + Len(s) : u[i] = IF i <= 1 THEN r ELSE s[i - 1]
  <2>1. \A i \in 1 .. 1 : <<r>>[i] = r
    BY <1>1
  <2>2. QED
    BY <1>1, <2>1, ConcatProperties, ListFacts
<1>3. /\ Len(s) \in Nat /\ DOMAIN s = 1 .. Len(s) /\ DOMAIN u = 1 .. Len(s) + 1
  BY <1>2, ListFacts
<1> HIDE DEF u
<1>4. u[1] = r /\ \A k \in 1 .. Len(s) : k + 1 \in 1 .. Len(s) + 1 /\ u[k + 1] = s[k]
  BY <1>2, <1>3
<1>5. ASSUME NEW x
      PROVE  In(u, x) <=> ((r.min.value <= x /\ x <= r.max.value) \/ In(s, x))
  <2>1. ASSUME In(u, x) PROVE (r.min.value <= x /\ x <= r.max.value) \/ In(s, x)
    <3>1. PICK i \in 1 .. Len(s) + 1 : u[i].min.value <= x /\ x <= u[i].max.value
      BY <2>1, <1>3 DEF In
    <3>2. i = 1 \/ (i - 1 \in 1 .. Len(s) /\ u[i] = s[i - 1])
      BY <1>2, <1>3
    <3> QED BY <3>1, <3>2, <1>3, <1>4 DEF In
  <2>2. ASSUME r.min.value <= x, x <= r.max.value PROVE In(u, x)
    <3>1. 1 \in DOMAIN u
      BY <1>3
    <3> QED BY <3>1, <2>2, <1>4 DEF In
  <2>3. ASSUME In(s, x) PROVE In(u, x)
    <3>1. PICK i \in 1 .. Len(s) : s[i].min.value <= x /\ x <= s[i].max.value
      BY <2>3, <1>3 DEF In
    <3>2. i + 1 \in DOMAIN u /\ u[i + 1] = s[i]
      BY <1>3, <1>4
    <3> QED BY <3>1, <3>2 DEF In
  <2> QED BY <2>1, <2>2, <2>3
<1>6. ASSUME Proper(s), r.min.value <= r.max.value PROVE Proper(u)
  <2>1. ASSUME NEW i \in 1 .. Len(s) + 1
        PROVE  i = 1 \/ (i - 1 \in 1 .. Len(s) /\ u[i] = s[i - 1])
    BY <1>2, <1>3
  <2> QED BY <2>1, <1>3, <1>4, <1>6 DEF Proper
<1> QED BY <1>2, <1>4, <1>5, <1>6, <1>3 DEF u

LEMMA InLast ==
  ASSUME NEW s \in Seq(RangeOf), NEW r \in RangeOf
  PROVE  /\ Len(Append(s, r)) = Len(s) + 1 /\ Append(s, r)[Len(s) + 1] = r
         /\ \A k \in 1 .. Len(s) : Append(s, r)[k] = s[k]
         /\ \A x : In(Append(s, r), x)
                     <=> ((r.min.value <= x /\ x <= r.max.value) \/ In(s, x))
         /\ (Proper(s) /\ r.min.value <= r.max.value) => Proper(Append(s, r))
<1> DEFINE u == Append(s, r)
<1>1. /\ u \in Seq(RangeOf) /\ Len(u) = Len(s) + 1
      /\ \A i \in 1 .. Len(s) : u[i] = s[i]
      /\ u[Len(s) + 1] = r
  BY AppendProperties
<1>2. /\ Len(s) \in Nat /\ DOMAIN s = 1 .. Len(s) /\ DOMAIN u = 1 .. Len(s) + 1
  BY <1>1, ListFacts
<1> HIDE DEF u
<1>3. \A i \in 1 .. Len(s) + 1 : i \in 1 .. Len(s) \/ i = Len(s) + 1
  BY <1>2
<1>4. 1 .. Len(s) \subseteq 1 .. Len(s) + 1 /\ Len(s) + 1 \in 1 .. Len(s) + 1
  BY <1>2
<1>5. \A x : In(u, x) <=> ((r.min.value <= x /\ x <= r.max.value) \/ In(s, x))
  BY <1>1, <1>2, <1>3, <1>4 DEF In
<1>6. (Proper(s) /\ r.min.value <= r.max.value) => Proper(u)
  BY <1>1, <1>2, <1>3 DEF Proper
<1> QED BY <1>1, <1>5, <1>6 DEF u

LEMMA InTail ==
  ASSUME NEW s \in Seq(RangeOf), s # <<>>
  PROVE  /\ s[1] \in RangeOf /\ Tail(s) \in Seq(RangeOf) /\ Len(Tail(s)) = Len(s) - 1
         /\ \A k \in 1 .. Len(s) - 1 : Tail(s)[k] = s[k + 1]
         /\ \A x : In(s, x)
                     <=> (\/ s[1].min.value <= x /\ x <= s[1].max.value
                          \/ In(Tail(s), x))
         /\ Proper(s) => Proper(Tail(s)) /\ s[1].min.value <= s[1].max.value
<1>1. /\ Tail(s) \in Seq(RangeOf) /\ Head(s) = s[1] /\ s = <<s[1]>> \o Tail(s)
      /\ Len(s) \in Nat /\ Len(s) > 0 /\ Len(Tail(s)) = Len(s) - 1
      /\ \A k \in 1 .. Len(s) - 1 : Tail(s)[k] = s[k + 1]
  BY HeadTailProperties, ListFacts
<1>2. s[1] \in RangeOf /\ 1 \in DOMAIN s /\ DOMAIN s = 1 .. Len(s)
  BY <1>1, ListFacts
<1>3. DOMAIN Tail(s) = 1 .. Len(s) - 1
  BY <1>1, ListFacts
<1>4. \A x : In(<<s[1]>> \o Tail(s), x)
               <=> (\/ s[1].min.value <= x /\ x <= s[1].max.value
                    \/ In(Tail(s), x))
  BY <1>1, <1>2, InFirst
<1>5. ASSUME Proper(s) PROVE Proper(Tail(s))
  <2> SUFFICES ASSUME NEW k \in 1 .. Len(s) - 1
               PROVE  Tail(s)[k].min.value <= Tail(s)[k].max.value
    BY <1>3 DEF Proper
  <2>1. k + 1 \in DOMAIN s /\ Tail(s)[k] = s[k + 1]
    BY <1>1, <1>2
  <2> QED BY <2>1, <1>5 DEF Proper
<1>6. Proper(s) => s[1].min.value <= s[1].max.value
  BY <1>2 DEF Proper
<1>7. \A x : In(s, x)
               <=> (\/ s[1].min.value <= x /\ x <= s[1].max.value
                    \/ In(Tail(s), x))
  BY <1>1, <1>4
<1> QED BY <1>1, <1>2, <1>5, <1>6, <1>7

-----------------------------------------------------------------------------
\* The steps, field by field.

CheckErrors(b, raw) ==
  If(OutOfBasetype(b, raw.min) \/ OutOfBasetype(b, raw.max), "range-bounds")
  \cup If(Exchanged(Limits(b, raw)), "range-exchanged")

LEMMA JobFacts ==
  ASSUME IInv
  PROVE  /\ job \in Job /\ job.base \in Basetype /\ job.written \in Written
         /\ job.rest \in Seq(RangeOf) /\ job.list \in Seq(RangeOf)
         /\ job.kept \in Seq(RangeOf) /\ job.range \in RangeOf
         /\ Len(job.rest) \in Nat /\ Len(job.written) \in Nat
         /\ Len(job.list) \in Nat /\ DOMAIN job.list = 1 .. Len(job.list)
<1>1. job \in Job
  BY DEF IInv, TypeOK
<1>2. /\ job.base \in Basetype /\ job.written \in Written
      /\ job.rest \in Seq(RangeOf) /\ job.list \in Seq(RangeOf)
      /\ job.kept \in Seq(RangeOf) /\ job.range \in RangeOf
  BY <1>1 DEF Job
<1> QED BY <1>1, <1>2, ListFacts, WrittenFacts

LEMMA CheckRangeStep ==
  ASSUME IInv, RestInv, CheckRange
  PROVE  LET raw == ScanRange(job.written[Done + 1])
             r == Ordered(Limits(job.base, raw))
             e == job.errors \cup CheckErrors(job.base, raw)
         IN  /\ job.st = "check" /\ Done + 1 \in 1 .. Len(job.written)
             /\ r \in RangeOf
             /\ job'.base = job.base /\ job'.written = job.written
             /\ job'.kept = job.kept /\ job'.rest = Tail(job.rest)
             /\ \/ /\ job.list = <<>> \/ AtHead(job.list, r)
                   /\ job'.st = "check" /\ job'.list = <<r>> \o job.list
                   /\ job'.errors = IF job.list = <<>> THEN e
                                    ELSE e \cup HeadErrors(job.list, r)
                \/ /\ job.list # <<>> /\ ~AtHead(job.list, r)
                   /\ job'.st = "seek" /\ job'.list = job.list /\ job'.at = 1
                   /\ job'.range = r /\ job'.errors = e
             /\ UNCHANGED <<language, types, default>>
<1>1. /\ job.st = "check" /\ job.rest # <<>> /\ job \in Job
      /\ Len(job.rest) \in Nat /\ Len(job.written) \in Nat
  BY JobFacts DEF CheckRange
<1>2. /\ Len(job.rest) > 0 /\ Head(job.rest) = job.rest[1]
      /\ Head(job.rest) \in RangeOf
  BY <1>1, JobFacts, ListFacts, HeadTailProperties
<1>3. /\ Len(job.rest) <= Len(job.written)
      /\ \A k \in 1 .. Len(job.rest) : job.rest[k] = ScanRange(job.written[Done + k])
  BY <1>1 DEF RestInv
<1>4. /\ Head(job.rest) = ScanRange(job.written[Done + 1])
      /\ Done + 1 \in 1 .. Len(job.written)
  <2>1. 1 \in 1 .. Len(job.rest)
    BY <1>1, <1>2
  <2>2. job.rest[1] = ScanRange(job.written[Done + 1])
    BY <1>3, <2>1
  <2>3. \A n, m \in Nat : (m <= n /\ m > 0) => n - m + 1 \in 1 .. n
    OBVIOUS
  <2>4. Done + 1 \in 1 .. Len(job.written)
    BY <1>1, <1>2, <1>3, <2>3 DEF Done
  <2> QED BY <1>2, <2>2, <2>4
<1> DEFINE raw == Head(job.rest)
           r == Ordered(Limits(job.base, raw))
           e == job.errors \cup CheckErrors(job.base, raw)
<1>5. r \in RangeOf
  BY <1>2, JobFacts, Ready
<1>6. /\ UNCHANGED <<language, types, default>>
      /\ \/ /\ job.list = <<>>
            /\ job' = [job EXCEPT !.rest = Tail(job.rest), !.list = <<r>>, !.errors = e]
         \/ /\ job.list # <<>>
            /\ AtHead(job.list, r)
            /\ job' = [job EXCEPT !.rest = Tail(job.rest),
                                  !.list = <<r>> \o job.list,
                                  !.errors = e \cup HeadErrors(job.list, r)]
         \/ /\ job.list # <<>>
            /\ ~AtHead(job.list, r)
            /\ job' = [job EXCEPT !.rest = Tail(job.rest), !.st = "seek", !.at = 1,
                                  !.range = r, !.errors = e]
  <2>1. e = job.errors \cup If(\/ OutOfBasetype(job.base, raw.min)
                               \/ OutOfBasetype(job.base, raw.max), "range-bounds")
                       \cup If(Exchanged(Limits(job.base, raw)), "range-exchanged")
    BY DEF CheckErrors
  <2> QED BY <2>1 DEF CheckRange
<1>7. <<r>> \o <<>> = <<r>>
  BY <1>5, ConcatEmptySeq
<1> HIDE DEF r, e
<1>8. /\ job'.base = job.base /\ job'.written = job.written
      /\ job'.kept = job.kept /\ job'.rest = Tail(job.rest)
      /\ \/ /\ job.list = <<>> \/ AtHead(job.list, r)
            /\ job'.st = "check" /\ job'.list = <<r>> \o job.list
            /\ job'.errors = IF job.list = <<>> THEN e
                             ELSE e \cup HeadErrors(job.list, r)
         \/ /\ job.list # <<>> /\ ~AtHead(job.list, r)
            /\ job'.st = "seek" /\ job'.list = job.list /\ job'.at = 1
            /\ job'.range = r /\ job'.errors = e
  <2>1. CASE job.list = <<>>
    BY <1>1, <1>6, <1>7, <2>1 DEF Job
  <2>2. CASE job.list # <<>> /\ AtHead(job.list, r)
    BY <1>1, <1>6, <2>2 DEF Job
  <2>3. CASE job.list # <<>> /\ ~AtHead(job.list, r)
    BY <1>1, <1>6, <2>3 DEF Job
  <2> QED BY <2>1, <2>2, <2>3
<1>9. raw = ScanRange(job.written[Done + 1])
  BY <1>4
<1> QED BY <1>1, <1>4, <1>5, <1>6, <1>8, <1>9 DEF r, e

\* The list from which a range was taken still is the rest of what is written.
LEMMA RestTaken ==
  ASSUME IInv, RestInv, CheckRange
  PROVE  /\ Done' = Done + 1 /\ Done \in Nat
         /\ Len(job'.rest) <= Len(job'.written)
         /\ \A k \in 1 .. Len(job'.rest) :
              job'.rest[k] = ScanRange(job'.written[Done' + k])
<1>1. /\ job'.rest = Tail(job.rest) /\ job'.written = job.written
      /\ language' = language /\ job.st = "check"
  BY CheckRangeStep
<1>2. /\ Len(job.rest) \in Nat /\ Len(job.written) \in Nat
      /\ job.rest # <<>> /\ job.rest \in Seq(RangeOf)
  BY JobFacts DEF CheckRange
<1>3. /\ Len(job'.rest) = Len(job.rest) - 1 /\ Len(job.rest) > 0
      /\ \A k \in 1 .. Len(job.rest) - 1 : job'.rest[k] = job.rest[k + 1]
  BY <1>1, <1>2, HeadTailProperties, ListFacts
<1>4. /\ Len(job.rest) <= Len(job.written)
      /\ \A k \in 1 .. Len(job.rest) : job.rest[k] = ScanRange(job.written[Done + k])
  BY <1>1 DEF RestInv
<1>5. Done' = Done + 1 /\ Done \in Nat
  <2>1. \A n, m \in Nat : m <= n => n - m \in Nat /\ n - (m - 1) = (n - m) + 1
    OBVIOUS
  <2>2. Done = Len(job.written) - Len(job.rest)
    BY DEF Done
  <2>3. Done' = Len(job.written) - (Len(job.rest) - 1)
    BY <1>1, <1>3 DEF Done
  <2> QED BY <1>2, <1>4, <2>1, <2>2, <2>3
<1>6. ASSUME NEW k \in 1 .. Len(job.rest) - 1
      PROVE  job'.rest[k] = ScanRange(job.written[Done' + k])
  <2>1. k + 1 \in 1 .. Len(job.rest) /\ Done' + k = Done + (k + 1)
    BY <1>2, <1>5
  <2>2. job.rest[k + 1] = ScanRange(job.written[Done + (k + 1)])
    BY <1>4, <2>1
  <2> QED BY <1>3, <2>1, <2>2
<1>7. \A k \in 1 .. Len(job'.rest) :
        job'.rest[k] = ScanRange(job.written[Done' + k])
  BY <1>3, <1>6
<1> QED BY <1>1, <1>2, <1>3, <1>4, <1>5, <1>7 DEF ScanRange, Scan
LEMMA BeginTypeStep ==
  ASSUME IInv, NEW b \in Basetype, NEW w \in Limited,
         BeginType(b, w)
  PROVE  /\ job'.st = "check" /\ job'.base = b /\ job'.written = w
         /\ job'.list = <<>> /\ job'.kept = <<>> /\ w \in Written
         /\ job'.errors = UNION {ScanErrors(w[i][1]) \cup ScanErrors(w[i][2]) :
                                   i \in DOMAIN w}
         /\ Done' = 0 /\ RestInv' /\ UNCHANGED <<language, types>>
         /\ default' = NoDefault
<1>1. w \in Written
  <2>1. PICK d \in DOMAIN Restrictions : w \in Restrictions[d]
    BY DEF Limited
  <2>2. Restrictions[d] \in SUBSET (Seq(Int \X Int) \ {<<>>})
    BY RestrictionAssumption, LenProperties, ElementOfSeq
  <2>3. QED
    BY <2>1, <2>2 DEF Written
<1> DEFINE f == [i \in DOMAIN w |-> ScanRange(w[i])]
           e == UNION {ScanErrors(w[i][1]) \cup ScanErrors(w[i][2]) : i \in DOMAIN w}
<1>2. /\ <<>> \o f = f /\ Len(f) = Len(w) /\ Len(w) \in Nat
      /\ \A k \in 1 .. Len(w) : f[k] = ScanRange(w[k])
  <2>1. /\ DOMAIN w = 1 .. Len(w) /\ Len(w) \in Nat
        /\ \A k \in 1 .. Len(w) : w[k][1] \in Int /\ w[k][2] \in Int
    BY <1>1, WrittenFacts
  <2>2. \A i \in DOMAIN w : ScanRange(w[i]) \in RangeOf
    BY <2>1, ScanValue DEF ScanRange, RangeOf
  <2>3. f \in [1 .. Len(w) -> RangeOf]
    BY <2>1, <2>2
  <2>4. f \in Seq(RangeOf)
    BY <2>1, <2>3, SeqDef
  <2>5. Len(f) = Len(w)
    BY <2>1, <2>3, <2>4, LenProperties
  <2> QED BY <2>1, <2>4, <2>5, ConcatEmptySeq
<1>3. /\ job' = [Idle EXCEPT !.st = "check", !.base = b, !.written = w,
                             !.rest = <<>> \o f, !.errors = e]
      /\ UNCHANGED <<language, types>> /\ default' = NoDefault
  BY DEF BeginType
<1> HIDE DEF f, e
<1>4. /\ job'.st = "check" /\ job'.base = b /\ job'.written = w
      /\ job'.list = <<>> /\ job'.kept = <<>> /\ job'.rest = f /\ job'.errors = e
  BY <1>2, <1>3 DEF Idle
<1>5. Done' = 0
  BY <1>2, <1>4 DEF Done
<1>6. RestInv'
  <2>1. \A k \in 1 .. Len(f) : f[k] = ScanRange(w[k])' /\ 0 + k = k
    BY <1>2, <1>3 DEF ScanRange, Scan
  <2> QED BY <1>2, <1>4, <1>5, <2>1 DEF RestInv, ScanRange, Scan
<1> QED BY <1>1, <1>3, <1>4, <1>5, <1>6 DEF e

LEMMA SeekOnStep ==
  ASSUME IInv, SeekOn
  PROVE  /\ job.st = "seek" /\ job'.st = "seek" /\ job'.base = job.base
         /\ job'.written = job.written /\ job'.rest = job.rest
         /\ job'.list = job.list /\ job'.kept = job.kept
         /\ job'.range = job.range /\ job'.errors = job.errors
         /\ UNCHANGED <<language, types, default>>
<1>1. job \in Job /\ job' = [job EXCEPT !.at = job.at + 1] /\ job.st = "seek"
  BY JobFacts DEF SeekOn
<1> QED BY <1>1 DEF SeekOn, Job

LEMMA LinkRangeStep ==
  ASSUME IInv, LinkRange
  PROVE  /\ job.st = "seek" /\ job'.st = "check" /\ job'.base = job.base
         /\ job'.written = job.written /\ job'.rest = job.rest
         /\ job.at \in 1 .. Len(job.list) /\ Found(job.list, job.range, job.at)
         /\ job'.list = Linked(job.list, job.range, job.at)
         /\ job'.kept = job.kept /\ job.kept = <<>>
         /\ job'.errors = job.errors \cup LinkErrors(job.list, job.range, job.at)
         /\ UNCHANGED <<language, types, default>>
<1>1. job \in Job /\ job.st = "seek" /\ JobInv
  BY JobFacts DEF LinkRange, IInv
<1>2. job.at \in 1 .. Len(job.list) /\ job.kept = <<>>
  BY <1>1 DEF JobInv
<1> DEFINE u == Linked(job.list, job.range, job.at)
           e == job.errors \cup LinkErrors(job.list, job.range, job.at)
<1>3. job' = [job EXCEPT !.st = "check", !.list = u, !.errors = e]
  BY DEF LinkRange
<1> HIDE DEF u, e
<1>4. /\ job'.st = "check" /\ job'.base = job.base /\ job'.kept = job.kept
      /\ job'.written = job.written /\ job'.rest = job.rest
      /\ job'.list = u /\ job'.errors = e
  BY <1>1, <1>3 DEF Job
<1> QED BY <1>1, <1>2, <1>4 DEF LinkRange, u, e

LEMMA EndOfRangesStep ==
  ASSUME IInv, EndOfRanges
  PROVE  /\ job.st = "check" /\ job'.st = "normalize" /\ job.rest = <<>>
         /\ job'.base = job.base /\ job'.written = job.written
         /\ job'.rest = job.rest /\ job'.list = job.list /\ job'.kept = job.kept
         /\ job'.errors = job.errors
         /\ UNCHANGED <<language, types, default>>
<1>1. job \in Job /\ job' = [job EXCEPT !.st = "normalize"]
  BY JobFacts DEF EndOfRanges
<1> QED BY <1>1 DEF EndOfRanges, Job

LEMMA JoinRangesStep ==
  ASSUME IInv, JoinRanges
  PROVE  /\ job.st = "normalize" /\ job'.st = "normalize" /\ job'.base = job.base
         /\ job'.written = job.written /\ job'.rest = job.rest
         /\ job'.kept = job.kept /\ job'.errors = job.errors
         /\ Len(job.list) > 1 /\ Adjacent(job.list)
         /\ job'.list = <<[job.list[2] EXCEPT !.min = job.list[1].min]>>
                        \o Tail(Tail(job.list))
         /\ UNCHANGED <<language, types, default>>
<1>1. job \in Job /\ job.st = "normalize" /\ Len(job.list) > 1
  BY JobFacts DEF JoinRanges, Adjacent
<1> DEFINE u == <<[job.list[2] EXCEPT !.min = job.list[1].min]>>
                \o Tail(Tail(job.list))
<1>2. job' = [job EXCEPT !.list = u]
  BY DEF JoinRanges
<1> HIDE DEF u
<1>3. /\ job'.st = "normalize" /\ job'.base = job.base /\ job'.kept = job.kept
      /\ job'.written = job.written /\ job'.rest = job.rest
      /\ job'.list = u /\ job'.errors = job.errors
  BY <1>1, <1>2 DEF Job
<1> QED BY <1>1, <1>3 DEF JoinRanges, u

LEMMA KeepRangeStep ==
  ASSUME IInv, KeepRange
  PROVE  /\ job.st = "normalize" /\ job'.st = "normalize" /\ job'.base = job.base
         /\ job'.written = job.written /\ job'.rest = job.rest
         /\ job.list # <<>> /\ job'.list = Tail(job.list)
         /\ job'.kept = Append(job.kept, job.list[1])
         /\ job'.errors = job.errors
         /\ UNCHANGED <<language, types, default>>
<1>1. job \in Job /\ job.st = "normalize" /\ job.list # <<>>
  BY JobFacts DEF KeepRange
<1>2. Head(job.list) = job.list[1]
  BY <1>1, JobFacts, HeadTailProperties
<1> DEFINE k == Append(job.kept, job.list[1])
           u == Tail(job.list)
<1>3. job' = [job EXCEPT !.kept = k, !.list = u]
  BY <1>2 DEF KeepRange
<1> HIDE DEF k, u
<1>4. /\ job'.st = "normalize" /\ job'.base = job.base /\ job'.kept = k
      /\ job'.written = job.written /\ job'.rest = job.rest
      /\ job'.list = u /\ job'.errors = job.errors
  BY <1>1, <1>3 DEF Job
<1> QED BY <1>1, <1>4 DEF KeepRange, k, u

LEMMA EndTypeStep ==
  ASSUME IInv, EndType
  PROVE  /\ job.st = "normalize" /\ job.list = <<>> /\ job'.st = "idle"
         /\ Len(types) \in Nat /\ DOMAIN types = 1 .. Len(types)
         /\ DOMAIN types' = 1 .. Len(types) + 1 /\ Len(types') = Len(types) + 1
         /\ \A t \in 1 .. Len(types) : types'[t] = types[t]
         /\ types'[Len(types) + 1].base = job.base
         /\ types'[Len(types) + 1].written = job.written
         /\ types'[Len(types) + 1].list = job.kept
         /\ types'[Len(types) + 1].errors = job.errors
         /\ UNCHANGED <<language, default>>
<1>1. types \in Seq(Type) /\ job \in Job
  BY DEF IInv, TypeOK
<1> DEFINE ty == [base |-> job.base, written |-> job.written,
                  list |-> job.kept, errors |-> job.errors]
<1>2. ty \in Type
  BY <1>1 DEF Job, Type
<1>3. types' = Append(types, ty) /\ job' = Idle
  BY DEF EndType
<1>4. /\ ty.base = job.base /\ ty.list = job.kept /\ ty.written = job.written
      /\ ty.errors = job.errors
  OBVIOUS
<1> HIDE DEF ty
<1>5. /\ types' \in Seq(Type) /\ Len(types') = Len(types) + 1
      /\ Len(types) \in Nat
      /\ \A t \in 1 .. Len(types) : types'[t] = types[t]
      /\ types'[Len(types) + 1] = ty
      /\ DOMAIN types = 1 .. Len(types)
      /\ DOMAIN types' = 1 .. Len(types) + 1
  BY <1>1, <1>2, <1>3, AppendProperties, LenProperties
<1> QED BY <1>3, <1>4, <1>5 DEF EndType, Idle

-----------------------------------------------------------------------------
\* Each step keeps what the list stands for.

CoverInv == RestInv /\ KeepInv /\ TypesKept

LEMMA BeginTypeCovers ==
  ASSUME IInv, CoverInv, NEW b \in Basetype, NEW w \in Limited,
         BeginType(b, w)
  PROVE  CoverInv'
<1>1. /\ job'.st = "check" /\ job'.list = <<>> /\ job'.kept = <<>>
      /\ Done' = 0 /\ RestInv' /\ UNCHANGED <<language, types>>
  BY BeginTypeStep
<1>2. /\ Proper(<<>>) /\ \A x : ~In(<<>>, x)
  BY DEF Proper, In
<1>3. \A u, x : ~Covered(u, 0, x)
  BY DEF Covered
<1>4. Taken' = 0
  BY <1>1 DEF Taken
<1>5. KeepInv'
  BY <1>1, <1>2, <1>3, <1>4 DEF KeepInv
<1>6. TypesKept'
  BY <1>1 DEF CoverInv, TypesKept
<1> QED BY <1>1, <1>5, <1>6 DEF CoverInv

LEMMA CheckRangeCovers == ASSUME IInv, CoverInv, CheckRange PROVE CoverInv'
<1>1. RestInv /\ KeepInv /\ TypesKept
  BY DEF CoverInv
<1> DEFINE w == job.written
           raw == ScanRange(w[Done + 1])
           r == Ordered(Limits(job.base, raw))
<1>2. /\ job.st = "check" /\ Done + 1 \in 1 .. Len(w) /\ r \in RangeOf
      /\ job'.base = job.base /\ job'.written = w /\ job'.kept = job.kept
      /\ \/ job'.st = "check" /\ job'.list = <<r>> \o job.list
         \/ job'.st = "seek" /\ job'.list = job.list /\ job'.range = r
      /\ UNCHANGED <<language, types, default>>
  BY <1>1, CheckRangeStep
<1>3. /\ Done' = Done + 1 /\ Done \in Nat
      /\ Len(job'.rest) <= Len(job'.written)
      /\ \A k \in 1 .. Len(job'.rest) :
           job'.rest[k] = ScanRange(job'.written[Done' + k])
  BY <1>1, RestTaken
<1>4. RestInv'
  <2>1. language' = language /\ job'.st \in {"check", "seek"}
    BY <1>2
  <2>2. Done' > 0
    BY <1>3
  <2>3. \A k \in 1 .. Len(job'.rest) :
          job'.rest[k] = ScanRange(job.written[Done + k])'
    BY <1>3, <2>1 DEF ScanRange, Scan
  <2> QED BY <1>3, <2>1, <2>2, <2>3 DEF RestInv
<1>5. job.list \in Seq(RangeOf) /\ DOMAIN job.list = 1 .. Len(job.list)
  BY JobFacts
<1>6. ASSUME Clear(job.base, w)
      PROVE  /\ r.min.value = Low(w[Done + 1]) /\ r.max.value = High(w[Done + 1])
             /\ r.min.value <= r.max.value
  <2>1. w \in Written /\ w[Done + 1] \in Int \X Int /\ Done + 1 \in DOMAIN w
    BY <1>2, JobFacts, WrittenFacts
  <2>2. /\ job.base \in Casting
        /\ InType(job.base, w[Done + 1][1]) /\ InType(job.base, w[Done + 1][2])
    BY <2>1, <1>6 DEF Clear, LimitsIn
  <2>3. r.min.value = Low(w[Done + 1]) /\ r.max.value = High(w[Done + 1])
    BY <2>1, <2>2, RangeFits
  <2> QED BY <2>1, <2>3, LowHigh
<1> HIDE DEF r, raw
<1>7. ASSUME Clear(job.base, w)
      PROVE  /\ Proper(job.list) /\ Proper(job.kept)
             /\ \A k \in DOMAIN job.list :
                  \E l \in 1 .. Done : Low(w[l]) = job.list[k].min.value
             /\ \A x \in Int : (In(job.list, x) \/ In(job.kept, x))
                                 <=> Covered(w, Done, x)
  BY <1>1, <1>2, <1>7 DEF KeepInv, Taken
<1>8. CASE job'.st = "seek" /\ job'.list = job.list /\ job'.range = r
  <2>1. Taken' = Done
    BY <1>8, <1>3 DEF Taken
  <2> QED BY <1>2, <1>3, <1>4, <1>6, <1>7, <1>8, <2>1, <1>1
          DEF CoverInv, KeepInv, TypesKept
<1>9. CASE job'.st = "check" /\ job'.list = <<r>> \o job.list
  <2>1. Taken' = Done + 1
    BY <1>9, <1>3 DEF Taken
  <2> DEFINE u == <<r>> \o job.list
  <2>2. /\ Len(u) = Len(job.list) + 1 /\ u[1] = r /\ u \in Seq(RangeOf)
        /\ \A k \in 1 .. Len(job.list) : u[k + 1] = job.list[k]
        /\ \A x : In(u, x)
                    <=> ((r.min.value <= x /\ x <= r.max.value) \/ In(job.list, x))
        /\ (Proper(job.list) /\ r.min.value <= r.max.value) => Proper(u)
    <3>1. <<r>> \in Seq(RangeOf)
      BY <1>2
    <3>2. u \in Seq(RangeOf)
      BY <3>1, <1>5, ConcatProperties
    <3> HIDE DEF u
    <3> QED BY <3>2, <1>2, <1>5, InFirst DEF u
  <2> HIDE DEF u
  <2>3. Len(job.list) \in Nat /\ DOMAIN u = 1 .. Len(job.list) + 1
    BY <2>2, <1>5, ListFacts
  <2>4. ASSUME Clear(job.base, w), NEW k \in DOMAIN u
        PROVE  \E l \in 1 .. Done + 1 : Low(w[l]) = u[k].min.value
    <3>1. CASE k = 1
      <4>1. Done + 1 \in 1 .. Done + 1
        BY <1>3
      <4> QED BY <4>1, <3>1, <2>2, <2>4, <1>6
    <3>2. CASE k # 1
      <4>1. k - 1 \in 1 .. Len(job.list) /\ u[k] = job.list[k - 1]
        <5>1. k - 1 \in 1 .. Len(job.list) /\ (k - 1) + 1 = k
          BY <3>2, <2>3
        <5> QED BY <5>1, <2>2
      <4>2. PICK l \in 1 .. Done : Low(w[l]) = job.list[k - 1].min.value
        BY <4>1, <2>4, <1>5, <1>7
      <4>3. l \in 1 .. Done + 1
        BY <1>3
      <4> QED BY <4>1, <4>2, <4>3
    <3> QED BY <3>1, <3>2
  <2>5. ASSUME Clear(job.base, w), NEW x \in Int
        PROVE  (In(u, x) \/ In(job.kept, x)) <=> Covered(w, Done + 1, x)
    <3>1. Covered(w, Done + 1, x)
            <=> (Covered(w, Done, x) \/ (r.min.value <= x /\ x <= r.max.value))
      BY <2>5, <1>3, <1>6, CoveredNext
    <3>2. (In(job.list, x) \/ In(job.kept, x)) <=> Covered(w, Done, x)
      BY <2>5, <1>7
    <3> QED BY <3>1, <3>2, <2>2
  <2>6. job'.list = u /\ job'.st = "check"
    BY <1>9 DEF u
  <2>7. KeepInv'
    BY <2>6, <1>2, <1>6, <1>7, <2>1, <2>2, <2>4, <2>5 DEF KeepInv
  <2> QED BY <1>1, <1>2, <1>4, <2>7 DEF CoverInv, TypesKept
<1> QED BY <1>2, <1>8, <1>9

\* A step that leaves what is written and what is left of it keeps RestInv.
LEMMA RestStays ==
  ASSUME RestInv, job.st # "idle",
         job'.written = job.written, job'.rest = job.rest,
         Done' = Done, language' = language,
         job'.st = "seek" => Done > 0,
         job'.st = "normalize" => job.rest = <<>>
  PROVE  RestInv'
<1>1. /\ Len(job.rest) <= Len(job.written)
      /\ \A k \in 1 .. Len(job.rest) :
           job.rest[k] = ScanRange(job.written[Done + k])
  BY DEF RestInv
<1>2. \A k : ScanRange(job.written[Done + k])' = ScanRange(job.written[Done + k])
  BY DEF ScanRange, Scan
<1>3. Len(job'.rest) <= Len(job'.written)
  BY <1>1
<1>4. \A k \in 1 .. Len(job'.rest) :
        job'.rest[k] = ScanRange(job.written[Done + k])'
  BY <1>1, <1>2
<1> QED BY <1>3, <1>4 DEF RestInv

\* The same for a step that leaves the whole job alone.
LEMMA RestUntouched ==
  ASSUME RestInv, job' = job, Done' = Done, language' = language
  PROVE  RestInv'
<1>1. CASE job.st = "idle"
  BY <1>1 DEF RestInv
<1>2. CASE job.st # "idle"
  <2>1. (job.st = "seek" => Done > 0) /\ (job.st = "normalize" => job.rest = <<>>)
    BY <1>2 DEF RestInv
  <2> QED BY <1>2, <2>1, RestStays
<1> QED BY <1>1, <1>2

LEMMA SeekOnCovers == ASSUME IInv, CoverInv, SeekOn PROVE CoverInv'
<1>1. /\ job.st = "seek" /\ job'.st = "seek" /\ job'.base = job.base
      /\ job'.written = job.written /\ job'.rest = job.rest
      /\ job'.list = job.list /\ job'.kept = job.kept /\ job'.range = job.range
      /\ UNCHANGED <<language, types, default>>
  BY SeekOnStep
<1>2. Done' = Done /\ Taken' = Taken
  BY <1>1 DEF Done, Taken
<1>3. RestInv'
  <2>1. RestInv /\ (job.st = "seek" => Done > 0)
                /\ (job.st = "normalize" => job.rest = <<>>)
    BY <1>1 DEF CoverInv, RestInv
  <2>2. job.st # "idle" /\ language' = language
    BY <1>1
  <2> QED BY <1>1, <1>2, <2>1, <2>2, RestStays
<1>4. KeepInv'
  BY <1>1, <1>2 DEF CoverInv, KeepInv
<1> QED BY <1>1, <1>3, <1>4 DEF CoverInv, TypesKept
LEMMA DoneBounds ==
  ASSUME Len(job.rest) \in Nat, Len(job.written) \in Nat
  PROVE  Done \in Int /\ Done <= Len(job.written)
<1>1. \A n, m \in Nat : n - m \in Int /\ n - m <= n
  OBVIOUS
<1>2. Done = Len(job.written) - Len(job.rest)
  BY DEF Done
<1> QED BY <1>1, <1>2

\* Where the list would be cut, a range is written between two earlier ones.
LEMMA CutBetween ==
  ASSUME IInv, CoverInv, LinkRange, Clear(job.base, job.written)
  PROVE  job.at = Len(job.list)
<1> DEFINE w == job.written
           r == job.range
<1>1. /\ job.st = "seek" /\ job.at \in 1 .. Len(job.list)
      /\ Found(job.list, r, job.at)
  BY LinkRangeStep
<1>2. /\ job.list \in Seq(RangeOf) /\ DOMAIN job.list = 1 .. Len(job.list)
      /\ Len(job.list) \in Nat /\ r \in RangeOf /\ w \in Written
      /\ Len(job.rest) \in Nat /\ Len(w) \in Nat
  BY JobFacts
<1>3. SUFFICES ASSUME job.at # Len(job.list) PROVE FALSE
  OBVIOUS
<1>4. job.at < Len(job.list) /\ job.at + 1 \in 1 .. Len(job.list)
  BY <1>1, <1>2, <1>3
<1>5. /\ Uniform(job.base, job.list) /\ r.min.basetype = CastTo[job.base]
      /\ job.list[job.at].min.value < r.min.value
      /\ job.base \in Casting
  BY <1>1 DEF IInv, JobInv, Clear
<1>6. r.min.value <= job.list[job.at + 1].min.value
  <2>1. compareValues(r.min, job.list[job.at + 1].min) <= 0
    BY <1>1, <1>4 DEF Found
  <2>2. /\ job.list[job.at + 1].min \in Value /\ r.min \in Value
        /\ job.list[job.at + 1].min.basetype = r.min.basetype
        /\ r.min.basetype \in {"INTEGER32", "UNSIGNED32"}
    BY <1>2, <1>4, <1>5, ListFacts, RangeFields, CastTypes DEF Uniform
  <2> QED BY <2>1, <2>2, Compared
<1>7. /\ \A k \in DOMAIN job.list :
           \E l \in 1 .. Done - 1 : Low(w[l]) = job.list[k].min.value
      /\ r.min.value = Low(w[Done])
      /\ Done > 0 /\ Len(job.rest) <= Len(w)
  BY <1>1 DEF CoverInv, RestInv, KeepInv, Taken
<1>8. PICK a \in 1 .. Done - 1, c \in 1 .. Done - 1 :
        /\ Low(w[a]) = job.list[job.at].min.value
        /\ Low(w[c]) = job.list[job.at + 1].min.value
  BY <1>1, <1>2, <1>4, <1>7
<1>9. /\ Done \in DOMAIN w /\ a \in DOMAIN w /\ c \in DOMAIN w
      /\ a < Done /\ c < Done
  <2>1. DOMAIN w = 1 .. Len(w)
    BY <1>2, WrittenFacts
  <2>2. Done \in Int /\ Done <= Len(w)
    BY <1>2, DoneBounds
  <2> HIDE DEF w
  <2> QED BY <2>1, <2>2, <1>2, <1>7
<1>10. Low(w[a]) < Low(w[Done]) /\ Low(w[Done]) <= Low(w[c])
  BY <1>5, <1>6, <1>7, <1>8
<1>11. Between(w)
  BY <1>9, <1>10 DEF Between
<1> QED BY <1>11 DEF Clear

LEMMA LinkRangeCovers == ASSUME IInv, CoverInv, LinkRange PROVE CoverInv'
<1> DEFINE w == job.written
           r == job.range
<1>1. /\ job.st = "seek" /\ job'.st = "check" /\ job'.base = job.base
      /\ job'.written = job.written /\ job'.rest = job.rest
      /\ job'.list = Linked(job.list, job.range, job.at)
      /\ job'.kept = job.kept
      /\ UNCHANGED <<language, types, default>>
  BY LinkRangeStep
<1>2. /\ job.list \in Seq(RangeOf) /\ r \in RangeOf /\ w \in Written
      /\ Len(job.list) \in Nat /\ DOMAIN job.list = 1 .. Len(job.list)
      /\ Len(job.rest) \in Nat /\ Len(w) \in Nat
  BY JobFacts
<1>3. /\ Done' = Done /\ Taken' = Done /\ Taken = Done - 1
      /\ Done \in Nat /\ Done > 0 /\ Done <= Len(w)
  <2>1. Done' = Done
    BY <1>1 DEF Done
  <2>2. Taken' = Done /\ Taken = Done - 1
    BY <1>1, <2>1 DEF Taken
  <2>3. Done \in Int /\ Done <= Len(w)
    BY <1>2, DoneBounds
  <2>4. Done > 0
    BY <1>1 DEF CoverInv, RestInv
  <2> QED BY <2>1, <2>2, <2>3, <2>4
<1>4. RestInv'
  <2>1. RestInv /\ (job.st = "seek" => Done > 0)
                /\ (job.st = "normalize" => job.rest = <<>>)
    BY <1>1 DEF CoverInv, RestInv
  <2>2. job.st # "idle" /\ language' = language
    BY <1>1
  <2> QED BY <1>1, <1>3, <2>1, <2>2, RestStays
<1>5. ASSUME Clear(job.base, w)
      PROVE  /\ job'.list = Append(job.list, r)
             /\ Proper(job.list) /\ Proper(job.kept)
             /\ \A k \in DOMAIN job.list :
                  \E l \in 1 .. Done - 1 : Low(w[l]) = job.list[k].min.value
             /\ r.min.value = Low(w[Done]) /\ r.max.value = High(w[Done])
             /\ r.min.value <= r.max.value
             /\ \A x \in Int : (In(job.list, x) \/ In(job.kept, x))
                                 <=> Covered(w, Done - 1, x)
  <2>1. job'.list = Append(job.list, r)
    BY <1>1, <1>5, CutBetween DEF Linked
  <2>2. w[Done] \in Int \X Int
    BY <1>2, <1>3, WrittenFacts
  <2>3. Low(w[Done]) <= High(w[Done])
    BY <2>2, LowHigh
  <2> QED BY <1>1, <1>3, <1>5, <2>1, <2>3 DEF CoverInv, KeepInv
<1> DEFINE u == Append(job.list, r)
<1>6. /\ Len(u) = Len(job.list) + 1 /\ u[Len(job.list) + 1] = r
      /\ u \in Seq(RangeOf)
      /\ \A k \in 1 .. Len(job.list) : u[k] = job.list[k]
      /\ \A x : In(u, x)
                  <=> ((r.min.value <= x /\ x <= r.max.value) \/ In(job.list, x))
      /\ (Proper(job.list) /\ r.min.value <= r.max.value) => Proper(u)
  BY <1>2, InLast, AppendProperties
<1> HIDE DEF u, r, w
<1>7. DOMAIN u = 1 .. Len(job.list) + 1
  BY <1>6, ListFacts
<1>8. ASSUME Clear(job.base, w), NEW k \in DOMAIN u
      PROVE  \E l \in 1 .. Done : Low(w[l]) = u[k].min.value
  <2>1. CASE k = Len(job.list) + 1
    <3>1. Done \in 1 .. Done
      BY <1>3
    <3> QED BY <3>1, <2>1, <1>5, <1>6, <1>8
  <2>2. CASE k # Len(job.list) + 1
    <3>1. k \in DOMAIN job.list /\ u[k] = job.list[k]
      BY <2>2, <1>2, <1>6, <1>7
    <3>2. PICK l \in 1 .. Done - 1 : Low(w[l]) = job.list[k].min.value
      BY <3>1, <1>5, <1>8
    <3>3. l \in 1 .. Done
      BY <1>3
    <3> QED BY <3>1, <3>2, <3>3
  <2> QED BY <2>1, <2>2
<1>9. ASSUME Clear(job.base, w), NEW x \in Int
      PROVE  (In(u, x) \/ In(job.kept, x)) <=> Covered(w, Done, x)
  <2>1. Done - 1 \in Nat /\ (Done - 1) + 1 = Done
    BY <1>3
  <2>2. Covered(w, (Done - 1) + 1, x)
          <=> (\/ Covered(w, Done - 1, x)
               \/ (Low(w[(Done - 1) + 1]) <= x /\ x <= High(w[(Done - 1) + 1])))
    BY <2>1, CoveredNext
  <2>3. Covered(w, Done, x)
          <=> (Covered(w, Done - 1, x) \/ (Low(w[Done]) <= x /\ x <= High(w[Done])))
    BY <2>1, <2>2
  <2>4. (In(job.list, x) \/ In(job.kept, x)) <=> Covered(w, Done - 1, x)
    BY <1>5, <1>9
  <2> QED BY <2>3, <2>4, <1>5, <1>6, <1>9
<1>10. KeepInv'
  <2>1. job'.written = w /\ Clear(job'.base, w) = Clear(job.base, w)
    BY <1>1 DEF w
  <2>2. ASSUME Clear(job.base, w)
        PROVE  job'.list = u /\ Proper(u) /\ Proper(job'.kept)
    BY <1>1, <1>5, <1>6, <2>2 DEF u
  <2> QED BY <1>1, <1>3, <1>8, <1>9, <2>1, <2>2 DEF KeepInv
<1> QED BY <1>1, <1>4, <1>10 DEF CoverInv, TypesKept

LEMMA EndOfRangesCovers == ASSUME IInv, CoverInv, EndOfRanges PROVE CoverInv'
<1>1. /\ job.st = "check" /\ job'.st = "normalize" /\ job.rest = <<>>
      /\ job'.base = job.base /\ job'.written = job.written
      /\ job'.rest = job.rest /\ job'.list = job.list /\ job'.kept = job.kept
      /\ UNCHANGED <<language, types, default>>
  BY EndOfRangesStep
<1>2. Done' = Done /\ Taken' = Taken
  BY <1>1 DEF Done, Taken
<1>3. RestInv'
  <2>1. RestInv /\ (job.st = "seek" => Done > 0)
                /\ (job.st = "normalize" => job.rest = <<>>)
    BY <1>1 DEF CoverInv, RestInv
  <2>2. job.st # "idle" /\ language' = language
    BY <1>1
  <2> QED BY <1>1, <1>2, <2>1, <2>2, RestStays
<1>4. KeepInv'
  BY <1>1, <1>2 DEF CoverInv, KeepInv
<1> QED BY <1>1, <1>3, <1>4 DEF CoverInv, TypesKept

LEMMA KeepRangeCovers == ASSUME IInv, CoverInv, KeepRange PROVE CoverInv'
<1> DEFINE w == job.written
           r == job.list[1]
           u == Tail(job.list)
           v == Append(job.kept, r)
<1>1. /\ job.st = "normalize" /\ job'.st = "normalize" /\ job'.base = job.base
      /\ job'.written = w /\ job'.rest = job.rest
      /\ job.list # <<>> /\ job'.list = u /\ job'.kept = v
      /\ UNCHANGED <<language, types, default>>
  BY KeepRangeStep
<1>2. Done' = Done /\ Taken' = Taken
  BY <1>1 DEF Done, Taken
<1>3. RestInv'
  <2>1. RestInv /\ (job.st = "seek" => Done > 0)
                /\ (job.st = "normalize" => job.rest = <<>>)
    BY <1>1 DEF CoverInv, RestInv
  <2>2. job.st # "idle" /\ language' = language
    BY <1>1
  <2> QED BY <1>1, <1>2, <2>1, <2>2, RestStays
<1>4. /\ r \in RangeOf
      /\ \A x : In(job.list, x)
                  <=> ((r.min.value <= x /\ x <= r.max.value) \/ In(u, x))
      /\ Proper(job.list) => Proper(u) /\ r.min.value <= r.max.value
  BY <1>1, JobFacts, InTail
<1> HIDE DEF r, u, w
<1>5. /\ \A x : In(v, x)
                  <=> ((r.min.value <= x /\ x <= r.max.value) \/ In(job.kept, x))
      /\ (Proper(job.kept) /\ r.min.value <= r.max.value) => Proper(v)
  BY <1>4, JobFacts, InLast
<1> HIDE DEF v
<1>6. ASSUME Clear(job.base, w)
      PROVE  /\ Proper(job.list) /\ Proper(job.kept)
             /\ \A x \in Int : (In(job.list, x) \/ In(job.kept, x))
                                 <=> Covered(w, Taken, x)
  BY <1>1, <1>6 DEF CoverInv, KeepInv, w
<1>7. KeepInv'
  BY <1>1, <1>2, <1>4, <1>5, <1>6 DEF KeepInv
<1> QED BY <1>1, <1>3, <1>7 DEF CoverInv, TypesKept

LEMMA JoinRangesCovers == ASSUME IInv, CoverInv, JoinRanges PROVE CoverInv'
<1> DEFINE w == job.written
           a == job.list[1]
           c == job.list[2]
           r == [c EXCEPT !.min = a.min]
           s == Tail(Tail(job.list))
           u == <<r>> \o s
<1>1. /\ job.st = "normalize" /\ job'.st = "normalize" /\ job'.base = job.base
      /\ job'.written = w /\ job'.rest = job.rest
      /\ Len(job.list) > 1 /\ Adjacent(job.list)
      /\ job'.list = u /\ job'.kept = job.kept
      /\ UNCHANGED <<language, types, default>>
  BY JoinRangesStep
<1>2. Done' = Done /\ Taken' = Taken
  BY <1>1 DEF Done, Taken
<1>3. RestInv'
  <2>1. RestInv /\ (job.st = "seek" => Done > 0)
                /\ (job.st = "normalize" => job.rest = <<>>)
    BY <1>1 DEF CoverInv, RestInv
  <2>2. job.st # "idle" /\ language' = language
    BY <1>1
  <2> QED BY <1>1, <1>2, <2>1, <2>2, RestStays
<1>4. /\ job.list # <<>> /\ a \in RangeOf /\ Tail(job.list) \in Seq(RangeOf)
      /\ Tail(job.list)[1] = c /\ Tail(job.list) # <<>>
      /\ \A x : In(job.list, x)
                  <=> ((a.min.value <= x /\ x <= a.max.value) \/ In(Tail(job.list), x))
      /\ Proper(job.list) => Proper(Tail(job.list)) /\ a.min.value <= a.max.value
  <2>1. job.list # <<>> /\ Len(job.list) \in Nat /\ job.list \in Seq(RangeOf)
    BY <1>1, JobFacts, ListFacts
  <2>2. /\ a \in RangeOf /\ Tail(job.list) \in Seq(RangeOf)
        /\ Len(Tail(job.list)) = Len(job.list) - 1
        /\ \A k \in 1 .. Len(job.list) - 1 : Tail(job.list)[k] = job.list[k + 1]
        /\ \A x : In(job.list, x)
                    <=> ((a.min.value <= x /\ x <= a.max.value) \/ In(Tail(job.list), x))
        /\ Proper(job.list) => Proper(Tail(job.list)) /\ a.min.value <= a.max.value
    BY <2>1, InTail
  <2>3. 1 \in 1 .. Len(job.list) - 1 /\ 1 + 1 = 2
    BY <1>1, <2>1
  <2>4. Tail(job.list)[1] = c
    BY <2>2, <2>3
  <2>5. Len(Tail(job.list)) > 0
    BY <1>1, <2>1, <2>2
  <2>6. Tail(job.list) # <<>>
    BY <2>2, <2>5, ListFacts
  <2> QED BY <2>1, <2>2, <2>4, <2>6
<1>5. /\ c \in RangeOf /\ s \in Seq(RangeOf)
      /\ \A x : In(Tail(job.list), x)
                  <=> ((c.min.value <= x /\ x <= c.max.value) \/ In(s, x))
      /\ Proper(Tail(job.list)) => Proper(s) /\ c.min.value <= c.max.value
  BY <1>4, InTail
<1>6. r \in RangeOf /\ r.min = a.min /\ r.max = c.max
  BY <1>4, <1>5 DEF RangeOf
<1>7. ASSUME job.base \in Casting PROVE a.max.value = c.min.value - 1
  <2>1. 1 \in DOMAIN job.list /\ 2 \in DOMAIN job.list
    BY <1>1, JobFacts
  <2>2. /\ a.max.basetype = CastTo[job.base] /\ c.min.basetype = CastTo[job.base]
    BY <1>7, <2>1 DEF IInv, JobInv, Uniform
  <2>3. a.max \in Value /\ c.min \in Value
    BY <1>4, <1>5, RangeFields
  <2>4. compareValues(a.max, c.min) = -1
    BY <1>1 DEF Adjacent
  <2> HIDE DEF a, c
  <2> QED BY <1>7, <2>2, <2>3, <2>4, Compared, CastTypes
<1>8. /\ a.min.value \in Int /\ a.max.value \in Int
      /\ c.min.value \in Int /\ c.max.value \in Int
  BY <1>4, <1>5, RangeFields DEF Value
<1> HIDE DEF a, c, r, s, w
<1>9. /\ \A x : In(u, x) <=> ((r.min.value <= x /\ x <= r.max.value) \/ In(s, x))
      /\ (Proper(s) /\ r.min.value <= r.max.value) => Proper(u)
  BY <1>5, <1>6, InFirst
<1> HIDE DEF u
<1>10. ASSUME Clear(job.base, w)
       PROVE  /\ Proper(u) /\ Proper(job.kept)
              /\ \A x \in Int : (In(u, x) \/ In(job.kept, x)) <=> Covered(w, Taken, x)
  <2>1. /\ Proper(job.list) /\ Proper(job.kept)
        /\ \A x \in Int : (In(job.list, x) \/ In(job.kept, x))
                            <=> Covered(w, Taken, x)
    BY <1>1, <1>10 DEF CoverInv, KeepInv, w
  <2>2. /\ a.max.value = c.min.value - 1 /\ a.min.value <= a.max.value
        /\ c.min.value <= c.max.value /\ Proper(s)
    BY <1>4, <1>5, <1>7, <1>10, <2>1 DEF Clear
  <2>3. ASSUME NEW x \in Int PROVE In(u, x) <=> In(job.list, x)
    <3>1. (a.min.value <= x /\ x <= c.max.value)
            <=> (\/ a.min.value <= x /\ x <= a.max.value
                 \/ c.min.value <= x /\ x <= c.max.value)
      BY <1>8, <2>2
    <3> QED BY <3>1, <1>4, <1>5, <1>6, <1>9
  <2>4. Proper(u)
    BY <1>6, <1>8, <1>9, <2>2
  <2> QED BY <2>1, <2>3, <2>4
<1>11. KeepInv'
  BY <1>1, <1>2, <1>10 DEF KeepInv
<1> QED BY <1>1, <1>3, <1>11 DEF CoverInv, TypesKept

LEMMA EndTypeCovers == ASSUME IInv, CoverInv, EndType PROVE CoverInv'
<1>1. /\ job.st = "normalize" /\ job.list = <<>> /\ job'.st = "idle"
      /\ Len(types) \in Nat /\ DOMAIN types = 1 .. Len(types)
      /\ DOMAIN types' = 1 .. Len(types) + 1
      /\ \A t \in 1 .. Len(types) : types'[t] = types[t]
      /\ types'[Len(types) + 1].base = job.base
      /\ types'[Len(types) + 1].written = job.written
      /\ types'[Len(types) + 1].list = job.kept
  BY EndTypeStep
<1>2. job.rest = <<>> /\ Taken = Len(job.written)
  <2>1. job.rest = <<>>
    BY <1>1 DEF CoverInv, RestInv
  <2>2. Len(<<>>) = 0 /\ Len(job.written) \in Nat
    BY JobFacts, EmptySeq
  <2> QED BY <1>1, <2>1, <2>2 DEF Taken, Done
<1>3. ASSUME Clear(job.base, job.written), NEW x \in Int
      PROVE  In(job.kept, x) <=> Covered(job.written, Len(job.written), x)
  <2>1. ~In(<<>>, x)
    BY DEF In
  <2> QED BY <1>1, <1>2, <1>3, <2>1 DEF CoverInv, KeepInv
<1>4. TypesKept'
  <2> SUFFICES ASSUME NEW t \in 1 .. Len(types) + 1,
                      Clear(types'[t].base, types'[t].written), NEW x \in Int
               PROVE  In(types'[t].list, x)
                        <=> Covered(types'[t].written, Len(types'[t].written), x)
    BY <1>1 DEF TypesKept
  <2>1. CASE t = Len(types) + 1
    BY <2>1, <1>1, <1>3
  <2>2. CASE t # Len(types) + 1
    <3>1. t \in DOMAIN types /\ types'[t] = types[t]
      BY <2>2, <1>1
    <3> QED BY <3>1 DEF CoverInv, TypesKept
  <2> QED BY <2>1, <2>2
<1> QED BY <1>1, <1>4 DEF CoverInv, RestInv, KeepInv

LEMMA NextCovers == IInv /\ CoverInv /\ [Next]_vars => CoverInv'
<1> SUFFICES ASSUME IInv, CoverInv, [Next]_vars PROVE CoverInv'
  OBVIOUS
<1>1. CASE \E b \in Basetype, w \in Limited : BeginType(b, w)
  BY <1>1, BeginTypeCovers
<1>2. CASE \E t \in DOMAIN types, n \in Numbers : CheckDefault(t, n)
  <2>1. UNCHANGED <<language, types, job>>
    BY <1>2 DEF CheckDefault
  <2>2. Done' = Done /\ Taken' = Taken
    BY <2>1 DEF Done, Taken
  <2>3. RestInv'
    BY <2>1, <2>2, RestUntouched DEF CoverInv
  <2>4. KeepInv'
    BY <2>1, <2>2 DEF CoverInv, KeepInv
  <2>5. TypesKept'
    BY <2>1 DEF CoverInv, TypesKept
  <2> QED BY <2>1, <2>3, <2>4, <2>5 DEF CoverInv
<1>3. CASE UNCHANGED vars
  <2>1. UNCHANGED <<language, types, job>>
    BY <1>3 DEF vars
  <2>2. Done' = Done /\ Taken' = Taken
    BY <2>1 DEF Done, Taken
  <2>3. RestInv'
    BY <2>1, <2>2, RestUntouched DEF CoverInv
  <2>4. KeepInv'
    BY <2>1, <2>2 DEF CoverInv, KeepInv
  <2>5. TypesKept'
    BY <2>1 DEF CoverInv, TypesKept
  <2> QED BY <2>1, <2>3, <2>4, <2>5 DEF CoverInv
<1> QED BY <1>1, <1>2, <1>3, CheckRangeCovers, SeekOnCovers, LinkRangeCovers,
           EndOfRangesCovers, JoinRangesCovers, KeepRangeCovers, EndTypeCovers
        DEF Next

LEMMA CoverInvariant == Spec => [](IInv /\ CoverInv)
<1>1. Init => IInv /\ CoverInv
  <2> SUFFICES ASSUME Init PROVE CoverInv
    BY InitIInv
  <2>1. job.st = "idle" /\ types = <<>>
    BY DEF Init, Idle
  <2>2. DOMAIN types = {}
    BY <2>1
  <2> QED BY <2>1, <2>2 DEF CoverInv, RestInv, KeepInv, TypesKept
<1>2. IInv /\ CoverInv /\ [Next]_vars => (IInv /\ CoverInv)'
  BY NextIInv, NextCovers
<1>3. QED
  BY <1>1, <1>2, PTL DEF Spec

\* Membership in the sets of numbers that are written and kept.
LEMMA KeptAllowed ==
  ASSUME IInv, NEW t \in DOMAIN types
  PROVE  /\ \A x : x \in Kept(types[t].list)
                     <=> (x \in Int /\ In(types[t].list, x))
         /\ \A x : x \in Allowed(types[t].written)
                     <=> (/\ x \in Int
                          /\ Covered(types[t].written, Len(types[t].written), x))
<1> DEFINE s == types[t].list
           w == types[t].written
<1>1. types[t] \in Type
  BY LenProperties, ElementOfSeq DEF IInv, TypeOK
<1>2. s \in Seq(RangeOf) /\ w \in Written
  BY <1>1 DEF Type
<1> HIDE DEF s, w
<1>3. \A i \in DOMAIN s : s[i].min.value \in Int /\ s[i].max.value \in Int
  BY <1>2, ListFacts
<1>4. \A x : x \in Kept(s) <=> (x \in Int /\ In(s, x))
  BY <1>3 DEF Kept, In
<1>5. /\ DOMAIN w = 1 .. Len(w)
      /\ \A i \in DOMAIN w : Low(w[i]) \in Int /\ High(w[i]) \in Int
  BY <1>2, WrittenFacts, LowHigh
<1>6. \A x : x \in Allowed(w) <=> (x \in Int /\ Covered(w, Len(w), x))
  BY <1>5 DEF Allowed, Covered
<1> QED BY <1>4, <1>6 DEF s, w

\* Sorting and joining lose no number and add none, for every list of ranges of
\* the basetype in which none is written between two earlier ones.
THEOREM NumbersStay == Spec => []NumbersKept
<1>1. IInv /\ CoverInv => NumbersKept
  <2> SUFFICES ASSUME IInv, CoverInv, NEW t \in DOMAIN types,
                      Clear(types[t].base, types[t].written)
               PROVE  Kept(types[t].list) = Allowed(types[t].written)
    BY DEF NumbersKept, Clear
  <2>1. \A x \in Int : In(types[t].list, x)
               <=> Covered(types[t].written, Len(types[t].written), x)
    BY DEF CoverInv, TypesKept
  <2> QED BY <2>1, KeptAllowed
<1>2. QED
  BY <1>1, CoverInvariant, PTL-----------------------------------------------------------------------------
(***************************************************************************)
(* The errors that are reported.                                           *)
(***************************************************************************)
RangeOK(b, p) == InType(b, p[1]) /\ InType(b, p[2]) /\ p[1] <= p[2]
WFTo(b, w, n) ==
  /\ \A i \in 1 .. n : RangeOK(b, w[i])
  /\ \A i, j \in 1 .. n : i < j => w[i][2] < w[j][1]
AllShort(w) == \A i \in DOMAIN w : Short(w[i])
Matches(list, w, n) ==
  /\ Len(list) = n
  /\ \A k \in 1 .. n : list[k].min.value = w[k][1] /\ list[k].max.value = w[k][2]

\* While nothing is reported, the list is what was written so far, unchanged.
ErrInv ==
  (job.st # "idle" /\ job.base \in Casting /\ AllShort(job.written)) =>
    /\ job.errors = {} <=> /\ WFTo(job.base, job.written, Taken)
                           /\ job.st = "seek" =>
                                RangeOK(job.base, job.written[Done])
    /\ job.errors = {} /\ job.st # "normalize" =>
         Matches(job.list, job.written, Taken)
    /\ job.errors = {} /\ job.st = "seek" =>
         /\ job.range.min.value = job.written[Done][1]
         /\ job.range.max.value = job.written[Done][2]

JudgeInv == ErrInv /\ ErrorsJustified

\* A number that is read as itself is found outside a basetype if it is.
LEMMA ScannedBounds ==
  ASSUME NEW b \in Casting, NEW n \in Int, Scanned(n)
  PROVE  /\ OutOfBasetype(b, Scan(n)) <=> ~InType(b, n)
         /\ ScanErrors(n) = {}
<1>1. /\ Scan(n) \in Value /\ Scan(n).value = n
      /\ Scan(n).basetype \in {"INTEGER32", "UNSIGNED32"}
  BY ScanValue DEF Scanned
<1>2. /\ n >= 0 => Scan(n).basetype = "UNSIGNED32"
      /\ n < 0 => Scan(n).basetype = "INTEGER32"
  <2>1. CASE n >= 0
    <3>1. Scan(n).basetype \in {"UNSIGNED32", "UNSIGNED64"}
      BY <2>1 DEF Scan
    <3> QED BY <1>1, <2>1, <3>1
  <2>2. CASE n < 0
    <3>1. Scan(n).basetype \in {"INTEGER32", "INTEGER64"}
      BY <2>2 DEF Scan
    <3> QED BY <1>1, <2>2, <3>1
  <2> QED BY <2>1, <2>2
<1>3. n >= 0 => n \in 0 .. UINT_MAX
  BY <1>1, <1>2 DEF Value
<1>4. n < 0 => n \in -INT_MAX - 1 .. -1
  BY <1>1, <1>2, Widths DEF Value
<1>5. b \in {"INTEGER32", "UNSIGNED32", "OCTETSTRING"}
  BY DEF Casting, CastTo
<1> DEFINE v == Scan(n)
<1>6. v.value = n /\ v.basetype = IF n >= 0 THEN "UNSIGNED32" ELSE "INTEGER32"
  BY <1>1, <1>2
<1> HIDE DEF v
<1>7. OutOfBasetype(b, v) <=> ~InType(b, n)
  <2>1. CASE b = "INTEGER32"
    BY <2>1, <1>3, <1>4, <1>6, Widths DEF OutOfBasetype, InType
  <2>2. CASE b = "UNSIGNED32"
    BY <2>2, <1>3, <1>4, <1>6, Widths DEF OutOfBasetype, InType
  <2>3. CASE b = "OCTETSTRING"
    BY <2>3, <1>3, <1>4, <1>6, Widths, SizeAssumption DEF OutOfBasetype, InType
  <2> QED BY <1>5, <2>1, <2>2, <2>3
<1>8. ~Overflows(n)
  BY <1>3, <1>4, WidthAssumption DEF Overflows, ULONG_MAX, UINT_MAX
<1> QED BY <1>7, <1>8 DEF v, ScanErrors

\* Nothing is reported of the limits of a range exactly if it is in order.
LEMMA RangeChecked ==
  ASSUME NEW b \in Casting, NEW p \in Int \X Int, Short(p)
  PROVE  /\ CheckErrors(b, ScanRange(p)) = {} <=> RangeOK(b, p)
         /\ LET r == Ordered(Limits(b, ScanRange(p)))
            IN  RangeOK(b, p) => r.min.value = p[1] /\ r.max.value = p[2]
<1>1. /\ p[1] \in Int /\ p[2] \in Int /\ Scanned(p[1]) /\ Scanned(p[2])
      /\ ScanRange(p).min = Scan(p[1]) /\ ScanRange(p).max = Scan(p[2])
  BY DEF Short, ScanRange
<1> DEFINE raw == ScanRange(p)
           out == OutOfBasetype(b, raw.min) \/ OutOfBasetype(b, raw.max)
           ex  == Exchanged(Limits(b, raw))
<1>2. out <=> ~(InType(b, p[1]) /\ InType(b, p[2]))
  BY <1>1, ScannedBounds
<1>3. InType(b, p[1]) /\ InType(b, p[2]) => (ex <=> p[1] > p[2])
  BY RangeFits
<1>4. CheckErrors(b, raw) = If(out, "range-bounds") \cup If(ex, "range-exchanged")
  BY DEF CheckErrors
<1>5. ASSUME RangeOK(b, p)
      PROVE  LET r == Ordered(Limits(b, raw))
             IN  r.min.value = p[1] /\ r.max.value = p[2]
  <2>1. InType(b, p[1]) /\ InType(b, p[2]) /\ p[1] <= p[2]
    BY <1>5 DEF RangeOK
  <2>2. Low(p) = p[1] /\ High(p) = p[2]
    BY <2>1, LowHigh
  <2> QED BY <2>1, <2>2, RangeFits
<1> HIDE DEF out, ex
<1>6. CheckErrors(b, raw) = {} <=> (~out /\ ~ex)
  BY <1>4 DEF If
<1>7. (~out /\ ~ex) <=> RangeOK(b, p)
  BY <1>1, <1>2, <1>3 DEF RangeOK
<1> QED BY <1>5, <1>6, <1>7

\* One range more is in order if it starts after the last of those before it.
LEMMA WFNext ==
  ASSUME NEW b, NEW w \in Written, NEW n \in Nat, n + 1 <= Len(w)
  PROVE  WFTo(b, w, n + 1) <=> /\ WFTo(b, w, n) /\ RangeOK(b, w[n + 1])
                               /\ n > 0 => w[n][2] < w[n + 1][1]
<1>1. \A i \in 1 .. n + 1 : w[i][1] \in Int /\ w[i][2] \in Int
  BY WrittenFacts
<1>2. /\ 1 .. n \subseteq 1 .. n + 1 /\ n + 1 \in 1 .. n + 1
      /\ n > 0 => n \in 1 .. n + 1 /\ n < n + 1
      /\ \A i \in 1 .. n + 1 : i \in 1 .. n \/ i = n + 1
  OBVIOUS
<1>3. WFTo(b, w, n + 1) => /\ WFTo(b, w, n) /\ RangeOK(b, w[n + 1])
                           /\ n > 0 => w[n][2] < w[n + 1][1]
  BY <1>2 DEF WFTo
<1>4. ASSUME WFTo(b, w, n), RangeOK(b, w[n + 1]),
             n > 0 => w[n][2] < w[n + 1][1]
      PROVE  WFTo(b, w, n + 1)
  <2>1. ASSUME NEW i \in 1 .. n PROVE w[i][2] < w[n + 1][1]
    <3>1. n \in 1 .. n /\ w[n][2] < w[n + 1][1]
      BY <1>4
    <3>2. CASE i = n
      BY <3>1, <3>2
    <3>3. CASE i # n
      <4>1. i < n
        BY <3>3
      <4>2. w[i][2] < w[n][1] /\ w[n][1] <= w[n][2]
        BY <1>4, <3>1, <4>1 DEF WFTo, RangeOK
      <4>3. /\ w[i][2] \in Int /\ w[n][1] \in Int /\ w[n][2] \in Int
            /\ w[n + 1][1] \in Int
        BY <1>1, <1>2, <3>1
      <4> QED BY <3>1, <4>2, <4>3
    <3> QED BY <3>2, <3>3
  <2>2. \A i \in 1 .. n + 1 : RangeOK(b, w[i])
    BY <1>2, <1>4 DEF WFTo
  <2>3. ASSUME NEW i \in 1 .. n + 1, NEW j \in 1 .. n + 1, i < j
        PROVE  w[i][2] < w[j][1]
    <3>1. i \in 1 .. n
      BY <2>3
    <3> QED BY <1>2, <1>4, <2>1, <2>3, <3>1 DEF WFTo
  <2> QED BY <2>2, <2>3 DEF WFTo
<1> QED BY <1>3, <1>4

LEMMA BeginTypeJudges ==
  ASSUME IInv, JudgeInv, NEW b \in Basetype, NEW w \in Limited,
         BeginType(b, w)
  PROVE  JudgeInv'
<1>1. /\ job'.st = "check" /\ job'.base = b /\ job'.written = w
      /\ job'.list = <<>> /\ w \in Written
      /\ job'.errors = UNION {ScanErrors(w[i][1]) \cup ScanErrors(w[i][2]) :
                                i \in DOMAIN w}
      /\ Done' = 0 /\ UNCHANGED <<language, types>>
  BY BeginTypeStep
<1>2. Taken' = 0
  BY <1>1 DEF Taken
<1>3. ASSUME b \in Casting, AllShort(job.written)' PROVE job'.errors = {}
  <2>1. AllShort(w)
    BY <1>1, <1>3 DEF AllShort, Short, Scanned, Scan
  <2>2. \A i \in DOMAIN w : ScanErrors(w[i][1]) = {} /\ ScanErrors(w[i][2]) = {}
    BY <1>1, <1>3, <2>1, WrittenFacts, ScannedBounds DEF AllShort, Short
  <2> QED BY <1>1, <2>2
<1>4. WFTo(b, w, 0) /\ Matches(<<>>, w, 0)
  <2>1. Len(<<>>) = 0
    BY EmptySeq
  <2> QED BY <2>1 DEF WFTo, Matches
<1>6. ErrInv'
  BY <1>1, <1>2, <1>3, <1>4 DEF ErrInv
<1>7. ErrorsJustified'
  BY <1>1 DEF JudgeInv, ErrorsJustified, Short, Scanned, Scan
<1> QED BY <1>6, <1>7 DEF JudgeInv

LEMMA CheckRangeJudges ==
  ASSUME IInv, CoverInv, JudgeInv, CheckRange PROVE JudgeInv'
<1> DEFINE w == job.written
           n == Done
           p == w[n + 1]
           r == Ordered(Limits(job.base, ScanRange(p)))
           c == CheckErrors(job.base, ScanRange(p))
           e == job.errors \cup c
<1>1. /\ job.st = "check" /\ n + 1 \in 1 .. Len(w)
      /\ job'.base = job.base /\ job'.written = w
      /\ \/ /\ job.list = <<>> \/ AtHead(job.list, r)
            /\ job'.st = "check" /\ job'.list = <<r>> \o job.list
            /\ job'.errors = IF job.list = <<>> THEN e
                             ELSE e \cup HeadErrors(job.list, r)
         \/ /\ job.list # <<>> /\ ~AtHead(job.list, r)
            /\ job'.st = "seek" /\ job'.list = job.list /\ job'.at = 1
            /\ job'.range = r /\ job'.errors = e
      /\ UNCHANGED <<language, types, default>> /\ r \in RangeOf
  BY CheckRangeStep DEF CoverInv
<1>2. Done' = n + 1 /\ n \in Nat
  BY RestTaken DEF CoverInv
<1>3. /\ w \in Written /\ Len(w) \in Nat /\ job.list \in Seq(RangeOf)
      /\ p \in Int \X Int /\ n + 1 <= Len(w) /\ Taken = n
      /\ p[1] \in Int /\ p[2] \in Int
  <2>1. w \in Written /\ Len(w) \in Nat /\ job.list \in Seq(RangeOf)
    BY JobFacts
  <2> QED BY <1>1, <1>2, <2>1, WrittenFacts DEF Taken
<1>4. AllShort(job.written)' <=> AllShort(w)
  BY <1>1 DEF AllShort, Short, Scanned, Scan
<1>5. ErrorsJustified'
  BY <1>1 DEF JudgeInv, ErrorsJustified, Short, Scanned, Scan
<1> SUFFICES ASSUME job.base \in Casting, AllShort(w)
             PROVE  /\ job'.errors = {} <=> /\ WFTo(job.base, w, Taken')
                                            /\ job'.st = "seek" =>
                                                 RangeOK(job.base, w[Done'])
                    /\ job'.errors = {} /\ job'.st # "normalize" =>
                         Matches(job'.list, w, Taken')
                    /\ job'.errors = {} /\ job'.st = "seek" =>
                         /\ job'.range.min.value = w[Done'][1]
                         /\ job'.range.max.value = w[Done'][2]
  <2>1. ErrInv'
    BY <1>1, <1>4 DEF ErrInv
  <2> QED BY <1>5, <2>1 DEF JudgeInv
<1>6. /\ job.errors = {} <=> WFTo(job.base, w, n)
      /\ job.errors = {} => Matches(job.list, w, n)
  BY <1>1, <1>3 DEF JudgeInv, ErrInv
<1>7. /\ c = {} <=> RangeOK(job.base, p)
      /\ RangeOK(job.base, p) => r.min.value = p[1] /\ r.max.value = p[2]
  <2>1. n + 1 \in DOMAIN w
    BY <1>1, <1>3, WrittenFacts
  <2>2. Short(p)
    BY <2>1 DEF AllShort
  <2> QED BY <1>3, <2>2, RangeChecked
<1>8. e = {} <=> WFTo(job.base, w, n) /\ RangeOK(job.base, p)
  BY <1>6, <1>7
<1>9. /\ Len(job.list) \in Nat /\ DOMAIN job.list = 1 .. Len(job.list)
      /\ job.list # <<>> <=> Len(job.list) > 0
  BY <1>3, ListFacts
<1>10. /\ WFTo(job.base, w, n + 1)
             <=> /\ WFTo(job.base, w, n) /\ RangeOK(job.base, p)
                 /\ n > 0 => w[n][2] < p[1]
  BY <1>2, <1>3, WFNext
<1>11. CASE job.list = <<>>
  <2>1. /\ job'.st = "check" /\ job'.errors = e /\ Taken' = n + 1
        /\ job'.list = <<r>> \o job.list
    BY <1>1, <1>2, <1>11 DEF Taken
  <2>2. e = {} => n = 0 /\ Len(job.list) = 0
    BY <1>6, <1>9, <1>11, <1>8 DEF Matches
  <2>3. e = {} <=> WFTo(job.base, w, n + 1)
    BY <1>2, <1>8, <1>10, <2>2
  <2>4. ASSUME e = {} PROVE Matches(job'.list, w, n + 1)
    <3>1. Len(<<r>> \o job.list) = 1 /\ (<<r>> \o job.list)[1] = r
      BY <1>1, <1>3, <2>2, <2>4, InFirst
    <3>2. r.min.value = w[1][1] /\ r.max.value = w[1][2] /\ n + 1 = 1
      BY <1>7, <1>8, <2>2, <2>4
    <3> HIDE DEF r, e
    <3>3. \A k \in 1 .. 1 : k = 1
      OBVIOUS
    <3> QED BY <2>1, <3>1, <3>2, <3>3 DEF Matches
  <2> HIDE DEF e, w
  <2> QED BY <1>2, <2>1, <2>3, <2>4
<1>12. CASE job.list # <<>> /\ AtHead(job.list, r)
  <2>1. /\ job'.st = "check" /\ Taken' = n + 1
        /\ job'.errors = e \cup HeadErrors(job.list, r)
    BY <1>1, <1>2, <1>12 DEF Taken
  <2>2. job'.errors # {}
    BY <2>1 DEF HeadErrors
  <2>3. ASSUME WFTo(job.base, w, n + 1) PROVE FALSE
    <3>1. Matches(job.list, w, n) /\ RangeOK(job.base, p) /\ n > 0
      BY <1>6, <1>9, <1>10, <1>12, <2>3 DEF Matches
    <3>2. 1 \in 1 .. n /\ 1 \in 1 .. n + 1 /\ n + 1 \in 1 .. n + 1 /\ 1 < n + 1
      BY <1>2, <3>1
    <3>3. /\ job.list[1].min.value = w[1][1] /\ r.min.value = p[1]
          /\ 1 \in DOMAIN job.list
      BY <1>7, <1>9, <3>1, <3>2 DEF Matches
    <3>4. w[1][1] <= w[1][2] /\ w[1][2] < p[1]
      BY <2>3, <3>2 DEF WFTo, RangeOK
    <3>5. w[1][1] \in Int /\ w[1][2] \in Int
      BY <1>2, <1>3, <3>2, WrittenFacts
    <3>6. r.min.value > job.list[1].min.value
      BY <1>3, <3>3, <3>4, <3>5
    <3>7. /\ r.min \in Value /\ job.list[1].min \in Value
          /\ r.min.basetype = CastTo[job.base]
          /\ job.list[1].min.basetype = CastTo[job.base]
      <4>1. ScanRange(p) \in RangeOf
        BY <1>3, ScanValue DEF ScanRange, RangeOf
      <4>2. r.min.basetype = CastTo[job.base]
        BY <4>1, JobFacts, Ready
      <4> QED BY <1>1, <1>3, <3>3, <4>2, RangeFields, ListFacts
              DEF IInv, JobInv, Uniform
    <3> HIDE DEF r
    <3>8. compareValues(r.min, job.list[1].min) <= 0
      BY <1>12 DEF AtHead
    <3>9. r.min.value <= job.list[1].min.value
      BY <3>7, <3>8, Compared, CastTypes
    <3>10. r.min.value \in Int /\ job.list[1].min.value \in Int
      BY <3>7 DEF Value
    <3> QED BY <3>6, <3>9, <3>10
  <2> QED BY <2>1, <2>2, <2>3
<1>13. CASE job.list # <<>> /\ ~AtHead(job.list, r)
  <2>1. /\ job'.st = "seek" /\ Taken' = n /\ Done' = n + 1
        /\ job'.errors = e /\ job'.list = job.list /\ job'.range = r
    BY <1>1, <1>2, <1>13 DEF Taken
  <2>2. e = {} => Matches(job.list, w, n) /\ r.min.value = p[1] /\ r.max.value = p[2]
    BY <1>6, <1>7, <1>8
  <2> HIDE DEF e, w, r
  <2> QED BY <1>8, <2>1, <2>2
<1> QED BY <1>11, <1>12, <1>13

LEMMA LinkRangeJudges ==
  ASSUME IInv, CoverInv, JudgeInv, LinkRange PROVE JudgeInv'
<1> DEFINE w == job.written
           m == Done - 1
           p == w[m + 1]
           r == job.range
           l == job.list
           e == LinkErrors(l, r, job.at)
<1>1. /\ job.st = "seek" /\ job'.st = "check" /\ job'.base = job.base
      /\ job'.written = w /\ job'.rest = job.rest
      /\ job.at \in 1 .. Len(l) /\ Found(l, r, job.at)
      /\ job'.list = Linked(l, r, job.at)
      /\ job'.errors = job.errors \cup e
      /\ UNCHANGED <<language, types, default>>
  BY LinkRangeStep
<1>2. /\ w \in Written /\ Len(w) \in Nat /\ l \in Seq(RangeOf) /\ r \in RangeOf
      /\ Len(job.rest) \in Nat /\ Len(l) \in Nat /\ DOMAIN l = 1 .. Len(l)
  BY JobFacts
<1>3. /\ m \in Nat /\ m + 1 = Done /\ m + 1 <= Len(w)
      /\ Done' = m + 1 /\ Taken' = m + 1 /\ Taken = m
  <2>1. Done \in Int /\ Done <= Len(w) /\ Done > 0
    BY <1>1, <1>2, DoneBounds DEF CoverInv, RestInv
  <2>2. Done' = Done
    BY <1>1 DEF Done
  <2>3. Taken' = Done /\ Taken = Done - 1
    BY <1>1, <2>2 DEF Taken
  <2> QED BY <2>1, <2>2, <2>3
<1>4. AllShort(job.written)' <=> AllShort(w)
  BY <1>1 DEF AllShort, Short, Scanned, Scan
<1>5. ErrorsJustified'
  BY <1>1 DEF JudgeInv, ErrorsJustified, Short, Scanned, Scan
<1> SUFFICES ASSUME job.base \in Casting, AllShort(w)
             PROVE  /\ job'.errors = {} <=> WFTo(job.base, w, m + 1)
                    /\ job'.errors = {} => Matches(job'.list, w, m + 1)
  <2>1. ErrInv'
    BY <1>1, <1>3, <1>4 DEF ErrInv
  <2> QED BY <1>5, <2>1 DEF JudgeInv
<1>6. /\ job.errors = {} <=> (WFTo(job.base, w, m) /\ RangeOK(job.base, p))
      /\ job.errors = {} => /\ Matches(l, w, m)
                            /\ r.min.value = p[1] /\ r.max.value = p[2]
  BY <1>1, <1>3 DEF JudgeInv, ErrInv
<1>7. WFTo(job.base, w, m + 1)
             <=> /\ WFTo(job.base, w, m) /\ RangeOK(job.base, p)
                 /\ m > 0 => w[m][2] < p[1]
  BY <1>3, <1>2, WFNext
<1>8. /\ r.min \in Value /\ r.max \in Value
      /\ r.min.basetype = CastTo[job.base]
      /\ \A k \in DOMAIN l : /\ l[k].min \in Value /\ l[k].max \in Value
                             /\ l[k].min.basetype = CastTo[job.base]
                             /\ l[k].max.basetype = CastTo[job.base]
  BY <1>1, <1>2, RangeFields, ListFacts DEF IInv, JobInv, Uniform
<1>9. /\ \A k \in DOMAIN l : compareValues(r.min, l[k].min) <= 0
                               <=> r.min.value <= l[k].min.value
      /\ \A k \in DOMAIN l : compareValues(r.min, l[k].max) <= 0
                               <=> r.min.value <= l[k].max.value
  BY <1>8, Compared, CastTypes
<1>10. \A k \in 1 .. m + 1 : w[k][1] \in Int /\ w[k][2] \in Int
  BY <1>2, <1>3, WrittenFacts
<1>11. ASSUME job.errors = {}, e = {}
       PROVE  WFTo(job.base, w, m + 1) /\ Matches(job'.list, w, m + 1)
  <2>1. Matches(l, w, m) /\ Len(l) = m
    BY <1>6, <1>11 DEF Matches
  <2>2. job.at = m
    <3>1. ~(job.at < Len(l))
      BY <1>11 DEF LinkErrors, If
    <3> QED BY <1>1, <1>2, <2>1, <3>1
  <2>3. m \in 1 .. m /\ m \in DOMAIN l /\ m \in 1 .. m + 1 /\ m + 1 \in 1 .. m + 1
    BY <1>1, <1>2, <1>3, <2>1, <2>2
  <2>4. ~(compareValues(r.min, l[m].max) <= 0)
    BY <1>11, <2>2 DEF LinkErrors, If
  <2>5. /\ ~(r.min.value <= l[m].max.value)
        /\ r.min.value = p[1] /\ l[m].max.value = w[m][2]
    BY <1>6, <1>9, <1>11, <2>1, <2>3, <2>4 DEF Matches
  <2>6. w[m][2] < p[1]
    BY <2>3, <2>5, <1>10
  <2>7. WFTo(job.base, w, m + 1)
    BY <1>6, <1>7, <1>11, <2>6
  <2>8. job'.list = Append(l, r)
    BY <1>1, <2>1, <2>2 DEF Linked
  <2>9. /\ Len(Append(l, r)) = m + 1 /\ Append(l, r)[m + 1] = r
        /\ \A k \in 1 .. m : Append(l, r)[k] = l[k]
    BY <1>2, <2>1, InLast
  <2>10. \A k \in 1 .. m + 1 : k \in 1 .. m \/ k = m + 1
    BY <1>3
  <2> HIDE DEF l, r, w
  <2> QED BY <2>1, <1>6, <1>11, <2>7, <2>8, <2>9, <2>10 DEF Matches
<1>12. ASSUME WFTo(job.base, w, m + 1) PROVE job.errors = {} /\ e = {}
  <2>1. /\ job.errors = {} /\ Matches(l, w, m) /\ Len(l) = m
        /\ r.min.value = p[1] /\ m > 0
    BY <1>1, <1>2, <1>6, <1>7, <1>12 DEF Matches
  <2>2. ASSUME NEW k \in 1 .. m
        PROVE  l[k].min.value < r.min.value /\ l[k].max.value < r.min.value
    <3>1. k \in 1 .. m + 1 /\ m + 1 \in 1 .. m + 1 /\ k < m + 1
      BY <1>3
    <3>2. w[k][1] <= w[k][2] /\ w[k][2] < p[1]
      BY <1>12, <3>1 DEF WFTo, RangeOK
    <3>3. l[k].min.value = w[k][1] /\ l[k].max.value = w[k][2]
      BY <2>1 DEF Matches
    <3>4. w[k][1] \in Int /\ w[k][2] \in Int /\ p[1] \in Int
      BY <1>10, <3>1
    <3> HIDE DEF l, r, w
    <3> QED BY <2>1, <3>2, <3>3, <3>4
  <2>3. job.at = m
    <3>1. SUFFICES ASSUME job.at # m PROVE FALSE
      OBVIOUS
    <3>2. job.at < Len(l) /\ job.at + 1 \in 1 .. m /\ job.at + 1 \in DOMAIN l
      BY <1>1, <1>2, <2>1, <3>1
    <3>3. compareValues(r.min, l[job.at + 1].min) <= 0
      BY <1>1, <3>2 DEF Found
    <3>4. r.min.value <= l[job.at + 1].min.value
      BY <1>9, <3>2, <3>3
    <3>5. l[job.at + 1].min.value < r.min.value
      BY <2>2, <3>2
    <3>6. l[job.at + 1].min.value \in Int /\ r.min.value \in Int
      BY <1>8, <3>2 DEF Value
    <3> QED BY <3>4, <3>5, <3>6
  <2>4. m \in 1 .. m /\ m \in DOMAIN l
    BY <1>1, <1>2, <2>1, <2>3
  <2>5. ~(compareValues(r.min, l[m].max) <= 0)
    <3>1. l[m].max.value < r.min.value
      BY <2>2, <2>4
    <3>2. l[m].max.value \in Int /\ r.min.value \in Int
      BY <1>8, <2>4 DEF Value
    <3> QED BY <1>9, <2>4, <3>1, <3>2
  <2>6. ~(job.at < Len(l))
    BY <1>3, <2>1, <2>3
  <2> QED BY <2>1, <2>3, <2>5, <2>6 DEF LinkErrors, If
<1> HIDE DEF e, w, l
<1> QED BY <1>1, <1>11, <1>12

\* A step that leaves the reports and what is written as they are.
LEMMA NormalizeJudges ==
  ASSUME JudgeInv, job.st # "idle", job.st # "seek", job'.st = "normalize",
         job'.base = job.base, job'.written = job.written, job'.rest = job.rest,
         job'.errors = job.errors, UNCHANGED <<language, types>>
  PROVE  JudgeInv'
<1>1. Done' = Done /\ Taken' = Done /\ Taken = Done
  BY DEF Done, Taken
<1>2. AllShort(job.written)' <=> AllShort(job.written)
  BY DEF AllShort, Short, Scanned, Scan
<1>3. ErrInv'
  BY <1>1, <1>2 DEF JudgeInv, ErrInv
<1>4. ErrorsJustified'
  BY DEF JudgeInv, ErrorsJustified, Short, Scanned, Scan
<1> QED BY <1>3, <1>4 DEF JudgeInv

LEMMA SeekOnJudges == ASSUME IInv, JudgeInv, SeekOn PROVE JudgeInv'
<1>1. /\ job.st = "seek" /\ job'.st = "seek" /\ job'.base = job.base
      /\ job'.written = job.written /\ job'.rest = job.rest
      /\ job'.list = job.list /\ job'.range = job.range
      /\ job'.errors = job.errors /\ UNCHANGED <<language, types, default>>
  BY SeekOnStep
<1>2. Done' = Done /\ Taken' = Taken
  BY <1>1 DEF Done, Taken
<1>3. AllShort(job.written)' <=> AllShort(job.written)
  BY <1>1 DEF AllShort, Short, Scanned, Scan
<1>4. ErrInv'
  BY <1>1, <1>2, <1>3 DEF JudgeInv, ErrInv
<1>5. ErrorsJustified'
  BY <1>1 DEF JudgeInv, ErrorsJustified, Short, Scanned, Scan
<1> QED BY <1>4, <1>5 DEF JudgeInv

LEMMA EndTypeJudges ==
  ASSUME IInv, CoverInv, JudgeInv, EndType PROVE JudgeInv'
<1>1. /\ job.st = "normalize" /\ job.list = <<>> /\ job'.st = "idle"
      /\ Len(types) \in Nat /\ DOMAIN types = 1 .. Len(types)
      /\ DOMAIN types' = 1 .. Len(types) + 1
      /\ \A t \in 1 .. Len(types) : types'[t] = types[t]
      /\ types'[Len(types) + 1].base = job.base
      /\ types'[Len(types) + 1].written = job.written
      /\ types'[Len(types) + 1].errors = job.errors
      /\ UNCHANGED <<language, default>>
  BY EndTypeStep
<1>2. Taken = Len(job.written)
  <2>1. job.rest = <<>>
    BY <1>1 DEF CoverInv, RestInv
  <2>2. Len(<<>>) = 0 /\ Len(job.written) \in Nat
    BY JobFacts, EmptySeq
  <2> QED BY <1>1, <2>1, <2>2 DEF Taken, Done
<1>3. ASSUME job.base \in Casting, AllShort(job.written)
      PROVE  job.errors = {} <=> WellFormed(job.base, job.written)
  <2>1. job.errors = {} <=> WFTo(job.base, job.written, Len(job.written))
    BY <1>1, <1>2, <1>3 DEF JudgeInv, ErrInv
  <2>2. DOMAIN job.written = 1 .. Len(job.written)
    BY JobFacts, WrittenFacts
  <2> QED BY <2>1, <2>2 DEF WFTo, WellFormed, LimitsIn, RangeOK
<1>4. /\ \A w : AllShort(w) <=> \A i \in DOMAIN w : Short(w[i])
      /\ \A p : Short(p)' <=> Short(p)
  BY <1>1 DEF AllShort, Short, Scanned, Scan
<1>5. ASSUME NEW t \in 1 .. Len(types) + 1, types'[t].base \in Casting,
             AllShort(types'[t].written)
      PROVE  types'[t].errors = {}
               <=> WellFormed(types'[t].base, types'[t].written)
  <2>1. CASE t = Len(types) + 1
    BY <2>1, <1>1, <1>3, <1>5
  <2>2. CASE t # Len(types) + 1
    <3>1. t \in DOMAIN types /\ types'[t] = types[t]
      BY <2>2, <1>1
    <3> QED BY <3>1, <1>4, <1>5 DEF JudgeInv, ErrorsJustified
  <2> QED BY <2>1, <2>2
<1>6. ErrorsJustified'
  <2> SUFFICES ASSUME NEW t \in 1 .. Len(types) + 1, types'[t].base \in Casting,
                      \A i \in DOMAIN types'[t].written :
                        Short(types[t].written[i])'
               PROVE  types'[t].errors = {}
                        <=> WellFormed(types'[t].base, types'[t].written)
    BY <1>1 DEF ErrorsJustified
  <2>1. AllShort(types'[t].written)
    BY <1>1 DEF AllShort, Short, Scanned, Scan
  <2> QED BY <2>1, <1>5
<1> QED BY <1>1, <1>6 DEF JudgeInv, ErrInv

LEMMA NextJudges == IInv /\ CoverInv /\ JudgeInv /\ [Next]_vars => JudgeInv'
<1> SUFFICES ASSUME IInv, CoverInv, JudgeInv, [Next]_vars PROVE JudgeInv'
  OBVIOUS
<1>1. CASE \E b \in Basetype, w \in Limited : BeginType(b, w)
  BY <1>1, BeginTypeJudges
<1>2. CASE UNCHANGED <<language, types, job>>
  <2>1. Done' = Done /\ Taken' = Taken
    BY <1>2 DEF Done, Taken
  <2>2. AllShort(job.written)' <=> AllShort(job.written)
    BY <1>2 DEF AllShort, Short, Scanned, Scan
  <2>3. ErrInv'
    BY <1>2, <2>1, <2>2 DEF JudgeInv, ErrInv
  <2>4. ErrorsJustified'
    BY <1>2 DEF JudgeInv, ErrorsJustified, Short, Scanned, Scan
  <2> QED BY <2>3, <2>4 DEF JudgeInv
<1>3. CASE \E t \in DOMAIN types, n \in Numbers : CheckDefault(t, n)
  BY <1>2, <1>3 DEF CheckDefault
<1>4. CASE UNCHANGED vars
  BY <1>2, <1>4 DEF vars
<1>5. CASE EndOfRanges
  BY <1>5, EndOfRangesStep, NormalizeJudges
<1>6. CASE JoinRanges
  BY <1>6, JoinRangesStep, NormalizeJudges
<1>7. CASE KeepRange
  BY <1>7, KeepRangeStep, NormalizeJudges
<1> QED BY <1>1, <1>3, <1>4, <1>5, <1>6, <1>7, CheckRangeJudges, SeekOnJudges,
           LinkRangeJudges, EndTypeJudges
        DEF Next

\* Of a list whose limits are read as 32 bit numbers an error is reported
\* exactly if a limit is outside the basetype, the limits of a range are
\* exchanged, or a range does not start after the end of the one before it.
THEOREM ErrorsStay == Spec => []ErrorsJustified
<1>1. Init => JudgeInv
  <2> SUFFICES ASSUME Init PROVE JudgeInv
    OBVIOUS
  <2>1. job.st = "idle" /\ types = <<>>
    BY DEF Init, Idle
  <2>2. DOMAIN types = {}
    BY <2>1
  <2> QED BY <2>1, <2>2 DEF JudgeInv, ErrInv, ErrorsJustified
<1>2. IInv /\ CoverInv /\ JudgeInv /\ [Next]_vars => JudgeInv'
  BY NextJudges
<1>3. JudgeInv => ErrorsJustified
  BY DEF JudgeInv
<1>4. QED
  BY <1>1, <1>2, <1>3, CoverInvariant, PTL DEF Spec

\* What smiCheckTypeRanges() leaves and reports is right for integers of every
\* width and lists of every length: the numbers that were written stay, and
\* errors are reported exactly of what is wrong.
THEOREM RangesRight == Spec => []RangesJudged
<1>1. NumbersKept /\ ErrorsJustified => RangesJudged
  BY DEF RangesJudged
<1>2. QED
  BY <1>1, NumbersStay, ErrorsStay, PTL
-----------------------------------------------------------------------------
(***************************************************************************)
(* The DEFVALs.                                                            *)
(***************************************************************************)
DefaultInv ==
  default.type # 0 =>
    default.errors = ScanErrors(default.number)
                     \cup ValueErrors(types[default.type], Scan(default.number))

\* What the list of a type allows is what is written, number by number.
LEMMA ListAllows ==
  ASSUME IInv, CoverInv, NEW t \in DOMAIN types,
         Clear(types[t].base, types[t].written), NEW x \in Int
  PROVE  x \in Allowed(types[t].written) <=> In(types[t].list, x)
BY KeptAllowed DEF CoverInv, TypesKept

LEMMA TypesFacts ==
  ASSUME IInv
  PROVE  /\ Len(types) \in Nat /\ DOMAIN types = 1 .. Len(types)
         /\ \A t \in DOMAIN types :
              /\ types[t] \in Type /\ types[t].list \in Seq(RangeOf)
              /\ types[t].written \in Written /\ types[t].base \in Basetype
         /\ default.type \in 0 .. Len(types) /\ default.number \in Int
<1>1. types \in Seq(Type)
  BY DEF IInv, TypeOK
<1>2. Len(types) \in Nat /\ DOMAIN types = 1 .. Len(types)
  BY <1>1, LenProperties
<1>3. \A t \in DOMAIN types : types[t] \in Type
  BY <1>1, <1>2, ElementOfSeq
<1>4. default.type \in 0 .. Len(types) /\ default.number \in Int
  BY DEF IInv, TypeOK
<1> QED BY <1>2, <1>3, <1>4 DEF Type

LEMMA NextDefaults ==
  IInv /\ DefaultInv /\ [Next]_vars => DefaultInv'
<1> SUFFICES ASSUME IInv, DefaultInv, [Next]_vars PROVE DefaultInv'
  OBVIOUS
<1>1. /\ Len(types) \in Nat /\ default.type \in 0 .. Len(types)
      /\ DOMAIN types = 1 .. Len(types)
  BY TypesFacts
<1>2. CASE \E b \in Basetype, w \in Limited : BeginType(b, w)
  BY <1>2, BeginTypeStep DEF DefaultInv, NoDefault
<1>3. CASE UNCHANGED <<language, types, default>>
  <2>1. UNCHANGED default /\ UNCHANGED types
    BY <1>3
  <2>2. /\ ScanErrors(default.number)' = ScanErrors(default.number)
        /\ Scan(default.number)' = Scan(default.number)
    BY <1>3 DEF ScanErrors, Scan
  <2>3. ValueErrors(types[default.type], Scan(default.number))'
          = ValueErrors(types[default.type], Scan(default.number))
    BY <2>1, <2>2
  <2> QED BY <2>1, <2>2, <2>3 DEF DefaultInv
<1>4. CASE EndType
  <2>1. /\ UNCHANGED <<language, default>>
        /\ \A t \in 1 .. Len(types) : types'[t] = types[t]
    BY <1>4, EndTypeStep
  <2>2. /\ ScanErrors(default.number)' = ScanErrors(default.number)
        /\ Scan(default.number)' = Scan(default.number)
    BY <2>1 DEF ScanErrors, Scan
  <2>3. default.type # 0 => types'[default.type] = types[default.type]
    BY <1>1, <2>1
  <2> QED BY <2>1, <2>2, <2>3 DEF DefaultInv
<1>5. ASSUME NEW t \in DOMAIN types, NEW n \in Numbers, CheckDefault(t, n)
      PROVE  DefaultInv'
  <2>1. /\ default'.type = t /\ default'.number = n
        /\ default'.errors = ScanErrors(n) \cup ValueErrors(types[t], Scan(n))
        /\ UNCHANGED <<language, types, job>>
    BY <1>5 DEF CheckDefault
  <2>2. ScanErrors(n)' = ScanErrors(n) /\ Scan(n)' = Scan(n)
    BY <2>1 DEF ScanErrors, Scan
  <2> QED BY <2>1, <2>2 DEF DefaultInv, ScanErrors, Scan
<1>6. (\E t \in DOMAIN types, n \in Numbers : CheckDefault(t, n)) => DefaultInv'
  BY <1>5
<1>7. CASE CheckRange \/ SeekOn \/ LinkRange \/ EndOfRanges \/ JoinRanges \/ KeepRange
  BY <1>3, <1>7
     DEF CheckRange, SeekOn, LinkRange, EndOfRanges, JoinRanges, KeepRange
<1>8. CASE UNCHANGED vars
  BY <1>3, <1>8 DEF vars
<1> QED BY <1>2, <1>4, <1>6, <1>7, <1>8 DEF Next

\* A number read as itself is cast to itself if it is of the basetype, and
\* otherwise is reported.
LEMMA DefaultBounds ==
  ASSUME NEW b \in {"INTEGER32", "UNSIGNED32"}, NEW n \in Int, Scanned(n)
  PROVE  /\ DefaultOutOfBasetype(b, Scan(n)) <=> ~InType(b, n)
         /\ ScanErrors(n) = {}
         /\ InType(b, n) => /\ CastDefault(b, Scan(n)).value = n
                            /\ CastDefault(b, Scan(n)).basetype = CastTo[b]
                            /\ CastDefault(b, Scan(n)) \in Value
<1>1. b \in Casting /\ b \in Basetype /\ b # "OCTETSTRING"
  BY DEF Casting, CastTo, Basetype, NumberType
<1>2. OutOfBasetype(b, Scan(n)) <=> ~InType(b, n)
  BY <1>1, ScannedBounds
<1>3. Scan(n).basetype \in {"INTEGER32", "UNSIGNED32"} /\ Scan(n) \in Value
  BY ScanValue DEF Scanned
<1>4. DefaultOutOfBasetype(b, Scan(n)) <=> OutOfBasetype(b, Scan(n))
  BY <1>1, <1>3 DEF DefaultOutOfBasetype, OutOfBasetype
<1>5. CastDefault(b, Scan(n)) = Cast(b, Scan(n))
  BY <1>1 DEF CastDefault
<1> QED BY <1>1, <1>2, <1>3, <1>4, <1>5, ScannedBounds, CastFits, CastValue

\* A DEFVAL that is read as a 32 bit number is rejected exactly if it is
\* outside the ranges of its type as they were written.
THEOREM DefaultsRight == Spec => []DefaultsJudged
<1>1. ASSUME IInv, CoverInv, DefaultInv PROVE DefaultsJudged
  <2> DEFINE t == default.type
             n == default.number
             b == types[t].base
             w == types[t].written
             s == types[t].list
             v == CastDefault(b, Scan(n))
  <2> SUFFICES ASSUME t # 0, b \in {"INTEGER32", "UNSIGNED32"}, LimitsIn(b, w),
                      ~Between(w), Scanned(n)
               PROVE  default.errors = {} <=> n \in Allowed(w)
    BY DEF DefaultsJudged
  <2>1. /\ t \in DOMAIN types /\ n \in Int /\ s \in Seq(RangeOf) /\ w \in Written
    <3>1. t \in DOMAIN types /\ n \in Int
      BY <1>1, TypesFacts
    <3> QED BY <1>1, <3>1, TypesFacts
  <2>2. b \in Casting /\ Clear(b, w) /\ CastTo[b] \in {"INTEGER32", "UNSIGNED32"}
        /\ b \in NumberType
    BY DEF Clear, Casting, CastTo, NumberType
  <2>3. default.errors = ScanErrors(n) \cup ValueErrors(types[t], Scan(n))
    BY <1>1 DEF DefaultInv
  <2>4. ScanErrors(n) = {} /\ (DefaultOutOfBasetype(b, Scan(n)) <=> ~InType(b, n))
    BY <2>1, DefaultBounds
  <2> DEFINE within == \E i \in DOMAIN s : /\ compareValues(s[i].min, v) <= 0
                                           /\ compareValues(s[i].max, v) >= 0
  <2>5. default.errors = {} <=> InType(b, n) /\ within
    <3>1. ValueErrors(types[t], Scan(n))
            = If(DefaultOutOfBasetype(b, Scan(n)), "defval-basetype")
              \cup If(b \in NumberType /\ ~within, "defval-range")
      BY DEF ValueErrors
    <3> HIDE DEF within, b, n, s, v, w
    <3> QED BY <2>2, <2>3, <2>4, <3>1 DEF If
  <2>6. ASSUME InType(b, n) PROVE within <=> n \in Allowed(w)
    <3>1. v \in Value /\ v.value = n /\ v.basetype = CastTo[b]
      BY <2>1, <2>6, DefaultBounds
    <3>2. ASSUME NEW i \in DOMAIN s
          PROVE  (/\ compareValues(s[i].min, v) <= 0
                  /\ compareValues(s[i].max, v) >= 0)
                 <=> (s[i].min.value <= n /\ n <= s[i].max.value)
      <4>1. /\ s[i].min \in Value /\ s[i].max \in Value
            /\ s[i].min.value \in Int /\ s[i].max.value \in Int
        BY <2>1, ListFacts
      <4>2. s[i].min.basetype = CastTo[b] /\ s[i].max.basetype = CastTo[b]
        BY <1>1, <2>1, <2>2 DEF IInv, TypesInv, Uniform
      <4>3. compareValues(s[i].min, v) <= 0 <=> s[i].min.value <= n
        BY <2>2, <3>1, <4>1, <4>2, Compared
      <4>4. compareValues(s[i].max, v) >= 0 <=> n <= s[i].max.value
        <5> DEFINE x == s[i].max
        <5>1. x \in Value /\ x.basetype = v.basetype /\ x.value \in Int
              /\ v.basetype \in {"INTEGER32", "UNSIGNED32"}
          BY <2>2, <3>1, <4>1, <4>2
        <5> HIDE DEF x, v, n
        <5>2. compareValues(x, v) = Clamp(x.value - v.value)
          BY <5>1 DEF compareValues
        <5>3. compareValues(x, v) >= 0 <=> v.value <= x.value
          BY <2>1, <3>1, <5>1, <5>2 DEF Clamp
        <5> QED BY <3>1, <5>3 DEF x
      <4> QED BY <4>3, <4>4
    <3>3. within <=> In(s, n)
      BY <3>2 DEF In
    <3> QED BY <1>1, <2>1, <2>2, <3>3, ListAllows
  <2>7. n \in Allowed(w) => InType(b, n)
    <3>1. SUFFICES ASSUME n \in Allowed(w) PROVE InType(b, n)
      OBVIOUS
    <3>2. PICK i \in DOMAIN w : n \in Low(w[i]) .. High(w[i])
      BY <3>1 DEF Allowed
    <3>3. /\ w[i] \in Int \X Int /\ w[i][1] \in Int /\ w[i][2] \in Int
          /\ InType(b, w[i][1]) /\ InType(b, w[i][2])
      BY <2>1, WrittenFacts DEF LimitsIn
    <3>4. /\ Low(w[i]) = w[i][1] \/ Low(w[i]) = w[i][2]
          /\ High(w[i]) = w[i][1] \/ High(w[i]) = w[i][2]
          /\ Low(w[i]) \in Int /\ High(w[i]) \in Int
      BY <3>3, LowHigh
    <3>5. InType(b, Low(w[i])) /\ InType(b, High(w[i]))
      BY <3>3, <3>4
    <3>6. Low(w[i]) <= n /\ n <= High(w[i])
      BY <3>2, <3>4
    <3> HIDE DEF n, w, b
    <3>7. \A k : /\ b = "INTEGER32" => (InType(b, k) <=> k \in -INT_MAX - 1 .. INT_MAX)
                 /\ b = "UNSIGNED32" => (InType(b, k) <=> k \in 0 .. UINT_MAX)
      BY DEF InType
    <3> QED BY <2>1, <3>4, <3>5, <3>6, <3>7, Widths
  <2> QED BY <2>5, <2>6, <2>7
<1>2. Init => DefaultInv
  BY DEF Init, NoDefault, DefaultInv
<1>3. QED
  BY <1>1, <1>2, NextDefaults, CoverInvariant, PTL DEF Spec
-----------------------------------------------------------------------------
(***************************************************************************)
(* The sizes.                                                              *)
(***************************************************************************)

LEMMA LessThan ==
  ASSUME NEW m \in Nat, NEW n \in Nat, m < n
  PROVE  <<m, n>> \in OpToRel(<, Nat)
BY DEF OpToRel

\* There is no infinite descent in the natural numbers.
LEMMA Least ==
  ASSUME NEW S \in SUBSET Nat, S # {}
  PROVE  \E n \in S : \A m \in S : n <= m
<1>1. PICK n \in S : \A m \in S : ~(<<m, n>> \in OpToRel(<, Nat))
  BY WFMin, NatLessThanWellFounded
<1>2. ASSUME NEW m \in S PROVE ~(m < n)
  BY <1>1, LessThan
<1> QED BY <1>2

LEMMA MinOf ==
  ASSUME NEW S \in SUBSET Nat, S # {}
  PROVE  Min(S) \in S /\ \A m \in S : Min(S) <= m
BY Least DEF Min

LEMMA MaxOf ==
  ASSUME NEW K \in Nat, NEW S \in SUBSET (0 .. K), S # {}
  PROVE  Max(S) \in S /\ \A m \in S : m <= Max(S)
<1> DEFINE T == {K - m : m \in S}
<1>1. T \in SUBSET Nat /\ T # {}
  <2>1. \A m \in S : m \in 0 .. K
    OBVIOUS
  <2>2. \A m \in 0 .. K : K - m \in Nat
    OBVIOUS
  <2> QED BY <2>1, <2>2
<1>2. PICK x \in T : \A y \in T : x <= y
  BY <1>1, Least
<1>3. PICK n \in S : x = K - n
  BY <1>2
<1>4. ASSUME NEW m \in S PROVE m <= n
  <2>1. K - m \in T
    OBVIOUS
  <2>2. K - n <= K - m
    BY <1>2, <1>3, <2>1
  <2> QED BY <2>2
<1>5. \E q \in S : \A m \in S : q >= m
  BY <1>4
<1> QED BY <1>5 DEF Max

\* What is computed from the parent's result can be computed all the way up.
LEMMA Iterated ==
  ASSUME NEW N \in Nat, NEW z \in Nat, NEW G \in [1 .. N -> [Nat -> Nat]]
  PROVE  \E f \in [0 .. N -> Nat] :
           f[0] = z /\ \A t \in 1 .. N : f[t] = G[t][f[t - 1]]
<1> DEFINE Upto(n, f) == f[0] = z /\ \A t \in 1 .. n : f[t] = G[t][f[t - 1]]
           T == {n \in 0 .. N : ~ \E f \in [0 .. n -> Nat] : Upto(n, f)}
<1>1. ASSUME T # {} PROVE FALSE
  <2>1. PICK n \in T : \A m \in T : n <= m
    BY <1>1, Least, T \subseteq Nat
  <2>2. n # 0
    <3>1. [k \in 0 .. 0 |-> z] \in [0 .. 0 -> Nat] /\ Upto(0, [k \in 0 .. 0 |-> z])
      OBVIOUS
    <3>2. 0 \notin T
      BY <3>1
    <3> HIDE DEF T
    <3> QED BY <2>1, <3>2
  <2>3. n \in 1 .. N /\ n - 1 \in 0 .. N /\ n - 1 \notin T
    <3>1. n \in 1 .. N /\ n - 1 \in 0 .. N /\ ~(n <= n - 1)
      <4>1. n \in 0 .. N
        BY <2>1
      <4> HIDE DEF T
      <4> QED BY <2>2, <4>1
    <3> HIDE DEF T
    <3> QED BY <2>1, <3>1
  <2>4. PICK f \in [0 .. n - 1 -> Nat] : Upto(n - 1, f)
    BY <2>3
  <2> DEFINE g == [t \in 0 .. n |-> IF t = n THEN G[n][f[n - 1]] ELSE f[t]]
  <2>5. f[n - 1] \in Nat /\ G[n][f[n - 1]] \in Nat
    <3>1. n \in 1 .. N /\ n - 1 \in 0 .. n - 1
      BY <2>3
    <3>2. f[n - 1] \in Nat
      BY <3>1
    <3>3. G[n] \in [Nat -> Nat]
      BY <3>1
    <3> QED BY <3>2, <3>3
  <2>6. g \in [0 .. n -> Nat] /\ g[0] = z
    <3>1. 0 \in 0 .. n /\ 0 # n /\ 0 \in 0 .. n - 1
      BY <2>3
    <3>2. g[0] = f[0] /\ f[0] = z
      BY <2>4, <3>1
    <3>3. \A t \in 0 .. n : t # n => t \in 0 .. n - 1
      BY <2>3
    <3>4. \A t \in 0 .. n : (IF t = n THEN G[n][f[n - 1]] ELSE f[t]) \in Nat
      BY <2>5, <3>3
    <3>5. g \in [0 .. n -> Nat]
      BY <3>4
    <3> QED BY <3>1, <3>2, <3>5
  <2>7. ASSUME NEW t \in 1 .. n PROVE g[t] = G[t][g[t - 1]]
    <3>1. g[t - 1] = f[t - 1]
      BY <2>3
    <3>2. CASE t = n
      BY <3>1, <3>2, <2>3
    <3>3. CASE t # n
      <4>1. t \in 1 .. n - 1 /\ g[t] = f[t]
        BY <3>3, <2>3
      <4> QED BY <3>1, <4>1, <2>4
    <3> QED BY <3>2, <3>3
  <2> HIDE DEF g
  <2>8. Upto(n, g)
    BY <2>6, <2>7
  <2> QED BY <2>1, <2>6, <2>8
<1>2. N \in 0 .. N /\ N \notin T
  <2>1. N \in 0 .. N
    OBVIOUS
  <2> HIDE DEF T
  <2> QED BY <1>1, <2>1
<1>3. \E f \in [0 .. N -> Nat] : Upto(N, f)
  BY <1>2
<1> QED BY <1>3

\* The limits of a list that the code takes are those of its ranges.
LEMMA OwnLimits ==
  ASSUME NEW s \in Seq(RangeOf)
  PROVE  /\ OwnMin(s) \in Nat /\ OwnMax(s) \in Nat
         /\ \A i \in DOMAIN s : OwnMin(s) <= AsUnsigned(s[i].min.value)
         /\ \A n \in 0 .. SIZE_MAX :
              (\E i \in DOMAIN s : n <= AsUnsigned(s[i].max.value))
                => n <= OwnMax(s)
<1>1. /\ SIZE_MAX \in Nat /\ UINT_MAX \in Nat /\ SIZE_MAX > 0
      /\ SIZE_MAX \in 0 .. UINT_MAX /\ 0 \in 0 .. UINT_MAX
  BY SizeAssumption, Widths
<1>2. \A i \in DOMAIN s : /\ AsUnsigned(s[i].min.value) \in 0 .. UINT_MAX
                          /\ AsUnsigned(s[i].max.value) \in 0 .. UINT_MAX
  BY ListFacts, Reinterpreted
<1> DEFINE A == {SIZE_MAX} \cup {AsUnsigned(s[i].min.value) : i \in DOMAIN s}
           C == {0} \cup {AsUnsigned(s[i].max.value) : i \in DOMAIN s}
<1>3. A \in SUBSET Nat /\ A # {} /\ SIZE_MAX \in A
  BY <1>1, <1>2
<1>4. C \in SUBSET (0 .. UINT_MAX) /\ C # {} /\ 0 \in C
  BY <1>1, <1>2
<1>5. /\ Min(A) \in Nat /\ Min(A) <= SIZE_MAX
      /\ \A i \in DOMAIN s : Min(A) <= AsUnsigned(s[i].min.value)
  <2>1. \A i \in DOMAIN s : AsUnsigned(s[i].min.value) \in A
    OBVIOUS
  <2> HIDE DEF A
  <2> QED BY <1>3, <2>1, MinOf
<1>6. /\ Max(C) \in Nat
      /\ \A i \in DOMAIN s : AsUnsigned(s[i].max.value) <= Max(C)
  <2>1. \A i \in DOMAIN s : AsUnsigned(s[i].max.value) \in C
    OBVIOUS
  <2> HIDE DEF C
  <2>2. Max(C) \in C /\ \A m \in C : m <= Max(C)
    BY <1>1, <1>4, MaxOf
  <2>3. Max(C) \in 0 .. UINT_MAX
    BY <1>4, <2>2
  <2> QED BY <1>1, <2>1, <2>2, <2>3
<1>7. OwnMin(s) = IF Min(A) < SIZE_MAX THEN Min(A) ELSE 0
  BY DEF OwnMin
<1>8. OwnMax(s) = IF Max(C) > 0 /\ Max(C) < SIZE_MAX THEN Max(C) ELSE SIZE_MAX
  BY DEF OwnMax
<1> HIDE DEF A, C
<1>9. \A i \in DOMAIN s : OwnMin(s) <= AsUnsigned(s[i].min.value)
  BY <1>1, <1>2, <1>5, <1>7
<1>10. ASSUME NEW n \in 0 .. SIZE_MAX, NEW i \in DOMAIN s,
              n <= AsUnsigned(s[i].max.value)
       PROVE  n <= OwnMax(s)
  BY <1>1, <1>2, <1>6, <1>8, <1>10
<1>11. OwnMin(s) \in Nat /\ OwnMax(s) \in Nat
  BY <1>1, <1>5, <1>6, <1>7, <1>8
<1> QED BY <1>9, <1>10, <1>11

\* The larger and the smaller of two numbers.
LEMMA OfTwo ==
  ASSUME NEW a \in Nat, NEW c \in Nat
  PROVE  /\ Max({a, c}) = IF a <= c THEN c ELSE a
         /\ Min({a, c}) = IF a <= c THEN a ELSE c
         /\ Max({a, c}) \in Nat /\ Min({a, c}) \in Nat
<1> DEFINE p == <<a, c>>
<1>1. p \in Int \X Int /\ p[1] = a /\ p[2] = c
  OBVIOUS
<1> HIDE DEF p
<1>2. /\ Low(p) = IF a <= c THEN a ELSE c
      /\ High(p) = IF a <= c THEN c ELSE a
  BY <1>1, LowHigh
<1> QED BY <1>1, <1>2 DEF Low, High

\* The recursion of smiGetMinSize() and of smiGetMaxSize() ends at a basetype.
LEMMA SizesDefined ==
  ASSUME IInv
  PROVE  /\ \A t \in 0 .. Len(types) :
              /\ smiGetMinSize[t] \in Nat
              /\ smiGetMinSize[t] =
                   IF t = 0 \/ types[t].base # "OCTETSTRING" THEN 0
                   ELSE Max({OwnMin(types[t].list), smiGetMinSize[t - 1]})
         /\ \A t \in 0 .. Len(types) :
              /\ smiGetMaxSize[t] \in Nat
              /\ smiGetMaxSize[t] =
                   IF t = 0 THEN SIZE_MAX
                   ELSE IF types[t].base # "OCTETSTRING" THEN UINT_MAX
                   ELSE Min({OwnMax(types[t].list), smiGetMaxSize[t - 1]})
<1>0. Len(types) \in Nat
  BY TypesFacts
<1>N. PICK N \in Nat : N = Len(types)
  BY <1>0
<1> DEFINE A == [t \in 1 .. N |-> [x \in Nat |->
                   IF types[t].base # "OCTETSTRING" THEN 0
                   ELSE Max({OwnMin(types[t].list), x})]]
           C == [t \in 1 .. N |-> [x \in Nat |->
                   IF types[t].base # "OCTETSTRING" THEN UINT_MAX
                   ELSE Min({OwnMax(types[t].list), x})]]
           IsMin(f) == f = [t \in 0 .. N |->
                   IF t = 0 \/ types[t].base # "OCTETSTRING" THEN 0
                   ELSE Max({OwnMin(types[t].list), f[t - 1]})]
           IsMax(f) == f = [t \in 0 .. N |->
                   IF t = 0 THEN SIZE_MAX
                   ELSE IF types[t].base # "OCTETSTRING" THEN UINT_MAX
                   ELSE Min({OwnMax(types[t].list), f[t - 1]})]
<1>1. /\ SIZE_MAX \in Nat /\ UINT_MAX \in Nat
      /\ \A t \in 1 .. N : /\ OwnMin(types[t].list) \in Nat
                           /\ OwnMax(types[t].list) \in Nat
  BY <1>N, TypesFacts, OwnLimits, SizeAssumption, Widths
<1>2. A \in [1 .. N -> [Nat -> Nat]]
  BY <1>1, OfTwo
<1>3. C \in [1 .. N -> [Nat -> Nat]]
  BY <1>1, OfTwo
<1>4. PICK f \in [0 .. N -> Nat] :
             f[0] = 0 /\ \A t \in 1 .. N : f[t] = A[t][f[t - 1]]
  <2>1. 0 \in Nat
    OBVIOUS
  <2> HIDE DEF A
  <2> QED BY <1>2, <2>1, Iterated, Zenon
<1>5. PICK g \in [0 .. N -> Nat] :
             g[0] = SIZE_MAX /\ \A t \in 1 .. N : g[t] = C[t][g[t - 1]]
  <2> HIDE DEF C
  <2> QED BY <1>1, <1>3, Iterated
<1>6. \A t \in 1 .. N : t - 1 \in 0 .. N /\ f[t - 1] \in Nat /\ g[t - 1] \in Nat
  OBVIOUS
<1>7. \A t \in 0 .. N : t = 0 \/ t \in 1 .. N
  OBVIOUS
<1>8. IsMin(f)
  <2>1. \A t \in 1 .. N : f[t] = IF types[t].base # "OCTETSTRING" THEN 0
                                 ELSE Max({OwnMin(types[t].list), f[t - 1]})
    BY <1>4, <1>6
  <2> HIDE DEF A
  <2>2. \A t \in 0 .. N :
          f[t] = IF t = 0 \/ types[t].base # "OCTETSTRING" THEN 0
                 ELSE Max({OwnMin(types[t].list), f[t - 1]})
    BY <1>4, <1>7, <2>1
  <2> QED BY <2>2
<1>9. IsMax(g)
  <2>1. \A t \in 1 .. N : g[t] = IF types[t].base # "OCTETSTRING" THEN UINT_MAX
                                 ELSE Min({OwnMax(types[t].list), g[t - 1]})
    BY <1>5, <1>6
  <2> HIDE DEF C
  <2>2. \A t \in 0 .. N :
          g[t] = IF t = 0 THEN SIZE_MAX
                 ELSE IF types[t].base # "OCTETSTRING" THEN UINT_MAX
                 ELSE Min({OwnMax(types[t].list), g[t - 1]})
    BY <1>5, <1>7, <2>1
  <2> QED BY <2>2
<1>10. IsMin(smiGetMinSize)
  BY <1>8, <1>N DEF smiGetMinSize
<1>11. IsMax(smiGetMaxSize)
  BY <1>9, <1>N DEF smiGetMaxSize
<1> DEFINE mn == smiGetMinSize
           mx == smiGetMaxSize
<1> HIDE DEF mn, mx
<1>12. ASSUME NEW h, IsMin(h)
       PROVE  \A t \in 0 .. N :
                /\ h[t] \in Nat
                /\ h[t] = IF t = 0 \/ types[t].base # "OCTETSTRING" THEN 0
                          ELSE Max({OwnMin(types[t].list), h[t - 1]})
  <2>1. \A t \in 0 .. N :
                h[t] = IF t = 0 \/ types[t].base # "OCTETSTRING" THEN 0
                       ELSE Max({OwnMin(types[t].list), h[t - 1]})
    BY <1>12
  <2> DEFINE T == {t \in 0 .. N : h[t] \notin Nat}
  <2>2. ASSUME T # {} PROVE FALSE
    <3>1. PICK t \in T : \A m \in T : t <= m
      BY <2>2, Least, T \subseteq Nat
    <3>2. t \in 0 .. N /\ h[t] \notin Nat /\ \A m \in 0 .. N : m < t => h[m] \in Nat
      BY <3>1
    <3> HIDE DEF T
    <3>3. t # 0 /\ types[t].base = "OCTETSTRING"
      <4>1. SUFFICES ASSUME t = 0 \/ types[t].base # "OCTETSTRING" PROVE FALSE
        OBVIOUS
      <4>2. h[t] = 0
        BY <2>1, <3>2, <4>1
      <4> QED BY <3>2, <4>2
    <3>4. t \in 1 .. N /\ t - 1 \in 0 .. N /\ t - 1 < t
      BY <3>2, <3>3
    <3>5. h[t - 1] \in Nat
      BY <3>2, <3>4
    <3>6. h[t] = Max({OwnMin(types[t].list), h[t - 1]})
      BY <2>1, <3>2, <3>3
    <3>7. Max({OwnMin(types[t].list), h[t - 1]}) \in Nat
      <4>1. OwnMin(types[t].list) \in Nat /\ OwnMax(types[t].list) \in Nat
        BY <1>1, <3>4
      <4> QED BY <3>5, <4>1, OfTwo, Zenon
    <3> QED BY <3>2, <3>6, <3>7
  <2>3. \A t \in 0 .. N : h[t] \in Nat
    BY <2>2
  <2> QED BY <2>1, <2>3
<1>13. ASSUME NEW h, IsMax(h)
       PROVE  \A t \in 0 .. N :
                /\ h[t] \in Nat
                /\ h[t] = IF t = 0 THEN SIZE_MAX
                          ELSE IF types[t].base # "OCTETSTRING" THEN UINT_MAX
                          ELSE Min({OwnMax(types[t].list), h[t - 1]})
  <2>1. \A t \in 0 .. N :
                h[t] = IF t = 0 THEN SIZE_MAX
                       ELSE IF types[t].base # "OCTETSTRING" THEN UINT_MAX
                       ELSE Min({OwnMax(types[t].list), h[t - 1]})
    BY <1>13
  <2> DEFINE T == {t \in 0 .. N : h[t] \notin Nat}
  <2>2. ASSUME T # {} PROVE FALSE
    <3>1. PICK t \in T : \A m \in T : t <= m
      BY <2>2, Least, T \subseteq Nat
    <3>2. t \in 0 .. N /\ h[t] \notin Nat /\ \A m \in 0 .. N : m < t => h[m] \in Nat
      BY <3>1
    <3> HIDE DEF T
    <3>3. t # 0 /\ types[t].base = "OCTETSTRING"
      BY <1>1, <2>1, <3>2
    <3>4. t \in 1 .. N /\ t - 1 \in 0 .. N /\ t - 1 < t
      BY <3>2, <3>3
    <3>5. h[t - 1] \in Nat
      BY <3>2, <3>4
    <3>6. h[t] = Min({OwnMax(types[t].list), h[t - 1]})
      BY <2>1, <3>2, <3>3
    <3>7. Min({OwnMax(types[t].list), h[t - 1]}) \in Nat
      <4>1. OwnMin(types[t].list) \in Nat /\ OwnMax(types[t].list) \in Nat
        BY <1>1, <3>4
      <4> QED BY <3>5, <4>1, OfTwo, Zenon
    <3> QED BY <3>2, <3>6, <3>7
  <2>3. \A t \in 0 .. N : h[t] \in Nat
    BY <2>2
  <2> QED BY <2>1, <2>3
<1> HIDE DEF IsMin, IsMax
<1> QED BY <1>10, <1>11, <1>12, <1>13, <1>N

\* A size that a list allows is between the limits that are taken from it.
LEMMA OwnCovers ==
  ASSUME IInv, CoverInv, NEW t \in DOMAIN types, types[t].base = "OCTETSTRING",
         LimitsIn("OCTETSTRING", types[t].written), ~Between(types[t].written),
         NEW n \in 0 .. SIZE_MAX, n \in Allowed(types[t].written)
  PROVE  OwnMin(types[t].list) <= n /\ n <= OwnMax(types[t].list)
<1> DEFINE s == types[t].list
<1>1. s \in Seq(RangeOf) /\ n \in Int /\ SIZE_MAX \in Nat
  BY TypesFacts, SizeAssumption, Widths
<1>2. /\ "OCTETSTRING" \in Casting /\ CastTo["OCTETSTRING"] = "UNSIGNED32"
      /\ Clear(types[t].base, types[t].written)
  BY DEF Clear, Casting, CastTo
<1>3. PICK i \in DOMAIN s : s[i].min.value <= n /\ n <= s[i].max.value
  BY <1>1, <1>2, ListAllows DEF In
<1>4. /\ s[i].min.basetype = "UNSIGNED32" /\ s[i].max.basetype = "UNSIGNED32"
      /\ s[i].min \in Value /\ s[i].max \in Value
  BY <1>1, <1>2, ListFacts DEF IInv, TypesInv, Uniform
<1>5. s[i].min.value \in 0 .. UINT_MAX /\ s[i].max.value \in 0 .. UINT_MAX
  BY <1>4 DEF Value
<1>6. /\ AsUnsigned(s[i].min.value) = s[i].min.value
      /\ AsUnsigned(s[i].max.value) = s[i].max.value
  BY <1>5, Fits, Widths
<1> HIDE DEF s
<1>7. OwnMin(s) <= s[i].min.value /\ OwnMin(s) \in Nat
  BY <1>1, <1>3, <1>6, OwnLimits
<1>8. n <= OwnMax(s)
  BY <1>1, <1>3, <1>6, OwnLimits
<1>9. OwnMin(s) <= n
  BY <1>1, <1>3, <1>5, <1>7, Widths
<1> QED BY <1>8, <1>9 DEF s

LEMMA SizesBetween ==
  ASSUME IInv, CoverInv, NEW n \in 0 .. SIZE_MAX, NEW t \in 0 .. Len(types),
         \A u \in 1 .. t : /\ LimitsIn("OCTETSTRING", types[u].written)
                           /\ ~Between(types[u].written)
                           /\ n \in Allowed(types[u].written)
  PROVE  smiGetMinSize[t] <= n /\ n <= smiGetMaxSize[t]
<1> DEFINE Meets(u) == /\ LimitsIn("OCTETSTRING", types[u].written)
                       /\ ~Between(types[u].written)
                       /\ n \in Allowed(types[u].written)
           Fine(k) == smiGetMinSize[k] <= n /\ n <= smiGetMaxSize[k]
           T == {k \in 0 .. t : ~Fine(k)}
<1>1. /\ Len(types) \in Nat /\ DOMAIN types = 1 .. Len(types) /\ t \in Nat
      /\ SIZE_MAX \in Nat /\ UINT_MAX \in Nat /\ SIZE_MAX <= UINT_MAX
      /\ n \in Nat /\ n <= SIZE_MAX
  BY TypesFacts, SizeAssumption, Widths
<1>2. ASSUME T # {} PROVE FALSE
  <2>1. PICK k \in T : \A m \in T : k <= m
    BY <1>1, <1>2, Least, T \subseteq Nat
  <2>2. k \in 0 .. t /\ ~Fine(k) /\ k \in 0 .. Len(types)
    BY <1>1
  <2>3. \A m \in 0 .. t : m < k => Fine(m)
    <3>1. \A m \in 0 .. t : m \notin T => Fine(m)
      OBVIOUS
    <3>2. \A m \in 0 .. t : m < k => ~(k <= m)
      BY <2>2
    <3> HIDE DEF T, Fine
    <3> QED BY <2>1, <3>1, <3>2
  <2> HIDE DEF T
  <2>4. CASE k = 0
    <3>1. smiGetMinSize[k] = 0 /\ smiGetMaxSize[k] = SIZE_MAX
      BY <2>2, <2>4, SizesDefined
    <3> QED BY <1>1, <2>2, <3>1
  <2>5. CASE k # 0 /\ types[k].base # "OCTETSTRING"
    <3>1. smiGetMinSize[k] = 0 /\ smiGetMaxSize[k] = UINT_MAX
      BY <2>2, <2>5, SizesDefined
    <3> QED BY <1>1, <2>2, <3>1
  <2>6. CASE k # 0 /\ types[k].base = "OCTETSTRING"
    <3>1. /\ k \in 1 .. t /\ k \in DOMAIN types /\ k - 1 \in 0 .. t
          /\ k - 1 \in 0 .. Len(types) /\ k - 1 < k
      BY <1>1, <2>2, <2>6
    <3> DEFINE a == OwnMin(types[k].list)
               c == OwnMax(types[k].list)
               d == smiGetMinSize[k - 1]
               e == smiGetMaxSize[k - 1]
    <3>2. a <= n /\ n <= c
      BY <2>6, <3>1, OwnCovers
    <3>3. d <= n /\ n <= e
      BY <2>3, <3>1
    <3>4. a \in Nat /\ c \in Nat /\ d \in Nat /\ e \in Nat
      BY <3>1, TypesFacts, OwnLimits, SizesDefined
    <3>5. smiGetMinSize[k] = Max({a, d}) /\ smiGetMaxSize[k] = Min({c, e})
      BY <2>2, <2>6, SizesDefined
    <3> HIDE DEF a, c, d, e
    <3>6. Max({a, d}) = IF a <= d THEN d ELSE a
      BY <3>4, OfTwo
    <3>7. Min({c, e}) = IF c <= e THEN c ELSE e
      BY <3>4, OfTwo
    <3>8. Max({a, d}) <= n /\ n <= Min({c, e})
      BY <3>2, <3>3, <3>6, <3>7
    <3> QED BY <2>2, <3>5, <3>8
  <2> QED BY <2>4, <2>5, <2>6
<1>3. t \in 0 .. t
  BY <1>1
<1> QED BY <1>2, <1>3

\* A string that meets every restriction up the derivation fits into what an
\* application allocates from smiGetMinSize() and smiGetMaxSize(), however long
\* the derivation is.
THEOREM SizesRight == Spec => []SizesCover
<1>1. ASSUME IInv, CoverInv PROVE SizesCover
  <2> SUFFICES ASSUME NEW t \in DOMAIN types,
                      \A u \in 1 .. t : /\ LimitsIn("OCTETSTRING", types[u].written)
                                        /\ ~Between(types[u].written),
                      NEW n \in 0 .. SIZE_MAX,
                      \A u \in 1 .. t : n \in Allowed(types[u].written)
               PROVE  smiGetMinSize[t] <= n /\ n <= smiGetMaxSize[t]
    BY DEF SizesCover
  <2>1. t \in 0 .. Len(types)
    BY <1>1, TypesFacts
  <2> QED BY <1>1, <2>1, SizesBetween
<1>2. QED
  BY <1>1, CoverInvariant, PTL

\* What is derived from the ranges, the sizes and the fate of a DEFVAL, is
\* right for integers of every width and derivations of every depth.
THEOREM ValuesRight == Spec => []ValuesJudged
<1>1. SizesCover /\ DefaultsJudged => ValuesJudged
  BY DEF ValuesJudged
<1>2. QED
  BY <1>1, SizesRight, DefaultsRight, PTL
=============================================================================
