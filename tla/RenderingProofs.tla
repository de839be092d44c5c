--------------------------- MODULE RenderingProofs ---------------------------
(***************************************************************************)
(* That a text follows the hint of its type and that every iteration of    *)
(* the loop over it gets ahead, for every value, hint and set of flags,    *)
(* and for words and octets of any size.  The loop is held together by     *)
(* what the next specification is: the one after as many as there are      *)
(* groups, or the last one.                                                *)
(***************************************************************************)
EXTENDS Rendering, TLAPS

Piece == [as : {"a", "t", "b", "d", "o", "x", "bad"}, from : Int, to : Int,
          shown : Int, width : Int, sep : Char \cup {NULL}]

Size == Len(value.octets)
Upto == IF s = <<>> THEN 0 ELSE s[Len(s)].to

StateOK ==
  /\ call \in Calls
  /\ st \in {"call", "format", "end"}
  /\ spec \in Nat \ {0} /\ i \in Nat
  /\ s \in Seq(Piece)
  /\ st = "call" => s = <<>> /\ i = 0 /\ spec = 1
  /\ st = "format" => Formatted

\* Where the loop is when it has told the groups s.
Position ==
  /\ i = Upto /\ i <= Size
  /\ \/ Hint # <<>> /\ spec = Min2(Len(s) + 1, Len(Hint))
     \/ spec = Len(Hint) + 1 /\ (i = Size \/ Hint = <<>>)
  /\ Hint = <<>> => s = <<>>
  /\ GroupsFollow

LoopInv ==
  /\ StateOK
  /\ Formatted /\ st # "call" => Position /\ (st = "end" => AllTold /\ RefusedRightly)

-----------------------------------------------------------------------------
\* What is known of a call that goes by a hint.
LEMMA HintTyped ==
  ASSUME call \in Calls, Formatted
  PROVE  /\ Hint \in Seq(HintSpec)
         /\ value.octets \in Seq(Nat)
         /\ \A sp \in HintSpec : Count(sp) \in Nat
<1>1. value # NULL /\ value \in Val
  BY CallAssumption, NameAssumption DEF Formatted, Kind, value, Base
<1>2. type # NULL /\ type \in HintedType
  <2>1. type \in HintedType \cup {NULL}
    BY CallAssumption DEF type
  <2>2. CASE type = NULL
    BY <2>2, NameAssumption DEF Formatted, PlainOctets, Format, TypeName
  <2> QED BY <2>1, <2>2
<1>3. Ip \in Seq(HintSpec)
  <2>1. [pfx |-> 1, as |-> "d", sep |-> "."] \in HintSpec
    BY CharAssumption DEF HintSpec
  <2> QED BY <2>1 DEF Ip
<1>4. Hint \in Seq(HintSpec)
  <2>1. CASE type.name \in {NULL, IpAddress}
    BY <1>3, <2>1 DEF Hint
  <2>2. CASE type.name \notin {NULL, IpAddress}
    <3>1. type.format # NULL
      BY <1>2, <2>2 DEF Formatted, PlainOctets, Format, TypeName
    <3>2. type.format \in Seq(HintSpec) \cup {NULL}
      BY <1>2 DEF HintedType
    <3> QED BY <3>1, <3>2, <2>2 DEF Hint
  <2> QED BY <2>1, <2>2
<1>5. value.octets \in Seq(Nat)
  BY <1>1 DEF Val
<1>6. \A sp \in HintSpec : Count(sp) \in Nat
  BY DEF HintSpec, Count
<1> QED BY <1>4, <1>5, <1>6

-----------------------------------------------------------------------------
\* The loop may go on: the next specification and the octets that it takes.
LEMMA NextGroup ==
  ASSUME LoopInv, InLoop
  PROVE  /\ Formatted /\ spec \in 1 .. Len(Hint) /\ Hint # <<>>
         /\ spec = Min2(Len(s) + 1, Len(Hint)) /\ Hint[spec] \in HintSpec
         /\ i = Upto /\ i < Size /\ Size \in Nat /\ GroupsFollow
         /\ Count(Hint[spec]) \in Nat
         /\ Taken = Min2(Count(Hint[spec]), Size - i)
         /\ Taken \in 0 .. Size - i
<1>1. Formatted /\ Position
  BY DEF LoopInv, StateOK, InLoop
<1>2. Hint \in Seq(HintSpec) /\ value.octets \in Seq(Nat)
      /\ \A sp \in HintSpec : Count(sp) \in Nat
  BY <1>1, HintTyped DEF LoopInv, StateOK
<1>3. spec \in 1 .. Len(Hint) /\ i < Size /\ Size \in Nat
  BY <1>2 DEF InLoop, Size
<1>4. Hint # <<>> /\ Hint[spec] \in HintSpec
  BY <1>2, <1>3
<1>5. spec = Min2(Len(s) + 1, Len(Hint)) /\ i = Upto /\ GroupsFollow
  <2>1. Len(Hint) \in Nat /\ spec # Len(Hint) + 1
    BY <1>2, <1>3
  <2> QED BY <1>1, <2>1 DEF Position
<1>6. Count(Hint[spec]) \in Nat
  BY <1>2, <1>4
<1>7. i \in Nat
  BY DEF LoopInv, StateOK
<1>8. Taken \in 0 .. Size - i
  BY <1>3, <1>6, <1>7 DEF Taken, Min2, Size
<1> QED BY <1>1, <1>3, <1>4, <1>5, <1>6, <1>8 DEF Taken, Size

\* Telling one more group keeps the text one that follows the hint.
LEMMA TellKeeps ==
  ASSUME LoopInv, InLoop,
         NEW shown \in Int, NEW width \in Int,
         Taken <= Word => shown = i + 1,
         Tell(shown, width)
  PROVE  LoopInv'
<1> DEFINE new == Group(shown, width)
<1>1. /\ Formatted /\ spec \in 1 .. Len(Hint) /\ Hint # <<>>
      /\ spec = Min2(Len(s) + 1, Len(Hint)) /\ Hint[spec] \in HintSpec
      /\ i = Upto /\ i < Size /\ Size \in Nat /\ GroupsFollow
      /\ Count(Hint[spec]) \in Nat
      /\ Taken = Min2(Count(Hint[spec]), Size - i) /\ Taken \in 0 .. Size - i
  BY NextGroup
<1>2. /\ s' = Append(s, new) /\ i' = i + Taken /\ spec' = NextSpec(i + Taken)
      /\ call' = call /\ st' = st /\ st = "format"
  BY DEF Tell, InLoop
<1>3. /\ value' = value /\ type' = type /\ Hint' = Hint /\ Size' = Size
      /\ Formatted' = Formatted
  BY <1>2 DEF value, type, Hint, Size, Formatted, Kind, PlainOctets, Asked, Format,
              TypeName
<1>4. s \in Seq(Piece) /\ i \in Nat /\ call \in Calls /\ Len(s) \in Nat
  BY DEF LoopInv, StateOK
<1>5. new \in Piece
  <2>1. Hint[spec].as \in {"a", "t", "b", "d", "o", "x", "bad"}
        /\ Hint[spec].sep \in Char \cup {NULL}
    BY <1>1 DEF HintSpec
  <2>2. i + 1 \in Int /\ i + Taken \in Int
    BY <1>1, <1>4
  <2> QED BY <2>1, <2>2 DEF Group, Piece
<1>6. /\ s' \in Seq(Piece) /\ s' # <<>> /\ Len(s') = Len(s) + 1
      /\ s'[Len(s) + 1] = new
      /\ \A k \in 1 .. Len(s) : s'[k] = s[k]
  BY <1>2, <1>4, <1>5
<1>7. i' = Upto' /\ i' \in Nat /\ i' <= Size
  <2>1. Upto' = new.to
    BY <1>6 DEF Upto
  <2>2. new.to = i + Taken
    BY DEF Group
  <2> QED BY <1>1, <1>2, <1>4, <2>1, <2>2
<1>8. Len(Hint) \in Nat
  BY <1>1, HintTyped, <1>4
<1>9. /\ spec' \in Nat \ {0}
      /\ \/ spec' = Min2(Len(s') + 1, Len(Hint))
         \/ spec' = Len(Hint) + 1 /\ i' = Size
  <2>1. /\ spec' = IF spec = Len(Hint) /\ i' < Size THEN spec ELSE spec + 1
        /\ spec \in Nat \ {0} /\ spec <= Len(Hint) /\ Len(s') + 1 = Len(s) + 2
    BY <1>1, <1>2, <1>4, <1>6, <1>8 DEF NextSpec, Size
  <2>2. CASE spec = Len(Hint) /\ i' < Size
    <3>1. spec' = spec /\ Len(s) + 2 >= Len(Hint)
      BY <1>1, <1>4, <1>8, <2>1, <2>2 DEF Min2
    <3> QED BY <2>1, <2>2, <3>1, <1>4, <1>8 DEF Min2
  <2>3. CASE spec = Len(Hint) /\ ~(i' < Size)
    BY <1>1, <1>7, <2>1, <2>3
  <2>4. CASE spec # Len(Hint)
    <3>1. spec = Len(s) + 1 /\ spec' = spec + 1 /\ Len(s) + 2 <= Len(Hint)
      BY <1>1, <1>4, <1>8, <2>1, <2>4 DEF Min2
    <3> QED BY <2>1, <3>1, <1>4, <1>8 DEF Min2
  <2> QED BY <2>2, <2>3, <2>4
<1>10. GroupsFollow'
  <2> SUFFICES ASSUME NEW k \in 1 .. Len(s')
               PROVE  LET sp == Hint[Min2(k, Len(Hint))]
                      IN  /\ s'[k].as = sp.as
                          /\ s'[k].from = IF k = 1 THEN 1 ELSE s'[k - 1].to + 1
                          /\ s'[k].to = Min2(s'[k].from + Count(sp) - 1, Size)
                          /\ s'[k].to - s'[k].from < Word => s'[k].shown = s'[k].from
                          /\ s'[k].sep = IF s'[k].to < Size THEN sp.sep ELSE NULL
    BY <1>3, <1>6 DEF GroupsFollow, SpecOf, Size
  <2>1. CASE k <= Len(s)
    <3>1. k \in DOMAIN s /\ s'[k] = s[k] /\ (k # 1 => s'[k - 1] = s[k - 1])
      BY <1>4, <1>6, <2>1
    <3> QED BY <3>1, <1>1 DEF GroupsFollow, SpecOf, Size
  <2>2. CASE k = Len(s) + 1
    <3>1. s'[k] = new /\ Min2(k, Len(Hint)) = spec
      BY <1>1, <1>6, <2>2
    <3>2. i = IF k = 1 THEN 0 ELSE s'[k - 1].to
      <4>1. CASE s = <<>>
        BY <1>1, <2>2, <4>1 DEF Upto
      <4>2. CASE s # <<>>
        <5>1. Len(s) # 0 /\ k # 1 /\ s'[k - 1] = s[Len(s)]
          BY <1>4, <1>6, <2>2, <4>2
        <5> QED BY <5>1, <4>2, <1>1 DEF Upto
      <4> QED BY <4>1, <4>2
    <3>3. /\ new.as = Hint[spec].as /\ new.from = i + 1 /\ new.to = i + Taken
          /\ new.shown = shown
          /\ new.sep = IF i + Taken < Size THEN Hint[spec].sep ELSE NULL
      BY DEF Group, Size
    <3>4. new.to = Min2(new.from + Count(Hint[spec]) - 1, Size)
      BY <3>3, <1>1, <1>4 DEF Min2
    <3>5. new.to - new.from < Word => new.shown = new.from
      BY <3>3, <1>1, <1>4, WordAssumption
    <3>6. new.from = IF k = 1 THEN 1 ELSE s'[k - 1].to + 1
      <4>1. CASE k = 1
        BY <3>2, <3>3, <4>1
      <4>2. CASE k # 1
        BY <3>2, <3>3, <4>2
      <4> QED BY <4>1, <4>2
    <3> QED BY <3>1, <3>3, <3>4, <3>5, <3>6
  <2> QED BY <2>1, <2>2, <1>6, <1>4
<1>11. StateOK'
  BY <1>1, <1>2, <1>3, <1>4, <1>6, <1>7, <1>9 DEF StateOK
<1>12. Position'
  BY <1>1, <1>3, <1>7, <1>9, <1>10 DEF Position
<1> QED BY <1>2, <1>11, <1>12 DEF LoopInv

-----------------------------------------------------------------------------
\* The step of a call that ends it without a look at the hint.
LEMMA EndedAtOnce ==
  ASSUME LoopInv, ~Formatted, NEW a, Answered(a)
  PROVE  LoopInv'
<1>1. call' = call /\ spec' = spec /\ i' = i /\ s' = s /\ st' = "end"
  BY DEF Answered
<1>2. Formatted' = Formatted
  BY <1>1 DEF Formatted, Kind, value, PlainOctets, Asked, Format, TypeName, type
<1> QED BY <1>1, <1>2 DEF LoopInv, StateOK

\* The end of the loop: the text is complete, or rightly refused.
LEMMA EndedInLoop ==
  ASSUME LoopInv, st = "format", NEW a, Answered(a),
         a.kind = "text" /\ Hint # <<>> => Size = Upto,
         a.kind # "text" => RefusedRightly'
  PROVE  LoopInv'
<1>1. call' = call /\ spec' = spec /\ i' = i /\ s' = s /\ st' = "end" /\ answer' = a
  BY DEF Answered
<1>2. /\ value' = value /\ Hint' = Hint /\ Size' = Size /\ Upto' = Upto
      /\ Formatted' = Formatted /\ GroupsFollow' = GroupsFollow
  BY <1>1 DEF Formatted, Kind, value, PlainOctets, Asked, Format, TypeName, type, Hint,
              Size, Upto, GroupsFollow, SpecOf
<1>3. Formatted /\ Position
  BY DEF LoopInv, StateOK
<1>4. Position'
  BY <1>1, <1>2, <1>3 DEF Position
<1>5. AllTold'
  BY <1>1, <1>2 DEF AllTold, Size, Upto
<1>6. RefusedRightly'
  <2>1. CASE a.kind = "text"
    BY <2>1, <1>1 DEF RefusedRightly
  <2> QED BY <2>1
<1> QED BY <1>1, <1>2, <1>3, <1>4, <1>5, <1>6 DEF LoopInv, StateOK

-----------------------------------------------------------------------------
\* The initial states are calls without a group.
LEMMA LoopInit == RenderInit => LoopInv
  BY DEF RenderInit, LoopInv, StateOK

\* Every step keeps the groups as the hint says.
LEMMA LoopStep == LoopInv /\ [RenderNext]_renderVars => LoopInv'
<1> SUFFICES ASSUME LoopInv, [RenderNext]_renderVars PROVE LoopInv'
  OBVIOUS
<1>1. CASE RenderNumber
  <2>1. ~Formatted
    BY <1>1 DEF RenderNumber, Formatted, Number
  <2>2. CASE ToldInDecimal
    <3> DEFINE a == IF type = NULL THEN Without("crash")
                    ELSE Told(DecimalText(value.number))
    <3>1. Answered(a)
      BY <1>1, <2>2 DEF RenderNumber
    <3> HIDE DEF a
    <3> QED BY <2>1, <3>1, EndedAtOnce
  <2>3. CASE ~ToldInDecimal
    <3> DEFINE a == CASE Letter = "x" ->
                           Told(RadixText(value.number, 16, value.number < 0))
                      [] Letter = "o" -> OctalAnswer(value.number)
                      [] Letter = "b" -> Without("crash")
                      [] OTHER -> Without("null")
    <3>1. Answered(a)
      BY <1>1, <2>3 DEF RenderNumber
    <3> HIDE DEF a
    <3> QED BY <2>1, <3>1, EndedAtOnce
  <2> QED BY <2>2, <2>3
<1>2. CASE RenderEnum
  <2>1. ~Formatted
    BY <1>2 DEF RenderEnum, Formatted
  <2> QED BY <1>2, <2>1, EndedAtOnce DEF RenderEnum
<1>3. CASE RenderBits
  <2>1. ~Formatted
    BY <1>3 DEF RenderBits, Formatted
  <2> DEFINE a == Told({Label(k) : k \in {p \in Positions : IsSet(p)}})
  <2>2. Answered(a)
    BY <1>3 DEF RenderBits
  <2> HIDE DEF a
  <2> QED BY <2>1, <2>2, EndedAtOnce
<1>4. CASE RenderNothing
  <2>1. ~Formatted
    BY <1>4, NameAssumption DEF RenderNothing, Formatted, Base
  <2> QED BY <1>4, <2>1, EndedAtOnce DEF RenderNothing
<1>5. CASE RenderOctets
  <2>1. ~Formatted
    BY <1>5 DEF RenderOctets, Formatted
  <2> DEFINE a == IF Asked("format") /\ type = NULL THEN Without("crash")
                  ELSE Told(PlainText)
  <2>2. Answered(a)
    BY <1>5 DEF RenderOctets
  <2> HIDE DEF a
  <2> QED BY <2>1, <2>2, EndedAtOnce
<1>6. CASE BeginFormat
  <2>1. /\ Formatted /\ st = "call" /\ s = <<>> /\ i = 0 /\ call \in Calls
        /\ call' = call /\ i' = i /\ s' = s /\ spec' = 1 /\ st' = "format"
    BY <1>6 DEF BeginFormat, Formatted, LoopInv, StateOK
  <2>2. value' = value /\ Hint' = Hint /\ Size' = Size /\ Formatted' = Formatted
    BY <2>1 DEF value, type, Hint, Size, Formatted, Kind, PlainOctets, Asked, Format,
                TypeName
  <2>3. Hint \in Seq(HintSpec) /\ value.octets \in Seq(Nat)
    BY <2>1, HintTyped
  <2>4. StateOK'
    BY <2>1, <2>2 DEF LoopInv, StateOK
  <2>5. Position'
    <3>1. i' = Upto' /\ i' <= Size' /\ GroupsFollow'
      BY <2>1, <2>2, <2>3 DEF Upto, GroupsFollow, Size
    <3>2. Len(Hint) \in Nat /\ (Hint # <<>> => Len(Hint) >= 1)
          /\ (Hint = <<>> => Len(Hint) = 0)
      BY <2>3
    <3>3. Len(s') = 0
      BY <2>1
    <3>4. /\ Hint # <<>> => Min2(0 + 1, Len(Hint)) = 1
          /\ Hint = <<>> => Len(Hint) + 1 = 1
      BY <3>2 DEF Min2
    <3>5. \/ Hint' # <<>> /\ spec' = Min2(Len(s') + 1, Len(Hint'))
          \/ spec' = Len(Hint') + 1 /\ (i' = Size' \/ Hint' = <<>>)
      <4>1. CASE Hint # <<>>
        BY <4>1, <2>1, <2>2, <3>3, <3>4
      <4>2. CASE Hint = <<>>
        BY <4>2, <2>1, <2>2, <3>4
      <4> QED BY <4>1, <4>2
    <3> QED BY <2>1, <2>2, <3>1, <3>5 DEF Position
  <2> QED BY <2>1, <2>4, <2>5 DEF LoopInv
<1>7. CASE TellText
  <2>1. InLoop /\ Tell(i + 1, Taken)
    BY <1>7 DEF TellText
  <2>2. i + 1 \in Int /\ Taken \in Int
    BY <2>1, NextGroup DEF LoopInv, StateOK
  <2> QED BY <2>1, <2>2, TellKeeps
<1>8. CASE RefuseText
  <2>1. InLoop /\ Hint[spec].as \in {"a", "t"} /\ ~IsAscii /\ Answered(Untold)
    BY <1>8 DEF RefuseText
  <2>2. PICK k \in i + 1 .. i + Taken : ~(value.octets[k] < Ascii)
    BY <2>1 DEF IsAscii
  <2>3. Untold.kind # "text"
    BY DEF Untold, Without
  <2>4. /\ Formatted /\ spec = Min2(Len(s) + 1, Len(Hint)) /\ i = Upto
        /\ Size \in Nat /\ Count(Hint[spec]) \in Nat /\ call \in Calls /\ i \in Nat
        /\ Taken = Min2(Count(Hint[spec]), Size - i) /\ Taken \in 0 .. Size - i
    BY <2>1, NextGroup DEF LoopInv, StateOK
  <2>5. value.octets \in Seq(Nat)
    BY <2>4, HintTyped
  <2>6. /\ k \in i + 1 .. i + Count(Hint[spec]) /\ k \in DOMAIN value.octets
        /\ value.octets[k] >= Ascii
    <3>1. k \in Int /\ k >= i + 1 /\ k <= i + Count(Hint[spec]) /\ k <= Size
      BY <2>2, <2>4 DEF Min2
    <3>2. k \in DOMAIN value.octets
      BY <3>1, <2>4, <2>5 DEF Size
    <3>3. value.octets[k] \in Nat
      BY <2>5, <3>2
    <3> QED BY <2>2, <2>4, <3>1, <3>2, <3>3, WordAssumption
  <2>7. RefusedRightly'
    <3>1. call' = call /\ s' = s /\ spec' = spec
      BY <2>1 DEF Answered
    <3>2. value' = value /\ SpecOf(Len(s) + 1)' = Hint[spec]
      BY <3>1, <2>4 DEF value, SpecOf, Hint, type
    <3>3. (IF s = <<>> THEN 1 ELSE s[Len(s)].to + 1) = i + 1
      BY <2>4 DEF Upto
    <3>4. i + 1 + Count(Hint[spec]) - 1 = i + Count(Hint[spec])
      BY <2>4
    <3>5. Count(Hint[spec])' = Count(Hint[spec])
      BY <3>1 DEF Count, Hint, type
    <3> QED BY <2>1, <2>6, <3>1, <3>2, <3>3, <3>4, <3>5 DEF RefusedRightly, SpecOf, Count
  <2> QED BY <2>1, <2>3, <2>7, EndedInLoop DEF InLoop
<1>9. CASE TellNumber
  <2> DEFINE shown == Max2(i + 1, i + Taken - Word + 1)
             width == CASE Hint[spec].as = "x" -> 2 * Count(Hint[spec])
                        [] Hint[spec].as = "b" ->
                             BinaryDigits(Count(Hint[spec]) - Taken)
                        [] OTHER -> 0
  <2>1. InLoop /\ Tell(shown, width) /\ Hint[spec].as \in {"b", "d", "o", "x"}
    BY <1>9 DEF TellNumber
  <2>2. /\ Size \in Nat /\ Count(Hint[spec]) \in Nat /\ i \in Nat
        /\ Taken \in 0 .. Size - i
    BY <2>1, NextGroup DEF LoopInv, StateOK
  <2>3. shown \in Int /\ (Taken <= Word => shown = i + 1)
    BY <2>2, WordAssumption DEF Max2
  <2>4. BinaryDigits(Count(Hint[spec]) - Taken) \in Int
    <3>1. \A l \in Int : BinaryDigits(l) \in Int
      <4> TAKE l \in Int
      <4>1. Min2(l, Word) \in Int
        BY WordAssumption DEF Min2
      <4> QED BY <4>1, WordAssumption DEF BinaryDigits
    <3> QED BY <3>1, <2>2
  <2>5. width \in Int
    BY <2>2, <2>4
  <2> HIDE DEF shown, width
  <2> QED BY <2>1, <2>3, <2>5, TellKeeps
<1>10. CASE RefuseSpec
  <2>1. InLoop /\ Hint[spec].as = "bad" /\ Answered(Untold)
    BY <1>10 DEF RefuseSpec
  <2>2. Untold.kind # "text"
    BY DEF Untold, Without
  <2>3. spec = Min2(Len(s) + 1, Len(Hint))
    BY <2>1, NextGroup
  <2>4. call' = call /\ s' = s
    BY <2>1 DEF Answered
  <2>5. RefusedRightly'
    BY <2>1, <2>3, <2>4 DEF RefusedRightly, SpecOf, Hint, type
  <2> QED BY <2>1, <2>2, <2>5, EndedInLoop DEF InLoop
<1>11. CASE EndFormat
  <2>1. st = "format" /\ Answered(Told(NULL))
        /\ (spec \notin DOMAIN Hint \/ i >= Size)
    BY <1>11 DEF EndFormat, Size
  <2>2. Told(NULL).kind = "text"
    BY DEF Told
  <2>3. Formatted /\ Position /\ call \in Calls /\ i \in Nat /\ s \in Seq(Piece)
    BY <2>1 DEF LoopInv, StateOK
  <2>4. Hint \in Seq(HintSpec) /\ value.octets \in Seq(Nat)
    BY <2>3, HintTyped
  <2>5. Hint # <<>> => Size = Upto
    <3>1. SUFFICES ASSUME Hint # <<>> PROVE i = Size
      BY <2>3 DEF Position
    <3>2. Len(Hint) \in Nat \ {0} /\ Size \in Nat /\ Len(s) \in Nat
          /\ DOMAIN Hint = 1 .. Len(Hint)
      BY <2>3, <2>4, <3>1 DEF Size
    <3>3. CASE spec = Min2(Len(s) + 1, Len(Hint))
      <4>1. Min2(Len(s) + 1, Len(Hint)) \in 1 .. Len(Hint)
        BY <3>2 DEF Min2
      <4>2. spec \in DOMAIN Hint
        BY <3>2, <3>3, <4>1
      <4> QED BY <4>2, <2>1, <2>3, <3>2 DEF Position
    <3>4. CASE spec = Len(Hint) + 1
      BY <3>1, <3>2, <3>4, <2>3 DEF Position, Min2
    <3> QED BY <3>3, <3>4, <2>3 DEF Position
  <2> DEFINE a == Told(NULL)
  <2>6. Answered(a) /\ a.kind = "text"
    BY <2>1, <2>2
  <2> HIDE DEF a
  <2> QED BY <2>1, <2>5, <2>6, EndedInLoop
<1>12. CASE UNCHANGED renderVars
  <2>1. /\ Formatted' = Formatted /\ Position' = Position /\ AllTold' = AllTold
        /\ RefusedRightly' = RefusedRightly /\ StateOK' = StateOK
    BY <1>12 DEF renderVars, Formatted, Kind, value, PlainOctets, Asked, Format,
                 TypeName, type, Hint, Size, Upto, GroupsFollow, SpecOf, Position, AllTold, RefusedRightly,
                 StateOK
  <2> QED BY <1>12, <2>1 DEF LoopInv, renderVars
<1> QED
  BY <1>1, <1>2, <1>3, <1>4, <1>5, <1>6, <1>7, <1>8, <1>9, <1>10, <1>11, <1>12
     DEF RenderNext, Loop

-----------------------------------------------------------------------------
\* An octet string is told as its hint says, completely or not at all, by
\* smiRenderValue().
THEOREM TextFollowsHint == RenderSpec => []HintFollowed
<1>1. LoopInv => HintFollowed
  BY DEF LoopInv, Position, HintFollowed
<1> QED BY <1>1, LoopInit, LoopStep, PTL DEF RenderSpec

\* What is left gets smaller with either of the two that it is counted by.
LEMMA Smaller ==
  ASSUME NEW size \in Nat, NEW len \in Nat, NEW a \in Nat, NEW b \in 1 .. len,
         NEW a2 \in Nat, NEW b2 \in Int, a2 <= size, a <= a2,
         \/ a2 > a /\ b2 = b
         \/ b2 = b + 1
  PROVE  LET left  == (size - a) + (len + 1 - b)
             left2 == (size - a2) + (len + 1 - b2)
         IN  left2 < left /\ left2 >= 0
  OBVIOUS

\* The loop of smiRenderValue() over a hint has at most as many iterations as
\* there are octets and specifications, unless the last specification is one of
\* no octets.
THEOREM LoopGetsAhead == RenderSpec => GetsAhead
<1>1. LoopInv /\ [RenderNext]_renderVars =>
        [st = "format" /\ st' = "format" /\ ~Endless => Left' < Left /\ Left' >= 0]_renderVars
  <2> SUFFICES ASSUME LoopInv, RenderNext, st = "format", st' = "format", ~Endless
               PROVE  Left' < Left /\ Left' >= 0
    OBVIOUS
  <2>1. InLoop /\ \E shown, width : Tell(shown, width)
    BY DEF RenderNext, Loop, RenderNumber, RenderEnum, RenderBits, RenderNothing, RenderOctets,
           BeginFormat, EndFormat, RefuseText, RefuseSpec, Answered, TellText, TellNumber
  <2>2. /\ Formatted /\ spec \in 1 .. Len(Hint) /\ Hint # <<>>
        /\ i < Size /\ Size \in Nat /\ Count(Hint[spec]) \in Nat
        /\ Taken = Min2(Count(Hint[spec]), Size - i) /\ Taken \in 0 .. Size - i
        /\ i \in Nat /\ call \in Calls
    BY <2>1, NextGroup DEF LoopInv, StateOK
  <2>3. call' = call /\ i' = i + Taken /\ spec' = NextSpec(i + Taken)
    BY <2>1 DEF Tell
  <2>4. Len(Hint)' = Len(Hint) /\ Len(value.octets)' = Size
    BY <2>3 DEF Hint, value, type, Size
  <2>5. Len(Hint) \in Nat
    BY <2>2, HintTyped
  <2>6. /\ Left = (Size - i) + (Len(Hint) + 1 - spec)
        /\ Left' = (Size - i') + (Len(Hint) + 1 - spec')
    BY <2>4 DEF Left, Size
  <2>7. i' \in Nat /\ i' <= Size /\ i' >= i /\ spec \in Int
    BY <2>2, <2>3
  <2>8. CASE spec = Len(Hint) /\ i + Taken < Size
    <3>1. spec' = spec
      BY <2>3, <2>8 DEF NextSpec, Size
    <3>2. Count(Hint[spec]) # 0
      BY <2>2, <2>8 DEF Endless
    <3>3. Taken > 0
      BY <2>2, <3>2 DEF Min2
    <3>4. i' > i /\ spec \in 1 .. Len(Hint)
      BY <2>2, <2>3, <3>3
    <3> QED BY <2>2, <2>5, <2>6, <2>7, <3>1, <3>4, Smaller
  <2>9. CASE ~(spec = Len(Hint) /\ i + Taken < Size)
    <3>1. spec' = spec + 1
      BY <2>3, <2>9 DEF NextSpec, Size
    <3> QED BY <2>2, <2>5, <2>6, <2>7, <3>1, Smaller
  <2> QED BY <2>8, <2>9
<1> QED BY <1>1, LoopInit, LoopStep, PTL DEF RenderSpec, GetsAhead
=============================================================================
