----------------------------- MODULE Rendering -----------------------------
(***************************************************************************)
(* smiRenderValue() and smiValueAsString() of smi.c: what a value reads    *)
(* like.  Numbers, labels and bits are told in one step; an octet string   *)
(* is told by the DISPLAY-HINT of its type, of which one action is one     *)
(* iteration of the loop over it.                                          *)
(*                                                                         *)
(* A hint is the sequence of the specifications that this loop, which      *)
(* reads a number, a letter and a separator at a time, takes it for.  The  *)
(* text it makes is a sequence of groups of octets; the number that a      *)
(* group stands for is given by the octets that fit into it.               *)
(***************************************************************************)
EXTENDS Integers, Sequences, FiniteSets

CONSTANTS
  NULL,           \* no value, type, name, hint or separator
  Name, Char,     \* names; characters that separate groups
  IpAddress,      \* the name of the type that needs no hint
  OctetBits,      \* 8
  Word,           \* 8, sizeof(SmiUnsigned64)
  Ascii,          \* octets below it are ASCII
  Printable,      \* octets that isprint() holds of
  MaxDecimals,    \* 20, of an integer
  MaxGroups,      \* bound on the groups of a text that does not end
  Calls           \* what smiRenderValue() is called with

Flag   == {"format", "name", "numeric", "printable", "unknown"}
Number == {"INTEGER32", "UNSIGNED32", "INTEGER64", "UNSIGNED64"}
Base   == Number \cup {"ENUM", "BITS", "OCTETSTRING", "FLOAT64"}
HintSpec == [pfx : Nat \cup {NULL}, as : {"a", "t", "b", "d", "o", "x", "bad"},
             sep : Char \cup {NULL}]
HintedType == [name : Name \cup {NULL}, format : Seq(HintSpec) \cup {NULL},
               numbers : Seq([name : Name, number : Int])]
Val    == [base : Base, number : Int, octets : Seq(Nat)]

ASSUME WordAssumption  == Word \in Nat \ {0} /\ OctetBits \in Nat \ {0} /\ Ascii \in Nat
ASSUME NameAssumption  == NULL \notin Base /\ NULL \notin Name /\ IpAddress \in Name
ASSUME CharAssumption  == {".", "-"} \subseteq Char
ASSUME BoundAssumption == MaxDecimals \in Nat /\ MaxGroups \in Nat
ASSUME CallAssumption  ==
  Calls \subseteq [value : Val \cup {NULL}, type : HintedType \cup {NULL},
                   flags : SUBSET Flag]

VARIABLES
  call,      \* the value, its type and the flags
  st,        \* "call", "format" in the loop over the hint, "end"
  spec,      \* fmt: the number of the next specification
  i,         \* octets that were told
  s,         \* the groups that were told
  answer     \* the result

renderVars == <<call, st, spec, i, s, answer>>

value == call.value
type  == call.type
Asked(f) == f \in call.flags
Kind == IF value = NULL THEN NULL ELSE value.base

Min2(a, b) == IF a < b THEN a ELSE b
Max2(a, b) == IF a < b THEN b ELSE a

\* "null" and "unknown" are what is returned for want of a text; "crash" and
\* "garbage" stand for a null or stray pointer and an unset format.
Without(k) == [kind |-> k, told |-> NULL]
Told(x)    == [kind |-> "text", told |-> x]
Untold     == Without(IF Asked("unknown") THEN "unknown" ELSE "null")

Answered(a) == st' = "end" /\ answer' = a /\ UNCHANGED <<call, spec, i, s>>

-----------------------------------------------------------------------------
(* Values that are told in one step.                                       *)

Format == IF type = NULL THEN NULL ELSE type.format
Letter == IF Format \in {NULL, <<>>} THEN "d"
          ELSE IF Format[1].pfx = NULL THEN Format[1].as ELSE "bad"
ToldInDecimal == ~Asked("format") \/ Letter = "d"

\* The decimals that a hint like d-2 asks for; NULL for no point at all.
Decimals ==
  IF Format \in {NULL, <<>>} \/ Len(Format) = 1 \/ Format[1].pfx # NULL
     \/ Format[1].sep # "-" THEN NULL
  ELSE Min2(MaxDecimals, IF Format[2].pfx = NULL THEN 0 ELSE Format[2].pfx)

Abs(n) == IF n < 0 THEN -n ELSE n

\* Number of digits of n > 0 in this radix; 0 has one.
Digits(n, radix) ==
  IF n = 0 THEN 1 ELSE CHOOSE d \in 1 .. n : radix^(d - 1) <= n /\ n < radix^d

\* Fault: the minus sign is counted as a digit.
DecimalText_Sign(n) ==
  LET width  == IF Decimals = NULL THEN 0 ELSE 1 + Decimals
      digits == Max2(Digits(Abs(n), 10), width - (IF n < 0 THEN 1 ELSE 0))
  IN  [minus |-> n < 0, radix |-> 10, magnitude |-> Abs(n),
       whole |-> digits - (IF Decimals = NULL THEN 0 ELSE Decimals)]

\* A number with decimals has zeros in front, as many as it takes to have one
\* digit before the point.
DecimalText(n) ==
  LET sign   == IF n < 0 THEN 1 ELSE 0
      width  == IF Decimals = NULL THEN 0 ELSE 1 + Decimals + sign
      digits == Max2(Digits(Abs(n), 10), width - sign)
  IN  [minus |-> n < 0, radix |-> 10, magnitude |-> Abs(n),
       whole |-> digits - (IF Decimals = NULL THEN 0 ELSE Decimals)]

RadixText(n, radix, minus) ==
  [minus |-> minus, radix |-> radix, magnitude |-> Abs(n),
   whole |-> Digits(Abs(n), radix)]

\* Of the numbers of 64 bits with a sign, the octal ones get a minus if they are
\* positive, and are printed with an unset format if they are negative.
OctalAnswer(n) ==
  IF value.base # "INTEGER64" THEN Told(RadixText(n, 8, n < 0))
  ELSE IF n < 0 THEN Without("garbage") ELSE Told(RadixText(n, 8, TRUE))

\* The loop over the bits of the hint b counts an unsigned number down to less
\* than 0.  A hint is looked at for decimals whether it was asked for or not.
RenderNumber ==
  /\ st = "call" /\ Kind \in Number
  /\ LET n == value.number
     IN  \/ /\ ToldInDecimal
            /\ Answered(IF type = NULL THEN Without("crash") ELSE Told(DecimalText(n)))
         \/ /\ ~ToldInDecimal
            /\ Answered(CASE Letter = "x" -> Told(RadixText(n, 16, n < 0))
                          [] Letter = "o" -> OctalAnswer(n)
                          [] Letter = "b" -> Without("crash")
                          [] OTHER -> Without("null"))

\* The first named number of the type with this number.
NameOf(k) ==
  LET at == {j \in DOMAIN type.numbers : type.numbers[j].number = k}
  IN  IF type = NULL \/ at = {} THEN NULL
      ELSE type.numbers[CHOOSE j \in at : \A l \in at : j <= l].name

Label(k) == LET name == IF Asked("name") THEN NameOf(k) ELSE NULL
            IN  [name |-> name,
                 number |-> IF name = NULL \/ Asked("numeric") THEN k ELSE NULL]

RenderEnum == /\ st = "call" /\ Kind = "ENUM"
              /\ Answered(Told({Label(value.number)}))

Bit(octet, k) == (octet \div 2^k) % 2 = 1

\* Bits are counted from the most significant one of the first octet.
IsSet(k) == Bit(value.octets[(k \div OctetBits) + 1], OctetBits - 1 - (k % OctetBits))
Positions == 0 .. Len(value.octets) * OctetBits - 1

RenderBits == /\ st = "call" /\ Kind = "BITS"
              /\ Answered(Told({Label(k) : k \in {p \in Positions : IsSet(p)}}))

RenderNothing == /\ st = "call"
                 /\ Kind \in {NULL, "FLOAT64"}
                 /\ Answered(Untold)

\* Octets that are told as they are, or in hexadecimal.
TypeName    == IF type = NULL THEN NULL ELSE type.name
PlainOctets == ~Asked("format") \/ (Format = NULL /\ TypeName # IpAddress)
PlainText ==
  [as |-> IF Asked("printable")
             /\ \A k \in DOMAIN value.octets : value.octets[k] \in Printable
          THEN "text" ELSE "hex",
   octets |-> value.octets]

RenderOctets ==
  /\ st = "call" /\ Kind = "OCTETSTRING" /\ PlainOctets
  /\ Answered(IF Asked("format") /\ type = NULL THEN Without("crash")
              ELSE Told(PlainText))

-----------------------------------------------------------------------------
(* Octets that are told by a hint.                                         *)

Ip   == <<[pfx |-> 1, as |-> "d", sep |-> "."]>>
Hint == IF type.name \in {NULL, IpAddress} THEN Ip ELSE type.format

Count(sp) == IF sp.pfx = NULL THEN 1 ELSE sp.pfx

BeginFormat ==
  /\ st = "call" /\ Kind = "OCTETSTRING" /\ ~PlainOctets
  /\ st' = "format" /\ spec' = 1
  /\ UNCHANGED <<call, i, s, answer>>

InLoop == st = "format" /\ spec \in DOMAIN Hint /\ i < Len(value.octets)
Taken  == Min2(Count(Hint[spec]), Len(value.octets) - i)

\* The next specification, or the last one again if there are octets left.
NextSpec(told) ==
  IF spec = Len(Hint) /\ told < Len(value.octets) THEN spec ELSE spec + 1

\* Fault: the separator is also told at the end.
Group_SepAtEnd(shown, width) ==
  [as |-> Hint[spec].as, from |-> i + 1, to |-> i + Taken, shown |-> shown,
   width |-> width, sep |-> Hint[spec].sep]

Group(shown, width) ==
  [as |-> Hint[spec].as, from |-> i + 1, to |-> i + Taken, shown |-> shown,
   width |-> width,
   sep |-> IF i + Taken < Len(value.octets) THEN Hint[spec].sep ELSE NULL]

\* Fault: the octets are not counted.
Tell_NotCounted(shown, width) ==
  /\ s' = Append(s, Group(shown, width))
  /\ spec' = NextSpec(i + Taken)
  /\ UNCHANGED <<call, st, i, answer>>

Tell(shown, width) ==
  /\ s' = Append(s, Group(shown, width))
  /\ i' = i + Taken
  /\ spec' = NextSpec(i + Taken)
  /\ UNCHANGED <<call, st, answer>>

IsAscii == \A k \in i + 1 .. i + Taken : value.octets[k] < Ascii

\* An octet 0 of the text is not seen, for it ends a string of C.
TellText ==
  /\ InLoop /\ Hint[spec].as \in {"a", "t"} /\ IsAscii /\ Len(s) < MaxGroups
  /\ Tell(i + 1, Taken)

RefuseText ==
  /\ InLoop /\ Hint[spec].as \in {"a", "t"} /\ ~IsAscii
  /\ Answered(Untold)

\* What is left of a group of octets when these have been read; -1 bits are
\* converted to as many as there can be.
BinaryDigits(left) ==
  IF left = 0 THEN Word * OctetBits ELSE Min2(left, Word) * OctetBits

\* A number is as large as Word octets; of more of them the last ones are shown.
TellNumber ==
  /\ InLoop /\ Hint[spec].as \in {"b", "d", "o", "x"} /\ Len(s) < MaxGroups
  /\ Tell(Max2(i + 1, i + Taken - Word + 1),
          CASE Hint[spec].as = "x" -> 2 * Count(Hint[spec])
            [] Hint[spec].as = "b" -> BinaryDigits(Count(Hint[spec]) - Taken)
            [] OTHER -> 0)

\* A repeat count, or no letter at all.
RefuseSpec == InLoop /\ Hint[spec].as = "bad" /\ Answered(Untold)

EndFormat ==
  /\ st = "format" /\ (spec \notin DOMAIN Hint \/ i >= Len(value.octets))
  /\ Answered(Told(NULL))

-----------------------------------------------------------------------------
RenderInit ==
  /\ call \in Calls
  /\ st = "call" /\ spec = 1 /\ i = 0 /\ s = <<>>
  /\ answer = Without("null")

Loop == TellText \/ RefuseText \/ TellNumber \/ RefuseSpec
RenderNext == RenderNumber \/ RenderEnum \/ RenderBits \/ RenderNothing
        \/ RenderOctets \/ BeginFormat \/ Loop \/ EndFormat

RenderSpec == RenderInit /\ [][RenderNext]_renderVars

-----------------------------------------------------------------------------
(* smiValueAsString(), which tells the values of definitions.              *)

Plain(language) == IF language \in {"smiv1", "smiv2", "sppi", "sming"}
                   THEN [as |-> IF \A k \in DOMAIN value.octets :
                                     value.octets[k] \in Printable
                                THEN "text" ELSE "hex",
                         octets |-> value.octets]
                   ELSE [as |-> "text", octets |-> <<>>]

\* Fault: the bits of SMIv2 are counted from the other end, too.
SetBits_Mirrored(language) ==
  {p \in Positions : Bit(value.octets[(p \div OctetBits) + 1], p % OctetBits)}

\* SMIng counts the bits of an octet from the least significant one.
SetBits(language) ==
  IF language \in {"smiv2", "sppi"} THEN {p \in Positions : IsSet(p)}
  ELSE {p \in Positions : Bit(value.octets[(p \div OctetBits) + 1], p % OctetBits)}

\* Bits without a name are nothing between two commas in SMIv2, and numbers in
\* SMIng; in SMIv1 all of them are the octets in hexadecimal.
ValueAsString(language) ==
  CASE value.base \in Number ->
         [minus |-> value.number < 0, radix |-> 10, magnitude |-> Abs(value.number),
          whole |-> Digits(Abs(value.number), 10)]
    [] value.base = "ENUM" ->
         {[name |-> NameOf(value.number),
           number |-> IF NameOf(value.number) = NULL THEN value.number ELSE NULL]}
    [] value.base = "BITS" /\ language = "smiv1" -> [as |-> "hex", octets |-> value.octets]
    [] value.base = "BITS" /\ language # "smiv1" ->
         {[name |-> NameOf(p),
           number |-> IF NameOf(p) = NULL /\ language \notin {"smiv2", "sppi"}
                      THEN p ELSE NULL] : p \in SetBits(language)}
    [] value.base = "OCTETSTRING" -> Plain(language)
    [] OTHER -> NULL

-----------------------------------------------------------------------------
(* Properties.                                                             *)

Formatted == Kind = "OCTETSTRING" /\ ~PlainOctets

\* The specification that the hint has for the k-th group of octets: its last
\* one is used for all that is left.
SpecOf(k) == Hint[Min2(k, Len(Hint))]

\* Each group has the octets, form and separator that its specification says,
\* starts where the one before it ended, and shows its octets if it is not
\* larger than a number can be.
GroupsFollow ==
  \A k \in DOMAIN s :
    /\ s[k].as = SpecOf(k).as
    /\ s[k].from = IF k = 1 THEN 1 ELSE s[k - 1].to + 1
    /\ s[k].to = Min2(s[k].from + Count(SpecOf(k)) - 1, Len(value.octets))
    /\ s[k].to - s[k].from < Word => s[k].shown = s[k].from
    /\ s[k].sep = IF s[k].to < Len(value.octets) THEN SpecOf(k).sep ELSE NULL

\* A text is complete: no octet is left if the hint has any specification.
AllTold == /\ answer.kind = "text" /\ Hint # <<>>
           => Len(value.octets) = IF s = <<>> THEN 0 ELSE s[Len(s)].to

\* There is no text only if the next specification is not known, or its octets
\* are no text.
RefusedRightly ==
  answer.kind # "text" =>
    LET sp   == SpecOf(Len(s) + 1)
        from == IF s = <<>> THEN 1 ELSE s[Len(s)].to + 1
    IN  \/ sp.as = "bad"
        \/ /\ sp.as \in {"a", "t"}
           /\ \E k \in from .. from + Count(sp) - 1 :
                k \in DOMAIN value.octets /\ value.octets[k] >= Ascii

\* An octet string is told as its hint says, completely, or not at all; octets
\* are neither skipped nor told twice, whatever the lengths that the hint asks
\* for, and the last octet is followed by no separator.
HintFollowed ==
  Formatted /\ st # "call" =>
    GroupsFollow /\ (st = "end" => AllTold /\ RefusedRightly)

\* Numbers are told with their sign and one digit before the point, and with
\* all digits; only octal ones of 64 bits get a minus sign they do not have.
NumberTold ==
  LET t == answer.told
  IN  /\ t.magnitude = Abs(value.number) /\ t.whole >= 1
      /\ t.minus <=> (value.number < 0 \/ (t.radix = 8 /\ value.base = "INTEGER64"))
      /\ t.radix = 10 => t.whole + (IF Decimals = NULL THEN 0 ELSE Decimals)
                           >= Digits(t.magnitude, 10)

\* What is shown of a value and what is written into a definition agree.
SameLabels ==
  Asked("name") =>
    \A language \in {"smiv2", "sppi"} :
      {l.name : l \in answer.told} = {l.name : l \in ValueAsString(language)}

\* Numbers read back as they were, at any sign and number of decimals; the labels
\* of enumerations and bits are the same for both functions.
ValuesTold ==
  st = "end" /\ answer.kind = "text" =>
    /\ Kind \in Number => NumberTold
    /\ Kind \in {"ENUM", "BITS"} => SameLabels

\* A hint whose last specification is for no octets never gets to their end.
Endless == Formatted /\ Hint # <<>> /\ Count(Hint[Len(Hint)]) = 0

\* Every iteration of the loop that does not end it tells an octet or goes on to
\* the next specification, so that there are at most as many as octets and
\* specifications together.
Left == (Len(value.octets) - i) + (Len(Hint) + 1 - spec)
GetsAhead ==
  [][st = "format" /\ st' = "format" /\ ~Endless => Left' < Left /\ Left' >= 0]_renderVars
=============================================================================
