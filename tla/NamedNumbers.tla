---------------------------- MODULE NamedNumbers ----------------------------
(***************************************************************************)
(* The named numbers of enumerations and bits.  When the parser has read   *)
(* the list of a type, smiCheckNamedNumbersOrder() of smi-check.c sorts it *)
(* in place; at the end of the module smiCheckNamedNumberRedefinition()    *)
(* compares the numbers with each other and smiCheckNamedNumberSubtyping() *)
(* with those of the type it is derived from.                              *)
(*                                                                         *)
(* One action is one iteration of the sort: list[1 .. pos] is what lastPtr *)
(* has passed.  The linked list is a sequence.                             *)
(***************************************************************************)
EXTENDS Integers, Sequences

CONSTANTS
  Texts,   \* the types that may be written
  NULL

Name     == STRING \cup {""}   \* "" in reports that tell none
Item     == [name : Name, value : Int]
Basetype == {"ENUM", "BITS", "UNKNOWN"}
\* parent: the numbers of the type it is derived from, NULL for a builtin one;
\* forward: that type is declared further down.
Text     == [basetype : {"ENUM", "BITS"}, list : Seq(Item) \ {<<>>},
             parent : Seq(Item) \cup {NULL}, forward : BOOLEAN]
Error    == [kind : {"zero-not-named", "not-ascending", "name-redefinition",
                     "number-redefinition", "subtype"},
             name : Name, value : Int]
Message(k, n, v) == [kind |-> k, name |-> n, value |-> v]
ZeroNotNamed == Message("zero-not-named", "", 0)
NotAscending == Message("not-ascending", "", 0)

ASSUME TextAssumption == Texts \subseteq Text /\ NULL \notin Seq(Item)

VARIABLES
  text,      \* the type as it is written
  basetype,  \* what is known of its basetype while the list is read
  list,      \* type->listPtr
  pos,       \* the place of lastPtr in the list, 0 for NULL
  errors,
  st         \* read, order, check, done; crashed: read through NULL

numbers == <<text, basetype, list, pos, errors, st>>

\* The rule SimpleSyntax has read t and made a type of the list.
Begin(t) ==
  [text |-> t, basetype |-> IF t.forward THEN "UNKNOWN" ELSE t.basetype,
   list |-> t.list, pos |-> 0, errors |-> {}, st |-> "read"]

\* Mutant: the bits are searched for the number 1.
ZeroNamed_One == \E i \in DOMAIN list : list[i].value = 1
ZeroNamed == \E i \in DOMAIN list : list[i].value = 0

CheckFirstBit ==
  /\ st = "read"
  /\ st' = IF basetype = "UNKNOWN" THEN "check" ELSE "order"
  /\ errors' = IF basetype = "BITS" /\ ~ZeroNamed
               THEN errors \cup {ZeroNotNamed} ELSE errors
  /\ UNCHANGED <<text, basetype, list, pos>>

\* The item listPtr points to, and the list when it is taken out.
This    == list[pos + 1]
Rest(i) == list[IF i <= pos THEN i ELSE i + 1]

\* Mutant: an item that equals the last one stays where it is.
Keeps_Equal == pos > 0 => This.value >= list[pos].value
Keeps == pos > 0 => This.value > list[pos].value

KeepNumber ==
  /\ st = "order" /\ pos < Len(list) /\ Keeps
  /\ pos' = pos + 1
  /\ UNCHANGED <<text, basetype, list, errors, st>>

\* Mutant: the search goes on beyond the first greater number.
Beyond_Next(i) == i < Len(list) - 1 /\ Rest(i + 1).value > This.value
\* The item before which the search stops.
Beyond(i) == IF basetype = "ENUM" THEN Rest(i).value >= This.value
                                  ELSE Rest(i).value > This.value

\* The list is searched for a place from its head, to its very end.
IsPlace(p) ==
  IF Rest(1).value > This.value THEN p = 1
  ELSE /\ p \in 2 .. Len(list)
       /\ p < Len(list) => Beyond(p)
       /\ \A q \in 2 .. p - 1 : ~Beyond(q)

Moved(p) == [i \in DOMAIN list |-> IF i < p THEN list[i]
                                   ELSE IF i = p THEN This
                                   ELSE IF i <= pos + 1 THEN list[i - 1]
                                   ELSE list[i]]

ReinsertNumber ==
  /\ st = "order" /\ pos < Len(list) /\ ~Keeps
  /\ \E p \in 1 .. Len(list) :
       /\ IsPlace(p) /\ p <= pos + 1
       /\ list' = Moved(p)
  /\ pos' = pos + 1
  /\ errors' = errors \cup {NotAscending}
  /\ UNCHANGED <<text, basetype, st>>

\* When the place is behind nextPtr, the loop that looks for the item before
\* nextPtr starts behind it and runs off the end of the list.
RunOff ==
  /\ st = "order" /\ pos < Len(list) /\ ~Keeps
  /\ \E p \in 1 .. Len(list) : IsPlace(p) /\ p > pos + 1
  /\ errors' = errors \cup {NotAscending}
  /\ st' = "crashed"
  /\ UNCHANGED <<text, basetype, list, pos>>

EndOfOrder ==
  /\ st = "order" /\ pos = Len(list)
  /\ st' = "check"
  /\ UNCHANGED <<text, basetype, list, pos, errors>>

\* Mutant: only neighbours are compared.
Redefinitions_Near ==
  {Message("name-redefinition", list[i].name, 0) :
     i \in {k \in 1 .. Len(list) - 1 : list[k].name = list[k + 1].name}}
  \cup
  {Message("number-redefinition", "", list[i].value) :
     i \in {k \in 1 .. Len(list) - 1 : list[k].value = list[k + 1].value}}
Redefinitions ==
  {Message("name-redefinition", list[i].name, 0) :
     i \in {k \in DOMAIN list :
              \E j \in k + 1 .. Len(list) : list[j].name = list[k].name}}
  \cup
  {Message("number-redefinition", "", list[i].value) :
     i \in {k \in DOMAIN list :
              \E j \in k + 1 .. Len(list) : list[j].value = list[k].value}}

Missing ==
  {Message("subtype", list[i].name, list[i].value) :
     i \in {k \in DOMAIN list :
              /\ text.parent # NULL
              /\ \A j \in DOMAIN text.parent : text.parent[j] # list[k]}}

CheckNumbers ==
  /\ st = "check"
  /\ st' = "done"
  /\ errors' = IF basetype = "UNKNOWN" THEN errors
               ELSE errors \cup Redefinitions \cup Missing
  /\ UNCHANGED <<text, basetype, list, pos>>

Start(b) == /\ text = b.text /\ basetype = b.basetype /\ list = b.list
            /\ pos = b.pos /\ errors = b.errors /\ st = b.st

NumbersInit == \E t \in Texts : Start(Begin(t))
NumbersNext == \/ CheckFirstBit \/ KeepNumber \/ ReinsertNumber \/ RunOff
               \/ EndOfOrder \/ CheckNumbers
NumbersSpec == NumbersInit /\ [][NumbersNext]_numbers
-----------------------------------------------------------------------------
NumbersTypeOK ==
  /\ text \in Texts
  /\ basetype \in Basetype
  /\ list \in Seq(Item) /\ Len(list) = Len(text.list)
  /\ pos \in 0 .. Len(list)
  /\ errors \subseteq Error
  /\ st \in {"read", "order", "check", "done", "crashed"}

Distinct(s) == \A i, j \in DOMAIN s : i # j => s[i].value # s[j].value

\* What lastPtr has passed is in ascending order.
PassedSorted ==
  \A i, j \in DOMAIN list :
    (i < j /\ (j <= pos \/ st \in {"check", "done"}) /\ basetype # "UNKNOWN")
      => list[i].value <= list[j].value

\* The sort stays within its list if no number is written twice, and always in
\* lists of two.
NoRunOff == (Distinct(text.list) \/ Len(text.list) <= 2) => st # "crashed"

\* smiCheckNamedNumbersOrder() sorts in place: it leaves the numbers of a type
\* whose basetype is known in ascending order, neither loses nor invents one on
\* the way, and stays within the list.
NumbersOrdered ==
  /\ PassedSorted
  /\ {list[i] : i \in DOMAIN list} = {text.list[i] : i \in DOMAIN text.list}
  /\ NoRunOff

\* The comment on smiCheckNamedNumbersOrder() calls it a check that normalizes
\* the order; it comes to an end whatever the list.
OrderReturns == st # "crashed"

\* What is reported of the list is true of it as it was written, although the
\* checks see it sorted, and all of it is reported.
NumbersJudged ==
  LET w == text.list
  IN  (st = "done" /\ basetype # "UNKNOWN") =>
        /\ ZeroNotNamed \in errors
             <=> basetype = "BITS" /\ \A i \in DOMAIN w : w[i].value # 0
        /\ NotAscending \in errors
             <=> \E i \in 1 .. Len(w) - 1 : w[i].value >= w[i + 1].value
        /\ \A i \in DOMAIN w :
             /\ Message("name-redefinition", w[i].name, 0) \in errors
                  <=> \E j \in DOMAIN w : j # i /\ w[j].name = w[i].name
             /\ Message("number-redefinition", "", w[i].value) \in errors
                  <=> \E j \in DOMAIN w : j # i /\ w[j].value = w[i].value
             /\ Message("subtype", w[i].name, w[i].value) \in errors
                  <=> /\ text.parent # NULL
                      /\ \A j \in DOMAIN text.parent : text.parent[j] # w[i]
=============================================================================
