---------------------------- MODULE NumbersDiff -----------------------------
(***************************************************************************)
(* checkNamedNumbers() of smidiff.c: the named numbers of an old and a new *)
(* version of a type are merged, each list as the parser of its data set   *)
(* has left it (NamedNumbers).  One action is one iteration of the merge.  *)
(***************************************************************************)
EXTENDS NamedNumbers

CONSTANT ByteSize   \* bits of an octet, 8

ASSUME ByteAssumption == ByteSize \in Nat \ {0}

VARIABLES
  phase,    \* whose list is being checked, then the comparison
  old,      \* the old type: its basetype and its list
  use,      \* compared as the types of a name, or as those of two nodes
  i, j,     \* oldNN and newNN: places in old.list and in list
  reports

diff    == <<phase, old, use, i, j, reports>>
vars    == <<numbers, diff>>

Report  == [kind : {"basetype-changed", "removed", "added", "old-byte", "changed"},
            name : STRING, new : STRING]
Changed(k, n, m) == [kind |-> k, name |-> n, new |-> m]
Basetypes == Changed("basetype-changed", "", "")

\* smiGetFirstNamedNumber() has no numbers for a basetype that is unknown.
Given(b, l) == IF b = "UNKNOWN" THEN <<>> ELSE l
Old == Given(old.basetype, old.list)
New == Given(basetype, list)

\* The same tool reads the old module and then the new one.
LoadNew ==
  /\ phase = "old" /\ st = "done"
  /\ phase' = "new"
  /\ old' = [basetype |-> basetype, list |-> list]
  /\ \E t \in Texts :
       LET b == Begin(t)
       IN  /\ text' = b.text /\ basetype' = b.basetype /\ list' = b.list
           /\ pos' = b.pos /\ errors' = b.errors /\ st' = b.st
  /\ UNCHANGED <<use, i, j, reports>>

\* checkTypeCompatibility() goes on with types whose basetypes differ;
\* checkNodeTypeCompatibility() does not.
Compare ==
  /\ phase = "new" /\ st = "done"
  /\ \E u \in {"type", "node"} :
       /\ use' = u
       /\ IF old.basetype = basetype
          THEN phase' = "merge" /\ UNCHANGED reports
          ELSE /\ phase' = IF u = "node" THEN "end" ELSE "merge"
               /\ reports' = {Basetypes}
  /\ i' = 1 /\ j' = 1
  /\ UNCHANGED <<numbers, old>>

Merging == phase = "merge" /\ (i <= Len(Old) \/ j <= Len(New))
Both    == i <= Len(Old) /\ j <= Len(New)
UnchangedBut == UNCHANGED <<numbers, phase, old, use>>

Removed ==
  /\ Merging
  /\ i <= Len(Old)
  /\ j <= Len(New) => Old[i].value < New[j].value
  /\ reports' = reports \cup {Changed("removed", Old[i].name, "")}
  /\ i' = i + 1 /\ UNCHANGED j
  /\ UnchangedBut

\* Mutant: the first old bit counts instead of the last one.
OldByte_First(n) == Old # <<>> /\ n \div ByteSize <= Old[1].value \div ByteSize
\* Whether a bit lies in the last byte of the old type, or before it.
OldByte(n) == Old # <<>> /\ n \div ByteSize <= Old[Len(Old)].value \div ByteSize

\* Only behind the last old number the bytes matter.
Added ==
  /\ Merging
  /\ j <= Len(New)
  /\ i <= Len(Old) => Old[i].value > New[j].value
  /\ LET k == IF i > Len(Old) /\ basetype = "BITS" /\ OldByte(New[j].value)
              THEN "old-byte" ELSE "added"
     IN  reports' = reports \cup {Changed(k, New[j].name, "")}
  /\ j' = j + 1 /\ UNCHANGED i
  /\ UnchangedBut

\* Mutant: a number that is called otherwise is passed on one side only.
Passed_One == i' = i + 1 /\ j' = IF Old[i].name = New[j].name THEN j + 1 ELSE j
Passed == i' = i + 1 /\ j' = j + 1

Kept ==
  /\ Merging /\ Both
  /\ Old[i].value = New[j].value
  /\ reports' = IF Old[i].name = New[j].name THEN reports
                ELSE reports \cup {Changed("changed", Old[i].name, New[j].name)}
  /\ Passed
  /\ UnchangedBut

EndOfMerge ==
  /\ phase = "merge" /\ ~Merging
  /\ phase' = "end"
  /\ UNCHANGED <<numbers, old, use, i, j, reports>>

NoType == [basetype |-> "UNKNOWN", list |-> <<>>]

Init == /\ NumbersInit
        /\ phase = "old" /\ old = NoType /\ use = "type"
        /\ i = 1 /\ j = 1 /\ reports = {}

Next == \/ (NumbersNext /\ UNCHANGED diff)
        \/ LoadNew \/ Compare \/ Removed \/ Added \/ Kept \/ EndOfMerge
Spec == Init /\ [][Next]_vars
-----------------------------------------------------------------------------
Values(s)  == {s[k].value : k \in DOMAIN s}
ItemsOf(s) == {s[k] : k \in DOMAIN s}

\* What has to be reported of two types: the numbers that only the old one has,
\* those that only the new one has, and those that have another name in it.
Gone == {Changed("removed", x.name, "") :
           x \in {y \in ItemsOf(Old) : y.value \notin Values(New)}}
Fresh == {x \in ItemsOf(New) : x.value \notin Values(Old)}
\* A bit that starts in no new byte: it shares its byte with an old one.
InOldByte(x)  == /\ basetype = "BITS"
                 /\ \E v \in Values(Old) : v \div ByteSize = x.value \div ByteSize
\* What smidiff gets wrong: such a bit with an old one behind it.
Overlooked(x) == InOldByte(x) /\ \E v \in Values(Old) : v > x.value
Come(plain) == {Changed(IF InOldByte(x) /\ x \notin plain THEN "old-byte" ELSE "added",
                        x.name, "") : x \in Fresh}
Renamed == {Changed("changed", p[1].name, p[2].name) :
              p \in {q \in ItemsOf(Old) \X ItemsOf(New) :
                       q[1].value = q[2].value /\ q[1].name # q[2].name}}
Other == IF old.basetype = basetype THEN {} ELSE {Basetypes}

\* smidiff reports each number that only one of the two types has and each one
\* that changed its name, and nothing else: although it passes both lists once,
\* because the parser has sorted them, in whatever order they were written.  Bits
\* that share their byte with an old one are told apart ("added without starting
\* in a new byte", smidiff.c:281 and 309), except that those with an old bit behind
\* them may be reported as plain additions: smidiff.c:1187 looks at bytes only when
\* the old list is exhausted, against the text of its own message.
DifferencesExact ==
  (phase = "end" /\ Distinct(Old) /\ Distinct(New)) =>
    IF use = "node" /\ Other # {} THEN reports = Other
    ELSE \E plain \in SUBSET {x \in Fresh : Overlooked(x)} :
           reports = Other \cup Gone \cup Come(plain) \cup Renamed
=============================================================================
