----------------------------- MODULE MCNodeWalk -----------------------------
(***************************************************************************)
(* Lookup, and the walks of NodeWalk, with three modules.  M declares any of the nodes of a small    *)
(* tree; N declares others between them and below them; P is cut short, or *)
(* not, and lies inside or outside of what M covers.                       *)
(***************************************************************************)
EXTENDS Lookup

CONSTANTS M, N, P, anyKind

Modules == {M, N, P}
Kinds   == {"node", "scalar"}
Wishes  == {anyKind, {"scalar"}}

Def(label, subs, kind, name) ==
  [label |-> label, subs |-> subs, kind |-> kind, name |-> name]
Iso == <<1>>
A   == <<1, 2>>

Some(q) == {SelectSeq(q, LAMBDA d : d \in S) : S \in SUBSET ToSet(q)}

OfM == LET all == Some(<<Def(Iso, <<2>>, "node", "a"), Def(A, <<1, 1>>, "scalar", "b"),
                        Def(A, <<3>>, "scalar", "c"), Def(A, <<3, 1>>, "node", "d"),
                        Def(Iso, <<3, 2>>, "scalar", "b")>>)
       IN  {q \in all : Len(q) >= 3}
OfN == {<<Def(A, <<1>>, "node", "c"), Def(A, <<2, 2>>, "scalar", "a")>>,
        <<Def(Iso, <<2, 3>>, "scalar", "c"), Def(Iso, <<2, 3>>, "node", "d")>>,
        <<Def(Iso, <<1, 2>>, "node", "e"), Def(Iso, <<2, 1, 1>>, "scalar", "b")>>}
OfP == {<<Def(A, <<2>>, "scalar", "e")>>, <<Def(Iso, <<3, 1>>, "node", "a")>>,
        <<Def(A, <<>>, "node", "a"), Def(A, <<1, 1, 2>>, "node", "d")>>}

Inputs ==
  {[m \in Modules |->
      CASE m = M -> [defs |-> x[1], complete |-> TRUE]
        [] m = N -> [defs |-> x[2], complete |-> TRUE]
        [] m = P -> [defs |-> x[3], complete |-> x[4]]] :
     x \in OfM \X OfN \X OfP \X BOOLEAN}

\* N and P define the type T, which M only refers to; its own is a pointer.
List(n) == [i \in 1 .. n |-> [name |-> i]]
Types ==
  [m \in Modules |->
     CASE m = M -> <<[name |-> "T", base |-> "UNKNOWN", list |-> <<>>],
                     [name |-> "P", base |-> "POINTER", list |-> List(2)],
                     [name |-> NULL, base |-> "INTEGER32", list |-> List(2)]>>
       [] m = N -> <<[name |-> NULL, base |-> "ENUM", list |-> List(3)],
                     [name |-> "T", base |-> "ENUM", list |-> List(2)],
                     [name |-> "S", base |-> "UNSIGNED32", list |-> List(3)]>>
       [] m = P -> <<[name |-> "T", base |-> "BITS", list |-> <<>>]>>]
Macros  == [m \in Modules |-> IF m = N THEN <<[name |-> "Q"], [name |-> "R"]>> ELSE <<>>]
Imports == [m \in Modules |-> IF m = P THEN {[module |-> M, name |-> "a"]} ELSE {}]
Lists == {[kind |-> kind, elements |-> List(n), options |-> List(o), refinements |-> List(2)] :
            kind \in {"group", "compliance"}, n \in 0 .. 3, o \in 0 .. 2}
Languages == [m \in Modules \cup {""} |-> IF m = "" THEN 0 ELSE IF m = N THEN 2 ELSE 1]
Asked_ == {<<1>>, <<2>>, <<1, 2>>, <<1, 3>>, <<1, 2, 1>>, <<1, 2, 3>>, <<1, 2, 1, 1>>,
           <<1, 2, 3, 1>>, <<1, 2, 1, 1, 2>>, <<1, 3, 2, 3>>}

\* Walks, tours and kept answers do not read the view: they are followed where
\* every module is in it.
AllSeen == view = ToSet(order)
MCNext ==
  \/ \E m \in Module : View(m)
  \/ Idle /\ \E m \in Module : Mention(m)
  \/ AllSeen /\ Call
  \/ AllSeen /\ \E name \in Name : Ask(name)
  \/ AllSeen /\ smiGetFirstModule
  \/ smiGetNextModule
MCSpec == LookupInit /\ [][MCNext]_lookupVars
=============================================================================
