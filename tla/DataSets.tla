------------------------------ MODULE DataSets ------------------------------
(***************************************************************************)
(* What smiInit() and smiExit() promise: an application keeps several sets *)
(* of MIB modules apart by their tags.  A call works on the set that was   *)
(* selected last and leaves all others alone; a set is found again under   *)
(* its tag, as it was left, until it is closed.  A set without a tag can   *)
(* be used, but not be selected again.                                     *)
(***************************************************************************)
CONSTANTS Tag,         \* what smiInit() is called with
          NONE,        \* no set
          UNTAGGED,    \* a set without a tag
          Fresh        \* a new set

VARIABLES set,         \* per tag: the set
          selected     \* its tag, UNTAGGED or NONE

vars == <<set, selected>>

Open(t) == /\ set[t] = NONE
           /\ set' = [set EXCEPT ![t] = Fresh]
           /\ selected' = t

Select(t) == /\ set[t] # NONE
             /\ selected' = t
             /\ UNCHANGED set

OpenUntagged == selected' = UNTAGGED /\ UNCHANGED set

\* Modules are loaded, settings are changed.
Work == /\ selected \in Tag
        /\ set'[selected] # NONE
        /\ \A t \in Tag \ {selected} : set'[t] = set[t]
        /\ UNCHANGED selected

Close == /\ selected # NONE
         /\ set' = [t \in Tag |-> IF t = selected THEN NONE ELSE set[t]]
         /\ selected' = NONE

Init == set = [t \in Tag |-> NONE] /\ selected = NONE

Next == \/ \E t \in Tag : Open(t) \/ Select(t)
        \/ OpenUntagged \/ Work \/ Close

Spec == Init /\ [][Next]_vars
=============================================================================
