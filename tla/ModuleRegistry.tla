--------------------------- MODULE ModuleRegistry ---------------------------
(***************************************************************************)
(* What loading promises to an application: a registry of modules that     *)
(* only grows, and only while a call is in progress.  A call answers with  *)
(* a module that is known by then, or with NULL.  One call makes at most   *)
(* one more name visible, and only if it did not fail.                     *)
(***************************************************************************)
CONSTANTS Name,     \* module names
          NULL      \* the answer of a call that failed

VARIABLES known,    \* the modules that can be looked up
          view,     \* the names made known by the application
          busy,     \* a call is in progress
          result    \* the last answer

vars == <<known, view, busy, result>>

Init == /\ known = {}
        /\ view = {}
        /\ busy = FALSE
        /\ result = NULL

Reply == /\ result' \in known \cup {NULL}
         /\ \/ view' = view
            \/ result' # NULL /\ \E n \in Name : view' = view \cup {n}

\* A call that needs no file, or finds none.
Immediate == /\ ~busy
             /\ Reply
             /\ UNCHANGED <<known, busy>>

Begin == /\ ~busy /\ busy' = TRUE
         /\ UNCHANGED <<known, view, result>>

Learn(n) == /\ busy /\ n \notin known
            /\ known' = known \cup {n}
            /\ UNCHANGED <<view, busy, result>>

Finish == /\ busy /\ busy' = FALSE
          /\ Reply
          /\ UNCHANGED known

Next == Immediate \/ Begin \/ Finish \/ \E n \in Name : Learn(n)

Spec == Init /\ [][Next]_vars
=============================================================================
