------------------------------ MODULE MCSession ------------------------------
(***************************************************************************)
(* Session with two data sets of one application, and a module that        *)
(* imports another one.  In the second directory the imported module is    *)
(* missing.                                                                *)
(***************************************************************************)
EXTENDS Session, TLC

CONSTANTS Old, New, lint, dump, If, Smi, D, E, w, n

Tags    == {Old, New}
Programs == {lint, dump}
Apps    == [t \in Tags |-> lint]
Modules == {If, Smi}
Dirs    == {D, E}
Errors  == {w, n}
Table   == [e \in Errors |-> IF e = w THEN 4 ELSE 1]

error(e)  == [op |-> "error",  arg |-> e]
import(m) == [op |-> "import", arg |-> m]

Importing == <<import(Smi), error(w)>>
Files == [d \in Dirs |-> IF d = D THEN [m \in Modules |-> IF m = If THEN Importing
                                                        ELSE <<error(w)>>]
                        ELSE [m \in {If} |-> Importing]]

Configuration == <<[app |-> lint, op |-> "hide",  arg |-> {n}],
                   [app |-> dump, op |-> "level", arg |-> 0],
                   [app |-> NULL, op |-> "load",  arg |-> Smi],
                   [app |-> lint, op |-> "level", arg |-> 6]>>
Quietness   == {{"ERRORS"}, {"ERRORS", "RECURSIVE"}}
Patterned    == {{w}}
SearchPaths == {<<E>>}
Swapped     == Permutations(Tags)
Environment == [app |-> NULL, op |-> "prepend", arg |-> E]
=============================================================================
