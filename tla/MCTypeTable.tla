---------------------------- MODULE MCTypeTable ----------------------------
(***************************************************************************)
(* TypeTable with two modules, two names and an application type.  The     *)
(* names other than the application type are symmetric: they are compared  *)
(* and never ordered.                                                      *)
(***************************************************************************)
EXTENDS TypeTable, TLC

CONSTANTS A, B, G

Names == {A, B, G}
Swapped == Permutations({A, B})
=============================================================================
