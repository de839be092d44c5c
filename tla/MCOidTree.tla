----------------------------- MODULE MCOidTree -----------------------------
(***************************************************************************)
(* Small inputs for the OID tree: a module that registers one node, and a  *)
(* second one with three declarations in every order, each one chosen from *)
(* definitions that refer forward, backward, into the first module, to     *)
(* themselves or to nothing.                                               *)
(***************************************************************************)
EXTENDS OidTree

CONSTANTS iso, na, nb, nc, nd, nz

Names  == {iso, na, nb, nc, nd, nz}
Subids == 0 .. 3

Tok(op, n, s) == [op |-> op, name |-> n, sub |-> s]
Decl(op, n, label, subs) ==
  <<Tok("label", label, 0)>>
    \o [i \in DOMAIN subs |-> Tok("number", NULL, subs[i])]
    \o <<Tok(op, n, 0)>>
Value(n, label, subs) == Decl("declare", n, label, subs)

FirstFiles == {Value(nd, iso, <<2, 1>>), Value(nd, iso, <<2, 3>>)}
DeclsA == {Value(na, iso, <<2>>), Value(na, nb, <<1>>), Value(na, na, <<1>>),
           Value(na, nz, <<1>>), Value(na, nb, <<>>), Value(na, nd, <<2>>),
           Decl("comply", na, iso, <<2>>)}
DeclsB == {Value(nb, na, <<1>>), Value(nb, na, <<2>>), Value(nb, na, <<1, 3>>),
           <<Tok("column", nb, 0)>> \o Value(nb, nd, <<2>>),
           <<Tok("label", iso, 0), Tok("named", na, 2)>>
             \o <<Tok("number", NULL, 2), Tok("declare", nb, 0)>>}
DeclsC == {Value(nc, na, <<2>>), Value(nc, na, <<3>>), Value(nc, nb, <<2>>),
           Value(nc, iso, <<2, 1>>), Value(nc, iso, <<2, 3>>),
           Value(nc, iso, <<2>>), Value(na, iso, <<3>>)}

\* The parts in one of their six orders.
Orders == {<<1, 2, 3>>, <<1, 3, 2>>, <<2, 1, 3>>, <<2, 3, 1>>, <<3, 1, 2>>,
           <<3, 2, 1>>}
Arranged(parts, o) == parts[o[1]] \o parts[o[2]] \o parts[o[3]]

Inputs ==
  {<<x[1], Arranged(<<x[2], x[3], x[4]>>, x[5])>> :
     x \in FirstFiles \X DeclsA \X DeclsB \X DeclsC \X Orders}
=============================================================================
