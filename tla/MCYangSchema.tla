---------------------------- MODULE MCYangSchema ----------------------------
(***************************************************************************)
(* YangSchema for two families of modules.  The first has two groupings,   *)
(* which may use each other and themselves, a container that uses one of   *)
(* them with or without a refinement, and an augment statement, in several *)
(* orders; the second has three typedefs that refer to each other or to    *)
(* nothing, and leafs of these types before or behind them.                *)
(***************************************************************************)
EXTENDS YangSchema

\* A module is written as lines: how deep a statement stands, and what it says.
L(depth, kind, name, arg, stmt) ==
  [depth |-> depth, kind |-> kind, name |-> name, arg |-> arg, stmt |-> stmt]
S(depth, kind, name) == L(depth, kind, name, <<>>, "default")
R(depth, kind, arg)  == L(depth, kind, kind, arg, "default")

Tree(lines) ==
  LET m == <<S(0, "module", "m")>> \o lines
  IN  [n \in DOMAIN m |->
         Node(m[n].kind, m[n].name,
              IF n = 1 THEN 0 ELSE Max({k \in 1 .. n - 1 : m[k].depth = m[n].depth - 1}),
              m[n].arg, m[n].stmt, n)]

Leaf(d, x)    == S(d, "leaf", x)
UsesOf(d, g)  == R(d, "uses", <<g>>)
Box(d, c)     == L(d, "container", "d", <<>>, c)

\* The bodies of the groupings.
BodiesG ==
  { <<Leaf(2, "x")>>, <<UsesOf(2, "g")>>,
    <<UsesOf(2, "h"), Leaf(2, "x")>>,
    <<Box(2, "default"), UsesOf(3, "h"), Leaf(2, "x")>>,
    <<Box(2, "default"), Leaf(3, "x"), L(2, "list", "l", <<"x">>, "true"), Leaf(3, "x")>>,
    <<Box(2, "false"), L(3, "list", "l", <<>>, "default")>>,
    <<UsesOf(2, "h"), R(3, "augment", <<"d">>), Leaf(4, "z")>>,
    <<S(2, "choice", "s"), S(3, "case", "k"), Leaf(4, "x"), S(3, "case", "j"), UsesOf(4, "h")>>,
    <<S(2, "choice", "s"), S(3, "case", "k"), Leaf(4, "x"), Leaf(3, "x")>>,
    <<S(2, "grouping", "h"), Leaf(3, "z"), UsesOf(2, "h")>> }
SomeH   == { <<Leaf(2, "x")>>, <<Box(2, "default"), L(3, "leaf", "y", <<>>, "true")>> }
BodiesH == { <<UsesOf(2, "g"), Leaf(2, "y")>>, <<UsesOf(2, "k")>>,
             <<L(2, "leaf", "y", <<>>, "true")>> }

Refine1(p, c) == L(3, "refine", "refine", p, c)
BodiesC ==
  { <<UsesOf(2, "g")>>,
    <<UsesOf(2, "g"), Leaf(2, "x")>>,
    <<UsesOf(2, "g"), Refine1(<<"d">>, "true")>>,
    <<UsesOf(2, "g"), Refine1(<<"x">>, "false")>>,
    <<L(2, "list", "l", <<"x">>, "default"), UsesOf(3, "h"), UsesOf(2, "g")>> }
Containers == {<<S(1, "container", "c")>>, <<L(1, "container", "c", <<>>, "false")>>,
               <<S(1, "notification", "c")>>}

Augments ==
  { <<>>, <<R(1, "augment", <<"c">>), Leaf(2, "x")>>,
    <<R(1, "augment", <<"c", "d">>), S(2, "list", "l"), UsesOf(2, "h")>>,
    <<R(1, "augment", <<"c", "s">>), S(2, "case", "i"), Leaf(3, "x"), Leaf(2, "w")>>,
    <<R(1, "augment", <<"c", "x">>), Leaf(2, "w")>> }

Schemas ==
  { <<S(1, "grouping", "g")>> \o g \o <<S(1, "grouping", "h")>> \o h \o b \o c \o a :
      <<g, h, b, c, a>> \in BodiesG \X SomeH \X Containers \X BodiesC \X Augments }
  \cup
  { b \o c \o <<S(1, "grouping", "h")>> \o h \o <<S(1, "grouping", "g")>> \o g :
      <<g, h, b, c>> \in BodiesG \X (BodiesH \cup SomeH) \X Containers \X BodiesC }

Typedef(d, n, t) == <<S(d, "typedef", n), R(d + 1, "type", <<t>>)>>
Ranged(d)        == <<S(d, "range", "range")>>
TypeNames == {"t", "u", "v", "int32", "string"}
LeafOf(t) == <<Leaf(1, "x"), R(2, "type", <<t>>)>>

TypeModules ==
  UNION {{ t \o u \o r \o v \o LeafOf("t"), LeafOf("u") \o v \o u \o r \o t,
           u \o v \o t \o r \o LeafOf("v"),
           <<S(1, "container", "c")>> \o Typedef(2, "u", "string") \o LeafOf("t") \o t \o u \o v } :
           <<t, u, v, r>> \in {Typedef(1, "t", x) : x \in TypeNames}
                                \X {Typedef(1, "u", x) : x \in TypeNames}
                                \X {Typedef(1, "v", x) : x \in TypeNames \cup {"w"}}
                                \X {<<>>, Ranged(3)}}

WrittenModules == {Tree(x) : x \in Schemas \cup TypeModules}
=============================================================================
