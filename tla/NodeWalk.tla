------------------------------ MODULE NodeWalk ------------------------------
(***************************************************************************)
(* How applications retrieve nodes: smiGetFirstNode() and smiGetNextNode() *)
(* return the nodes of one module in tree pre-order, while the tree holds  *)
(* the nodes of all modules; smiGetFirstChildNode() and                    *)
(* smiGetNextChildNode() return the children of a node, whosever they are. *)
(* An application may load further modules between two of these calls.     *)
(*                                                                         *)
(* OidTree models how the tree is built and shows that it is sorted and    *)
(* independent of the order of the declarations.  Here a node is its OID,  *)
(* and the label of a declaration is the OID it stands for.                *)
(***************************************************************************)
EXTENDS Naturals, SequencesExt

CONSTANTS
  Module, Subid, Kind, Name,
  UNKNOWN,    \* the kind of a node that only the numbers of a value refer to
  ANY,        \* SMI_NODEKIND_ANY
  NULL,
  Filters,    \* the kinds that applications ask for
  Texts       \* per module: its declarations, and whether its END is there

Oid         == Seq(Subid)
Definition  == [label : Oid, subs : Oid, kind : Kind, name : Name]
ASSUME KindAssumption == UNKNOWN \notin Kind /\ ANY \in Filters
\* Sub-identifiers are unsigned; 1 is that of iso.
ASSUME SubidAssumption == 1 \in Subid /\ Subid \subseteq Nat
ASSUME NullAssumption ==
  NULL \notin Oid \cup Module \cup Name \cup {""} /\ "" \notin Module
ASSUME TextAssumption ==
  Texts \subseteq [Module -> [defs : Seq(Definition), complete : BOOLEAN]]

VARIABLES
  text,       \* the files, fixed
  node,       \* the nodes below the root: their objects, and whether `oid' is set
  prefix,     \* prefixNodePtr of the modules, NULL for those cut short
  loaded,
  walk,       \* smiGetFirstNode(), smiGetNextNode(), smiGetNextNode() ...
  kids,       \* smiGetFirstChildNode(), smiGetNextChildNode() ...
  crashed

vars == <<text, node, prefix, loaded, walk, kids, crashed>>

Object == [mod : Module \cup {""}, kind : Kind \cup {UNKNOWN}, name : Name \cup {NULL, "iso"}]
Nowhere == <<>>
NoWalk == [st |-> "ended", mod |-> NULL, kinds |-> ANY, seen |-> <<>>]
NoKids == [st |-> "ended", of |-> Nowhere, had |-> {}, seen |-> <<>>]

-----------------------------------------------------------------------------
(* Loading                                                                 *)

\* A number of a value leads to a node whose last object is the module's own.
Number(tree, m, oid) ==
  LET new == [mod |-> m, kind |-> UNKNOWN, name |-> NULL] IN
  IF oid \notin DOMAIN tree
  THEN [o \in DOMAIN tree \cup {oid} |->
          IF o = oid THEN [objs |-> <<new>>, oid |-> FALSE] ELSE tree[o]]
  ELSE IF Last(tree[oid].objs).mod = m THEN tree
  ELSE [tree EXCEPT ![oid].objs = Append(@, new)]

\* The object that the whole value stands for gets the kind of what is
\* declared, unless it has been declared already or is the label's.
Declare(tree, m, d) ==
  LET oid  == d.label \o d.subs
      grown[n \in 0 .. Len(d.subs)] ==
        IF n = 0 THEN tree
        ELSE Number(grown[n - 1], m, d.label \o SubSeq(d.subs, 1, n))
      all  == grown[Len(d.subs)]
      objs == all[oid].objs
      own  == [mod |-> m, kind |-> d.kind, name |-> d.name]
  IN  [all EXCEPT ![oid].objs =
         IF d.subs # <<>> /\ objs # <<>> /\ Last(objs).kind = UNKNOWN
         THEN Append(Front(objs), own) ELSE Append(objs, own)]

Grown(m) ==
  LET defs == text[m].defs
      tree[n \in 0 .. Len(defs)] ==
        IF n = 0 THEN node ELSE Declare(tree[n - 1], m, defs[n])
  IN  tree[Len(defs)]

OidsOf(tree, m) ==
  {o \in DOMAIN tree : \E i \in DOMAIN tree[o].objs : tree[o].objs[i].mod = m}

\* Mutant: the numbers are not compared.
CommonPrefix_Shortest(S) ==
  CHOOSE p \in S : \A o \in S : Len(p) <= Len(o)

\* The longest common prefix that checkObjects() finds object by object.
CommonPrefix(S) ==
  LET all == {p \in UNION {{SubSeq(o, 1, n) : n \in 0 .. Len(o)} : o \in S} :
                \A o \in S : IsPrefix(p, o)}
  IN  CHOOSE p \in all : \A q \in all : Len(q) <= Len(p)

\* smiLoadModule().  A module that is cut short, or stops with a syntax error,
\* stays as far as it was read, but checkObjects() is not called for it.
smiLoadModule(m) ==
  /\ ~crashed
  /\ m \notin loaded
  /\ \A i \in DOMAIN text[m].defs :
       \/ text[m].defs[i].label \in DOMAIN node
       \/ \E j \in 1 .. i - 1 : IsPrefix(text[m].defs[i].label,
                                         text[m].defs[j].label \o text[m].defs[j].subs)
  /\ loaded' = loaded \cup {m}
  /\ LET tree == Grown(m)
         own  == OidsOf(tree, m)
     IN  IF text[m].complete
         THEN /\ node' = [o \in DOMAIN tree |->
                            [tree[o] EXCEPT !.oid = @ \/ o \in own]]
              /\ prefix' = [prefix EXCEPT ![m] = IF own = {} THEN NULL
                                                 ELSE CommonPrefix(own)]
         ELSE node' = tree /\ UNCHANGED prefix
  /\ UNCHANGED <<text, walk, kids, crashed>>

-----------------------------------------------------------------------------
(* The tree, in the order of its lists                                     *)

Before(p, q) == \/ IsStrictPrefix(p, q)
                \/ \E i \in DOMAIN p \cap DOMAIN q :
                     p[i] < q[i] /\ SubSeq(p, 1, i - 1) = SubSeq(q, 1, i - 1)
FirstOf(S) == IF S = {} THEN NULL
              ELSE CHOOSE p \in S : \A q \in S \ {p} : Before(p, q)

Children(p) == {q \in DOMAIN node : q # Nowhere /\ Front(q) = p}
FirstChild(p) == FirstOf(Children(p))

\* Mutant: the lists are not sorted.
NextPtr_Unsorted(p) ==
  LET after == {q \in Children(Front(p)) : Before(p, q)}
  IN  IF after = {} THEN NULL
      ELSE CHOOSE q \in after : \A r \in after \ {q} : Before(r, q)

NextPtr(p) == FirstOf({q \in Children(Front(p)) : Before(p, q)})

\* The next sibling of the nearest ancestor that has one.
Up(p) ==
  LET ways == {n \in 1 .. Len(p) - 1 : NextPtr(SubSeq(p, 1, n)) # NULL}
  IN  IF ways = {} THEN NULL
      ELSE NextPtr(SubSeq(p, 1, CHOOSE n \in ways : \A k \in ways : k <= n))

Matches(p, m, kinds) ==
  \E i \in DOMAIN node[p].objs :
    /\ node[p].objs[i].mod = m
    /\ kinds = ANY \/ node[p].objs[i].kind \in kinds

\* getNextChildObject(): the first match below a node or one of its next
\* siblings.
NextChildObject(p, m, kinds) ==
  FirstOf({q \in DOMAIN node : /\ IsPrefix(Front(p), q) /\ ~Before(q, p)
                               /\ Matches(q, m, kinds)})

\* "did we move outside the common oid prefix of this module?"  The node's oid
\* is compared, as far as it is set.
Inside(p, m) == \A i \in DOMAIN prefix[m] :
                  node[p].oid /\ i \in DOMAIN p /\ p[i] = prefix[m][i]

\* smiGetNextNode() goes on from p: where to, and whether it can.
Onward(p, m) ==
  IF FirstChild(p) # NULL THEN [at |-> FirstChild(p), fault |-> FALSE]
  ELSE IF NextPtr(p) # NULL THEN [at |-> NextPtr(p), fault |-> FALSE]
  ELSE IF prefix[m] = NULL THEN [at |-> NULL, fault |-> TRUE]
  ELSE [at |-> IF Up(p) # NULL /\ Inside(Up(p), m) THEN Up(p) ELSE NULL,
        fault |-> FALSE]

NextNode(p, m, kinds) ==
  LET seek[q \in DOMAIN node] ==
        LET on   == Onward(q, m)
            found == NextChildObject(on.at, m, kinds)
        IN  IF on.at = NULL THEN on
            ELSE IF found # NULL THEN [at |-> found, fault |-> FALSE]
            ELSE seek[on.at]
  IN  seek[p]

\* smiGetFirstNode() starts at the prefix or, without one, at the first node of
\* the tree; its own way through the tree finds nothing that is not below the
\* place where it starts.
FirstNode(m, kinds) ==
  NextChildObject(IF prefix[m] # NULL /\ prefix[m] # Nowhere THEN prefix[m]
                  ELSE FirstChild(Nowhere), m, kinds)

-----------------------------------------------------------------------------
(* The calls.  None of them changes the tree, so one walk, or the children *)
(* of one node, are followed in a behaviour.                               *)

Walked(at) ==
  walk' = IF at = NULL THEN [walk EXCEPT !.st = "ended"]
          ELSE [walk EXCEPT !.st = "going", !.seen = Append(@, at)]

smiGetFirstNode(m, kinds) ==
  /\ ~crashed
  /\ walk = NoWalk /\ kids = NoKids
  /\ m \in loaded
  /\ LET at == FirstNode(m, kinds)
     IN  walk' = [st    |-> IF at = NULL THEN "ended" ELSE "going",
                  mod   |-> m,
                  kinds |-> kinds,
                  seen  |-> IF at = NULL THEN <<>> ELSE <<at>>]
  /\ UNCHANGED <<text, node, prefix, loaded, kids, crashed>>

smiGetNextNode ==
  /\ ~crashed
  /\ walk.st = "going"
  /\ LET next == NextNode(Last(walk.seen), walk.mod, walk.kinds)
     IN  IF next.fault THEN crashed' = TRUE /\ UNCHANGED walk
         ELSE Walked(next.at) /\ UNCHANGED crashed
  /\ UNCHANGED <<text, node, prefix, loaded, kids>>

smiGetFirstChildNode(p) ==
  /\ ~crashed
  /\ walk = NoWalk /\ kids = NoKids
  /\ p \in DOMAIN node
  /\ kids' = [st   |-> IF Children(p) = {} THEN "ended" ELSE "going",
              of   |-> p,
              had  |-> Children(p),
              seen |-> IF Children(p) = {} THEN <<>> ELSE <<FirstChild(p)>>]
  /\ UNCHANGED <<text, node, prefix, loaded, walk, crashed>>

smiGetNextChildNode ==
  /\ ~crashed
  /\ kids.st = "going"
  /\ LET next == NextPtr(Last(kids.seen))
     IN  kids' = IF next = NULL THEN [kids EXCEPT !.st = "ended"]
                 ELSE [kids EXCEPT !.seen = Append(@, next)]
  /\ UNCHANGED <<text, node, prefix, loaded, walk, crashed>>

-----------------------------------------------------------------------------
Init ==
  /\ text \in Texts
  /\ node = [o \in {<<1>>} |->
               [objs |-> <<[mod |-> "", kind |-> UNKNOWN, name |-> "iso"]>>, oid |-> TRUE]]
  /\ prefix = [m \in Module |-> NULL]
  /\ loaded = {}
  /\ walk = NoWalk
  /\ kids = NoKids
  /\ crashed = FALSE

Next ==
  \/ \E m \in Module : smiLoadModule(m)
  \/ \E m \in Module, kinds \in Filters : smiGetFirstNode(m, kinds)
  \/ smiGetNextNode
  \/ \E p \in DOMAIN node : smiGetFirstChildNode(p)
  \/ smiGetNextChildNode

Spec == Init /\ [][Next]_vars

-----------------------------------------------------------------------------
(* Properties                                                              *)

\* Every node has an object, and so has each node above it.
TypeOK ==
  /\ text \in Texts
  /\ DOMAIN node \subseteq Oid \ {Nowhere}
  /\ \A p \in DOMAIN node :
       /\ node[p].objs \in Seq(Object) \ {<<>>}
       /\ node[p].oid \in BOOLEAN
       /\ Front(p) \in DOMAIN node \cup {Nowhere}
  /\ prefix \in [Module -> DOMAIN node \cup {Nowhere, NULL}]
  /\ loaded \subseteq Module
  /\ walk.seen \in Seq(DOMAIN node) /\ kids.seen \in Seq(DOMAIN node)
  /\ crashed \in BOOLEAN

Ascending(seen) ==
  \A i, j \in DOMAIN seen : i < j => Before(seen[i], seen[j])

Wanted(m, kinds) == {p \in DOMAIN node : Matches(p, m, kinds)}

\* smi_node(3): smiGetFirstNode() and smiGetNextNode() retrieve the nodes of a
\* module "in tree pre-order" until there are no more.  They leave the tree as
\* soon as they are outside of the module's prefix, and go on over the nodes of
\* other modules, also of those that are loaded meanwhile; provided that all
\* modules are complete.
WalkVisitsAll ==
  [][/\ walk' # walk /\ walk'.st = "ended"
     /\ prefix[walk'.mod] # NULL
     /\ \A p \in DOMAIN node : node[p].oid
     => /\ Ascending(walk'.seen)
        /\ ToSet(walk'.seen) = Wanted(walk'.mod, walk'.kinds)]_vars

\* The children of a node are retrieved in their order, each one once, and none
\* of those that were there when smiGetFirstChildNode() was called is left out
\* even if others are inserted between them.
ChildrenInOrder ==
  kids.st = "ended" =>
    /\ Ascending(kids.seen)
    /\ kids.had \subseteq ToSet(kids.seen)
    /\ ToSet(kids.seen) \subseteq Children(kids.of)
=============================================================================
