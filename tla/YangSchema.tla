----------------------------- MODULE YangSchema -----------------------------
(***************************************************************************)
(* yangSemanticAnalysis() of yang-check.c for a module of its own, between *)
(* its first and its last pass (YangReferences): expandGroupings() copies  *)
(* groupings to where they are used and refines the copies,                *)
(* expandAugments() adds the nodes of augment statements to their targets, *)
(* validateConfigProperties() spreads the config property over the tree,   *)
(* validateLists() judges the keys and uniqueNames() the names.            *)
(*                                                                         *)
(* The recursion of expandGroupings() is a stack of frames: the node, how  *)
(* far its visit has come and the child that was visited last.             *)
(***************************************************************************)
EXTENDS YangReferences

VARIABLES
  state,   \* of the groupings: none, progress, done
  stack,   \* of expandGroupings()
  ret,     \* what its last call returned
  todo     \* the augment statements that are not yet expanded

vars == <<tree, references, errors, phase, state, stack, ret, todo>>

DataDefs    == {"container", "leaf", "list", "choice", "uses"}
SchemaNodes == {"container", "leaf", "list", "choice", "case", "notification"}
Targets     == {"container", "list", "choice", "case", "notification"}
Ignoring    == {"notification"}

Above(t) == LET f[n \in 0 .. Len(t)] == IF n = 0 THEN {} ELSE {n} \cup f[t[n].parent]
            IN  f
Below(t, n) == {m \in DOMAIN t : n \in Above(t)[m]}

\* copySubtree(): the nodes below c, in their order, become nodes below d.
Copy(t, d, c, origin) ==
  LET s == SetToSortSeq(Below(t, c), LAMBDA x, y : x < y)
  IN  t \o [k \in DOMAIN s |->
              [t[s[k]] EXCEPT
                 !.origin = origin,
                 !.parent = IF k = 1 THEN d
                            ELSE Len(t) + (CHOOSE j \in DOMAIN s : s[j] = t[s[k]].parent)]]
CopyAll(t, d, S, origin) ==
  FoldLeft(LAMBDA u, c : Copy(u, d, c, origin), t,
           SetToSortSeq(S, LAMBDA x, y : x < y))

\* resolveXPath(), from node n on.
Target(t, n, path) ==
  FoldLeft(LAMBDA m, x :
             IF m = 0 THEN 0
             ELSE First({c \in Children(t, m) : t[c].kind \in SchemaNodes /\ t[c].name = x}),
           n, path)

\* Fault: a refinement is noted, but does not count.
Refined_Noted(t, n, c) == [t EXCEPT ![n].stmt = c]
Refined(t, n, c) == [t EXCEPT ![n].stmt = c, ![n].config = c]
Refinable == {"container", "leaf", "list", "choice"}

Refine(t, r) ==
  LET n == Target(t, t[t[r].parent].parent, t[r].arg)
  IN  IF n # 0 /\ t[n].kind \in Refinable /\ t[r].stmt # "default"
      THEN Refined(t, n, t[r].stmt) ELSE t
RefineErrors(t, r) ==
  LET n == Target(t, t[t[r].parent].parent, t[r].arg)
  IN  IF n = 0 THEN {Report("bad-refine-arg", r)}
      ELSE IF t[n].kind = "case" /\ t[r].stmt # "default" THEN {Report("invalid-refine", r)}
      ELSE {}
Refinements(t, u) == SetToSortSeq({c \in Children(t, u) : t[c].kind = "refine"},
                                  LAMBDA x, y : x < y)

Init == /\ ReferencesInit
        /\ state = [n \in DOMAIN tree |-> "none"]
        /\ stack = <<>> /\ ret = FALSE /\ todo = {}

\* Copies share the info of the node they were made of.
Info(n)  == tree[n].from
Frame(n) == [node |-> n, step |-> "enter", last |-> 0]
Top      == Last(stack)
Goto(s)  == stack' = Front(stack) \o <<[Top EXCEPT !.step = s]>>
Entering == phase = "expand" /\ stack # <<>> /\ Top.step = "enter"
Return(b) == stack' = Front(stack) /\ ret' = b
InExpansion == UNCHANGED <<references, phase, todo>>

Resolve == /\ (ResolveReference \/ FollowChain)
           /\ UNCHANGED <<state, stack, ret, todo>>

BeginExpansion ==
  /\ phase = "resolve" /\ at = Len(tree) + 1
  /\ phase' = "expand"
  /\ stack' = <<Frame(1)>>
  /\ UNCHANGED <<tree, references, errors, state, ret, todo>>

\* Mutant: copies are expanded once more.
IsOriginal_Any(n) == TRUE
IsOriginal(n) == tree[n].origin = "original"

EnterCopy ==
  /\ Entering /\ ~IsOriginal(Top.node)
  /\ Return(FALSE)
  /\ UNCHANGED <<tree, errors, state>> /\ InExpansion

EnterGrouping ==
  /\ Entering /\ IsOriginal(Top.node) /\ tree[Top.node].kind = "grouping"
  /\ IF state[Info(Top.node)] = "none"
     THEN /\ state' = [state EXCEPT ![Info(Top.node)] = "progress"]
          /\ Goto("children")
          /\ UNCHANGED <<errors, ret>>
     ELSE /\ Return(state[Info(Top.node)] = "done")
          /\ errors' = IF state[Info(Top.node)] = "done" THEN errors
                       ELSE errors \cup {Report("cyclic", Top.node)}
          /\ UNCHANGED state
  /\ UNCHANGED tree /\ InExpansion

EnterUses ==
  /\ Entering /\ IsOriginal(Top.node) /\ tree[Top.node].kind = "uses"
  /\ IF resolved[Info(Top.node)] = 0 THEN Goto("children")
     ELSE stack' = Front(stack) \o <<[Top EXCEPT !.step = "called"], Frame(resolved[Info(Top.node)])>>
  /\ UNCHANGED <<tree, errors, state, ret>> /\ InExpansion

EnterOther ==
  /\ Entering /\ IsOriginal(Top.node) /\ tree[Top.node].kind \notin {"grouping", "uses"}
  /\ Goto("children")
  /\ UNCHANGED <<tree, errors, state, ret>> /\ InExpansion

\* The copies are put behind the children of the parent of the uses statement.
UseGrouping ==
  /\ phase = "expand" /\ stack # <<>> /\ Top.step = "called"
  /\ IF ret
     THEN LET g == resolved[Info(Top.node)]
              t == CopyAll(tree, tree[Top.node].parent,
                           {c \in Children(tree, g) : tree[c].kind \in DataDefs}, "uses")
              s == Refinements(t, Top.node)
          IN  /\ tree' = FoldLeft(Refine, t, s)
              /\ errors' = errors \cup UNION {RefineErrors(t, s[k]) : k \in DOMAIN s}
     ELSE UNCHANGED <<tree, errors>>
  /\ Goto("children")
  /\ UNCHANGED <<state, ret>> /\ InExpansion

\* The loop over the children reads the pointer to the next one when the visit
\* of a child is over: it gets to the copies, too.
NextChild == First({c \in Children(tree, Top.node) : c > Top.last})

VisitChild ==
  /\ phase = "expand" /\ stack # <<>> /\ Top.step = "children" /\ NextChild # 0
  /\ stack' = Front(stack) \o <<[Top EXCEPT !.last = NextChild], Frame(NextChild)>>
  /\ UNCHANGED <<tree, errors, state, ret>> /\ InExpansion

LeaveNode ==
  /\ phase = "expand" /\ stack # <<>> /\ Top.step = "children" /\ NextChild = 0
  /\ state' = IF tree[Top.node].kind = "grouping"
              THEN [state EXCEPT ![Info(Top.node)] = "done"] ELSE state
  /\ Return(TRUE)
  /\ UNCHANGED <<tree, errors>> /\ InExpansion

BeginAugments ==
  /\ phase = "expand" /\ stack = <<>>
  /\ phase' = "augment"
  /\ todo' = {n \in DOMAIN tree : tree[n].kind = "augment"}
  /\ UNCHANGED <<tree, references, errors, state, stack, ret>>

\* The nodes from the root to n; the order in which expandAugments() meets them.
PathTo(n) == SetToSortSeq(Above(tree)[n], LAMBDA x, y : x < y)
Precedes(m, n) ==
  LET p == PathTo(m)  q == PathTo(n)
  IN  \E k \in DOMAIN p \cap DOMAIN q : p[k] < q[k] /\ \A j \in 1 .. k - 1 : p[j] = q[j]

\* The place from which the path of an augment statement leads.
AugmentBase(a) == IF tree[tree[a].parent].kind = "uses"
                  THEN tree[tree[a].parent].parent ELSE 1

\* A node that does not fit its target is reported, and copied nevertheless.
Misplaced(a, n) ==
  {Report("node-kind-not-allowed", c) :
     c \in {x \in Children(tree, a) :
              IF tree[x].kind = "case" THEN tree[n].kind # "choice"
              ELSE tree[x].kind \in DataDefs /\ tree[n].kind = "choice"}}

ExpandAugment ==
  /\ phase = "augment"
  /\ \E a \in todo :
       /\ \A b \in todo \ {a} : Precedes(a, b)
       /\ todo' = todo \ {a}
       /\ LET n == Target(tree, AugmentBase(a), tree[a].arg)
          IN  IF n = 0
              THEN errors' = errors \cup {Report("bad-augment-arg", a)} /\ UNCHANGED tree
              ELSE IF tree[n].kind \notin Targets
              THEN errors' = errors \cup {Report("wrong-target", a)} /\ UNCHANGED tree
              ELSE /\ errors' = errors \cup Misplaced(a, n)
                   /\ tree' = CopyAll(tree, n,
                                {c \in Children(tree, a) : tree[c].kind \in DataDefs \cup {"case"}},
                                "augment")
  /\ UNCHANGED <<references, phase, state, stack, ret>>

EndPhase(p, q) ==
  /\ phase = p /\ phase' = q
  /\ UNCHANGED <<references, state, stack, ret, todo>>

\* Below an input, an output or a notification config is ignored.
Ignored(n) == \E a \in Above(tree)[n] \ {n} : tree[a].kind \in Ignoring

\* Mutant: what a node says goes before what holds for its parent.
Inherited_Own(above, own) == IF own = "default" THEN above ELSE own
\* The config property of a node below one for which `above' holds.
Inherited(above, own) == IF above = "false" THEN "false"
                         ELSE IF above = "true" /\ own = "default" THEN "true"
                         ELSE own

ConfigOf ==
  LET f[n \in 0 .. Len(tree)] ==
        IF n = 0 THEN "true"
        ELSE IF tree[n].kind = "grouping" \/ Ignored(n) THEN tree[n].config
        ELSE Inherited(f[tree[n].parent], tree[n].config)
  IN  f

\* A grouping is neither judged nor given a value, its nodes are.
ValidateConfigProperties ==
  /\ todo = {} /\ EndPhase("augment", "lists")
  /\ tree' = [n \in DOMAIN tree |-> [tree[n] EXCEPT !.config = ConfigOf[n]]]
  /\ errors' = errors
       \cup {Report("ignored-config", n) :
               n \in {x \in DOMAIN tree : Ignored(x) /\ tree[x].stmt # "default"}}
       \cup {Report("invalid-config", n) :
               n \in {x \in DOMAIN tree : /\ tree[x].kind # "grouping" /\ ~Ignored(x)
                                          /\ ConfigOf[tree[x].parent] = "false"
                                          /\ tree[x].config = "true"}}

KeyLeaf(l, k) == First({c \in Children(tree, l) : tree[c].kind = "leaf" /\ tree[c].name = k})
\* Mutant: every list needs a key.
NeedsKey_Any(l) == TRUE
NeedsKey(l) == tree[l].config = "true"

ValidateLists ==
  /\ EndPhase("lists", "names")
  /\ LET L == {n \in DOMAIN tree : tree[n].kind = "list"}
         Keys(l) == {tree[l].arg[i] : i \in DOMAIN tree[l].arg}
     IN  errors' = errors
           \cup {Report("key-required", l) : l \in {x \in L : NeedsKey(x) /\ tree[x].arg = <<>>}}
           \cup {Report("invalid-key-reference", l) :
                   l \in {x \in L : \E k \in Keys(x) : KeyLeaf(x, k) = 0}}
           \cup {Report("invalid-key-config", l) :
                   l \in {x \in L : \E k \in Keys(x) :
                            /\ KeyLeaf(x, k) # 0
                            /\ (tree[KeyLeaf(x, k)].config = "true") # (tree[x].config = "true")}}
  /\ UNCHANGED tree

\* getIdentifierGroup(): the names of a group have to differ.
Group(n) == LET k == tree[n].kind
            IN  IF k \in {"typedef", "identity", "grouping", "case"} THEN k
                ELSE IF k \in SchemaNodes THEN "node" ELSE "none"
SameName(c, n) == Group(c) = Group(n) /\ tree[c].name = tree[n].name

\* Mutant: the nodes behind n count, too.
Earlier_All(p, n) == Children(tree, p) \ {n}
\* Of the children of a parent of n only those before n are counted.
Earlier(p, n) == {c \in Children(tree, p) : p = tree[n].parent => c < n}

\* For a child of a case the children of the choice are counted, and those of
\* its other cases, as far as they stand before it.
InChoice(p, n) ==
  LET Cases == {c \in Children(tree, p) : tree[c].kind = "case"}
      own   == tree[n].parent
      Before(c) == own \in Cases => c < own
  IN  {c \in Children(tree, p) \ Cases : Before(c)}
      \cup UNION {Children(tree, c) : c \in {x \in Cases : Before(x)}}
      \cup {d \in Children(tree, own) : own \in Cases /\ d < n}

\* The names with which that of n may be in conflict, node by node up to the
\* root; a data node is compared with its siblings only.
Counted(n) ==
  LET At(p) == IF tree[p].kind = "case" THEN InChoice(tree[p].parent, n) ELSE Earlier(p, n)
      up    == IF Group(n) = "node" THEN {tree[n].parent} ELSE Above(tree)[tree[n].parent]
  IN  UNION {At(p) : p \in {q \in up : \A c \in Children(tree, q) :
                                         c \in up => tree[c].kind # "case"}}

UniqueNames ==
  /\ EndPhase("names", "unique")
  /\ errors' = errors \cup
       {Report("duplicate", n) :
          n \in {x \in DOMAIN tree \ {1} : /\ Group(x) # "none"
                                           /\ \E c \in Counted(x) : SameName(c, x)}}
  /\ UNCHANGED tree

BeginTypes ==
  /\ phase = "unique" /\ phase' = "types" /\ at' = 1
  /\ UNCHANGED <<tree, resolved, marker, base, builtin, cur, errors, state, stack, ret, todo>>

Types == /\ (HandleType \/ EndOfTypes)
         /\ UNCHANGED <<state, stack, ret, todo>>

Next == \/ Resolve \/ BeginExpansion
        \/ EnterCopy \/ EnterGrouping \/ EnterUses \/ EnterOther
        \/ UseGrouping \/ VisitChild \/ LeaveNode
        \/ BeginAugments \/ ExpandAugment
        \/ ValidateConfigProperties \/ ValidateLists \/ UniqueNames
        \/ BeginTypes \/ Types
Spec == Init /\ [][Next]_vars
-----------------------------------------------------------------------------
Data      == DataDefs \cup {"case", "notification"}
\* The nodes of the schema, those of groupings and of augment statements aside.
Schema == LET A == Above(tree)
          IN  {n \in DOMAIN tree : tree[n].kind \in Data
                 /\ \A a \in A[n] : tree[a].kind \notin {"grouping", "augment"}}

Groupings == {n \in Written : tree[n].kind = "grouping"}
Uses(g)   == {resolved[u] : u \in {n \in Below(tree, g) \cap Written : tree[n].kind = "uses"}} \ {0}
Reach(g)  == LET f[k \in 0 .. Cardinality(Groupings)] ==
                   LET G == f[k - 1]
                   IN  IF k = 0 THEN Uses(g) ELSE G \cup UNION {Uses(h) : h \in G}
             IN  f[Cardinality(Groupings)]
CyclicGroupings == {g \in Groupings : g \in Reach(g)}

\* What is written below node p: every node with the way that leads to it,
\* through the uses statements and the groupings they name.
RECURSIVE Meaning(_)
Meaning(p) ==
  UNION {{<<c>>} \cup {<<c>> \o s :
                        s \in IF tree[c].kind # "uses" THEN Meaning(c)
                              ELSE IF Meant(c) = 0 THEN {} ELSE Meaning(Meant(c))} :
           c \in {x \in Children(tree, p) \cap Written : tree[x].kind \in Data}}

\* The place of such a node in the schema, and that of a node of the tree.
PlaceMeant(s) == SelectSeq(Front(s), LAMBDA c : tree[c].kind # "uses") \o <<Last(s)>>
Place(n)      == LET p == PathTo(n) IN [k \in 1 .. Len(p) - 1 |-> tree[p[k + 1]].from]

\* When all groupings are expanded the schema has each node at the places, and
\* as often, as the uses statements say, wherever the groupings are declared and
\* whatever they use themselves; a refinement holds for the copy it is meant for.
\* Of the groupings that use each other in a cycle one is reported, and no others.
ExpansionAsMeant ==
  (phase = "expand" /\ stack = <<>>) =>
    /\ \A e \in errors : (e.kind = "cyclic" /\ e.node \in Groupings) => e.node \in CyclicGroupings
    /\ \A g \in CyclicGroupings : \E h \in Reach(g) : g \in Reach(h) /\ Report("cyclic", h) \in errors
    /\ CyclicGroupings = {} =>
         LET M == Meaning(1)
             P == [n \in Schema |-> Place(n)]
             Q == [s \in M |-> PlaceMeant(s)]
         IN  /\ \A n \in DOMAIN P : Cardinality({m \in DOMAIN P : P[m] = P[n]})
                                      = Cardinality({s \in M : Q[s] = P[n]})
             /\ \A s \in M : \E n \in DOMAIN P : P[n] = Q[s]
             /\ \A r \in DOMAIN tree :
                  LET n == Target(tree, tree[tree[r].parent].parent, tree[r].arg)
                  IN  (tree[r].kind = "refine" /\ n # 0 /\ resolved[tree[tree[r].parent].from] # 0
                         /\ tree[n].kind # "case")
                        => tree[n].stmt = tree[r].stmt /\ tree[n].config = tree[r].stmt

SaysFalse(n) == \E a \in Above(tree)[n] : tree[a].stmt = "false"

\* When config has been spread, a node of the schema is configuration unless it
\* or a node above it says otherwise, by what was written or refined, wherever
\* it was copied from.  Those that say so although a node above them denies it are
\* reported, and so are exactly the lists of configuration that have no key.
ConfigInherited ==
  phase = "unique" =>
    /\ \A n \in {m \in Schema : ~Ignored(m)} :
         /\ tree[n].config = IF SaysFalse(n) THEN "false" ELSE "true"
         /\ Report("invalid-config", n) \in errors
              <=> tree[n].stmt = "true" /\ SaysFalse(tree[n].parent)
    /\ \A l \in {m \in Schema : tree[m].kind = "list"} :
         Report("key-required", l) \in errors
           <=> tree[l].arg = <<>> /\ ~SaysFalse(l) /\ ~Ignored(l)

SchemaParent(n) == LET p == tree[n].parent
                   IN  IF tree[p].kind = "case" THEN tree[p].parent ELSE p
DataNodes       == {m \in DOMAIN tree : Group(m) = "node"}
Peers(n)        == {m \in DataNodes : /\ SchemaParent(m) = SchemaParent(n)
                                      /\ tree[m].name = tree[n].name}
\* A choice with cases and with nodes that stand for a case.
Mixed(p) == /\ tree[p].kind = "choice"
            /\ \E c, d \in Children(tree, p) : tree[c].kind = "case" /\ tree[d].kind # "case"
Scoped   == {n \in DOMAIN tree : tree[n].kind \in {"typedef", "grouping"}}
Unreported(n) == Report("duplicate", n) \notin errors

\* Of the data nodes with one parent and one name all but one are reported, no
\* matter whether they were written, copied from groupings or added by augment
\* statements, and so are definitions in the scope of another one of their name.
DuplicatesJudged ==
  phase = "unique" =>
    /\ \A n \in DataNodes : ~Mixed(SchemaParent(n)) =>
         Cardinality({m \in Peers(n) : Unreported(m)}) = 1
    /\ \A m, n \in Scoped :
         (m < n /\ tree[m].parent \in Above(tree)[tree[n].parent] /\ SameName(m, n))
           => ~Unreported(n) \/ ~Unreported(m)

\* The schema is complete and has nothing that the module does not say, config is
\* what was written or refined above a node, and of each name one node counts:
\* whatever was copied, in which order, and from groupings used by which others.
SchemaAsMeant == ExpansionAsMeant /\ ConfigInherited /\ DuplicatesJudged

\* The comment on uniqueNames() says it verifies that all identifiers are unique
\* within all namespaces: of the nodes of the cases of a choice, too, all but one
\* of a name are reported.
CasesUnique ==
  phase = "unique" =>
    \A n \in DataNodes : Cardinality({m \in Peers(n) : Unreported(m)}) = 1
=============================================================================
