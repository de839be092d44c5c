--------------------------- MODULE YangReferences ---------------------------
(***************************************************************************)
(* The tree of statements of a YANG module, and the first and the last     *)
(* pass of yangSemanticAnalysis() of yang-check.c over it:                 *)
(* resolveReferences(), which leads every reference to its definition and  *)
(* looks for chains of references that are cyclic, and typeHandler(),      *)
(* which finds the builtin type of every type and judges its restrictions. *)
(*                                                                         *)
(* A node is its place in `tree'.  Siblings are in the order of their      *)
(* places, since a node is only ever added behind its siblings.  One       *)
(* action is the visit of one node, or one turn of the loop that follows a *)
(* chain.  0 is the null pointer.                                          *)
(***************************************************************************)
EXTENDS Integers, FiniteSetsExt, SequencesExt

CONSTANT Modules    \* the trees that may be written

Config == {"default", "true", "false"}
Origin == {"original", "uses", "augment"}

\* kind: the keyword; arg: the name or path it refers to, the keys of a list;
\* stmt: its config statement, config: what holds for it; origin: how the node
\* came into the tree; from: the written node whose strings it shares.
Node(kind, name, parent, arg, stmt, from) ==
  [kind |-> kind, name |-> name, parent |-> parent, arg |-> arg, stmt |-> stmt,
   config |-> stmt, origin |-> "original", from |-> from]

VARIABLES
  tree,
  resolved,  \* info->resolvedNode of the written nodes
  marker,    \* info->marker: the node whose chain has passed here
  base,      \* typeInfo->baseTypeNodePtr
  builtin,   \* typeInfo->builtinType
  at,        \* the node that is visited
  cur,       \* where the chain of its references has arrived
  errors,
  phase

references == <<resolved, marker, base, builtin, at, cur>>

Report(k, n) == [kind |-> k, node |-> n]

Written       == {n \in DOMAIN tree : tree[n].origin = "original"}
Children(t, n) == {c \in DOMAIN t : t[c].parent = n}
First(S)      == IF S = {} THEN 0 ELSE Min(S)
FirstOfKind(n, k) == First({c \in Children(tree, n) : tree[c].kind = k})

Numerical == {"int32", "uint8", "decimal64"}
BuiltinTypes == Numerical \cup {"string", "binary", "enumeration", "bits", "boolean",
                                "empty", "leafref", "identityref", "union"}

RefersTo   == [uses |-> "grouping", type |-> "typedef", base |-> "identity"]
IsReference(n) == /\ tree[n].kind \in DOMAIN RefersTo
                  /\ tree[n].kind = "type" => tree[n].arg[1] \notin BuiltinTypes

\* The nearest definition around node p.
Lookup(p, k, x) ==
  LET f[n \in 0 .. Len(tree)] ==
        LET here == {c \in Children(tree, n) : tree[c].kind = k /\ tree[c].name = x}
        IN  IF n = 0 THEN 0 ELSE IF here # {} THEN Min(here) ELSE f[tree[n].parent]
  IN  f[p]
Resolution(p, n) == Lookup(p, RefersTo[tree[n].kind], tree[n].arg[1])

ReferencesInit ==
  /\ tree \in Modules
  /\ resolved = [n \in DOMAIN tree |-> 0]
  /\ marker   = [n \in DOMAIN tree |-> 0]
  /\ base     = [n \in DOMAIN tree |-> 0]
  /\ builtin  = [n \in DOMAIN tree |->
                   IF tree[n].kind = "type" /\ ~IsReference(n)
                   THEN tree[n].arg[1] ELSE "none"]
  /\ at = 1 /\ cur = 0 /\ errors = {} /\ phase = "resolve"

Resolving == phase = "resolve" /\ at \in DOMAIN tree

\* The type of a typedef, the base of an identity.
Chained(n) == tree[n].kind # "uses" /\ tree[tree[n].parent].kind = RefersTo[tree[n].kind]

\* A reference that the chain of an earlier one has passed is not visited again.
ResolveReference ==
  /\ Resolving /\ cur = 0
  /\ IF IsReference(at) /\ resolved[at] = 0
     THEN LET r == Resolution(tree[at].parent, at)
          IN  /\ resolved' = [resolved EXCEPT ![at] = r]
              /\ marker' = [marker EXCEPT ![at] = at]
              /\ base' = IF tree[at].kind = "type" THEN [base EXCEPT ![at] = r] ELSE base
              /\ errors' = IF r = 0 THEN errors \cup {Report("not-resolved", at)} ELSE errors
              /\ cur' = IF Chained(at) THEN r ELSE 0
              /\ at' = IF cur' = 0 THEN at + 1 ELSE at
     ELSE at' = at + 1 /\ UNCHANGED <<resolved, marker, base, errors, cur>>
  /\ UNCHANGED <<tree, builtin, phase>>

\* Mutant: a chain that comes back to its start is given up silently.
Cyclic_Silent == errors
Cyclic == errors \cup {Report("cyclic", tree[at].parent)}

\* One turn of the loop.  It resolves what it passes as if it were written
\* where the chain starts, and the base it notes is that of the start.
FollowChain ==
  /\ Resolving /\ cur # 0
  /\ LET c == FirstOfKind(cur, tree[at].kind)
     IN  IF c # 0 /\ IsReference(c) /\ marker[c] = 0
         THEN LET r == Resolution(tree[at].parent, c)
              IN  /\ resolved' = [resolved EXCEPT ![c] = r]
                  /\ marker' = [marker EXCEPT ![c] = at]
                  /\ base' = IF tree[at].kind = "type" THEN [base EXCEPT ![at] = r] ELSE base
                  /\ errors' = IF r = 0 THEN errors \cup {Report("not-resolved", c)} ELSE errors
                  /\ cur' = r
         ELSE /\ errors' = IF c # 0 /\ IsReference(c) /\ marker[c] = at THEN Cyclic ELSE errors
              /\ cur' = 0
              /\ UNCHANGED <<resolved, marker, base>>
  /\ at' = IF cur' = 0 THEN at + 1 ELSE at
  /\ UNCHANGED <<tree, builtin, phase>>

BaseType(n) == IF base[n] = 0 THEN 0 ELSE FirstOfKind(base[n], "type")
\* Mutant: the chain is followed for one type only.
TypeChain_One(n) ==
  [k \in 0 .. Len(tree) |-> IF k = 0 \/ BaseType(n) = 0 THEN n ELSE BaseType(n)]
\* The types that typeHandler() goes through from node n, ended or not.
TypeChain(n) ==
  LET f[k \in 0 .. Len(tree)] ==
        LET m == f[k - 1]  b == BaseType(m)
        IN  IF k = 0 THEN n ELSE IF b = 0 THEN m ELSE b
  IN  f

\* What has to be written below a builtin type, and what may be.
Required == [enumeration |-> "enum", bits |-> "bit", leafref |-> "path",
             identityref |-> "base", union |-> "type", decimal64 |-> "fraction-digits"]
AllowedIn(k) ==
  CASE k = "range"   -> Numerical
    [] k = "fraction-digits" -> {"decimal64"}
    [] k = "length"  -> {"string", "binary"}
    [] k = "pattern" -> {"string"}
    [] k = "enum"    -> {"enumeration"}
    [] k = "bit"     -> {"bits"}
    [] k = "path"    -> {"leafref"}
    [] k = "base"    -> {"identityref"}
    [] k = "type"    -> {"union"}

TypeErrors(n, b) ==
  {Report("invalid-union-type", m) :
     m \in {x \in {n} : tree[tree[x].parent].kind = "type" /\ b \in {"empty", "leafref"}}}
  \cup
  {Report("child-required", m) :
     m \in {x \in {n} : /\ base[x] = 0 /\ b \in DOMAIN Required
                        /\ FirstOfKind(x, Required[b]) = 0}}
  \cup
  {Report("restriction-not-allowed", c) :
     c \in {x \in Children(tree, n) : b \notin AllowedIn(tree[x].kind)}}

Handling == phase = "types" /\ at \in DOMAIN tree

\* Copies have no types of their own.  A chain that neither ends nor comes back
\* to the node is followed for ever.
HandleType ==
  /\ Handling
  /\ IF tree[at].kind = "type" /\ tree[at].origin = "original"
     THEN LET f == TypeChain(at)
              e == f[Len(tree)]
          IN  IF BaseType(e) = 0
              THEN /\ builtin' = [builtin EXCEPT ![at] = builtin[e]]
                   /\ errors' = errors \cup TypeErrors(at, builtin[e])
                   /\ UNCHANGED phase
              ELSE /\ phase' = IF \E k \in 1 .. Len(tree) : f[k] = at THEN phase ELSE "hung"
                   /\ UNCHANGED <<builtin, errors>>
     ELSE UNCHANGED <<builtin, errors, phase>>
  /\ at' = at + 1
  /\ UNCHANGED <<tree, resolved, marker, base, cur>>

EndOfTypes ==
  /\ phase = "types" /\ at = Len(tree) + 1
  /\ phase' = "done"
  /\ UNCHANGED <<tree, references, errors>>
-----------------------------------------------------------------------------
References == {n \in Written : IsReference(n)}

\* Where a reference leads from the place where it is written, and the type that
\* is written behind a typedef's.
Meant(n)    == Resolution(tree[n].parent, n)
TypeOf(d)   == FirstOfKind(d, "type")
Behind(n)   == IF IsReference(n) /\ Meant(n) # 0 THEN TypeOf(Meant(n)) ELSE 0
Beyond(n)   == LET f[k \in 0 .. Len(tree)] ==
                     LET B == f[k - 1]
                     IN  IF k = 0 THEN {n} ELSE B \cup {Behind(m) : m \in B \ {0}}
               IN  f[Len(tree)]
CyclicTypes == {n \in References : tree[n].kind = "type" /\ 0 \notin Beyond(n)}
Typedefs    == {n \in Written : tree[n].kind = "typedef"}
Nested      == \E d \in Typedefs : tree[d].parent # 1
\* Every typedef is declared before it is referred to.
InOrder     == \A n \in References : tree[n].kind = "type" => Meant(n) < n
LastType(n) == CHOOSE m \in Beyond(n) \ {0} : Behind(m) = 0
TypesRight  == \A n \in Written \ CyclicTypes :
                 (tree[n].kind = "type" /\ ~IsReference(LastType(n))) =>
                   builtin[n] = tree[LastType(n)].arg[1]

\* An unresolved reference is reported exactly if nothing in its scope has the
\* name.  The typedefs that a cycle of types can be reached from are told apart
\* from all others, and each cycle is reported once, although a chain is given
\* up where an earlier one has passed.  If every typedef is declared before it
\* is used the builtin type of each type is the one at the end of its chain, and
\* only a cycle can keep typeHandler() from coming to an end.
ReferencesSound ==
  /\ (phase # "resolve" /\ ~Nested) =>
       /\ \A n \in References :
            /\ resolved[n] = Meant(n)
            /\ Report("not-resolved", n) \in errors <=> Meant(n) = 0
       /\ \A e \in errors :
            e.kind = "cyclic" /\ tree[e.node].kind = "typedef" => TypeOf(e.node) \in CyclicTypes
       /\ \A n \in CyclicTypes :
            Cardinality({d \in Typedefs : /\ Report("cyclic", d) \in errors
                                          /\ Beyond(TypeOf(d)) \cap Beyond(n) # {}}) = 1
  /\ (phase = "done" /\ InOrder) => TypesRight
  /\ phase = "hung" => CyclicTypes # {} \/ Nested

\* The comment on resolveReferences() says it resolves references to defined
\* types: in whatever order they are declared, every type that is not part of a
\* cycle has the builtin type at the end of its chain.
TypesResolved ==
  phase = "done" => TypesRight
=============================================================================
