------------------------------ MODULE OidTree ------------------------------
(***************************************************************************)
(* The tree of object identifiers of smi-data.c, and the semantic actions  *)
(* of the SMIv1/v2 parser that build it.  Each value `name ::= { label     *)
(* numbers }' is walked from the root: a label that is not known yet gets  *)
(* an object in a pending tree, and when it is declared later the subtree  *)
(* that hangs below it there is merged into the main tree.                 *)
(*                                                                         *)
(* Nodes and objects are numbered in the order of their allocation.  The   *)
(* children of a node keep their C pointers, since what goes wrong goes    *)
(* wrong with these; the objects of a node and of a module are sequences.  *)
(***************************************************************************)
EXTENDS Naturals, Sequences, FiniteSets

CONSTANTS
  Name,       \* descriptors
  ISO,        \* the well-known descriptor at the top of the tree
  NULL,       \* the name of an object that only a number refers to
  Subid,      \* sub-identifiers
  MAX_OID,    \* number of sub-identifiers after which a path is recursive
  Files       \* possible inputs: sequences of modules, sequences of tokens

Token == [op   : {"label", "number", "named", "declare", "comply", "column"},
          name : Name \cup {NULL}, sub : Subid]

ASSUME NameAssumption  == ISO \in Name /\ NULL \notin Name
ASSUME SubidAssumption == Subid \subseteq Nat /\ {0, 1} \subseteq Subid
ASSUME BoundAssumption == MAX_OID \in Nat \ {0}
ASSUME FileAssumption  == Files \subseteq Seq(Seq(Token))

VARIABLES
  files,      \* the modules to be parsed
  unit,       \* number of the module that is parsed; 0 is the module ""
  pos,        \* number of the next token of that module
  heap,       \* nodes, objects and the modules' chains of objects
  pending,    \* pendingNodePtr of the parser
  parent,     \* parentNodePtr of the parser
  value       \* the object that the identifier read so far stands for

vars == <<files, unit, pos, heap, pending, parent, value>>

NIL  == 0     \* the NULL pointer to a node or object
Root == 1

Node   == [subid : Subid, parent : Nat, first : Nat, last : Nat, prev : Nat,
           next : Nat, objs : Seq(Nat), oid : Seq(Subid), freed : BOOLEAN]
Object == [name : Name \cup {NULL}, mod : Nat, node : Nat,
           incomplete : BOOLEAN, oid : Seq(Subid), recursive : BOOLEAN,
           freed : BOOLEAN]
Fault  == {"none", "null", "selfmerge"}

First(S) == CHOOSE i \in S : \A j \in S : i <= j

\* The children of node p in the order of the nextPtr list.
Children(h, p) ==
  LET f[n \in 0 .. Len(h.node)] ==
        IF n = NIL THEN <<>> ELSE <<n>> \o f[h.node[n].next]
  IN  f[h.node[p].first]

\* findNodeByParentAndSubid()
FindNode(h, p, s) ==
  LET hits == {i \in DOMAIN Children(h, p) :
                 h.node[Children(h, p)[i]].subid = s}
  IN  IF p = pending \/ hits = {} THEN NIL ELSE Children(h, p)[First(hits)]

NewNode(s, p, prev, next, objs) ==
  [subid |-> s, parent |-> p, first |-> NIL, last |-> NIL, prev |-> prev,
   next |-> next, objs |-> objs, oid |-> <<>>, freed |-> FALSE]

\* Fault: the new node is always appended.
AddNode_Append(h, p, s, o) ==
  LET new == Len(h.node) + 1
      l   == h.node[p].last
  IN  IF l = NIL
      THEN [h EXCEPT !.node = Append([@ EXCEPT ![p].first = new,
                                               ![p].last  = new],
                                     NewNode(s, p, NIL, NIL, <<o>>))]
      ELSE [h EXCEPT !.node = Append([@ EXCEPT ![l].next = new,
                                               ![p].last = new],
                                     NewNode(s, p, l, NIL, <<o>>))]

\* addNode(): insert the node of object o in front of the first child whose
\* subid is not smaller.  A child whose prevPtr is NULL although it is not
\* the first one makes it write through a null pointer.
AddNode(h, p, s, o) ==
  LET new   == Len(h.node) + 1
      kids  == Children(h, p)
      after == {i \in DOMAIN kids : h.node[kids[i]].subid >= s}
      c     == kids[First(after)]
      l     == h.node[p].last
      Linked(nodes, prev, next) ==
        [h EXCEPT !.node = Append(nodes, NewNode(s, p, prev, next, <<o>>))]
  IN  CASE kids = <<>> ->
             Linked([h.node EXCEPT ![p].first = new, ![p].last = new],
                    NIL, NIL)
        [] kids # <<>> /\ after = {} ->
             Linked([h.node EXCEPT ![l].next = new, ![p].last = new], l, NIL)
        [] after # {} /\ c = h.node[p].first ->
             Linked([h.node EXCEPT ![c].prev = new, ![p].first = new], NIL, c)
        [] after # {} /\ c # h.node[p].first ->
             LET q == h.node[c].prev
             IN  IF q = NIL THEN [h EXCEPT !.fault = "null"]
                 ELSE Linked([h.node EXCEPT ![q].next = new, ![c].prev = new],
                             q, c)

NewObject(name, n, incomplete) ==
  [name |-> name, mod |-> unit, node |-> n, incomplete |-> incomplete,
   oid |-> <<>>, recursive |-> FALSE, freed |-> FALSE]

\* An object is appended to the heap and to the chain of its module.
Chained(h, o) ==
  [h EXCEPT !.obj = Append(@, o),
            !.chain[unit] = Append(@, Len(h.obj) + 1)]

\* addObject(): an object for number s below node p.
AddObject(h, name, p, s, incomplete) ==
  LET o == Len(h.obj) + 1
      n == FindNode(h, p, s)
  IN  IF p = pending \/ n = NIL
      THEN Chained(AddNode(h, p, s, o),
                   NewObject(name, Len(h.node) + 1, incomplete))
      ELSE Chained([h EXCEPT !.node[n].objs = Append(@, o)],
                   NewObject(name, n, incomplete))

\* duplicateObject(): another object for the node of object o.
DuplicateObject(h, o) ==
  LET n == h.obj[o].node
  IN  Chained([h EXCEPT !.node[n].objs = Append(@, Len(h.obj) + 1)],
              NewObject(NULL, n, FALSE))

-----------------------------------------------------------------------------
(* Merging a pending tree into the main tree.                              *)

\* Fault: a node that is moved to the head does not become the first child.
MoveNode_NotFirst(h, to, n) ==
  [h EXCEPT !.node[n].next = h.node[to].first]

\* Node n of the tree that is dissolved becomes a child of `to', which has
\* children, but none of this number.  Neither the head's old prevPtr nor
\* the nextPtr of a node that is moved to the end is set.
MoveNode(h, to, n) ==
  LET s     == h.node[n].subid
      f     == h.node[to].first
      l     == h.node[to].last
      kids  == Children(h, to)
      nx    == kids[First({i \in DOMAIN kids : h.node[kids[i]].subid >= s})]
      t     == kids[First({i \in DOMAIN kids : h.node[kids[i]].next = nx})]
  IN  IF s < h.node[f].subid
      THEN [h EXCEPT !.node[n].next = f, !.node[to].first = n]
      ELSE IF s > h.node[l].subid
      THEN [h EXCEPT !.node[n].prev = l, !.node[l].next = n,
                     !.node[to].last = n]
      ELSE [h EXCEPT !.node[nx].prev = n, !.node[n].next = nx,
                     !.node[n].prev = t, !.node[t].next = n]

InSeq(q) == {q[i] : i \in DOMAIN q}

\* The children of node p get the parent q.  (A function that is concatenated
\* with <<>> is the same sequence; TLC evaluates it at once.)
Adopted(h, p, q) ==
  [h EXCEPT !.node =
     <<>> \o [n \in DOMAIN @ |->
              IF n \in InSeq(Children(h, p))
              THEN [@[n] EXCEPT !.parent = q] ELSE @[n]]]

\* The objects of node p are appended to those of node q, and point to r.
HandedOver(h, p, q, r) ==
  [h EXCEPT
     !.node[q].objs = @ \o h.node[p].objs,
     !.obj = <<>> \o [o \in DOMAIN @ |->
                IF o \in InSeq(h.node[p].objs)
                THEN [@[o] EXCEPT !.node = r] ELSE @[o]]]

\* Faults: the objects keep their node; the children keep their parent; the
\* children of the wrong node are adjusted.
JoinNodes_KeepNode(h, to, from) ==
  Adopted(HandedOver(h, from, to, from), from, to)
JoinNodes_NoParent(h, to, from) == HandedOver(h, from, to, to)
JoinNodes_Swapped(h, to, from) ==
  Adopted(HandedOver(h, from, to, to), to, from)

\* Step (1) of mergeNodeTrees() and the adjustment of the parentPtrs.
JoinNodes(h, to, from) == Adopted(HandedOver(h, from, to, to), from, to)

\* mergeNodeTrees().  A node that is merged with itself joins its list of
\* objects to itself: the loop over that list never ends.
RECURSIVE MergeNodeTrees(_, _, _), MergeChildren(_, _, _)
MergeNodeTrees(h, to, from) ==
  LET kids   == Children(h, from)
      joined == JoinNodes(h, to, from)
      merged == IF joined.node[to].first = NIL
                THEN [joined EXCEPT
                        !.node[to].first = joined.node[from].first,
                        !.node[to].last  = joined.node[from].last]
                ELSE MergeChildren(joined, to, kids)
  IN  IF to = from THEN [h EXCEPT !.fault = "selfmerge"]
      ELSE [merged EXCEPT !.node[from].freed = TRUE]

MergeChildren(h, to, kids) ==
  IF kids = <<>> \/ h.fault # "none" THEN h
  ELSE LET n == Head(kids)
           t == FindNode(h, to, h.node[n].subid)
       IN  MergeChildren(IF t # NIL THEN MergeNodeTrees(h, t, n)
                         ELSE MoveNode(h, to, n),
                         to, Tail(kids))

\* Removal of node k from the children of the pending root.
Unlinked(h, k) ==
  LET prev == h.node[k].prev
      next == h.node[k].next
      g    == IF prev # NIL THEN [h EXCEPT !.node[prev].next = next]
              ELSE [h EXCEPT !.node[pending].first = next]
  IN  IF next # NIL THEN [g EXCEPT !.node[next].prev = prev]
      ELSE [g EXCEPT !.node[pending].last = prev]

\* The object o leaves the chain of its module if it is at one of its ends.
Unchained(chain, o) ==
  LET c == IF chain # <<>> /\ Head(chain) = o THEN Tail(chain) ELSE chain
  IN  IF c # <<>> /\ c[Len(c)] = o THEN SubSeq(c, 1, Len(c) - 1) ELSE c

\* setObjectName(): give object o its name and, if that name is pending, let
\* the pending object take the place of o, which is freed.
SetObjectName(h, o, name) ==
  LET named == [h EXCEPT !.obj[o].name = name]
      n     == h.obj[o].node
      kids  == Children(h, pending)
      hits  == {i \in DOMAIN kids :
                  named.obj[Head(h.node[kids[i]].objs)].name = name}
      k     == kids[First(hits)]
      objs  == h.node[n].objs
      cut   == IF objs # <<>> /\ h.obj[objs[Len(objs)]].oid = <<>>
               THEN [Unlinked(named, k) EXCEPT
                       !.node[n].objs = SubSeq(objs, 1, Len(objs) - 1)]
               ELSE Unlinked(named, k)
      new   == Head(cut.node[k].objs)
      moved == [MergeNodeTrees(cut, n, k) EXCEPT
                  !.chain[cut.obj[new].mod] = Unchained(@, o),
                  !.obj[o].freed = TRUE]
  IN  CASE hits = {} -> [heap |-> named, obj |-> o]
        [] hits # {} /\ cut.node[k].objs = <<>> -> [heap |-> cut, obj |-> o]
        [] OTHER -> [heap |-> moved, obj |-> new]

-----------------------------------------------------------------------------
(* Semantic actions of the grammar.                                        *)

\* An object of name n that the chain of module m leads to first.
Lookup(h, m, n) ==
  LET hits == {i \in DOMAIN h.chain[m] : h.obj[h.chain[m][i]].name = n}
  IN  IF hits = {} THEN NIL ELSE h.chain[m][First(hits)]

\* What a label of the module being parsed refers to: one of its objects, or
\* an imported one, that is one of a module that was parsed before.
Referred(h, n) ==
  LET mods == {m \in DOMAIN h.chain : Lookup(h, m, n) # NIL}
  IN  IF Lookup(h, unit, n) # NIL THEN Lookup(h, unit, n)
      ELSE IF mods # {} THEN Lookup(h, First(mods), n) ELSE NIL

\* Freed objects that the chain of a module or the list of a node still leads
\* to: from here on, every walk along it reads freed memory, so the behaviour
\* is undefined and not followed.
Stale == {o \in UNION {InSeq(heap.chain[m]) : m \in DOMAIN heap.chain}
                \cup UNION {InSeq(heap.node[n].objs) :
                              n \in {x \in DOMAIN heap.node :
                                       ~heap.node[x].freed}} :
            heap.obj[o].freed}
Intact == heap.fault = "none" /\ Stale = {}

Parsing == Intact /\ unit \in DOMAIN files
More    == Parsing /\ pos \in DOMAIN files[unit]
tok     == files[unit][pos]

Step(h, o) ==
  /\ heap' = h
  /\ value' = o
  /\ parent' = h.obj[o].node
  /\ pos' = pos + 1
  /\ UNCHANGED <<files, unit, pending>>

\* The first sub-identifier: a descriptor.  The object of a forward reference
\* goes to the pending tree.
Label ==
  /\ More /\ tok.op = "label" /\ value = NIL
  /\ LET o == Referred(heap, tok.name)
     IN  IF o # NIL THEN Step(heap, o)
         ELSE Step(AddObject(heap, tok.name, pending, 0, TRUE),
                   Len(heap.obj) + 1)

\* A number: the last object of the node if it is of this module, else a new
\* object without a name.
Number ==
  /\ More /\ tok.op = "number" /\ value # NIL
  /\ LET n    == FindNode(heap, parent, tok.sub)
         objs == heap.node[n].objs
     IN  IF n # NIL /\ objs # <<>> /\ heap.obj[objs[Len(objs)]].mod = unit
         THEN Step(heap, objs[Len(objs)])
         ELSE Step(AddObject(heap, NULL, parent, tok.sub, TRUE),
                   Len(heap.obj) + 1)

\* A descriptor with its number.
NamedNumber ==
  /\ More /\ tok.op = "named" /\ value # NIL
  /\ Step(AddObject(heap, tok.name, parent, tok.sub, FALSE),
          Len(heap.obj) + 1)

\* smiCheckObjectReuse(): an object that is complete under another name, or
\* that belongs to another module, is duplicated.
Reused(h, o, name) ==
  IF ~h.obj[o].incomplete /\ h.obj[o].name # name
  THEN <<DuplicateObject(h, o), Len(h.obj) + 1>>
  ELSE IF h.obj[o].mod # unit
  THEN <<DuplicateObject(h, o), Len(h.obj) + 1>>
  ELSE <<h, o>>

\* The end of a declaration: its name is given to the object its value stands
\* for.  All rules go on with the object that setObjectName() returns, except
\* the compliance and capabilities statements, which keep their own.
Declaration ==
  /\ More /\ tok.op \in {"declare", "comply"} /\ value # NIL
  /\ LET r    == Reused(heap, value, tok.name)
         set  == SetObjectName(r[1], r[2], tok.name)
         kept == IF tok.op = "comply" THEN r[2] ELSE set.obj
     IN  heap' = [set.heap EXCEPT !.obj[kept].incomplete = FALSE]
  /\ value' = NIL
  /\ parent' = Root
  /\ pos' = pos + 1
  /\ UNCHANGED <<files, unit, pending>>

\* A column named in a SEQUENCE is pending until it is declared.
SequenceItem ==
  /\ More /\ tok.op = "column" /\ value = NIL
  /\ heap' = IF Referred(heap, tok.name) # NIL THEN heap
             ELSE AddObject(heap, tok.name, pending, 0, TRUE)
  /\ pos' = pos + 1
  /\ UNCHANGED <<files, unit, pending, parent, value>>

\* The nodes on the way up from node n, at most `limit' of them, to the one
\* below the root or the pending root or to one that is its own parent.
Climb(h, n, limit) ==
  LET f[i \in 1 .. limit] ==
        IF i = 1 THEN <<n>>
        ELSE LET way == f[i - 1]
                 up  == h.node[way[Len(way)]].parent
             IN  IF up \in {pending, Root, NIL, way[Len(way)]} THEN way
                 ELSE Append(way, up)
  IN  f[limit]

PathOf(h, way, recursive) ==
  [oid |-> [i \in DOMAIN way |-> h.node[way[Len(way) + 1 - i]].subid],
   recursive |-> recursive]
SelfParent(h, way) == h.node[way[Len(way)]].parent = way[Len(way)]

\* Faults: only a node that is its own parent is recursive; the path of a
\* recursive node has one number too many.
Path_NoLimit(h, n) ==
  LET way == Climb(h, n, MAX_OID + 1)
  IN  PathOf(h, way, SelfParent(h, way))
Path_OneMore(h, n) ==
  LET way == Climb(h, n, MAX_OID + 2)
  IN  PathOf(h, way, Len(way) > MAX_OID \/ SelfParent(h, way))

\* The OID of node n.  A path of more than MAX_OID nodes, or one that ends in
\* itself, is recursive.
Path(h, n) ==
  LET way == Climb(h, n, MAX_OID + 1)
  IN  PathOf(h, way, Len(way) > MAX_OID \/ SelfParent(h, way))

\* checkObjects(): the OIDs of the objects of the module, and of their nodes.
SetOids(h) ==
  LET own    == InSeq(h.chain[unit])
      nodes  == {h.obj[o].node : o \in own}
      oid(n) == IF h.node[n].oid # <<>> THEN h.node[n].oid
                ELSE Path(h, n).oid
      rec(o) == /\ h.obj[o].name # NULL
                /\ h.node[h.obj[o].node].oid = <<>>
                /\ Path(h, h.obj[o].node).recursive
  IN  [h EXCEPT
         !.node = <<>> \o [n \in DOMAIN @ |->
                    IF n \in nodes THEN [@[n] EXCEPT !.oid = oid(n)]
                    ELSE @[n]],
         !.obj = <<>> \o [o \in DOMAIN @ |->
                   IF o \in own
                   THEN [@[o] EXCEPT !.oid = oid(h.obj[o].node),
                                     !.recursive = rec(o)]
                   ELSE @[o]]]

\* END of the module and of loadModule().  The next module gets a pending
\* tree of its own; that of this one is not freed.
EndModule ==
  /\ Parsing /\ pos = Len(files[unit]) + 1 /\ value = NIL
  /\ heap' = [SetOids(heap) EXCEPT
                !.node = Append(@, NewNode(0, NIL, NIL, NIL, <<>>))]
  /\ pending' = Len(heap.node) + 1
  /\ unit' = unit + 1
  /\ pos' = 1
  /\ UNCHANGED <<files, parent, value>>

-----------------------------------------------------------------------------
Init ==
  /\ files \in Files
  /\ unit = 1 /\ pos = 1
  /\ heap = [node  |-> <<[NewNode(0, NIL, NIL, NIL, <<>>)
                            EXCEPT !.first = 2, !.last = 2],
                         [NewNode(1, Root, NIL, NIL, <<1>>)
                            EXCEPT !.oid = <<1>>],
                         NewNode(0, NIL, NIL, NIL, <<>>)>>,
             obj   |-> <<[name |-> ISO, mod |-> 0, node |-> 2,
                          incomplete |-> FALSE, oid |-> <<1>>,
                          recursive |-> FALSE, freed |-> FALSE]>>,
             chain |-> [m \in 0 .. Len(files) |->
                          IF m = 0 THEN <<1>> ELSE <<>>],
             fault |-> "none"]
  /\ pending = 3
  /\ parent = Root
  /\ value = NIL

Next == Label \/ Number \/ NamedNumber \/ Declaration \/ SequenceItem
        \/ EndModule

Spec == Init /\ [][Next]_vars

-----------------------------------------------------------------------------
(* Properties.                                                             *)

TypeOK ==
  /\ files \in Files
  /\ unit \in 1 .. Len(files) + 1
  /\ pos \in Nat
  /\ heap.node \in Seq(Node)
  /\ heap.obj \in Seq(Object)
  /\ \A o \in DOMAIN heap.obj : Len(heap.obj[o].oid) <= MAX_OID + 1
  /\ heap.chain \in [0 .. Len(files) -> Seq(1 .. Len(heap.obj))]
  /\ heap.fault \in Fault
  /\ {Root, pending} \subseteq DOMAIN heap.node
  /\ heap.fault = "none" => parent \in DOMAIN heap.node
  /\ value \in DOMAIN heap.obj \cup {NIL}

LiveNodes == {n \in DOMAIN heap.node : ~heap.node[n].freed}
LiveObjects == {o \in DOMAIN heap.obj : ~heap.obj[o].freed}

\* Below every node but the pending root the children are sorted by number,
\* no two have the same one, the list ends at lastChildPtr, and each child
\* knows its parent: insertions and merges keep the tree searchable.
SortedTree ==
  Intact => \A p \in LiveNodes :
    LET kids == Children(heap, p)
    IN  /\ kids = <<>> \/ heap.node[p].last = kids[Len(kids)]
        /\ \A i \in DOMAIN kids : heap.node[kids[i]].parent = p
                                  /\ kids[i] \in LiveNodes
        /\ p # pending =>
             \A i, j \in DOMAIN kids : i < j =>
               heap.node[kids[i]].subid < heap.node[kids[j]].subid

\* The declarations of module m: where the name, the label and the numbers
\* between them stand.
Ends(m)   == {i \in DOMAIN files[m] : files[m][i].op \in {"declare", "comply"}}
Starts(m) == {i \in DOMAIN files[m] : files[m][i].op = "label"}
StartOf(m, e) == CHOOSE i \in Starts(m) :
                   i < e /\ \A j \in Starts(m) : j < e => j <= i
Named(m, n)   == {i \in Ends(m) : files[m][i].name = n}
Implicit(n)   == \E m \in DOMAIN files : \E i \in DOMAIN files[m] :
                   files[m][i].op = "named" /\ files[m][i].name = n

\* Where name n is declared, and what its declaration says.  Definitions that
\* the parser does not resolve whatever the order are not clear: names that
\* are declared twice or by the label of a number, plain aliases, and what a
\* plain alias stands for.
Declarations(n) == UNION {{<<m, e>> : e \in Named(m, n)} : m \in DOMAIN files}
Alias(n)   == \E x \in Declarations(n) : x[2] = StartOf(x[1], x[2]) + 1
Aliased(n) == \E m \in DOMAIN files : \E e \in Ends(m) :
                /\ StartOf(m, e) = e - 1
                /\ files[m][e - 1].name = n
Definition(n) ==
  LET at   == CHOOSE x \in Declarations(n) : TRUE
      s    == StartOf(at[1], at[2])
      subs == [i \in 1 .. at[2] - s - 1 |-> files[at[1]][s + i].sub]
  IN  [label |-> files[at[1]][s].name, subs |-> subs]
Clear(n) == /\ Cardinality(Declarations(n)) = 1 /\ ~Implicit(n)
            /\ ~Alias(n) /\ ~Aliased(n)

\* What the definitions, read as a set, lead to from name n: the label in
\* which the chain ends or still is after as many steps as there are names,
\* and the numbers that follow it.
Meaning(n) ==
  LET f[i \in 0 .. Cardinality(Name)] ==
        IF i = 0 THEN [label |-> n, subs |-> <<>>]
        ELSE LET w == f[i - 1]
             IN  IF w.label = ISO \/ ~Clear(w.label) THEN w
                 ELSE [label |-> Definition(w.label).label,
                       subs  |-> Definition(w.label).subs \o w.subs]
  IN  f[Cardinality(Name)]
Resolved(n) == Meaning(n).label = ISO
Loops(n)    == ~Resolved(n) /\ Clear(Meaning(n).label)
Hangs(n)    == Declarations(Meaning(n).label) = {}
               /\ ~Implicit(Meaning(n).label) /\ ~Aliased(Meaning(n).label)

\* The named objects of the modules that are finished.
Finished == {o \in LiveObjects :
               /\ heap.obj[o].mod \in 1 .. unit - 1
               /\ heap.obj[o].name # NULL
               /\ Named(heap.obj[o].mod, heap.obj[o].name) # {}}

\* Nothing is lost or shared when trees are merged: each object is in the list
\* of exactly one node that is still allocated, the one it points to.  Only
\* the object of a plain alias of a later name is in none.
ObjectsPlaced ==
  Intact => \A o \in LiveObjects :
    LET at    == {n \in LiveNodes : o \in InSeq(heap.node[n].objs)}
        times == {i \in DOMAIN heap.node[heap.obj[o].node].objs :
                    heap.node[heap.obj[o].node].objs[i] = o}
    IN  \/ at = {heap.obj[o].node} /\ Cardinality(times) = 1
        \/ /\ at = {}
           /\ Alias(heap.obj[o].name)

\* The tree is one after every step: well-typed, sorted, and complete.
TreeSound == TypeOK /\ SortedTree /\ ObjectsPlaced

\* Whatever the order of the declarations, forward references included, each
\* declared name of a finished module has the OID that its definition means.
OidsAsDefined ==
  Intact => \A o \in Finished :
    Resolved(heap.obj[o].name)
      => heap.obj[o].oid = <<1>> \o Meaning(heap.obj[o].name).subs

\* A search from the root along the OID of an object that is resolved, as in
\* findNodeByOid(), arrives at the node of that object.
FoundByOid ==
  Intact => \A o \in Finished :
    Resolved(heap.obj[o].name) =>
      LET oid == heap.obj[o].oid
          at[i \in 0 .. Len(oid)] ==
            IF i = 0 THEN Root
            ELSE IF at[i - 1] = NIL THEN NIL
            ELSE FindNode(heap, at[i - 1], oid[i])
      IN  at[Len(oid)] = heap.obj[o].node

\* ERR_OID_RECURSIVE is reported for the objects, or others on their nodes,
\* whose definitions depend on themselves, and for none whose definitions lead
\* to the root or to an undefined name.
RecursionReported ==
  Intact => \A o \in Finished :
    LET n        == heap.obj[o].name
        reported == \E q \in LiveObjects :
                      /\ heap.obj[q].recursive
                      /\ heap.obj[q].node = heap.obj[o].node
    IN  /\ Loops(n) => reported
        /\ Clear(n) /\ (Resolved(n) \/ Hangs(n)) => ~reported

\* Names, OIDs and nodes agree, in both directions, and definitions that lead to
\* no OID because they depend on themselves are reported, and no others.
OidsRight == OidsAsDefined /\ FoundByOid /\ RecursionReported

\* Where an object hangs in the main tree is final: merging other trees never
\* moves it.
RootedStay ==
  [][\A o \in LiveObjects :
       LET way    == Climb(heap, heap.obj[o].node, MAX_OID + 1)
           rooted == heap.node[way[Len(way)]].parent = Root
       IN  rooted /\ o \in LiveObjects' /\ heap'.fault = "none"
             => Path(heap', heap'.obj[o].node).oid
                  = Path(heap, heap.obj[o].node).oid]_vars

\* The comment on mergeNodeTrees(): "Merge the subtree rooted at `from' into
\* the `to' tree recursively and release the `from' tree": it ends.
MergeReturns == heap.fault # "selfmerge"
=============================================================================
