---------------------------- MODULE SessionProofs ----------------------------
(***************************************************************************)
(* Proofs about Session, for any data sets, modules, texts, configuration  *)
(* files and calls.  All that the library keeps is summed up in SInv, an   *)
(* inductive invariant; the order in which handles are linked is that in   *)
(* which they were allocated, so that what findHandleByName() finds can be *)
(* said without following links.                                           *)
(***************************************************************************)
EXTENDS Session, TLAPS, WellFoundedInduction

(***************************************************************************)
(* The invariant                                                           *)
(***************************************************************************)

DataSet == [h : Seq(Handle), list : [first : Nat, last : Nat], cur : Nat,
            depth : Int]

Live(h, x) == x \in DOMAIN h /\ h[x].freed = FALSE

\* A link or an end of the list leads to a handle in use, and none in use is
\* left out.
Forward(h, x, n) ==
  /\ n # NIL => Live(h, n) /\ x < n
  /\ \A y \in DOMAIN h : x < y /\ (n # NIL => y < n) => ~Live(h, y)
Backward(h, x, n) ==
  /\ n # NIL => Live(h, n) /\ n < x
  /\ \A y \in DOMAIN h : y < x /\ n < y => ~Live(h, y)

Linked(h, l) ==
  /\ Forward(h, 0, l.first)
  /\ Backward(h, Len(h) + 1, l.last)
  /\ \A x \in DOMAIN h : Live(h, x) => /\ Forward(h, x, h[x].next)
                                       /\ Backward(h, x, h[x].prev)

\* No two data sets in use have the same tag.
OneTag(h) == \A x, y \in DOMAIN h :
  Live(h, x) /\ Live(h, y) /\ h[x].name = h[y].name /\ h[x].name # NULL => x = y

DataOK(d) == /\ d \in DataSet
             /\ Linked(d.h, d.list)
             /\ OneTag(d.h)
             /\ d.cur # NIL => Live(d.h, d.cur)

\* A module that a parser reads, or that has raised an error, is in the data
\* set that it is read into, and that is in use.
Loaded(h, x, m) == Live(h, x) /\ h[x].conformance[m] # NULL

Frame == [kind : {"parser"}, mod : Module, at : Nat, flags : SUBSET Flag,
          rest : Seq(Statement)]
         \cup [kind : {"config"}, app : Program, rest : Seq(Command)]
         \cup [kind : {"handler"}]

FramesOK(d, stk) ==
  /\ stk \in Seq(Frame)
  /\ stk # <<>> => d.cur # NIL
  /\ \A i \in DOMAIN stk :
       stk[i].kind = "parser" => Loaded(d.h, stk[i].at, stk[i].mod)

Report == [at : Nat, mod : Module, severity : Nat, flags : SUBSET Flag,
           level : Nat, imported : BOOLEAN, heard : BOOLEAN, told : BOOLEAN]

RaisedOK(d, R) == /\ R \subseteq Report
                  /\ \A r \in R : Loaded(d.h, r.at, r.mod)

\* As long as no handler opens a data set, parsers run above at most one
\* configuration file and below at most one handler, and smiDepth counts them.
One(b) == IF b THEN 1 ELSE 0
Shape(stk) == \A i \in DOMAIN stk :
  /\ stk[i].kind = "config"  => i = 1
  /\ stk[i].kind = "handler" => i = Len(stk)
Depth(stk) ==
  IF stk = <<>> THEN 0
  ELSE Len(stk) - One(stk[1].kind = "config")
                - One(stk[Len(stk)].kind = "handler")
DepthOK(d, stk, n) == n = FALSE => Shape(stk) /\ d.depth = Depth(stk)

AsAsked(r) == r.told <=> /\ r.heard
                         /\ r.severity <= r.level
                         /\ "ERRORS" \in r.flags
                         /\ r.imported => "RECURSIVE" \in r.flags
AskedOK(R, n) == n = FALSE => \A r \in R : AsAsked(r)

\* What ConformanceSmallest says, without a minimum.
Own(R, x, m) == {r \in R : r.at = x /\ r.mod = m}
SmallestOK(d, R) == \A x \in DOMAIN d.h, m \in Module :
  /\ Loaded(d.h, x, m)
  /\ \A r \in Own(R, x, m) : r.heard /\ r.severity # 0
  => /\ Own(R, x, m) = {} => d.h[x].conformance[m] = 0
     /\ Own(R, x, m) # {} =>
          \E r \in Own(R, x, m) : d.h[x].conformance[m] = r.severity
     /\ \A r \in Own(R, x, m) : d.h[x].conformance[m] <= r.severity

ProcessOK == /\ errors \in [Error -> Severity]
             /\ status \in {"running", "crashed", "exited"}
             /\ calls \in 0 .. MaxCalls
             /\ nested \in BOOLEAN

Sound(d, stk, R, n) == /\ DataOK(d)
                       /\ FramesOK(d, stk)
                       /\ RaisedOK(d, R)
                       /\ DepthOK(d, stk, n)
                       /\ AskedOK(R, n)
                       /\ SmallestOK(d, R)

SInv == ProcessOK /\ Sound(Data, stack, raised, nested)
-----------------------------------------------------------------------------
(* findHandleByName()                                                      *)

LEMMA LessThan == ASSUME NEW m \in Nat, NEW n \in Nat, m < n
                  PROVE  <<m, n>> \in OpToRel(<, Nat)
BY SMT DEF OpToRel

\* Any set of natural numbers has a least element.
LEMMA LeastNat ==
  ASSUME NEW S \in SUBSET Nat, S # {}
  PROVE  \E n \in S : \A m \in S : n <= m
<1>1. PICK n \in S : \A m \in S : ~(<<m, n>> \in OpToRel(<, Nat))
  BY WFMin, NatLessThanWellFounded
<1>2. ASSUME NEW m \in S PROVE ~(m < n)
  BY <1>1, LessThan
<1>3. QED BY <1>2

LEMMA MinFacts ==
  ASSUME NEW S \in SUBSET Nat, S # {}
  PROVE  /\ Min(S) \in S
         /\ \A m \in S : Min(S) <= m
BY LeastNat DEF Min

\* The links of a list, followed from its first handle.
Follows(h, first, f) ==
  f = [k \in DOMAIN h |-> IF k = 1 THEN first
                          ELSE IF f[k - 1] = NIL THEN NIL ELSE h[f[k - 1]].next]

\* The links can be followed.
LEMMA OrderExists ==
  ASSUME NEW h \in Seq(Handle), NEW first \in Nat
  PROVE  \E f : Follows(h, first, f)
<1> DEFINE Upto(n, f) ==
      f = [k \in 1 .. n |-> IF k = 1 THEN first
                            ELSE IF f[k - 1] = NIL THEN NIL
                            ELSE h[f[k - 1]].next]
           T == {n \in Nat : ~ \E f : Upto(n, f)}
<1>1. ASSUME T # {} PROVE FALSE
  <2>1. PICK n \in T : \A m \in T : n <= m
    BY <1>1, LeastNat, T \subseteq Nat
  <2>2. n # 0
    <3>0. 1 .. 0 = {}
      OBVIOUS
    <3>1. Upto(0, [k \in 1 .. 0 |-> NIL])
      BY <3>0, Zenon
    <3>2. QED BY <3>1, <2>1
  <2>3. n - 1 \in Nat /\ n - 1 \notin T
    <3>1. n \in Nat
      OBVIOUS
    <3> HIDE DEF T
    <3>2. QED BY <2>1, <2>2, <3>1
  <2>4. PICK f : Upto(n - 1, f)
    BY <2>3
  <2> DEFINE last == IF n = 1 THEN first
                     ELSE IF f[n - 1] = NIL THEN NIL ELSE h[f[n - 1]].next
             g == [k \in 1 .. n |-> IF k = n THEN last ELSE f[k]]
  <2>5. ASSUME NEW k \in 1 .. n
        PROVE  g[k] = IF k = 1 THEN first
                      ELSE IF g[k - 1] = NIL THEN NIL ELSE h[g[k - 1]].next
    <3>1. CASE k = n
      <4>1. CASE n = 1
        BY <3>1, <4>1
      <4>2. CASE n # 1
        <5>1. n - 1 \in 1 .. n /\ n - 1 # n
          BY <4>2, <2>2, <2>1
        <5>2. g[n - 1] = f[n - 1]
          BY <5>1
        <5>3. g[n] = last
          BY <2>1, <2>2
        <5>4. QED BY <5>2, <5>3, <3>1, <4>2
      <4>3. QED BY <4>1, <4>2
    <3>2. CASE k # n
      <4>1. k \in 1 .. n - 1
        BY <3>2, <2>1
      <4>2. g[k] = f[k]
        BY <3>2
      <4>3. f[k] = IF k = 1 THEN first
                   ELSE IF f[k - 1] = NIL THEN NIL ELSE h[f[k - 1]].next
        BY <4>1, <2>4
      <4>4. k # 1 => g[k - 1] = f[k - 1]
        BY <4>1, <2>1
      <4>5. QED BY <4>2, <4>3, <4>4
    <3>3. QED BY <3>1, <3>2
  <2>6. Upto(n, g)
    BY <2>5
  <2>7. QED BY <2>6, <2>1
<1>2. Len(h) \in Nat /\ DOMAIN h = 1 .. Len(h)
  OBVIOUS
<1>3. PICK f : Upto(Len(h), f)
  BY <1>1, <1>2
<1>4. QED BY <1>2, <1>3 DEF Follows

\* What findHandleByName() does, of any list of handles.
OrderOf(h, first) == CHOOSE f : Follows(h, first, f)
NamedIn(h, x, t)  == x # NIL /\ h[x].name = t
FindIn(h, l, t)   ==
  LET hits == {k \in DOMAIN h : NamedIn(h, OrderOf(h, l.first)[k], t)}
  IN  IF hits = {} THEN NIL ELSE OrderOf(h, l.first)[Min(hits)]

LEMMA FindDef == \A t : FindHandle(t) = FindIn(handle, list, t)
<1>1. Order = OrderOf(handle, list.first)
  BY DEF Order, OrderOf, Follows, NextPtr
<1>2. QED BY <1>1 DEF FindHandle, FindIn, Named, NamedIn

LEMMA FindDefNext == \A t : FindHandle(t)' = FindIn(handle', list', t)
<1>1. Order' = OrderOf(handle', list'.first)
  BY DEF Order, OrderOf, Follows, NextPtr
<1>2. QED BY <1>1 DEF FindHandle, FindIn, Named, NamedIn

\* The order of the links visits the handles in use, and no others, and the
\* kth one that it visits is at least the kth one.
LEMMA OrderFacts ==
  ASSUME NEW h \in Seq(Handle), NEW l \in [first : Nat, last : Nat],
         Linked(h, l)
  PROVE  LET f == OrderOf(h, l.first) IN
         /\ \A k \in DOMAIN h : f[k] # NIL => Live(h, f[k]) /\ k <= f[k]
         /\ \A x \in DOMAIN h : Live(h, x) => \E k \in DOMAIN h : f[k] = x
<1> DEFINE f == OrderOf(h, l.first)
<1>1. Follows(h, l.first, f)
  BY OrderExists DEF OrderOf
<1> HIDE DEF f
<1>2. DOMAIN h = 1 .. Len(h) /\ Len(h) \in Nat
  OBVIOUS
<1>L. \A x \in DOMAIN h : h[x].next \in Nat /\ h[x].prev \in Nat
  <2>1. \A x \in DOMAIN h : h[x] \in Handle
    OBVIOUS
  <2>2. QED BY <2>1 DEF Handle
<1>W. \A x \in DOMAIN h : Live(h, x) => /\ Forward(h, x, h[x].next)
                                       /\ Backward(h, x, h[x].prev)
  BY DEF Linked
<1>3. \A k \in DOMAIN h :
        f[k] = IF k = 1 THEN l.first
               ELSE IF f[k - 1] = NIL THEN NIL ELSE h[f[k - 1]].next
  BY <1>1 DEF Follows
<1> DEFINE Fine(k) == f[k] # NIL => Live(h, f[k]) /\ k <= f[k]
           Bad == {k \in DOMAIN h : ~Fine(k)}
<1>4. ASSUME Bad # {} PROVE FALSE
  <2>1. Bad \subseteq Nat
    BY <1>2
  <2>2. PICK k \in Bad : \A j \in Bad : k <= j
    BY <1>4, <2>1, LeastNat
  <2>3. k \in DOMAIN h /\ ~Fine(k) /\ k \in Nat /\ k >= 1
    BY <1>2
  <2>4. CASE k = 1
    <3>1. f[k] = l.first
      BY <2>3, <2>4, <1>3
    <3>2. QED BY <3>1, <2>3, <2>4 DEF Linked, Forward, Live
  <2>5. CASE k # 1
    <3>1. k - 1 \in DOMAIN h /\ k - 1 < k
      BY <2>3, <2>5, <1>2
    <3>2. Fine(k - 1)
      <4> HIDE DEF Fine
      <4>1. QED BY <3>1, <2>2, <1>2
    <3>3. f[k - 1] # NIL /\ f[k] = h[f[k - 1]].next /\ f[k] # NIL
      BY <2>3, <2>5, <1>3
    <3>4. Live(h, f[k - 1]) /\ k - 1 <= f[k - 1]
      BY <3>2, <3>3
    <3>5. Forward(h, f[k - 1], f[k])
      BY <3>3, <3>4 DEF Linked, Live
    <3>6. Live(h, f[k]) /\ f[k - 1] < f[k]
      BY <3>3, <3>5 DEF Forward
    <3>7. QED BY <3>4, <3>6, <2>3, <1>2 DEF Live
  <2>6. QED BY <2>4, <2>5
<1>5. \A k \in DOMAIN h : f[k] # NIL => Live(h, f[k]) /\ k <= f[k]
  BY <1>4
<1> DEFINE Visited(x) == \E k \in DOMAIN h : f[k] = x
           Missed == {x \in DOMAIN h : Live(h, x) /\ ~Visited(x)}
<1>6. ASSUME Missed # {} PROVE FALSE
  <2>1. Missed \subseteq Nat
    BY <1>2
  <2>2. PICK x \in Missed : \A y \in Missed : x <= y
    BY <1>6, <2>1, LeastNat
  <2>3. x \in DOMAIN h /\ Live(h, x) /\ ~Visited(x) /\ x \in Nat
    BY <1>2
  <2>4. Backward(h, x, h[x].prev) /\ h[x].prev \in Nat
    BY <2>3, <1>L, <1>W
  <2>5. CASE h[x].prev = NIL
    <3>1. \A y \in DOMAIN h : y < x => ~Live(h, y)
      BY <2>4, <2>5, <1>2 DEF Backward, NIL
    <3>2. l.first = x
      <4>1. Forward(h, 0, l.first) /\ l.first \in Nat
        BY DEF Linked
      <4>2. l.first # NIL
        BY <4>1, <2>3, <1>2 DEF Forward
      <4>3. Live(h, l.first) /\ l.first \in DOMAIN h
        BY <4>1, <4>2 DEF Forward, Live
      <4>4. ~(l.first < x)
        BY <4>3, <3>1
      <4>5. ~(x < l.first)
        BY <4>1, <4>2, <2>3, <1>2 DEF Forward
      <4>6. QED BY <4>1, <4>4, <4>5, <2>3
    <3>3. 1 \in DOMAIN h /\ f[1] = l.first
      BY <1>2, <1>3, <2>3
    <3>4. QED BY <3>2, <3>3, <2>3
  <2>6. CASE h[x].prev # NIL
    <3> DEFINE y == h[x].prev
    <3>1. Live(h, y) /\ y < x /\ y \in DOMAIN h
      BY <2>4, <2>6 DEF Backward, Live
    <3>2. Visited(y)
      <4> HIDE DEF Visited, y
      <4>1. y \notin Missed
        BY <2>2, <2>3, <3>1, <1>2
      <4>2. QED BY <4>1, <3>1
    <3>3. PICK j \in DOMAIN h : f[j] = y
      BY <3>2
    <3>4. j <= y
      BY <1>5, <3>3, <2>6
    <3>5. j + 1 \in DOMAIN h
      BY <1>2, <3>1, <3>4, <2>3
    <3>6. f[j + 1] = h[y].next
      <4>1. j + 1 # 1 /\ (j + 1) - 1 = j
        BY <1>2
      <4>2. QED BY <4>1, <3>3, <3>5, <1>3, <2>6
    <3>7. Forward(h, y, h[y].next) /\ h[y].next \in Nat
      BY <3>1, <1>L, <1>W
    <3>8. h[y].next # NIL
      BY <3>7, <3>1, <2>3 DEF Forward
    <3>9. Live(h, h[y].next) /\ y < h[y].next /\ h[y].next \in DOMAIN h
      BY <3>7, <3>8 DEF Forward, Live
    <3>10. ~(x < h[y].next)
      BY <3>7, <3>8, <3>1, <2>3 DEF Forward
    <3>11. ~(h[y].next < x)
      BY <2>4, <3>9 DEF Backward
    <3>12. h[y].next = x
      BY <3>7, <3>10, <3>11, <2>3
    <3>13. QED BY <3>5, <3>6, <3>12, <2>3
  <2>7. QED BY <2>5, <2>6
<1>7. QED BY <1>5, <1>6 DEF f

\* findHandleByName() finds the handle in use that has the name, if there is
\* one.
LEMMA FindFacts ==
  ASSUME NEW h \in Seq(Handle), NEW l \in [first : Nat, last : Nat],
         Linked(h, l), NEW t
  PROVE  /\ FindIn(h, l, t) = NIL =>
              \A x \in DOMAIN h : Live(h, x) => h[x].name # t
         /\ FindIn(h, l, t) # NIL =>
              Live(h, FindIn(h, l, t)) /\ h[FindIn(h, l, t)].name = t
<1> DEFINE f    == OrderOf(h, l.first)
           hits == {k \in DOMAIN h : NamedIn(h, f[k], t)}
<1>1. /\ \A k \in DOMAIN h : f[k] # NIL => Live(h, f[k])
      /\ \A x \in DOMAIN h : Live(h, x) => \E k \in DOMAIN h : f[k] = x
  BY OrderFacts
<1>2. FindIn(h, l, t) = IF hits = {} THEN NIL ELSE f[Min(hits)]
  BY DEF FindIn
<1> HIDE DEF f
<1>3. CASE hits = {}
  <2>1. ASSUME NEW x \in DOMAIN h, Live(h, x), h[x].name = t PROVE FALSE
    <3>1. x # NIL
      BY DEF NIL
    <3>2. PICK k \in DOMAIN h : f[k] = x
      BY <1>1, <2>1
    <3>3. QED BY <3>1, <3>2, <2>1, <1>3 DEF NamedIn
  <2>2. QED BY <2>1, <1>2, <1>3
<1>4. CASE hits # {}
  <2>1. hits \subseteq Nat
    OBVIOUS
  <2> HIDE DEF hits
  <2>2. Min(hits) \in hits
    BY <1>4, <2>1, MinFacts
  <2> USE DEF hits
  <2>3. Min(hits) \in DOMAIN h /\ NamedIn(h, f[Min(hits)], t)
    BY <2>2
  <2>4. QED BY <2>3, <1>1, <1>2, <1>4 DEF NamedIn
<1>5. QED BY <1>3, <1>4

-----------------------------------------------------------------------------
(* What happens to the data                                                *)

LEMMA HandleFields ==
  ASSUME NEW h \in Seq(Handle), NEW x \in DOMAIN h
  PROVE  /\ h[x] \in Handle
         /\ h[x].next \in Nat /\ h[x].prev \in Nat
         /\ h[x].freed \in BOOLEAN
         /\ h[x].name \in Tag \cup {NULL}
         /\ h[x].level \in Nat /\ h[x].flags \in SUBSET Flag
         /\ h[x].handler \in Handler /\ h[x].path \in Seq(Dir)
         /\ h[x].conformance \in [Module -> Nat \cup {NULL}]
<1>1. h[x] \in Handle
  OBVIOUS
<1>2. QED BY <1>1 DEF Handle

LEMMA HandleUpdates ==
  ASSUME NEW g \in Handle
  PROVE  /\ \A n \in Nat : [g EXCEPT !.next = n] \in Handle
         /\ \A n \in Nat : [g EXCEPT !.prev = n] \in Handle
         /\ \A b \in BOOLEAN : [g EXCEPT !.freed = b] \in Handle
         /\ \A l \in Nat : [g EXCEPT !.level = l] \in Handle
         /\ \A s \in SUBSET Flag : [g EXCEPT !.flags = s] \in Handle
         /\ \A f \in Handler : [g EXCEPT !.handler = f] \in Handle
         /\ \A p \in Seq(Dir) : [g EXCEPT !.path = p] \in Handle
         /\ \A c \in [Module -> Nat \cup {NULL}] :
              [g EXCEPT !.conformance = c] \in Handle
BY DEF Handle

LEMMA DataFields ==
  ASSUME NEW d \in DataSet
  PROVE  /\ d.h \in Seq(Handle) /\ d.list \in [first : Nat, last : Nat]
         /\ d.list.first \in Nat /\ d.list.last \in Nat
         /\ d.cur \in Nat /\ d.depth \in Int
         /\ Len(d.h) \in Nat /\ DOMAIN d.h = 1 .. Len(d.h)
BY DEF DataSet

\* A step that leaves names and links alone.
SameLinks(d, e)  == /\ DOMAIN e.h = DOMAIN d.h
                    /\ e.list = d.list
                    /\ \A x \in DOMAIN d.h :
                         /\ e.h[x].name = d.h[x].name
                         /\ e.h[x].freed = d.h[x].freed
                         /\ e.h[x].next = d.h[x].next
                         /\ e.h[x].prev = d.h[x].prev

LEMMA LinksStay ==
  ASSUME NEW d, DataOK(d), NEW e \in DataSet, SameLinks(d, e),
         e.cur # NIL => Live(e.h, e.cur)
  PROVE  /\ DataOK(e)
         /\ \A x : Live(e.h, x) <=> Live(d.h, x)
<1>1. \A x : Live(e.h, x) <=> Live(d.h, x)
  BY DEF SameLinks, Live
<1>2. Len(e.h) = Len(d.h)
  BY DataFields DEF SameLinks, DataOK
<1>3. \A x, n : Forward(d.h, x, n) => Forward(e.h, x, n)
  BY <1>1 DEF Forward, SameLinks
<1>4. \A x, n : Backward(d.h, x, n) => Backward(e.h, x, n)
  BY <1>1 DEF Backward, SameLinks
<1>5. Linked(d.h, d.list)
  BY DEF DataOK
<1>6. Forward(e.h, 0, e.list.first) /\ Backward(e.h, Len(e.h) + 1, e.list.last)
  BY <1>2, <1>3, <1>4, <1>5 DEF Linked, SameLinks
<1>7. ASSUME NEW x \in DOMAIN e.h, Live(e.h, x)
      PROVE  Forward(e.h, x, e.h[x].next) /\ Backward(e.h, x, e.h[x].prev)
  <2>1. x \in DOMAIN d.h /\ Live(d.h, x)
    BY <1>1, <1>7 DEF SameLinks
  <2>2. Forward(d.h, x, d.h[x].next) /\ Backward(d.h, x, d.h[x].prev)
    BY <2>1, <1>5 DEF Linked
  <2>3. e.h[x].next = d.h[x].next /\ e.h[x].prev = d.h[x].prev
    BY <2>1 DEF SameLinks
  <2>4. QED BY <2>2, <2>3, <1>3, <1>4
<1>8. Linked(e.h, e.list)
  BY <1>6, <1>7 DEF Linked
<1>9. OneTag(e.h)
  BY <1>1 DEF DataOK, OneTag, SameLinks
<1>10. QED BY <1>1, <1>8, <1>9 DEF DataOK

\* addHandle() appends to the list, and leaves everything of the other
\* handles but a link alone.
LEMMA NewHandleType ==
  ASSUME NEW name \in Tag \cup {NULL}, NEW last \in Nat
  PROVE  NewHandle(name, last) \in Handle
<1>1. Builtin \in Seq(Dir)
  BY TextAssumption DEF Builtin
<1>2. [m \in Module |-> NULL] \in [Module -> Nat \cup {NULL}]
  OBVIOUS
<1>3. QED BY <1>1, <1>2 DEF NewHandle, Handle, Handler, NIL, DEFAULT_ERRORLEVEL

LEMMA AddFields ==
  ASSUME NEW d, DataOK(d), NEW name \in Tag \cup {NULL}
  PROVE  LET e == AddHandle(d, name)
             new == Len(d.h) + 1
         IN  /\ e \in DataSet
             /\ e.list = [first |-> IF d.list.first = NIL THEN new
                                    ELSE d.list.first, last |-> new]
             /\ e.cur = new /\ e.depth = 0
             /\ Len(e.h) = new /\ DOMAIN e.h = 1 .. new
             /\ new \in Nat /\ new # NIL /\ new \notin DOMAIN d.h
             /\ e.h[new] = NewHandle(name, d.list.last)
             /\ \A x \in DOMAIN d.h :
                  e.h[x] = IF x = d.list.last THEN [d.h[x] EXCEPT !.next = new]
                           ELSE d.h[x]
<1> DEFINE e == AddHandle(d, name)
           new == Len(d.h) + 1
           added == Append(d.h, NewHandle(name, d.list.last))
           last == d.list.last
<1>1. d \in DataSet /\ Linked(d.h, d.list)
  BY DEF DataOK
<1>2. /\ d.h \in Seq(Handle) /\ d.list \in [first : Nat, last : Nat]
      /\ d.list.first \in Nat /\ last \in Nat
      /\ Len(d.h) \in Nat /\ DOMAIN d.h = 1 .. Len(d.h)
  BY <1>1, DataFields
<1>3. NewHandle(name, last) \in Handle
  BY <1>2, NewHandleType
<1>4. last # NIL => last \in DOMAIN d.h
  BY <1>1 DEF Linked, Backward, Live
<1>5. /\ added \in Seq(Handle) /\ Len(added) = new /\ DOMAIN added = 1 .. new
      /\ added[new] = NewHandle(name, last)
      /\ \A x \in DOMAIN d.h : added[x] = d.h[x]
  BY <1>2, <1>3
<1>6. e = [h |-> IF last = NIL THEN added ELSE [added EXCEPT ![last].next = new],
           list |-> [first |-> IF d.list.first = NIL THEN new ELSE d.list.first,
                     last |-> new],
           cur |-> new, depth |-> 0]
  BY DEF AddHandle
<1> HIDE DEF added
<1> DEFINE Appended ==
      /\ e.h \in Seq(Handle) /\ Len(e.h) = new /\ DOMAIN e.h = 1 .. new
      /\ e.h[new] = NewHandle(name, last)
      /\ \A x \in DOMAIN d.h :
           e.h[x] = IF x = last THEN [d.h[x] EXCEPT !.next = new] ELSE d.h[x]
<1> HIDE DEF Appended
<1>7. ASSUME last = NIL PROVE Appended
  <2>1. e.h = added
    BY <1>6, <1>7
  <2>2. \A x \in DOMAIN d.h : x # last
    BY <1>7, <1>2 DEF NIL
  <2>3. QED BY <1>5, <2>1, <2>2 DEF Appended
<1>8. ASSUME last # NIL PROVE Appended
  <2> DEFINE g == [added[last] EXCEPT !.next = new]
  <2>1. last \in DOMAIN d.h /\ last \in DOMAIN added /\ last # new
    BY <1>4, <1>5, <1>8, <1>2
  <2>2. added[last] \in Handle
    BY <2>1, <1>5
  <2>3. g \in Handle
    <3>1. new \in Nat
      BY <1>2
    <3> HIDE DEF new
    <3>2. QED BY <2>2, <3>1, HandleUpdates, Zenon
  <2>4. e.h = [added EXCEPT ![last] = g]
    BY <1>6, <1>8
  <2> HIDE DEF g
  <2>5. /\ e.h \in Seq(Handle) /\ Len(e.h) = new /\ DOMAIN e.h = 1 .. new
        /\ e.h[new] = added[new] /\ e.h[last] = g
        /\ \A x \in DOMAIN d.h : x # last => e.h[x] = d.h[x]
    BY <2>1, <2>3, <2>4, <1>5, <1>2
  <2>6. g = [d.h[last] EXCEPT !.next = new]
    BY <2>1, <1>5 DEF g
  <2>7. QED BY <1>5, <2>5, <2>6 DEF Appended
<1>9. Appended
  BY <1>7, <1>8
<1>10. /\ e.list = [first |-> IF d.list.first = NIL THEN new ELSE d.list.first,
                    last |-> new]
       /\ e.cur = new /\ e.depth = 0
       /\ e = [h |-> e.h, list |-> e.list, cur |-> e.cur, depth |-> e.depth]
  BY <1>6
<1>11. new \in Nat /\ new # NIL /\ new \notin DOMAIN d.h
  BY <1>2 DEF NIL
<1>12. e.list \in [first : Nat, last : Nat]
  BY <1>10, <1>11, <1>2
<1> HIDE DEF e, new
<1>13. e \in DataSet
  BY <1>9, <1>10, <1>11, <1>12 DEF DataSet, Appended
<1>14. QED BY <1>9, <1>10, <1>11, <1>13 DEF Appended, e, new

\* What is the same of a handle but for links.
Alike(g, h) == /\ g.name = h.name /\ g.freed = h.freed
               /\ g.level = h.level /\ g.flags = h.flags
               /\ g.handler = h.handler /\ g.path = h.path
               /\ g.conformance = h.conformance

LEMMA AddLinked ==
  ASSUME NEW d, DataOK(d), NEW name \in Tag \cup {NULL}
  PROVE  LET e == AddHandle(d, name)
             new == Len(d.h) + 1
         IN  /\ Linked(e.h, e.list)
             /\ \A x : Live(e.h, x) <=> Live(d.h, x) \/ x = new
             /\ \A x \in DOMAIN d.h : Alike(e.h[x], d.h[x])
<1> DEFINE e == AddHandle(d, name)
           new == Len(d.h) + 1
           last == d.list.last
<1>1. d \in DataSet /\ Linked(d.h, d.list)
  BY DEF DataOK
<1>2. /\ d.h \in Seq(Handle) /\ last \in Nat /\ d.list.first \in Nat
      /\ Len(d.h) \in Nat /\ DOMAIN d.h = 1 .. Len(d.h)
  BY <1>1, DataFields
<1>3. /\ e.list.first = IF d.list.first = NIL THEN new ELSE d.list.first
      /\ e.list.last = new
      /\ Len(e.h) = new /\ DOMAIN e.h = 1 .. new
      /\ e.h[new] = NewHandle(name, last)
      /\ \A x \in DOMAIN d.h :
           e.h[x] = IF x = last THEN [d.h[x] EXCEPT !.next = new] ELSE d.h[x]
  <2>1. /\ e.list = [first |-> IF d.list.first = NIL THEN new
                               ELSE d.list.first, last |-> new]
        /\ Len(e.h) = new /\ DOMAIN e.h = 1 .. new
        /\ e.h[new] = NewHandle(name, last)
        /\ \A x \in DOMAIN d.h :
             e.h[x] = IF x = last THEN [d.h[x] EXCEPT !.next = new] ELSE d.h[x]
    BY AddFields, Zenon
  <2> HIDE DEF e, new, last
  <2>2. QED BY <2>1
<1> HIDE DEF e
<1>4. ASSUME NEW x \in DOMAIN d.h
      PROVE  /\ Alike(e.h[x], d.h[x])
             /\ e.h[x].prev = d.h[x].prev
             /\ e.h[x].next = IF x = last THEN new ELSE d.h[x].next
  <2>1. d.h[x] \in Handle /\ e.h[x] = IF x = last THEN [d.h[x] EXCEPT !.next = new]
                                     ELSE d.h[x]
    BY <1>2, <1>3
  <2>2. DOMAIN d.h[x] = {"name", "prev", "next", "freed", "level", "flags",
                         "handler", "path", "conformance"}
    BY <2>1 DEF Handle
  <2>3. QED BY <2>1, <2>2 DEF Alike
<1>5. e.h[new].freed = FALSE /\ e.h[new].next = NIL /\ e.h[new].prev = last
  BY <1>3 DEF NewHandle
<1>6. DOMAIN e.h = DOMAIN d.h \cup {new} /\ new \notin DOMAIN d.h /\ new \in Nat
  BY <1>2, <1>3
<1>7. \A x : Live(e.h, x) <=> Live(d.h, x) \/ x = new
  BY <1>4, <1>5, <1>6 DEF Live, Alike
<1>8. Forward(e.h, 0, e.list.first)
  <2>1. Forward(d.h, 0, d.list.first)
    BY <1>1 DEF Linked
  <2>2. CASE d.list.first = NIL
    BY <2>1, <2>2, <1>2, <1>3, <1>6, <1>7 DEF Forward, NIL
  <2>3. CASE d.list.first # NIL
    <3>1. d.list.first \in DOMAIN d.h
      BY <2>1, <2>3 DEF Forward, Live
    <3>2. QED BY <2>1, <2>3, <3>1, <1>2, <1>3, <1>6, <1>7 DEF Forward, NIL
  <2>4. QED BY <2>2, <2>3
<1>9. Backward(e.h, Len(e.h) + 1, e.list.last)
  BY <1>2, <1>3, <1>6, <1>7 DEF Backward
<1>10. Backward(d.h, Len(d.h) + 1, last)
  BY <1>1 DEF Linked
<1>11. \A x \in DOMAIN d.h : Live(d.h, x) => x <= last
  BY <1>10, <1>2 DEF Backward
<1>12. last # NIL => Live(d.h, last)
  BY <1>10 DEF Backward
<1>13. ASSUME NEW x \in DOMAIN d.h, Live(d.h, x)
       PROVE  /\ Forward(e.h, x, e.h[x].next)
              /\ Backward(e.h, x, e.h[x].prev)
  <2>1. /\ Forward(d.h, x, d.h[x].next) /\ Backward(d.h, x, d.h[x].prev)
        /\ d.h[x].next \in Nat /\ d.h[x].prev \in Nat
    BY <1>1, <1>2, <1>13, HandleFields DEF Linked
  <2>2. Backward(e.h, x, e.h[x].prev)
    BY <2>1, <1>2, <1>4, <1>6, <1>7 DEF Backward
  <2>3. CASE x = last
    <3>1. e.h[x].next = new
      BY <2>3, <1>4
    <3>2. Forward(e.h, x, e.h[x].next)
      BY <2>3, <3>1, <1>2, <1>6, <1>7, <1>11 DEF Forward, NIL
    <3>3. QED BY <3>2, <2>2
  <2>4. CASE x # last
    <3>1. x < last /\ last # NIL /\ Live(d.h, last) /\ last \in DOMAIN d.h
      BY <2>4, <1>2, <1>11, <1>12, <1>13 DEF NIL, Live
    <3>2. d.h[x].next # NIL
      BY <3>1, <2>1 DEF Forward
    <3>3. e.h[x].next = d.h[x].next /\ d.h[x].next \in DOMAIN d.h
      BY <2>4, <1>4, <2>1, <3>2 DEF Forward, Live
    <3>4. Forward(e.h, x, e.h[x].next)
      BY <2>1, <3>2, <3>3, <1>2, <1>6, <1>7 DEF Forward
    <3>5. QED BY <3>4, <2>2
  <2>5. QED BY <2>2, <2>3, <2>4
<1>14. Forward(e.h, new, e.h[new].next) /\ Backward(e.h, new, e.h[new].prev)
  <2>1. Forward(e.h, new, NIL)
    BY <1>2, <1>3, <1>6, <1>7 DEF Forward
  <2>2. Backward(e.h, new, last)
    BY <1>2, <1>6, <1>7, <1>11, <1>12 DEF Backward, Live
  <2>3. QED BY <2>1, <2>2, <1>5
<1>15. \A x \in DOMAIN e.h : Live(e.h, x) => /\ Forward(e.h, x, e.h[x].next)
                                            /\ Backward(e.h, x, e.h[x].prev)
  BY <1>6, <1>7, <1>13, <1>14
<1>16. Linked(e.h, e.list)
  BY <1>8, <1>9, <1>15 DEF Linked
<1>17. QED BY <1>4, <1>7, <1>16 DEF e

\* removeHandle() leaves everything of the other handles but links alone.
LEMMA RemoveFields ==
  ASSUME NEW d, DataOK(d), d.cur # NIL
  PROVE  LET e == RemoveHandle(d, d.cur)
             x == d.cur
             p == d.h[x].prev
             n == d.h[x].next
         IN  /\ e \in DataSet
             /\ e.list.first = IF p = NIL THEN n ELSE d.list.first
             /\ e.list.last  = IF n = NIL THEN p ELSE d.list.last
             /\ e.cur = NIL /\ e.depth = d.depth
             /\ DOMAIN e.h = DOMAIN d.h /\ Len(e.h) = Len(d.h)
             /\ e.h[x].freed = TRUE
             /\ \A y \in DOMAIN d.h : y # x =>
                  /\ Alike(e.h[y], d.h[y])
                  /\ e.h[y].next = IF y = p THEN n ELSE d.h[y].next
                  /\ e.h[y].prev = IF y = n THEN p ELSE d.h[y].prev
<1> DEFINE e == RemoveHandle(d, d.cur)
           x == d.cur
           p == d.h[x].prev
           n == d.h[x].next
           u == Unlinked(d.h, x)
<1>1. d \in DataSet /\ Linked(d.h, d.list) /\ Live(d.h, x) /\ x \in DOMAIN d.h
  BY DEF DataOK, Live
<1>2. /\ d.h \in Seq(Handle) /\ d.list \in [first : Nat, last : Nat]
      /\ d.list.first \in Nat /\ d.list.last \in Nat
      /\ Len(d.h) \in Nat /\ DOMAIN d.h = 1 .. Len(d.h) /\ d.depth \in Int
  BY <1>1, DataFields
<1>3. Forward(d.h, x, n) /\ Backward(d.h, x, p) /\ n \in Nat /\ p \in Nat
  BY <1>1, <1>2, HandleFields DEF Linked
<1>4. p # x /\ n # x /\ (p = n => p = NIL /\ n = NIL)
  BY <1>1, <1>2, <1>3 DEF Forward, Backward, NIL
<1>5. e = [h |-> u,
           list |-> [first |-> IF p = NIL THEN n ELSE d.list.first,
                     last  |-> IF n = NIL THEN p ELSE d.list.last],
           cur |-> NIL, depth |-> d.depth]
  BY DEF RemoveHandle
<1> HIDE DEF e
<1>6. ASSUME NEW y \in DOMAIN d.h
      PROVE  u[y] = IF y = p THEN [d.h[y] EXCEPT !.next = n]
                    ELSE IF y = n THEN [d.h[y] EXCEPT !.prev = p]
                    ELSE IF y = x THEN [d.h[y] EXCEPT !.freed = TRUE]
                    ELSE d.h[y]
  <2>0. y # NIL
    BY <1>2 DEF NIL
  <2>1. CASE y = p
    BY <2>0, <2>1, <1>4 DEF Unlinked
  <2>2. CASE y = n
    BY <2>0, <2>2, <1>4 DEF Unlinked
  <2>3. CASE y = x
    BY <2>3, <1>4 DEF Unlinked
  <2>4. CASE y \notin {x, p, n}
    BY <2>4 DEF Unlinked
  <2>5. QED BY <2>0, <2>1, <2>2, <2>3, <2>4, <1>4
<1>7. DOMAIN u = DOMAIN d.h
  BY DEF Unlinked
<1>8. u = [y \in 1 .. Len(d.h) |-> u[y]]
  BY <1>2 DEF Unlinked
<1> HIDE DEF u, p, n
<1>9. ASSUME NEW y \in DOMAIN d.h
      PROVE  /\ u[y] \in Handle
             /\ y = x => u[y].freed = TRUE
             /\ y # x => /\ Alike(u[y], d.h[y])
                         /\ u[y].next = IF y = p THEN n ELSE d.h[y].next
                         /\ u[y].prev = IF y = n THEN p ELSE d.h[y].prev
  <2> DEFINE g == d.h[y]
  <2>1. g \in Handle
    BY <1>2
  <2>2. DOMAIN g = {"name", "prev", "next", "freed", "level", "flags",
                    "handler", "path", "conformance"}
    BY <2>1 DEF Handle
  <2>3. y # NIL
    BY <1>2 DEF NIL
  <2>4. u[y] = IF y = p THEN [g EXCEPT !.next = n]
               ELSE IF y = n THEN [g EXCEPT !.prev = p]
               ELSE IF y = x THEN [g EXCEPT !.freed = TRUE] ELSE g
    BY <1>6
  <2>5. u[y] \in Handle
    BY <2>1, <2>4, <1>3, HandleUpdates
  <2> HIDE DEF g
  <2>6. /\ y = x => u[y].freed = TRUE
        /\ y # x => /\ Alike(u[y], g)
                    /\ u[y].next = IF y = p THEN n ELSE g.next
                    /\ u[y].prev = IF y = n THEN p ELSE g.prev
    BY <2>2, <2>3, <2>4, <1>4 DEF Alike
  <2>7. QED BY <2>5, <2>6 DEF g
<1>10. u \in Seq(Handle) /\ Len(u) = Len(d.h)
  <2>1. u \in [1 .. Len(d.h) -> Handle]
    BY <1>2, <1>8, <1>9
  <2>2. QED BY <2>1, <1>2
<1>11. e \in DataSet
  BY <1>2, <1>3, <1>5, <1>10 DEF DataSet, NIL
<1>12. e.h = u /\ e.list.first = (IF p = NIL THEN n ELSE d.list.first)
       /\ e.list.last = (IF n = NIL THEN p ELSE d.list.last)
       /\ e.cur = NIL /\ e.depth = d.depth
  BY <1>5
<1>13. QED BY <1>1, <1>7, <1>9, <1>10, <1>11, <1>12 DEF e, p, n

LEMMA RemoveLinked ==
  ASSUME NEW d, DataOK(d), d.cur # NIL
  PROVE  LET e == RemoveHandle(d, d.cur)
         IN  /\ Linked(e.h, e.list)
             /\ \A y : Live(e.h, y) <=> Live(d.h, y) /\ y # d.cur
<1> DEFINE e == RemoveHandle(d, d.cur)
           x == d.cur
           p == d.h[x].prev
           n == d.h[x].next
<1>1. d \in DataSet /\ Linked(d.h, d.list) /\ Live(d.h, x) /\ x \in DOMAIN d.h
  BY DEF DataOK, Live
<1>2. /\ d.h \in Seq(Handle)
      /\ d.list.first \in Nat /\ d.list.last \in Nat
      /\ Len(d.h) \in Nat /\ DOMAIN d.h = 1 .. Len(d.h)
  BY <1>1, DataFields
<1>3. Forward(d.h, x, n) /\ Backward(d.h, x, p) /\ n \in Nat /\ p \in Nat
  BY <1>1, <1>2, HandleFields DEF Linked
<1>4. /\ e.list.first = IF p = NIL THEN n ELSE d.list.first
      /\ e.list.last  = IF n = NIL THEN p ELSE d.list.last
      /\ DOMAIN e.h = DOMAIN d.h /\ Len(e.h) = Len(d.h)
      /\ e.h[x].freed = TRUE
      /\ \A y \in DOMAIN d.h : y # x =>
           /\ Alike(e.h[y], d.h[y])
           /\ e.h[y].next = IF y = p THEN n ELSE d.h[y].next
           /\ e.h[y].prev = IF y = n THEN p ELSE d.h[y].prev
  BY RemoveFields
<1> HIDE DEF e, n, p
<1>5. \A y : Live(e.h, y) <=> Live(d.h, y) /\ y # x
  BY <1>4 DEF Live, Alike
<1>6. Forward(e.h, 0, e.list.first)
  <2>1. Forward(d.h, 0, d.list.first)
    BY <1>1 DEF Linked
  <2>2. CASE p = NIL
    BY <2>2, <1>1, <1>2, <1>3, <1>4, <1>5 DEF Forward, Backward, NIL
  <2>3. CASE p # NIL
    <3>1. Live(d.h, p) /\ p < x /\ p \in DOMAIN d.h
      BY <2>3, <1>3 DEF Backward, Live
    <3>2. d.list.first # NIL /\ d.list.first # x
      BY <3>1, <2>1, <1>1, <1>2 DEF Forward
    <3>3. QED BY <2>1, <2>3, <3>2, <1>2, <1>4, <1>5 DEF Forward
  <2>4. QED BY <2>2, <2>3
<1>7. Backward(e.h, Len(e.h) + 1, e.list.last)
  <2>1. Backward(d.h, Len(d.h) + 1, d.list.last)
    BY <1>1 DEF Linked
  <2>2. CASE n = NIL
    <3>1. \A y \in DOMAIN d.h : x < y => ~Live(d.h, y)
      BY <2>2, <1>3 DEF Forward
    <3>2. p # NIL => Live(d.h, p) /\ p < x
      BY <1>3 DEF Backward
    <3>3. \A y \in DOMAIN d.h : y < x /\ p < y => ~Live(d.h, y)
      BY <1>3 DEF Backward
    <3>4. p \in DOMAIN d.h \/ p = NIL
      BY <3>2 DEF Live
    <3>5. QED BY <2>2, <3>1, <3>2, <3>3, <3>4, <1>1, <1>2, <1>3, <1>4, <1>5
              DEF Backward, NIL
  <2>3. CASE n # NIL
    <3>1. Live(d.h, n) /\ x < n /\ n \in DOMAIN d.h
      BY <2>3, <1>3 DEF Forward, Live
    <3>2. d.list.last # NIL /\ d.list.last # x
      BY <3>1, <2>1, <1>1, <1>2 DEF Backward, NIL
    <3>3. QED BY <2>1, <2>3, <3>2, <1>2, <1>4, <1>5 DEF Backward
  <2>4. QED BY <2>2, <2>3
<1>8. ASSUME NEW y \in DOMAIN e.h, Live(e.h, y)
      PROVE  /\ Forward(e.h, y, e.h[y].next)
             /\ Backward(e.h, y, e.h[y].prev)
  <2>1. /\ y \in DOMAIN d.h /\ y # x /\ Live(d.h, y)
        /\ Forward(d.h, y, d.h[y].next) /\ Backward(d.h, y, d.h[y].prev)
        /\ d.h[y].next \in Nat /\ d.h[y].prev \in Nat
        /\ e.h[y].next = IF y = p THEN n ELSE d.h[y].next
        /\ e.h[y].prev = IF y = n THEN p ELSE d.h[y].prev
    BY <1>1, <1>2, <1>4, <1>5, <1>8, HandleFields DEF Linked
  <2>2. Forward(e.h, y, e.h[y].next)
    <3>1. CASE y = p
      <4>1. e.h[y].next = n /\ y < x
        BY <3>1, <2>1, <1>3, <1>2 DEF Backward, NIL
      <4>2. \A z \in DOMAIN d.h : z < x /\ y < z => ~Live(d.h, z)
        BY <3>1, <1>3 DEF Backward
      <4>3. QED BY <4>1, <4>2, <1>1, <1>2, <1>3, <1>4, <1>5 DEF Forward, Live
    <3>2. CASE y # p
      <4>1. e.h[y].next = d.h[y].next
        BY <3>2, <2>1
      <4>2. d.h[y].next # x
        <5>1. ASSUME d.h[y].next = x PROVE FALSE
          <6>1. y < x /\ \A z \in DOMAIN d.h : y < z /\ z < x => ~Live(d.h, z)
            BY <5>1, <2>1, <1>1, <1>2 DEF Forward, NIL
          <6>2. ~(p < y)
            BY <6>1, <1>3, <2>1 DEF Backward
          <6>3. y < p
            BY <6>2, <3>2, <2>1, <1>2, <1>3
          <6>4. Live(d.h, p) /\ p < x /\ p \in DOMAIN d.h
            BY <6>3, <2>1, <1>2, <1>3 DEF Backward, NIL, Live
          <6>5. QED BY <6>1, <6>3, <6>4
        <5>2. QED BY <5>1
      <4>3. QED BY <4>1, <4>2, <2>1, <1>4, <1>5 DEF Forward
    <3>3. QED BY <3>1, <3>2
  <2>3. Backward(e.h, y, e.h[y].prev)
    <3>1. CASE y = n
      <4>1. e.h[y].prev = p /\ x < y
        BY <3>1, <2>1, <1>3, <1>2 DEF Forward, NIL
      <4>2. \A z \in DOMAIN d.h : x < z /\ z < y => ~Live(d.h, z)
        BY <3>1, <1>3, <1>2 DEF Forward
      <4>3. QED BY <4>1, <4>2, <1>1, <1>2, <1>3, <1>4, <1>5
                DEF Backward, Live
    <3>2. CASE y # n
      <4>1. e.h[y].prev = d.h[y].prev
        BY <3>2, <2>1
      <4>2. d.h[y].prev # x
        <5>1. ASSUME d.h[y].prev = x PROVE FALSE
          <6>1. x < y /\ \A z \in DOMAIN d.h : z < y /\ x < z => ~Live(d.h, z)
            BY <5>1, <2>1, <1>1, <1>2 DEF Backward, NIL
          <6>2. n # NIL
            BY <6>1, <1>3, <2>1 DEF Forward
          <6>3. Live(d.h, n) /\ x < n /\ n \in DOMAIN d.h
            BY <6>2, <1>3 DEF Forward, Live
          <6>4. ~(y < n)
            BY <6>1, <6>2, <1>3, <2>1 DEF Forward
          <6>5. n < y
            BY <6>4, <3>2, <2>1, <1>2, <1>3
          <6>6. QED BY <6>1, <6>3, <6>5
        <5>2. QED BY <5>1
      <4>3. QED BY <4>1, <4>2, <2>1, <1>4, <1>5 DEF Backward
    <3>3. QED BY <3>1, <3>2
  <2>4. QED BY <2>2, <2>3
<1>9. Linked(e.h, e.list)
  BY <1>6, <1>7, <1>8 DEF Linked
<1>10. QED BY <1>5, <1>9 DEF e

-----------------------------------------------------------------------------
(* What keeps the invariant: the data                                      *)

\* A data set is opened.
LEMMA AddSound ==
  ASSUME NEW d, NEW stk, NEW R, NEW n \in BOOLEAN, Sound(d, stk, R, n),
         NEW name \in Tag \cup {NULL},
         name # NULL => \A x \in DOMAIN d.h : Live(d.h, x) => d.h[x].name # name,
         NEW k \in BOOLEAN, k = FALSE => n = FALSE /\ stk = <<>>
  PROVE  Sound(AddHandle(d, name), stk, R, k)
<1> DEFINE e == AddHandle(d, name)
           new == Len(d.h) + 1
<1>1. /\ DataOK(d) /\ FramesOK(d, stk) /\ RaisedOK(d, R) /\ AskedOK(R, n)
      /\ SmallestOK(d, R)
  BY DEF Sound
<1>2. /\ e \in DataSet /\ e.cur = new /\ e.depth = 0 /\ new # NIL
      /\ DOMAIN e.h = 1 .. new /\ new \notin DOMAIN d.h /\ new \in Nat
      /\ e.h[new] = NewHandle(name, d.list.last)
  BY <1>1, AddFields, Zenon
<1>3. /\ Linked(e.h, e.list)
      /\ \A x : Live(e.h, x) <=> Live(d.h, x) \/ x = new
      /\ \A x \in DOMAIN d.h : Alike(e.h[x], d.h[x])
  BY <1>1, AddLinked, Zenon
<1>4. /\ DOMAIN d.h = 1 .. Len(d.h) /\ Len(d.h) \in Nat
      /\ \A x \in DOMAIN e.h : x \in DOMAIN d.h \/ x = new
  <2>1. DOMAIN d.h = 1 .. Len(d.h) /\ Len(d.h) \in Nat
    BY <1>1, DataFields DEF DataOK
  <2>2. QED BY <2>1, <1>2
<1>5. e.h[new].name = name /\ \A m \in Module : e.h[new].conformance[m] = NULL
  BY <1>2 DEF NewHandle
<1> HIDE DEF e, new
<1>6. OneTag(e.h)
  <2> SUFFICES ASSUME NEW x \in DOMAIN e.h, NEW y \in DOMAIN e.h,
                      Live(e.h, x), Live(e.h, y),
                      e.h[x].name = e.h[y].name, e.h[x].name # NULL
               PROVE  x = y
    BY DEF OneTag
  <2>1. CASE x = new /\ y # new
    <3>1. y \in DOMAIN d.h /\ Live(d.h, y) /\ e.h[y].name = d.h[y].name
      BY <2>1, <1>3, <1>4 DEF Alike
    <3>2. QED BY <3>1, <2>1, <1>5
  <2>2. CASE y = new /\ x # new
    <3>1. x \in DOMAIN d.h /\ Live(d.h, x) /\ e.h[x].name = d.h[x].name
      BY <2>2, <1>3, <1>4 DEF Alike
    <3>2. QED BY <3>1, <2>2, <1>5
  <2>3. CASE x # new /\ y # new
    BY <2>3, <1>1, <1>3, <1>4 DEF Alike, DataOK, OneTag
  <2>4. QED BY <2>1, <2>2, <2>3
<1>7. DataOK(e)
  BY <1>2, <1>3, <1>6 DEF DataOK
<1>8. \A x, m : Loaded(d.h, x, m) => Loaded(e.h, x, m)
  BY <1>3 DEF Loaded, Live, Alike
<1>9. FramesOK(e, stk)
  BY <1>1, <1>2, <1>8 DEF FramesOK
<1>10. RaisedOK(e, R)
  BY <1>1, <1>8 DEF RaisedOK
<1>11. DepthOK(e, stk, k)
  BY <1>2 DEF DepthOK, Shape, Depth
<1>12. AskedOK(R, k)
  BY <1>1 DEF AskedOK
<1>13. SmallestOK(e, R)
  <2> SUFFICES ASSUME NEW x \in DOMAIN e.h, NEW m \in Module, Loaded(e.h, x, m),
                      \A r \in Own(R, x, m) : r.heard /\ r.severity # 0
               PROVE  /\ Own(R, x, m) = {} => e.h[x].conformance[m] = 0
                      /\ Own(R, x, m) # {} =>
                           \E r \in Own(R, x, m) :
                             e.h[x].conformance[m] = r.severity
                      /\ \A r \in Own(R, x, m) :
                           e.h[x].conformance[m] <= r.severity
    BY DEF SmallestOK
  <2>1. x # new
    BY <1>5 DEF Loaded
  <2>2. x \in DOMAIN d.h /\ e.h[x].conformance = d.h[x].conformance
        /\ Live(d.h, x)
    BY <2>1, <1>3, <1>4 DEF Alike, Loaded
  <2>3. Loaded(d.h, x, m)
    BY <2>2 DEF Loaded
  <2>4. QED BY <2>2, <2>3, <1>1 DEF SmallestOK
<1>14. Sound(e, stk, R, k)
  BY <1>7, <1>9, <1>10, <1>11, <1>12, <1>13 DEF Sound
<1>15. QED BY <1>14 DEF e

\* A data set is closed, and what it contains is gone.
LEMMA RemoveSound ==
  ASSUME NEW d, NEW R, NEW n \in BOOLEAN, Sound(d, <<>>, R, n), d.cur # NIL
  PROVE  Sound(RemoveHandle(d, d.cur), <<>>, {r \in R : r.at # d.cur}, n)
<1> DEFINE e == RemoveHandle(d, d.cur)
           S == {r \in R : r.at # d.cur}
<1>1. /\ DataOK(d) /\ FramesOK(d, <<>>) /\ RaisedOK(d, R)
      /\ DepthOK(d, <<>>, n) /\ AskedOK(R, n) /\ SmallestOK(d, R)
  BY DEF Sound
<1>2. /\ e \in DataSet /\ e.cur = NIL /\ e.depth = d.depth
      /\ DOMAIN e.h = DOMAIN d.h
      /\ \A y \in DOMAIN d.h : y # d.cur => Alike(e.h[y], d.h[y])
  BY <1>1, RemoveFields, Zenon
<1>3. /\ Linked(e.h, e.list)
      /\ \A y : Live(e.h, y) <=> Live(d.h, y) /\ y # d.cur
  BY <1>1, RemoveLinked, Zenon
<1> HIDE DEF e
<1>4. OneTag(e.h)
  BY <1>1, <1>2, <1>3 DEF DataOK, OneTag, Alike
<1>5. DataOK(e)
  BY <1>2, <1>3, <1>4 DEF DataOK
<1>6. \A x, m : Loaded(e.h, x, m) <=> Loaded(d.h, x, m) /\ x # d.cur
  BY <1>2, <1>3 DEF Loaded, Live, Alike
<1>7. FramesOK(e, <<>>)
  BY <1>1 DEF FramesOK
<1>8. RaisedOK(e, S)
  BY <1>1, <1>6 DEF RaisedOK
<1>9. DepthOK(e, <<>>, n) /\ AskedOK(S, n)
  BY <1>1, <1>2 DEF DepthOK, AskedOK
<1>10. SmallestOK(e, S)
  <2> SUFFICES ASSUME NEW x \in DOMAIN e.h, NEW m \in Module, Loaded(e.h, x, m),
                      \A r \in Own(S, x, m) : r.heard /\ r.severity # 0
               PROVE  /\ Own(S, x, m) = {} => e.h[x].conformance[m] = 0
                      /\ Own(S, x, m) # {} =>
                           \E r \in Own(S, x, m) :
                             e.h[x].conformance[m] = r.severity
                      /\ \A r \in Own(S, x, m) :
                           e.h[x].conformance[m] <= r.severity
    BY DEF SmallestOK
  <2>1. x \in DOMAIN d.h /\ x # d.cur /\ Loaded(d.h, x, m)
        /\ e.h[x].conformance = d.h[x].conformance
    BY <1>2, <1>6 DEF Alike
  <2>2. Own(S, x, m) = Own(R, x, m)
    BY <2>1 DEF Own
  <2> HIDE DEF S
  <2>3. QED BY <2>1, <2>2, <1>1 DEF SmallestOK
<1>11. QED BY <1>5, <1>7, <1>8, <1>9, <1>10 DEF Sound, e

\* A setting of a data set is changed, or another one is selected.
LEMMA SettingSound ==
  ASSUME NEW d, NEW stk, NEW R, NEW n, Sound(d, stk, R, n),
         NEW e \in DataSet, SameLinks(d, e), e.depth = d.depth,
         \A x \in DOMAIN d.h : e.h[x].conformance = d.h[x].conformance,
         e.cur # NIL => Live(d.h, e.cur), d.cur # NIL => e.cur # NIL
  PROVE  Sound(e, stk, R, n)
<1>1. /\ DataOK(d) /\ FramesOK(d, stk) /\ RaisedOK(d, R)
      /\ DepthOK(d, stk, n) /\ AskedOK(R, n) /\ SmallestOK(d, R)
  BY DEF Sound
<1>2. e.cur # NIL => Live(e.h, e.cur)
  BY DEF SameLinks, Live
<1>3. DataOK(e) /\ \A x : Live(e.h, x) <=> Live(d.h, x)
  BY <1>1, <1>2, LinksStay
<1>4. \A x, m : Loaded(e.h, x, m) <=> Loaded(d.h, x, m)
  BY <1>3 DEF Loaded, Live
<1>5. FramesOK(e, stk)
  BY <1>1, <1>4 DEF FramesOK
<1>6. RaisedOK(e, R)
  BY <1>1, <1>4 DEF RaisedOK
<1>7. DepthOK(e, stk, n)
  BY <1>1 DEF DepthOK
<1>8. SmallestOK(e, R)
  BY <1>1, <1>4 DEF SmallestOK, SameLinks
<1>9. QED BY <1>1, <1>3, <1>5, <1>6, <1>7, <1>8 DEF Sound

\* One handle is replaced by one that differs in a setting.
LEMMA ReplaceSound ==
  ASSUME NEW d, NEW stk, NEW R, NEW n, Sound(d, stk, R, n), d.cur # NIL,
         NEW g \in Handle,
         g.name = d.h[d.cur].name, g.freed = d.h[d.cur].freed,
         g.next = d.h[d.cur].next, g.prev = d.h[d.cur].prev,
         g.conformance = d.h[d.cur].conformance
  PROVE  Sound([d EXCEPT !.h[d.cur] = g], stk, R, n)
<1> DEFINE e == [d EXCEPT !.h[d.cur] = g]
<1>1. d \in DataSet /\ d.cur \in DOMAIN d.h /\ Live(d.h, d.cur)
  BY DEF Sound, DataOK, Live
<1>2. d.h \in Seq(Handle) /\ DOMAIN d.h = 1 .. Len(d.h)
  BY <1>1, DataFields
<1>3. /\ e.h = [d.h EXCEPT ![d.cur] = g] /\ e.list = d.list
      /\ e.cur = d.cur /\ e.depth = d.depth
      /\ e = [d EXCEPT !.h = [d.h EXCEPT ![d.cur] = g]]
  BY <1>1 DEF DataSet
<1>4. /\ e.h \in Seq(Handle) /\ DOMAIN e.h = DOMAIN d.h /\ e.h[d.cur] = g
      /\ \A x \in DOMAIN d.h : x # d.cur => e.h[x] = d.h[x]
  BY <1>1, <1>2, <1>3
<1>5. e \in DataSet
  BY <1>1, <1>3, <1>4 DEF DataSet
<1> HIDE DEF e
<1>6. SameLinks(d, e) /\ \A x \in DOMAIN d.h : e.h[x].conformance = d.h[x].conformance
  BY <1>3, <1>4 DEF SameLinks
<1>7. Sound(e, stk, R, n)
  BY <1>1, <1>3, <1>5, <1>6, SettingSound
<1>8. QED BY <1>7 DEF e

-----------------------------------------------------------------------------
(* What keeps the invariant: the stack                                     *)

LEMMA FrameFacts ==
  ASSUME NEW f \in Frame
  PROVE  /\ f.kind \in {"parser", "config", "handler"}
         /\ f.kind = "parser" =>
              /\ f.mod \in Module /\ f.at \in Nat /\ f.flags \in SUBSET Flag
              /\ f.rest \in Seq(Statement)
              /\ f = [kind |-> "parser", mod |-> f.mod, at |-> f.at,
                      flags |-> f.flags, rest |-> f.rest]
         /\ f.kind = "config" =>
              /\ f.app \in Program /\ f.rest \in Seq(Command)
              /\ f = [kind |-> "config", app |-> f.app, rest |-> f.rest]
BY DEF Frame

LEMMA RestFacts ==
  ASSUME NEW f \in Frame, NEW t
  PROVE  /\ f.kind = "parser" /\ t \in Seq(Statement) =>
              /\ [f EXCEPT !.rest = t] \in Frame
              /\ [f EXCEPT !.rest = t].kind = "parser"
              /\ [f EXCEPT !.rest = t].mod = f.mod
              /\ [f EXCEPT !.rest = t].at = f.at
              /\ [f EXCEPT !.rest = t].flags = f.flags
         /\ f.kind = "config" /\ t \in Seq(Command) =>
              /\ [f EXCEPT !.rest = t] \in Frame
              /\ [f EXCEPT !.rest = t].kind = "config"
BY DEF Frame

\* The innermost frame is popped; under a parser the depth is decremented.
LEMMA PopSound ==
  ASSUME NEW d, NEW stk, NEW R, NEW n, Sound(d, stk, R, n), stk # <<>>,
         NEW e \in DataSet, e.h = d.h, e.list = d.list, e.cur = d.cur,
         e.depth = d.depth - One(stk[Len(stk)].kind = "parser")
  PROVE  Sound(e, SubSeq(stk, 1, Len(stk) - 1), R, n)
<1> DEFINE b == SubSeq(stk, 1, Len(stk) - 1)
           top == stk[Len(stk)]
<1>1. /\ DataOK(d) /\ FramesOK(d, stk) /\ RaisedOK(d, R)
      /\ DepthOK(d, stk, n) /\ AskedOK(R, n) /\ SmallestOK(d, R)
  BY DEF Sound
<1>2. stk \in Seq(Frame) /\ Len(stk) \in Nat /\ Len(stk) >= 1
      /\ DOMAIN stk = 1 .. Len(stk)
  BY <1>1 DEF FramesOK
<1>3. /\ b \in Seq(Frame) /\ Len(b) = Len(stk) - 1 /\ DOMAIN b = 1 .. Len(b)
      /\ \A i \in DOMAIN b : b[i] = stk[i]
  BY <1>2
<1> HIDE DEF b
<1>4. DataOK(e)
  BY <1>1 DEF DataOK
<1>5. FramesOK(e, b)
  BY <1>1, <1>2, <1>3 DEF FramesOK
<1>6. RaisedOK(e, R) /\ SmallestOK(e, R)
  BY <1>1 DEF RaisedOK, SmallestOK
<1>7. ASSUME n = FALSE PROVE Shape(b) /\ e.depth = Depth(b)
  <2>1. Shape(stk) /\ d.depth = Depth(stk)
    BY <1>1, <1>7 DEF DepthOK
  <2>2. /\ Shape(b)
        /\ \A i \in DOMAIN b : b[i].kind # "handler"
    BY <2>1, <1>2, <1>3 DEF Shape
  <2>3. top.kind \in {"parser", "config", "handler"}
    BY <1>2, FrameFacts
  <2>4. Len(stk) \in DOMAIN stk
    BY <1>2
  <2>5. top.kind = "config" => Len(stk) = 1
    BY <2>1, <2>4 DEF Shape
  <2>6. d.depth = Len(stk) - One(stk[1].kind = "config")
                           - One(top.kind = "handler")
    BY <2>1, <1>2 DEF Depth
  <2>7. CASE Len(stk) = 1
    <3>1. b = <<>>
      BY <2>7, <1>3
    <3>2. top = stk[1]
      BY <2>7
    <3>3. d.depth = One(top.kind = "parser")
      BY <2>3, <2>6, <2>7, <3>2 DEF One
    <3>4. e.depth = 0
      BY <3>3 DEF One
    <3>5. QED BY <2>2, <3>1, <3>4 DEF Depth
  <2>8. CASE Len(stk) # 1
    <3>1. b # <<>> /\ b[1] = stk[1] /\ b[Len(b)].kind # "handler"
      BY <2>2, <2>8, <1>2, <1>3
    <3>2. Depth(b) = Len(b) - One(stk[1].kind = "config")
      BY <3>1, <1>3 DEF Depth, One
    <3> DEFINE c == One(stk[1].kind = "config")
    <3>0. c \in Int /\ d.depth \in Int
      BY <1>1, DataFields DEF One, DataOK
    <3>3. e.depth = Len(stk) - 1 - c
      <4>1. top.kind \in {"parser", "handler"}
        BY <2>3, <2>5, <2>8
      <4>2. CASE top.kind = "parser"
        <5>1. d.depth = Len(stk) - c - 0 /\ e.depth = d.depth - 1
          BY <4>2, <2>6 DEF One
        <5> HIDE DEF c
        <5>2. QED BY <5>1, <3>0, <1>2
      <4>3. CASE top.kind = "handler"
        <5>1. d.depth = Len(stk) - c - 1 /\ e.depth = d.depth - 0
          BY <4>3, <2>6 DEF One
        <5> HIDE DEF c
        <5>2. QED BY <5>1, <3>0, <1>2
      <4>4. QED BY <4>1, <4>2, <4>3
    <3>4. QED BY <2>2, <3>2, <3>3, <1>2, <1>3
  <2>9. QED BY <2>7, <2>8
<1>8. DepthOK(e, b, n)
  BY <1>7 DEF DepthOK
<1>9. QED BY <1>1, <1>4, <1>5, <1>6, <1>8 DEF Sound, b

\* The innermost frame is done with a command or statement.
LEMMA DoneSound ==
  ASSUME NEW d, NEW stk, NEW R, NEW n, Sound(d, stk, R, n), stk # <<>>,
         stk[Len(stk)].kind \in {"parser", "config"},
         stk[Len(stk)].rest # <<>>
  PROVE  LET b == [stk EXCEPT ![Len(stk)].rest = Tail(@)]
         IN  /\ Sound(d, b, R, n)
             /\ b # <<>> /\ Len(b) = Len(stk) /\ Imported(b) = Imported(stk)
             /\ \A i \in DOMAIN stk : b[i].kind = stk[i].kind
             /\ stk[Len(stk)].kind = "parser" =>
                  /\ b[Len(stk)].mod = stk[Len(stk)].mod
                  /\ b[Len(stk)].at = stk[Len(stk)].at
                  /\ b[Len(stk)].flags = stk[Len(stk)].flags
<1> DEFINE top == stk[Len(stk)]
           g == [top EXCEPT !.rest = Tail(top.rest)]
           b == [stk EXCEPT ![Len(stk)] = g]
<1>1. /\ DataOK(d) /\ FramesOK(d, stk) /\ RaisedOK(d, R)
      /\ DepthOK(d, stk, n) /\ AskedOK(R, n) /\ SmallestOK(d, R)
  BY DEF Sound
<1>2. stk \in Seq(Frame) /\ Len(stk) \in Nat /\ Len(stk) >= 1
      /\ DOMAIN stk = 1 .. Len(stk) /\ Len(stk) \in DOMAIN stk
  BY <1>1 DEF FramesOK
<1>3. top \in Frame
  BY <1>2
<1>4. /\ g \in Frame /\ g.kind = top.kind
      /\ top.kind = "parser" => /\ g.mod = top.mod /\ g.at = top.at
                                /\ g.flags = top.flags
  <2>1. CASE top.kind = "parser"
    <3>1. top.rest \in Seq(Statement)
      BY <1>3, <2>1, FrameFacts
    <3>2. Tail(top.rest) \in Seq(Statement)
      BY <3>1
    <3> HIDE DEF top
    <3>3. QED BY <1>3, <2>1, <3>2, RestFacts
  <2>2. CASE top.kind = "config"
    <3>1. top.rest \in Seq(Command)
      BY <1>3, <2>2, FrameFacts
    <3>2. Tail(top.rest) \in Seq(Command)
      BY <3>1
    <3> HIDE DEF top
    <3>3. QED BY <1>3, <2>2, <3>2, RestFacts
  <2>3. QED BY <2>1, <2>2
<1> HIDE DEF g
<1>5. /\ b \in Seq(Frame) /\ Len(b) = Len(stk) /\ DOMAIN b = DOMAIN stk
      /\ b[Len(stk)] = g
      /\ \A i \in DOMAIN stk : i # Len(stk) => b[i] = stk[i]
  BY <1>2, <1>4
<1>6. b = [stk EXCEPT ![Len(stk)].rest = Tail(@)]
  BY DEF g
<1> HIDE DEF b
<1>7. \A i \in DOMAIN stk : /\ b[i].kind = stk[i].kind
                            /\ stk[i].kind = "parser" =>
                                 b[i].at = stk[i].at /\ b[i].mod = stk[i].mod
  BY <1>4, <1>5
<1>8. FramesOK(d, b)
  BY <1>1, <1>2, <1>5, <1>7 DEF FramesOK
<1>9. b # <<>>
  BY <1>2, <1>5
<1>10. Shape(b) <=> Shape(stk)
  BY <1>5, <1>7 DEF Shape
<1>11. Depth(b) = Depth(stk)
  BY <1>2, <1>5, <1>7, <1>9 DEF Depth
<1>12. Imported(b) = Imported(stk)
  BY <1>2, <1>5, <1>7 DEF Imported
<1>13. Sound(d, b, R, n)
  BY <1>1, <1>8, <1>10, <1>11 DEF Sound, DepthOK
<1>14. QED BY <1>4, <1>5, <1>6, <1>7, <1>9, <1>12, <1>13

\* A handler is called, or a configuration file read.
LEMMA PushSound ==
  ASSUME NEW d, NEW stk, NEW R, NEW n, Sound(d, stk, R, n), d.cur # NIL,
         NEW f \in Frame, f.kind # "parser",
         f.kind = "handler" => stk = <<>> \/ stk[Len(stk)].kind # "handler",
         f.kind = "config" /\ n = FALSE => stk = <<>>
  PROVE  Sound(d, Append(stk, f), R, n)
<1> DEFINE b == Append(stk, f)
<1>1. /\ DataOK(d) /\ FramesOK(d, stk) /\ RaisedOK(d, R)
      /\ DepthOK(d, stk, n) /\ AskedOK(R, n) /\ SmallestOK(d, R)
  BY DEF Sound
<1>2. stk \in Seq(Frame) /\ Len(stk) \in Nat /\ DOMAIN stk = 1 .. Len(stk)
  BY <1>1 DEF FramesOK
<1>3. /\ b \in Seq(Frame) /\ Len(b) = Len(stk) + 1 /\ DOMAIN b = 1 .. Len(b)
      /\ b[Len(b)] = f /\ \A i \in DOMAIN stk : b[i] = stk[i]
  BY <1>2
<1> HIDE DEF b
<1>4. \A i \in DOMAIN b : i \in DOMAIN stk \/ i = Len(b)
  BY <1>2, <1>3
<1>5. FramesOK(d, b)
  <2>1. ASSUME NEW i \in DOMAIN b, b[i].kind = "parser"
        PROVE  Loaded(d.h, b[i].at, b[i].mod)
    BY <2>1, <1>1, <1>3, <1>4 DEF FramesOK
  <2>2. QED BY <2>1, <1>3 DEF FramesOK
<1>6. ASSUME n = FALSE PROVE Shape(b) /\ d.depth = Depth(b)
  <2>1. Shape(stk) /\ d.depth = Depth(stk)
    BY <1>1, <1>6 DEF DepthOK
  <2>2. f.kind \in {"config", "handler"}
    BY FrameFacts
  <2>3. b # <<>> /\ Len(b) \in Nat
    BY <1>2, <1>3
  <2>4. CASE stk = <<>>
    <3>1. Len(b) = 1 /\ b[1] = f /\ Depth(stk) = 0
      BY <2>4, <1>3 DEF Depth
    <3>2. \A i \in DOMAIN b : i = 1
      BY <3>1, <1>3
    <3>3. Depth(b) = 0
      BY <2>2, <2>3, <3>1 DEF Depth, One
    <3>4. QED BY <2>1, <3>1, <3>2, <3>3 DEF Shape
  <2>5. CASE stk # <<>>
    <3>1. f.kind = "handler" /\ stk[Len(stk)].kind # "handler"
      BY <2>2, <2>5, <1>6
    <3>2. 1 \in DOMAIN stk /\ Len(stk) \in DOMAIN stk /\ b[1] = stk[1]
      BY <2>5, <1>2, <1>3
    <3>3. \A i \in DOMAIN stk : stk[i].kind # "handler"
      BY <2>1, <3>1 DEF Shape
    <3>4. Shape(b)
      BY <2>1, <3>1, <3>3, <1>3, <1>4 DEF Shape
    <3>5. Depth(stk) = Len(stk) - One(stk[1].kind = "config")
      BY <2>5, <3>1, <1>2 DEF Depth, One
    <3>6. Depth(b) = Len(b) - One(stk[1].kind = "config") - 1
      BY <2>3, <3>1, <3>2, <1>3 DEF Depth, One
    <3>7. QED BY <2>1, <3>4, <3>5, <3>6, <1>2, <1>3 DEF One
  <2>6. QED BY <2>4, <2>5
<1>7. DepthOK(d, b, n)
  BY <1>6 DEF DepthOK
<1>8. QED BY <1>1, <1>5, <1>7 DEF Sound, b

-----------------------------------------------------------------------------
(* What keeps the invariant: modules and errors                            *)

Graded(h, k, x, m, c) ==
  /\ k \in Seq(Handle) /\ DOMAIN k = DOMAIN h
  /\ \A y \in DOMAIN h :
       /\ k[y].name = h[y].name /\ k[y].freed = h[y].freed
       /\ k[y].next = h[y].next /\ k[y].prev = h[y].prev
       /\ k[y].level = h[y].level /\ k[y].flags = h[y].flags
       /\ k[y].handler = h[y].handler /\ k[y].path = h[y].path
       /\ \A l \in Module : k[y].conformance[l] =
            IF y = x /\ l = m THEN c ELSE h[y].conformance[l]

LEMMA ConformanceFacts ==
  ASSUME NEW h \in Seq(Handle), NEW x \in DOMAIN h, NEW m \in Module,
         NEW c \in Nat, NEW k, k = [h EXCEPT ![x].conformance[m] = c]
  PROVE  Graded(h, k, x, m, c)
<1> DEFINE f == [h[x].conformance EXCEPT ![m] = c]
           g == [h[x] EXCEPT !.conformance = f]
<1>1. h[x] \in Handle /\ h[x].conformance \in [Module -> Nat \cup {NULL}]
  BY HandleFields
<1>2. /\ f \in [Module -> Nat \cup {NULL}]
      /\ \A l \in Module : f[l] = IF l = m THEN c ELSE h[x].conformance[l]
  BY <1>1
<1> HIDE DEF f
<1>3. g \in Handle
  BY <1>1, <1>2, HandleUpdates
<1>4. /\ g.name = h[x].name /\ g.freed = h[x].freed
      /\ g.next = h[x].next /\ g.prev = h[x].prev
      /\ g.level = h[x].level /\ g.flags = h[x].flags
      /\ g.handler = h[x].handler /\ g.path = h[x].path
      /\ g.conformance = f
  BY <1>1 DEF Handle
<1>5. k = [h EXCEPT ![x] = g]
  BY DEF f
<1> HIDE DEF g
<1>6. /\ k \in Seq(Handle) /\ DOMAIN k = DOMAIN h /\ k[x] = g
      /\ \A y \in DOMAIN h : y # x => k[y] = h[y]
  BY <1>3, <1>5
<1>7. ASSUME NEW y \in DOMAIN h
      PROVE  /\ k[y].name = h[y].name /\ k[y].freed = h[y].freed
             /\ k[y].next = h[y].next /\ k[y].prev = h[y].prev
             /\ k[y].level = h[y].level /\ k[y].flags = h[y].flags
             /\ k[y].handler = h[y].handler /\ k[y].path = h[y].path
             /\ \A l \in Module : k[y].conformance[l] =
                  IF y = x /\ l = m THEN c ELSE h[y].conformance[l]
  <2>1. CASE y = x
    <3>1. k[y] = g
      BY <2>1, <1>6
    <3>2. \A l \in Module : k[y].conformance[l] =
                             IF l = m THEN c ELSE h[y].conformance[l]
      BY <2>1, <3>1, <1>2, <1>4
    <3> QED BY <2>1, <3>1, <3>2, <1>4
  <2>2. CASE y # x
    BY <2>2, <1>6
  <2>3. QED BY <2>1, <2>2
<1>8. QED BY <1>6, <1>7 DEF Graded

\* A module that is not known is loaded.
LEMMA LoadSound ==
  ASSUME NEW d, NEW stk, NEW R, NEW n, Sound(d, stk, R, n), d.cur # NIL,
         NEW m \in Module, d.h[d.cur].conformance[m] = NULL,
         stk = <<>> \/ stk[Len(stk)].kind # "handler",
         NEW p \in Frame, p.kind = "parser", p.at = d.cur, p.mod = m
  PROVE  Sound([d EXCEPT !.h[d.cur].conformance[m] = 0, !.depth = @ + 1],
               Append(stk, p), R, n)
<1> DEFINE e == [d EXCEPT !.h[d.cur].conformance[m] = 0, !.depth = @ + 1]
           k == [d.h EXCEPT ![d.cur].conformance[m] = 0]
           b == Append(stk, p)
<1>1. /\ DataOK(d) /\ FramesOK(d, stk) /\ RaisedOK(d, R)
      /\ DepthOK(d, stk, n) /\ AskedOK(R, n) /\ SmallestOK(d, R)
  BY DEF Sound
<1>2. d \in DataSet /\ Live(d.h, d.cur) /\ d.cur \in DOMAIN d.h /\ d.h \in Seq(Handle)
      /\ d.depth \in Int
  BY <1>1, DataFields DEF DataOK, Live
<1>3. /\ k \in Seq(Handle) /\ DOMAIN k = DOMAIN d.h
      /\ \A y \in DOMAIN d.h :
           /\ k[y].name = d.h[y].name /\ k[y].freed = d.h[y].freed
           /\ k[y].next = d.h[y].next /\ k[y].prev = d.h[y].prev
           /\ \A l \in Module : k[y].conformance[l] =
                IF y = d.cur /\ l = m THEN 0 ELSE d.h[y].conformance[l]
  <2>1. 0 \in Nat /\ k = [d.h EXCEPT ![d.cur].conformance[m] = 0]
    OBVIOUS
  <2> HIDE DEF k
  <2>2. Graded(d.h, k, d.cur, m, 0)
    BY <2>1, <1>2, ConformanceFacts
  <2>3. QED BY <2>2 DEF Graded
<1>4. e = [[d EXCEPT !.h = k] EXCEPT !.depth = d.depth + 1]
  BY <1>2 DEF DataSet
<1> HIDE DEF k
<1>5. /\ e.h = k /\ e.list = d.list /\ e.cur = d.cur /\ e.depth = d.depth + 1
      /\ e \in DataSet
  <2> DEFINE c == [d EXCEPT !.h = k]
  <2>1. /\ c.h = k /\ c.list = d.list /\ c.cur = d.cur /\ c.depth = d.depth
        /\ c \in DataSet
    BY <1>2, <1>3 DEF DataSet
  <2>2. e = [c EXCEPT !.depth = d.depth + 1] /\ d.depth + 1 \in Int
    BY <1>2, <1>4
  <2> HIDE DEF c, e
  <2>3. QED BY <2>1, <2>2 DEF DataSet
<1> HIDE DEF e
<1>6. SameLinks(d, e) /\ (e.cur # NIL => Live(e.h, e.cur))
  BY <1>2, <1>3, <1>5 DEF SameLinks, Live
<1>7. DataOK(e) /\ \A x : Live(e.h, x) <=> Live(d.h, x)
  BY <1>1, <1>5, <1>6, LinksStay
<1>8. NULL # 0
  BY NullAssumption
<1>9. \A x : \A l \in Module :
        Loaded(e.h, x, l) <=> Loaded(d.h, x, l) \/ (x = d.cur /\ l = m)
  BY <1>2, <1>3, <1>5, <1>7, <1>8 DEF Loaded, Live
<1>10. stk \in Seq(Frame) /\ Len(stk) \in Nat /\ DOMAIN stk = 1 .. Len(stk)
  BY <1>1 DEF FramesOK
<1>11. /\ b \in Seq(Frame) /\ Len(b) = Len(stk) + 1 /\ DOMAIN b = 1 .. Len(b)
       /\ b[Len(b)] = p /\ \A i \in DOMAIN stk : b[i] = stk[i]
  BY <1>10
<1> HIDE DEF b
<1>12. \A i \in DOMAIN b : i \in DOMAIN stk \/ i = Len(b)
  BY <1>10, <1>11
<1>13. FramesOK(e, b)
  <2>1. ASSUME NEW i \in DOMAIN b, b[i].kind = "parser"
        PROVE  Loaded(e.h, b[i].at, b[i].mod)
    <3>1. CASE i = Len(b)
      BY <3>1, <1>9, <1>11
    <3>2. CASE i # Len(b)
      <4>1. i \in DOMAIN stk /\ b[i] = stk[i] /\ stk[i] \in Frame
        BY <3>2, <1>10, <1>11, <1>12
      <4>2. stk[i].mod \in Module
        BY <4>1, <2>1, FrameFacts
      <4>3. QED BY <4>1, <4>2, <2>1, <1>1, <1>9 DEF FramesOK
    <3>3. QED BY <3>1, <3>2
  <2>2. QED BY <2>1, <1>5, <1>11 DEF FramesOK
<1>14. RaisedOK(e, R)
  BY <1>1, <1>9 DEF RaisedOK, Report
<1>15. SmallestOK(e, R)
  <2>1. ASSUME NEW x \in DOMAIN d.h, NEW l \in Module, ~(x = d.cur /\ l = m)
        PROVE  /\ Loaded(e.h, x, l) <=> Loaded(d.h, x, l)
               /\ e.h[x].conformance[l] = d.h[x].conformance[l]
    BY <2>1, <1>3, <1>5, <1>9
  <2>2. e.h[d.cur].conformance[m] = 0
    BY <1>2, <1>3, <1>5
  <2>3. Own(R, d.cur, m) = {}
    BY <1>1 DEF RaisedOK, Own, Loaded
  <2>4. DOMAIN e.h = DOMAIN d.h
    BY <1>3, <1>5
  <2>5. QED BY <2>1, <2>2, <2>3, <2>4, <1>1 DEF SmallestOK
<1>16. ASSUME n = FALSE PROVE Shape(b) /\ e.depth = Depth(b)
  <2>1. Shape(stk) /\ d.depth = Depth(stk)
    BY <1>1, <1>16 DEF DepthOK
  <2>2. b # <<>> /\ Len(b) \in Nat
    BY <1>10, <1>11
  <2>3. CASE stk = <<>>
    <3>1. Len(b) = 1 /\ b[1] = p /\ Depth(stk) = 0
      BY <2>3, <1>11 DEF Depth
    <3>2. Depth(b) = 1
      BY <2>2, <3>1 DEF Depth, One
    <3>3. QED BY <2>1, <3>1, <3>2, <1>2, <1>5, <1>11 DEF Shape
  <2>4. CASE stk # <<>>
    <3> DEFINE c == One(stk[1].kind = "config")
    <3>0. c \in Int
      BY DEF One
    <3>1. 1 \in DOMAIN stk /\ Len(stk) \in DOMAIN stk /\ b[1] = stk[1]
          /\ stk[Len(stk)].kind # "handler"
      BY <2>4, <1>10, <1>11
    <3>2. \A i \in DOMAIN stk : stk[i].kind # "handler"
      BY <2>1, <3>1 DEF Shape
    <3>3. Shape(b)
      BY <2>1, <3>2, <1>11, <1>12 DEF Shape
    <3>4. Depth(stk) = Len(stk) - c
      BY <2>4, <3>1, <1>10 DEF Depth, One
    <3>5. Depth(b) = Len(b) - c
      BY <2>2, <3>1, <1>11 DEF Depth, One
    <3> HIDE DEF c
    <3>6. QED BY <2>1, <3>0, <3>3, <3>4, <3>5, <1>5, <1>10, <1>11
  <2>5. QED BY <2>3, <2>4
<1>17. DepthOK(e, b, n)
  BY <1>16 DEF DepthOK
<1>18. QED BY <1>1, <1>7, <1>13, <1>14, <1>15, <1>17 DEF Sound, b, e

\* An error is raised in a module.
LEMMA ReportSound ==
  ASSUME NEW d, NEW stk, NEW R, NEW n, Sound(d, stk, R, n), stk # <<>>,
         NEW p, p = stk[Len(stk)], p.kind = "parser",
         NEW r \in Report, r.at = p.at, r.mod = p.mod, n = FALSE => AsAsked(r)
  PROVE  Sound(IF r.heard
               THEN [d EXCEPT !.h[p.at].conformance[p.mod] =
                                Conformance(@, r.severity)]
               ELSE d,
               stk, R \cup {r}, n)
<1> DEFINE S == R \cup {r}
           old == d.h[p.at].conformance[p.mod]
           new == Conformance(old, r.severity)
           k == [d.h EXCEPT ![p.at].conformance[p.mod] = new]
           e == [d EXCEPT !.h[p.at].conformance[p.mod] =
                            Conformance(@, r.severity)]
<1>1. /\ DataOK(d) /\ FramesOK(d, stk) /\ RaisedOK(d, R)
      /\ DepthOK(d, stk, n) /\ AskedOK(R, n) /\ SmallestOK(d, R)
  BY DEF Sound
<1>2. d \in DataSet /\ d.h \in Seq(Handle)
  BY <1>1, DataFields DEF DataOK
<1>3. p \in Frame /\ Len(stk) \in DOMAIN stk
  BY <1>1 DEF FramesOK
<1>4. p.mod \in Module /\ Loaded(d.h, p.at, p.mod)
  BY <1>1, <1>3, FrameFacts DEF FramesOK
<1>5. p.at \in DOMAIN d.h /\ old # NULL
  BY <1>4 DEF Loaded, Live
<1>6. d.h[p.at].conformance \in [Module -> Nat \cup {NULL}]
  BY <1>2, <1>5, HandleFields
<1>6a. old \in Nat
  BY <1>4, <1>5, <1>6
<1>7. r.severity \in Nat
  BY DEF Report
<1>8. AskedOK(S, n)
  BY <1>1 DEF AskedOK
<1>9. CASE ~r.heard
  <2>1. RaisedOK(d, S)
    BY <1>1, <1>4 DEF RaisedOK
  <2>2. SmallestOK(d, S)
    <3>1. ASSUME NEW x \in DOMAIN d.h, NEW m \in Module,
                 ~(x = p.at /\ m = p.mod)
          PROVE  Own(S, x, m) = Own(R, x, m)
      BY <3>1 DEF Own
    <3>2. r \in Own(S, p.at, p.mod)
      BY DEF Own
    <3> HIDE DEF S
    <3>3. QED BY <3>1, <3>2, <1>1, <1>9 DEF SmallestOK
  <2>3. QED BY <1>1, <1>8, <1>9, <2>1, <2>2 DEF Sound
<1>10. CASE r.heard
  <2>0. new \in Nat
    BY <1>6a, <1>7 DEF Conformance
  <2>1. /\ k \in Seq(Handle) /\ DOMAIN k = DOMAIN d.h
        /\ \A y \in DOMAIN d.h :
             /\ k[y].name = d.h[y].name /\ k[y].freed = d.h[y].freed
             /\ k[y].next = d.h[y].next /\ k[y].prev = d.h[y].prev
             /\ \A l \in Module : k[y].conformance[l] =
                  IF y = p.at /\ l = p.mod THEN new ELSE d.h[y].conformance[l]
    <3>1. k = [d.h EXCEPT ![p.at].conformance[p.mod] = new]
      OBVIOUS
    <3> HIDE DEF new, k
    <3>2. Graded(d.h, k, p.at, p.mod, new)
      BY <3>1, <2>0, <1>2, <1>4, <1>5, ConformanceFacts
    <3>3. QED BY <3>2 DEF Graded
  <2>2. e = [d EXCEPT !.h = k]
    OBVIOUS
  <2> HIDE DEF k, new
  <2>3. /\ e.h = k /\ e.list = d.list /\ e.cur = d.cur /\ e.depth = d.depth
        /\ e \in DataSet
    BY <1>2, <2>1, <2>2 DEF DataSet
  <2> HIDE DEF e
  <2>4. SameLinks(d, e) /\ (e.cur # NIL => Live(e.h, e.cur))
    BY <1>1, <2>1, <2>3 DEF SameLinks, Live, DataOK
  <2>5. DataOK(e) /\ \A x : Live(e.h, x) <=> Live(d.h, x)
    BY <1>1, <2>3, <2>4, LinksStay
  <2>6. new # NULL
    BY <2>0, NullAssumption
  <2>7. \A x : \A l \in Module : Loaded(e.h, x, l) <=> Loaded(d.h, x, l)
    BY <1>4, <1>5, <2>1, <2>3, <2>5, <2>6 DEF Loaded, Live
  <2>8. \A i \in DOMAIN stk : stk[i].kind = "parser" => stk[i].mod \in Module
    BY <1>1, FrameFacts DEF FramesOK
  <2>9. FramesOK(e, stk)
    BY <1>1, <2>3, <2>7, <2>8 DEF FramesOK
  <2>10. RaisedOK(e, S)
    <3>1. \A q \in S : q.mod \in Module
      BY <1>1 DEF RaisedOK, Report
    <3>2. S \subseteq Report
      BY <1>1 DEF RaisedOK
    <3>3. \A q \in S : Loaded(d.h, q.at, q.mod)
      BY <1>1, <1>4 DEF RaisedOK
    <3>4. QED BY <3>1, <3>2, <3>3, <2>7 DEF RaisedOK
  <2>11. DepthOK(e, stk, n)
    BY <1>1, <2>3 DEF DepthOK
  <2>12. SmallestOK(e, S)
    <3> SUFFICES ASSUME NEW x \in DOMAIN e.h, NEW m \in Module, Loaded(e.h, x, m),
                        \A q \in Own(S, x, m) : q.heard /\ q.severity # 0
                 PROVE  /\ Own(S, x, m) = {} => e.h[x].conformance[m] = 0
                        /\ Own(S, x, m) # {} =>
                             \E q \in Own(S, x, m) :
                               e.h[x].conformance[m] = q.severity
                        /\ \A q \in Own(S, x, m) :
                             e.h[x].conformance[m] <= q.severity
      BY DEF SmallestOK
    <3>1. x \in DOMAIN d.h /\ Loaded(d.h, x, m)
      BY <2>1, <2>3, <2>7
    <3>2. CASE ~(x = p.at /\ m = p.mod)
      <4>1. Own(S, x, m) = Own(R, x, m)
        BY <3>2 DEF Own
      <4>2. e.h[x].conformance[m] = d.h[x].conformance[m]
        BY <3>1, <3>2, <2>1, <2>3
      <4> HIDE DEF S
      <4>3. QED BY <3>1, <4>1, <4>2, <1>1 DEF SmallestOK
    <3>3. CASE x = p.at /\ m = p.mod
      <4>1. Own(S, x, m) = Own(R, x, m) \cup {r}
        BY <3>3 DEF Own
      <4>2. e.h[x].conformance[m] = new
        BY <3>1, <3>3, <2>1, <2>3
      <4> HIDE DEF S
      <4>3. \A q \in Own(R, x, m) : q.heard /\ q.severity # 0
        BY <4>1
      <4>4. r.severity # 0
        BY <4>1
      <4>5. /\ Own(R, x, m) = {} => old = 0
            /\ Own(R, x, m) # {} => \E q \in Own(R, x, m) : old = q.severity
            /\ \A q \in Own(R, x, m) : old <= q.severity
        BY <3>1, <3>3, <4>3, <1>1 DEF SmallestOK
      <4>6. \A q \in Own(R, x, m) : q.severity \in Nat
        BY <1>1 DEF Own, RaisedOK, Report
      <4>7. new = IF old > r.severity \/ old = 0 THEN r.severity ELSE old
        BY DEF new, Conformance
      <4> HIDE DEF old
      <4>8. CASE Own(R, x, m) = {}
        BY <4>1, <4>2, <4>5, <4>7, <4>8, <1>7
      <4>9. CASE Own(R, x, m) # {}
        <5>1. PICK q \in Own(R, x, m) : old = q.severity
          BY <4>5, <4>9
        <5>2. old # 0
          BY <5>1, <4>3
        <5>3. CASE old > r.severity
          <6>1. new = r.severity
            BY <5>3, <4>7
          <6>2. \A z \in Own(R, x, m) : new <= z.severity
            BY <6>1, <5>3, <4>5, <4>6, <1>6a, <1>7
          <6>3. QED BY <6>1, <6>2, <4>1, <4>2, <1>7
        <5>4. CASE ~(old > r.severity)
          <6>1. new = old /\ old <= r.severity
            BY <5>2, <5>4, <4>7, <1>6a, <1>7
          <6>2. QED BY <6>1, <5>1, <4>1, <4>2, <4>5
        <5>5. QED BY <5>3, <5>4
      <4>10. QED BY <4>8, <4>9
    <3>4. QED BY <3>2, <3>3
  <2>13. QED BY <1>8, <1>10, <2>5, <2>9, <2>10, <2>11, <2>12 DEF Sound, e
<1>11. QED BY <1>9, <1>10

LEMMA SetFacts == ASSUME NEW d \in DataSet, Set(d) PROVE Data' = d
<1>1. d = [h |-> d.h, list |-> d.list, cur |-> d.cur, depth |-> d.depth]
  BY DEF DataSet
<1>2. Data' = [h |-> handle', list |-> list', cur |-> smiHandle',
               depth |-> smiDepth']
  BY DEF Data
<1>3. QED BY <1>1, <1>2 DEF Set

LEMMA SoundFacts ==
  ASSUME NEW d, NEW stk, NEW R, NEW n, Sound(d, stk, R, n)
  PROVE  /\ d \in DataSet /\ Linked(d.h, d.list) /\ OneTag(d.h)
         /\ d.h \in Seq(Handle) /\ d.list \in [first : Nat, last : Nat]
         /\ Len(d.h) \in Nat /\ DOMAIN d.h = 1 .. Len(d.h)
         /\ d.cur \in Nat /\ (d.cur # NIL => Live(d.h, d.cur))
         /\ (d.cur # NIL => d.cur \in DOMAIN d.h)
         /\ stk \in Seq(Frame) /\ (stk # <<>> => d.cur # NIL)
         /\ Len(stk) \in Nat /\ DOMAIN stk = 1 .. Len(stk)
         /\ \A i \in DOMAIN stk :
              stk[i].kind = "parser" => Loaded(d.h, stk[i].at, stk[i].mod)
<1>1. DataOK(d) /\ FramesOK(d, stk)
  BY DEF Sound
<1>2. d \in DataSet
  BY <1>1 DEF DataOK
<1>3. stk \in Seq(Frame)
  BY <1>1 DEF FramesOK
<1>4. QED BY <1>1, <1>2, <1>3, DataFields DEF DataOK, FramesOK, Live

\* What the filter takes for the depth of imports is right.
LEMMA DepthMeans ==
  ASSUME NEW stk \in Seq(Frame), stk # <<>>, Shape(stk),
         stk[Len(stk)].kind = "parser"
  PROVE  Depth(stk) = 1 <=> ~Imported(stk)
<1> DEFINE c == One(stk[1].kind = "config")
<1>1. Len(stk) \in Nat /\ Len(stk) >= 1 /\ DOMAIN stk = 1 .. Len(stk)
  OBVIOUS
<1>2. Depth(stk) = Len(stk) - c
  <2>1. One(stk[Len(stk)].kind = "handler") = 0
    BY DEF One
  <2>2. c \in Int
    BY DEF One
  <2> HIDE DEF c
  <2>3. Len(stk) - c - 0 = Len(stk) - c
    BY <2>2, <1>1
  <2> USE DEF c
  <2>4. QED BY <2>1, <2>3 DEF Depth
<1>3. ASSUME Len(stk) > 1
      PROVE  stk[Len(stk) - 1].kind = "parser"
               <=> ~(Len(stk) = 2 /\ stk[1].kind = "config")
  <2>1. Len(stk) - 1 \in DOMAIN stk /\ stk[Len(stk) - 1] \in Frame
    BY <1>1, <1>3
  <2>2. stk[Len(stk) - 1].kind \in {"parser", "config", "handler"}
    BY <2>1, FrameFacts
  <2>3. stk[Len(stk) - 1].kind # "handler"
    BY <2>1, <1>1 DEF Shape
  <2>4. stk[Len(stk) - 1].kind = "config" => Len(stk) = 2
    BY <2>1, <1>1 DEF Shape
  <2>5. Len(stk) = 2 => Len(stk) - 1 = 1
    OBVIOUS
  <2>6. QED BY <2>2, <2>3, <2>4, <2>5
<1>4. Len(stk) = 1 => stk[1].kind # "config"
  OBVIOUS
<1>5. Imported(stk) <=> Len(stk) > 1 /\ ~(Len(stk) = 2 /\ stk[1].kind = "config")
  BY <1>3 DEF Imported
<1>6. CASE stk[1].kind = "config"
  <2>1. c = 1
    BY <1>6 DEF One
  <2>2. QED BY <2>1, <1>1, <1>2, <1>4, <1>5, <1>6
<1>7. CASE stk[1].kind # "config"
  <2>1. c = 0
    BY <1>7 DEF One
  <2>2. QED BY <2>1, <1>1, <1>2, <1>5, <1>7
<1>8. QED BY <1>6, <1>7

\* An error that a parser raises is told as it was asked for.
LEMMA ToldMeans ==
  ASSUME NEW d, NEW stk, NEW R, NEW n, Sound(d, stk, R, n), stk # <<>>,
         NEW p, p = stk[Len(stk)], p.kind = "parser", NEW s \in Nat,
         NEW r, r = [at |-> p.at, mod |-> p.mod, severity |-> s,
                     flags |-> p.flags, level |-> d.h[d.cur].level,
                     imported |-> Imported(stk),
                     heard |-> d.h[d.cur].handler # NULL,
                     told |-> Told(d, p, s)]
  PROVE  r \in Report /\ (n = FALSE => AsAsked(r))
<1>1. p \in Frame /\ d.cur \in DOMAIN d.h /\ d.h \in Seq(Handle)
  <2>1. Len(stk) \in DOMAIN stk /\ stk \in Seq(Frame)
    BY SoundFacts
  <2>2. QED BY <2>1, SoundFacts
<1>2. p.at \in Nat /\ p.mod \in Module /\ p.flags \in SUBSET Flag
  BY <1>1, FrameFacts
<1>3. d.h[d.cur].level \in Nat
  BY <1>1, HandleFields
<1>4. Imported(stk) \in BOOLEAN /\ Told(d, p, s) \in BOOLEAN
  BY DEF Imported, Told
<1>5. r \in Report
  BY <1>2, <1>3, <1>4 DEF Report
<1>6. ASSUME n = FALSE PROVE d.depth = 1 <=> ~Imported(stk)
  <2>1. Shape(stk) /\ d.depth = Depth(stk)
    BY <1>6 DEF Sound, DepthOK
  <2>2. stk \in Seq(Frame)
    BY SoundFacts
  <2>3. QED BY <2>1, <2>2, DepthMeans
<1>7. /\ r.told = Told(d, p, s) /\ r.heard = (d.h[d.cur].handler # NULL)
      /\ r.severity = s /\ r.flags = p.flags /\ r.level = d.h[d.cur].level
      /\ r.imported = Imported(stk)
  OBVIOUS
<1>8. ASSUME n = FALSE PROVE AsAsked(r)
  BY <1>6, <1>7, <1>8 DEF AsAsked, Told
<1>9. QED BY <1>5, <1>8

-----------------------------------------------------------------------------
(* The steps                                                               *)

LEMMA SeverityFacts ==
  ASSUME errors \in [Error -> Severity], NEW e \in Error
  PROVE  errors[e] \in Nat
BY DEF Severity, Stated, IGNORE

Status == {"running", "crashed", "exited"}

\* The handler is called with a message.
LEMMA HandleSound ==
  ASSUME NEW d, NEW stk, NEW R, NEW n, Sound(d, stk, R, n), d.cur # NIL,
         stk = <<>> \/ stk[Len(stk)].kind # "handler",
         NEW told, NEW s, status \in Status, NEW c, Handle1(c, told, s, stk)
  PROVE  status' \in Status /\ Sound(d, stack', R, n)
<1>1. status' \in Status
  BY DEF Handle1, Status
<1> DEFINE f == [kind |-> "handler"]
<1>2. f \in Frame /\ f.kind = "handler"
  BY DEF Frame
<1> HIDE DEF f
<1>3. Sound(d, Append(stk, f), R, n)
  BY <1>2, PushSound
<1> USE DEF f
<1>4. stack' = stk \/ stack' = Append(stk, f)
  BY DEF Handle1
<1>5. QED BY <1>1, <1>3, <1>4

LEMMA PrintErrorSound ==
  ASSUME NEW d, NEW stk, Sound(d, stk, raised, nested), stk # <<>>,
         stk[Len(stk)].kind = "parser", status \in Status,
         errors \in [Error -> Severity], NEW e \in Error, PrintError(d, e, stk)
  PROVE  status' \in Status /\ Sound(Data', stack', raised', nested)
<1> DEFINE p == stk[Len(stk)]
           s == errors[e]
           r == [at |-> p.at, mod |-> p.mod, severity |-> s,
                 flags |-> p.flags, level |-> d.h[d.cur].level,
                 imported |-> Imported(stk),
                 heard |-> d.h[d.cur].handler # NULL,
                 told |-> Told(d, p, s)]
           k == IF d.h[d.cur].handler # NULL
                THEN [d EXCEPT !.h[p.at].conformance[p.mod] =
                                 Conformance(@, s)]
                ELSE d
<1>1. Set(k) /\ Handle1(d, Told(d, p, s), s, stk) /\ raised' = raised \cup {r}
  BY DEF PrintError
<1>2. s \in Nat
  BY SeverityFacts
<1>3. r \in Report /\ (nested = FALSE => AsAsked(r))
  <2>1. p = stk[Len(stk)] /\ p.kind = "parser"
    OBVIOUS
  <2> HIDE DEF p, s
  <2>2. QED BY <2>1, <1>2, ToldMeans
<1>4. /\ r.at = p.at /\ r.mod = p.mod /\ r.severity = s
      /\ r.heard = (d.h[d.cur].handler # NULL)
  OBVIOUS
<1>5. k = IF r.heard THEN [d EXCEPT !.h[p.at].conformance[p.mod] =
                                      Conformance(@, r.severity)]
          ELSE d
  BY <1>4
<1>6. Sound(k, stk, raised \cup {r}, nested)
  <2>1. p = stk[Len(stk)] /\ p.kind = "parser"
    OBVIOUS
  <2> HIDE DEF p, k, r, s
  <2>2. QED BY <2>1, <1>3, <1>4, <1>5, ReportSound, Zenon
<1> HIDE DEF k, r
<1>7. Data' = k /\ k.cur # NIL
  BY <1>1, <1>6, SetFacts, SoundFacts
<1>8. status' \in Status /\ Sound(k, stack', raised \cup {r}, nested)
  BY <1>1, <1>6, <1>7, HandleSound
<1>9. QED BY <1>1, <1>7, <1>8

LEMMA PrintErrorAnywaySound ==
  ASSUME NEW d, NEW stk, Sound(d, stk, raised, nested), d.cur # NIL,
         stk = <<>> \/ stk[Len(stk)].kind # "handler", status \in Status,
         NEW e, PrintErrorAnyway(d, e, stk)
  PROVE  status' \in Status /\ Sound(Data', stack', raised', nested)
<1>1. /\ Set(d) /\ Handle1(d, ToldAnyway(d, errors[e]), errors[e], stk)
      /\ raised' = raised
  BY DEF PrintErrorAnyway
<1>2. Data' = d
  BY <1>1, SetFacts, SoundFacts
<1>3. QED BY <1>1, <1>2, HandleSound

\* smiGetModulePath() finds a text.
LEMMA ParserFacts ==
  ASSUME NEW d \in DataSet, d.cur \in DOMAIN d.h, NEW m \in Module,
         Found(d, m) # 0
  PROVE  /\ Parser(d, m) \in Frame /\ Parser(d, m).kind = "parser"
         /\ Parser(d, m).at = d.cur /\ Parser(d, m).mod = m
<1> DEFINE path == d.h[d.cur].path
           hits == {i \in DOMAIN path : m \in DOMAIN Text[path[i]]}
           i == Min(hits)
<1>1. path \in Seq(Dir) /\ d.h[d.cur].flags \in SUBSET Flag /\ d.cur \in Nat
  BY HandleFields, DataFields
<1>2. Found(d, m) = i /\ hits # {}
  BY DEF Found
<1>3. hits \subseteq Nat
  BY <1>1
<1>4. i \in hits
  <2> HIDE DEF hits
  <2>1. QED BY <1>2, <1>3, MinFacts
<1> HIDE DEF i
<1>5. path[i] \in Dir /\ m \in DOMAIN Text[path[i]]
  BY <1>1, <1>4
<1>6. Text[path[i]][m] \in Seq(Statement)
  BY <1>5, TextAssumption
<1>7. Parser(d, m) = [kind |-> "parser", mod |-> m, at |-> d.cur,
                      flags |-> d.h[d.cur].flags, rest |-> Text[path[i]][m]]
  BY <1>2 DEF Parser
<1> HIDE DEF path
<1>8. QED BY <1>1, <1>6, <1>7 DEF Frame

LEMMA LoadStep ==
  ASSUME NEW d, NEW stk, Sound(d, stk, raised, nested), d.cur # NIL,
         stk = <<>> \/ stk[Len(stk)].kind # "handler", status \in Status,
         errors \in [Error -> Severity], NEW m \in Module, Load(d, m, stk)
  PROVE  status' \in Status /\ Sound(Data', stack', raised', nested)
<1>1. CASE /\ d.h[d.cur].conformance[m] # NULL
           /\ Set(d) /\ stack' = stk /\ UNCHANGED <<status, raised>>
  BY <1>1, SetFacts, SoundFacts
<1>2. CASE /\ d.h[d.cur].conformance[m] = NULL /\ Found(d, m) # 0
           /\ Set([d EXCEPT !.h[d.cur].conformance[m] = 0, !.depth = @ + 1])
           /\ stack' = Append(stk, Parser(d, m))
           /\ UNCHANGED <<status, raised>>
  <2> DEFINE e == [d EXCEPT !.h[d.cur].conformance[m] = 0, !.depth = @ + 1]
             p == Parser(d, m)
  <2>1. p \in Frame /\ p.kind = "parser" /\ p.at = d.cur /\ p.mod = m
    BY <1>2, ParserFacts, SoundFacts
  <2>2. Sound(e, Append(stk, p), raised, nested)
    <3> HIDE DEF p
    <3>1. QED BY <1>2, <2>1, LoadSound, Zenon
  <2> HIDE DEF e, p
  <2>3. Set(e) /\ stack' = Append(stk, p) /\ UNCHANGED <<status, raised>>
    BY <1>2 DEF e, p
  <2>4. Data' = e
    BY <2>2, <2>3, SetFacts, SoundFacts
  <2>5. QED BY <2>2, <2>3, <2>4
<1>3. CASE /\ d.h[d.cur].conformance[m] = NULL /\ Found(d, m) = 0
           /\ IF stk # <<>> /\ stk[Len(stk)].kind = "parser"
              THEN PrintError(d, NOT_FOUND, stk)
              ELSE PrintErrorAnyway(d, NOT_FOUND, stk)
  BY <1>3, PrintErrorSound, PrintErrorAnywaySound, ErrorAssumption
<1>4. QED BY <1>1, <1>2, <1>3 DEF Load

\* A setting is changed.
LEMMA ChangeSound ==
  ASSUME NEW d, NEW stk, NEW R, NEW n, Sound(d, stk, R, n), d.cur # NIL
  PROVE  /\ \A l \in Nat : Sound([d EXCEPT !.h[d.cur].level = l], stk, R, n)
         /\ \A f \in SUBSET Flag :
              Sound([d EXCEPT !.h[d.cur].flags = f], stk, R, n)
         /\ \A f \in Handler :
              Sound([d EXCEPT !.h[d.cur].handler = f], stk, R, n)
         /\ \A path \in Seq(Dir) :
              Sound([d EXCEPT !.h[d.cur].path = path], stk, R, n)
<1> DEFINE g == d.h[d.cur]
           Same(k) == /\ k \in Handle /\ k.name = g.name /\ k.freed = g.freed
                      /\ k.next = g.next /\ k.prev = g.prev
                      /\ k.conformance = g.conformance
<1>1. g \in Handle
  BY SoundFacts, HandleFields
<1>2. ASSUME NEW k, Same(k) PROVE Sound([d EXCEPT !.h[d.cur] = k], stk, R, n)
  BY <1>2, ReplaceSound
<1>3. ASSUME NEW l \in Nat
      PROVE  Sound([d EXCEPT !.h[d.cur].level = l], stk, R, n)
  <2> DEFINE k == [g EXCEPT !.level = l]
  <2>1. Same(k)
    <3> HIDE DEF g
    <3>1. QED BY <1>1, HandleUpdates DEF Handle
  <2>2. Sound([d EXCEPT !.h[d.cur] = k], stk, R, n)
    <3> HIDE DEF k, Same
    <3>1. QED BY <1>2, <2>1
  <2>3. QED BY <2>2
<1>4. ASSUME NEW f \in SUBSET Flag
      PROVE  Sound([d EXCEPT !.h[d.cur].flags = f], stk, R, n)
  <2> DEFINE k == [g EXCEPT !.flags = f]
  <2>1. Same(k)
    <3> HIDE DEF g
    <3>1. QED BY <1>1, HandleUpdates DEF Handle
  <2>2. Sound([d EXCEPT !.h[d.cur] = k], stk, R, n)
    <3> HIDE DEF k, Same
    <3>1. QED BY <1>2, <2>1
  <2>3. QED BY <2>2
<1>5. ASSUME NEW f \in Handler
      PROVE  Sound([d EXCEPT !.h[d.cur].handler = f], stk, R, n)
  <2> DEFINE k == [g EXCEPT !.handler = f]
  <2>1. Same(k)
    <3> HIDE DEF g
    <3>1. QED BY <1>1, HandleUpdates DEF Handle
  <2>2. Sound([d EXCEPT !.h[d.cur] = k], stk, R, n)
    <3> HIDE DEF k, Same
    <3>1. QED BY <1>2, <2>1
  <2>3. QED BY <2>2
<1>6. ASSUME NEW path \in Seq(Dir)
      PROVE  Sound([d EXCEPT !.h[d.cur].path = path], stk, R, n)
  <2> DEFINE k == [g EXCEPT !.path = path]
  <2>1. Same(k)
    <3> HIDE DEF g
    <3>1. QED BY <1>1, HandleUpdates DEF Handle
  <2>2. Sound([d EXCEPT !.h[d.cur] = k], stk, R, n)
    <3> HIDE DEF k, Same
    <3>1. QED BY <1>2, <2>1
  <2>3. QED BY <2>2
<1>7. QED BY <1>3, <1>4, <1>5, <1>6

PathOps == {"append", "prepend", "replace"}

LEMMA PathFacts ==
  ASSUME NEW op \in PathOps, NEW path \in Seq(Dir), NEW dir \in Dir
  PROVE  NewPath(op, path, dir) \in Seq(Dir)
<1>1. CASE op = "append"
  BY <1>1 DEF NewPath
<1>2. CASE op = "prepend"
  BY <1>2 DEF NewPath
<1>3. CASE op = "replace"
  BY <1>3 DEF NewPath
<1>4. QED BY <1>1, <1>2, <1>3 DEF PathOps

LEMMA CommandFacts ==
  ASSUME NEW c \in Command
  PROVE  /\ c.op = "level" => c.arg \in Nat
         /\ c.op = "hide" => c.arg \in SUBSET Error
         /\ c.op = "load" => c.arg \in Module
         /\ c.op \in PathOps => c.arg \in Dir
BY DEF Command, PathOps

LEMMA StatementFacts ==
  ASSUME NEW c \in Statement
  PROVE  /\ c.op = "import" => c.arg \in Module
         /\ c.op = "error" => c.arg \in Error
BY DEF Statement

\* The data set that smiInit(NULL) opens.
Untagged(d) ==
  LET o == AddHandle(d, NULL)
  IN  [o EXCEPT !.h[o.cur].path = NewPath(SmiPath.op, @, SmiPath.arg)]

LEMMA UntaggedSound ==
  ASSUME NEW d, NEW stk, NEW R, NEW n \in BOOLEAN, Sound(d, stk, R, n),
         NEW k \in BOOLEAN, k = FALSE => n = FALSE /\ stk = <<>>
  PROVE  Sound(Untagged(d), stk, R, k) /\ Untagged(d).cur # NIL
<1> DEFINE o == AddHandle(d, NULL)
           path == NewPath(SmiPath.op, o.h[o.cur].path, SmiPath.arg)
           e == [o EXCEPT !.h[o.cur].path = path]
<1>1. NULL \in Tag \cup {NULL} /\ DataOK(d)
  BY DEF Sound
<1>2. Sound(o, stk, R, k)
  BY <1>1, AddSound
<1>3. o.cur # NIL
  <2>1. o.cur = Len(d.h) + 1
    BY DEF AddHandle
  <2>2. QED BY <2>1, SoundFacts DEF NIL
<1>4. Untagged(d) = e
  BY DEF Untagged
<1> HIDE DEF o
<1>5. o.h[o.cur].path \in Seq(Dir) /\ o \in DataSet
  BY <1>2, <1>3, SoundFacts, HandleFields
<1>6. path \in Seq(Dir)
  BY <1>5, PathFacts, CommandFacts, ConfigAssumption DEF PathOps
<1> HIDE DEF path
<1>7. Sound(e, stk, R, k)
  BY <1>2, <1>3, <1>6, ChangeSound
<1>8. e.cur = o.cur
  BY <1>5 DEF DataSet
<1>9. QED BY <1>3, <1>4, <1>7, <1>8

LEMMA EnsuredDef ==
  Ensured = IF smiHandle # NIL THEN Data ELSE Untagged(Data)
BY DEF Ensured, Untagged

LEMMA EnsuredSound ==
  ASSUME Sound(Data, stack, raised, nested), nested \in BOOLEAN
  PROVE  Sound(Ensured, stack, raised, nested) /\ Ensured.cur # NIL
<1>1. Data.cur = smiHandle
  BY DEF Data
<1>2. CASE smiHandle # NIL
  BY <1>1, <1>2, EnsuredDef
<1>3. CASE smiHandle = NIL
  <2>1. stack = <<>>
    BY <1>1, <1>3, SoundFacts
  <2> DEFINE d == Data
  <2> HIDE DEF d
  <2>2. Sound(d, stack, raised, nested)
    BY DEF d
  <2>3. Sound(Untagged(d), stack, raised, nested) /\ Untagged(d).cur # NIL
    BY <2>1, <2>2, UntaggedSound
  <2>4. QED BY <2>3, <1>3, EnsuredDef DEF d
<1>4. QED BY <1>2, <1>3

LEMMA SeverityChange ==
  ASSUME errors \in [Error -> Severity], NEW pattern,
         NEW s \in Stated \cup {IGNORE, -1}, Severe(pattern, s)
  PROVE  errors' \in [Error -> Severity]
<1>1. ASSUME NEW old \in Severity PROVE NewSeverity(old, s) \in Severity
  <2>1. PICK t \in Stated : old = t \/ old = IGNORE + t
    BY DEF Severity
  <2>2. old % IGNORE = t
    BY <2>1 DEF Stated, IGNORE
  <2>3. CASE s = IGNORE
    <3>1. NewSeverity(old, s) = t + IGNORE
      BY <2>2, <2>3 DEF NewSeverity, Stated, IGNORE
    <3>2. QED BY <3>1 DEF Severity, Stated, IGNORE
  <2>4. CASE s = -1
    <3>1. NewSeverity(old, s) = t
      BY <2>2, <2>4 DEF NewSeverity, Stated, IGNORE
    <3>2. QED BY <3>1 DEF Severity
  <2>5. CASE s \in Stated
    <3>1. NewSeverity(old, s) = s
      BY <2>5 DEF NewSeverity, Stated, IGNORE
    <3>2. QED BY <3>1, <2>5 DEF Severity
  <2>6. QED BY <2>3, <2>4, <2>5
<1>2. QED BY <1>1 DEF Severe

\* What follows one by one: a step of the session keeps what is sound.
Keeps == /\ status' \in Status /\ errors' \in [Error -> Severity]
         /\ nested' \in BOOLEAN
         /\ Sound(Data', stack', raised', nested')

LEMMA SetSound ==
  ASSUME NEW d, NEW stk, NEW R, NEW n, Sound(d, stk, R, n), Set(d)
  PROVE  Sound(Data', stk, R, n)
BY SetFacts, SoundFacts

LEMMA TopFacts ==
  ASSUME SInv, stack # <<>>
  PROVE  /\ Top \in Frame /\ Data.cur # NIL
         /\ Top.kind = "parser" => Top.rest \in Seq(Statement)
         /\ Top.kind = "config" => Top.rest \in Seq(Command)
<1>1. Sound(Data, stack, raised, nested)
  BY DEF SInv
<1>2. stack \in Seq(Frame) /\ Data.cur # NIL
  BY <1>1, SoundFacts
<1>3. Top \in Frame
  BY <1>2 DEF Top
<1>4. QED BY <1>2, <1>3, FrameFacts

\* The statement, or command, that comes next.
LEMMA ArgumentFacts ==
  ASSUME SInv, stack # <<>>, Top.rest # <<>>
  PROVE  /\ Top.kind = "parser" => Head(Top.rest) \in Statement
         /\ Top.kind = "config" => Head(Top.rest) \in Command
BY TopFacts

LEMMA SInvFacts ==
  ASSUME SInv
  PROVE  /\ errors \in [Error -> Severity] /\ status \in Status
         /\ calls \in 0 .. MaxCalls /\ nested \in BOOLEAN
         /\ Sound(Data, stack, raised, nested)
         /\ Data.cur = smiHandle /\ Data.h = handle /\ Data.list = list
BY DEF SInv, ProcessOK, Status, Data

LEMMA DoneFacts ==
  ASSUME SInv, stack # <<>>, Top.kind \in {"parser", "config"}, Top.rest # <<>>
  PROVE  /\ Sound(Data, Done, raised, nested) /\ Data.cur # NIL
         /\ Done # <<>> /\ Done[Len(Done)].kind = Top.kind
<1>1. Sound(Data, stack, raised, nested) /\ Data.cur # NIL
  BY TopFacts DEF SInv
<1>2. Len(stack) \in DOMAIN stack
  BY <1>1, SoundFacts
<1> DEFINE b == [stack EXCEPT ![Len(stack)].rest = Tail(@)]
           d == Data
<1>3. /\ Sound(d, b, raised, nested) /\ b # <<>> /\ Len(b) = Len(stack)
      /\ \A i \in DOMAIN stack : b[i].kind = stack[i].kind
  <2>1. Sound(d, stack, raised, nested)
    BY <1>1
  <2>2. stack[Len(stack)].kind \in {"parser", "config"}
        /\ stack[Len(stack)].rest # <<>>
    BY DEF Top
  <2> HIDE DEF d
  <2>3. QED BY <2>1, <2>2, DoneSound, Zenon
<1>4. Done = b
  BY DEF Done
<1> HIDE DEF b
<1>5. QED BY <1>1, <1>2, <1>3, <1>4 DEF Top

\* In the middle of a load.
LEMMA ParsingSound ==
  ASSUME SInv, Import \/ Complain PROVE Keeps
<1>1. /\ stack # <<>> /\ Top.kind = "parser" /\ Top.rest # <<>>
      /\ Head(Top.rest).op = IF Import THEN "import" ELSE "error"
  BY DEF Import, Complain, Parsing
<1>2. Head(Top.rest) \in Statement
  BY <1>1, ArgumentFacts
<1>3. /\ Sound(Data, Done, raised, nested) /\ Data.cur # NIL
      /\ Done # <<>> /\ Done[Len(Done)].kind = "parser"
  BY <1>1, DoneFacts
<1>4. UNCHANGED <<errors, nested>>
  BY DEF Import, Complain
<1>5. status' \in Status /\ Sound(Data', stack', raised', nested)
  <2> DEFINE d == Data
             b == Done
  <2>1. Sound(d, b, raised, nested) /\ d.cur # NIL
        /\ b # <<>> /\ b[Len(b)].kind = "parser"
    BY <1>3
  <2>2. CASE Import
    <3>1. Load(d, Argument, b)
      BY <2>2 DEF Import
    <3>2. Argument \in Module
      BY <1>1, <1>2, <2>2, StatementFacts DEF Argument
    <3> HIDE DEF d, b
    <3>3. QED BY <2>1, <3>1, <3>2, SInvFacts, LoadStep
  <2>3. CASE ~Import
    <3>1. PrintError(d, Argument, b)
      BY <2>3 DEF Complain
    <3>2. Argument \in Error
      BY <1>1, <1>2, <2>3, StatementFacts DEF Argument
    <3> HIDE DEF d, b
    <3>3. QED BY <2>1, <3>1, <3>2, SInvFacts, PrintErrorSound
  <2>4. QED BY <2>2, <2>3
<1>6. QED BY <1>4, <1>5, SInvFacts DEF Keeps

LEMMA EndSound ==
  ASSUME SInv, EndOfFile \/ HandlerReturns \/ EndOfConfig PROVE Keeps
<1>1. /\ stack # <<>> /\ stack' = Below
      /\ UNCHANGED <<handle, list, smiHandle, errors, status, raised, nested>>
      /\ smiDepth' = smiDepth - One(Top.kind = "parser")
  <2>1. Sound(Data, stack, raised, nested)
    BY DEF SInv
  <2>2. smiDepth \in Int
    <3>1. Data \in DataSet
      BY <2>1, SoundFacts
    <3>2. Data.depth \in Int
      BY <3>1, DataFields
    <3>3. QED BY <3>2 DEF Data
  <2>3. CASE EndOfFile
    BY <2>3 DEF EndOfFile, LeaveDepth, One
  <2>4. CASE HandlerReturns \/ EndOfConfig
    <3>1. One(Top.kind = "parser") = 0
      BY <2>4 DEF HandlerReturns, EndOfConfig, One
    <3>2. QED BY <2>2, <2>4, <3>1 DEF HandlerReturns, EndOfConfig
  <2>5. QED BY <2>3, <2>4
<1> DEFINE d == Data
           e == Data'
<1>2. Sound(d, stack, raised, nested)
  BY DEF SInv
<1>3. /\ e.h = d.h /\ e.list = d.list /\ e.cur = d.cur
      /\ e.depth = d.depth - One(stack[Len(stack)].kind = "parser")
  BY <1>1 DEF Data, Top
<1>4. e \in DataSet
  <2>1. d \in DataSet /\ d.depth \in Int
    BY <1>2, SoundFacts, DataFields
  <2>2. e = [h |-> handle, list |-> list, cur |-> smiHandle,
             depth |-> smiDepth - One(Top.kind = "parser")]
    BY <1>1 DEF Data
  <2>3. d = [h |-> handle, list |-> list, cur |-> smiHandle, depth |-> smiDepth]
    BY DEF Data
  <2> HIDE DEF d, e
  <2>4. smiDepth \in Int
    BY <2>1, <2>3
  <2>5. smiDepth - One(Top.kind = "parser") \in Int
    BY <2>4 DEF One
  <2>6. QED BY <2>1, <2>2, <2>3, <2>5 DEF DataSet
<1>5. Sound(e, SubSeq(stack, 1, Len(stack) - 1), raised, nested)
  <2> HIDE DEF d, e
  <2>1. QED BY <1>1, <1>2, <1>3, <1>4, PopSound
<1>6. QED BY <1>1, <1>5, SInvFacts DEF Keeps, Below

\* Calls of the application, and of its handler.
LEMMA SettingStep ==
  ASSUME SInv, NEW d, NEW b, Sound(d, b, raised, nested), Set(d),
         stack' = b, UNCHANGED <<status, raised, nested>>,
         errors' \in [Error -> Severity]
  PROVE  Keeps
<1>1. Sound(Data', b, raised, nested)
  BY SetSound
<1>2. QED BY <1>1, SInvFacts DEF Keeps

LEMMA SettingSteps ==
  ASSUME SInv,
         \/ \E l \in Levels : smiSetErrorLevel(l)
         \/ \E f \in Flags : smiSetFlags(f)
         \/ \E f \in Handler : smiSetErrorHandler(f)
         \/ \E p \in Patterns, s \in Severities : smiSetSeverity(p, s)
         \/ \E path \in Paths : smiSetPath(path)
  PROVE  Keeps
<1>1. /\ Sound(Data, stack, raised, nested) /\ nested \in BOOLEAN
      /\ errors \in [Error -> Severity] /\ Data.cur = smiHandle
  BY SInvFacts
<1>2. Sound(Ensured, stack, raised, nested) /\ Ensured.cur # NIL
  BY <1>1, EnsuredSound
<1>3. /\ Levels \subseteq Nat /\ Flags \subseteq SUBSET Flag
      /\ Severities \subseteq Stated \cup {IGNORE, -1}
      /\ Paths \subseteq Seq(Dir)
  BY CallAssumption
<1>4. CASE \E l \in Levels : smiSetErrorLevel(l)
  <2>1. PICK l \in Levels : smiSetErrorLevel(l)
    BY <1>4
  <2> DEFINE d == Ensured
  <2>2. /\ Set([d EXCEPT !.h[d.cur].level = l]) /\ Setting(stack)
        /\ errors' = errors
    BY <2>1 DEF smiSetErrorLevel
  <2>3. Sound(d, stack, raised, nested) /\ d.cur # NIL
    BY <1>2
  <2> HIDE DEF d
  <2>4. Sound([d EXCEPT !.h[d.cur].level = l], stack, raised, nested)
    BY <2>3, <1>3, ChangeSound
  <2>5. QED BY <2>2, <2>4, <1>1, SettingStep DEF Setting
<1>5. CASE \E f \in Flags : smiSetFlags(f)
  <2>1. PICK f \in Flags : smiSetFlags(f)
    BY <1>5
  <2> DEFINE d == Ensured
  <2>2. /\ Set([d EXCEPT !.h[d.cur].flags = f]) /\ Setting(stack)
        /\ errors' = errors
    BY <2>1 DEF smiSetFlags
  <2>3. Sound(d, stack, raised, nested) /\ d.cur # NIL
    BY <1>2
  <2> HIDE DEF d
  <2>4. Sound([d EXCEPT !.h[d.cur].flags = f], stack, raised, nested)
    BY <2>3, <1>3, ChangeSound
  <2>5. QED BY <2>2, <2>4, <1>1, SettingStep DEF Setting
<1>6. CASE \E f \in Handler : smiSetErrorHandler(f)
  <2>1. PICK f \in Handler : smiSetErrorHandler(f)
    BY <1>6
  <2> DEFINE d == Data
  <2>2. /\ Set([d EXCEPT !.h[d.cur].handler = f]) /\ Setting(stack)
        /\ errors' = errors /\ d.cur # NIL
    BY <2>1, <1>1 DEF smiSetErrorHandler
  <2>3. Sound(d, stack, raised, nested)
    BY <1>1
  <2> HIDE DEF d
  <2>4. Sound([d EXCEPT !.h[d.cur].handler = f], stack, raised, nested)
    BY <2>2, <2>3, ChangeSound
  <2>5. QED BY <2>2, <2>4, <1>1, SettingStep DEF Setting
<1>7. CASE \E p \in Patterns, s \in Severities : smiSetSeverity(p, s)
  <2>1. PICK p \in Patterns, s \in Severities : smiSetSeverity(p, s)
    BY <1>7
  <2>2. /\ Severe(p, s) /\ Setting(stack)
        /\ UNCHANGED <<handle, list, smiHandle, smiDepth>>
    BY <2>1 DEF smiSetSeverity
  <2>3. errors' \in [Error -> Severity]
    BY <2>2, <1>1, <1>3, SeverityChange
  <2>4. Set(Data)
    BY <2>2 DEF Set, Data
  <2>5. QED BY <2>2, <2>3, <2>4, <1>1, SettingStep DEF Setting
<1>8. CASE \E path \in Paths : smiSetPath(path)
  <2>1. PICK path \in Paths : smiSetPath(path)
    BY <1>8
  <2> DEFINE d == Ensured
  <2>2. /\ Set([d EXCEPT !.h[d.cur].path = path]) /\ Setting(stack)
        /\ errors' = errors
    BY <2>1 DEF smiSetPath
  <2>3. Sound(d, stack, raised, nested) /\ d.cur # NIL
    BY <1>2
  <2> HIDE DEF d
  <2>4. Sound([d EXCEPT !.h[d.cur].path = path], stack, raised, nested)
    BY <2>3, <1>3, ChangeSound
  <2>5. QED BY <2>2, <2>4, <1>1, SettingStep DEF Setting
<1>9. QED BY <1>4, <1>5, <1>6, <1>7, <1>8

\* The commands of a configuration file.
LEMMA ConfigSteps ==
  ASSUME SInv,
         \/ ConfigLoad \/ ConfigLevel \/ ConfigHide \/ ConfigSkip
         \/ \E op \in PathOps : ConfigPath(op)
  PROVE  Keeps
<1>1. /\ Sound(Data, stack, raised, nested) /\ nested \in BOOLEAN
      /\ errors \in [Error -> Severity] /\ Data.cur = smiHandle
      /\ status \in Status
  BY SInvFacts
<1>2. stack # <<>> /\ Top.kind = "config" /\ Top.rest # <<>>
  BY DEF ConfigLoad, ConfigLevel, ConfigHide, ConfigSkip, ConfigPath, Configuring
<1> DEFINE d == Data
           b == Done
<1>3. /\ Sound(d, b, raised, nested) /\ d.cur # NIL
      /\ b # <<>> /\ b[Len(b)].kind = "config" /\ d.cur = smiHandle
  BY <1>1, <1>2, DoneFacts
<1>4. /\ Head(Top.rest) \in Command
  BY <1>2, ArgumentFacts
<1>5. CASE ConfigLoad
  <2>1. Load(d, Argument, b) /\ UNCHANGED <<errors, nested>>
        /\ Head(Top.rest).op = "load"
    BY <1>5 DEF ConfigLoad, Configuring
  <2>2. Argument \in Module
    BY <2>1, <1>4, CommandFacts DEF Argument
  <2> HIDE DEF d, b
  <2>3. status' \in Status /\ Sound(Data', stack', raised', nested)
    BY <2>1, <2>2, <1>1, <1>3, LoadStep
  <2>4. QED BY <2>1, <2>3, <1>1 DEF Keeps
<1>6. CASE ConfigLevel
  <2>1. /\ Set([d EXCEPT !.h[smiHandle].level = Argument]) /\ Setting(b)
        /\ errors' = errors /\ Head(Top.rest).op = "level"
    BY <1>6 DEF ConfigLevel, Configuring
  <2>2. Argument \in Nat
    BY <2>1, <1>4, CommandFacts DEF Argument
  <2> HIDE DEF d, b
  <2>3. Sound([d EXCEPT !.h[d.cur].level = Argument], b, raised, nested)
    BY <2>2, <1>3, ChangeSound
  <2>4. QED BY <2>1, <2>3, <1>1, <1>3, SettingStep DEF Setting
<1>7. CASE ConfigHide
  <2>1. /\ Severe(Argument, 9) /\ Setting(b)
        /\ UNCHANGED <<handle, list, smiHandle, smiDepth>>
    BY <1>7 DEF ConfigHide
  <2>2. errors' \in [Error -> Severity]
    <3>1. 9 \in Stated \cup {IGNORE, -1}
      BY DEF Stated
    <3>2. QED BY <3>1, <2>1, <1>1, SeverityChange
  <2>3. Set(d)
    BY <2>1 DEF Set, Data
  <2> HIDE DEF d, b
  <2>4. QED BY <2>1, <2>2, <2>3, <1>1, <1>3, SettingStep DEF Setting
<1>8. CASE ConfigSkip
  <2>1. /\ stack' = b /\ UNCHANGED <<errors, status, raised, nested>>
        /\ Set(d)
    BY <1>8 DEF ConfigSkip, Set, Data
  <2> HIDE DEF d, b
  <2>2. QED BY <2>1, <1>1, <1>3, SettingStep
<1>9. CASE \E op \in PathOps : ConfigPath(op)
  <2>1. PICK op \in PathOps : ConfigPath(op)
    BY <1>9
  <2> DEFINE path == NewPath(op, d.h[smiHandle].path, Argument)
  <2>2. /\ Set([d EXCEPT !.h[smiHandle].path = path]) /\ Setting(b)
        /\ errors' = errors /\ Head(Top.rest).op = op
    BY <2>1 DEF ConfigPath, Configuring
  <2>3. Argument \in Dir
    BY <2>2, <1>4, CommandFacts DEF Argument
  <2> HIDE DEF d, b
  <2>4. d.h[smiHandle].path \in Seq(Dir)
    BY <1>3, SoundFacts, HandleFields
  <2>5. path \in Seq(Dir)
    BY <2>3, <2>4, PathFacts
  <2> HIDE DEF path
  <2>6. Sound([d EXCEPT !.h[d.cur].path = path], b, raised, nested)
    BY <2>5, <1>3, ChangeSound
  <2>7. QED BY <2>2, <2>6, <1>1, <1>3, SettingStep DEF Setting
<1>10. QED BY <1>5, <1>6, <1>7, <1>8, <1>9

LEMMA ConfigFileFacts ==
  ASSUME NEW app \in Program, NEW rest \in Seq(Command)
  PROVE  ConfigFile(app, rest) \in Frame /\ ConfigFile(app, rest).kind = "config"
BY DEF ConfigFile, Frame

LEMMA InitStep ==
  ASSUME SInv, NEW t \in Tag, smiInit(t)
  PROVE  Keeps
<1> DEFINE d == Data
<1>1. /\ Sound(d, stack, raised, nested) /\ nested \in BOOLEAN
      /\ errors \in [Error -> Severity] /\ status \in Status
      /\ d.cur = smiHandle /\ d.h = handle /\ d.list = list
  BY SInvFacts
<1>2. UNCHANGED <<errors, raised>>
  BY DEF smiInit
<1>3. handle \in Seq(Handle) /\ list \in [first : Nat, last : Nat]
      /\ Linked(handle, list) /\ OneTag(handle)
  <2> HIDE DEF d
  <2>1. QED BY <1>1, SoundFacts
<1>4. t # NULL
  BY NullAssumption
<1>5. CASE /\ Nameless(t) /\ status' = "crashed"
           /\ UNCHANGED <<handle, list, smiHandle, smiDepth, stack, nested>>
  <2>1. Set(d)
    BY <1>5 DEF Set, Data
  <2> HIDE DEF d
  <2>2. Sound(Data', stack', raised', nested')
    BY <2>1, <1>1, <1>2, <1>5, SetSound
  <2>3. QED BY <2>2, <1>1, <1>2, <1>5 DEF Keeps, Status
<1>6. CASE /\ ~Nameless(t) /\ FindHandle(t) # NIL
           /\ smiHandle' = FindHandle(t)
           /\ UNCHANGED <<handle, list, smiDepth, stack, status, nested>>
  <2> DEFINE x == FindIn(handle, list, t)
             e == Data'
  <2>1. smiHandle' = x /\ x # NIL
    BY <1>6, FindDef
  <2>2. Live(handle, x)
    <3> HIDE DEF d, x
    <3>1. Linked(handle, list) /\ handle \in Seq(Handle)
          /\ list \in [first : Nat, last : Nat]
      BY <1>3
    <3>2. QED BY <2>1, <3>1, FindFacts DEF x
  <2>3. /\ e.h = d.h /\ e.list = d.list /\ e.cur = x /\ e.depth = d.depth
        /\ e = [h |-> d.h, list |-> d.list, cur |-> x, depth |-> d.depth]
    BY <1>6, <2>1 DEF Data
  <2> HIDE DEF d, e, x
  <2>4. d \in DataSet /\ x \in Nat /\ d.depth \in Int
    <3>1. d \in DataSet /\ DOMAIN d.h = 1 .. Len(d.h) /\ Len(d.h) \in Nat
      BY <1>1, SoundFacts
    <3>2. x \in DOMAIN d.h
      BY <1>1, <2>2 DEF Live
    <3>3. QED BY <3>1, <3>2, DataFields
  <2>5. e \in DataSet
    BY <2>3, <2>4, <1>1, <1>3 DEF DataSet
  <2>6. Sound(e, stack, raised, nested)
    BY <1>1, <2>1, <2>2, <2>3, <2>5, SettingSound DEF SameLinks
  <2>7. QED BY <2>6, <1>1, <1>2, <1>6 DEF Keeps, e
<1>7. CASE /\ ~Nameless(t) /\ FindHandle(t) = NIL
           /\ Set(AddHandle(d, t))
           /\ stack' = Append(stack, ConfigFile(App[t], Append(Config, SmiPath)))
           /\ nested' = (nested \/ stack # <<>>)
           /\ UNCHANGED status
  <2> DEFINE f == ConfigFile(App[t], Append(Config, SmiPath))
             e == AddHandle(d, t)
  <2>1. FindIn(handle, list, t) = NIL
    BY <1>7, FindDef
  <2>2. \A x \in DOMAIN d.h : Live(d.h, x) => d.h[x].name # t
    <3> HIDE DEF d
    <3>1. QED BY <2>1, <1>1, <1>3, FindFacts
  <2>3. nested' \in BOOLEAN /\ (nested' = FALSE => nested = FALSE /\ stack = <<>>)
    BY <1>1, <1>7
  <2>4. f \in Frame /\ f.kind = "config"
    <3>1. App[t] \in Program /\ Append(Config, SmiPath) \in Seq(Command)
      BY ConfigAssumption
    <3>2. QED BY <3>1, ConfigFileFacts
  <2>5. Sound(e, stack, raised, nested')
    <3> DEFINE k == nested'
    <3>1. k \in BOOLEAN /\ (k = FALSE => nested = FALSE /\ stack = <<>>)
      BY <2>3
    <3> HIDE DEF k, d
    <3>2. Sound(AddHandle(d, t), stack, raised, k)
      BY <1>1, <2>2, <3>1, AddSound
    <3>3. QED BY <3>2 DEF k
  <2>6. e.cur # NIL
    <3>1. e.cur = Len(d.h) + 1
      BY DEF AddHandle
    <3> HIDE DEF d, e
    <3>2. QED BY <3>1, <1>1, SoundFacts DEF NIL
  <2>7. Set(e) /\ stack' = Append(stack, f)
    BY <1>7
  <2>8. status' = status
    BY <1>7
  <2> HIDE DEF d, e, f
  <2>9. Sound(e, Append(stack, f), raised, nested')
    <3> DEFINE k == nested'
    <3>1. Sound(e, stack, raised, k) /\ (k = FALSE => stack = <<>>)
      BY <2>3, <2>5
    <3> HIDE DEF k
    <3>2. Sound(e, Append(stack, f), raised, k)
      BY <2>4, <2>6, <3>1, PushSound
    <3>3. QED BY <3>2 DEF k
  <2>10. Sound(Data', Append(stack, f), raised, nested')
    <3> DEFINE k == nested'
    <3>1. Sound(e, Append(stack, f), raised, k)
      BY <2>9
    <3> HIDE DEF k
    <3>2. Sound(Data', Append(stack, f), raised, k)
      BY <2>7, <3>1, SetSound
    <3>3. QED BY <3>2 DEF k
  <2>11. QED BY <2>3, <2>7, <2>8, <2>10, <1>1, <1>2 DEF Keeps
<1>8. QED BY <1>5, <1>6, <1>7 DEF smiInit

LEMMA UntaggedStep ==
  ASSUME SInv, smiInitUntagged
  PROVE  Keeps
<1> DEFINE d == Data
           k == nested'
<1>1. /\ Sound(d, stack, raised, nested) /\ nested \in BOOLEAN
      /\ errors \in [Error -> Severity] /\ status \in Status
  BY SInvFacts
<1>2. /\ Set(Untagged(d)) /\ k = (nested \/ stack # <<>>)
      /\ UNCHANGED <<errors, stack, status, raised>>
  BY DEF smiInitUntagged, Untagged
<1> HIDE DEF d, k
<1>3. k \in BOOLEAN /\ (k = FALSE => nested = FALSE /\ stack = <<>>)
  BY <1>1, <1>2
<1>4. Sound(Untagged(d), stack, raised, k)
  BY <1>1, <1>3, UntaggedSound
<1>5. Sound(Data', stack, raised, k)
  BY <1>2, <1>4, SetSound
<1>6. QED BY <1>1, <1>2, <1>3, <1>5 DEF Keeps, k

LEMMA ExitStep ==
  ASSUME SInv, smiExit
  PROVE  Keeps
<1> DEFINE d == Data
           R == {r \in raised : r.at # d.cur}
<1>1. /\ Sound(d, <<>>, raised, nested) /\ nested \in BOOLEAN
      /\ errors \in [Error -> Severity] /\ status \in Status /\ d.cur # NIL
  BY SInvFacts DEF smiExit
<1>2. /\ Set(RemoveHandle(d, d.cur)) /\ raised' = R /\ stack' = <<>>
      /\ UNCHANGED <<errors, status, nested>>
  BY SInvFacts DEF smiExit
<1>3. Sound(RemoveHandle(d, d.cur), <<>>, R, nested)
  <2> HIDE DEF d
  <2>1. QED BY <1>1, RemoveSound
<1> HIDE DEF d, R
<1>4. Sound(Data', <<>>, R, nested)
  BY <1>2, <1>3, SetSound
<1>5. QED BY <1>1, <1>2, <1>4 DEF Keeps

LEMMA LoadModuleStep ==
  ASSUME SInv, NEW m \in Module, smiLoadModule(m)
  PROVE  Keeps
<1> DEFINE d == Ensured
<1>1. /\ Sound(d, stack, raised, nested) /\ d.cur # NIL
      /\ nested \in BOOLEAN
      /\ errors \in [Error -> Severity] /\ status \in Status
  BY SInvFacts, EnsuredSound
<1>2. stack = <<>> /\ Load(d, m, stack) /\ UNCHANGED <<errors, nested>>
  BY DEF smiLoadModule
<1> HIDE DEF d
<1>3. QED BY <1>1, <1>2, LoadStep DEF Keeps

LEMMA ReadConfigStep ==
  ASSUME SInv, NEW t \in Tag, smiReadConfig(App[t])
  PROVE  Keeps
<1> DEFINE d == Data
           f == ConfigFile(App[t], Config)
<1>1. /\ Sound(d, stack, raised, nested)
      /\ errors \in [Error -> Severity] /\ d.cur = smiHandle
  BY SInvFacts
<1>2. /\ stack = <<>> /\ smiHandle # NIL /\ stack' = Append(stack, f)
      /\ UNCHANGED <<errors, status, raised, nested>> /\ Set(d)
  BY DEF smiReadConfig, Set, Data
<1>3. f \in Frame /\ f.kind = "config"
  BY ConfigFileFacts, ConfigAssumption
<1> HIDE DEF d, f
<1>4. Sound(d, Append(stack, f), raised, nested)
  BY <1>1, <1>2, <1>3, PushSound
<1>5. QED BY <1>1, <1>2, <1>4, SettingStep

-----------------------------------------------------------------------------
(* The theorems                                                            *)

\* SInv holds at the start: nothing is opened or read.
LEMMA InitSound == Init => SInv
<1> SUFFICES ASSUME Init PROVE SInv
  OBVIOUS
<1>1. ProcessOK
  <2>1. errors \in [Error -> Severity] /\ calls \in 0 .. MaxCalls
    BY ErrorAssumption, CallAssumption DEF Init
  <2>2. status = "running" /\ nested = FALSE
    BY DEF Init
  <2>3. QED BY <2>1, <2>2 DEF ProcessOK
<1> DEFINE d == Data
<1>2. d = [h |-> <<>>, list |-> [first |-> 0, last |-> 0], cur |-> 0, depth |-> 0]
  BY DEF Init, Data, NIL
<1>3. stack = <<>> /\ raised = {} /\ nested = FALSE
  BY DEF Init
<1> HIDE DEF d
<1>4. /\ d \in DataSet /\ d.h = <<>> /\ DOMAIN d.h = {} /\ Len(d.h) = 0
      /\ d.list.first = 0 /\ d.list.last = 0 /\ d.cur = 0 /\ d.depth = 0
  BY <1>2 DEF DataSet
<1>5. DataOK(d)
  BY <1>4 DEF DataOK, Linked, OneTag, Forward, Backward, NIL
<1>6. FramesOK(d, <<>>)
  BY DEF FramesOK
<1>7. RaisedOK(d, {}) /\ AskedOK({}, FALSE)
  BY DEF RaisedOK, AskedOK
<1>8. SmallestOK(d, {})
  BY <1>4 DEF SmallestOK
<1>9. DepthOK(d, <<>>, FALSE)
  BY <1>4 DEF DepthOK, Shape, Depth
<1>10. QED BY <1>1, <1>3, <1>5, <1>6, <1>7, <1>8, <1>9 DEF SInv, Sound, d

LEMMA CallsStay ==
  ASSUME SInv, Next PROVE calls' \in 0 .. MaxCalls
<1>1. calls \in 0 .. MaxCalls /\ MaxCalls \in Nat
  BY SInvFacts, CallAssumption
<1>2. calls' = calls \/ (calls < MaxCalls /\ calls' = calls + 1)
  <2>1. ASSUME Application PROVE Calling
    BY <2>1 DEF Application, smiInitUntagged, smiExit, smiInit, smiReadConfig,
       smiLoadModule, smiSetErrorLevel, smiSetFlags, smiSetErrorHandler,
       smiSetSeverity, smiSetPath
  <2>2. ASSUME Library PROVE calls' = calls
    BY <2>2 DEF Library, Import, Complain, EndOfFile, HandlerReturns,
       ConfigLoad, ConfigLevel, ConfigHide, ConfigSkip, EndOfConfig, ConfigPath,
       Parsing, Configuring
  <2>3. QED BY <2>1, <2>2 DEF Next, Calling
<1>3. QED BY <1>1, <1>2

LEMMA NextKeeps ==
  ASSUME SInv, Next PROVE Keeps
<1>1. ASSUME Application PROVE Keeps
  BY <1>1, InitStep, UntaggedStep, ExitStep, LoadModuleStep, ReadConfigStep,
     SettingSteps DEF Application
<1>2. ASSUME Library PROVE Keeps
  BY <1>2, ParsingSound, EndSound, ConfigSteps DEF Library, PathOps
<1>3. QED BY <1>1, <1>2 DEF Next

LEMMA StepSound == SInv /\ [Next]_vars => SInv'
<1> SUFFICES ASSUME SInv, [Next]_vars PROVE SInv'
  OBVIOUS
<1>1. CASE UNCHANGED vars
  <2>1. Data' = Data
    BY <1>1 DEF vars, Data
  <2>2. QED BY <2>1, <1>1 DEF vars, SInv, ProcessOK
<1>2. CASE Next
  <2>1. Keeps
    BY <1>2, NextKeeps
  <2>2. calls' \in 0 .. MaxCalls
    BY <1>2, CallsStay
  <2>3. QED BY <2>1, <2>2 DEF Keeps, SInv, ProcessOK, Status
<1>3. QED BY <1>1, <1>2

\* The invariant holds in every state that is reached.
THEOREM Inductive == Spec => []SInv
<1>1. QED BY InitSound, StepSound, PTL DEF Spec

\* The types of all variables, for any number of data sets and calls.
THEOREM TypeCorrect == Spec => []TypeOK
<1>1. ASSUME SInv PROVE TypeOK
  <2> DEFINE d == Data
  <2>1. /\ Sound(d, stack, raised, nested)
        /\ errors \in [Error -> Severity] /\ status \in Status
        /\ calls \in 0 .. MaxCalls /\ nested \in BOOLEAN
        /\ d.cur = smiHandle /\ d.h = handle /\ d.list = list
        /\ d.depth = smiDepth
    BY <1>1, SInvFacts DEF Data
  <2> HIDE DEF d
  <2>2. /\ handle \in Seq(Handle) /\ list \in [first : Nat, last : Nat]
        /\ smiHandle \in {NIL} \cup DOMAIN handle /\ smiDepth \in Int
    BY <2>1, SoundFacts, DataFields
  <2>3. stack \in Seq(Frames)
    <3>1. ASSUME NEW i \in DOMAIN stack PROVE stack[i] \in Frames
      <4> DEFINE f == stack[i]
      <4>1. f \in Frame /\ (f.kind = "parser" => Loaded(d.h, f.at, f.mod))
        BY <2>1, SoundFacts
      <4>2. f.kind = "parser" => f.at \in DOMAIN handle
        BY <4>1, <2>1 DEF Loaded, Live
      <4> HIDE DEF f
      <4>3. f.kind \in {"parser", "config", "handler"}
        BY <4>1, FrameFacts
      <4>4. CASE f.kind = "parser"
        <5>1. /\ f.mod \in Module /\ f.flags \in SUBSET Flag
              /\ f.rest \in Seq(Statement)
              /\ f = [kind |-> "parser", mod |-> f.mod, at |-> f.at,
                      flags |-> f.flags, rest |-> f.rest]
          BY <4>1, <4>4, FrameFacts
        <5>2. f \in Parsers
          BY <5>1, <4>2, <4>4 DEF Parsers
        <5>3. QED BY <5>2 DEF Frames, f
      <4>5. CASE f.kind # "parser"
        BY <4>1, <4>5 DEF Frame, Frames, f
      <4>6. QED BY <4>4, <4>5
    <3>2. stack \in Seq(Frame)
      BY <2>1, SoundFacts
    <3>3. QED BY <3>1, <3>2
  <2>4. QED BY <2>1, <2>2, <2>3 DEF TypeOK, Status
<1>2. QED BY <1>1, Inductive, PTL

\* Errors are told as smi_config(3) says, whatever modules import each other,
\* whatever the errors in them, and however the application and its handler
\* change severities, levels and flags on the way.
THEOREM AskedAndTold == Spec => []ToldAsAsked
<1>1. ASSUME SInv PROVE ToldAsAsked
  <2>1. AskedOK(raised, nested)
    BY <1>1 DEF SInv, Sound
  <2>2. nested \in BOOLEAN
    BY <1>1, SInvFacts
  <2>3. QED BY <2>1, <2>2 DEF AskedOK, AsAsked, ToldAsAsked
<1>2. QED BY <1>1, Inductive, PTL

\* The conformance of a module is the smallest severity raised in it, whatever
\* the order of the errors, and whoever was told of them.
THEOREM Smallest == Spec => []ConformanceSmallest
<1>1. ASSUME SInv PROVE ConformanceSmallest
  <2> SUFFICES ASSUME NEW x \in DOMAIN handle, NEW m \in Module,
                      ~handle[x].freed, handle[x].conformance[m] # NULL,
                      \A r \in Own(raised, x, m) : r.heard /\ r.severity # 0
               PROVE  handle[x].conformance[m] =
                        Min({r.severity : r \in Own(raised, x, m)} \cup
                            IF Own(raised, x, m) = {} THEN {0} ELSE {})
    BY DEF ConformanceSmallest, Own
  <2> DEFINE own == Own(raised, x, m)
             c   == handle[x].conformance[m]
             S   == {r.severity : r \in own} \cup IF own = {} THEN {0} ELSE {}
             d   == Data
  <2>1. Sound(d, stack, raised, nested) /\ d.h = handle
    BY <1>1, SInvFacts
  <2>2. Loaded(d.h, x, m)
    <3> HIDE DEF d
    <3>1. handle[x].freed \in BOOLEAN
      BY <2>1, SoundFacts, HandleFields
    <3>2. QED BY <3>1, <2>1 DEF Loaded, Live
  <2>3. SmallestOK(d, raised) /\ raised \subseteq Report
    BY <2>1 DEF Sound, RaisedOK
  <2> HIDE DEF d
  <2>4. /\ own = {} => c = 0
        /\ own # {} => \E r \in own : c = r.severity
        /\ \A r \in own : c <= r.severity
    BY <2>1, <2>2, <2>3 DEF SmallestOK
  <2>5. \A r \in own : r.severity \in Nat
    BY <2>3 DEF Own, Report
  <2> HIDE DEF own, c
  <2>6. c \in S /\ S # {} /\ S \subseteq Nat
    BY <2>4, <2>5
  <2>7. \A s \in S : c <= s
    BY <2>4, <2>6
  <2> HIDE DEF S
  <2>8. Min(S) \in S /\ Min(S) <= c
    BY <2>6, MinFacts
  <2>9. Min(S) = c
    <3>1. Min(S) \in Nat /\ c \in Nat
      BY <2>6, <2>8
    <3>2. c <= Min(S)
      BY <2>7, <2>8
    <3>3. QED BY <2>8, <3>1, <3>2
  <2>10. QED BY <2>9 DEF S, c, own
<1>2. QED BY <1>1, Inductive, PTL

-----------------------------------------------------------------------------
(* The promise of DataSets                                                 *)

Entry(d, t) == IF FindIn(d.h, d.list, t) = NIL THEN NULL
               ELSE Kept(d.h[FindIn(d.h, d.list, t)])
SetOf(d) == [t \in Tag |-> Entry(d, t)]
Selected(d) == IF d.cur = NIL THEN NULL
               ELSE IF d.h[d.cur].name = NULL THEN "untagged"
               ELSE d.h[d.cur].name

\* What a data set is, in terms of the handles.
LEMMA KeptFacts ==
  ASSUME NEW g \in Handle PROVE Kept(g) # NULL
<1>1. Kept(g) \in Settings
  BY DEF Kept, Settings, Handle
<1>2. QED BY <1>1, NullAssumption

LEMMA EntryFacts ==
  ASSUME NEW d, DataOK(d), NEW t \in Tag
  PROVE  /\ (\A x \in DOMAIN d.h : Live(d.h, x) => d.h[x].name # t)
              => Entry(d, t) = NULL
         /\ \A x \in DOMAIN d.h :
              Live(d.h, x) /\ d.h[x].name = t => Entry(d, t) = Kept(d.h[x])
<1> DEFINE f == FindIn(d.h, d.list, t)
<1>1. d.h \in Seq(Handle) /\ d.list \in [first : Nat, last : Nat]
      /\ Linked(d.h, d.list) /\ OneTag(d.h)
  BY DataFields DEF DataOK
<1>2. /\ f = NIL => \A x \in DOMAIN d.h : Live(d.h, x) => d.h[x].name # t
      /\ f # NIL => Live(d.h, f) /\ d.h[f].name = t
  BY <1>1, FindFacts
<1>3. Entry(d, t) = IF f = NIL THEN NULL ELSE Kept(d.h[f])
  BY DEF Entry
<1> HIDE DEF f
<1>4. f # NIL => f \in DOMAIN d.h
  BY <1>2 DEF Live
<1>5. \A x \in DOMAIN d.h : Live(d.h, x) /\ d.h[x].name = t => f # NIL /\ x = f
  BY <1>1, <1>2, <1>4, NullAssumption DEF OneTag
<1>6. (\A x \in DOMAIN d.h : Live(d.h, x) => d.h[x].name # t) => f = NIL
  BY <1>2, <1>4
<1>7. QED BY <1>3, <1>5, <1>6

\* Work on the selected data set.
Worked(d, e) == /\ d.cur # NIL /\ e.cur = d.cur
                /\ SameLinks(d, e)
                /\ \A x \in DOMAIN d.h : x # d.cur => Kept(e.h[x]) = Kept(d.h[x])

LEMMA WorkedFacts ==
  ASSUME NEW d, NEW e, DataOK(d), DataOK(e), Worked(d, e)
  PROVE  /\ Selected(e) = Selected(d)
         /\ \A t \in Tag : t # Selected(d) => Entry(e, t) = Entry(d, t)
         /\ Selected(d) \in Tag => Entry(e, Selected(d)) # NULL
<1>1. /\ d.cur \in DOMAIN d.h /\ Live(d.h, d.cur)
      /\ DOMAIN e.h = DOMAIN d.h /\ e.h \in Seq(Handle)
  BY DataFields DEF DataOK, Worked, SameLinks, Live
<1>2. Selected(e) = Selected(d)
  BY <1>1 DEF Worked, SameLinks, Selected
<1>3. \A x \in DOMAIN d.h : /\ Live(e.h, x) <=> Live(d.h, x)
                            /\ e.h[x].name = d.h[x].name
  BY <1>1 DEF Worked, SameLinks, Live
<1>4. ASSUME NEW t \in Tag, t # Selected(d) PROVE Entry(e, t) = Entry(d, t)
  <2>1. d.h[d.cur].name # t
    BY <1>4, NullAssumption DEF Selected, Worked
  <2>2. CASE \E x \in DOMAIN d.h : Live(d.h, x) /\ d.h[x].name = t
    <3>1. PICK x \in DOMAIN d.h : Live(d.h, x) /\ d.h[x].name = t
      BY <2>2
    <3>2. Entry(d, t) = Kept(d.h[x])
      BY <3>1, EntryFacts
    <3>3. Entry(e, t) = Kept(e.h[x])
      BY <3>1, <1>1, <1>3, EntryFacts
    <3>4. x # d.cur
      BY <2>1, <3>1
    <3>5. QED BY <3>2, <3>3, <3>4 DEF Worked
  <2>3. CASE \A x \in DOMAIN d.h : Live(d.h, x) => d.h[x].name # t
    <3>1. Entry(d, t) = NULL
      BY <2>3, EntryFacts
    <3>2. \A x \in DOMAIN e.h : Live(e.h, x) => e.h[x].name # t
      BY <2>3, <1>1, <1>3
    <3>3. Entry(e, t) = NULL
      BY <3>2, EntryFacts
    <3>4. QED BY <3>1, <3>3
  <2>4. QED BY <2>2, <2>3
<1>5. ASSUME Selected(d) \in Tag PROVE Entry(e, Selected(d)) # NULL
  <2>1. d.h[d.cur].name = Selected(d)
    BY <1>5, NullAssumption DEF Selected
  <2>2. Entry(e, Selected(d)) = Kept(e.h[d.cur])
    BY <1>1, <1>3, <1>5, <2>1, EntryFacts
  <2>3. e.h[d.cur] \in Handle
    BY <1>1
  <2>4. QED BY <2>2, <2>3, KeptFacts
<1>6. QED BY <1>2, <1>4, <1>5

LEMMA ReplaceWorked ==
  ASSUME NEW d \in DataSet, d.cur # NIL, d.cur \in DOMAIN d.h, NEW g \in Handle,
         g.name = d.h[d.cur].name, g.freed = d.h[d.cur].freed,
         g.next = d.h[d.cur].next, g.prev = d.h[d.cur].prev
  PROVE  Worked(d, [d EXCEPT !.h[d.cur] = g])
<1> DEFINE k == [d.h EXCEPT ![d.cur] = g]
           e == [d EXCEPT !.h[d.cur] = g]
<1>1. e = [d EXCEPT !.h = k]
  OBVIOUS
<1>2. DOMAIN k = DOMAIN d.h /\ k[d.cur] = g
      /\ \A x \in DOMAIN d.h : x # d.cur => k[x] = d.h[x]
  BY DataFields
<1> HIDE DEF k
<1>3. e.h = k /\ e.list = d.list /\ e.cur = d.cur
  BY <1>1 DEF DataSet
<1> HIDE DEF e
<1>4. SameLinks(d, e)
  BY <1>2, <1>3 DEF SameLinks
<1>5. Worked(d, e)
  BY <1>2, <1>3, <1>4 DEF Worked
<1>6. QED BY <1>5 DEF e

\* The conformance of a module says whether it is loaded.
LEMMA GradedWorked ==
  ASSUME NEW d \in DataSet, d.cur # NIL, NEW x \in DOMAIN d.h, NEW m \in Module,
         NEW c \in Nat, NEW k, Graded(d.h, k, x, m, c),
         x = d.cur \/ d.h[x].conformance[m] # NULL,
         NEW e, e.h = k, e.list = d.list, e.cur = d.cur
  PROVE  Worked(d, e)
<1>1. SameLinks(d, e)
  BY DEF SameLinks, Graded
<1>2. ASSUME NEW y \in DOMAIN d.h, y # d.cur
      PROVE  Kept(k[y]) = Kept(d.h[y])
  <2>1. c # NULL
    BY NullAssumption
  <2>2. \A l \in Module : k[y].conformance[l] # NULL
                            <=> d.h[y].conformance[l] # NULL
    BY <2>1, <1>2 DEF Graded
  <2>3. {l \in Module : k[y].conformance[l] # NULL}
          = {l \in Module : d.h[y].conformance[l] # NULL}
    BY <2>2
  <2>4. /\ k[y].level = d.h[y].level /\ k[y].flags = d.h[y].flags
        /\ k[y].handler = d.h[y].handler /\ k[y].path = d.h[y].path
    BY DEF Graded
  <2>5. QED BY <2>3, <2>4 DEF Kept
<1>3. QED BY <1>1, <1>2 DEF Worked

\* The refinement mapping of Session, and what it is of the data.
MappedSet      == [t \in Tag |-> IF FindHandle(t) = NIL THEN NULL
                                 ELSE Kept(handle[FindHandle(t)])]
MappedSelected == IF smiHandle = NIL THEN NULL
                  ELSE IF handle[smiHandle].name = NULL THEN "untagged"
                  ELSE handle[smiHandle].name

LEMMA Mapping ==
  /\ MappedSet = SetOf(Data) /\ MappedSet' = SetOf(Data')
  /\ MappedSelected = Selected(Data) /\ MappedSelected' = Selected(Data')
<1>1. MappedSet = SetOf(Data)
  BY FindDef DEF SetOf, Entry, Data, MappedSet
<1>2. MappedSet' = SetOf(Data')
  BY FindDefNext DEF SetOf, Entry, Data, MappedSet
<1>3. MappedSelected = Selected(Data) /\ MappedSelected' = Selected(Data')
  BY DEF Selected, MappedSelected, Data
<1>4. QED BY <1>1, <1>2, <1>3

LEMMA OpenMaps ==
  ASSUME NEW t \in Tag, MappedSet[t] = NULL, MappedSelected' = t,
         MappedSet' = [MappedSet EXCEPT ![t] = Kept(NewHandle(NULL, NIL))]
  PROVE  Sets!Open(t)
BY Zenon DEF Sets!Open, MappedSet, MappedSelected

LEMMA SelectMaps ==
  ASSUME NEW t \in Tag, MappedSet[t] # NULL, MappedSelected' = t,
         MappedSet' = MappedSet
  PROVE  Sets!Select(t)
BY Zenon DEF Sets!Select, MappedSet, MappedSelected

LEMMA OpenUntaggedMaps ==
  ASSUME MappedSelected' = "untagged", MappedSet' = MappedSet
  PROVE  Sets!OpenUntagged
BY Zenon DEF Sets!OpenUntagged, MappedSet, MappedSelected

LEMMA WorkMaps ==
  ASSUME MappedSelected \in Tag, MappedSet'[MappedSelected] # NULL,
         \A t \in Tag \ {MappedSelected} : MappedSet'[t] = MappedSet[t],
         MappedSelected' = MappedSelected
  PROVE  Sets!Work
BY Zenon DEF Sets!Work, MappedSet, MappedSelected

LEMMA CloseMaps ==
  ASSUME MappedSelected # NULL, MappedSelected' = NULL,
         MappedSet' = [t \in Tag |-> IF t = MappedSelected THEN NULL
                                     ELSE MappedSet[t]]
  PROVE  Sets!Close
BY Zenon DEF Sets!Close, MappedSet, MappedSelected

LEMMA StutterMaps ==
  ASSUME MappedSet' = MappedSet, MappedSelected' = MappedSelected
  PROVE  UNCHANGED Sets!vars
BY Zenon DEF Sets!vars, MappedSet, MappedSelected

\* A new handle is one data set more.
LEMMA AddEntries ==
  ASSUME NEW d, DataOK(d), NEW name \in Tag \cup {NULL},
         NEW e, e = AddHandle(d, name), DataOK(e)
  PROVE  /\ \A t \in Tag : t # name => Entry(e, t) = Entry(d, t)
         /\ name \in Tag => /\ Entry(e, name) = Kept(NewHandle(NULL, NIL))
                            /\ Selected(e) = name
         /\ name = NULL => Selected(e) = "untagged"
<1> DEFINE new == Len(d.h) + 1
<1>1. /\ e.cur = new /\ new # NIL /\ DOMAIN e.h = 1 .. new
      /\ e.h[new] = NewHandle(name, d.list.last)
  BY AddFields, Zenon
<1>2. /\ \A x : Live(e.h, x) <=> Live(d.h, x) \/ x = new
      /\ \A x \in DOMAIN d.h : Alike(e.h[x], d.h[x])
  BY AddLinked, Zenon
<1>3. e.h[new].name = name
  BY <1>1 DEF NewHandle
<1>4. \A x \in DOMAIN d.h : /\ Kept(e.h[x]) = Kept(d.h[x])
                            /\ e.h[x].name = d.h[x].name
  BY <1>2 DEF Alike, Kept
<1> HIDE DEF new
<1>5. ASSUME NEW t \in Tag, t # name PROVE Entry(e, t) = Entry(d, t)
  <2>1. CASE \E x \in DOMAIN d.h : Live(d.h, x) /\ d.h[x].name = t
    <3>1. PICK x \in DOMAIN d.h : Live(d.h, x) /\ d.h[x].name = t
      BY <2>1
    <3>2. Entry(d, t) = Kept(d.h[x])
      BY <3>1, EntryFacts
    <3>3. x \in DOMAIN e.h /\ Live(e.h, x) /\ e.h[x].name = t
      BY <3>1, <1>2, <1>4 DEF Live
    <3>4. Entry(e, t) = Kept(e.h[x])
      BY <3>3, EntryFacts
    <3>5. QED BY <3>1, <3>2, <3>4, <1>4
  <2>2. CASE \A x \in DOMAIN d.h : Live(d.h, x) => d.h[x].name # t
    <3>1. \A x \in DOMAIN e.h : Live(e.h, x) => e.h[x].name # t
      BY <2>2, <1>2, <1>3, <1>4, <1>5 DEF Live
    <3>2. QED BY <3>1, <2>2, EntryFacts
  <2>3. QED BY <2>1, <2>2
<1>6. ASSUME name \in Tag
      PROVE  Entry(e, name) = Kept(NewHandle(NULL, NIL)) /\ Selected(e) = name
  <2>1. new \in DOMAIN e.h /\ Live(e.h, new)
    BY <1>2 DEF Live
  <2>2. Entry(e, name) = Kept(e.h[new])
    BY <2>1, <1>3, <1>6, EntryFacts
  <2>3. Kept(NewHandle(name, d.list.last)) = Kept(NewHandle(NULL, NIL))
    BY DEF Kept, NewHandle
  <2>4. Selected(e) = name
    BY <1>1, <1>3, <1>6, NullAssumption DEF Selected
  <2>5. QED BY <2>2, <2>3, <2>4, <1>1
<1>7. name = NULL => Selected(e) = "untagged"
  BY <1>1, <1>3 DEF Selected
<1>8. QED BY <1>5, <1>6, <1>7

\* A handle less is a data set less, if it has a tag.
LEMMA RemoveEntries ==
  ASSUME NEW d, DataOK(d), d.cur # NIL, NEW e, e = RemoveHandle(d, d.cur),
         DataOK(e)
  PROVE  /\ Selected(d) # NULL /\ Selected(e) = NULL
         /\ \A t \in Tag :
              Entry(e, t) = IF t = Selected(d) THEN NULL ELSE Entry(d, t)
<1>1. /\ e.cur = NIL /\ DOMAIN e.h = DOMAIN d.h
      /\ \A y \in DOMAIN d.h : y # d.cur => Alike(e.h[y], d.h[y])
  BY RemoveFields, Zenon
<1>2. \A y : Live(e.h, y) <=> Live(d.h, y) /\ y # d.cur
  BY RemoveLinked, Zenon
<1>3. d.cur \in DOMAIN d.h /\ Live(d.h, d.cur) /\ OneTag(d.h)
      /\ d.h \in Seq(Handle)
  BY DataFields DEF DataOK, Live
<1>4. Selected(d) # NULL /\ Selected(e) = NULL
  BY <1>1, NullAssumption DEF Selected
<1>5. \A y \in DOMAIN d.h : y # d.cur => /\ Kept(e.h[y]) = Kept(d.h[y])
                                         /\ e.h[y].name = d.h[y].name
  BY <1>1 DEF Alike, Kept
<1>6. \A t \in Tag : t = Selected(d) <=> t = d.h[d.cur].name
  BY NullAssumption DEF Selected
<1>7. ASSUME NEW t \in Tag
      PROVE  Entry(e, t) = IF t = Selected(d) THEN NULL ELSE Entry(d, t)
  <2>1. CASE \E x \in DOMAIN d.h : x # d.cur /\ Live(d.h, x) /\ d.h[x].name = t
    <3>1. PICK x \in DOMAIN d.h : x # d.cur /\ Live(d.h, x) /\ d.h[x].name = t
      BY <2>1
    <3>2. Entry(d, t) = Kept(d.h[x]) /\ Entry(e, t) = Kept(e.h[x])
      BY <3>1, <1>1, <1>2, <1>5, EntryFacts
    <3>3. t # d.h[d.cur].name
      BY <3>1, <1>3, NullAssumption DEF OneTag
    <3>4. QED BY <3>1, <3>2, <3>3, <1>5, <1>6
  <2>2. CASE \A x \in DOMAIN d.h :
               x # d.cur /\ Live(d.h, x) => d.h[x].name # t
    <3>1. \A x \in DOMAIN e.h : Live(e.h, x) => e.h[x].name # t
      BY <2>2, <1>1, <1>2, <1>5
    <3>2. Entry(e, t) = NULL
      BY <3>1, EntryFacts
    <3>3. t # d.h[d.cur].name => Entry(d, t) = NULL
      BY <2>2, EntryFacts
    <3>4. QED BY <3>2, <3>3, <1>6
  <2>3. QED BY <2>1, <2>2
<1>8. QED BY <1>4, <1>7

\* Two mappings are equal when all their entries are.
LEMMA SetOfFacts ==
  ASSUME NEW d, NEW e
  PROVE  /\ (\A t \in Tag : Entry(e, t) = Entry(d, t)) => SetOf(e) = SetOf(d)
         /\ \A t \in Tag : SetOf(d)[t] = Entry(d, t)
BY DEF SetOf

LEMMA SelfWorked ==
  ASSUME NEW d, d.cur # NIL PROVE Worked(d, d)
BY DEF Worked, SameLinks

\* What the steps of the library, and the settings, do to the handles.
LEMMA ChangeWorked ==
  ASSUME NEW d \in DataSet, d.cur # NIL, d.cur \in DOMAIN d.h
  PROVE  /\ \A l \in Nat : Worked(d, [d EXCEPT !.h[d.cur].level = l])
         /\ \A f \in SUBSET Flag : Worked(d, [d EXCEPT !.h[d.cur].flags = f])
         /\ \A f \in Handler : Worked(d, [d EXCEPT !.h[d.cur].handler = f])
         /\ \A path \in Seq(Dir) : Worked(d, [d EXCEPT !.h[d.cur].path = path])
<1> DEFINE g == d.h[d.cur]
           Same(k) == /\ k \in Handle /\ k.name = g.name /\ k.freed = g.freed
                      /\ k.next = g.next /\ k.prev = g.prev
<1>1. g \in Handle
  BY DataFields, HandleFields
<1>2. ASSUME NEW k, Same(k) PROVE Worked(d, [d EXCEPT !.h[d.cur] = k])
  BY <1>2, ReplaceWorked
<1>3. /\ \A l \in Nat : Same([g EXCEPT !.level = l])
      /\ \A f \in SUBSET Flag : Same([g EXCEPT !.flags = f])
      /\ \A f \in Handler : Same([g EXCEPT !.handler = f])
      /\ \A path \in Seq(Dir) : Same([g EXCEPT !.path = path])
  <2> HIDE DEF g
  <2>1. \A l \in Nat : Same([g EXCEPT !.level = l])
    BY <1>1, HandleUpdates DEF Handle
  <2>2. \A f \in SUBSET Flag : Same([g EXCEPT !.flags = f])
    BY <1>1, HandleUpdates DEF Handle
  <2>3. \A f \in Handler : Same([g EXCEPT !.handler = f])
    BY <1>1, HandleUpdates DEF Handle
  <2>4. \A path \in Seq(Dir) : Same([g EXCEPT !.path = path])
    BY <1>1, HandleUpdates DEF Handle
  <2> QED BY <2>1, <2>2, <2>3, <2>4
<1> HIDE DEF Same
<1>4. ASSUME NEW l \in Nat
      PROVE  Worked(d, [d EXCEPT !.h[d.cur] = [g EXCEPT !.level = l]])
  BY <1>2, <1>3
<1>5. ASSUME NEW f \in SUBSET Flag
      PROVE  Worked(d, [d EXCEPT !.h[d.cur] = [g EXCEPT !.flags = f]])
  BY <1>2, <1>3
<1>6. ASSUME NEW f \in Handler
      PROVE  Worked(d, [d EXCEPT !.h[d.cur] = [g EXCEPT !.handler = f]])
  BY <1>2, <1>3
<1>7. ASSUME NEW path \in Seq(Dir)
      PROVE  Worked(d, [d EXCEPT !.h[d.cur] = [g EXCEPT !.path = path]])
  BY <1>2, <1>3
<1>8. QED BY <1>4, <1>5, <1>6, <1>7

LEMMA PrintErrorWorked ==
  ASSUME NEW d, NEW stk, Sound(d, stk, raised, nested), stk # <<>>,
         stk[Len(stk)].kind = "parser", errors \in [Error -> Severity],
         NEW e \in Error, PrintError(d, e, stk), Data' \in DataSet
  PROVE  Worked(d, Data')
<1> DEFINE p == stk[Len(stk)]
           old == d.h[p.at].conformance[p.mod]
           new == Conformance(old, errors[e])
           k == [d.h EXCEPT ![p.at].conformance[p.mod] = new]
           c == [d EXCEPT !.h[p.at].conformance[p.mod] =
                            Conformance(@, errors[e])]
<1>1. Set(IF d.h[d.cur].handler # NULL THEN c ELSE d)
  BY DEF PrintError
<1>2. d \in DataSet /\ d.cur # NIL /\ d.h \in Seq(Handle)
      /\ p \in Frame /\ Loaded(d.h, p.at, p.mod)
  BY SoundFacts
<1>3. p.mod \in Module /\ p.at \in DOMAIN d.h /\ old # NULL
  BY <1>2, FrameFacts DEF Loaded, Live
<1>4. new \in Nat
  <2>1. old \in Nat
    BY <1>2, <1>3, HandleFields
  <2>2. errors[e] \in Nat
    BY SeverityFacts
  <2> HIDE DEF old
  <2>3. QED BY <2>1, <2>2 DEF Conformance
<1>5. c = [d EXCEPT !.h = k]
  OBVIOUS
<1>6. Graded(d.h, k, p.at, p.mod, new)
  <2>1. k = [d.h EXCEPT ![p.at].conformance[p.mod] = new]
    OBVIOUS
  <2> HIDE DEF k, new, p
  <2>2. QED BY <2>1, <1>2, <1>3, <1>4, ConformanceFacts
<1> HIDE DEF k, new, old, p
<1>7. c.h = k /\ c.list = d.list /\ c.cur = d.cur /\ c \in DataSet
  BY <1>2, <1>5, <1>6 DEF DataSet, Graded
<1>8. Worked(d, c)
  <2> HIDE DEF c
  <2>1. QED BY <1>2, <1>3, <1>4, <1>6, <1>7, GradedWorked DEF old
<1> HIDE DEF c
<1>9. QED BY <1>1, <1>2, <1>7, <1>8, SetFacts, SelfWorked

LEMMA LoadWorked ==
  ASSUME NEW d, NEW stk, Sound(d, stk, raised, nested), d.cur # NIL,
         errors \in [Error -> Severity], NEW m \in Module, Load(d, m, stk),
         Data' \in DataSet
  PROVE  Worked(d, Data')
<1>1. d \in DataSet /\ d.h \in Seq(Handle) /\ d.cur \in DOMAIN d.h
  BY SoundFacts
<1>2. CASE Set(d)
  BY <1>1, <1>2, SetFacts, SelfWorked
<1>3. CASE Set([d EXCEPT !.h[d.cur].conformance[m] = 0, !.depth = @ + 1])
  <2> DEFINE k == [d.h EXCEPT ![d.cur].conformance[m] = 0]
             c == [d EXCEPT !.h = k]
             e == [d EXCEPT !.h[d.cur].conformance[m] = 0, !.depth = @ + 1]
  <2>1. 0 \in Nat /\ k = [d.h EXCEPT ![d.cur].conformance[m] = 0]
    OBVIOUS
  <2>2. Set(e) /\ e = [c EXCEPT !.depth = d.depth + 1]
    BY <1>1, <1>3 DEF DataSet
  <2> HIDE DEF k, e
  <2>3. Graded(d.h, k, d.cur, m, 0)
    BY <2>1, <1>1, ConformanceFacts
  <2>4. /\ c.h = k /\ c.list = d.list /\ c.cur = d.cur /\ c.depth = d.depth
        /\ c \in DataSet
    BY <1>1, <2>3 DEF DataSet, Graded
  <2>5. d.depth + 1 \in Int
    BY <1>1, DataFields
  <2> HIDE DEF c
  <2>6. e.h = k /\ e.list = d.list /\ e.cur = d.cur /\ e \in DataSet
    BY <2>2, <2>4, <2>5 DEF DataSet
  <2>7. Worked(d, e)
    <3>1. 0 \in Nat /\ d.cur \in DOMAIN d.h
      BY <1>1
    <3>2. QED BY <3>1, <2>3, <2>6, <1>1, GradedWorked, Zenon
  <2>8. QED BY <2>2, <2>6, <2>7, SetFacts
<1>4. CASE stk # <<>> /\ stk[Len(stk)].kind = "parser"
           /\ PrintError(d, NOT_FOUND, stk)
  BY <1>4, PrintErrorWorked, ErrorAssumption
<1>5. CASE PrintErrorAnyway(d, NOT_FOUND, stk)
  BY <1>2, <1>5 DEF PrintErrorAnyway
<1>6. QED BY <1>2, <1>3, <1>4, <1>5 DEF Load

\* What it is to the data sets.
LEMMA WorkedMaps ==
  ASSUME DataOK(Data), DataOK(Data'), Worked(Data, Data')
  PROVE  [Sets!Next]_(Sets!vars)
<1> DEFINE d == Data
           e == Data'
<1>1. /\ MappedSet = SetOf(d) /\ MappedSet' = SetOf(e)
      /\ MappedSelected = Selected(d) /\ MappedSelected' = Selected(e)
  BY Mapping
<1>2. DataOK(d) /\ DataOK(e) /\ Worked(d, e)
  OBVIOUS
<1> HIDE DEF d, e
<1>3. /\ Selected(e) = Selected(d)
      /\ \A t \in Tag : t # Selected(d) => Entry(e, t) = Entry(d, t)
      /\ Selected(d) \in Tag => Entry(e, Selected(d)) # NULL
  BY <1>2, WorkedFacts
<1>4. CASE Selected(d) \in Tag
  <2>1. MappedSet'[MappedSelected] # NULL
    BY <1>1, <1>3, <1>4, SetOfFacts
  <2>2. \A t \in Tag \ {MappedSelected} : MappedSet'[t] = MappedSet[t]
    BY <1>1, <1>3, SetOfFacts
  <2>3. Sets!Work
    BY <2>1, <2>2, <1>1, <1>3, <1>4, WorkMaps
  <2>4. QED BY <2>3 DEF Sets!Next
<1>5. CASE Selected(d) \notin Tag
  <2>1. SetOf(e) = SetOf(d)
    BY <1>3, <1>5, SetOfFacts
  <2>2. QED BY <2>1, <1>1, <1>3, StutterMaps
<1>6. QED BY <1>4, <1>5

LEMMA UntaggedEntries ==
  ASSUME NEW stk, NEW R, NEW n \in BOOLEAN, NEW d, Sound(d, stk, R, n)
  PROVE  /\ SetOf(Untagged(d)) = SetOf(d)
         /\ Selected(Untagged(d)) = "untagged"
<1> DEFINE o == AddHandle(d, NULL)
           path == NewPath(SmiPath.op, o.h[o.cur].path, SmiPath.arg)
           e == [o EXCEPT !.h[o.cur].path = path]
<1>1. NULL \in Tag \cup {NULL} /\ DataOK(d) /\ Untagged(d) = e
  BY DEF Sound, Untagged
<1>2. Sound(o, stk, R, TRUE) /\ Sound(Untagged(d), stk, R, TRUE)
  BY <1>1, AddSound, UntaggedSound
<1>3. /\ Selected(o) = "untagged"
      /\ \A t \in Tag : Entry(o, t) = Entry(d, t)
  <2>1. NULL \notin Tag /\ DataOK(o) /\ o = AddHandle(d, NULL)
    BY <1>2, NullAssumption DEF Sound
  <2> HIDE DEF o
  <2>2. QED BY <2>1, <1>1, AddEntries
<1>4. o.cur # NIL
  <2>1. o.cur = Len(d.h) + 1
    BY DEF AddHandle
  <2>2. QED BY <2>1, SoundFacts DEF NIL
<1> HIDE DEF o
<1>5. o.h[o.cur].path \in Seq(Dir) /\ o \in DataSet /\ o.cur \in DOMAIN o.h
  BY <1>2, <1>4, SoundFacts, HandleFields
<1>6. path \in Seq(Dir)
  BY <1>5, PathFacts, CommandFacts, ConfigAssumption DEF PathOps
<1> HIDE DEF path
<1>7. Worked(o, e)
  BY <1>4, <1>5, <1>6, ChangeWorked
<1> HIDE DEF e
<1>8. DataOK(o) /\ DataOK(e)
  BY <1>1, <1>2 DEF Sound
<1>9. /\ Selected(e) = "untagged"
      /\ \A t \in Tag : Entry(e, t) = Entry(o, t)
  BY <1>3, <1>7, <1>8, WorkedFacts, NullAssumption
<1>10. QED BY <1>1, <1>3, <1>9, SetOfFacts

\* A call that opens a data set if there is none.
LEMMA EnsuredMaps ==
  ASSUME SInv, DataOK(Data'), Worked(Ensured, Data')
  PROVE  [Sets!Next]_(Sets!vars)
<1>1. Sound(Data, stack, raised, nested) /\ nested \in BOOLEAN
  BY SInvFacts
<1>2. CASE smiHandle # NIL
  <2>1. DataOK(Data) /\ Worked(Data, Data')
    BY <1>1, <1>2, EnsuredDef DEF Sound
  <2>2. QED BY <2>1, WorkedMaps
<1>3. CASE smiHandle = NIL
  <2> DEFINE d == Data
             u == Untagged(d)
             e == Data'
  <2>1. /\ MappedSet = SetOf(d) /\ MappedSet' = SetOf(e)
        /\ MappedSelected' = Selected(e)
    BY Mapping
  <2>2. Worked(u, e) /\ Sound(d, stack, raised, nested) /\ DataOK(e)
    BY <1>1, <1>3, EnsuredDef
  <2> HIDE DEF d, e
  <2>3. SetOf(u) = SetOf(d) /\ Selected(u) = "untagged"
    BY <2>2, <1>1, UntaggedEntries
  <2>4. DataOK(u)
    BY <2>2, <1>1, UntaggedSound DEF Sound
  <2> HIDE DEF u
  <2>5. Selected(e) = "untagged" /\ \A t \in Tag : Entry(e, t) = Entry(u, t)
    BY <2>2, <2>3, <2>4, WorkedFacts, NullAssumption
  <2>6. SetOf(e) = SetOf(d)
    BY <2>3, <2>5, SetOfFacts
  <2>7. Sets!OpenUntagged
    BY <2>1, <2>5, <2>6, OpenUntaggedMaps
  <2>8. QED BY <2>7 DEF Sets!Next
<1>4. QED BY <1>2, <1>3

-----------------------------------------------------------------------------
(* Each step is one of DataSets, or changes no data set                    *)

LEMMA KeepsData == ASSUME Keeps PROVE DataOK(Data') /\ Data' \in DataSet
BY DEF Keeps, Sound, DataOK

LEMMA SettingMaps ==
  ASSUME SInv, Keeps,
         \/ \E l \in Levels : smiSetErrorLevel(l)
         \/ \E f \in Flags : smiSetFlags(f)
         \/ \E f \in Handler : smiSetErrorHandler(f)
         \/ \E path \in Paths : smiSetPath(path)
  PROVE  [Sets!Next]_(Sets!vars)
<1> DEFINE d == Ensured
<1>1. /\ Sound(Data, stack, raised, nested) /\ nested \in BOOLEAN
      /\ Data.cur = smiHandle
  BY SInvFacts
<1>2. Sound(d, stack, raised, nested) /\ d.cur # NIL
  BY <1>1, EnsuredSound
<1>3. /\ Levels \subseteq Nat /\ Flags \subseteq SUBSET Flag
      /\ Paths \subseteq Seq(Dir)
  BY CallAssumption
<1> DEFINE Work(e) == e \in DataSet /\ Worked(d, e)
<1>4. /\ \A l \in Nat : Work([d EXCEPT !.h[d.cur].level = l])
      /\ \A f \in SUBSET Flag : Work([d EXCEPT !.h[d.cur].flags = f])
      /\ \A f \in Handler : Work([d EXCEPT !.h[d.cur].handler = f])
      /\ \A path \in Seq(Dir) : Work([d EXCEPT !.h[d.cur].path = path])
  <2> HIDE DEF d
  <2>1. d \in DataSet /\ d.cur \in DOMAIN d.h
    BY <1>2, SoundFacts
  <2>2. \A e : Sound(e, stack, raised, nested) => e \in DataSet
    BY SoundFacts
  <2>3. QED BY <1>2, <2>1, <2>2, ChangeWorked, ChangeSound
<1>5. \/ \E l \in Levels : Set([d EXCEPT !.h[d.cur].level = l])
      \/ \E f \in Flags : Set([d EXCEPT !.h[d.cur].flags = f])
      \/ \E f \in Handler : Set([d EXCEPT !.h[d.cur].handler = f])
      \/ \E path \in Paths : Set([d EXCEPT !.h[d.cur].path = path])
  <2>1. ASSUME NEW f \in Handler, smiSetErrorHandler(f)
        PROVE  Set([d EXCEPT !.h[d.cur].handler = f])
    BY <2>1, <1>1, EnsuredDef DEF smiSetErrorHandler
  <2>2. ASSUME NEW l \in Levels, smiSetErrorLevel(l)
        PROVE  Set([d EXCEPT !.h[d.cur].level = l])
    BY <2>2 DEF smiSetErrorLevel
  <2>3. ASSUME NEW f \in Flags, smiSetFlags(f)
        PROVE  Set([d EXCEPT !.h[d.cur].flags = f])
    BY <2>3 DEF smiSetFlags
  <2>4. ASSUME NEW path \in Paths, smiSetPath(path)
        PROVE  Set([d EXCEPT !.h[d.cur].path = path])
    BY <2>4 DEF smiSetPath
  <2> HIDE DEF d
  <2>5. QED BY <2>1, <2>2, <2>3, <2>4
<1> HIDE DEF Work, d
<1>6. \E e : Set(e) /\ Work(e)
  BY <1>3, <1>4, <1>5
<1>7. PICK e : Set(e) /\ Work(e)
  BY <1>6
<1>8. Data' = e /\ Worked(d, e)
  BY <1>7, SetFacts DEF Work
<1>9. QED BY <1>8, KeepsData, EnsuredMaps DEF d

\* A configuration file, or a parser, that works on the selected data set.
LEMMA LibraryMaps ==
  ASSUME SInv, Keeps,
         \/ Import \/ Complain \/ ConfigLoad \/ ConfigLevel
         \/ \E op \in PathOps : ConfigPath(op)
  PROVE  [Sets!Next]_(Sets!vars)
<1> DEFINE d == Data
           b == Done
<1>1. /\ errors \in [Error -> Severity] /\ d.cur = smiHandle
      /\ Data' \in DataSet /\ DataOK(d) /\ DataOK(Data')
  BY SInvFacts, KeepsData DEF Sound
<1>2. /\ stack # <<>> /\ Top.kind \in {"parser", "config"} /\ Top.rest # <<>>
      /\ Import \/ Complain => Top.kind = "parser"
      /\ ~(Import \/ Complain) => Top.kind = "config"
  BY DEF Import, Complain, ConfigLoad, ConfigLevel, ConfigPath, Parsing,
     Configuring
<1>3. /\ Sound(d, b, raised, nested) /\ d.cur # NIL
      /\ b # <<>> /\ b[Len(b)].kind = Top.kind
  BY <1>2, DoneFacts
<1>4. d \in DataSet /\ d.cur \in DOMAIN d.h
  <2> HIDE DEF d, b
  <2>1. QED BY <1>3, SoundFacts
<1>5. /\ Top.kind = "parser" => Head(Top.rest) \in Statement
      /\ Top.kind = "config" => Head(Top.rest) \in Command
  BY <1>2, ArgumentFacts
<1>6. Worked(d, Data')
  <2>1. CASE Import \/ ConfigLoad
    <3>1. Load(d, Argument, b)
      BY <2>1 DEF Import, ConfigLoad
    <3>2. Argument \in Module
      BY <2>1, <1>2, <1>5, StatementFacts, CommandFacts
         DEF Argument, Import, ConfigLoad, Parsing, Configuring
    <3> HIDE DEF d, b
    <3>3. QED BY <3>1, <3>2, <1>1, <1>3, LoadWorked
  <2>2. CASE Complain
    <3>1. PrintError(d, Argument, b)
      BY <2>2 DEF Complain
    <3>2. Argument \in Error
      BY <2>2, <1>2, <1>5, StatementFacts DEF Argument, Complain, Parsing
    <3>3. Top.kind = "parser"
      BY <2>2, <1>2
    <3> HIDE DEF d, b
    <3>4. QED BY <3>1, <3>2, <3>3, <1>1, <1>3, PrintErrorWorked
  <2>3. CASE ConfigLevel
    <3>1. Set([d EXCEPT !.h[d.cur].level = Argument])
      BY <2>3, <1>1 DEF ConfigLevel
    <3>2. Argument \in Nat
      BY <2>3, <1>2, <1>5, CommandFacts
         DEF Argument, Import, Complain, ConfigLevel, Parsing, Configuring
    <3> HIDE DEF d, b
    <3>3. Sound([d EXCEPT !.h[d.cur].level = Argument], b, raised, nested)
      BY <3>2, <1>3, ChangeSound
    <3>4. Data' = [d EXCEPT !.h[d.cur].level = Argument]
      BY <3>1, <3>3, SetFacts, SoundFacts
    <3>5. QED BY <3>2, <3>4, <1>3, <1>4, ChangeWorked
  <2>4. CASE \E op \in PathOps : ConfigPath(op)
    <3>1. PICK op \in PathOps : ConfigPath(op)
      BY <2>4
    <3> DEFINE path == NewPath(op, d.h[d.cur].path, Argument)
    <3>2. Set([d EXCEPT !.h[d.cur].path = path])
      BY <3>1, <1>1 DEF ConfigPath
    <3>3. Argument \in Dir
      BY <3>1, <1>2, <1>5, CommandFacts DEF Argument, ConfigPath, Configuring
    <3> HIDE DEF d, b
    <3>4. path \in Seq(Dir)
      BY <3>3, <1>4, DataFields, HandleFields, PathFacts
    <3> HIDE DEF path
    <3>5. Sound([d EXCEPT !.h[d.cur].path = path], b, raised, nested)
      BY <3>4, <1>3, ChangeSound
    <3>6. Data' = [d EXCEPT !.h[d.cur].path = path]
      BY <3>2, <3>5, SetFacts, SoundFacts
    <3>7. QED BY <3>4, <3>6, <1>3, <1>4, ChangeWorked
  <2>5. QED BY <2>1, <2>2, <2>3, <2>4
<1>7. QED BY <1>1, <1>6, WorkedMaps

\* smiInit() and smiExit().
LEMMA InitMaps ==
  ASSUME SInv, Keeps, NEW t \in Tag, smiInit(t)
  PROVE  [Sets!Next]_(Sets!vars)
<1> DEFINE d == Data
           e == Data'
<1>1. /\ MappedSet = SetOf(d) /\ MappedSet' = SetOf(e)
      /\ MappedSelected = Selected(d) /\ MappedSelected' = Selected(e)
  BY Mapping
<1>2. /\ Sound(d, stack, raised, nested) /\ DataOK(d) /\ DataOK(e)
      /\ d.cur = smiHandle /\ d.h = handle /\ d.list = list
  BY SInvFacts, KeepsData DEF Sound
<1>3. t # NULL /\ t # "untagged"
  BY NullAssumption
<1>4. CASE UNCHANGED <<handle, list, smiHandle, smiDepth>>
  <2>1. e = d
    BY <1>4 DEF Data
  <2> HIDE DEF d, e
  <2>2. QED BY <2>1, <1>1, StutterMaps
<1>5. CASE /\ FindHandle(t) # NIL /\ smiHandle' = FindHandle(t)
           /\ UNCHANGED <<handle, list, smiDepth>>
  <2> DEFINE x == FindIn(handle, list, t)
  <2>1. smiHandle' = x /\ x # NIL
    BY <1>5, FindDef
  <2>2. e.h = d.h /\ e.list = d.list /\ e.cur = x
    BY <1>5, <2>1 DEF Data
  <2> HIDE DEF d, e, x
  <2>3. d.h \in Seq(Handle) /\ d.list \in [first : Nat, last : Nat]
        /\ Linked(d.h, d.list)
    BY <1>2, SoundFacts
  <2>4. Live(d.h, x) /\ d.h[x].name = t /\ x \in DOMAIN d.h
    BY <2>1, <2>3, <1>2, FindFacts DEF x, Live
  <2>5. Entry(d, t) = Kept(d.h[x]) /\ Entry(d, t) # NULL
    BY <2>3, <2>4, <1>2, EntryFacts, KeptFacts, HandleFields
  <2>6. SetOf(e) = SetOf(d)
    BY <2>2 DEF SetOf, Entry
  <2>7. Selected(e) = t
    BY <2>1, <2>2, <2>4, <1>3 DEF Selected
  <2>8. Sets!Select(t)
    BY <2>5, <2>6, <2>7, <1>1, SetOfFacts, SelectMaps
  <2>9. QED BY <2>8 DEF Sets!Next
<1>6. CASE FindHandle(t) = NIL /\ Set(AddHandle(d, t))
  <2>1. FindIn(handle, list, t) = NIL
    BY <1>6, FindDef
  <2>2. e = AddHandle(d, t)
    <3> DEFINE a == AddHandle(d, t)
    <3>1. a \in DataSet
      <4> HIDE DEF d
      <4>1. QED BY <1>2, AddFields, Zenon
    <3> HIDE DEF a
    <3>2. QED BY <3>1, <1>6, SetFacts DEF a
  <2> HIDE DEF d, e
  <2>3. Entry(d, t) = NULL
    BY <2>1, <1>2 DEF Entry
  <2>4. /\ \A s \in Tag : s # t => Entry(e, s) = Entry(d, s)
        /\ Entry(e, t) = Kept(NewHandle(NULL, NIL)) /\ Selected(e) = t
    <3>1. t \in Tag \cup {NULL}
      OBVIOUS
    <3>2. QED BY <3>1, <2>2, <1>2, AddEntries
  <2>5. SetOf(e) = [SetOf(d) EXCEPT ![t] = Kept(NewHandle(NULL, NIL))]
    BY <2>4 DEF SetOf
  <2>6. Sets!Open(t)
    BY <2>3, <2>4, <2>5, <1>1, SetOfFacts, OpenMaps
  <2>7. QED BY <2>6 DEF Sets!Next
<1>7. QED BY <1>4, <1>5, <1>6 DEF smiInit

LEMMA ExitMaps ==
  ASSUME SInv, Keeps, smiExit
  PROVE  [Sets!Next]_(Sets!vars)
<1> DEFINE d == Data
           e == Data'
<1>1. /\ MappedSet = SetOf(d) /\ MappedSet' = SetOf(e)
      /\ MappedSelected = Selected(d) /\ MappedSelected' = Selected(e)
  BY Mapping
<1>2. /\ DataOK(d) /\ DataOK(e) /\ d.cur # NIL /\ Set(RemoveHandle(d, d.cur))
  BY SInvFacts, KeepsData DEF Sound, smiExit
<1>3. e = RemoveHandle(d, d.cur)
  <2> DEFINE a == RemoveHandle(d, d.cur)
  <2>1. a \in DataSet
    <3> HIDE DEF d
    <3>1. QED BY <1>2, RemoveFields, Zenon
  <2> HIDE DEF a
  <2>2. QED BY <2>1, <1>2, SetFacts DEF a
<1> HIDE DEF d, e
<1>4. /\ Selected(d) # NULL /\ Selected(e) = NULL
      /\ \A t \in Tag :
           Entry(e, t) = IF t = Selected(d) THEN NULL ELSE Entry(d, t)
  BY <1>2, <1>3, RemoveEntries
<1>5. SetOf(e) = [t \in Tag |-> IF t = Selected(d) THEN NULL ELSE SetOf(d)[t]]
  BY <1>4 DEF SetOf
<1>6. Sets!Close
  BY <1>1, <1>4, <1>5, CloseMaps
<1>7. QED BY <1>6 DEF Sets!Next

LEMMA LoadModuleMaps ==
  ASSUME SInv, Keeps, NEW m \in Module, smiLoadModule(m)
  PROVE  [Sets!Next]_(Sets!vars)
<1> DEFINE d == Ensured
<1>1. /\ Sound(d, stack, raised, nested) /\ d.cur # NIL
      /\ errors \in [Error -> Severity] /\ Load(d, m, stack)
      /\ Data' \in DataSet /\ DataOK(Data')
  BY SInvFacts, EnsuredSound, KeepsData DEF smiLoadModule
<1> HIDE DEF d
<1>2. Worked(d, Data')
  BY <1>1, LoadWorked
<1>3. QED BY <1>1, <1>2, EnsuredMaps DEF d

LEMMA UntaggedMaps ==
  ASSUME SInv, Keeps, smiInitUntagged
  PROVE  [Sets!Next]_(Sets!vars)
<1> DEFINE d == Data
           e == Data'
<1>1. /\ MappedSet = SetOf(d) /\ MappedSet' = SetOf(e)
      /\ MappedSelected' = Selected(e)
  BY Mapping
<1>2. /\ Sound(d, stack, raised, nested) /\ nested \in BOOLEAN
      /\ Set(Untagged(d))
  BY SInvFacts DEF smiInitUntagged, Untagged
<1>3. e = Untagged(d)
  <2> DEFINE a == Untagged(d)
  <2>1. Sound(a, stack, raised, TRUE)
    <3> HIDE DEF d
    <3>1. QED BY <1>2, UntaggedSound
  <2> HIDE DEF a
  <2>2. QED BY <2>1, <1>2, SetFacts, SoundFacts DEF a
<1> HIDE DEF d, e
<1>4. SetOf(e) = SetOf(d) /\ Selected(e) = "untagged"
  BY <1>2, <1>3, UntaggedEntries
<1>5. Sets!OpenUntagged
  BY <1>1, <1>4, OpenUntaggedMaps
<1>6. QED BY <1>5 DEF Sets!Next


LEMMA OtherMaps ==
  ASSUME UNCHANGED <<handle, list, smiHandle>>
  PROVE  [Sets!Next]_(Sets!vars)
<1> DEFINE d == Data
           e == Data'
<1>1. /\ MappedSet = SetOf(d) /\ MappedSet' = SetOf(e)
      /\ MappedSelected = Selected(d) /\ MappedSelected' = Selected(e)
  BY Mapping
<1>2. e.h = d.h /\ e.list = d.list /\ e.cur = d.cur
  BY DEF Data
<1> HIDE DEF d, e
<1>3. SetOf(e) = SetOf(d) /\ Selected(e) = Selected(d)
  BY <1>2 DEF SetOf, Entry, Selected
<1>4. QED BY <1>1, <1>3, StutterMaps

LEMMA StepMaps == SInv /\ [Next]_vars => [Sets!Next]_(Sets!vars)
<1> SUFFICES ASSUME SInv, [Next]_vars PROVE [Sets!Next]_(Sets!vars)
  OBVIOUS
<1>1. CASE UNCHANGED vars
  BY <1>1, OtherMaps DEF vars
<1>2. CASE Next
  <2>1. Keeps
    BY <1>2, NextKeeps
  <2>2. CASE Application
    <3>1. CASE \E t \in Tag : smiReadConfig(App[t])
      BY <3>1, OtherMaps DEF smiReadConfig
    <3>2. CASE \E p \in Patterns, s \in Severities : smiSetSeverity(p, s)
      BY <3>2, OtherMaps DEF smiSetSeverity
    <3>3. QED BY <2>1, <2>2, <3>1, <3>2, UntaggedMaps, ExitMaps, InitMaps,
                 LoadModuleMaps, SettingMaps DEF Application
  <2>3. CASE Library
    <3>1. CASE EndOfFile \/ HandlerReturns \/ ConfigHide \/ ConfigSkip \/ EndOfConfig
      BY <3>1, OtherMaps
         DEF EndOfFile, HandlerReturns, ConfigHide, ConfigSkip, EndOfConfig
    <3>2. QED BY <2>1, <2>3, <3>1, LibraryMaps DEF Library, PathOps
  <2>4. QED BY <1>2, <2>2, <2>3 DEF Next
<1>3. QED BY <1>1, <1>2

\* The detailed specification implements the abstract one: the handles, their
\* links, the current handle and the search by name together keep data sets
\* apart as DataSets says, whoever calls smiInit(), smiExit() or the setters.
THEOREM Refines == Spec => DataSetSpec
<1>1. Init => Sets!Init
  <2> SUFFICES ASSUME Init PROVE Sets!Init
    OBVIOUS
  <2> DEFINE d == Data
  <2>1. MappedSet = SetOf(d) /\ MappedSelected = Selected(d)
    BY Mapping
  <2>2. d.h = <<>> /\ d.cur = NIL /\ DataOK(d)
    <3>1. SInv
      BY InitSound
    <3>2. QED BY <3>1 DEF SInv, Sound, Init, Data
  <2> HIDE DEF d
  <2>3. \A t \in Tag : Entry(d, t) = NULL
    BY <2>2, EntryFacts
  <2>4. MappedSet = [t \in Tag |-> NULL] /\ MappedSelected = NULL
    BY <2>1, <2>2, <2>3 DEF SetOf, Selected
  <2>5. QED BY <2>4, Zenon DEF Sets!Init, MappedSet, MappedSelected
<1>2. QED BY <1>1, Inductive, StepMaps, PTL DEF Spec, DataSetSpec, Sets!Spec
=============================================================================
