---------------------------- MODULE SmiSources ----------------------------
(***************************************************************************)
(* Modules for DumpSmi: with a scalar of every kind of type, a table of    *)
(* three columns that can be expressed or not, rows of every index, and    *)
(* notifications, groups and compliances that name objects of two modules. *)
(* And MIBs and PIBs for DumpSppi: with floats, numbers from 128 on, and   *)
(* modules without columns or without an identity.  And modules for        *)
(* DumpSming that end in objects of every depth, with imports in any order.*)
(*                                                                         *)
(* Nodes for PduSizes follow, with octets of four values: ints have 8      *)
(* bits.  Groups, rows and notifications of one or two variables of any    *)
(* type, with an index of up to two columns.                               *)
(***************************************************************************)
EXTENDS Integers, Sequences, SequencesExt, FiniteSets, Functions, TLC

CONSTANT NULL

M == "M-MIB"
Order ==
  <<"A-MIB", "COPS-PR-SPPI", "COPS-PR-SPPI-TC", "Counter", "Counter32", "Counter64", "DisplayString", "Gauge",
    "Gauge32", "INET-ADDRESS-MIB", "InetAddress", "InstanceId", "Integer32", "IpAddress",
    "M-MIB", "MODULE-COMPLIANCE", "MODULE-IDENTITY", "MyFloat", "NOTIFICATION-GROUP", "NOTIFICATION-TYPE",
    "OBJECT-GROUP", "OBJECT-IDENTITY", "OBJECT-TYPE", "RFC-1212", "RFC-1215", "RFC1155-SMI",
    "RFC1213-MIB", "S-SMING", "SNMP-FRAMEWORK-MIB", "SNMPv2-CONF", "SNMPv2-SMI", "SNMPv2-TC", "SnmpAdminString",
    "TEXTUAL-CONVENTION", "TRAP-TYPE", "TUBS-SMI", "Unsigned32", "Unsigned64", "aGroup", "aIndex", "aNotify", "aObject",
    "aRow", "enterprises", "ibrmibtopib", "mib-2">>
Ranks == [s \in ToSet(Order) |-> CHOOSE k \in DOMAIN Order : Order[k] = s]

T(n, m, b, p) == [name |-> n, module |-> m, basetype |-> b, parents |-> p, status |-> TRUE, description |-> TRUE]
Int32     == T("Integer32", "SNMPv2-SMI", "INTEGER32", <<<<"", "Integer32">>>>)
Ct64    == T("Counter64", "SNMPv2-SMI", "UNSIGNED64", <<<<"", "Unsigned64">>>>)
Int64   == T("Integer64", "", "INTEGER64", <<>>)
Uns     == T("Unsigned32", "SNMPv2-SMI", "UNSIGNED32", <<<<"", "Unsigned32">>>>)
Ct32    == T("Counter32", "SNMPv2-SMI", "UNSIGNED32", <<<<"", "Unsigned32">>>>)
Ct1     == T("Counter", "RFC1155-SMI", "UNSIGNED32", <<<<"", "Unsigned32">>>>)
Display == T("DisplayString", "SNMPv2-TC", "OCTETSTRING", <<<<"", "OctetString">>>>)
Old     == T("DisplayString", "RFC1213-MIB", "OCTETSTRING", <<<<"", "OctetString">>>>)
Choice  == T(NULL, "", "ENUM", <<<<"", "Enumeration">>>>)
Flags   == T(NULL, "", "BITS", <<<<"", "Bits">>>>)
Short   == T(NULL, "", "OCTETSTRING", <<<<"SNMPv2-TC", "DisplayString">>, <<"", "OctetString">>>>)
Mine    == T("Mine", M, "OCTETSTRING", <<<<"SNMPv2-TC", "DisplayString">>, <<"", "OctetString">>>>)
Count   == T("Count", M, "UNSIGNED64", <<<<"SNMPv2-SMI", "Counter64">>, <<"", "Unsigned64">>>>)
Plain   == [T("Plain", M, "INTEGER32", <<<<"", "Integer32">>>>) EXCEPT !.status = FALSE]
Long    == [T("Long", M, "INTEGER64", <<<<"", "Integer64">>>>) EXCEPT !.status = FALSE]
Types   == {Int32, Ct64, Int64, Uns, Ct32, Ct1, Display, Old, Choice, Flags, Short, Mine, Count, Plain, Long}

Above(n, m, z) == [name |-> n, module |-> m, zero |-> z]
Top     == <<Above("enterprises", "SNMPv2-SMI", FALSE), Above(NULL, "", FALSE), Above("iso", "", FALSE)>>
N(n, k) ==
  [name |-> n, kind |-> k, status |-> TRUE, type |-> NULL, above |-> <<Above("m", M, FALSE)>> \o Top,
   elements |-> <<>>, index |-> <<>>, indexkind |-> NULL, related |-> NULL, columns |-> <<>>,
   entry |-> NULL, options |-> <<>>, refinements |-> <<>>, number |-> 1, table |-> NULL]
Root    == [N("m", "NODE") EXCEPT !.above = Top, !.status = FALSE]
Scalar(t) == [N("mScalar", "SCALAR") EXCEPT !.type = t]
Col(n, t) == [N(n, "COLUMN") EXCEPT !.type = t]
Table   == [N("mTable", "TABLE") EXCEPT !.entry = "MRow"]
Row(cs) == [N("mRow", "ROW") EXCEPT !.entry = "MRow", !.indexkind = "INDEX", !.index = <<"aIndex">>,
              !.columns = [k \in DOMAIN cs |-> [name |-> cs[k].name, type |-> cs[k].type]]]

Source(id, ts, nodes, imports) ==
  [name |-> M, language |-> "smi", identity |-> id, types |-> ts, nodes |-> <<Root>> \o nodes, listed |-> <<>>, labels |-> {"enterprises", "aIndex", "aObject", "aRow", "aNotify"},
   imports |-> imports \cup {<<"SNMPv2-SMI", "enterprises">>}]
Own(t)  == IF t \in {Mine, Count, Plain, Long} THEN <<t>> ELSE <<>>

Scalars ==
  {Source(id, Own(t), <<Scalar(t)>>, {<<"SNMPv2-SMI", "MODULE-IDENTITY">>}) : id \in {"m", NULL}, t \in Types}
  \cup {Source(NULL, <<Mine, Long, Plain>>, <<Scalar(Mine), [Scalar(Long) EXCEPT !.name = "mOther"]>>, {<<"SNMPv2-TC", "TEXTUAL-CONVENTION">>})}

Columns == {<<Col("mA", a), Col("mB", b), Col("mC", c)>> : a \in {Int32, Int64}, b \in {Ct64, Int64, Display}, c \in {Choice, Int64, Ct64}}
Tables  ==
  {Source("m", <<>>, <<Table, Row(cs)>> \o cs, {<<"A-MIB", "aIndex">>}) : cs \in Columns}
  \cup {Source("m", <<>>, <<Table, r>> \o <<Col("mA", Int32)>>, {<<"A-MIB", "aIndex">>, <<"A-MIB", "aRow">>}) :
          r \in {[Row(<<Col("mA", Int32)>>) EXCEPT !.index = <<"aIndex", "mA">>],
                 [Row(<<Col("mA", Int32)>>) EXCEPT !.indexkind = "AUGMENT", !.related = "aRow", !.index = <<"bIndex">>],
                 [Row(<<Col("mA", Int32)>>) EXCEPT !.indexkind = "SPARSE", !.related = "aRow", !.index = <<"bIndex">>]}}

E(n, m, k) == [name |-> n, module |-> m, kind |-> k]
Lists   == {<<>>, <<E("mScalar", M, "SCALAR")>>, <<E("aObject", "A-MIB", "SCALAR"), E("mScalar", M, "SCALAR")>>,
            <<E("mNotify", M, "NOTIFICATION")>>, <<E("mNotify", M, "NOTIFICATION"), E("mScalar", M, "SCALAR")>>}
Groups  == {<<>>, <<E("mGroup", M, "GROUP")>>, <<E("aGroup", "A-MIB", "GROUP"), E("mGroup", M, "GROUP"), E("aGroup2", "A-MIB", "GROUP")>>}
Notify(z) == [N("mNotify", "NOTIFICATION") EXCEPT !.elements = <<E("mScalar", M, "SCALAR")>>,
                !.above = IF z THEN <<Above("m0", M, TRUE), Above(NULL, "", FALSE), Above("m", M, FALSE)>> \o Top ELSE @]
Conformance ==
  {Source("m", <<>>,
     <<Scalar(Int32), Notify(g = <<>>), [N("mGroup", "GROUP") EXCEPT !.elements = l], [N("mMore", "GROUP") EXCEPT !.elements = <<E("mScalar", M, "SCALAR")>>],
       [N("mCompliance", "COMPLIANCE") EXCEPT !.elements = g, !.options = <<E("mMore", M, "GROUP"), E("aGroup", "A-MIB", "GROUP")>>,
          !.refinements = <<E("mScalar", M, "SCALAR"), E("aObject", "A-MIB", "SCALAR")>>],
       N("mCaps", "CAPABILITIES"), N("mNode", "NODE")>>
       \o IF g = <<>> THEN <<[N("m0", "NODE") EXCEPT !.status = FALSE]>> ELSE <<>>,
     {<<"A-MIB", "aObject">>, <<"A-MIB", "aNotify">>, <<"SNMPv2-SMI", "Integer32">>}) : l \in Lists, g \in Groups}

Address == T("IpAddress", "SNMPv2-SMI", "OCTETSTRING", <<<<"", "OctetString">>>>)
Admin   == T("SnmpAdminString", "SNMP-FRAMEWORK-MIB", "OCTETSTRING", <<<<"", "OctetString">>>>)
Float   == T("MyFloat", "S-SMING", "FLOAT32", <<<<"", "Float32">>>>)
Real    == T("Real", M, "FLOAT32", <<<<"S-SMING", "MyFloat">>, <<"", "Float32">>>>)
Ratio   == [T("Ratio", M, "FLOAT32", <<<<"", "Float32">>>>) EXCEPT !.status = FALSE]
PibOwn(t) == IF t \in {Mine, Count, Plain, Real, Ratio} THEN <<t>> ELSE <<>>
At(n, k)  == [n EXCEPT !.number = k]
PCol(n, t, k) == [At(Col(n, t), k) EXCEPT !.above = <<Above("mRow", M, FALSE), Above("mTable", M, FALSE)>> \o @]
PTable  == At(Table, 2)
PRow(cs) == [N("mRow", "ROW") EXCEPT !.entry = "MRow", !.table = "mTable", !.indexkind = "INDEX", !.index = <<"aIndex", cs[1].name>>,
               !.columns = [k \in DOMAIN cs |-> [name |-> cs[k].name, type |-> cs[k].type, number |-> cs[k].number]],
               !.above = <<Above("mTable", M, FALSE)>> \o @]
PColumns == {<<PCol("mA", a, 1), PCol("mB", b, 2), PCol("mC", c, k)>> : a \in {Int32, Float}, b \in {Ct64, Address, Float}, c \in {Choice, Float}, k \in {3, 128}}
PibNodes ==
  {<<At(Scalar(t), 5)>> : t \in {Int32, Uns, Ct32, Ct1, Display, Choice, Flags, Short, Mine, Plain, Address, Admin, Float, Real, Ratio}}
  \cup {<<PTable, PRow(cs)>> \o cs : cs \in PColumns}
  \cup {<<PTable, [PRow(cs) EXCEPT !.indexkind = ik, !.related = "aRow"], cs[1]>> : cs \in {<<PCol("mA", Admin, 1)>>}, ik \in {"AUGMENT", "SPARSE"}}
  \cup {<<At(Scalar(Int32), 5), At(Notify(FALSE), 6), At([N("mGroup", "GROUP") EXCEPT !.elements = l], 7), At([N("mMore", "GROUP") EXCEPT !.elements = <<E("mScalar", M, "SCALAR")>>], 8),
            At([N("mCompliance", "COMPLIANCE") EXCEPT !.elements = g], 9), At(N("mCaps", "CAPABILITIES"), 10), At(N("mNode", "NODE"), k)>> :
           l \in Lists, g \in Groups, k \in {11, 128}}
Typed(nodes) == FlattenSeq([k \in DOMAIN nodes |-> IF nodes[k].type = NULL THEN <<>> ELSE PibOwn(nodes[k].type)])
PibModules ==
  {[Source(id, Typed(nodes), nodes, {<<"A-MIB", "aIndex">>, <<"A-MIB", "aRow">>, <<"A-MIB", "aObject">>, <<"SNMPv2-SMI", "IpAddress">>, <<"SNMPv2-TC", "DisplayString">>})
      EXCEPT !.language = l] : id \in {"m", NULL}, nodes \in PibNodes, l \in {"smi", "sppi"}}

Listed ==
  <<<<<<"SNMPv2-SMI", "enterprises">>, <<"SNMPv2-SMI", "Integer32">>, <<"SNMPv2-SMI", "Counter32">>, <<"SNMPv2-TC", "DisplayString">>,
      <<"A-MIB", "aIndex">>, <<"A-MIB", "aRow">>, <<"A-MIB", "aObject">>, <<"A-MIB", "aNotify">>>>,
    <<<<"A-MIB", "aIndex">>, <<"SNMPv2-SMI", "Counter32">>, <<"A-MIB", "aRow">>, <<"A-MIB", "aObject">>, <<"A-MIB", "aNotify">>,
      <<"SNMPv2-TC", "DisplayString">>, <<"SNMPv2-SMI", "Integer32">>, <<"SNMPv2-SMI", "enterprises">>>>>>
SmingSource(id, ts, nodes, l) ==
  [Source(id, ts, nodes, {}) EXCEPT !.listed = l, !.imports = ToSet(l), !.language = "smi"]
SRow(cs, ik) == [Row(cs) EXCEPT !.indexkind = ik, !.related = "aRow"]
SNodes ==
  {before \o <<Table, SRow(cs, ik)>> \o cs \o after :
     before \in {<<>>, <<Scalar(Int32)>>}, ik \in {"INDEX", "AUGMENT", "SPARSE", "REORDER", "EXPAND"},
     cs \in {<<>>, <<Col("mA", Flags)>>, <<Col("mA", Ct32), Col("mB", Choice)>>},
     after \in {<<>>, <<N("mNode", "NODE")>>, <<N("mCaps", "CAPABILITIES")>>, <<[Table EXCEPT !.name = "mTable2"]>>,
               <<[Table EXCEPT !.name = "mTable2"], [Row(<<>>) EXCEPT !.name = "mRow2"], Col("mC", Mine)>>}}
SConformance ==
  {before \o <<Notify(FALSE), [N("mGroup", "GROUP") EXCEPT !.elements = l],
     [N("mCompliance", "COMPLIANCE") EXCEPT !.elements = g, !.options = <<E("mMore", M, "GROUP"), E("aGroup", "A-MIB", "GROUP")>>,
          !.refinements = <<E("mScalar", M, "SCALAR"), E("aObject", "A-MIB", "SCALAR")>>]>> :
     before \in {<<Scalar(Short)>>, <<Scalar(Short), Table, Row(<<>>), Col("mA", Plain)>>}, l \in Lists, g \in Groups}
SmingModules ==
  {SmingSource(id, <<Mine, Plain>>, nodes, Listed[k]) : id \in {"m", NULL}, nodes \in SNodes \cup SConformance, k \in {1, 2}}
  \cup {[SmingSource(NULL, ts, <<>>, <<>>) EXCEPT !.name = nm, !.nodes = <<>>] : nm \in {M, "SNMPv2-SMI"},
           ts \in {<<Plain>>, <<Plain, [Plain EXCEPT !.name = "ObjectSyntax"], Long>>, <<Plain, Long, [Plain EXCEPT !.name = "SimpleSyntax"]>>}}

SomeSources == Scalars \cup Tables \cup Conformance

-----------------------------------------------------------------------------
R(a, b)  == [min |-> a, max |-> b]
Sizes(a, m, b) == [min |-> a, mean |-> m, max |-> b]
Base(b, c)  == [basetype |-> b, chain |-> c, numbers |-> {}, size |-> Sizes(0, 0, 0), special |-> FALSE]
Enum(S)  == [Base("ENUM", <<>>) EXCEPT !.numbers = S]
Str(a, b) == [Base("OCTETSTRING", <<>>) EXCEPT !.size = Sizes(a, 0, b)]
AnyInteger    == Base("INTEGER32", <<{}, {}>>)
SizeTypes    ==
  {AnyInteger, Base("INTEGER32", <<{}, {R(3, 40)}>>), Base("INTEGER32", <<{R(1, 2), R(30, 60)}, {R(0, 127)}>>),
   Base("INTEGER32", <<{R(-100, 1)}>>), Base("UNSIGNED32", <<{}>>), Base("UNSIGNED32", <<{R(60, 80), R(200, 250)}>>),
   Base("INTEGER64", <<{R(0, 300)}>>), Base("UNSIGNED64", <<{R(20, 90)}, {R(0, 300)}>>), Base("UNSIGNED64", <<{}>>),
   Enum({1, 2, 9}), Enum({-1, 1}), Str(0, 3), Str(6, 6), [Str(0, 0) EXCEPT !.size = Sizes(0, 6, 255), !.special = TRUE],
   [Base("BITS", <<>>) EXCEPT !.size = Sizes(1, 0, 1)], Base("OBJECTIDENTIFIER", <<>>)}
SizeColumns  == {Base("INTEGER32", <<{R(1, 127)}>>), Base("UNSIGNED32", <<{R(2, 5), R(200, 250)}>>), Str(2, 4),
             Str(2, 2), Str(0, 9), Enum({6, 8}), Base("OBJECTIDENTIFIER", <<>>), Base("UNSIGNED64", <<{R(20, 90)}>>)}

Var(t, k, ix, ac) ==
  [nodekind |-> k, access |-> ac, oid |-> [len |-> 4, size |-> 6], type |-> t, default |-> FALSE,
   rowStatus |-> FALSE, indexkind |-> "INDEX", index |-> ix, related |-> <<>>, implied |-> FALSE]
ShortIndices    == {<<>>} \cup {<<c>> : c \in SizeColumns}
Indices  == ShortIndices \cup {<<c, d>> : c \in {Base("INTEGER32", <<{R(1, 127)}>>), Str(0, 9), Base("OBJECTIDENTIFIER", <<>>)}, d \in SizeColumns}

Owner(k, vs) == [nodekind |-> k, create |-> TRUE, oid |-> [len |-> 3, size |-> 5],
             children |-> IF k = "NOTIFICATION" THEN <<>> ELSE vs,
             objects |-> IF k = "NOTIFICATION" THEN vs ELSE <<>>]
CountedInt    == Base("INTEGER32", <<{R(3, 40)}>>)
Extra    == {Var(AnyInteger, "OTHER", <<>>, "RW"), Var(AnyInteger, "COLUMN", <<CountedInt>>, "NOTIFY"), Var(AnyInteger, "COLUMN", <<CountedInt>>, "RO"),
             [Var(CountedInt, "COLUMN", <<CountedInt>>, "RW") EXCEPT !.default = TRUE],
             [Var(CountedInt, "COLUMN", <<CountedInt>>, "RW") EXCEPT !.default = TRUE, !.rowStatus = TRUE],
             [Var(CountedInt, "COLUMN", <<>>, "RW") EXCEPT !.indexkind = "AUGMENT", !.related = <<Str(0, 3)>>],
             [Var(CountedInt, "COLUMN", <<Str(0, 3)>>, "RW") EXCEPT !.implied = TRUE],
             [Var(CountedInt, "COLUMN", <<CountedInt>>, "RO") EXCEPT !.indexkind = "EXPAND"]}
LargeId  == -100
SomeNodes ==
  {Owner("NODE", <<Var(t, "SCALAR", <<>>, "RO")>>) : t \in SizeTypes}
  \cup {Owner("ROW", <<Var(CountedInt, "COLUMN", ix, "RW")>>) : ix \in Indices}
  \cup {Owner("ROW", <<Var(CountedInt, "COLUMN", <<CountedInt>>, "RW"), v>>) : v \in Extra}
  \cup {Owner("NOTIFICATION", <<Var(t, "COLUMN", <<CountedInt>>, "RO")>>) : t \in SizeTypes}
  \cup {Owner("NODE", <<>>), Owner("ROW", <<>>), Owner("NOTIFICATION", <<>>)}

-----------------------------------------------------------------------------
(* Modules for SmiYang.  Z-MIB has a table; A-B-MIB has one whose index    *)
(* may be that of Z-MIB, or that augments it; and M-MIB refers to both:    *)
(* with the index of its table, with rows that augment, and with           *)
(* notifications.                                                          *)


YNode(n, m, k, p) ==
  [name |-> n, module |-> m, kind |-> k, parent |-> p, children |-> <<>>, access |-> FALSE, type |-> NULL,
   indexkind |-> NULL, elements |-> <<>>, related |-> NULL, macro |-> TRUE]
YLeaf(n, m, k, p, a, t) == [YNode(n, m, k, p) EXCEPT !.access = a, !.type = t]
YRow(n, m, p, kind, e, r, c) ==
  [YNode(n, m, "ROW", p) EXCEPT !.indexkind = kind, !.elements = e, !.related = r, !.children = c]
YOver(n, m, k, c) == [YNode(n, m, k, NULL) EXCEPT !.children = c]

YType(n, m, p, e) == [name |-> n, module |-> m, parent |-> p, enum |-> e]
YTypes ==
  ("int" :> YType("Integer32", "", NULL, FALSE)) @@ ("oct" :> YType("OctetString", "", NULL, FALSE))
  @@ ("enum" :> YType("Enumeration", "", NULL, TRUE)) @@ ("oid" :> YType("ObjectIdentifier", "", NULL, FALSE))
  @@ ("count" :> YType("Counter32", "SNMPv2-SMI", "int", FALSE))
  @@ ("truth" :> YType("TruthValue", "SNMPv2-TC", "enum", TRUE))
  @@ ("text" :> YType("DisplayString", "A-B", "oct", FALSE))
  @@ ("short" :> YType(NULL, "A-B-MIB", "text", FALSE)) @@ ("few" :> YType(NULL, "M-MIB", "mine", TRUE))
  @@ ("mine" :> YType("MState", "M-MIB", "enum", TRUE)) @@ ("mId" :> YType("MId", "M-MIB", "oid", FALSE))

\* The table of Z-MIB, the one of A-B-MIB, and the scalars of A-B-MIB.
Zs ==
  ("zTable" :> YOver("zTable", "Z-MIB", "TABLE", <<"zEntry">>))
  @@ ("zEntry" :> YRow("zEntry", "Z-MIB", "zTable", "INDEX", <<"zIndex">>, NULL, <<"zIndex", "zValue">>))
  @@ ("zIndex" :> YLeaf("index", "Z-MIB", "COLUMN", "zEntry", FALSE, "int"))
  @@ ("zValue" :> YLeaf("zValue", "Z-MIB", "COLUMN", "zEntry", TRUE, "count"))
As(row) ==
  ("aTable" :> YOver("aTable", "A-B-MIB", "TABLE", <<"aEntry">>)) @@ ("aEntry" :> row)
  @@ ("aIndex" :> YLeaf("aIndex", "A-B-MIB", "COLUMN", "aEntry", FALSE, "short"))
  @@ ("aValue" :> YLeaf("aValue", "A-B-MIB", "COLUMN", "aEntry", TRUE, "text"))
  @@ ("aHidden" :> YLeaf("aHidden", "A-B-MIB", "COLUMN", "aEntry", FALSE, "text"))
  @@ ("a" :> YOver("a", "A-B-MIB", "NODE", <<"aScalar">>))
  @@ ("aScalar" :> YLeaf("aScalar", "A-B-MIB", "SCALAR", "a", TRUE, "text"))
ARows ==
  LET columns == <<"aIndex", "aValue", "aHidden">>
  IN {YRow("aEntry", "A-B-MIB", "aTable", "INDEX", <<"aIndex">>, NULL, columns),
      YRow("aEntry", "A-B-MIB", "aTable", "INDEX", <<"zIndex", "aIndex">>, NULL, columns),
      YRow("aEntry", "A-B-MIB", "aTable", "AUGMENT", <<>>, "zEntry", columns)}

Ms(row, group, vbs) ==
  ("mTable" :> YOver("mTable", "M-MIB", "TABLE", <<"mEntry">>)) @@ ("mEntry" :> row)
  @@ ("mIndex" :> YLeaf("index", "M-MIB", "COLUMN", "mEntry", FALSE, "oid"))
  @@ ("mValue" :> YLeaf("mValue", "M-MIB", "COLUMN", "mEntry", TRUE, "mine"))
  @@ ("mHidden" :> YLeaf("mHidden", "M-MIB", "COLUMN", "mEntry", FALSE, "few"))
  @@ ("m" :> group)
  @@ ("mOne" :> YLeaf("mOne", "M-MIB", "SCALAR", "m", TRUE, "truth"))
  @@ ("mTwo" :> YLeaf("mTwo", "M-MIB", "SCALAR", "m", TRUE, "mine"))
  @@ ("mNotify" :> [YNode("mNotify", "M-MIB", "NOTIFICATION", NULL) EXCEPT !.elements = vbs])

MRow(kind, e, r) == YRow("mEntry", "M-MIB", "mTable", kind, e, r, <<"mIndex", "mValue", "mHidden">>)
MRows ==
  {MRow("INDEX", e, NULL) : e \in {<<"mIndex">>, <<"mIndex", "mIndex">>, <<"aIndex", "aIndex", "mIndex">>, <<"zIndex", "mIndex">>,
                                  <<"aValue">>, <<"aHidden">>, <<"aScalar", "mIndex">>}}
  \cup {MRow("AUGMENT", <<>>, "zEntry"), MRow("SPARSE", <<>>, "zEntry"), MRow(NULL, <<>>, NULL)}
MGroup == YOver("m", "M-MIB", "NODE", <<"mOne", "mTwo">>)
Notified == {<<>>, <<"mOne", "mValue">>, <<"mHidden">>, <<"aValue">>, <<"aHidden", "aScalar">>, <<"mIndex">>}

SMI == <<<<"SNMPv2-SMI", "OBJECT-TYPE">>, <<"SNMPv2-SMI", "Counter32">>, <<"SNMPv2-TC", "TruthValue">>>>
TC  == <<<<"A-B", "DisplayString">>>>
YSource(i, t, n) == [imports |-> i, types |-> t, nodes |-> n]
YWorld(nodes, types, imports, order) ==
  [nodes |-> nodes, types |-> types, order |-> order,
   modules |-> ("Z-MIB" :> YSource(SMI, <<>>, <<"zTable", "zEntry", "zIndex", "zValue">>))
     @@ ("A-B-MIB" :> YSource(<<<<"Z-MIB", "zIndex">>>> \o SMI \o TC, <<>>,
                           <<"aTable", "aEntry", "aIndex", "aValue", "aHidden", "a", "aScalar">>))
     @@ ("M-MIB" :> YSource(imports, <<"mine", "mId">>,
           <<"m", "mOne", "mTwo", "mTable", "mEntry", "mIndex", "mValue", "mHidden", "mNotify">>))]

\* M-MIB imports from the modules whose objects it names.
YNames(row, vbs) == ToSet(row.elements) \cup ToSet(vbs) \cup {row.related}
FromA == <<<<"A-B-MIB", "aValue">>>>
FromOthers(row, vbs) ==
  (IF \E k \in YNames(row, vbs) : k \in {"aIndex", "aValue", "aHidden", "aScalar"} THEN FromA ELSE <<>>)
  \o (IF \E k \in YNames(row, vbs) : k \in {"zIndex", "zEntry"} THEN <<<<"Z-MIB", "zEntry">>>> ELSE <<>>)

YOrder == <<"Z-MIB", "A-B-MIB", "M-MIB">>
YTables ==
  {YWorld(Zs @@ As(a) @@ Ms(m, MGroup, v), YTypes, SMI \o FromOthers(m, v), YOrder) : a \in ARows, m \in MRows, v \in Notified}
YGroups ==
  {YWorld(Zs @@ As(YRow("aEntry", "A-B-MIB", "aTable", "INDEX", <<"aIndex">>, NULL, <<"aIndex", "aValue", "aHidden">>))
            @@ Ms(MRow("INDEX", <<"mIndex">>, NULL), g, <<"mOne", "mTwo">>),
         YTypes, SMI, YOrder) :
     g \in {[MGroup EXCEPT !.name = NULL], [MGroup EXCEPT !.children = <<"mOne", NULL, "mTwo">>]}}

\* M-MIB has a type of A-B, which is imported before A-B-MIB or after it.
YNamed ==
  {YWorld(Zs @@ As(YRow("aEntry", "A-B-MIB", "aTable", "AUGMENT", <<>>, "zEntry", <<"aIndex", "aValue", "aHidden">>))
            @@ Ms(MRow("INDEX", <<"aIndex", "mIndex">>, NULL), MGroup, <<"aHidden">>),
         [YTypes EXCEPT !["mine"].parent = "text"], i \o SMI, <<"M-MIB", "A-B-MIB", "Z-MIB">>) :
     i \in {TC \o FromA, FromA \o TC}}

SomeWorlds == YTables \cup YGroups \cup YNamed

SomePrefixes ==
  ("ietf-yang-types" :> <<"yang", "ietf-yang", "ietf-yang-types">>)
  @@ ("ietf-yang-smiv2" :> <<"smiv2", "ietf-yang", "ietf-yang-smiv2">>)
  @@ ("ietf-inet-types" :> <<"inet", "ietf-inet", "ietf-inet-types">>)
  @@ ("SNMPv2-SMI" :> <<"snmpv2-smi">>) @@ ("SNMPv2-TC" :> <<"snmpv2-tc">>) @@ ("A-B" :> <<"a-b">>)
  @@ ("Z-MIB" :> <<"z-mib">>) @@ ("A-B-MIB" :> <<"a-b", "a-b-mib">>) @@ ("M-MIB" :> <<"m-mib">>)
YSorted == <<"A-B", "A-B-MIB", "M-MIB", "SNMPv2-SMI", "SNMPv2-TC", "Z-MIB", "ietf-inet-types", "ietf-yang-smiv2", "ietf-yang-types">>
Positions == [s \in ToSet(YSorted) |-> CHOOSE k \in DOMAIN YSorted : YSorted[k] = s]
=============================================================================
