---------------------------- MODULE ReadSources -----------------------------
(***************************************************************************)
(* Texts of modules for Clauses and Declarations: rows and columns in every *)
(* order, revisions, statements of compliance and capabilities, and small  *)
(* modules for the other macros; each one also cut off behind a clause.    *)
(* And modules for ModuleChecks, at the end.                               *)
(***************************************************************************)
EXTENDS Integers, Sequences, FiniteSets, TLC
LOCAL INSTANCE SequencesExt

CONSTANT NULL

Macros == {"OBJECT-TYPE", "TRAP-TYPE", "NOTIFICATION-TYPE", "MODULE-IDENTITY", "OBJECT-IDENTITY"}
AMacro  == [is |-> "macro", type |-> "none", base |-> "none"]
AType(b) == [is |-> "type", type |-> "none", base |-> b]
World ==
  "OTHER-MIB" :> ("otherColumn" :> [is |-> "column", type |-> "Text", base |-> "octets"]
                  @@ "otherGroup" :> [is |-> "group", type |-> "none", base |-> "none"]
                  @@ "otherTrap" :> [is |-> "notification", type |-> "none", base |-> "none"]
                  @@ "otherRow" :> [is |-> "row", type |-> "none", base |-> "none"]
                  @@ "Text" :> AType("octets"))
  @@ "SNMPv2-SMI" :> ([x \in Macros |-> AMacro]
                      @@ "Integer32" :> AType("integer32") @@ "Counter32" :> AType("unsigned32")
                      @@ "IpAddress" :> AType("octets") @@ "ExtUTCTime" :> AType("octets")
                      @@ "enterprises" :> [is |-> "node", type |-> "none", base |-> "none"])
  @@ "SNMPv2-CONF" :> [x \in {"OBJECT-GROUP", "NOTIFICATION-GROUP", "MODULE-COMPLIANCE",
                               "AGENT-CAPABILITIES"} |-> AMacro]
  @@ "SNMPv2-TC" :> ("TEXTUAL-CONVENTION" :> AMacro)
  @@ "RFC1155-SMI" :> ("IpAddress" :> AType("octets") @@ "Counter" :> AType("unsigned32"))

From(m, n) == [name |-> n, module |-> m, faked |-> FALSE,
               kind |-> IF n \in DOMAIN World[m] THEN World[m][n].is ELSE "notfound"]
Macro(x, n) == [of |-> "macro", macro |-> x, name |-> n]
Start(rule, n) == [of |-> rule, name |-> n]
Type(t, f) == [text |-> t, form |-> f]
Syntax(t, f) == [of |-> "syntax", type |-> Type(t, f)]
Access(by, w) == [of |-> "access", by |-> by, word |-> w]
Status(w)  == [of |-> "status", word |-> w]
Described  == [of |-> "description", empty |-> FALSE]
Names(rule, l) == [of |-> rule, label |-> l]
Column(l, i)   == [of |-> "column", label |-> l, implied |-> i]
Item(l, t)     == [of |-> "item", label |-> l, type |-> Type(t, "plain")]
Entry(by, l)   == [of |-> "entry", by |-> by, label |-> l]
Clause(rule)   == [of |-> rule]
Default(f, l)  == [of |-> "defval", form |-> f, labels |-> l]
About(rule, m) == [of |-> rule, module |-> m]
End(p)         == [of |-> "end", parent |-> p]
Text(n, suffix, language, imports, decls) ==
  [name |-> n, suffix |-> suffix, language |-> language, imports |-> imports, decls |-> decls]

ObjectType(n, p, syntax, access, rest) ==
  <<Macro("OBJECT-TYPE", n), syntax, access, Status("current"), Described>> \o rest \o <<End(p)>>
\* A declaration that breaks off behind its clause c.
Cut(d, c)     == IF c < Len(d) THEN SubSeq(d, 1, c) ELSE d
CutAt(ds, k, c) == [ds EXCEPT ![k] = Cut(@, c)]
Orders(ds)    == {[k \in DOMAIN ds |-> ds[p[k]]] :
                    p \in {p \in [DOMAIN ds -> DOMAIN ds] : \A a, b \in DOMAIN ds : p[a] = p[b] => a = b}}
-----------------------------------------------------------------------------
(***************************************************************************)
(* A row, its SEQUENCE and two columns, in every order.                    *)
(***************************************************************************)
Indexes == {<<Clause("index"), Column("a", FALSE), Column("b", TRUE)>>,
            <<Clause("index"), Column("otherColumn", FALSE)>>, <<Entry("AUGMENTS", "otherRow")>>}
Columns == {<<Syntax("Integer32", "plain"), <<>>>>,
            <<Syntax("INTEGER", "names"), <<Default("label", <<"up">>)>>>>,
            <<Syntax("INTEGER", "names"), <<Default("label", <<"low">>)>>>>,
            <<Syntax("BITS", "names"), <<Default("bits", <<"up", "low">>)>>>>,
            <<Syntax("BITS", "names"), <<Default("number", <<>>)>>>>,
            <<Syntax("Text", "size"), <<Default("hex", <<>>)>>>>,
            <<Syntax("OBJECT IDENTIFIER", "plain"), <<Default("label", <<"otherRow">>)>>>>,
            <<Syntax("OBJECT IDENTIFIER", "plain"), <<Default("label", <<"nowhere">>)>>>>,
            <<Syntax("Later", "plain"), <<Default("label", <<"up">>)>>>>}
Table(index, c, item, word) ==
  << ObjectType("row", "table", Syntax("Entry", "plain"), Access("MAX-ACCESS", "not-accessible"), index),
     <<Start("type", "Entry"), Item("a", item), Item("b", "Counter32"), End("none")>>,
     ObjectType("a", "row", c[1], Access("MAX-ACCESS", word), c[2]),
     ObjectType("b", "row", Syntax("Counter32", "plain"), Access("MAX-ACCESS", "read-only"), <<>>) >>
TableImports == <<From("SNMPv2-SMI", "OBJECT-TYPE"), From("SNMPv2-SMI", "Integer32"),
                  From("OTHER-MIB", "Text"), From("OTHER-MIB", "otherColumn"),
                  From("OTHER-MIB", "otherRow")>>
Table2(c, item) == Table(CHOOSE i \in Indexes : Len(i) = 3, c, item, "read-create")
Tables ==
  {Text("A-MIB", "-MIB", "smiv2", TableImports, ds) :
     ds \in UNION {Orders(Table2(c, item)) : c \in Columns, item \in {"INTEGER", "OCTET STRING"}}
            \cup UNION {Orders(Table(i, <<Syntax("Counter32", "range"), <<>>>>, "BITS", w)) :
                          i \in Indexes, w \in {"read-create", "read-write"}}}
  \cup
  {Text("A-MIB", "-MIB", l, TableImports, CutAt(Table2(d, "Integer32") \o <<s>>, k, c)) :
     l \in {"smiv1", "smiv2"}, k \in 1 .. 4, c \in 3 .. 7,
     d \in {<<Syntax("Integer32", "plain"), <<>>>>},
     s \in {ObjectType("scalar", "node", Syntax("Integer32", "range"), Access("ACCESS", "write-only"), <<>>),
            ObjectType("scalar", "row", Syntax("IpAddress", "size"), Access("MAX-ACCESS", "read-create"), <<>>),
            ObjectType("row2", "table", Syntax("Entry", "plain"), Access("MAX-ACCESS", "not-accessible"),
                       <<Clause("index"), Column("a", FALSE)>>)}}
-----------------------------------------------------------------------------
(***************************************************************************)
(* A table of a PIB.                                                       *)
(***************************************************************************)
PibIndexes ==
  {<<Entry("PIB-INDEX", "a")>>, <<Entry("EXTENDS", "otherRow")>>, <<Clause("index"), Column("a", FALSE)>>,
   <<Entry("PIB-INDEX", "a"), Clause("index"), Column("b", TRUE), Names("unique", "b")>>,
   <<Entry("AUGMENTS", "otherRow"), Clause("index"), Column("b", TRUE)>>}
PibTable(index, t, refers) ==
  << ObjectType("table", "root", [of |-> "table", row |-> "Entry"], Access("PIB-ACCESS", "install"),
                <<[of |-> "install_error", number |-> 70000], [of |-> "install_error", number |-> 1]>>),
     ObjectType("row", "table", Syntax("Entry", "plain"), Access("POLICY-ACCESS", "not-accessible"), index),
     <<Start("type", "Entry"), Item("a", t), Item("b", "Unsigned64"), End("none")>>,
     <<Macro("OBJECT-TYPE", "a"), Syntax(t, "plain"), Access("PIB-MIN-ACCESS", "report-only")>>
       \o refers \o <<Status("deprecated"), Clause("no_description"), End("row")>>,
     ObjectType("b", "row", Syntax("Unsigned64", "plain"), Access("MAX-ACCESS", "read-create"), <<>>) >>
Pibs ==
  {Text("A-PIB", s, l, <<From("OTHER-MIB", "otherRow")>>, PibTable(i, t, r)) :
     s \in {"-PIB", "-MIB"}, l \in {"sppi", "smiv2"}, i \in PibIndexes,
     t \in {"ReferenceId", "TagReferenceId", "IpAddress", "Opaque"},
     r \in {<<>>, <<Names("references", "row")>>, <<Names("tag", "b")>>,
            <<Names("references", "row"), Names("tag", "b")>>}}
-----------------------------------------------------------------------------
(***************************************************************************)
(* MODULE-IDENTITY and its revisions.                                      *)
(***************************************************************************)
Date(len, y, m) == [length |-> len, digits |-> len # 12, year |-> y, month |-> m, day |-> 28,
                    hour |-> IF m = 13 THEN 24 ELSE 0, minute |-> IF m = 13 THEN 60 ELSE 0]
DateSet == {Date(13, 2000, 1), Date(13, 2000, 13), Date(11, 89, 12), Date(13, 2037, 2), Date(12, 0, 0)}
Category(all, numbered) == [all |-> all, numbered |-> numbered]
DateLists == UNION {[1 .. n -> DateSet] : n \in 0 .. 3}
Identity(n, updated, ds, c) ==
  <<Macro("MODULE-IDENTITY", n), [of |-> "categories", names |-> c],
    [of |-> "last_updated", date |-> updated], Described>>
  \o [k \in DOMAIN ds |-> [of |-> "revision", date |-> ds[k]]]
  \o <<Clause("revisions_end"), End("root")>>
Identities ==
  {Text("A", "-MIB", "smiv2", <<From("SNMPv2-SMI", "MODULE-IDENTITY"), From("SNMPv2-SMI", "ExtUTCTime")>>,
        <<Identity("first", u, ds, <<>>)>>) : u \in DateSet, ds \in DateLists}
  \cup
  {Text("A", "-PIB", l, <<>>, <<Identity("first", u, <<v>>, c), Identity("second", v, <<>>, <<>>)>>) :
     l \in {"sppi", "smiv2"}, u \in DateSet, v \in DateSet, c \in {<<Category(TRUE, FALSE)>>, <<Category(TRUE, TRUE), Category(FALSE, FALSE)>>}}
  \cup
  {Text("A", "-MIB", "smiv2", <<>>,
        <<Cut(Identity("first", u, <<u, v>>, <<>>), n), Identity("second", v, <<u>>, <<>>)>>) :
     u \in DateSet, v \in DateSet, n \in 3 .. 7}
-----------------------------------------------------------------------------
(***************************************************************************)
(* MODULE-COMPLIANCE and AGENT-CAPABILITIES about this module, about one   *)
(* that is loaded and about one that is not.                               *)
(***************************************************************************)
GroupOf(n, l) == <<Macro("OBJECT-GROUP", n), Names("member", l), Status("current"), Described, End("root")>>
Refining(l)   == <<Names("refine", l), [of |-> "refined_syntax", type |-> Type("Integer32", "range")],
                   [of |-> "write_syntax", type |-> Type("Text", "size")],
                   Access("MIN-ACCESS", "read-create"), Described, Names("refined", l)>>
Part(m, must, may) ==
  <<About("module", m), Names("mandatory", must)>>
  \o [k \in DOMAIN may |-> Names("group", may[k])]
  \o Refining("otherColumn") \o Refining("otherColumn") \o <<Clause("module_end")>>
Compliance(n, parts) ==
  <<Macro("MODULE-COMPLIANCE", n), Status("current"), Described>> \o parts \o <<End("root")>>
Notifying(l) == <<Macro("NOTIFICATION-TYPE", "note"), Names("member", l), Status("current"), Described, End("root")>>
ConformanceImports ==
  {<<From("SNMPv2-CONF", "MODULE-COMPLIANCE"), From("SNMPv2-SMI", "Integer32")>> \o more :
     more \in {<<>>, <<From("OTHER-MIB", "otherGroup")>>, <<From("SNMPv2-CONF", "otherGroup")>>,
               <<From("RFC1155-SMI", "IpAddress"), From("OTHER-MIB", "otherColumn")>>}}
Twice == Part("OTHER-MIB", "otherGroup", <<"mine", "otherGroup", "mine">>)
         \o Part("A-MIB", "mine", <<"otherGroup">>)
Compliances ==
  {Text("A-MIB", "-MIB", l, i, <<Compliance("first", Part(m, g, <<"otherGroup", h>>)), d>>) :
     l \in {"smiv2", "unknown"}, i \in ConformanceImports,
     m \in {"OTHER-MIB", "A-MIB", "NO-MIB"}, g \in {"otherGroup", "mine"}, h \in {"otherGroup", "mine"},
     d \in {GroupOf("mine", "otherColumn"), Notifying("otherColumn")}}
  \cup
  {Text("A-MIB", "-MIB", "smiv2", i, <<Cut(Compliance("first", Twice), n), d>>) :
     n \in {5, 6, 8, 12, 14, 22, 40}, i \in ConformanceImports,
     d \in {GroupOf("mine", "otherColumn"), Compliance("second", Part("A-MIB", "mine", <<"otherGroup">>)),
            ObjectType("scalar", "node", Syntax("Integer32", "plain"), Access("MAX-ACCESS", "read-only"), <<>>)}}

Varying(l, more, w) ==
  <<Names("variation", l)>> \o more \o
  <<[of |-> "variation_access", word |-> w], Clause("varied")>>
Variations ==
  {<<>>, <<[of |-> "refined_syntax", type |-> Type("Integer32", "range")]>>,
   <<[of |-> "write_syntax", type |-> Type("INTEGER", "names")], Default("label", <<"up">>)>>,
   <<Clause("creation"), Names("cell", "otherColumn")>>}
Capabilities(m, v) ==
  <<Macro("AGENT-CAPABILITIES", "agent"), [of |-> "capabilities_status", word |-> "deprecated"], Described,
    About("supports", m), Names("includes", "otherGroup")>> \o v
  \o <<Clause("supports_end"), End("root")>>
Capable ==
  {Text("A-MIB", "-MIB", l, <<From("SNMPv2-CONF", "AGENT-CAPABILITIES")>>,
        <<Cut(Capabilities(m, Varying(x, v, w) \o Varying("otherColumn", u, "read-only")), n), Notifying(x)>>) :
     l \in {"smiv2"}, m \in {"OTHER-MIB", "NO-MIB"}, x \in {"otherTrap", "otherColumn"},
     v \in Variations, u \in Variations, w \in {"write-only", "not-implemented", "not-accessible"},
     n \in {7, 8, 9, 16}}
-----------------------------------------------------------------------------
(***************************************************************************)
(* The other macros.                                                       *)
(***************************************************************************)
Others ==
  {Text("A-MIB", "-MIB", l, i,
        << <<Start("assignment", "node"), End("root")>>,
           <<Macro("TEXTUAL-CONVENTION", "Later"), Status(w), Described, Syntax(t, f), End("none")>>,
           <<Macro("OBJECT-IDENTITY", "later"), Status(w), [of |-> "description", empty |-> TRUE], End("node")>>,
           <<Macro("TRAP-TYPE", "trap"), Names("enterprise", "node"), Names("member", "otherColumn"), End("none")>>,
           Notifying("otherColumn"),
           <<Macro("NOTIFICATION-GROUP", "Group"), Names("member", "note"), Status("current"), Described, End("node")>> >>) :
     l \in {"smiv1", "smiv2", "sppi", "unknown"}, w \in {"mandatory", "current", "deprecated"},
     t \in {"INTEGER", "Integer64", "Counter64", "TimeTicks", "Text"}, f \in {"plain", "range"},
     i \in {<<>>, <<From("SNMPv2-SMI", "TRAP-TYPE"), From("OTHER-MIB", "otherColumn")>>,
            <<From("SNMPv2-TC", "TEXTUAL-CONVENTION"), From("OTHER-MIB", "Text")>>}}

Bases ==
  {Text(n, "-MIB", l, <<>>,
        << <<Start("macro_definition", "OBJECT-TYPE")>>,
           <<Start("type", t), Clause("choice"), End("none")>>,
           <<Start("assignment", x), End("root")>>,
           <<Start("type", "ROW"), Item("a", "Integer32"), End("none")>>,
           <<Start("assignment", y), End("root")>> >>) :
     n \in {"SNMPv2-SMI", "RFC-1215", "A-MIB"}, l \in {"smiv1", "smiv2", "sppi"},
     t \in {"Counter32", "IpAddress", "Integer64", "Row"},
     x \in {"row", "otherRow", "node"}, y \in {"row", "Node"}}
Letters == "ROW" :> "row" @@ "Row" :> "row" @@ "Node" :> "node" @@ "Entry" :> "entry"
           @@ "Later" :> "later" @@ "Group" :> "group"

Sources == Bases \cup Tables \cup Pibs \cup Identities \cup Compliances \cup Capable \cup Others

-----------------------------------------------------------------------------
(***************************************************************************)
(* Modules for ModuleChecks: a table of two columns whose declarations     *)
(* come in every order, with and without INDEX and with SEQUENCEs that     *)
(* leave out, add and exchange columns; groups and a compliance statement  *)
(* before and after what they list; a second module that augments the      *)
(* table of the first one and lists its columns in a group; and PIBs.      *)
(***************************************************************************)
Plain(n, d, p, k) ==
  [name |-> n, decl |-> d, parent |-> p, subid |-> k, type |-> "none",
   index |-> "unknown", list |-> <<>>, seq |-> <<>>, related |-> NULL,
   options |-> <<>>, refined |-> <<>>, unique |-> <<>>, access |-> "not-accessible",
   status |-> "current", tc |-> NULL, default |-> 0, create |-> FALSE]
Leaf(n, p, k, a) == [Plain(n, "object", p, k) EXCEPT !.type = "integer", !.access = a]
TableObject(n, k, r)   == [Plain(n, "object", "m", k) EXCEPT
                       !.type = "sequenceof", !.related = r]
Row(n, p, i, l, s) == [Plain(n, "object", p, 1) EXCEPT
                         !.type = "sequence", !.index = i, !.list = l, !.seq = s]
Root    == Plain("m", "value", NULL, 0)
Checked(s) == [language |-> "smiv2", objects |-> s]
Base    == Checked(<<Root>>)

\* The orders of a sequence, and of a sequence of sequences.
Permuted(s) == {[k \in DOMAIN s |-> s[p[k]]] : p \in Permutations(DOMAIN s)}
Blocks(s) == {p[1] \o p[2] \o p[3] : p \in Permuted(s)}

RowIndexes  == {<<"unknown", <<>>>>, <<"index", <<"a">>>>, <<"index", <<"s">>>>,
             <<"index", <<"b", "a">>>>, <<"index", <<"a", "b">>>>}
Seqs     == {<<"a", "b">>, <<"b", "a">>, <<"a">>, <<"x", "a", "b">>,
             <<"a", "b", "x">>, <<"a", "x">>, <<"b">>, <<"a", "b", "s">>}
Accesses == {"not-accessible", "read-only"}

TableOf(row, x, y) == <<TableObject("t", 1, "e"), row, Leaf("a", "e", 1, x), Leaf("b", "e", 2, y)>>
Scalar == Leaf("s", "m", 2, "read-only")
CheckedTables ==
  {<<Base, Checked(Append(o, Scalar))>> :
     o \in UNION ({Permuted(TableOf(Row("e", "t", i[1], i[2], <<"a", "b">>), x, y)) :
                     i \in RowIndexes, x \in Accesses, y \in Accesses}
                  \cup {Permuted(TableOf(Row("e", "t", "index", <<"a">>, q),
                                       "not-accessible", "read-only")) : q \in Seqs}
                  \cup {Permuted(TableOf([Leaf("e", "t", 1, "not-accessible")
                                          EXCEPT !.type = y],
                                       "not-accessible", "read-only")) :
                           y \in {"integer", "restricted", "incomplete"}})}

Statuses == {"current", "deprecated", "obsolete"}
Group(n, d, l, s) == [Plain(n, d, "m", 4) EXCEPT !.list = l, !.status = s]
Statement(l, o, r) == [Plain("c", "compliance", "m", 5) EXCEPT
                         !.list = l, !.options = o, !.refined = r]
Listings ==
  {<<Group("g", "objectgroup", l, s), Group("h", "notificationgroup", k, "current")>> :
     l \in {<<"s">>, <<"n">>, <<"s", "n">>, <<"w", "x">>}, s \in Statuses,
     k \in {<<"n">>, <<"s">>}}
Groups ==
  {<<Base, Checked(o)>> :
     o \in UNION {Blocks(<< <<Scalar, Leaf("w", "m", 6, "not-accessible"),
                              [Plain("n", "notification", "m", 7)
                                 EXCEPT !.list = <<"s">>]>>,
                            gs, <<Statement(l, q, r)>> >>) :
                    gs \in Listings, l \in {<<"g">>, <<"g", "h">>},
                    q \in {<<>>, <<"h">>}, r \in {<<>>, <<"s">>}}}
  \cup
  {<<Base, Checked(<<Scalar>> \o gs \o <<Statement(<<NULL, "g">>, q, <<"s">>)>>)>> :
     gs \in Listings, q \in {<<>>, <<"h">>}}

Extensions ==
  {<<Base, Checked(TableOf([Row("e", "t", i[1], i[2], <<"a", "b">>) EXCEPT
                            !.related = "x"], x, "read-only")),
     Checked(o)>> :
     i \in {<<"index", <<"a">>>>, <<"augment", <<>>>>}, x \in Accesses,
     o \in UNION {Permuted(<<TableObject("u", 8, "f"),
                           [Row("f", "u", j, <<>>, <<"d">>) EXCEPT !.related = r],
                           Leaf("d", "f", 1, "read-only"),
                           Group("k", "objectgroup", l, "current")>>) :
                    j \in {"augment", "sparse"}, r \in {"e", "t", "f"},
                    l \in {<<"d">>, <<"a", "b">>}}}

PibRow(n, p, i, l, s, r, q) ==
  [Row(n, p, i, l, s) EXCEPT !.related = r, !.unique = q, !.access = "unknown"]
PibLeaf(n, p, k, t) == [Leaf(n, p, k, "unknown") EXCEPT !.type = t]
CheckedPibs ==
  {<<Base, [language |-> "sppi", objects |-> o]>> :
     o \in UNION {Permuted(<<PibRow("e", "t", "index", <<"a">>, <<"a", "b">>, NULL, q),
                           [TableObject("t", 1, "e") EXCEPT !.access = y[2]],
                           PibLeaf("a", "e", 1, y[1]), PibLeaf("b", "e", 2, "tagid"),
                           Group("g", "objectgroup", l, "current")>>) :
                    q \in {<<>>, <<"b">>, <<"s">>}, l \in {<<"a">>, <<"a", "b">>},
                    y \in {<<"instanceid", "read-only">>, <<"integer", "unknown">>}}
           \cup
           UNION {{TableOf(PibRow("e", "t", "index", <<"a">>, s, NULL, <<>>),
                           "unknown", "unknown") \o b : b \in
                    Permuted(<<PibRow("f", "u", i, <<>>, <<"d">>, "e", q),
                             TableObject("u", 8, "f"),
                             [PibLeaf("d", "f", 1, y) EXCEPT !.related = r, !.unique = v]>>)} :
                    s \in {<<"a", "b">>, <<"a">>}, i \in {"augment", "sparse", "unknown"},
                    q \in {<<"a", "d">>, <<"b">>}, v \in {<<>>, <<"d">>},
                    y \in {"referenceid", "tagreferenceid"}, r \in {"e", "b"}}}

\* Rows that can be created, and addresses with their types in the row, in its
\* INDEX or in that of the row it augments.
Typed(o, t) == [o EXCEPT !.tc = t]
Pairs == {<<"InetAddressType", "InetAddress">>, <<"InetAddressType", "MyInetAddress">>, <<"MyInetType", "InetAddress">>,
          <<"TransportDomain", "TransportAddress">>, <<"TDomain", "TAddress">>, <<"TDomain", "MyTAddress">>,
          <<"InetAddressIPv4", "StorageType">>, <<"InetAddressType", "TransportAddress">>}
Usages ==
  {<<Base, Checked(Append(o, Scalar))>> :
     o \in UNION {Permuted(<<TableObject("t", 1, "e"), Row("e", "t", "index", l, <<"a", "b">>),
                           Typed(Leaf("a", "e", i[1], "not-accessible"), t[1]),
                           [Typed(Leaf("b", "e", 3 - i[1], "read-only"), t[2]) EXCEPT !.default = i[2]]>>) :
                    l \in {<<"a">>, <<"s">>}, t \in Pairs, i \in {<<1, 0>>, <<2, 4>>}}}
  \cup {<<Base, Checked(o)>> :
     o \in UNION {Permuted(<<TableObject("t", 1, "e"),
                           [Row("e", "t", "index", <<"s">>, <<"a">>) EXCEPT !.create = c],
                           [Typed(Leaf("a", "e", 1, x), "RowStatus") EXCEPT !.default = v],
                           Typed(Scalar, "RowStatus")>>) :
                    c \in BOOLEAN, x \in {"read-only", "read-write"}, v \in {0, 4}}}
  \cup {<<Base, Checked(TableOf(Row("e", "t", "index", l, <<"a", "b">>), "not-accessible", "read-only") \o <<Typed(Scalar, "InetAddressType")>>),
         Checked(o)>> :
     l \in {<<"a">>, <<"s">>, <<"a", "s">>},
     o \in UNION {Permuted(<<TableObject("u", 8, "f"),
                           [Row("f", "u", j, <<>>, <<"d">>) EXCEPT !.related = r],
                           Typed(Leaf("d", "f", 1, "read-only"), t)>>) :
                    j \in {"augment", "sparse"}, r \in {"e", "t"}, t \in {"InetAddress", "MyInetAddress"}}}

SomeModules == Usages \cup CheckedTables \cup Groups \cup Extensions \cup CheckedPibs
=============================================================================
