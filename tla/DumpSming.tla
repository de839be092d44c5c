----------------------------- MODULE DumpSming -----------------------------
(***************************************************************************)
(* `smidump -f sming' (tools/dump-sming.c): a module is printed as one of  *)
(* SMIng, as blocks within blocks.  The driver builds a list of imports    *)
(* with the names SMIng has for them and frees it unread; what it prints   *)
(* are the imports of the module as they are.                              *)
(*                                                                         *)
(* The text is a sequence of lines.  A line opens a block, closes the last *)
(* one, or is a statement; `uses' are the names it mentions, in order.     *)
(* Nodes are those of DumpSmi; classes are printed in Classes.  Texts,     *)
(* ranges, values and the types of refinements are left out.               *)
(***************************************************************************)
EXTENDS Integers, Sequences, SequencesExt, FiniteSets

CONSTANTS SmingSources, Rank, NULL

VARIABLES
  source, section, todo, text,      \* as in DumpSmi
  lastindent                        \* of the object printed before, or -1

vars == <<source, section, todo, text, lastindent>>

Smi == INSTANCE DumpSmi WITH
  smiv1 <- FALSE, silent <- FALSE, asked <- {}, importList <- <<>>, Sources <- SmingSources

Line(word, depth, name, uses) ==
  [word |-> word, depth |-> depth, name |-> name, uses |-> SelectSeq(uses, LAMBDA u : u # NULL)]
Block(word, depth, name, uses) == Line(word, depth, name, uses)
Closed(depth)                  == Line("}", depth, NULL, <<>>)
Used(elements)                 == [k \in DOMAIN elements |-> elements[k].name]

-----------------------------------------------------------------------------
(* What is printed for each part of a module.                              *)

\* An import statement goes on while the module stays the same.
fprintImports ==
  FoldLeft(LAMBDA lines, import :
             IF lines # <<>> /\ Last(lines).name = import[1]
             THEN [lines EXCEPT ![Len(lines)].uses = Append(@, import[2])]
             ELSE Append(lines, Line("import", 1, import[1], <<import[2]>>)),
           <<>>, source.listed)

\* convertType[] is for types without a module, which have no name either.
getTypeString(basetype, named) ==
  IF named[1] = "" /\ basetype = "ENUM" THEN "Enumeration"
  ELSE IF named[1] = "" /\ basetype = "BITS" THEN "Bits" ELSE named[2]

excludeType == {"ObjectSyntax", "SimpleSyntax", "ApplicationSyntax"}
Excluded(type) == source.name \in {"SNMPv2-SMI", "RFC1155-SMI"} /\ type.name \in excludeType
fprintTypedef(type) ==
  <<Block("typedef", 1, type.name, <<getTypeString(type.basetype, type.parents[1])>>), Closed(1)>>

Kinds == {"NODE", "TABLE", "ROW", "COLUMN", "SCALAR", "CAPABILITIES"}
Indent(n) == IF n.kind = "ROW" THEN 1 ELSE IF n.kind = "COLUMN" THEN 2 ELSE 0
Word(n) ==
  CASE n.kind \in {"NODE", "CAPABILITIES"} -> "node"
    [] n.kind = "TABLE"  -> "table"
    [] n.kind = "ROW"    -> "row"
    [] n.kind = "COLUMN" -> "column"
    [] n.kind = "SCALAR" -> "scalar"

fprintIndex(n) ==
  CASE n.indexkind \in {"AUGMENT", "SPARSE"}           -> <<n.related>>
    [] n.indexkind \in {"REORDER", "EXPAND"}           -> <<n.related>> \o n.index
    [] n.indexkind = "INDEX"                           -> n.index
    [] n.indexkind = NULL                              -> <<>>
Type(n) == IF n.type = NULL THEN <<>> ELSE <<getTypeString(n.type.basetype, Smi!Named(n.type))>>

\* The blocks of the objects before that do not hold this one.
\* Mutant: the block on the same level is left open.
Closers_Same(indent) == [k \in 1 .. lastindent - indent |-> Closed(2 + lastindent - k)]
Closers(indent)      == [k \in 1 .. lastindent - indent + 1 |-> Closed(2 + lastindent - k)]

\* What was a statement of capabilities gets a comment in the style of SMIv2.
fprintObject(n) ==
  Closers(Indent(n))
  \o (IF n.kind = "CAPABILITIES" THEN <<Line("--", 1 + Indent(n), NULL, <<>>)>> ELSE <<>>)
  \o <<Block(Word(n), 1 + Indent(n), n.name, <<Smi!Label(n)>> \o Type(n) \o fprintIndex(n))>>

fprintNotification(n) ==
  <<Block("notification", 1, n.name, <<Smi!Label(n)>> \o Used(n.elements)), Closed(1)>>
fprintGroup(n) ==
  <<Block("group", 1, n.name, <<Smi!Label(n)>> \o Used(n.elements)), Closed(1)>>

Within(word, elements) ==
  FlattenSeq([k \in DOMAIN elements |-> <<Block(word, 2, elements[k].name, <<>>), Closed(2)>>])
fprintCompliance(n) ==
  <<Block("compliance", 1, n.name, <<Smi!Label(n)>> \o Used(n.elements))>>
  \o Within("optional", n.options) \o Within("refine", n.refinements) \o <<Closed(1)>>

-----------------------------------------------------------------------------
(* dumpSming(): one section after the other.                               *)

Sections == <<"imports", "typedefs", "objects", "notifications", "groups", "compliances", "end">>
After(s) == Sections[1 + CHOOSE k \in DOMAIN Sections : Sections[k] = s]
Content(s) ==
  CASE s = "typedefs"      -> source.types
    [] s = "objects"       -> Smi!Nodes(Kinds)
    [] s = "notifications" -> Smi!Nodes({"NOTIFICATION"})
    [] s = "groups"        -> Smi!Nodes({"GROUP"})
    [] s = "compliances"   -> Smi!Nodes({"COMPLIANCE"})
    [] s = "end"           -> <<>>

Open(module) ==
  /\ section = "idle"
  /\ source' = module /\ section' = "imports" /\ text' = <<>>
  /\ UNCHANGED <<todo, lastindent>>

PrintImports ==
  /\ section = "imports"
  /\ text' = text \o fprintImports
                  \o IF source.identity = NULL THEN <<>> ELSE <<Line("identity", 1, NULL, <<source.identity>>)>>
  /\ section' = "typedefs" /\ todo' = Content("typedefs")
  /\ UNCHANGED <<source, lastindent>>

\* The first type that is excluded ends the loop.
\* Mutant: an excluded type is printed like the others.
PrintTypedef_All ==
  /\ section = "typedefs" /\ todo # <<>>
  /\ text' = text \o fprintTypedef(Head(todo)) /\ todo' = Tail(todo)
  /\ UNCHANGED <<source, section, lastindent>>
PrintTypedef ==
  /\ section = "typedefs" /\ todo # <<>>
  /\ IF Excluded(Head(todo)) THEN todo' = <<>> /\ UNCHANGED text
     ELSE text' = text \o fprintTypedef(Head(todo)) /\ todo' = Tail(todo)
  /\ UNCHANGED <<source, section, lastindent>>

PrintObject ==
  /\ section = "objects" /\ todo # <<>>
  /\ text' = text \o fprintObject(Head(todo)) /\ todo' = Tail(todo)
  /\ lastindent' = Indent(Head(todo))
  /\ UNCHANGED <<source, section>>

\* Behind the last object one block is closed, whatever its indent.
EndOfObjects ==
  /\ section = "objects" /\ todo = <<>>
  /\ text' = IF lastindent = -1 THEN text ELSE Append(text, Closed(1 + lastindent))
  /\ lastindent' = -1
  /\ section' = "notifications" /\ todo' = Content("notifications")
  /\ UNCHANGED source

Put(s, Lines(_)) ==
  /\ section = s /\ todo # <<>>
  /\ text' = text \o Lines(Head(todo)) /\ todo' = Tail(todo)
  /\ UNCHANGED <<source, section, lastindent>>
PrintNotification == Put("notifications", fprintNotification)
PrintGroup        == Put("groups", fprintGroup)
PrintCompliance   == Put("compliances", fprintCompliance)

EndOfSection ==
  /\ section \in {"typedefs", "notifications", "groups", "compliances"} /\ todo = <<>>
  /\ section' = After(section) /\ todo' = Content(section')
  /\ UNCHANGED <<source, text, lastindent>>

Close ==
  /\ section = "end"
  /\ section' = "idle" /\ source' = NULL /\ text' = <<>>
  /\ UNCHANGED <<todo, lastindent>>

Work ==
  \/ PrintImports \/ PrintTypedef \/ PrintObject \/ EndOfObjects
  \/ PrintNotification \/ PrintGroup \/ PrintCompliance \/ EndOfSection \/ Close

-----------------------------------------------------------------------------
(* What is printed is a module of SMIng.                                   *)

Printed  == section = "end"
Objects  == {"node", "table", "row", "column", "scalar"}
Later    == {"notification", "group", "compliance", "optional", "refine"}
Opens    == Objects \cup Later \cup {"typedef"}
Named(words) == SelectSeq(text, LAMBDA line : line.word \in words)
Count(words, k) == Cardinality({j \in 1 .. k : text[j].word \in words})

\* The number of blocks that are open behind line k, and the line that opened the
\* innermost of them.
Depth(k) == Count(Opens, k) - Count({"}"}, k)
Holder(k) ==
  LET open == {j \in 1 .. k : text[j].word \in Opens /\ \A m \in j .. k : Depth(m) >= Depth(j)}
  IN text[CHOOSE j \in open : \A m \in open : m <= j].word

\* The table and the row of an object that is the last one are not closed.
Unclosed == LET last == Last(Smi!Nodes(Kinds))
            IN IF Smi!Nodes(Kinds) = <<>> THEN 0 ELSE Indent(last)
BlocksNested ==
  Printed =>
    /\ \A k \in DOMAIN text :
         /\ text[k].word \in Opens =>
              text[k].depth = Depth(k) - IF text[k].word \in Later THEN Unclosed ELSE 0
         /\ text[k].word = "row"    => Holder(k - 1) = "table"
         /\ text[k].word = "column" => Holder(k - 1) = "row"
    /\ Depth(Len(text)) = Unclosed

\* A reader of the import statements finds the imports of the module.
ImportsRead ==
  Printed => FlattenSeq([k \in DOMAIN Named({"import"}) |->
               LET line == Named({"import"})[k]
               IN [j \in DOMAIN line.uses |-> <<line.name, line.uses[j]>>]]) = source.listed

\* All is printed once and in its order, but for the types behind an excluded one.
Names(s) == [k \in DOMAIN s |-> s[k].name]
PrintedInOrder ==
  Printed =>
    /\ IsPrefix(Names(Named({"typedef"})), Names(source.types))
    /\ LET n == Len(Named({"typedef"}))
       IN n < Len(source.types) => Excluded(source.types[n + 1])
    /\ \A t \in ToSet(source.types) : Excluded(t) => t.name \notin ToSet(Names(Named({"typedef"})))
    /\ Names(Named(Objects)) = Names(Smi!Nodes(Kinds))
    /\ Names(Named({"notification", "group", "compliance"})) =
         Names(Smi!Nodes({"NOTIFICATION"}) \o Smi!Nodes({"GROUP"}) \o Smi!Nodes({"COMPLIANCE"}))

\* Every name is defined, imported or that of a base type; but groups and objects
\* of other modules are named in a compliance as if they were imported.
BaseTypes == {"OctetString", "ObjectIdentifier", "Integer32", "Unsigned32", "Integer64", "Unsigned64",
              "Float32", "Float64", "Float128", "Enumeration", "Bits", "iso"}
Known     == BaseTypes \cup {i[2] : i \in source.imports} \cup ToSet(Names(Named(Opens)))
Foreign(line) ==
  UNION {{e.name : e \in {f \in ToSet(n.elements) : f.module # source.name}} :
           n \in {m \in ToSet(source.nodes) : m.name = line.name /\ m.kind = "COMPLIANCE"}}
NamesKnown ==
  Printed => \A line \in ToSet(Named(Opens)) : ToSet(line.uses) \subseteq Known \cup Foreign(line)

SmingSound == BlocksNested /\ ImportsRead /\ PrintedInOrder /\ NamesKnown
=============================================================================
