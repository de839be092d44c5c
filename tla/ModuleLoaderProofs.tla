------------------------- MODULE ModuleLoaderProofs -------------------------
(***************************************************************************)
(* Proofs about the module loader, for every set of names, descriptors and *)
(* files and every depth of the scanner stack.                             *)
(*                                                                         *)
(* The inductive invariant IInv says what each stacked parser owns: a      *)
(* parser that is inside of a module has put that module into the list,    *)
(* and no two of them are inside of the same one.  That bounds the nesting *)
(* by the length of the list, whatever loops the imports form.             *)
(*                                                                         *)
(* RInv, which rests on it, says what parsers may rely on while others are *)
(* half way through: what the modules record of their imports and of their *)
(* language is true.  BInv says that parsers and buffers belong together   *)
(* as long as the scanner's stack has room.  SInv, which rests on all of   *)
(* them, says how the modules that are being parsed need one another: each *)
(* was asked for by the one below it, so that an import which was settled  *)
(* too early closes a loop.                                                *)
(***************************************************************************)
EXTENDS ModuleLoader, SequenceTheorems, TLAPS

-----------------------------------------------------------------------------
(* What the operators on records and sequences return.                     *)

\* A function over the domain of a sequence is a sequence of its values.
LEMMA SeqOverDomain ==
  ASSUME NEW T, NEW U, NEW s \in Seq(T),
         NEW f \in [DOMAIN s -> U]
  PROVE  f \in Seq(U) /\ Len(f) = Len(s) /\ DOMAIN f = DOMAIN s
  <1>1. Len(s) \in Nat /\ DOMAIN s = 1 .. Len(s)
    BY LenProperties
  <1>2. f \in [1 .. Len(s) -> U]
    BY <1>1
  <1>3. f \in Seq(U)
    BY <1>1, <1>2, SeqDef
  <1>4. Len(f) = Len(s)
    BY <1>1, <1>2, <1>3, LenProperties
  <1> QED BY <1>1, <1>2, <1>3, <1>4

LEMMA SettleType ==
  ASSUME NEW imps \in Seq(Import), NEW m \in Name \cup {NULL}
  PROVE  Settle(imps, m) \in Seq(Import)
  <1>1. \A i \in DOMAIN imps : imps[i] \in Import
    BY LenProperties, ElementOfSeq
  <1>2. Settle(imps, m) \in [DOMAIN imps -> Import]
    <2>1. ASSUME NEW i \in DOMAIN imps
          PROVE  Settle(imps, m)[i] \in Import
      <3>1. imps[i].sym \in Symbol /\ Class[imps[i].sym] \in Classes
        BY <1>1, ClassAssumption DEF Import
      <3> DEFINE k == IF m # NULL /\ imps[i].sym \in Visible(m)
                      THEN Class[imps[i].sym] ELSE "notfound"
      <3>2. k \in Kinds
        BY <3>1 DEF Kinds
      <3>3. [imps[i] EXCEPT !.from = m, !.kind = k] \in Import
        <4> HIDE DEF k
        <4> QED BY <1>1, <3>2 DEF Import
      <3> QED BY <1>1, <3>3 DEF Settle
    <2> QED BY <2>1 DEF Settle
  <1> QED BY <1>2, SeqOverDomain

LEMMA AddImportsType ==
  ASSUME NEW imps \in Seq(Import), NEW syms \in Seq(Symbol)
  PROVE  AddImports(imps, syms) \in Seq(Import)
  <1> DEFINE new == [i \in DOMAIN syms |->
               [sym |-> syms[i], from |-> NULL, kind |-> "unknown",
                inc |-> FALSE]]
  <1>1. new \in [DOMAIN syms -> Import]
    <2>1. \A i \in DOMAIN syms : syms[i] \in Symbol
      BY LenProperties, ElementOfSeq
    <2> QED BY <2>1 DEF Import, Kinds
  <1>2. new \in Seq(Import)
    BY <1>1, SeqOverDomain
  <1> QED BY <1>2, ConcatProperties DEF AddImports

LEMMA FinishImportType ==
  ASSUME NEW imps \in Seq(Import), NEW asked, NEW m \in Name \cup {NULL},
         NEW l \in {"unknown", "smiv1", "smiv2", "sppi"}
  PROVE  /\ FinishImport(imps, asked, m, l).imports \in Seq(Import)
         /\ FinishImport(imps, asked, m, l).language
              \in {"unknown", "smiv1", "smiv2", "sppi"}
  BY SettleType DEF FinishImport

\* What a declaration makes of the record ref.
Declared(ref, op, s) ==
  [ref EXCEPT !.defs = @ \cup {s},
              !.fwd  = @ \ {s},
              !.language = IF op = "convention" /\ @ = "unknown"
                           THEN "smiv2" ELSE @]

LEMMA DeclaredType ==
  ASSUME NEW rec \in Module, NEW op, NEW s \in Symbol
  PROVE  Declared(rec, op, s) \in Module
  BY DEF Declared, Module

LEMMA ReferredType ==
  ASSUME NEW rec \in Module, NEW s \in Symbol,
         NEW scope \in [Clauses -> Name \cup {NULL}]
  PROVE  Referred(rec, s, scope) \in Module
  <1> DEFINE from == IF scope["compliance"] # NULL THEN scope["compliance"]
                     ELSE scope["capabilities"]
             imp  == [sym |-> s, from |-> from, kind |-> "unknown",
                      inc |-> TRUE]
  <1>1. imp \in Import
    BY DEF Import, Kinds, Clauses
  <1>2. Append(rec.imports, imp) \in Seq(Import)
    BY <1>1, AppendProperties DEF Module
  <1>3. [rec EXCEPT !.imports = Append(@, imp)] \in Module
    BY <1>2 DEF Module
  <1>4. [rec EXCEPT !.fwd = @ \cup {s}] \in Module
    BY DEF Module
  <1> QED BY <1>3, <1>4 DEF Referred

-----------------------------------------------------------------------------
(* The four ways in which the parser stack changes.                        *)

LEMMA StackFacts ==
  ASSUME parser \in Seq(Parser), parser # <<>>
  PROVE  /\ Depth \in Nat \ {0}
         /\ DOMAIN parser = 1 .. Depth
         /\ \A i \in 1 .. Depth : parser[i] \in Parser
         /\ top \in Parser
  <1>1. Depth \in Nat \ {0}
    BY EmptySeq, LenProperties DEF Depth
  <1> QED BY <1>1, LenProperties, ElementOfSeq DEF Depth, top

\* The current parser goes on, and enters no module.
LEMMA TopStep ==
  ASSUME IInv, parser # <<>>, NEW q \in Parser,
         q.st \in Inside => top.st \in Inside /\ q.mod = top.mod,
         parser' = [parser EXCEPT ![Depth] = q],
         moduleList' = moduleList
  PROVE  /\ parser' \in Seq(Parser)
         /\ Depth' = Depth
         /\ Owners' /\ Covered'
  <1>1. /\ parser \in Seq(Parser) /\ Depth \in Nat \ {0}
        /\ DOMAIN parser = 1 .. Depth
        /\ moduleList \in Seq(Name)
    BY StackFacts DEF IInv, TypeOK
  <1>2. /\ parser' \in Seq(Parser) /\ Depth' = Depth
        /\ \A i \in 1 .. Depth :
             parser'[i] = IF i = Depth THEN q ELSE parser[i]
    BY <1>1, ExceptSeq DEF Depth
  <1>3. \A m : Listed(m) <=> Listed(m)'
    BY DEF Listed
  <1>4. Owners'
    <2>1. \A i \in 1 .. Depth : i < Depth => parser'[i].st \in Inside
      BY <1>1, <1>2 DEF IInv, Owners
    <2>2. \A i \in 1 .. Depth : parser'[i].st \in Inside =>
             parser[i].st \in Inside /\ parser'[i].mod = parser[i].mod
      BY <1>1, <1>2 DEF top
    <2> QED BY <1>1, <1>2, <1>3, <2>1, <2>2 DEF IInv, Owners
  <1>5. Covered'
    BY <1>1, <1>2 DEF IInv, Covered, top
  <1> QED BY <1>2, <1>4, <1>5

\* The current parser, inside of a module, calls loadModule().
LEMMA NestedStep ==
  ASSUME IInv, parser # <<>>, top.st \in Inside,
         NEW q \in Parser, q.st \in Inside, q.mod = top.mod,
         NEW r \in Parser, r.st \notin Inside,
         parser' = Append([parser EXCEPT ![Depth] = q], r),
         moduleList' = moduleList
  PROVE  /\ parser' \in Seq(Parser)
         /\ Depth' = Depth + 1
         /\ Owners' /\ Covered'
  <1> DEFINE stack == [parser EXCEPT ![Depth] = q]
  <1>1. /\ parser \in Seq(Parser) /\ Depth \in Nat \ {0}
        /\ DOMAIN parser = 1 .. Depth
        /\ moduleList \in Seq(Name) /\ Len(moduleList) \in Nat
    BY StackFacts, LenProperties DEF IInv, TypeOK
  <1>2. /\ stack \in Seq(Parser) /\ Len(stack) = Depth
        /\ \A i \in 1 .. Depth :
             stack[i] = IF i = Depth THEN q ELSE parser[i]
    BY <1>1, ExceptSeq DEF Depth
  <1>3. /\ parser' \in Seq(Parser) /\ Depth' = Depth + 1
        /\ \A i \in 1 .. Depth : parser'[i] = stack[i]
        /\ parser'[Depth + 1] = r
    <2>1. parser' = Append(stack, r)
      OBVIOUS
    <2>2. /\ Append(stack, r) \in Seq(Parser)
          /\ Len(Append(stack, r)) = Len(stack) + 1
          /\ \A i \in 1 .. Len(stack) : Append(stack, r)[i] = stack[i]
          /\ Append(stack, r)[Len(stack) + 1] = r
      <3> HIDE DEF stack
      <3> QED BY <1>2, AppendProperties, SMTT(30)
    <2>3. Depth' = Len(Append(stack, r))
      BY <2>1 DEF Depth
    <2> HIDE DEF stack
    <2> QED BY <1>1, <1>2, <2>1, <2>2, <2>3
  <1>4. \A m : Listed(m) <=> Listed(m)'
    BY DEF Listed
  <1>5. \A i \in 1 .. Depth : /\ parser'[i].st \in Inside
                              /\ parser[i].st \in Inside
                              /\ parser'[i].mod = parser[i].mod
    BY <1>1, <1>2, <1>3 DEF IInv, Owners, top
  <1>6. Owners'
    <2>1. \A i \in 1 .. Depth + 1 : parser'[i].st \in Inside => i \in 1 .. Depth
      BY <1>1, <1>3
    <2>2. \A i \in 1 .. Depth + 1 : i < Depth + 1 => parser'[i].st \in Inside
      BY <1>1, <1>5
    <2> QED BY <1>1, <1>3, <1>4, <1>5, <2>1, <2>2 DEF IInv, Owners
  <1>7. Covered'
    BY <1>1, <1>3 DEF IInv, Covered, top
  <1> QED BY <1>3, <1>6, <1>7

\* The innermost parser returns into the one that waits for it.
LEMMA ReturnStep ==
  ASSUME IInv, parser # <<>>, Depth > 1,
         NEW q \in Parser, q.st \in Inside, q.mod = parser[Depth - 1].mod,
         parser' = [SubSeq(parser, 1, Depth - 1) EXCEPT ![Depth - 1] = q],
         moduleList' = moduleList
  PROVE  /\ parser' \in Seq(Parser)
         /\ Depth' = Depth - 1
         /\ Owners' /\ Covered'
  <1> DEFINE stack == SubSeq(parser, 1, Depth - 1)
  <1>1. /\ parser \in Seq(Parser) /\ Depth \in Nat \ {0}
        /\ DOMAIN parser = 1 .. Depth
        /\ moduleList \in Seq(Name) /\ Len(moduleList) \in Nat
    BY StackFacts, LenProperties DEF IInv, TypeOK
  <1>2. /\ stack \in Seq(Parser) /\ Len(stack) = Depth - 1
        /\ \A i \in 1 .. Depth - 1 : stack[i] = parser[i]
    BY <1>1, SubSeqProperties DEF Depth
  <1>3. /\ parser' \in Seq(Parser) /\ Depth' = Depth - 1
        /\ \A i \in 1 .. Depth - 1 :
             parser'[i] = IF i = Depth - 1 THEN q ELSE parser[i]
    <2>1. parser' = [stack EXCEPT ![Depth - 1] = q]
      OBVIOUS
    <2>2. Depth - 1 \in 1 .. Len(stack)
      <3> HIDE DEF stack
      <3> QED BY <1>1, <1>2
    <2>3. /\ [stack EXCEPT ![Depth - 1] = q] \in Seq(Parser)
          /\ Len([stack EXCEPT ![Depth - 1] = q]) = Len(stack)
          /\ \A i \in 1 .. Len(stack) : [stack EXCEPT ![Depth - 1] = q][i]
               = IF i = Depth - 1 THEN q ELSE stack[i]
      <3> HIDE DEF stack
      <3> QED BY <1>2, <2>2, ExceptSeq
    <2>4. Depth' = Len([stack EXCEPT ![Depth - 1] = q])
      BY <2>1 DEF Depth
    <2> HIDE DEF stack
    <2> QED BY <1>1, <1>2, <2>1, <2>3, <2>4
  <1>4. \A m : Listed(m) <=> Listed(m)'
    BY DEF Listed
  <1>5. \A i \in 1 .. Depth - 1 : /\ parser'[i].st \in Inside
                                  /\ parser[i].st \in Inside
                                  /\ parser'[i].mod = parser[i].mod
    BY <1>1, <1>3 DEF IInv, Owners
  <1>6. Owners'
    BY <1>1, <1>3, <1>4, <1>5 DEF IInv, Owners
  <1>7. Covered'
    BY <1>1, <1>3 DEF IInv, Covered, top
  <1> QED BY <1>3, <1>6, <1>7
-----------------------------------------------------------------------------
(* The scanner buffers.                                                    *)

Buffers == Seq([file : Name, pos : Nat])

LEMMA TokenType ==
  ASSUME TypeOK, FilesExist
  PROVE  tok \in Token
  <1>1. EOF \in Token
    BY DEF EOF, Token
  <1>2. CASE lex = <<>>
    BY <1>1, <1>2 DEF tok
  <1>3. CASE lex # <<>>
    <2> DEFINE b == lex[Len(lex)]
    <2>1. /\ Len(lex) \in Nat \ {0}
          /\ DOMAIN lex = 1 .. Len(lex)
      BY <1>3, EmptySeq, LenProperties DEF TypeOK
    <2>2. b.file \in DOMAIN disk
      BY <2>1 DEF FilesExist
    <2>3. disk[b.file] \in Seq(Token)
      BY <2>2, DiskAssumption DEF TypeOK
    <2>4. ASSUME b.pos \in DOMAIN disk[b.file]
          PROVE  disk[b.file][b.pos] \in Token
      BY <2>3, <2>4, LenProperties, ElementOfSeq
    <2> QED BY <1>1, <1>3, <2>4 DEF tok
  <1> QED BY <1>2, <1>3

LEMMA AdvancedFacts ==
  ASSUME TypeOK, FilesExist
  PROVE  /\ Advanced \in Buffers
         /\ Len(Advanced) = Len(lex)
         /\ DOMAIN Advanced = DOMAIN lex
         /\ \A i \in DOMAIN lex : Advanced[i].file = lex[i].file
  <1>1. lex \in Buffers /\ DOMAIN lex = 1 .. Len(lex) /\ Len(lex) \in Nat
    BY LenProperties DEF TypeOK, Buffers
  <1>2. CASE tok = EOF
    BY <1>1, <1>2 DEF Advanced
  <1>3. CASE tok # EOF
    <2> DEFINE e == [lex[Len(lex)] EXCEPT !.pos = @ + 1]
    <2>1. Advanced = [lex EXCEPT ![Len(lex)] = e]
      BY <1>3 DEF Advanced
    <2>2. Len(lex) \in 1 .. Len(lex)
      BY <1>1, <1>3, EmptySeq DEF tok, Buffers
    <2>3. lex[Len(lex)] \in [file : Name, pos : Nat]
      BY <1>1, <2>2, ElementOfSeq DEF Buffers
    <2>4. e \in [file : Name, pos : Nat] /\ e.file = lex[Len(lex)].file
      BY <2>3
    <2> HIDE DEF e
    <2>5. /\ Advanced \in Buffers
          /\ Len(Advanced) = Len(lex)
          /\ \A i \in 1 .. Len(lex) :
               Advanced[i] = IF i = Len(lex) THEN e ELSE lex[i]
      BY <1>1, <2>1, <2>2, <2>4, ExceptSeq DEF Buffers
    <2>6. DOMAIN Advanced = DOMAIN lex
      BY <1>1, <2>1
    <2> QED BY <1>1, <2>4, <2>5, <2>6
  <1> QED BY <1>2, <1>3

LEMMA PushFacts ==
  ASSUME NEW bufs \in Buffers, NEW stack, NEW n \in DOMAIN disk, TypeOK,
         \A i \in DOMAIN bufs : bufs[i].file \in DOMAIN disk,
         Push(stack, bufs, n)
  PROVE  /\ lex' \in Buffers
         /\ \A i \in DOMAIN lex' : lex'[i].file \in DOMAIN disk
         /\ smiDepth' = smiDepth + 1
         /\ \E over \in BOOLEAN : /\ NewParser(n, over) \in Parser
                                  /\ parser' = Append(stack, NewParser(n, over))
  <1>1. n \in Name
    BY DiskAssumption DEF TypeOK
  <1>2. \A over \in BOOLEAN : NewParser(n, over) \in Parser
    BY <1>1 DEF NewParser, Parser, Clauses
  <1>3. (Len(bufs) >= MAX_LEX_DEPTH) \in BOOLEAN
    BY LenProperties, DepthAssumption DEF Buffers
  <1> DEFINE b == [file |-> n, pos |-> 1]
  <1>4. /\ Append(bufs, b) \in Buffers
        /\ DOMAIN Append(bufs, b) = 1 .. Len(bufs) + 1
        /\ DOMAIN bufs = 1 .. Len(bufs)
        /\ Len(bufs) \in Nat
        /\ \A i \in 1 .. Len(bufs) : Append(bufs, b)[i] = bufs[i]
        /\ Append(bufs, b)[Len(bufs) + 1] = b
    <2>1. b \in [file : Name, pos : Nat]
      BY <1>1
    <2> HIDE DEF b
    <2> QED BY <2>1, AppendProperties, LenProperties DEF Buffers
  <1>5. \A i \in DOMAIN Append(bufs, b) : Append(bufs, b)[i].file \in DOMAIN disk
    <2>1. b.file = n
      OBVIOUS
    <2> HIDE DEF b
    <2> QED BY <1>4, <2>1
  <1>6. lex' = bufs \/ lex' = Append(bufs, b)
    BY DEF Push
  <1>7. parser' = Append(stack, NewParser(n, Len(bufs) >= MAX_LEX_DEPTH))
    BY DEF Push
  <1>8. smiDepth' = smiDepth + 1
    BY DEF Push
  <1> HIDE DEF b
  <1>9. \E over \in BOOLEAN : /\ NewParser(n, over) \in Parser
                              /\ parser' = Append(stack, NewParser(n, over))
    BY <1>2, <1>3, <1>7
  <1> QED BY <1>4, <1>5, <1>6, <1>8, <1>9

-----------------------------------------------------------------------------
(* The shapes of the library's steps.                                      *)

\* What every step of the library leaves alone, or keeps well-typed.
LEMMA Rest ==
  ASSUME IInv,
         UNCHANGED <<disk, moduleList>>,
         module' \in [Name -> Module],
         parser' \in Seq(Parser), Owners', Covered',
         lex' \in Buffers,
         \A i \in DOMAIN lex' : lex'[i].file \in DOMAIN disk,
         smiDepth' = Depth', smiDepth' \in Nat,
         view' \subseteq Name, call' \in Call,
         result' \in Name \cup {NULL}, crashed' \in BOOLEAN
  PROVE  IInv'
  BY DEF IInv, TypeOK, FilesExist, ListDistinct, Buffers

\* A step of the current parser that calls nothing.
LEMMA TopAction ==
  ASSUME IInv, parser # <<>>, NEW q \in Parser,
         q.st \in Inside => top.st \in Inside /\ q.mod = top.mod,
         SetTop(q), lex' = Advanced, module' \in [Name -> Module],
         UNCHANGED <<disk, moduleList, smiDepth, view, call, result, crashed>>
  PROVE  IInv'
  <1>1. /\ parser' \in Seq(Parser) /\ Depth' = Depth
        /\ Owners' /\ Covered'
    <2>1. parser' = [parser EXCEPT ![Depth] = q]
      BY DEF SetTop
    <2> QED BY <2>1, TopStep
  <1>2. /\ lex' \in Buffers
        /\ \A i \in DOMAIN lex' : lex'[i].file \in DOMAIN disk
    BY AdvancedFacts DEF IInv, FilesExist
  <1>3. /\ smiDepth' = Depth' /\ smiDepth' \in Nat /\ view' \subseteq Name
        /\ call' \in Call /\ result' \in Name \cup {NULL}
        /\ crashed' \in BOOLEAN
    BY <1>1 DEF IInv, TypeOK
  <1> QED BY <1>1, <1>2, <1>3, Rest

\* A step of the current parser that calls loadModule().
LEMMA NestedAction ==
  ASSUME IInv, parser # <<>>, top.st \in Inside,
         NEW q \in Parser, q.st \in Inside, q.mod = top.mod,
         NEW n \in DOMAIN disk,
         Push([parser EXCEPT ![Depth] = q], Advanced, n),
         module' \in [Name -> Module],
         UNCHANGED <<disk, moduleList, view, call, result, crashed>>
  PROVE  IInv'
  <1>1. TypeOK /\ FilesExist
    BY DEF IInv
  <1>2. /\ Advanced \in Buffers
        /\ \A i \in DOMAIN Advanced : Advanced[i].file \in DOMAIN disk
    BY <1>1, AdvancedFacts DEF FilesExist
  <1>3. PICK over \in BOOLEAN :
          /\ NewParser(n, over) \in Parser
          /\ parser' = Append([parser EXCEPT ![Depth] = q], NewParser(n, over))
    BY <1>1, <1>2, PushFacts
  <1>4. /\ lex' \in Buffers
        /\ \A i \in DOMAIN lex' : lex'[i].file \in DOMAIN disk
        /\ smiDepth' = smiDepth + 1
    BY <1>1, <1>2, PushFacts
  <1>5. NewParser(n, over).st \notin Inside
    BY DEF NewParser, Inside, Clauses
  <1>6. /\ parser' \in Seq(Parser) /\ Depth' = Depth + 1
        /\ Owners' /\ Covered'
    BY <1>3, <1>5, NestedStep
  <1>7. smiDepth' = Depth' /\ smiDepth' \in Nat
    BY <1>4, <1>6 DEF IInv, TypeOK
  <1>8. /\ view' \subseteq Name /\ call' \in Call
        /\ result' \in Name \cup {NULL} /\ crashed' \in BOOLEAN
    BY DEF IInv, TypeOK
  <1> QED BY <1>4, <1>6, <1>7, <1>8, Rest

\* What is left when the innermost loadModule() ends.
LEMMA LeaveFacts ==
  ASSUME IInv, Leave
  PROVE  /\ parser # <<>> /\ top \in Parser /\ Depth \in Nat \ {0}
         /\ top.mod \in Name \cup {NULL}
         /\ lex' \in Buffers
         /\ \A i \in DOMAIN lex' : lex'[i].file \in DOMAIN disk
         /\ smiDepth' = Depth - 1
         /\ UNCHANGED <<disk, moduleList, crashed>>
  <1>1. parser # <<>> /\ parser \in Seq(Parser)
    BY DEF Leave, IInv, TypeOK
  <1>2. top \in Parser /\ Depth \in Nat \ {0}
    BY <1>1, StackFacts
  <1>3. /\ lex \in Buffers /\ DOMAIN lex = 1 .. Len(lex)
        /\ Len(lex) \in Nat \ {0}
    BY EmptySeq, LenProperties DEF Leave, IInv, TypeOK, Buffers
  <1>4. /\ SubSeq(lex, 1, Len(lex) - 1) \in Buffers
        /\ DOMAIN SubSeq(lex, 1, Len(lex) - 1) = 1 .. Len(lex) - 1
        /\ \A i \in 1 .. Len(lex) - 1 :
             SubSeq(lex, 1, Len(lex) - 1)[i] = lex[i]
    <2> DEFINE B == [file : Name, pos : Nat]
               k == Len(lex) - 1
    <2>1. k \in Nat /\ \A i \in 1 .. k : lex[i] \in B
      <3>1. \A i \in 1 .. Len(lex) : lex[i] \in B
        <4> HIDE DEF B
        <4>1. lex \in Seq(B)
          BY <1>3 DEF B, Buffers
        <4> QED BY <4>1, ElementOfSeq
      <3> HIDE DEF B
      <3> QED BY <1>3, <3>1
    <2> HIDE DEF B, k
    <2>2. /\ SubSeq(lex, 1, k) \in Seq(B)
          /\ Len(SubSeq(lex, 1, k)) = k
          /\ \A i \in 1 .. k : SubSeq(lex, 1, k)[i] = lex[i]
      BY <2>1, SubSeqProperties
    <2>3. DOMAIN SubSeq(lex, 1, k) = 1 .. k
      BY <2>2, LenProperties
    <2> QED BY <2>2, <2>3 DEF B, k, Buffers
  <1>5. lex' = SubSeq(lex, 1, Len(lex) - 1)
    BY DEF Leave
  <1>6. \A i \in DOMAIN lex' : lex'[i].file \in DOMAIN disk
    BY <1>3, <1>4, <1>5 DEF IInv, FilesExist
  <1> QED BY <1>1, <1>2, <1>4, <1>5, <1>6 DEF Leave, IInv, Parser

\* The innermost loadModule() returns into the parser that waits for it.
LEMMA ReturnAction ==
  ASSUME IInv, Leave, Depth > 1,
         NEW q \in Parser, q.st \in Inside, q.mod = parser[Depth - 1].mod,
         parser' = [SubSeq(parser, 1, Depth - 1) EXCEPT ![Depth - 1] = q],
         module' \in [Name -> Module],
         UNCHANGED <<view, call, result>>
  PROVE  IInv'
  <1>1. /\ parser' \in Seq(Parser) /\ Depth' = Depth - 1
        /\ Owners' /\ Covered'
    BY LeaveFacts, ReturnStep
  <1>2. smiDepth' = Depth' /\ smiDepth' \in Nat
    BY <1>1, LeaveFacts
  <1>3. /\ view' \subseteq Name /\ call' \in Call
        /\ result' \in Name \cup {NULL} /\ crashed' \in BOOLEAN
    BY LeaveFacts DEF IInv, TypeOK
  <1> QED BY <1>1, <1>2, <1>3, LeaveFacts, Rest

-----------------------------------------------------------------------------
(* Each step of the library preserves the invariant.                       *)

LEMMA RunningFacts ==
  ASSUME IInv, Running
  PROVE  /\ parser # <<>> /\ top \in Parser
         /\ tok \in Token
         /\ (top.st \in Inside => top.mod \in Name /\ module[top.mod] \in Module)
  <1>1. parser # <<>> /\ parser \in Seq(Parser)
    BY DEF Running, IInv, TypeOK
  <1>2. top \in Parser /\ Depth \in Nat \ {0}
    BY <1>1, StackFacts
  <1>3. top.st \in Inside => top.mod \in Name
    BY <1>2 DEF IInv, Owners, top
  <1>4. tok \in Token
    BY TokenType DEF IInv
  <1> QED BY <1>1, <1>2, <1>3, <1>4 DEF IInv, TypeOK

\* The fields of the tokens that name a module, and of those that do not.
LEMMA TokenFields ==
  ASSUME NEW t \in Token
  PROVE  /\ t.syms \in Seq(Symbol)
         /\ t.op \in {"module", "pib", "import"} \cup Clauses => t.name \in Name
  BY DEF Token, Clauses

LEMMA HeaderPreserves ==
  ASSUME IInv, ModuleHeader
  PROVE  IInv'
  <1> DEFINE n == tok.name
             q == AfterHeader(top, n)
  <1>1. /\ parser # <<>> /\ top \in Parser /\ n \in Name
        /\ top.st = "file" /\ top.st \notin Inside
    <2>1. tok \in Token /\ tok.op \in {"module", "pib"} /\ Running
          /\ top.st = "file"
      BY RunningFacts DEF ModuleHeader
    <2> QED BY <2>1, RunningFacts, TokenFields DEF Inside, Clauses
  <1>2. SetTop(q) /\ q \in Parser /\ q.mod = n
    BY <1>1 DEF ModuleHeader, AfterHeader, Parser
  <1>3. lex' = Advanced
        /\ UNCHANGED <<disk, smiDepth, view, call, result, crashed>>
    BY DEF ModuleHeader
  <1>4. CASE Listed(n)
    <2>1. UNCHANGED <<moduleList, module>>
      BY <1>4 DEF ModuleHeader
    <2>2. q = [top EXCEPT !.mod = n, !.st = "done"]
      BY <1>4 DEF AfterHeader
    <2>3. q.st = "done" /\ "done" \notin Inside
      BY <1>1, <2>2 DEF Inside, Clauses, Parser
    <2>4. module' \in [Name -> Module]
      BY <2>1 DEF IInv, TypeOK
    <2> HIDE DEF q
    <2> QED BY <1>1, <1>2, <1>3, <2>1, <2>3, <2>4, TopAction
  <1>5. CASE ~Listed(n)
    <2>1. /\ moduleList' = Append(moduleList, n)
          /\ module' = [module EXCEPT ![n] =
                          [NewModule EXCEPT !.language = HeaderLanguage]]
      BY <1>5 DEF ModuleHeader
    <2>2. module' \in [Name -> Module]
      <3>1. NewModule \in Module
        BY DEF NewModule, Module
      <3>2. HeaderLanguage \in {"unknown", "smiv1", "smiv2", "sppi"}
        BY DEF HeaderLanguage
      <3>3. [NewModule EXCEPT !.language = HeaderLanguage] \in Module
        BY <3>1, <3>2 DEF Module
      <3> QED BY <2>1, <3>3 DEF IInv, TypeOK
    <2>3. /\ moduleList \in Seq(Name) /\ Len(moduleList) \in Nat
          /\ DOMAIN moduleList = 1 .. Len(moduleList)
          /\ moduleList' \in Seq(Name)
          /\ DOMAIN moduleList' = 1 .. Len(moduleList) + 1
          /\ Len(moduleList') = Len(moduleList) + 1
          /\ \A i \in 1 .. Len(moduleList) : moduleList'[i] = moduleList[i]
          /\ moduleList'[Len(moduleList) + 1] = n
      BY <1>1, <2>1, AppendProperties, LenProperties DEF IInv, TypeOK
    <2>4. \A m : Listed(m)' <=> (Listed(m) \/ m = n)
      BY <2>3 DEF Listed
    <2>5. ListDistinct'
      BY <1>5, <2>3 DEF IInv, ListDistinct, Listed
    <2>6. /\ parser \in Seq(Parser) /\ Depth \in Nat \ {0}
          /\ DOMAIN parser = 1 .. Depth
      BY <1>1, StackFacts DEF IInv, TypeOK
    <2>7. /\ parser' \in Seq(Parser) /\ Depth' = Depth
          /\ \A i \in 1 .. Depth :
               parser'[i] = IF i = Depth THEN q ELSE parser[i]
      <3>1. parser' = [parser EXCEPT ![Depth] = q]
        BY <1>2 DEF SetTop
      <3> HIDE DEF q
      <3> QED BY <1>2, <2>6, <3>1, ExceptSeq DEF Depth
    <2>8. Owners'
      <3>1. \A i \in 1 .. Depth : i < Depth => parser[i].st \in Inside
        BY DEF IInv, Owners
      <3>2. \A i \in 1 .. Depth : i < Depth =>
              /\ parser[i].mod \in Name /\ Listed(parser[i].mod)
              /\ parser[i].mod # n
        BY <1>5, <3>1 DEF IInv, Owners
      <3> HIDE DEF q, n
      <3> QED BY <1>1, <1>2, <2>4, <2>6, <2>7, <3>1, <3>2 DEF IInv, Owners
    <2>9. Covered'
      <3>1. Depth <= Len(moduleList) + 1
        BY DEF IInv, Covered
      <3> QED BY <2>3, <2>6, <2>7, <3>1 DEF Covered
    <2>10. /\ lex' \in Buffers
           /\ \A i \in DOMAIN lex' : lex'[i].file \in DOMAIN disk
      BY <1>3, AdvancedFacts DEF IInv, FilesExist
    <2> HIDE DEF q, n
    <2> QED BY <1>3, <2>2, <2>3, <2>5, <2>7, <2>8, <2>9, <2>10
            DEF IInv, TypeOK, FilesExist, Buffers
  <1> QED BY <1>4, <1>5

\* A parser that is inside of its module may change the module's imports.
LEMMA NewImportsType ==
  ASSUME IInv, Running, top.st \in Inside, NEW imps \in Seq(Import)
  PROVE  [module EXCEPT ![top.mod].imports = imps] \in [Name -> Module]
  <1>1. top.mod \in Name /\ module[top.mod] \in Module
    BY RunningFacts
  <1>2. [module[top.mod] EXCEPT !.imports = imps] \in Module
    BY <1>1 DEF Module
  <1> QED BY <1>1, <1>2 DEF IInv, TypeOK

LEMMA ImportPreserves ==
  ASSUME IInv, ImportClause
  PROVE  IInv'
  <1> DEFINE m    == top.mod
             n    == tok.name
             imps == AddImports(module[m].imports, tok.syms)
             q    == [top EXCEPT !.st = "imports"]
             r    == [top EXCEPT !.st = "imports", !.wait = "import",
                                 !.asked = n]
             f(from) == FinishImport(imps, n, from, module[m].language)
  <1>1. /\ Running /\ parser # <<>> /\ top \in Parser /\ top.st \in Inside
        /\ m \in Name /\ module[m] \in Module
        /\ n \in Name /\ tok.syms \in Seq(Symbol)
    <2>1. Running /\ top.st \in Inside /\ tok.op = "import"
      BY DEF ImportClause, Inside
    <2> QED BY <2>1, RunningFacts, TokenFields
  <1>2. imps \in Seq(Import)
    BY <1>1, AddImportsType DEF Module
  <1>3. /\ q \in Parser /\ q.st \in Inside /\ q.mod = m
        /\ r \in Parser /\ r.st \in Inside /\ r.mod = m
    BY <1>1 DEF Parser, Inside
  <1>4. UNCHANGED <<disk, moduleList, view, call, result, crashed>>
    BY DEF ImportClause
  <1>5. ASSUME NEW from \in Name \cup {NULL},
               module' = [module EXCEPT ![m].imports  = f(from).imports,
                                        ![m].language = f(from).language],
               SetTop(q), lex' = Advanced, UNCHANGED smiDepth
        PROVE  IInv'
    <2>1. /\ f(from).imports \in Seq(Import)
          /\ f(from).language \in {"unknown", "smiv1", "smiv2", "sppi"}
      <3> HIDE DEF imps, m, n
      <3>1. module[m].language \in {"unknown", "smiv1", "smiv2", "sppi"}
        BY <1>1 DEF Module
      <3> QED BY <1>2, <3>1, FinishImportType
    <2> HIDE DEF f
    <2>2. [module[m] EXCEPT !.imports  = f(from).imports,
                            !.language = f(from).language] \in Module
      BY <1>1, <2>1 DEF Module
    <2>3. module' \in [Name -> Module]
      BY <1>1, <1>5, <2>2 DEF IInv, TypeOK
    <2> HIDE DEF q
    <2> QED BY <1>1, <1>3, <1>4, <1>5, <2>3, TopAction
  <1>6. ASSUME n \in DOMAIN disk,
               module' = [module EXCEPT ![m].imports = imps],
               Push([parser EXCEPT ![Depth].st = "imports",
                                   ![Depth].wait = "import",
                                   ![Depth].asked = n], Advanced, n)
        PROVE  IInv'
    <2>1. module' \in [Name -> Module]
      BY <1>1, <1>2, <1>6, NewImportsType
    <2>2. Push([parser EXCEPT ![Depth] = r], Advanced, n)
      BY <1>6 DEF top
    <2> HIDE DEF r
    <2> QED BY <1>1, <1>3, <1>4, <1>6, <2>1, <2>2, NestedAction
  <1> QED BY <1>1, <1>5, <1>6 DEF ImportClause

LEMMA LinkagePreserves ==
  ASSUME IInv, LinkageClause
  PROVE  IInv'
  <1> DEFINE q == [top EXCEPT !.st = "body"]
  <1>1. /\ Running /\ parser # <<>> /\ top \in Parser /\ top.st \in Inside
        /\ top.mod \in Name /\ module[top.mod] \in Module
    <2>1. Running /\ top.st \in Inside
      BY DEF LinkageClause, Inside
    <2> QED BY <2>1, RunningFacts
  <1>2. module' \in [Name -> Module]
    <2>1. [module[top.mod] EXCEPT !.language = LinkageLanguage(@)] \in Module
      BY <1>1 DEF LinkageLanguage, Module
    <2> QED BY <1>1, <2>1 DEF LinkageClause, IInv, TypeOK
  <1>3. q \in Parser /\ q.mod = top.mod
    BY <1>1 DEF Parser
  <1>4. SetTop(q) /\ lex' = Advanced
        /\ UNCHANGED <<disk, moduleList, smiDepth, view, call, result, crashed>>
    BY DEF LinkageClause
  <1> HIDE DEF q
  <1> QED BY <1>1, <1>2, <1>3, <1>4, TopAction

LEMMA DeclarationPreserves ==
  ASSUME IInv, Declaration
  PROVE  IInv'
  <1> DEFINE q   == [top EXCEPT !.st = "body"]
             rec == module[top.mod]
             ref == IF Len(tok.syms) = 1 THEN rec
                    ELSE Referred(rec, tok.syms[2], top.scope)
  <1>1. /\ Running /\ parser # <<>> /\ top \in Parser /\ top.st \in Inside
        /\ top.mod \in Name /\ rec \in Module
        /\ tok.syms \in Seq(Symbol) /\ tok.syms # <<>>
    <2>1. Running /\ top.st \in Inside /\ tok.syms # <<>>
      BY DEF Declaration, InBody, Inside
    <2> QED BY <2>1, RunningFacts, TokenFields
  <1>2. /\ Len(tok.syms) \in Nat \ {0}
        /\ \A i \in 1 .. Len(tok.syms) : tok.syms[i] \in Symbol
    BY <1>1, EmptySeq, LenProperties, ElementOfSeq
  <1>3. ref \in Module
    <2>1. CASE Len(tok.syms) = 1
      BY <1>1, <2>1
    <2>2. CASE Len(tok.syms) # 1
      <3>1. tok.syms[2] \in Symbol
        <4> DEFINE k == Len(tok.syms)
        <4>1. 2 \in 1 .. k
          <5>1. k \in Nat /\ k # 0 /\ k # 1
            BY <1>2, <2>2
          <5> HIDE DEF k
          <5> QED BY <5>1
        <4> QED BY <1>2, <4>1
      <3>2. top.scope \in [Clauses -> Name \cup {NULL}]
        BY <1>1 DEF Parser
      <3>3. Referred(rec, tok.syms[2], top.scope) \in Module
        BY <1>1, <3>1, <3>2, ReferredType
      <3> QED BY <2>2, <3>3
    <2> QED BY <2>1, <2>2
  <1>4. module' \in [Name -> Module]
    <2>1. module' = [module EXCEPT ![top.mod] =
                       Declared(ref, tok.op, tok.syms[1])]
      BY DEF Declaration, Declared
    <2>2. tok.syms[1] \in Symbol
      BY <1>2
    <2>3. Declared(ref, tok.op, tok.syms[1]) \in Module
      <3> HIDE DEF ref
      <3> QED BY <1>3, <2>2, DeclaredType
    <2> QED BY <1>1, <2>1, <2>3 DEF IInv, TypeOK
  <1>5. q \in Parser /\ q.mod = top.mod
    BY <1>1 DEF Parser
  <1>6. SetTop(q) /\ lex' = Advanced
        /\ UNCHANGED <<disk, moduleList, smiDepth, view, call, result, crashed>>
    BY DEF Declaration
  <1> HIDE DEF q
  <1> QED BY <1>1, <1>4, <1>5, <1>6, TopAction

LEMMA EnterScopeFacts ==
  ASSUME NEW p \in Parser, NEW c \in Clauses, NEW m \in Name \cup {NULL}
  PROVE  /\ EnterScope(p, c, m) \in Parser
         /\ EnterScope(p, c, m).st \in Inside
         /\ EnterScope(p, c, m).mod = p.mod
  BY DEF EnterScope, Parser, Inside, Clauses

LEMMA ClauseModulePreserves ==
  ASSUME IInv, ClauseModule
  PROVE  IInv'
  <1> DEFINE r == [top EXCEPT !.wait = tok.op, !.asked = tok.name]
  <1>1. /\ parser # <<>> /\ top \in Parser /\ top.st \in Inside
        /\ tok.op \in Clauses /\ tok.name \in Name
    <2>1. Running /\ top.st \in Inside /\ tok.op \in Clauses
      BY DEF ClauseModule, InBody, Inside
    <2> QED BY <2>1, RunningFacts, TokenFields
  <1>2. UNCHANGED <<disk, moduleList, module, view, call, result, crashed>>
    BY DEF ClauseModule
  <1>3. module' \in [Name -> Module]
    BY <1>2 DEF IInv, TypeOK
  <1>4. ASSUME NEW m \in Name \cup {NULL},
               SetTop(EnterScope(top, tok.op, m)), lex' = Advanced,
               UNCHANGED smiDepth
        PROVE  IInv'
    BY <1>1, <1>2, <1>3, <1>4, EnterScopeFacts, TopAction
  <1>5. ASSUME tok.name \in DOMAIN disk,
               Push([parser EXCEPT ![Depth].wait = tok.op,
                                   ![Depth].asked = tok.name],
                    Advanced, tok.name)
        PROVE  IInv'
    <2>1. r \in Parser /\ r.st = top.st /\ r.mod = top.mod
      BY <1>1 DEF Parser
    <2>2. Push([parser EXCEPT ![Depth] = r], Advanced, tok.name)
      BY <1>5 DEF top
    <2> HIDE DEF r
    <2> QED BY <1>1, <1>2, <1>3, <1>5, <2>1, <2>2, NestedAction
  <1> QED BY <1>1, <1>4, <1>5 DEF ClauseModule

LEMMA ClauseReferencePreserves ==
  ASSUME IInv, ClauseReference
  PROVE  IInv'
  <1>1. /\ Running /\ parser # <<>> /\ top \in Parser /\ top.st \in Inside
        /\ top.mod \in Name /\ module[top.mod] \in Module
        /\ tok.syms \in Seq(Symbol) /\ tok.syms # <<>>
    <2>1. Running /\ top.st \in Inside /\ tok.syms # <<>>
      BY DEF ClauseReference, Inside
    <2> QED BY <2>1, RunningFacts, TokenFields
  <1>2. tok.syms[1] \in Symbol
    <2>1. 1 \in 1 .. Len(tok.syms)
      BY <1>1, EmptySeq, LenProperties
    <2> QED BY <1>1, <2>1, ElementOfSeq
  <1>3. Referred(module[top.mod], tok.syms[1], top.scope) \in Module
    <2>1. top.scope \in [Clauses -> Name \cup {NULL}]
      BY <1>1 DEF Parser
    <2> QED BY <1>1, <1>2, <2>1, ReferredType
  <1>4. module' \in [Name -> Module]
    BY <1>1, <1>3 DEF ClauseReference, IInv, TypeOK
  <1>5. SetTop(top)
    <2>1. parser \in Seq(Parser)
      BY DEF IInv, TypeOK
    <2>2. parser = [parser EXCEPT ![Depth] = top]
      BY <1>1, <2>1, StackFacts DEF top
    <2> QED BY <2>2 DEF SetTop, ClauseReference
  <1>6. lex' = Advanced
        /\ UNCHANGED <<disk, moduleList, smiDepth, view, call, result, crashed>>
    BY DEF ClauseReference
  <1> QED BY <1>1, <1>4, <1>5, <1>6, TopAction

LEMMA EndClausePreserves ==
  ASSUME IInv, EndClause
  PROVE  IInv'
  <1> DEFINE q == [top EXCEPT !.st = "body", !.scope[top.st] = NULL]
             m == top.scope[top.st]
  <1>1. /\ Running /\ parser # <<>> /\ top \in Parser
        /\ top.st \in Inside /\ top.st \in Clauses
        /\ top.mod \in Name /\ module[top.mod] \in Module
    <2>1. Running /\ top.st \in Clauses /\ top.st \in Inside
      BY DEF EndClause, Inside
    <2> QED BY <2>1, RunningFacts
  <1>2. module' \in [Name -> Module]
    <2>1. CASE m = NULL
      BY <2>1 DEF EndClause, IInv, TypeOK
    <2>2. CASE m # NULL
      <3>1. m \in Name \cup {NULL} /\ module[top.mod].imports \in Seq(Import)
        BY <1>1 DEF Parser, Module
      <3>2. Settle(module[top.mod].imports, m) \in Seq(Import)
        <4> HIDE DEF m
        <4> QED BY <3>1, SettleType
      <3>3. module' = [module EXCEPT ![top.mod].imports =
                         Settle(module[top.mod].imports, m)]
        BY <2>2 DEF EndClause
      <3> HIDE DEF m
      <3> QED BY <1>1, <3>2, <3>3, NewImportsType
    <2> QED BY <2>1, <2>2
  <1>3. q \in Parser /\ q.mod = top.mod
    BY <1>1 DEF Parser
  <1>4. SetTop(q) /\ lex' = Advanced
        /\ UNCHANGED <<disk, moduleList, smiDepth, view, call, result, crashed>>
    BY DEF EndClause
  <1> HIDE DEF q
  <1> QED BY <1>1, <1>2, <1>3, <1>4, TopAction

LEMMA EndModulePreserves ==
  ASSUME IInv, EndModule
  PROVE  IInv'
  <1> DEFINE q == [top EXCEPT !.st = "file", !.scope["capabilities"] = NULL]
  <1>1. /\ Running /\ parser # <<>> /\ top \in Parser
        /\ top.mod \in Name /\ module[top.mod] \in Module
    <2>1. Running /\ top.st \in Inside
      BY DEF EndModule, InBody, Inside
    <2> QED BY <2>1, RunningFacts
  <1>2. module' \in [Name -> Module]
    <2>1. [module[top.mod] EXCEPT !.complete = TRUE,
             !.language = IF @ = "unknown" THEN "smiv1" ELSE @] \in Module
      BY <1>1 DEF Module
    <2> QED BY <1>1, <2>1 DEF EndModule, IInv, TypeOK
  <1>3. q \in Parser /\ q.st \notin Inside
    BY <1>1 DEF Parser, Inside, Clauses
  <1>4. SetTop(q) /\ lex' = Advanced
        /\ UNCHANGED <<disk, moduleList, smiDepth, view, call, result, crashed>>
    BY DEF EndModule
  <1> HIDE DEF q
  <1> QED BY <1>1, <1>2, <1>3, <1>4, TopAction

LEMMA FlushPreserves ==
  ASSUME IInv, FlushDeclaration
  PROVE  IInv'
  <1> DEFINE q == [top EXCEPT !.st =
               IF tok.op \in {"ref", "endclause", "flush"} \cup Declarations
               THEN "body" ELSE "recover"]
  <1>1. /\ parser # <<>> /\ top \in Parser /\ top.st \in Inside
    <2>1. Running /\ top.st \in Inside
      BY DEF FlushDeclaration, Inside
    <2> QED BY <2>1, RunningFacts
  <1>2. q \in Parser /\ q.mod = top.mod
    BY <1>1 DEF Parser
  <1>3. module' \in [Name -> Module]
    BY DEF FlushDeclaration, IInv, TypeOK
  <1>4. SetTop(q) /\ lex' = Advanced
        /\ UNCHANGED <<disk, moduleList, smiDepth, view, call, result, crashed>>
    BY DEF FlushDeclaration
  <1> HIDE DEF q
  <1> QED BY <1>1, <1>2, <1>3, <1>4, TopAction

LEMMA EndOfParsePreserves ==
  ASSUME IInv, EndOfParse
  PROVE  IInv'
  <1> DEFINE q == [top EXCEPT !.st = "done"]
  <1>1. parser # <<>> /\ top \in Parser
    BY RunningFacts DEF EndOfParse
  <1>2. q \in Parser /\ q.st \notin Inside
    BY <1>1 DEF Parser, Inside, Clauses
  <1>3. module' \in [Name -> Module]
    BY DEF EndOfParse, IInv, TypeOK
  <1>4. SetTop(q) /\ lex' = Advanced
        /\ UNCHANGED <<disk, moduleList, smiDepth, view, call, result, crashed>>
    BY DEF EndOfParse
  <1> HIDE DEF q
  <1> QED BY <1>1, <1>2, <1>3, <1>4, TopAction

LEMMA ReturnToImportPreserves ==
  ASSUME IInv, ReturnToImport
  PROVE  IInv'
  <1> DEFINE p == parser[Depth - 1]
             q == [p EXCEPT !.wait = "no", !.asked = NULL]
             f == FinishImport(module[p.mod].imports, p.asked, Returned,
                               module[p.mod].language)
  <1>1. Leave /\ Depth > 1 /\ UNCHANGED <<view, call, result>>
    BY DEF ReturnToImport
  <1>2. /\ p \in Parser /\ p.st \in Inside /\ p.mod \in Name
        /\ module[p.mod] \in Module
    <2>1. /\ Depth \in Nat \ {0}
          /\ \A i \in 1 .. Depth : parser[i] \in Parser
      BY <1>1, LeaveFacts, StackFacts DEF IInv, TypeOK
    <2>2. Depth - 1 \in 1 .. Depth /\ Depth - 1 < Depth
      BY <1>1, <2>1
    <2> QED BY <2>1, <2>2 DEF IInv, TypeOK, Owners
  <1>3. Returned \in Name \cup {NULL}
    BY <1>1, LeaveFacts DEF Returned
  <1>4. /\ f.imports \in Seq(Import)
        /\ f.language \in {"unknown", "smiv1", "smiv2", "sppi"}
    <2>1. /\ module[p.mod].imports \in Seq(Import)
          /\ module[p.mod].language \in {"unknown", "smiv1", "smiv2", "sppi"}
      BY <1>2 DEF Module
    <2> HIDE DEF p
    <2> QED BY <1>3, <2>1, FinishImportType
  <1>5. /\ module' = [module EXCEPT ![p.mod].imports  = f.imports,
                                    ![p.mod].language = f.language]
        /\ parser' = [SubSeq(parser, 1, Depth - 1) EXCEPT
                         ![Depth - 1].wait = "no",
                         ![Depth - 1].asked = NULL]
    BY DEF ReturnToImport
  <1>6. module' \in [Name -> Module]
    <2> HIDE DEF f
    <2>1. [module[p.mod] EXCEPT !.imports  = f.imports,
                                !.language = f.language] \in Module
      BY <1>2, <1>4 DEF Module
    <2> QED BY <1>2, <1>5, <2>1 DEF IInv, TypeOK
  <1>7. parser' = [SubSeq(parser, 1, Depth - 1) EXCEPT ![Depth - 1] = q]
    <2>1. SubSeq(parser, 1, Depth - 1)[Depth - 1] = p
      <3>1. /\ Depth \in Nat \ {0} /\ Depth - 1 \in Int
            /\ \A i \in 1 .. Depth - 1 : parser[i] \in Parser
        BY <1>1, LeaveFacts, StackFacts DEF IInv, TypeOK
      <3>2. \A i \in 1 .. Depth - 1 :
              SubSeq(parser, 1, Depth - 1)[i] = parser[i]
        BY <3>1, SubSeqProperties
      <3> QED BY <1>1, <3>1, <3>2
    <2> QED BY <1>5, <2>1
  <1>8. q \in Parser /\ q.st \in Inside /\ q.mod = p.mod
    BY <1>2 DEF Parser
  <1> HIDE DEF q
  <1> QED BY <1>1, <1>6, <1>7, <1>8, ReturnAction

LEMMA ReturnToClausePreserves ==
  ASSUME IInv, ReturnToClause
  PROVE  IInv'
  <1> DEFINE p == parser[Depth - 1]
             q == EnterScope(p, p.wait, Returned)
  <1>1. /\ Leave /\ Depth > 1 /\ UNCHANGED <<module, view, call, result>>
        /\ p.wait \in Clauses
        /\ parser' = [SubSeq(parser, 1, Depth - 1) EXCEPT ![Depth - 1] = q]
    BY DEF ReturnToClause
  <1>2. p \in Parser
    <2>1. /\ Depth \in Nat \ {0}
          /\ \A i \in 1 .. Depth : parser[i] \in Parser
      BY <1>1, LeaveFacts, StackFacts DEF IInv, TypeOK
    <2>2. Depth - 1 \in 1 .. Depth
      BY <1>1, <2>1
    <2> QED BY <2>1, <2>2
  <1>3. Returned \in Name \cup {NULL}
    BY <1>1, LeaveFacts DEF Returned
  <1>4. q \in Parser /\ q.st \in Inside /\ q.mod = p.mod
    BY <1>1, <1>2, <1>3, EnterScopeFacts
  <1>5. module' \in [Name -> Module]
    BY <1>1 DEF IInv, TypeOK
  <1> HIDE DEF q
  <1> QED BY <1>1, <1>4, <1>5, ReturnAction

\* Without parsers there is nothing to own or to cover.
LEMMA EmptyStack ==
  ASSUME moduleList \in Seq(Name), parser = <<>>
  PROVE  Depth = 0 /\ Owners /\ Covered
  <1>1. Depth = 0
    BY EmptySeq DEF Depth
  <1>2. Len(moduleList) \in Nat
    BY LenProperties
  <1> QED BY <1>1, <1>2 DEF Owners, Covered

LEMMA ReturnToApplicationPreserves ==
  ASSUME IInv, ReturnToApplication
  PROVE  IInv'
  <1>1. /\ Leave /\ Depth = 1 /\ parser' = <<>> /\ call' = NoCall
        /\ result' = Returned /\ UNCHANGED module
    BY DEF ReturnToApplication
  <1>2. Depth' = 0 /\ Owners' /\ Covered'
    <2>1. moduleList' \in Seq(Name)
      BY <1>1, LeaveFacts DEF IInv, TypeOK
    <2>2. Depth' = 0 /\ Len(moduleList') \in Nat
      BY <1>1, <2>1, EmptySeq, LenProperties DEF Depth
    <2> QED BY <1>1, <2>2 DEF Owners, Covered
  <1>3. parser' \in Seq(Parser) /\ smiDepth' = Depth' /\ smiDepth' \in Nat
    BY <1>1, <1>2, LeaveFacts
  <1>4. result' \in Name \cup {NULL}
    BY <1>1, LeaveFacts DEF Returned
  <1>5. view' \subseteq Name
    <2> DEFINE new == CASE Returned # NULL /\ call.fn = "byName" -> {call.name}
                        [] Returned # NULL /\ call.fn = "byPath" -> {Returned}
                        [] OTHER -> {}
    <2>1. view' = view \cup new
      BY DEF ReturnToApplication
    <2>2. view \subseteq Name /\ call \in Call
      BY DEF IInv, TypeOK
    <2>3. Returned # NULL => Returned \in Name
      BY <1>1, <1>4
    <2>4. call.fn = "byName" => call.name \in Name
      BY <2>2 DEF Call, NoCall
    <2>5. new \subseteq Name
      BY <2>3, <2>4
    <2> QED BY <2>1, <2>2, <2>5
  <1>6. call' \in Call /\ crashed' \in BOOLEAN
    BY <1>1, LeaveFacts DEF NoCall, Call, IInv, TypeOK
  <1>7. module' \in [Name -> Module]
    BY <1>1 DEF IInv, TypeOK
  <1> QED BY <1>1, <1>2, <1>3, <1>4, <1>5, <1>6, <1>7, LeaveFacts, Rest

\* loadModule() called by the application.
LEMMA StartLoadPreserves ==
  ASSUME IInv, Idle, NEW fn \in {"byName", "byPath", "smiGetModule"},
         NEW n \in Name, StartLoad(fn, n)
  PROVE  IInv'
  <1>1. /\ n \in DOMAIN disk /\ Push(<<>>, lex, n)
        /\ call' = [fn |-> fn, name |-> n]
        /\ UNCHANGED <<disk, moduleList, module, view, result, crashed>>
    BY DEF StartLoad
  <1>2. /\ parser = <<>> /\ TypeOK /\ lex \in Buffers
        /\ \A i \in DOMAIN lex : lex[i].file \in DOMAIN disk
    BY DEF Idle, IInv, TypeOK, Buffers, FilesExist
  <1>3. PICK over \in BOOLEAN :
          /\ NewParser(n, over) \in Parser
          /\ parser' = Append(<<>>, NewParser(n, over))
    BY <1>1, <1>2, PushFacts
  <1>4. /\ lex' \in Buffers
        /\ \A i \in DOMAIN lex' : lex'[i].file \in DOMAIN disk
        /\ smiDepth' = smiDepth + 1
    BY <1>1, <1>2, PushFacts
  <1> DEFINE r == NewParser(n, over)
  <1>5. r.st \notin Inside
    BY DEF NewParser, Inside, Clauses
  <1>6. /\ parser' = <<r>> /\ r \in Parser
        /\ parser' \in Seq(Parser) /\ Depth' = 1 /\ parser'[1] = r
    <2>1. parser' = <<r>> /\ r \in Parser
      BY <1>3
    <2> HIDE DEF r
    <2>2. <<r>> \in Seq(Parser) /\ Len(<<r>>) = 1 /\ <<r>>[1] = r
      BY <2>1
    <2> QED BY <2>1, <2>2 DEF Depth
  <1>7. Owners' /\ Covered'
    <2>1. Len(moduleList) \in Nat /\ moduleList' = moduleList
      BY <1>1, LenProperties DEF IInv, TypeOK
    <2>2. top' = r
      BY <1>6 DEF top
    <2> HIDE DEF r
    <2>3. Owners'
      BY <1>5, <1>6 DEF Owners
    <2>4. Covered'
      BY <1>5, <1>6, <2>1, <2>2 DEF Covered
    <2> QED BY <2>3, <2>4
  <1>8. smiDepth' = Depth' /\ smiDepth' \in Nat
    <2>1. smiDepth = 0
      BY <1>2, EmptySeq DEF IInv, Depth
    <2> QED BY <1>4, <1>6, <2>1
  <1>9. /\ call' \in Call /\ view' \subseteq Name /\ crashed' \in BOOLEAN
        /\ result' \in Name \cup {NULL} /\ module' \in [Name -> Module]
    BY <1>1, <1>2 DEF TypeOK, Call
  <1> HIDE DEF r
  <1> QED BY <1>1, <1>4, <1>6, <1>7, <1>8, <1>9, Rest

\* A call that is answered at once.
LEMMA AnswerPreserves ==
  ASSUME IInv, NEW r \in Name \cup {NULL}, NEW v \in SUBSET Name, Answer(r, v)
  PROVE  IInv'
  BY DEF Answer, IInv, TypeOK, FilesExist, Owners, ListDistinct, Covered,
         Listed, Depth, top

LEMMA ApplicationPreserves ==
  ASSUME IInv, Application
  PROVE  IInv'
  <1>1. PICK n \in Name : \/ smiLoadModuleByName(n)
                          \/ smiLoadModuleByPath(n)
                          \/ smiGetModule(n)
    BY DEF Application
  <1>2. Idle /\ \/ \E r \in Name \cup {NULL}, v \in SUBSET Name : Answer(r, v)
                \/ \E fn \in {"byName", "byPath", "smiGetModule"} :
                     StartLoad(fn, n)
    <2>1. view \in SUBSET Name /\ view \cup {n} \in SUBSET Name
      BY DEF IInv, TypeOK
    <2> QED BY <1>1, <2>1
            DEF smiLoadModuleByName, smiLoadModuleByPath, smiGetModule
  <1> QED BY <1>2, AnswerPreserves, StartLoadPreserves

LEMMA InitIInv == Init => IInv
  <1> SUFFICES ASSUME Init
               PROVE  IInv
    OBVIOUS
  <1>1. /\ moduleList = <<>> /\ parser = <<>> /\ lex = <<>>
    BY DEF Init
  <1>2. Depth = 0 /\ Owners /\ Covered
    BY <1>1, EmptyStack
  <1>3. NewModule \in Module
    BY DEF NewModule, Module
  <1>4. TypeOK
    <2>1. module \in [Name -> Module] /\ disk \in Disks /\ view \subseteq Name
      BY <1>3 DEF Init
    <2>2. /\ moduleList \in Seq(Name) /\ parser \in Seq(Parser)
          /\ lex \in Seq([file : Name, pos : Nat])
      BY <1>1
    <2>3. /\ smiDepth \in Nat /\ call \in Call /\ result \in Name \cup {NULL}
          /\ crashed \in BOOLEAN
      BY DEF Init, Call
    <2> QED BY <2>1, <2>2, <2>3 DEF TypeOK
  <1>5. FilesExist /\ ListDistinct
    BY <1>1 DEF FilesExist, ListDistinct
  <1> QED BY <1>2, <1>4, <1>5 DEF Init, IInv

LEMMA NextIInv == IInv /\ [Next]_vars => IInv'
  <1> SUFFICES ASSUME IInv, [Next]_vars
               PROVE  IInv'
    OBVIOUS
  <1>1. CASE Application
    BY <1>1, ApplicationPreserves
  <1>2. CASE ModuleHeader
    BY <1>2, HeaderPreserves
  <1>3. CASE ImportClause
    BY <1>3, ImportPreserves
  <1>4. CASE LinkageClause
    BY <1>4, LinkagePreserves
  <1>5. CASE Declaration
    BY <1>5, DeclarationPreserves
  <1>6. CASE ClauseModule
    BY <1>6, ClauseModulePreserves
  <1>7. CASE ClauseReference
    BY <1>7, ClauseReferencePreserves
  <1>8. CASE EndClause
    BY <1>8, EndClausePreserves
  <1>9. CASE FlushDeclaration
    BY <1>9, FlushPreserves
  <1>10. CASE EndModule
    BY <1>10, EndModulePreserves
  <1>11. CASE EndOfParse
    BY <1>11, EndOfParsePreserves
  <1>12. CASE ReturnToApplication
    BY <1>12, ReturnToApplicationPreserves
  <1>13. CASE ReturnToImport
    BY <1>13, ReturnToImportPreserves
  <1>14. CASE ReturnToClause
    BY <1>14, ReturnToClausePreserves
  <1>15. CASE Crash
    BY <1>15 DEF Crash, IInv, TypeOK, FilesExist, Owners, ListDistinct,
                 Covered, Listed, Depth, top
  <1>16. CASE UNCHANGED vars
    BY <1>16 DEF vars, IInv, TypeOK, FilesExist, Owners, ListDistinct,
                 Covered, Listed, Depth, top
  <1> QED BY <1>1, <1>2, <1>3, <1>4, <1>5, <1>6, <1>7, <1>8, <1>9, <1>10,
             <1>11, <1>12, <1>13, <1>14, <1>15, <1>16 DEF Next, Library

-----------------------------------------------------------------------------
(* The theorems.                                                           *)

LEMMA Inductive == Spec => []IInv
  BY InitIInv, NextIInv, PTL DEF Spec

\* The variables have their types in every reachable state.
THEOREM TypeCorrect == Spec => []TypeOK
  <1>1. IInv => TypeOK
    BY DEF IInv
  <1> QED BY <1>1, Inductive, PTL

\* However modules import each other, loadModule() never chains a module
\* twice, and never has two waiting parsers inside of the same module.
THEOREM OneParser == Spec => []OneParserPerModule
  <1>1. IInv => OneParserPerModule
    <2> SUFFICES ASSUME IInv
                 PROVE  OneParserPerModule
      OBVIOUS
    <2>1. Depth \in Nat
      BY LenProperties DEF IInv, TypeOK, Depth
    <2>2. \A i \in 1 .. Depth - 1 : i \in 1 .. Depth /\ i < Depth
      BY <2>1
    <2>3. \A i \in 1 .. Depth - 1 :
            parser[i].st \in Inside /\ Listed(parser[i].mod)
      BY <2>2 DEF IInv, Owners
    <2> QED BY <2>2, <2>3 DEF IInv, Owners, ListDistinct, OneParserPerModule
  <1> QED BY <1>1, Inductive, PTL

\* The recursion of loadModule() is bounded by the number of modules known:
\* import loops of any length end.
THEOREM Nesting == Spec => []NestingBounded
  <1>1. IInv => NestingBounded
    BY DEF IInv, Covered, NestingBounded
  <1> QED BY <1>1, Inductive, PTL
-----------------------------------------------------------------------------
(* What the modules record.  The second invariant, RInv, needs more of each *)
(* step than its shape: the record that it leaves has grown, its imports   *)
(* are true, and its language follows from them.                           *)

\* The imports that the parser still has to settle.
Pending(rec) == {i \in DOMAIN rec.imports :
                   rec.imports[i].kind = "unknown" /\ ~rec.imports[i].inc}

\* An import that was found is in a module of the list.
Truthful(imp) ==
  imp.kind \in Classes
    => /\ imp.from # NULL
       /\ Listed(imp.from)
       /\ imp.sym \in Visible(imp.from)
       /\ imp.kind = Class[imp.sym]

Grows(old, new) ==
  /\ old.defs \cup old.fwd \subseteq new.defs \cup new.fwd
  /\ \A i \in DOMAIN old.imports :
       /\ i \in DOMAIN new.imports
       /\ old.imports[i].kind # "unknown" => new.imports[i] = old.imports[i]

\* The record rec of module n may become new.
Kept(n, rec, new) ==
  /\ Grows(rec, new)
  /\ \A i \in DOMAIN new.imports : Truthful(new.imports[i])
  /\ LanguageOf(n, new)

\* What is known of the record rec of module n.
Known(n, rec) ==
  /\ \A i \in DOMAIN rec.imports : Truthful(rec.imports[i])
  /\ LanguageOf(n, rec)

LEMMA KnownRecord ==
  ASSUME RInv, NEW n \in Name, Listed(n)
  PROVE  Known(n, module[n])
  BY DEF RInv, RecordsTrue, ImportTruth, LanguageRule, Known, Truthful

LEMMA SettleFacts ==
  ASSUME NEW imps \in Seq(Import), NEW m \in Name \cup {NULL},
         NEW i \in DOMAIN imps
  PROVE  /\ DOMAIN Settle(imps, m) = DOMAIN imps
         /\ Settle(imps, m)[i].sym = imps[i].sym
         /\ Settle(imps, m)[i].inc = imps[i].inc
         /\ imps[i].kind # "unknown" => Settle(imps, m)[i] = imps[i]
         /\ imps[i].kind = "unknown"
              => /\ Settle(imps, m)[i].from = m
                 /\ Settle(imps, m)[i].kind \in Classes
                      => /\ m # NULL /\ imps[i].sym \in Visible(m)
                         /\ Settle(imps, m)[i].kind = Class[imps[i].sym]
         /\ Settle(imps, m)[i].kind # "unknown"
  <1> DEFINE k == IF m # NULL /\ imps[i].sym \in Visible(m)
                  THEN Class[imps[i].sym] ELSE "notfound"
  <1>1. imps[i] \in Import
    BY LenProperties, ElementOfSeq
  <1>2. k # "unknown" /\ (k \in Classes => /\ m # NULL
                                           /\ imps[i].sym \in Visible(m)
                                           /\ k = Class[imps[i].sym])
    BY <1>1, ClassAssumption DEF Import, Classes
  <1>3. Settle(imps, m)[i] = IF imps[i].kind # "unknown" THEN imps[i]
                             ELSE [imps[i] EXCEPT !.from = m, !.kind = k]
    BY DEF Settle
  <1>4. DOMAIN Settle(imps, m) = DOMAIN imps
    BY DEF Settle
  <1> HIDE DEF k
  <1>5. CASE imps[i].kind # "unknown"
    BY <1>3, <1>4, <1>5
  <1>6. CASE imps[i].kind = "unknown"
    <2> DEFINE new == [imps[i] EXCEPT !.from = m, !.kind = k]
    <2>1. /\ new.sym = imps[i].sym /\ new.inc = imps[i].inc
          /\ new.from = m /\ new.kind = k
      BY <1>1 DEF Import
    <2>2. Settle(imps, m)[i] = new
      BY <1>3, <1>6
    <2> HIDE DEF new
    <2> QED BY <1>2, <1>4, <1>6, <2>1, <2>2
  <1> QED BY <1>5, <1>6

LEMMA SettleTruthful ==
  ASSUME NEW imps \in Seq(Import), NEW m \in Name \cup {NULL},
         m # NULL => Listed(m),
         \A i \in DOMAIN imps : Truthful(imps[i])
  PROVE  \A i \in DOMAIN Settle(imps, m) : Truthful(Settle(imps, m)[i])
  <1> SUFFICES ASSUME NEW i \in DOMAIN imps
               PROVE  Truthful(Settle(imps, m)[i])
    BY DEF Settle
  <1>1. CASE imps[i].kind # "unknown"
    BY <1>1, SettleFacts
  <1>2. CASE imps[i].kind = "unknown"
    <2> DEFINE new == Settle(imps, m)[i]
    <2>1. /\ new.sym = imps[i].sym /\ new.from = m
          /\ new.kind \in Classes => /\ m # NULL /\ imps[i].sym \in Visible(m)
                                     /\ new.kind = Class[imps[i].sym]
      BY <1>2, SettleFacts
    <2> HIDE DEF new
    <2>2. Truthful(new)
      BY <2>1 DEF Truthful
    <2> QED BY <2>2 DEF new
  <1> QED BY <1>1, <1>2

LEMMA AddImportsFacts ==
  ASSUME NEW imps \in Seq(Import), NEW syms \in Seq(Symbol)
  PROVE  /\ \A i \in DOMAIN imps : /\ i \in DOMAIN AddImports(imps, syms)
                                   /\ AddImports(imps, syms)[i] = imps[i]
         /\ \A i \in DOMAIN AddImports(imps, syms) : i \notin DOMAIN imps
              => AddImports(imps, syms)[i].kind = "unknown"
  <1> DEFINE new == [i \in DOMAIN syms |->
               [sym |-> syms[i], from |-> NULL, kind |-> "unknown",
                inc |-> FALSE]]
  <1>1. new \in Seq(Import) /\ Len(new) = Len(syms)
        /\ \A i \in 1 .. Len(new) : new[i].kind = "unknown"
    <2>1. \A i \in DOMAIN syms : syms[i] \in Symbol
      BY LenProperties, ElementOfSeq
    <2>2. new \in [DOMAIN syms -> Import]
      BY <2>1 DEF Import, Kinds
    <2>3. new \in Seq(Import) /\ Len(new) = Len(syms)
      BY <2>2, SeqOverDomain
    <2>4. DOMAIN syms = 1 .. Len(syms)
      BY LenProperties
    <2> QED BY <2>3, <2>4
  <1>2. AddImports(imps, syms) = imps \o new
    BY DEF AddImports
  <1> HIDE DEF new
  <1>3. /\ Len(imps) \in Nat /\ Len(new) \in Nat
        /\ DOMAIN imps = 1 .. Len(imps)
        /\ DOMAIN (imps \o new) = 1 .. Len(imps) + Len(new)
        /\ \A i \in 1 .. Len(imps) + Len(new) :
             (imps \o new)[i] = IF i <= Len(imps) THEN imps[i]
                                ELSE new[i - Len(imps)]
    <2>1. /\ imps \o new \in Seq(Import)
          /\ Len(imps \o new) = Len(imps) + Len(new)
          /\ \A i \in 1 .. Len(imps) + Len(new) :
               (imps \o new)[i] = IF i <= Len(imps) THEN imps[i]
                                  ELSE new[i - Len(imps)]
      <3>1. imps \o new \in Seq(Import)
        BY <1>1, ConcatProperties
      <3>2. Len(imps \o new) = Len(imps) + Len(new)
        BY <1>1, ConcatProperties
      <3>3. \A i \in 1 .. Len(imps) + Len(new) :
               (imps \o new)[i] = IF i <= Len(imps) THEN imps[i]
                                  ELSE new[i - Len(imps)]
        BY <1>1, ConcatProperties
      <3> QED BY <3>1, <3>2, <3>3
    <2>2. DOMAIN (imps \o new) = 1 .. Len(imps \o new)
      BY <2>1, LenProperties
    <2> QED BY <1>1, <2>1, <2>2, LenProperties
  <1>4. ASSUME NEW i \in 1 .. Len(imps) + Len(new), i \notin 1 .. Len(imps)
        PROVE  (imps \o new)[i].kind = "unknown"
    <2>1. i - Len(imps) \in 1 .. Len(new) /\ ~(i <= Len(imps))
      BY <1>3, <1>4
    <2> QED BY <1>1, <1>3, <2>1
  <1>5. \A i \in 1 .. Len(imps) : i \in 1 .. Len(imps) + Len(new)
                                  /\ (imps \o new)[i] = imps[i]
    BY <1>3
  <1> QED BY <1>2, <1>3, <1>4, <1>5

\* The imports imps are those of rec, and maybe some that are not settled.
Continues(rec, imps) ==
  /\ \A i \in DOMAIN rec.imports : i \in DOMAIN imps /\ imps[i] = rec.imports[i]
  /\ \A i \in DOMAIN imps :
       i \notin DOMAIN rec.imports => imps[i].kind = "unknown"

LEMMA ContinuesTruthful ==
  ASSUME NEW rec, NEW imps, Continues(rec, imps),
         \A i \in DOMAIN rec.imports : Truthful(rec.imports[i])
  PROVE  \A i \in DOMAIN imps : Truthful(imps[i])
  BY DEF Continues, Truthful, Classes

\* Only the imports can have made the module n SMIv2.
ByImports(n, rec) ==
  rec.language = "smiv2" => n = SNMPv2_SMI \/ FromSMI(rec) # {}

\* The record rec with the imports imps, and at the end of an import clause.
WithImports(rec, imps) == [rec EXCEPT !.imports = imps]
Finished(rec, imps, asked, m) ==
  LET f == FinishImport(imps, asked, m, rec.language)
  IN  [rec EXCEPT !.imports = f.imports, !.language = f.language]

\* The end of an import clause.
LEMMA FinishKept ==
  ASSUME NEW n \in Name, NEW rec \in Module, NEW imps \in Seq(Import),
         NEW asked, NEW m \in Name \cup {NULL},
         m # NULL => Listed(m),
         InPlace /\ m = SNMPv2_SMI => asked = SNMPv2_SMI,
         Known(n, rec), Continues(rec, imps), ByImports(n, rec)
  PROVE  /\ Kept(n, rec, Finished(rec, imps, asked, m))
         /\ Pending(Finished(rec, imps, asked, m)) = {}
         /\ Finished(rec, imps, asked, m).complete = rec.complete
         /\ ByImports(n, Finished(rec, imps, asked, m))
  <1> DEFINE f   == FinishImport(imps, asked, m, rec.language)
             new == Finished(rec, imps, asked, m)
  <1> DEFINE set  == Settle(imps, m)
             cond == /\ m # NULL /\ asked = SNMPv2_SMI /\ rec.language # "sppi"
                     /\ \E i \in DOMAIN set : /\ set[i].from = asked
                                              /\ set[i].kind \in {"macro", "type"}
  <1>1. /\ f.imports = set
        /\ f.language = IF cond THEN "smiv2" ELSE rec.language
    BY DEF FinishImport
  <1>2. /\ new.imports = set /\ new.defs = rec.defs /\ new.fwd = rec.fwd
        /\ new.complete = rec.complete
        /\ new.language = IF cond THEN "smiv2" ELSE rec.language
    <2>1. new = [rec EXCEPT !.imports = f.imports, !.language = f.language]
      BY DEF Finished
    <2> HIDE DEF set, cond, f, new
    <2> QED BY <1>1, <2>1 DEF Module
  <1>3. DOMAIN set = DOMAIN imps
    BY DEF Settle
  <1>4. \A i \in DOMAIN imps :
          /\ set[i].inc = imps[i].inc
          /\ imps[i].kind # "unknown" => set[i] = imps[i]
          /\ imps[i].kind = "unknown" => set[i].from = m
          /\ set[i].kind # "unknown"
    BY SettleFacts
  <1>5. \A i \in DOMAIN set : Truthful(set[i])
    <2>1. \A i \in DOMAIN imps : Truthful(imps[i])
      BY ContinuesTruthful DEF Known
    <2> QED BY <2>1, SettleTruthful
  <1>6. cond => FromSMI(new) # {}
    <2> HIDE DEF new
    <2> QED BY <1>2 DEF FromSMI
  <1>7. cond => rec.language # "sppi"
    OBVIOUS
  <1>8. ~cond => \/ m = NULL \/ asked # SNMPv2_SMI \/ rec.language = "sppi"
                 \/ \A i \in DOMAIN set : set[i].from = SNMPv2_SMI
                                            => set[i].kind \notin {"macro", "type"}
    OBVIOUS
  <1> HIDE DEF set, cond, f, new
  <1>9. Grows(rec, new)
    BY <1>2, <1>3, <1>4 DEF Grows, Continues
  <1>10. Pending(new) = {}
    BY <1>2, <1>3, <1>4 DEF Pending
  <1>11. FromSMI(rec) \subseteq FromSMI(new)
    BY <1>2, <1>9 DEF FromSMI, Grows
  <1>12. new.language = "smiv2" => n = SNMPv2_SMI \/ FromSMI(new) # {}
    BY <1>2, <1>6, <1>11 DEF ByImports
  <1>13. ASSUME NEW i \in FromSMI(new) \cap Imported(new)
         PROVE  \/ i \in FromSMI(rec) \cap Imported(rec)
                \/ m = SNMPv2_SMI
    <2>1. i \in DOMAIN imps
      BY <1>2, <1>3 DEF FromSMI
    <2>2. CASE imps[i].kind = "unknown"
      BY <1>2, <1>4, <2>1, <2>2 DEF FromSMI
    <2>3. CASE imps[i].kind # "unknown"
      BY <1>2, <1>4, <2>1, <2>3 DEF FromSMI, Imported, Continues
    <2> QED BY <2>2, <2>3
  <1>14. ASSUME new.language # "sppi", InPlace,
                FromSMI(new) \cap Imported(new) # {}
         PROVE  new.language = "smiv2"
    <2>1. PICK i \in FromSMI(new) \cap Imported(new) : TRUE
      BY <1>14
    <2>2. CASE i \in FromSMI(rec) \cap Imported(rec)
      BY <1>2, <1>14, <2>2 DEF Known, LanguageOf
    <2>3. CASE m = SNMPv2_SMI
      <3>1. asked = SNMPv2_SMI /\ m # NULL
        BY <1>14, <2>3, NameAssumption
      <3>2. i \in DOMAIN set /\ set[i].from = SNMPv2_SMI
            /\ set[i].kind \in {"macro", "type"}
        BY <1>2, <2>1 DEF FromSMI
      <3> QED BY <1>2, <1>8, <1>14, <3>1, <3>2
    <2> QED BY <1>13, <2>2, <2>3
  <1>15. n = SNMPv2_SMI /\ new.language # "sppi" => new.language = "smiv2"
    BY <1>2 DEF Known, LanguageOf
  <1>16. LanguageOf(n, new)
    BY <1>12, <1>14, <1>15 DEF LanguageOf
  <1>17. Kept(n, rec, new)
    BY <1>2, <1>5, <1>9, <1>16 DEF Kept
  <1> QED BY <1>2, <1>10, <1>12, <1>17 DEF ByImports, new

\* A reference leaves an import behind that its clause has to settle, or a
\* forward reference.
LEMMA ReferredKept ==
  ASSUME NEW n \in Name, NEW rec \in Module, NEW s \in Symbol, NEW scope,
         Known(n, rec), NEW new, new = Referred(rec, s, scope)
  PROVE  /\ Kept(n, rec, new) /\ Pending(new) \subseteq Pending(rec)
         /\ new.complete = rec.complete /\ new.language = rec.language
         /\ Imported(new) = Imported(rec) /\ FromSMI(new) = FromSMI(rec)
  <1> DEFINE from == IF scope["compliance"] # NULL THEN scope["compliance"]
                     ELSE scope["capabilities"]
             imp  == [sym |-> s, from |-> from, kind |-> "unknown",
                      inc |-> TRUE]
             longer == [rec EXCEPT !.imports = Append(@, imp)]
             fwd  == [rec EXCEPT !.fwd = @ \cup {s}]
  <1>1. new = rec \/ new = longer \/ new = fwd
    BY DEF Referred
  <1>2. Kept(n, rec, rec)
    BY DEF Kept, Known, Grows
  <1>3. CASE new = rec
    BY <1>2, <1>3
  <1>4. CASE new = fwd
    <2>1. /\ fwd.imports = rec.imports /\ fwd.complete = rec.complete
          /\ fwd.language = rec.language /\ fwd.defs = rec.defs
          /\ fwd.fwd = rec.fwd \cup {s}
      BY DEF Module
    <2> HIDE DEF fwd
    <2> QED BY <1>2, <1>4, <2>1
            DEF Kept, Grows, LanguageOf, Imported, FromSMI, Pending
  <1>5. CASE new = longer
    <2> DEFINE imps == Append(rec.imports, imp)
    <2>1. /\ longer.imports = imps /\ longer.complete = rec.complete
          /\ longer.language = rec.language /\ longer.defs = rec.defs
          /\ longer.fwd = rec.fwd
      BY DEF Module
    <2>2. /\ DOMAIN rec.imports = 1 .. Len(rec.imports)
          /\ DOMAIN imps = 1 .. Len(rec.imports) + 1
          /\ Len(rec.imports) \in Nat
          /\ \A i \in 1 .. Len(rec.imports) : imps[i] = rec.imports[i]
          /\ imps[Len(rec.imports) + 1] = imp
      BY LenProperties DEF Module
    <2>3. imp.kind = "unknown" /\ imp.inc
      OBVIOUS
    <2> HIDE DEF imp, imps, longer
    <2>4. \A i \in DOMAIN imps : \/ i \in DOMAIN rec.imports
                                    /\ imps[i] = rec.imports[i]
                                 \/ imps[i].kind = "unknown" /\ imps[i].inc
      BY <2>2, <2>3
    <2>5. \A i \in DOMAIN rec.imports : i \in DOMAIN imps
                                        /\ imps[i] = rec.imports[i]
      BY <2>2
    <2>6. Imported(longer) = Imported(rec) /\ FromSMI(longer) = FromSMI(rec)
          /\ Pending(longer) = Pending(rec)
      BY <2>1, <2>4, <2>5 DEF Imported, FromSMI, Pending
    <2>7. Grows(rec, longer)
      BY <2>1, <2>5 DEF Grows
    <2>8. \A i \in DOMAIN imps : Truthful(imps[i])
      BY <2>4 DEF Known, Truthful, Classes
    <2> QED BY <1>5, <2>1, <2>6, <2>7, <2>8 DEF Kept, Known, LanguageOf
  <1> QED BY <1>1, <1>3, <1>4, <1>5

\* A definition; a textual convention may decide the language.
LEMMA DeclaredKept ==
  ASSUME NEW n \in Name, NEW rec \in Module, NEW ref \in Module,
         NEW op, NEW s \in Symbol,
         Kept(n, rec, ref), ref.language = "unknown" => Imported(ref) = {},
         NEW new, new = Declared(ref, op, s)
  PROVE  /\ Kept(n, rec, new) /\ Pending(new) = Pending(ref)
         /\ new.complete = ref.complete
         /\ new.language = "unknown" => Imported(new) = {}
  <1>1. /\ new.imports = ref.imports /\ new.complete = ref.complete
        /\ new.defs = ref.defs \cup {s} /\ new.fwd = ref.fwd \ {s}
        /\ new.language = IF op = "convention" /\ ref.language = "unknown"
                          THEN "smiv2" ELSE ref.language
    BY DEF Declared, Module
  <1>2. /\ Imported(new) = Imported(ref) /\ FromSMI(new) = FromSMI(ref)
        /\ Pending(new) = Pending(ref)
    BY <1>1 DEF Imported, FromSMI, Pending
  <1>3. LanguageOf(n, new)
    BY <1>1, <1>2 DEF Kept, LanguageOf
  <1>4. Grows(rec, new)
    BY <1>1 DEF Kept, Grows
  <1> QED BY <1>1, <1>2, <1>3, <1>4 DEF Kept

\* The end of a clause settles what the clause implied.
LEMMA SettledKept ==
  ASSUME NEW n \in Name, NEW rec \in Module, NEW m \in Name, Listed(m),
         Known(n, rec), Pending(rec) = {},
         NEW new, new = [rec EXCEPT !.imports = Settle(rec.imports, m)]
  PROVE  /\ Kept(n, rec, new) /\ Pending(new) = {}
         /\ new.complete = rec.complete /\ new.language = rec.language
         /\ Imported(new) = Imported(rec)
  <1> DEFINE set == Settle(rec.imports, m)
  <1>1. /\ new.imports = set /\ new.defs = rec.defs /\ new.fwd = rec.fwd
        /\ new.complete = rec.complete /\ new.language = rec.language
    BY DEF Module
  <1>2. rec.imports \in Seq(Import)
    BY DEF Module
  <1>3. \A i \in DOMAIN set : Truthful(set[i])
    BY <1>2, SettleTruthful DEF Known
  <1>4. DOMAIN set = DOMAIN rec.imports
    BY DEF Settle
  <1>5. \A i \in DOMAIN rec.imports :
          /\ set[i].inc = rec.imports[i].inc
          /\ rec.imports[i].kind # "unknown" => set[i] = rec.imports[i]
          /\ set[i].kind # "unknown"
    BY <1>2, SettleFacts
  <1> HIDE DEF set
  <1>6. Imported(new) = Imported(rec) /\ Pending(new) = {}
    BY <1>1, <1>4, <1>5 DEF Imported, Pending
  <1>7. \A i \in Imported(rec) : set[i] = rec.imports[i]
    BY <1>4, <1>5 DEF Imported, Pending
  <1>8. FromSMI(new) \cap Imported(new) = FromSMI(rec) \cap Imported(rec)
    BY <1>1, <1>4, <1>6, <1>7 DEF FromSMI, Imported
  <1>9. FromSMI(rec) \subseteq FromSMI(new)
    BY <1>1, <1>4, <1>5 DEF FromSMI
  <1>10. LanguageOf(n, new)
    BY <1>1, <1>6, <1>8, <1>9 DEF Known, LanguageOf
  <1>11. Grows(rec, new)
    BY <1>1, <1>4, <1>5 DEF Grows
  <1> QED BY <1>1, <1>3, <1>6, <1>10, <1>11 DEF Kept

\* The start of an import clause whose module has to be loaded.
LEMMA AskedKept ==
  ASSUME NEW n \in Name, NEW rec \in Module, NEW imps \in Seq(Import),
         Known(n, rec), Continues(rec, imps),
         ByImports(n, rec)
  PROVE  /\ Kept(n, rec, WithImports(rec, imps))
         /\ WithImports(rec, imps).complete = rec.complete
         /\ ByImports(n, WithImports(rec, imps))
  <1> DEFINE new == WithImports(rec, imps)
  <1>1. /\ new.imports = imps /\ new.defs = rec.defs /\ new.fwd = rec.fwd
        /\ new.complete = rec.complete /\ new.language = rec.language
    <2>1. new = [rec EXCEPT !.imports = imps]
      BY DEF WithImports
    <2> HIDE DEF new
    <2> QED BY <2>1 DEF Module
  <1> HIDE DEF new
  <1>2. \A i \in DOMAIN imps : Truthful(imps[i])
    BY ContinuesTruthful DEF Known
  <1>3. FromSMI(new) = FromSMI(rec)
    BY <1>1 DEF FromSMI, Continues
  <1>4. FromSMI(new) \cap Imported(new) = FromSMI(rec) \cap Imported(rec)
    BY <1>1, <1>3 DEF FromSMI, Imported, Continues
  <1>5. LanguageOf(n, new)
    BY <1>1, <1>3, <1>4 DEF Known, LanguageOf, ByImports
  <1>6. Grows(rec, new)
    BY <1>1 DEF Grows, Continues
  <1>7. Kept(n, rec, new)
    BY <1>1, <1>2, <1>5, <1>6 DEF Kept
  <1> QED BY <1>1, <1>3, <1>7 DEF ByImports, new

\* The end of the imports and that of the module settle the language.
LEMMA SpokenKept ==
  ASSUME NEW n \in Name, NEW rec \in Module, Known(n, rec),
         NEW new, new.imports = rec.imports,
         new.defs = rec.defs, new.fwd = rec.fwd,
         \/ new.language = rec.language
         \/ new.language = "smiv1" /\ rec.language \notin {"smiv2", "sppi"}
  PROVE  Kept(n, rec, new) /\ Pending(new) = Pending(rec)
  <1>1. /\ Imported(new) = Imported(rec) /\ FromSMI(new) = FromSMI(rec)
        /\ Pending(new) = Pending(rec)
    BY DEF Imported, FromSMI, Pending
  <1>2. LanguageOf(n, new)
    BY <1>1 DEF Known, LanguageOf
  <1> QED BY <1>1, <1>2 DEF Known, Kept, Grows

-----------------------------------------------------------------------------
(* The list of modules and their records.                                  *)

\* What was found stays found while the list and the modules grow.
LEMMA TruthStays ==
  ASSUME module' \in [Name -> Module],
         \A x \in Name : Listed(x) => Listed(x)',
         \A x \in Name : Visible(x) \subseteq Visible(x)',
         \A n \in Name : \A i \in DOMAIN module'[n].imports :
           Truthful(module'[n].imports[i])
  PROVE  ImportTruth'
  <1>1. ASSUME NEW imp \in Import, Truthful(imp)
        PROVE  Truthful(imp)'
    <2> SUFFICES ASSUME imp.kind \in Classes
                 PROVE  Truthful(imp)'
      BY DEF Truthful
    <2>1. /\ imp.from # NULL /\ Listed(imp.from)
          /\ imp.sym \in Visible(imp.from) /\ imp.kind = Class[imp.sym]
      BY <1>1 DEF Truthful
    <2>2. imp.from \in Name
      BY <2>1 DEF Import
    <2>3. Listed(imp.from)' /\ imp.sym \in Visible(imp.from)'
      BY <2>1, <2>2
    <2> QED BY <2>1, <2>3 DEF Truthful
  <1>2. \A n \in Name : \A i \in DOMAIN module'[n].imports :
          module'[n].imports[i] \in Import
    <2> SUFFICES ASSUME NEW n \in Name
                 PROVE  \A i \in DOMAIN module'[n].imports :
                          module'[n].imports[i] \in Import
      OBVIOUS
    <2>1. module'[n].imports \in Seq(Import)
      BY DEF Module
    <2> QED BY <2>1, LenProperties, ElementOfSeq
  <1> QED BY <1>1, <1>2 DEF ImportTruth, Truthful

RecordsOK == Fresh /\ ImportTruth /\ LanguageRule
StackOK   == /\ Unfinished /\ Resolved /\ Awaited /\ Undecided
             /\ Begun /\ SmiInPlace /\ ImportsSettled

LEMMA RInvParts == RInv <=> RecordsOK /\ StackOK
  BY DEF RInv, RecordsOK, StackOK, RecordsTrue

\* A parser that is inside of module m leaves the record new.
LEMMA RecordStep ==
  ASSUME IInv, RInv, NEW m \in Name, Listed(m), ~module[m].complete,
         NEW new \in Module, Kept(m, module[m], new),
         module' = [module EXCEPT ![m] = new], UNCHANGED <<disk, moduleList>>
  PROVE  /\ \A n \in Name : module'[n] = IF n = m THEN new ELSE module[n]
         /\ RecordsOK' /\ Growth
  <1>1. /\ \A n \in Name : module'[n] = IF n = m THEN new ELSE module[n]
        /\ module' \in [Name -> Module]
    BY DEF IInv, TypeOK
  <1>2. \A x : Listed(x) <=> Listed(x)'
    BY DEF Listed
  <1>3. \A x \in Name : Visible(x) \subseteq Visible(x)'
    BY <1>1 DEF Visible, Kept, Grows
  <1>4. \A n \in Name : \A i \in DOMAIN module'[n].imports :
          Truthful(module'[n].imports[i])
    <2>1. \A n \in Name : \A i \in DOMAIN module[n].imports :
            Truthful(module[n].imports[i])
      BY DEF RInv, RecordsTrue, ImportTruth, Truthful
    <2> QED BY <1>1, <2>1 DEF Kept
  <1>5. ImportTruth'
    BY <1>1, <1>2, <1>3, <1>4, TruthStays
  <1>6. Fresh'
    BY <1>1, <1>2 DEF RInv, Fresh
  <1>7. LanguageRule'
    <2>1. \A n \in Name : Listed(n) => LanguageOf(n, module'[n])
      BY <1>1 DEF RInv, RecordsTrue, LanguageRule, Kept
    <2>2. \A n, rec : LanguageOf(n, rec) <=> LanguageOf(n, rec)'
      BY DEF LanguageOf, InPlace, IsHeader
    <2> QED BY <1>2, <2>1, <2>2 DEF LanguageRule
  <1>8. Growth
    <2>1. \A i \in DOMAIN moduleList : /\ i \in DOMAIN moduleList'
                                       /\ moduleList'[i] = moduleList[i]
      OBVIOUS
    <2>2. \A n \in Name : Grows(module[n], module'[n])
      BY <1>1 DEF Kept, Grows
    <2> QED BY <1>1, <1>3, <2>1, <2>2 DEF Growth, Grows
  <1> QED BY <1>1, <1>5, <1>6, <1>7, <1>8 DEF RecordsOK

LEMMA SameRecords ==
  ASSUME RInv, UNCHANGED <<disk, moduleList, module>>
  PROVE  RecordsOK' /\ Growth
  BY DEF RInv, RecordsTrue, RecordsOK, Growth, Fresh, ImportTruth,
         LanguageRule, LanguageOf, InPlace, IsHeader, Listed, Visible

-----------------------------------------------------------------------------
(* What the stacked parsers know of the modules.                           *)

LEMMA AdvancedPos ==
  ASSUME TypeOK, FilesExist, Begun
  PROVE  /\ \A i \in DOMAIN lex :
              /\ Advanced[i].pos \in Nat /\ Advanced[i].pos >= 1
              /\ i < Len(lex) => Advanced[i].pos > 1
         /\ lex # <<>> /\ Advanced[Len(lex)].pos = 1 => lex[Len(lex)].pos = 1
         /\ tok # EOF => lex # <<>> /\ Advanced[Len(lex)].pos > 1
  <1>1. lex \in Buffers /\ DOMAIN lex = 1 .. Len(lex) /\ Len(lex) \in Nat
    BY LenProperties DEF TypeOK, Buffers
  <1>2. \A i \in DOMAIN lex : /\ lex[i].pos \in Nat /\ lex[i].pos >= 1
                              /\ i < Len(lex) => lex[i].pos > 1
    <2>1. \A i \in DOMAIN lex : lex[i] \in [file : Name, pos : Nat]
      BY <1>1, ElementOfSeq DEF Buffers
    <2> QED BY <2>1 DEF Begun
  <1>3. CASE tok = EOF
    BY <1>2, <1>3 DEF Advanced
  <1>4. CASE tok # EOF
    <2>1. Len(lex) \in 1 .. Len(lex) /\ lex # <<>>
      BY <1>1, <1>4, EmptySeq DEF tok, Buffers
    <2>2. lex[Len(lex)] \in [file : Name, pos : Nat]
      BY <1>1, <2>1, ElementOfSeq DEF Buffers
    <2> DEFINE e == [lex[Len(lex)] EXCEPT !.pos = @ + 1]
    <2>3. e.pos = lex[Len(lex)].pos + 1
      BY <2>2
    <2>4. Advanced = [lex EXCEPT ![Len(lex)] = e]
      BY <1>4 DEF Advanced
    <2> HIDE DEF e
    <2>5. \A i \in DOMAIN lex :
            Advanced[i] = IF i = Len(lex) THEN e ELSE lex[i]
      BY <2>4
    <2>6. e.pos \in Nat /\ e.pos > 1
      BY <1>1, <1>2, <2>1, <2>3
    <2> QED BY <1>1, <1>2, <1>4, <2>1, <2>5, <2>6
  <1> QED BY <1>3, <1>4

\* Reading on: the first token goes to the parser of its buffer.
LEMMA BegunStays ==
  ASSUME TypeOK, FilesExist, Begun, lex' = Advanced,
         parser' # <<>>, top'.file = top.file
  PROVE  Begun'
  <1>1. /\ Len(lex') = Len(lex) /\ DOMAIN lex' = DOMAIN lex
        /\ \A i \in DOMAIN lex : lex'[i].file = lex[i].file
        /\ Len(lex) \in Nat /\ DOMAIN lex = 1 .. Len(lex)
        /\ lex' # <<>> <=> lex # <<>>
    <2>1. /\ lex \in Buffers /\ lex' \in Buffers /\ Len(lex') = Len(lex)
          /\ DOMAIN lex' = DOMAIN lex
          /\ \A i \in DOMAIN lex : lex'[i].file = lex[i].file
      BY AdvancedFacts DEF TypeOK, Buffers
    <2> QED BY <2>1, LenProperties, EmptySeq DEF Buffers
  <1>2. lex # <<>> => Len(lex) \in DOMAIN lex
    BY <1>1, EmptySeq DEF TypeOK
  <1>3. \A i \in DOMAIN lex' : lex'[i].pos >= 1
                               /\ (i < Len(lex') => lex'[i].pos > 1)
    BY <1>1, AdvancedPos
  <1>4. lex' # <<>> /\ lex'[Len(lex')].pos = 1
          => parser' # <<>> /\ lex'[Len(lex')].file = top'.file
    BY <1>1, <1>2, AdvancedPos DEF Begun
  <1> QED BY <1>3, <1>4 DEF Begun

\* A parser inside of module m lets nobody down.
Fits(p, rec) ==
  p.st \in Inside => ~rec.complete /\ Deciding(p, rec)

Holds(p) ==
  /\ p.mod # NULL => Listed(p.mod)
  /\ \A c \in Clauses : p.scope[c] # NULL => Listed(p.scope[c])

\* What SmiInPlace says of one parser.
Placed(p) == InPlace => (p.mod = SNMPv2_SMI => p.file = SNMPv2_SMI)

\* The parts of the invariant, parser by parser.
LEMMA ParserByParser ==
  /\ Unfinished /\ Undecided
       <=> \A i \in 1 .. Depth : Fits(parser[i], module[parser[i].mod])
  /\ Resolved <=> \A i \in 1 .. Depth : Holds(parser[i])
  /\ SmiInPlace <=> \A i \in 1 .. Depth : Placed(parser[i])
  /\ ImportsSettled <=>
       \A n \in Name : Pending(module[n]) # {} =>
         \E k \in 1 .. Depth - 1 : parser[k].mod = n /\ parser[k].wait = "import"
  <1>1. Unfinished /\ Undecided
          <=> \A i \in 1 .. Depth : Fits(parser[i], module[parser[i].mod])
    BY DEF Unfinished, Undecided, Fits
  <1>2. Resolved <=> \A i \in 1 .. Depth : Holds(parser[i])
    BY DEF Resolved, Holds
  <1>3. SmiInPlace <=> \A i \in 1 .. Depth : Placed(parser[i])
    BY DEF SmiInPlace, Placed
  <1>4. ImportsSettled <=>
       \A n \in Name : Pending(module[n]) # {} =>
         \E k \in 1 .. Depth - 1 : parser[k].mod = n /\ parser[k].wait = "import"
    BY DEF ImportsSettled, Pending
  <1> QED BY <1>1, <1>2, <1>3, <1>4

\* The running parser has nothing pending: nobody waits for it.
LEMMA TopSettled ==
  ASSUME IInv, RInv, parser # <<>>, top.st \in Inside
  PROVE  Pending(module[top.mod]) = {}
  <1>1. Depth \in Nat \ {0}
    BY StackFacts DEF IInv, TypeOK
  <1>2. top.mod \in Name
    BY <1>1 DEF IInv, Owners, top
  <1>3. \A k \in 1 .. Depth - 1 : parser[k].mod # top.mod
    <2> SUFFICES ASSUME NEW k \in 1 .. Depth - 1
                 PROVE  parser[k].mod # top.mod
      OBVIOUS
    <2>1. k \in 1 .. Depth /\ Depth \in 1 .. Depth /\ k < Depth /\ k # Depth
      BY <1>1
    <2>2. parser[k].st \in Inside
      BY <2>1 DEF IInv, Owners
    <2> QED BY <2>1, <2>2 DEF IInv, Owners, top
  <1> QED BY <1>2, <1>3, ParserByParser DEF RInv, RecordsTrue

\* A step of the running parser q, inside of its module or out of it.
LEMMA TopParsers ==
  ASSUME IInv, RInv, BInv, parser # <<>>, NEW q \in Parser,
         q.file = top.file, q.mod = top.mod, q.over = top.over,
         q.st \in Inside => top.st \in Inside,
         Holds(q), Fits(q, module'[top.mod]),
         \A n \in Name : n # top.mod \/ top.st \notin Inside
                           => module'[n] = module[n],
         \A n \in Name : Pending(module'[n]) \subseteq Pending(module[n]),
         SetTop(q), lex' = Advanced, UNCHANGED <<disk, moduleList, crashed>>
  PROVE  StackOK' /\ BInv'
  <1>1. /\ parser \in Seq(Parser) /\ Depth \in Nat \ {0}
        /\ DOMAIN parser = 1 .. Depth
    BY StackFacts DEF IInv, TypeOK
  <1>2. /\ parser' \in Seq(Parser) /\ Depth' = Depth
        /\ \A i \in 1 .. Depth :
             parser'[i] = IF i = Depth THEN q ELSE parser[i]
    BY <1>1, ExceptSeq DEF Depth, SetTop
  <1>3. parser' # <<>> /\ top' = q /\ top'.file = top.file
    <2>1. parser' = <<>> => Depth' = 0
      BY DEF Depth
    <2>2. top' = parser'[Depth'] /\ Depth \in 1 .. Depth
      BY <1>1 DEF top
    <2> QED BY <1>1, <1>2, <2>1, <2>2
  <1>4. \A i \in 1 .. Depth : Holds(parser'[i]) /\ Placed(parser'[i])
    <2>1. Placed(q)
      <3>1. Depth \in 1 .. Depth
        BY <1>1
      <3>2. Placed(top)
        BY <3>1, ParserByParser DEF RInv, top
      <3> QED BY <3>2 DEF Placed
    <2> QED BY <1>2, <2>1, ParserByParser DEF RInv
  <1>5. \A i \in 1 .. Depth : Fits(parser'[i], module'[parser'[i].mod])
    <2> SUFFICES ASSUME NEW i \in 1 .. Depth, i # Depth
                 PROVE  Fits(parser[i], module'[parser[i].mod])
      BY <1>2
    <2>1. i < Depth
      BY <1>1
    <2>2. parser[i].st \in Inside /\ parser[i].mod \in Name
      BY <2>1 DEF IInv, Owners
    <2>3. top.st \in Inside => parser[i].mod # top.mod
      BY <1>1, <2>2 DEF IInv, Owners, top
    <2>4. module'[parser[i].mod] = module[parser[i].mod]
      BY <2>2, <2>3
    <2> QED BY <2>4, ParserByParser DEF RInv
  <1>6. Unfinished' /\ Undecided'
    <2>1. (Unfinished /\ Undecided
             <=> \A i \in 1 .. Depth : Fits(parser[i], module[parser[i].mod]))'
      BY ParserByParser, PTL
    <2> QED BY <1>2, <1>5, <2>1 DEF Fits, Deciding, Imported, FromSMI
  <1>7. Resolved' /\ SmiInPlace'
    <2>1. (\A x : Listed(x) <=> Listed(x)') /\ (InPlace <=> InPlace')
      BY DEF Listed, InPlace, IsHeader
    <2> QED BY <1>2, <1>4, <2>1 DEF Resolved, SmiInPlace, Holds, Placed
  <1>8. Awaited'
    <2>1. \A i \in 1 .. Depth - 1 : /\ parser'[i] = parser[i]
                                    /\ parser'[i + 1].file = parser[i + 1].file
      BY <1>1, <1>2 DEF top
    <2> QED BY <1>2, <2>1 DEF RInv, Awaited
  <1>9. ImportsSettled'
    <2>1. \A k \in 1 .. Depth - 1 : parser'[k] = parser[k]
      BY <1>1, <1>2
    <2>2. \A n \in Name : Pending(module'[n]) # {} =>
            \E k \in 1 .. Depth - 1 : parser'[k].mod = n
                                      /\ parser'[k].wait = "import"
      <3>1. \A n \in Name : Pending(module[n]) # {} =>
              \E k \in 1 .. Depth - 1 : parser[k].mod = n
                                        /\ parser[k].wait = "import"
        BY ParserByParser DEF RInv, RecordsTrue
      <3>2. \A n \in Name : Pending(module'[n]) # {} => Pending(module[n]) # {}
        OBVIOUS
      <3>3. ASSUME NEW n \in Name, Pending(module'[n]) # {}
            PROVE  \E k \in 1 .. Depth - 1 : parser'[k].mod = n
                                           /\ parser'[k].wait = "import"
        <4>1. PICK k \in 1 .. Depth - 1 : parser[k].mod = n
                                         /\ parser[k].wait = "import"
          BY <3>1, <3>2, <3>3
        <4>2. parser'[k] = parser[k]
          BY <2>1
        <4> QED BY <4>1, <4>2
      <3> QED BY <3>3, Zenon
    <2> QED BY <1>2, <2>2 DEF ImportsSettled, Pending
  <1>10. Begun'
    BY <1>3, BegunStays DEF IInv, RInv
  <1>11. BInv'
    <2>1. /\ Len(lex') = Len(lex)
          /\ \A i \in DOMAIN lex : lex'[i].file = lex[i].file
      BY AdvancedFacts DEF IInv
    <2>2. Roomy' = Roomy
      BY DEF Roomy
    <2>3. DOMAIN lex = 1 .. Len(lex)
      BY LenProperties DEF IInv, TypeOK
    <2> QED BY <1>1, <1>2, <2>1, <2>2, <2>3 DEF BInv, top
  <1> QED BY <1>6, <1>7, <1>8, <1>9, <1>10, <1>11 DEF StackOK

LEMMA NewParserFacts ==
  ASSUME NEW n \in Name, NEW over \in BOOLEAN
  PROVE  /\ NewParser(n, over) \in Parser
         /\ NewParser(n, over).st \notin Inside
         /\ NewParser(n, over).file = n /\ NewParser(n, over).over = over
         /\ Holds(NewParser(n, over)) /\ Placed(NewParser(n, over))
         /\ \A rec : Fits(NewParser(n, over), rec)
  BY NameAssumption
     DEF NewParser, Parser, Inside, Clauses, Holds, Placed, Fits

\* The buffers after loadModule() was called for file n.
LEMMA PushBuffers ==
  ASSUME NEW bufs \in Buffers, NEW n \in Name, NEW stack, Push(stack, bufs, n)
  PROVE  LET over == Len(bufs) >= MAX_LEX_DEPTH
         IN  /\ over \in BOOLEAN
             /\ parser' = Append(stack, NewParser(n, over))
             /\ over => lex' = bufs
             /\ ~over => /\ lex' # <<>>
                         /\ Len(lex') = Len(bufs) + 1
                         /\ \A i \in 1 .. Len(bufs) : lex'[i] = bufs[i]
                         /\ lex'[Len(bufs) + 1].file = n
                         /\ lex'[Len(bufs) + 1].pos = 1
             /\ lex' \in Buffers
  <1> DEFINE b == [file |-> n, pos |-> 1]
             over == Len(bufs) >= MAX_LEX_DEPTH
  <1>1. over \in BOOLEAN
    BY LenProperties, DepthAssumption DEF Buffers
  <1>2. /\ parser' = Append(stack, NewParser(n, over))
        /\ lex' = IF over THEN bufs ELSE Append(bufs, b)
    BY DEF Push
  <1>3. b \in [file : Name, pos : Nat] /\ b.file = n /\ b.pos = 1
    OBVIOUS
  <1> HIDE DEF b, over
  <1>4. /\ Append(bufs, b) \in Buffers
        /\ Len(Append(bufs, b)) = Len(bufs) + 1
        /\ \A i \in 1 .. Len(bufs) : Append(bufs, b)[i] = bufs[i]
        /\ Append(bufs, b)[Len(bufs) + 1] = b
    BY <1>3, AppendProperties DEF Buffers
  <1>5. Append(bufs, b) # <<>>
    <2>1. Len(bufs) \in Nat
      BY LenProperties DEF Buffers
    <2> QED BY <1>4, <2>1, EmptySeq DEF Buffers
  <1>6. /\ over => lex' = bufs
        /\ ~over => lex' = Append(bufs, b)
    BY <1>2
  <1>7. /\ ~over => /\ lex' # <<>>
                    /\ Len(lex') = Len(bufs) + 1
                    /\ \A i \in 1 .. Len(bufs) : lex'[i] = bufs[i]
                    /\ lex'[Len(bufs) + 1].file = n
                    /\ lex'[Len(bufs) + 1].pos = 1
        /\ lex' \in Buffers
    BY <1>1, <1>3, <1>4, <1>5, <1>6
  <1> QED BY <1>1, <1>2, <1>6, <1>7 DEF over

\* The running parser, now q, calls loadModule() for file n.
LEMMA NestedParsers ==
  ASSUME IInv, RInv, BInv, parser # <<>>, top.st \in Inside, tok # EOF,
         NEW q \in Parser, q.st \in Inside,
         q.file = top.file, q.mod = top.mod, q.over = top.over,
         NEW n \in Name, q.asked = n, q.wait = "import" <=> q.st = "imports",
         Holds(q), Fits(q, module'[top.mod]),
         \A m \in Name : m # top.mod => module'[m] = module[m],
         Pending(module'[top.mod]) # {} => q.wait = "import",
         Push([parser EXCEPT ![Depth] = q], Advanced, n),
         UNCHANGED <<disk, moduleList, crashed>>
  PROVE  StackOK' /\ BInv'
  <1> DEFINE stack == [parser EXCEPT ![Depth] = q]
             over  == Len(Advanced) >= MAX_LEX_DEPTH
             r     == NewParser(n, over)
  <1>1. /\ parser \in Seq(Parser) /\ Depth \in Nat \ {0}
        /\ DOMAIN parser = 1 .. Depth
    BY StackFacts DEF IInv, TypeOK
  <1>2. /\ stack \in Seq(Parser) /\ Len(stack) = Depth
        /\ \A i \in 1 .. Depth :
             stack[i] = IF i = Depth THEN q ELSE parser[i]
    BY <1>1, ExceptSeq DEF Depth
  <1>3. Advanced \in Buffers /\ Len(Advanced) = Len(lex)
        /\ \A i \in DOMAIN lex : Advanced[i].file = lex[i].file
    BY AdvancedFacts DEF IInv
  <1>4. /\ over \in BOOLEAN /\ parser' = Append(stack, r)
        /\ over => lex' = Advanced
        /\ ~over => /\ lex' # <<>>
                    /\ Len(lex') = Len(lex) + 1
                    /\ \A i \in 1 .. Len(lex) : lex'[i] = Advanced[i]
                    /\ lex'[Len(lex) + 1].file = n
                    /\ lex'[Len(lex) + 1].pos = 1
        /\ lex' \in Buffers
    <2>1. /\ over \in BOOLEAN /\ parser' = Append(stack, r)
          /\ over => lex' = Advanced
          /\ ~over => /\ lex' # <<>>
                      /\ Len(lex') = Len(Advanced) + 1
                      /\ \A i \in 1 .. Len(Advanced) : lex'[i] = Advanced[i]
                      /\ lex'[Len(Advanced) + 1].file = n
                      /\ lex'[Len(Advanced) + 1].pos = 1
          /\ lex' \in Buffers
      BY <1>3, PushBuffers, Zenon
    <2> QED BY <1>3, <2>1, Zenon
  <1>5. /\ r \in Parser /\ r.st \notin Inside /\ r.file = n /\ r.over = over
        /\ Holds(r) /\ Placed(r) /\ \A rec : Fits(r, rec)
    BY <1>4, NewParserFacts, Zenon
  <1> HIDE DEF r, stack
  <1>6. /\ parser' \in Seq(Parser) /\ Depth' = Depth + 1
        /\ \A i \in 1 .. Depth :
             parser'[i] = IF i = Depth THEN q ELSE parser[i]
        /\ parser'[Depth + 1] = r
    <2>1. /\ Append(stack, r) \in Seq(Parser)
          /\ Len(Append(stack, r)) = Len(stack) + 1
          /\ \A i \in 1 .. Len(stack) : Append(stack, r)[i] = stack[i]
          /\ Append(stack, r)[Len(stack) + 1] = r
      BY <1>2, <1>5, AppendProperties, SMTT(30)
    <2>2. Depth' = Len(Append(stack, r))
      BY <1>4 DEF Depth
    <2> QED BY <1>2, <1>4, <2>1, <2>2
  <1>7. parser' # <<>> /\ top' = r
    <2>1. parser' = <<>> => Depth' = 0
      BY DEF Depth
    <2>2. top' = parser'[Depth']
      BY DEF top
    <2> QED BY <1>1, <1>6, <2>1, <2>2
  <1>8. \A i \in 1 .. Depth + 1 : i \in 1 .. Depth - 1 \/ i = Depth \/ i = Depth + 1
    BY <1>1
  <1>9. \A i \in 1 .. Depth - 1 : parser'[i] = parser[i]
    BY <1>1, <1>6
  <1>10. parser'[Depth] = q
    BY <1>1, <1>6
  <1>11. \A i \in 1 .. Depth + 1 : Holds(parser'[i]) /\ Placed(parser'[i])
    <2>1. \A i \in 1 .. Depth : Holds(parser[i]) /\ Placed(parser[i])
      BY ParserByParser DEF RInv
    <2>2. Placed(q)
      <3>1. Depth \in 1 .. Depth
        BY <1>1
      <3>2. Placed(top)
        BY <2>1, <3>1 DEF top
      <3> QED BY <3>2 DEF Placed
    <2>3. \A i \in 1 .. Depth - 1 : i \in 1 .. Depth
      BY <1>1
    <2> QED BY <1>5, <1>6, <1>8, <1>9, <1>10, <2>1, <2>2, <2>3
  <1>12. \A i \in 1 .. Depth + 1 : Fits(parser'[i], module'[parser'[i].mod])
    <2>1. ASSUME NEW i \in 1 .. Depth - 1
          PROVE  Fits(parser[i], module'[parser[i].mod])
      <3>1. i < Depth /\ i \in 1 .. Depth /\ Depth \in 1 .. Depth /\ i # Depth
        BY <1>1
      <3>2. parser[i].st \in Inside /\ parser[i].mod \in Name
        BY <3>1 DEF IInv, Owners
      <3>3. parser[i].mod # top.mod
        BY <3>1, <3>2 DEF IInv, Owners, top
      <3>4. module'[parser[i].mod] = module[parser[i].mod]
        BY <3>2, <3>3
      <3> QED BY <3>1, <3>4, ParserByParser DEF RInv
    <2> QED BY <1>5, <1>6, <1>8, <1>9, <1>10, <2>1
  <1>13. Unfinished' /\ Undecided'
    BY <1>6, <1>12 DEF Unfinished, Undecided, Fits
  <1>14. Resolved' /\ SmiInPlace'
    <2>1. (\A x : Listed(x) <=> Listed(x)') /\ (InPlace <=> InPlace')
      BY DEF Listed, InPlace, IsHeader
    <2> QED BY <1>6, <1>11, <2>1 DEF Resolved, SmiInPlace, Holds, Placed
  <1>15. Awaited'
    <2> SUFFICES ASSUME NEW i \in 1 .. Depth, parser'[i].wait # "no"
                 PROVE  /\ parser'[i].asked = parser'[i + 1].file
                        /\ parser'[i].wait = "import"
                             <=> parser'[i].st = "imports"
      BY <1>1, <1>6 DEF Awaited
    <2>1. CASE i = Depth
      BY <1>5, <1>6, <1>10, <2>1
    <2>2. CASE i \in 1 .. Depth - 1
      <3>1. parser'[i + 1].file = parser[i + 1].file
        BY <1>1, <1>6, <2>2 DEF top
      <3> QED BY <1>9, <2>2, <3>1 DEF RInv, Awaited
    <2> QED BY <1>1, <2>1, <2>2
  <1>16. ImportsSettled'
    <2>1. ASSUME NEW m \in Name, Pending(module'[m]) # {}
          PROVE  \E k \in 1 .. Depth : parser'[k].mod = m
                                       /\ parser'[k].wait = "import"
      <3>1. CASE m = top.mod
        <4>1. Depth \in 1 .. Depth
          BY <1>1
        <4> QED BY <1>10, <2>1, <3>1, <4>1
      <3>2. CASE m # top.mod
        <4>1. \A x \in Name : Pending(module[x]) # {} =>
                \E k \in 1 .. Depth - 1 : parser[k].mod = x
                                          /\ parser[k].wait = "import"
          BY ParserByParser DEF RInv, RecordsTrue
        <4>2. PICK k \in 1 .. Depth - 1 : parser[k].mod = m
                                           /\ parser[k].wait = "import"
          BY <2>1, <3>2, <4>1
        <4>3. k \in 1 .. Depth /\ parser'[k] = parser[k]
          BY <1>1, <1>9
        <4> QED BY <4>2, <4>3
      <3> QED BY <3>1, <3>2
    <2>2. Depth' - 1 = Depth
      BY <1>1, <1>6
    <2> QED BY <2>1, <2>2 DEF ImportsSettled, Pending
  <1>17. Begun'
    <2>1. /\ Len(lex) \in Nat /\ DOMAIN lex = 1 .. Len(lex)
          /\ DOMAIN Advanced = 1 .. Len(lex)
          /\ DOMAIN lex' = 1 .. Len(lex')
      BY <1>3, <1>4, LenProperties DEF IInv, TypeOK, Buffers
    <2>2. lex # <<>> /\ \A i \in 1 .. Len(lex) : Advanced[i].pos \in Nat
                                                /\ Advanced[i].pos > 1
      <3>1. /\ \A i \in 1 .. Len(lex) :
                 /\ Advanced[i].pos \in Nat
                 /\ i < Len(lex) => Advanced[i].pos > 1
            /\ lex # <<>> /\ Advanced[Len(lex)].pos > 1
        BY <2>1, AdvancedPos DEF IInv, RInv
      <3> QED BY <2>1, <3>1
    <2>3. CASE over
      <3>1. lex' = Advanced
        BY <1>4, <2>3
      <3>2. Len(lex) \in 1 .. Len(lex)
        BY <2>1, <2>2, EmptySeq DEF IInv, TypeOK
      <3> HIDE DEF over
      <3> QED BY <1>3, <2>1, <2>2, <3>1, <3>2 DEF Begun
    <2>4. CASE ~over
      <3>1. /\ lex' # <<>> /\ Len(lex') = Len(lex) + 1
            /\ \A i \in 1 .. Len(lex) : lex'[i] = Advanced[i]
            /\ lex'[Len(lex) + 1].file = n /\ lex'[Len(lex) + 1].pos = 1
        BY <1>4, <2>4
      <3>2. \A i \in 1 .. Len(lex) + 1 : i \in 1 .. Len(lex) \/ i = Len(lex) + 1
        BY <2>1
      <3>3. \A i \in 1 .. Len(lex) + 1 :
              lex'[i].pos >= 1 /\ (i < Len(lex) + 1 => lex'[i].pos > 1)
        BY <2>1, <2>2, <3>1, <3>2
      <3>4. lex'[Len(lex')].file = top'.file /\ parser' # <<>>
        BY <1>5, <1>7, <3>1
      <3> QED BY <2>1, <3>1, <3>3, <3>4 DEF Begun
    <2> QED BY <2>3, <2>4
  <1>18. BInv'
    <2> SUFFICES ASSUME Roomy'
                 PROVE  /\ ~crashed'
                        /\ Len(lex') = Depth'
                        /\ \A i \in 1 .. Depth' :
                             /\ ~parser'[i].over
                             /\ lex'[i].file = parser'[i].file
      BY DEF BInv
    <2>1. /\ Roomy /\ ~crashed /\ Len(lex) = Depth
          /\ \A i \in 1 .. Depth : /\ ~parser[i].over
                                   /\ lex[i].file = parser[i].file
      BY DEF Roomy, BInv
    <2>2. ~over
      <3>1. Depth <= Len(moduleList) /\ Len(moduleList) \in Nat
        BY LenProperties DEF IInv, TypeOK, Covered
      <3> QED BY <1>1, <1>3, <2>1, <3>1, DepthAssumption DEF Roomy
    <2>3. DOMAIN lex = 1 .. Depth
      BY <2>1, LenProperties DEF IInv, TypeOK
    <2>4. \A i \in 1 .. Depth : lex'[i].file = lex[i].file
      BY <1>3, <1>4, <2>1, <2>2, <2>3
    <2>5. \A i \in 1 .. Depth : /\ ~parser'[i].over
                                /\ lex'[i].file = parser'[i].file
      BY <1>6, <2>1, <2>4 DEF top
    <2>6. /\ lex'[Depth + 1].file = n /\ parser'[Depth + 1].file = n
          /\ ~parser'[Depth + 1].over /\ Len(lex') = Depth + 1
      BY <1>4, <1>5, <1>6, <2>1, <2>2, Zenon
    <2>7. \A i \in 1 .. Depth + 1 : i \in 1 .. Depth \/ i = Depth + 1
      BY <1>1
    <2> HIDE DEF over
    <2>8. \A i \in 1 .. Depth + 1 : /\ ~parser'[i].over
                                    /\ lex'[i].file = parser'[i].file
      BY <2>5, <2>6, <2>7
    <2> QED BY <1>6, <2>1, <2>6, <2>8
  <1> QED BY <1>13, <1>14, <1>15, <1>16, <1>17, <1>18 DEF StackOK

\* Leaving a scanner buffer: those below have been read from.
LEMMA LeaveBuffers ==
  ASSUME IInv, RInv, Leave
  PROVE  /\ Len(lex') = Len(lex) - 1
         /\ Len(lex) \in Nat \ {0}
         /\ DOMAIN lex' = 1 .. Len(lex) - 1
         /\ \A i \in 1 .. Len(lex) - 1 : lex'[i] = lex[i] /\ lex[i].pos > 1
         /\ Begun'
  <1> DEFINE B == [file : Name, pos : Nat]
             k == Len(lex) - 1
  <1>1. /\ lex \in Seq(B) /\ DOMAIN lex = 1 .. Len(lex)
        /\ Len(lex) \in Nat \ {0}
    BY EmptySeq, LenProperties DEF Leave, IInv, TypeOK
  <1>2. lex' = SubSeq(lex, 1, k)
    BY DEF Leave
  <1>3. \A i \in 1 .. Len(lex) : lex[i] \in B
    <2> HIDE DEF B
    <2> QED BY <1>1, ElementOfSeq
  <1>4. k \in Nat /\ \A i \in 1 .. k : lex[i] \in B
    <2> HIDE DEF B
    <2> QED BY <1>1, <1>3
  <1>5. \A i \in 1 .. k : lex[i].pos \in Nat /\ lex[i].pos > 1
    BY <1>1, <1>3 DEF RInv, Begun
  <1>6. /\ SubSeq(lex, 1, k) \in Seq(B)
        /\ Len(SubSeq(lex, 1, k)) = k
        /\ \A i \in 1 .. k : SubSeq(lex, 1, k)[i] = lex[i]
    <2> HIDE DEF B, k
    <2> QED BY <1>4, SubSeqProperties
  <1>7. DOMAIN lex' = 1 .. k /\ Len(lex') = k
    <2> HIDE DEF B, k
    <2> QED BY <1>2, <1>6, LenProperties
  <1>8. \A i \in 1 .. k : lex'[i] = lex[i]
    BY <1>2, <1>6
  <1>9. Begun'
    <2>1. lex' # <<>> => Len(lex') \in 1 .. k
      <3>1. lex' # <<>> => k # 0
        BY <1>2, <1>6, EmptySeq
      <3> HIDE DEF k
      <3> QED BY <1>4, <1>7, <3>1
    <2> HIDE DEF k
    <2> QED BY <1>5, <1>7, <1>8, <2>1 DEF Begun
  <1> QED BY <1>1, <1>5, <1>7, <1>8, <1>9

\* The innermost parser returns into the one that waits for it, now q.
LEMMA ReturnParsers ==
  ASSUME IInv, RInv, BInv, Leave, Depth > 1,
         NEW p, p = parser[Depth - 1],
         NEW q \in Parser, q.st \in Inside,
         q.file = p.file, q.mod = p.mod, q.over = p.over,
         Holds(q), Fits(q, module'[p.mod]),
         \A m \in Name : m # p.mod => module'[m] = module[m],
         \A m \in Name : Pending(module'[m]) \subseteq Pending(module[m]),
         p.wait = "import" => Pending(module'[p.mod]) = {},
         parser' = [SubSeq(parser, 1, Depth - 1) EXCEPT ![Depth - 1] = q]
  PROVE  StackOK' /\ BInv'
  <1> DEFINE stack == SubSeq(parser, 1, Depth - 1)
  <1>1. /\ parser \in Seq(Parser) /\ Depth \in Nat \ {0}
        /\ DOMAIN parser = 1 .. Depth
        /\ UNCHANGED <<disk, moduleList, crashed>>
    BY LeaveFacts, StackFacts DEF IInv, TypeOK
  <1>2. /\ stack \in Seq(Parser) /\ Len(stack) = Depth - 1
        /\ \A i \in 1 .. Depth - 1 : stack[i] = parser[i]
    <2> DEFINE d == Depth - 1
    <2>1. /\ d \in Nat /\ \A i \in 1 .. d : parser[i] \in Parser
      BY <1>1, ElementOfSeq DEF Depth
    <2> HIDE DEF d
    <2>2. /\ SubSeq(parser, 1, d) \in Seq(Parser)
          /\ Len(SubSeq(parser, 1, d)) = d
          /\ \A i \in 1 .. d : SubSeq(parser, 1, d)[i] = parser[i]
      BY <2>1, SubSeqProperties
    <2> QED BY <2>2 DEF d
  <1> HIDE DEF stack
  <1>3. /\ parser' \in Seq(Parser) /\ Depth' = Depth - 1
        /\ \A i \in 1 .. Depth - 1 :
             parser'[i] = IF i = Depth - 1 THEN q ELSE parser[i]
    <2>1. Depth - 1 \in 1 .. Len(stack)
      BY <1>1, <1>2
    <2>2. parser' = [stack EXCEPT ![Depth - 1] = q]
      BY DEF stack
    <2>3. /\ [stack EXCEPT ![Depth - 1] = q] \in Seq(Parser)
          /\ Len([stack EXCEPT ![Depth - 1] = q]) = Len(stack)
          /\ \A i \in 1 .. Len(stack) : [stack EXCEPT ![Depth - 1] = q][i]
               = IF i = Depth - 1 THEN q ELSE stack[i]
      BY <1>2, <2>1, ExceptSeq
    <2>4. Depth' = Len([stack EXCEPT ![Depth - 1] = q])
      BY <2>2 DEF Depth
    <2>5. parser' \in Seq(Parser) /\ Depth' = Depth - 1
      BY <1>2, <2>2, <2>3, <2>4
    <2>6. \A i \in 1 .. Depth - 1 : i \in 1 .. Len(stack) /\ stack[i] = parser[i]
      BY <1>1, <1>2
    <2> QED BY <2>2, <2>3, <2>5, <2>6
  <1>4. /\ parser'[Depth - 1] = q
        /\ Depth - 1 \in 1 .. Depth
        /\ \A i \in 1 .. Depth - 2 : parser'[i] = parser[i] /\ i \in 1 .. Depth
        /\ \A i \in 1 .. Depth - 1 : i \in 1 .. Depth - 2 \/ i = Depth - 1
    BY <1>1, <1>3
  <1>5. \A i \in 1 .. Depth - 1 : Holds(parser'[i]) /\ Placed(parser'[i])
    <2>1. \A i \in 1 .. Depth : Holds(parser[i]) /\ Placed(parser[i])
      BY ParserByParser DEF RInv
    <2>2. Placed(q)
      BY <1>4, <2>1 DEF Placed
    <2> QED BY <1>4, <2>1, <2>2
  <1>6. \A i \in 1 .. Depth - 1 : Fits(parser'[i], module'[parser'[i].mod])
    <2>1. ASSUME NEW i \in 1 .. Depth - 2
          PROVE  Fits(parser[i], module'[parser[i].mod])
      <3>1. /\ i < Depth /\ i \in 1 .. Depth /\ i # Depth - 1
            /\ Depth - 1 < Depth /\ Depth - 1 \in 1 .. Depth
        BY <1>1
      <3>2. parser[i].st \in Inside /\ parser[i].mod \in Name
            /\ parser[Depth - 1].st \in Inside
        BY <3>1 DEF IInv, Owners
      <3>3. parser[i].mod # p.mod
        BY <3>1, <3>2 DEF IInv, Owners
      <3>4. module'[parser[i].mod] = module[parser[i].mod]
        BY <3>2, <3>3
      <3> QED BY <3>1, <3>4, ParserByParser DEF RInv
    <2> QED BY <1>4, <2>1
  <1>7. Unfinished' /\ Undecided'
    BY <1>3, <1>6 DEF Unfinished, Undecided, Fits
  <1>8. Resolved' /\ SmiInPlace'
    <2>1. (\A x : Listed(x) <=> Listed(x)') /\ (InPlace <=> InPlace')
      BY <1>1 DEF Listed, InPlace, IsHeader
    <2> QED BY <1>3, <1>5, <2>1 DEF Resolved, SmiInPlace, Holds, Placed
  <1>9. Awaited'
    <2> SUFFICES ASSUME NEW i \in 1 .. Depth - 2, parser'[i].wait # "no"
                 PROVE  /\ parser'[i].asked = parser'[i + 1].file
                        /\ parser'[i].wait = "import"
                             <=> parser'[i].st = "imports"
      BY <1>1, <1>3 DEF Awaited
    <2>1. parser'[i + 1].file = parser[i + 1].file
      BY <1>1, <1>3
    <2>2. i \in 1 .. Depth - 1
      BY <1>1
    <2> QED BY <1>4, <2>1, <2>2 DEF RInv, Awaited
  <1>10. ImportsSettled'
    <2>1. ASSUME NEW m \in Name, Pending(module'[m]) # {}
          PROVE  \E k \in 1 .. Depth - 2 : parser'[k].mod = m
                                           /\ parser'[k].wait = "import"
      <3>1. \A x \in Name : Pending(module[x]) # {} =>
              \E k \in 1 .. Depth - 1 : parser[k].mod = x
                                        /\ parser[k].wait = "import"
        BY ParserByParser DEF RInv, RecordsTrue
      <3>2. Pending(module[m]) # {}
        BY <2>1
      <3>3. PICK k \in 1 .. Depth - 1 : parser[k].mod = m
                                        /\ parser[k].wait = "import"
        BY <3>1, <3>2
      <3>4. k # Depth - 1
        BY <2>1, <3>3
      <3>5. k \in 1 .. Depth - 2 /\ parser'[k] = parser[k]
        BY <1>4, <3>4
      <3> QED BY <3>3, <3>5
    <2>2. Depth' - 1 = Depth - 2
      BY <1>1, <1>3
    <2> QED BY <2>1, <2>2 DEF ImportsSettled, Pending
  <1>11. BInv'
    <2>1. Roomy' = Roomy
      BY <1>1 DEF Roomy
    <2>2. \A i \in 1 .. Depth - 1 : /\ parser'[i].over = parser[i].over
                                    /\ parser'[i].file = parser[i].file
      BY <1>3
    <2>3. Len(lex') = Len(lex) - 1
          /\ \A i \in 1 .. Len(lex) - 1 : lex'[i] = lex[i]
      BY LeaveBuffers
    <2> SUFFICES ASSUME Roomy
                 PROVE  /\ ~crashed'
                        /\ Len(lex') = Depth'
                        /\ \A i \in 1 .. Depth' :
                             /\ ~parser'[i].over
                             /\ lex'[i].file = parser'[i].file
      BY <2>1 DEF BInv
    <2>4. /\ ~crashed /\ Len(lex) = Depth
          /\ \A i \in 1 .. Depth : /\ ~parser[i].over
                                   /\ lex[i].file = parser[i].file
      BY DEF BInv
    <2>5. \A i \in 1 .. Depth - 1 : i \in 1 .. Depth
      BY <1>1
    <2>6. \A i \in 1 .. Depth - 1 : /\ ~parser'[i].over
                                    /\ lex'[i].file = parser'[i].file
      BY <2>2, <2>3, <2>4, <2>5
    <2> QED BY <1>1, <1>3, <2>3, <2>4, <2>6
  <1> QED BY <1>7, <1>8, <1>9, <1>10, <1>11, LeaveBuffers DEF StackOK

\* With one parser or none, nobody waits.
LEMMA NothingPending ==
  ASSUME RInv, Depth <= 1, Depth \in Nat
  PROVE  \A n \in Name : Pending(module[n]) = {}
  <1>1. \A n \in Name : Pending(module[n]) # {} =>
          \E k \in 1 .. Depth - 1 : parser[k].mod = n /\ parser[k].wait = "import"
    BY ParserByParser DEF RInv, RecordsTrue
  <1>2. 1 .. Depth - 1 = {}
    OBVIOUS
  <1> QED BY <1>1, <1>2

\* The last parser returns to the application.
LEMMA LastParser ==
  ASSUME IInv, RInv, BInv, Leave, Depth = 1, parser' = <<>>, UNCHANGED module
  PROVE  StackOK' /\ BInv'
  <1>1. Depth' = 0 /\ UNCHANGED <<disk, moduleList, crashed>>
    BY LeaveFacts, EmptySeq DEF Depth
  <1>2. \A n \in Name : Pending(module'[n]) = {}
    BY NothingPending
  <1>3. ImportsSettled'
    BY <1>2 DEF ImportsSettled, Pending
  <1>4. BInv'
    <2>1. Len(lex') = Len(lex) - 1
      BY LeaveBuffers
    <2>2. Roomy' = Roomy
      BY <1>1 DEF Roomy
    <2> QED BY <1>1, <2>1, <2>2 DEF BInv
  <1> QED BY <1>1, <1>3, <1>4, LeaveBuffers
          DEF StackOK, Unfinished, Resolved, Awaited, Undecided, SmiInPlace

\* The application calls loadModule().
LEMMA FirstParser ==
  ASSUME IInv, RInv, BInv, parser = <<>>, NEW n \in Name,
         Push(<<>>, lex, n), UNCHANGED <<disk, moduleList, module, crashed>>
  PROVE  StackOK' /\ BInv'
  <1> DEFINE over == Len(lex) >= MAX_LEX_DEPTH
             r    == NewParser(n, over)
  <1>1. Depth = 0
    BY EmptySeq DEF Depth
  <1>2. lex \in Buffers /\ Len(lex) \in Nat /\ DOMAIN lex = 1 .. Len(lex)
    BY LenProperties DEF IInv, TypeOK, Buffers
  <1>3. /\ over \in BOOLEAN /\ parser' = Append(<<>>, r)
        /\ over => lex' = lex
        /\ ~over => /\ lex' # <<>>
                    /\ Len(lex') = Len(lex) + 1
                    /\ \A i \in 1 .. Len(lex) : lex'[i] = lex[i]
                    /\ lex'[Len(lex) + 1].file = n
                    /\ lex'[Len(lex) + 1].pos = 1
        /\ lex' \in Buffers
    BY <1>2, PushBuffers, Zenon
  <1>4. /\ r \in Parser /\ r.st \notin Inside /\ r.file = n /\ r.over = over
        /\ Holds(r) /\ Placed(r) /\ \A rec : Fits(r, rec)
    BY <1>3, NewParserFacts, Zenon
  <1> HIDE DEF r
  <1>5. parser' = <<r>> /\ Depth' = 1 /\ parser'[1] = r /\ parser' # <<>>
        /\ top' = r
    BY <1>3 DEF Depth, top
  <1>6. \A n2 \in Name : Pending(module'[n2]) = {}
    BY <1>1, NothingPending
  <1>7. ImportsSettled'
    BY <1>6 DEF ImportsSettled, Pending
  <1>8. Unfinished' /\ Undecided'
    BY <1>4, <1>5 DEF Unfinished, Undecided
  <1>9. Resolved' /\ SmiInPlace' /\ Awaited'
    <2>1. (\A x : Listed(x) <=> Listed(x)') /\ (InPlace <=> InPlace')
      BY DEF Listed, InPlace, IsHeader
    <2> QED BY <1>4, <1>5, <2>1
            DEF Resolved, SmiInPlace, Awaited, Holds, Placed
  <1>10. Begun'
    <2>1. \A i \in 1 .. Len(lex) : lex[i].pos \in Nat /\ lex[i].pos > 1
      <3>1. \A i \in 1 .. Len(lex) : lex[i] \in [file : Name, pos : Nat]
        BY <1>2, ElementOfSeq DEF Buffers
      <3>2. lex # <<>> => lex[Len(lex)].pos # 1
        BY DEF RInv, Begun
      <3>3. \A i \in 1 .. Len(lex) : lex[i].pos >= 1
                                     /\ (i < Len(lex) => lex[i].pos > 1)
        BY <1>2 DEF RInv, Begun
      <3>4. \A i \in 1 .. Len(lex) : lex # <<>>
        BY <1>2, EmptySeq DEF Buffers
      <3> QED BY <1>2, <3>1, <3>2, <3>3, <3>4
    <2>2. DOMAIN lex' = 1 .. Len(lex')
      BY <1>3, LenProperties DEF Buffers
    <2>3. CASE over
      <3>1. lex' = lex
        BY <1>3, <2>3
      <3>2. lex # <<>> => Len(lex) \in 1 .. Len(lex)
        BY <1>2, EmptySeq DEF Buffers
      <3> HIDE DEF over
      <3> QED BY <2>1, <2>2, <3>1, <3>2 DEF Begun
    <2>4. CASE ~over
      <3> HIDE DEF over
      <3> QED BY <1>2, <1>3, <1>4, <1>5, <2>1, <2>2, <2>4 DEF Begun
    <2> QED BY <2>3, <2>4
  <1>11. BInv'
    <2>1. Roomy' = Roomy /\ (Roomy => Len(lex) = 0 /\ ~crashed)
      BY <1>1 DEF Roomy, BInv
    <2>2. Len(lex) = 0 => ~over
      BY DepthAssumption
    <2> HIDE DEF over
    <2> QED BY <1>3, <1>4, <1>5, <2>1, <2>2 DEF BInv
  <1> QED BY <1>7, <1>8, <1>9, <1>10, <1>11 DEF StackOK

-----------------------------------------------------------------------------
(* Each step keeps the records true, and lets the modules grow.            *)

LEMMA InsideFacts ==
  ASSUME IInv, RInv, parser # <<>>, top.st \in Inside
  PROVE  /\ top \in Parser /\ top.mod \in Name /\ Listed(top.mod)
         /\ module[top.mod] \in Module /\ ~module[top.mod].complete
         /\ Deciding(top, module[top.mod])
         /\ Known(top.mod, module[top.mod])
         /\ Pending(module[top.mod]) = {}
         /\ Holds(top)
  <1>1. /\ Depth \in 1 .. Depth /\ top \in Parser
    BY StackFacts DEF IInv, TypeOK
  <1>2. top.mod \in Name /\ Listed(top.mod)
    BY <1>1 DEF IInv, Owners, top
  <1>3. Fits(top, module[top.mod]) /\ Holds(top)
    BY <1>1, ParserByParser DEF RInv, top
  <1> QED BY <1>1, <1>2, <1>3, KnownRecord, TopSettled DEF Fits, IInv, TypeOK

\* The running parser changes the record of its module.
LEMMA InsideStep ==
  ASSUME IInv, RInv, BInv, parser # <<>>, top.st \in Inside,
         NEW q \in Parser,
         q.file = top.file, q.mod = top.mod, q.over = top.over, Holds(q),
         NEW new \in Module, Kept(top.mod, module[top.mod], new),
         Pending(new) = {}, Fits(q, new),
         module' = [module EXCEPT ![top.mod] = new],
         SetTop(q), lex' = Advanced, UNCHANGED <<disk, moduleList, crashed>>
  PROVE  RInv' /\ BInv' /\ Growth
  <1>1. /\ top.mod \in Name /\ Listed(top.mod) /\ ~module[top.mod].complete
    BY InsideFacts
  <1>2. /\ \A n \in Name : module'[n] = IF n = top.mod THEN new ELSE module[n]
        /\ RecordsOK' /\ Growth
    BY <1>1, RecordStep
  <1>3. /\ module'[top.mod] = new
        /\ \A n \in Name : n # top.mod \/ top.st \notin Inside
                             => module'[n] = module[n]
    BY <1>1, <1>2
  <1>4. \A n \in Name : Pending(module'[n]) \subseteq Pending(module[n])
    BY <1>2
  <1>5. Fits(q, module'[top.mod])
    BY <1>3
  <1>6. StackOK' /\ BInv'
    BY <1>3, <1>4, <1>5, TopParsers
  <1> QED BY <1>2, <1>6, RInvParts DEF RecordsOK, StackOK, RInv, RecordsTrue

\* The running parser changes no record.
LEMMA PlainStep ==
  ASSUME IInv, RInv, BInv, parser # <<>>, NEW q \in Parser,
         q.file = top.file, q.mod = top.mod, q.over = top.over, Holds(q),
         q.st \in Inside => top.st \in Inside, Fits(q, module[top.mod]),
         SetTop(q), lex' = Advanced,
         UNCHANGED <<disk, moduleList, module, crashed>>
  PROVE  RInv' /\ BInv' /\ Growth
  <1>1. RecordsOK' /\ Growth
    BY SameRecords
  <1>2. Fits(q, module'[top.mod])
    OBVIOUS
  <1>3. StackOK' /\ BInv'
    BY <1>2, TopParsers
  <1> QED BY <1>1, <1>3 DEF RecordsOK, StackOK, RInv, RecordsTrue

LEMMA LinkageKeeps ==
  ASSUME IInv, RInv, BInv, LinkageClause
  PROVE  RInv' /\ BInv' /\ Growth
  <1> DEFINE q   == [top EXCEPT !.st = "body"]
             rec == module[top.mod]
             new == [rec EXCEPT !.language = LinkageLanguage(@)]
  <1>1. /\ parser # <<>> /\ top.st \in Inside
    BY DEF LinkageClause, Inside, Running
  <1>2. /\ top \in Parser /\ top.mod \in Name /\ rec \in Module
        /\ ~rec.complete /\ Known(top.mod, rec) /\ Pending(rec) = {}
        /\ Holds(top)
    BY <1>1, InsideFacts
  <1>3. /\ q \in Parser /\ q.file = top.file /\ q.mod = top.mod
        /\ q.over = top.over /\ q.st = "body" /\ q.scope = top.scope
    BY <1>2 DEF Parser
  <1>4. /\ new \in Module /\ new.imports = rec.imports
        /\ new.defs = rec.defs /\ new.fwd = rec.fwd
        /\ new.complete = rec.complete
        /\ new.language = LinkageLanguage(rec.language)
    BY <1>2 DEF Module, LinkageLanguage
  <1>5. /\ SetTop(q) /\ lex' = Advanced
        /\ UNCHANGED <<disk, moduleList, crashed>>
        /\ module' = [module EXCEPT ![top.mod] = new]
    BY DEF LinkageClause
  <1> HIDE DEF q, new
  <1>6. Kept(top.mod, rec, new) /\ Pending(new) = {}
    BY <1>2, <1>4, SpokenKept DEF LinkageLanguage
  <1>7. Fits(q, new) /\ Holds(q)
    BY <1>2, <1>3, <1>4 DEF Fits, Deciding, Holds, LinkageLanguage
  <1> QED BY <1>1, <1>3, <1>4, <1>5, <1>6, <1>7, InsideStep

LEMMA EndModuleKeeps ==
  ASSUME IInv, RInv, BInv, EndModule
  PROVE  RInv' /\ BInv' /\ Growth
  <1> DEFINE q   == [top EXCEPT !.st = "file", !.scope["capabilities"] = NULL]
             rec == module[top.mod]
             new == [rec EXCEPT !.complete = TRUE,
                       !.language = IF @ = "unknown" THEN "smiv1" ELSE @]
  <1>1. /\ parser # <<>> /\ top.st \in Inside
    BY DEF EndModule, InBody, Inside, Running
  <1>2. /\ top \in Parser /\ top.mod \in Name /\ rec \in Module
        /\ Known(top.mod, rec) /\ Pending(rec) = {} /\ Holds(top)
    BY <1>1, InsideFacts
  <1>3. /\ q \in Parser /\ q.file = top.file /\ q.mod = top.mod
        /\ q.over = top.over /\ q.st = "file"
        /\ \A c \in Clauses : q.scope[c] = NULL \/ q.scope[c] = top.scope[c]
    BY <1>2 DEF Parser, Clauses
  <1>4. /\ new \in Module /\ new.imports = rec.imports
        /\ new.defs = rec.defs /\ new.fwd = rec.fwd
        /\ new.language = IF rec.language = "unknown" THEN "smiv1"
                          ELSE rec.language
    BY <1>2 DEF Module
  <1>5. /\ SetTop(q) /\ lex' = Advanced
        /\ UNCHANGED <<disk, moduleList, crashed>>
        /\ module' = [module EXCEPT ![top.mod] = new]
    BY DEF EndModule
  <1> HIDE DEF q, new
  <1>6. Kept(top.mod, rec, new) /\ Pending(new) = {}
    BY <1>2, <1>4, SpokenKept
  <1>7. Fits(q, new) /\ Holds(q)
    BY <1>2, <1>3 DEF Fits, Holds, Inside, Clauses
  <1> QED BY <1>1, <1>3, <1>4, <1>5, <1>6, <1>7, InsideStep

LEMMA DeclarationKeeps ==
  ASSUME IInv, RInv, BInv, Declaration
  PROVE  RInv' /\ BInv' /\ Growth
  <1> DEFINE q   == [top EXCEPT !.st = "body"]
             rec == module[top.mod]
             ref == IF Len(tok.syms) = 1 THEN rec
                    ELSE Referred(rec, tok.syms[2], top.scope)
             new == Declared(ref, tok.op, tok.syms[1])
  <1>1. /\ Running /\ parser # <<>> /\ top.st \in Inside
        /\ top.st # "imports" /\ tok.syms # <<>> /\ tok \in Token
    BY RunningFacts DEF Declaration, InBody, Inside, Running
  <1>2. /\ top \in Parser /\ top.mod \in Name /\ rec \in Module
        /\ ~rec.complete /\ Deciding(top, rec) /\ Known(top.mod, rec)
        /\ Pending(rec) = {} /\ Holds(top)
    BY <1>1, InsideFacts
  <1>3. /\ Len(tok.syms) \in Nat \ {0}
        /\ \A i \in 1 .. Len(tok.syms) : tok.syms[i] \in Symbol
    BY <1>1, TokenFields, EmptySeq, LenProperties, ElementOfSeq
  <1>4. tok.syms[1] \in Symbol
        /\ (Len(tok.syms) # 1 => tok.syms[2] \in Symbol)
    <2> DEFINE k == Len(tok.syms)
    <2>1. 1 \in 1 .. k /\ (k # 1 => 2 \in 1 .. k)
      <3>1. k \in Nat /\ k # 0
        BY <1>3
      <3> HIDE DEF k
      <3> QED BY <3>1
    <2> QED BY <1>3, <2>1
  <1>5. /\ Kept(top.mod, rec, ref) /\ Pending(ref) = {} /\ ref \in Module
        /\ ref.complete = rec.complete /\ ref.language = rec.language
        /\ Imported(ref) = Imported(rec)
    <2>1. CASE Len(tok.syms) = 1
      BY <1>2, <2>1 DEF Kept, Known, Grows
    <2>2. CASE Len(tok.syms) # 1
      <3>1. ref = Referred(rec, tok.syms[2], top.scope)
        BY <2>2
      <3>2. top.scope \in [Clauses -> Name \cup {NULL}]
        BY <1>2 DEF Parser
      <3>3. Referred(rec, tok.syms[2], top.scope) \in Module
        BY <1>2, <1>4, <2>2, <3>2, ReferredType
      <3> HIDE DEF ref, rec
      <3> QED BY <1>2, <1>4, <2>2, <3>1, <3>3, ReferredKept
    <2> QED BY <2>1, <2>2
  <1>6. /\ q \in Parser /\ q.file = top.file /\ q.mod = top.mod
        /\ q.over = top.over /\ q.st = "body" /\ q.scope = top.scope
    BY <1>2 DEF Parser
  <1>7. /\ SetTop(q) /\ lex' = Advanced
        /\ UNCHANGED <<disk, moduleList, crashed>>
        /\ module' = [module EXCEPT ![top.mod] = new]
    BY DEF Declaration, Declared
  <1>8. ref.language = "unknown" => Imported(ref) = {}
    BY <1>1, <1>2, <1>5 DEF Deciding
  <1> HIDE DEF ref, q
  <1>9. /\ Kept(top.mod, rec, new) /\ Pending(new) = {}
        /\ new.complete = rec.complete
        /\ new.language = "unknown" => Imported(new) = {}
    <2> HIDE DEF rec
    <2> QED BY <1>2, <1>4, <1>5, <1>8, DeclaredKept
  <1>10. new \in Module
    BY <1>4, <1>5, DeclaredType
  <1> HIDE DEF new
  <1>11. Fits(q, new) /\ Holds(q)
    BY <1>2, <1>6, <1>9 DEF Fits, Deciding, Holds
  <1> QED BY <1>1, <1>6, <1>7, <1>9, <1>10, <1>11, InsideStep

LEMMA ClauseReferenceKeeps ==
  ASSUME IInv, RInv, BInv, ClauseReference
  PROVE  RInv' /\ BInv' /\ Growth
  <1> DEFINE rec == module[top.mod]
             new == Referred(rec, tok.syms[1], top.scope)
  <1>1. /\ Running /\ parser # <<>> /\ top.st \in Inside
        /\ top.st \in Clauses /\ tok.syms # <<>> /\ tok \in Token
    BY RunningFacts DEF ClauseReference, Inside, Running
  <1>2. /\ top \in Parser /\ top.mod \in Name /\ rec \in Module
        /\ ~rec.complete /\ Deciding(top, rec) /\ Known(top.mod, rec)
        /\ Pending(rec) = {} /\ Holds(top)
    BY <1>1, InsideFacts
  <1>3. tok.syms[1] \in Symbol
    <2>1. tok.syms \in Seq(Symbol)
      BY <1>1, TokenFields
    <2>2. 1 \in 1 .. Len(tok.syms)
      BY <1>1, <2>1, EmptySeq, LenProperties
    <2> QED BY <2>1, <2>2, ElementOfSeq
  <1>4. new \in Module
    <2>1. top.scope \in [Clauses -> Name \cup {NULL}]
      BY <1>2 DEF Parser
    <2> QED BY <1>2, <1>3, <2>1, ReferredType
  <1>5. /\ Kept(top.mod, rec, new) /\ Pending(new) = {}
        /\ new.complete = rec.complete /\ new.language = rec.language
        /\ Imported(new) = Imported(rec) /\ FromSMI(new) = FromSMI(rec)
    <2> HIDE DEF rec
    <2> QED BY <1>2, <1>3, ReferredKept
  <1>6. SetTop(top) /\ lex' = Advanced
        /\ UNCHANGED <<disk, moduleList, crashed>>
        /\ module' = [module EXCEPT ![top.mod] = new]
    <2>1. parser = [parser EXCEPT ![Depth] = top]
      BY <1>1, StackFacts DEF top, IInv, TypeOK
    <2> QED BY <2>1 DEF SetTop, ClauseReference
  <1> HIDE DEF new
  <1>7. Fits(top, new)
    BY <1>2, <1>5 DEF Fits, Deciding
  <1> QED BY <1>1, <1>2, <1>4, <1>5, <1>6, <1>7, InsideStep

LEMMA EndClauseKeeps ==
  ASSUME IInv, RInv, BInv, EndClause
  PROVE  RInv' /\ BInv' /\ Growth
  <1> DEFINE q   == [top EXCEPT !.st = "body", !.scope[top.st] = NULL]
             m   == top.scope[top.st]
             rec == module[top.mod]
             new == [rec EXCEPT !.imports = Settle(rec.imports, m)]
  <1>1. /\ parser # <<>> /\ top.st \in Clauses /\ top.st \in Inside
    BY DEF EndClause, Inside, Running
  <1>2. /\ top \in Parser /\ top.mod \in Name /\ rec \in Module
        /\ ~rec.complete /\ Deciding(top, rec) /\ Known(top.mod, rec)
        /\ Pending(rec) = {} /\ Holds(top)
    BY <1>1, InsideFacts
  <1>3. /\ q \in Parser /\ q.file = top.file /\ q.mod = top.mod
        /\ q.over = top.over /\ q.st = "body"
        /\ \A c \in Clauses : q.scope[c] = NULL \/ q.scope[c] = top.scope[c]
    BY <1>1, <1>2 DEF Parser, Clauses
  <1>4. m \in Name \cup {NULL} /\ (m # NULL => Listed(m))
    BY <1>1, <1>2 DEF Parser, Holds
  <1>5. SetTop(q) /\ lex' = Advanced /\ UNCHANGED <<disk, moduleList, crashed>>
    BY DEF EndClause
  <1>6. Holds(q) /\ Fits(q, rec)
    BY <1>1, <1>2, <1>3 DEF Holds, Fits, Deciding, Clauses
  <1>7. CASE m = NULL
    <2>1. module' = module
      BY <1>7 DEF EndClause
    <2> HIDE DEF q
    <2> QED BY <1>1, <1>3, <1>5, <1>6, <2>1, PlainStep
  <1>8. CASE m # NULL
    <2>1. module' = [module EXCEPT ![top.mod] = new]
      BY <1>8 DEF EndClause
    <2>2. rec.imports \in Seq(Import)
      BY <1>2 DEF Module
    <2>3. new \in Module
      <3>1. Settle(rec.imports, m) \in Seq(Import)
        BY <1>4, <2>2, SettleType
      <3> QED BY <1>2, <3>1 DEF Module
    <2> HIDE DEF m, q
    <2>4. /\ Kept(top.mod, rec, new) /\ Pending(new) = {}
          /\ new.complete = rec.complete /\ new.language = rec.language
          /\ Imported(new) = Imported(rec)
      <3>1. m \in Name /\ Listed(m)
        BY <1>4, <1>8
      <3> HIDE DEF rec
      <3> QED BY <1>2, <3>1, SettledKept
    <2> HIDE DEF new
    <2>5. Fits(q, new)
      BY <1>1, <1>2, <1>3, <2>4 DEF Fits, Deciding, Clauses
    <2> QED BY <1>1, <1>3, <1>5, <1>6, <2>1, <2>3, <2>4, <2>5, InsideStep
  <1> QED BY <1>7, <1>8

LEMMA FlushKeeps ==
  ASSUME IInv, RInv, BInv, FlushDeclaration
  PROVE  RInv' /\ BInv' /\ Growth
  <1> DEFINE st == IF tok.op \in {"ref", "endclause", "flush"} \cup Declarations
                   THEN "body" ELSE "recover"
             q  == [top EXCEPT !.st = st]
  <1>1. /\ parser # <<>> /\ top.st \in Inside /\ top.st # "imports"
    BY DEF FlushDeclaration, Inside, Clauses, Running
  <1>2. /\ top \in Parser /\ ~module[top.mod].complete
        /\ Deciding(top, module[top.mod]) /\ Holds(top)
    BY <1>1, InsideFacts
  <1>3. /\ q \in Parser /\ q.file = top.file /\ q.mod = top.mod
        /\ q.over = top.over /\ q.st \in {"body", "recover"}
        /\ q.scope = top.scope
    BY <1>2 DEF Parser
  <1>4. /\ SetTop(q) /\ lex' = Advanced
        /\ UNCHANGED <<disk, moduleList, module, crashed>>
    BY DEF FlushDeclaration
  <1> HIDE DEF q
  <1>5. Holds(q) /\ Fits(q, module[top.mod])
    BY <1>1, <1>2, <1>3 DEF Holds, Fits, Deciding
  <1> QED BY <1>1, <1>3, <1>4, <1>5, PlainStep

LEMMA EndOfParseKeeps ==
  ASSUME IInv, RInv, BInv, EndOfParse
  PROVE  RInv' /\ BInv' /\ Growth
  <1> DEFINE q == [top EXCEPT !.st = "done"]
  <1>1. parser # <<>> /\ Depth \in 1 .. Depth /\ top \in Parser
    BY StackFacts DEF EndOfParse, Running, IInv, TypeOK
  <1>2. Holds(top)
    BY <1>1, ParserByParser DEF RInv, top
  <1>3. /\ q \in Parser /\ q.file = top.file /\ q.mod = top.mod
        /\ q.over = top.over /\ q.st = "done" /\ q.scope = top.scope
    BY <1>1 DEF Parser
  <1>4. /\ SetTop(q) /\ lex' = Advanced
        /\ UNCHANGED <<disk, moduleList, module, crashed>>
    BY DEF EndOfParse
  <1> HIDE DEF q
  <1>5. Holds(q) /\ Fits(q, module[top.mod]) /\ q.st \notin Inside
    BY <1>2, <1>3 DEF Holds, Fits, Inside, Clauses
  <1> QED BY <1>1, <1>3, <1>4, <1>5, PlainStep

\* A parser enters, or comes back to, a clause about module m.
LEMMA EnterScopeKeeps ==
  ASSUME NEW p \in Parser, NEW c \in Clauses, NEW m \in Name \cup {NULL},
         m # NULL => Listed(m), Holds(p), p.st \in Inside, p.st # "imports",
         NEW rec, ~rec.complete, Deciding(p, rec),
         NEW q, q = EnterScope(p, c, m)
  PROVE  /\ q \in Parser /\ q.file = p.file /\ q.mod = p.mod
         /\ q.over = p.over /\ q.st \in Inside
         /\ Holds(q) /\ Fits(q, rec)
  <1>1. /\ q \in Parser /\ q.file = p.file /\ q.mod = p.mod
        /\ q.over = p.over /\ q.st = c
        /\ \A x \in Clauses : q.scope[x] \in {NULL, m, p.scope[x]}
    BY DEF EnterScope, Parser, Clauses
  <1>2. Holds(q)
    BY <1>1 DEF Holds
  <1>3. Fits(q, rec) /\ q.st \in Inside
    BY <1>1 DEF Fits, Deciding, Inside, Clauses
  <1> QED BY <1>1, <1>2, <1>3

LEMMA ClauseModuleKeeps ==
  ASSUME IInv, RInv, BInv, ClauseModule
  PROVE  RInv' /\ BInv' /\ Growth
  <1> DEFINE q == [top EXCEPT !.wait = tok.op, !.asked = tok.name]
  <1>1. /\ Running /\ parser # <<>> /\ top.st \in Inside
        /\ top.st # "imports" /\ tok.op \in Clauses /\ tok \in Token
        /\ UNCHANGED <<disk, moduleList, module, crashed>>
    BY RunningFacts DEF ClauseModule, InBody, Inside, Running
  <1>2. /\ top \in Parser /\ top.mod \in Name /\ ~module[top.mod].complete
        /\ Deciding(top, module[top.mod]) /\ Holds(top)
        /\ Pending(module[top.mod]) = {}
    BY <1>1, InsideFacts
  <1>3. tok.name \in Name
    BY <1>1, TokenFields
  <1>4. ASSUME NEW m \in Name \cup {NULL}, m # NULL => Listed(m),
               SetTop(EnterScope(top, tok.op, m)), lex' = Advanced
        PROVE  RInv' /\ BInv' /\ Growth
    <2> DEFINE s == EnterScope(top, tok.op, m)
    <2>1. /\ s \in Parser /\ s.file = top.file /\ s.mod = top.mod
          /\ s.over = top.over /\ s.st \in Inside
          /\ Holds(s) /\ Fits(s, module[top.mod])
      BY <1>1, <1>2, <1>4, EnterScopeKeeps
    <2> HIDE DEF s
    <2>2. SetTop(s)
      BY <1>4 DEF s
    <2> QED BY <1>1, <1>4, <2>1, <2>2, PlainStep
  <1>5. ASSUME tok.name \in DOMAIN disk,
               Push([parser EXCEPT ![Depth].wait = tok.op,
                                   ![Depth].asked = tok.name],
                    Advanced, tok.name)
        PROVE  RInv' /\ BInv' /\ Growth
    <2>1. /\ q \in Parser /\ q.st = top.st /\ q.mod = top.mod
          /\ q.file = top.file /\ q.over = top.over /\ q.asked = tok.name
          /\ q.scope = top.scope /\ q.wait = tok.op
      BY <1>1, <1>2, <1>3 DEF Parser
    <2>2. Push([parser EXCEPT ![Depth] = q], Advanced, tok.name)
      BY <1>5 DEF top
    <2> HIDE DEF q
    <2>3. /\ Holds(q) /\ Fits(q, module'[top.mod])
          /\ q.wait # "import" /\ q.st # "imports"
      BY <1>1, <1>2, <2>1 DEF Holds, Fits, Deciding, Clauses
    <2>4. tok # EOF
      BY <1>1 DEF EOF, Clauses
    <2>5. StackOK' /\ BInv'
      BY <1>1, <1>2, <1>3, <2>1, <2>2, <2>3, <2>4, NestedParsers
    <2>6. RecordsOK' /\ Growth
      BY <1>1, SameRecords
    <2> QED BY <2>5, <2>6 DEF RecordsOK, StackOK, RInv, RecordsTrue
  <1> QED BY <1>3, <1>4, <1>5, NameAssumption DEF ClauseModule

LEMMA ImportKeeps ==
  ASSUME IInv, RInv, BInv, ImportClause
  PROVE  RInv' /\ BInv' /\ Growth
  <1> DEFINE n    == tok.name
             rec  == module[top.mod]
             imps == AddImports(rec.imports, tok.syms)
             q    == [top EXCEPT !.st = "imports"]
             r    == [top EXCEPT !.st = "imports", !.wait = "import",
                                 !.asked = n]
  <1>1. /\ Running /\ parser # <<>> /\ top.st \in {"header", "imports"}
        /\ top.st \in Inside /\ tok.op = "import" /\ tok \in Token
        /\ UNCHANGED <<disk, moduleList, crashed>>
    BY RunningFacts DEF ImportClause, Inside, Running
  <1>2. /\ top \in Parser /\ top.mod \in Name /\ Listed(top.mod)
        /\ rec \in Module /\ ~rec.complete /\ Deciding(top, rec)
        /\ Known(top.mod, rec) /\ Pending(rec) = {} /\ Holds(top)
    BY <1>1, InsideFacts
  <1>3. n \in Name /\ tok.syms \in Seq(Symbol)
    BY <1>1, TokenFields
  <1>4. imps \in Seq(Import) /\ Continues(rec, imps)
    <2>1. rec.imports \in Seq(Import)
      BY <1>2 DEF Module
    <2> QED BY <1>3, <2>1, AddImportsType, AddImportsFacts DEF Continues
  <1>5. ByImports(top.mod, rec)
    BY <1>1, <1>2 DEF Deciding, ByImports
  <1>6. ASSUME NEW from \in Name \cup {NULL},
               from # NULL => Listed(from) /\ from = n,
               NEW f, f = FinishImport(imps, n, from, rec.language),
               module' = [module EXCEPT ![top.mod].imports  = f.imports,
                                        ![top.mod].language = f.language],
               SetTop(q), lex' = Advanced
        PROVE  RInv' /\ BInv' /\ Growth
    <2> DEFINE new == Finished(rec, imps, n, from)
    <2>1. module' = [module EXCEPT ![top.mod] = new]
      BY <1>6 DEF Finished
    <2>2. new \in Module
      <3>1. /\ f.imports \in Seq(Import)
            /\ f.language \in {"unknown", "smiv1", "smiv2", "sppi"}
        <4>1. rec.language \in {"unknown", "smiv1", "smiv2", "sppi"}
          BY <1>2 DEF Module
        <4> HIDE DEF imps, n, rec
        <4> QED BY <1>4, <1>6, <4>1, FinishImportType
      <3> QED BY <1>2, <1>6, <3>1 DEF Module, Finished
    <2>3. /\ Kept(top.mod, rec, new) /\ Pending(new) = {}
          /\ new.complete = rec.complete /\ ByImports(top.mod, new)
      <3>1. from # NULL => Listed(from)
        BY <1>6
      <3>2. InPlace /\ from = SNMPv2_SMI => n = SNMPv2_SMI
        BY <1>6, NameAssumption
      <3> HIDE DEF rec, imps, n
      <3> QED BY <1>2, <1>4, <1>5, <3>1, <3>2, FinishKept
    <2>4. /\ q \in Parser /\ q.file = top.file /\ q.mod = top.mod
          /\ q.over = top.over /\ q.st = "imports" /\ q.scope = top.scope
      BY <1>2 DEF Parser
    <2> HIDE DEF new, q
    <2>5. Holds(q) /\ Fits(q, new)
      BY <1>2, <2>3, <2>4 DEF Holds, Fits, Deciding, ByImports
    <2> QED BY <1>1, <1>6, <2>1, <2>2, <2>3, <2>4, <2>5, InsideStep
  <1>7. ASSUME module' = [module EXCEPT ![top.mod].imports = imps],
               Push([parser EXCEPT ![Depth].st = "imports",
                                   ![Depth].wait = "import",
                                   ![Depth].asked = n], Advanced, n)
        PROVE  RInv' /\ BInv' /\ Growth
    <2> DEFINE new == WithImports(rec, imps)
    <2>1. module' = [module EXCEPT ![top.mod] = new]
      BY <1>7 DEF WithImports
    <2>2. new \in Module
      BY <1>2, <1>4 DEF Module, WithImports
    <2>3. /\ Kept(top.mod, rec, new) /\ new.complete = rec.complete
          /\ ByImports(top.mod, new)
      <3> HIDE DEF rec, imps
      <3> QED BY <1>2, <1>4, <1>5, AskedKept
    <2>4. /\ r \in Parser /\ r.file = top.file /\ r.mod = top.mod
          /\ r.over = top.over /\ r.st = "imports" /\ r.scope = top.scope
          /\ r.asked = n /\ r.wait = "import" /\ r.st \in Inside
      BY <1>2, <1>3 DEF Parser, Inside
    <2>5. Push([parser EXCEPT ![Depth] = r], Advanced, n)
      BY <1>7 DEF top
    <2> HIDE DEF new, r
    <2>6. /\ \A m \in Name : module'[m] = IF m = top.mod THEN new ELSE module[m]
          /\ RecordsOK' /\ Growth
      BY <1>1, <1>2, <2>1, <2>2, <2>3, RecordStep
    <2>7. /\ module'[top.mod] = new
          /\ \A m \in Name : m # top.mod => module'[m] = module[m]
      BY <1>2, <2>6
    <2>8. Holds(r) /\ Fits(r, module'[top.mod])
      BY <1>2, <2>3, <2>4, <2>7 DEF Holds, Fits, Deciding, ByImports
    <2>9. tok # EOF
      BY <1>1 DEF EOF
    <2>10. StackOK' /\ BInv'
      BY <1>1, <1>3, <2>4, <2>5, <2>7, <2>8, <2>9, NestedParsers
    <2> QED BY <2>6, <2>10 DEF RecordsOK, StackOK, RInv, RecordsTrue
  <1> QED BY <1>3, <1>6, <1>7, NameAssumption DEF ImportClause

\* What a parser that is about to return has found.
LEMMA ReturnedFacts ==
  ASSUME IInv, RInv, Leave
  PROVE  /\ Returned \in Name \cup {NULL}
         /\ Returned # NULL => Listed(Returned)
         /\ InPlace /\ Returned = SNMPv2_SMI => top.file = SNMPv2_SMI
         /\ UNCHANGED <<disk, moduleList, crashed>>
  <1>1. parser # <<>> /\ Depth \in 1 .. Depth /\ top \in Parser
    BY LeaveFacts
  <1>2. Holds(top) /\ Placed(top)
    BY <1>1, ParserByParser DEF RInv, top
  <1> QED BY <1>2, LeaveFacts DEF Holds, Placed, Returned

\* The parser that waited for the innermost one.
LEMMA WaiterFacts ==
  ASSUME IInv, RInv, Leave, Depth > 1, NEW p, p = parser[Depth - 1]
  PROVE  /\ p \in Parser /\ p.st \in Inside /\ p.mod \in Name /\ Listed(p.mod)
         /\ module[p.mod] \in Module /\ ~module[p.mod].complete
         /\ Deciding(p, module[p.mod]) /\ Known(p.mod, module[p.mod])
         /\ Holds(p)
         /\ p.wait # "no" => /\ p.asked = top.file
                             /\ p.wait = "import" <=> p.st = "imports"
         /\ p.wait # "import" => Pending(module[p.mod]) = {}
  <1>1. /\ Depth \in Nat \ {0} /\ Depth - 1 \in 1 .. Depth - 1
        /\ Depth - 1 \in 1 .. Depth /\ Depth - 1 < Depth
        /\ (Depth - 1) + 1 = Depth
    BY LeaveFacts
  <1>2. p \in Parser
    BY <1>1, LeaveFacts, StackFacts DEF IInv, TypeOK
  <1>3. p.st \in Inside /\ p.mod \in Name /\ Listed(p.mod)
    BY <1>1 DEF IInv, Owners
  <1>4. Fits(p, module[p.mod]) /\ Holds(p)
    BY <1>1, ParserByParser DEF RInv
  <1>5. p.wait # "no" => /\ p.asked = top.file
                         /\ p.wait = "import" <=> p.st = "imports"
    BY <1>1 DEF RInv, Awaited, top
  <1>6. p.wait # "import" => Pending(module[p.mod]) = {}
    <2> SUFFICES ASSUME p.wait # "import", Pending(module[p.mod]) # {}
                 PROVE  FALSE
      OBVIOUS
    <2>1. \A x \in Name : Pending(module[x]) # {} =>
            \E k \in 1 .. Depth - 1 : parser[k].mod = x
                                      /\ parser[k].wait = "import"
      BY ParserByParser DEF RInv, RecordsTrue
    <2>2. PICK k \in 1 .. Depth - 1 : parser[k].mod = p.mod
                                      /\ parser[k].wait = "import"
      BY <1>3, <2>1
    <2>3. k # Depth - 1 /\ k \in 1 .. Depth /\ k < Depth
      BY <1>1, <2>2
    <2>4. parser[k].st \in Inside
      BY <2>3 DEF IInv, Owners
    <2> QED BY <1>1, <1>3, <2>2, <2>3, <2>4 DEF IInv, Owners
  <1> QED BY <1>2, <1>3, <1>4, <1>5, <1>6, KnownRecord DEF Fits, IInv, TypeOK

LEMMA ReturnToImportKeeps ==
  ASSUME IInv, RInv, BInv, ReturnToImport
  PROVE  RInv' /\ BInv' /\ Growth
  <1> DEFINE p   == parser[Depth - 1]
             rec == module[p.mod]
             f   == FinishImport(rec.imports, p.asked, Returned, rec.language)
             q   == [p EXCEPT !.wait = "no", !.asked = NULL]
             new == Finished(rec, rec.imports, p.asked, Returned)
  <1>1. Leave /\ Depth > 1 /\ p.wait = "import"
    BY DEF ReturnToImport
  <1>2. /\ p \in Parser /\ p.st \in Inside /\ p.mod \in Name /\ Listed(p.mod)
        /\ rec \in Module /\ ~rec.complete /\ Deciding(p, rec)
        /\ Known(p.mod, rec) /\ Holds(p)
        /\ p.asked = top.file /\ p.st = "imports"
    <2> HIDE DEF p
    <2>1. p = parser[Depth - 1]
      BY DEF p
    <2> QED BY <1>1, <2>1, WaiterFacts
  <1>3. /\ Returned \in Name \cup {NULL} /\ (Returned # NULL => Listed(Returned))
        /\ InPlace /\ Returned = SNMPv2_SMI => p.asked = SNMPv2_SMI
        /\ UNCHANGED <<disk, moduleList, crashed>>
    BY <1>1, <1>2, ReturnedFacts
  <1>4. /\ rec.imports \in Seq(Import) /\ Continues(rec, rec.imports)
        /\ rec.language \in {"unknown", "smiv1", "smiv2", "sppi"}
    BY <1>2 DEF Module, Continues
  <1>5. ByImports(p.mod, rec)
    BY <1>2 DEF Deciding, ByImports
  <1>6. /\ f.imports \in Seq(Import)
        /\ f.language \in {"unknown", "smiv1", "smiv2", "sppi"}
    <2> HIDE DEF p, rec
    <2> QED BY <1>3, <1>4, FinishImportType
  <1>7. new \in Module
    <2>1. new = [rec EXCEPT !.imports = f.imports, !.language = f.language]
      BY DEF Finished
    <2> HIDE DEF f, new
    <2> QED BY <1>2, <1>6, <2>1 DEF Module
  <1>8. /\ Kept(p.mod, rec, new) /\ Pending(new) = {}
        /\ new.complete = rec.complete /\ ByImports(p.mod, new)
    <2> HIDE DEF p, rec
    <2> QED BY <1>2, <1>3, <1>4, <1>5, FinishKept
  <1>9. module' = [module EXCEPT ![p.mod] = new]
    BY DEF ReturnToImport, Finished
  <1>10. parser' = [SubSeq(parser, 1, Depth - 1) EXCEPT ![Depth - 1] = q]
    <2>1. SubSeq(parser, 1, Depth - 1)[Depth - 1] = p
      <3>1. /\ Depth \in Nat \ {0} /\ Depth - 1 \in Int
            /\ \A i \in 1 .. Depth - 1 : parser[i] \in Parser
        BY <1>1, LeaveFacts, StackFacts DEF IInv, TypeOK
      <3>2. \A i \in 1 .. Depth - 1 :
              SubSeq(parser, 1, Depth - 1)[i] = parser[i]
        BY <3>1, SubSeqProperties
      <3> QED BY <1>1, <3>1, <3>2
    <2>2. parser' = [SubSeq(parser, 1, Depth - 1) EXCEPT
                       ![Depth - 1].wait = "no", ![Depth - 1].asked = NULL]
      BY DEF ReturnToImport
    <2> QED BY <2>1, <2>2
  <1>11. /\ q \in Parser /\ q.st = "imports" /\ q.st \in Inside
         /\ q.file = p.file /\ q.mod = p.mod /\ q.over = p.over
         /\ q.scope = p.scope
    BY <1>2 DEF Parser
  <1> HIDE DEF f, q, new
  <1>12. Holds(q) /\ Fits(q, new)
    BY <1>2, <1>8, <1>11 DEF Holds, Fits, Deciding, ByImports
  <1>13. /\ \A n \in Name : module'[n] = IF n = p.mod THEN new ELSE module[n]
         /\ RecordsOK' /\ Growth
    <2> HIDE DEF p
    <2> QED BY <1>2, <1>3, <1>7, <1>8, <1>9, RecordStep
  <1>14. /\ module'[p.mod] = new
         /\ \A m \in Name : m # p.mod => module'[m] = module[m]
         /\ \A m \in Name : Pending(module'[m]) \subseteq Pending(module[m])
    BY <1>2, <1>8, <1>13
  <1>15. StackOK' /\ BInv'
    <2>1. Fits(q, module'[p.mod]) /\ Pending(module'[p.mod]) = {}
      BY <1>8, <1>12, <1>14
    <2>2. p = parser[Depth - 1]
      OBVIOUS
    <2> HIDE DEF p, rec
    <2> QED BY <1>1, <1>10, <1>11, <1>12, <1>14, <2>1, <2>2, ReturnParsers
  <1> QED BY <1>13, <1>15 DEF RecordsOK, StackOK, RInv, RecordsTrue

LEMMA ReturnToClauseKeeps ==
  ASSUME IInv, RInv, BInv, ReturnToClause
  PROVE  RInv' /\ BInv' /\ Growth
  <1> DEFINE p   == parser[Depth - 1]
             rec == module[p.mod]
             q   == EnterScope(p, p.wait, Returned)
  <1>1. /\ Leave /\ Depth > 1 /\ p.wait \in Clauses /\ UNCHANGED module
        /\ parser' = [SubSeq(parser, 1, Depth - 1) EXCEPT ![Depth - 1] = q]
    BY DEF ReturnToClause
  <1>2. p.wait # "no" /\ p.wait # "import"
    BY <1>1 DEF Clauses
  <1>3. /\ p \in Parser /\ p.st \in Inside /\ p.mod \in Name
        /\ ~rec.complete /\ Deciding(p, rec) /\ Holds(p) /\ p.st # "imports"
    <2> HIDE DEF p
    <2>1. p = parser[Depth - 1]
      BY DEF p
    <2> QED BY <1>1, <1>2, <2>1, WaiterFacts
  <1>4. /\ Returned \in Name \cup {NULL} /\ (Returned # NULL => Listed(Returned))
        /\ UNCHANGED <<disk, moduleList, crashed>>
    BY <1>1, ReturnedFacts
  <1>5. /\ q \in Parser /\ q.file = p.file /\ q.mod = p.mod
        /\ q.over = p.over /\ q.st \in Inside /\ Holds(q) /\ Fits(q, rec)
    <2> HIDE DEF p, rec
    <2> QED BY <1>1, <1>3, <1>4, EnterScopeKeeps
  <1>6. RecordsOK' /\ Growth
    BY <1>1, <1>4, SameRecords
  <1>7. StackOK' /\ BInv'
    <2>1. /\ Fits(q, module'[p.mod])
          /\ \A m \in Name : m # p.mod => module'[m] = module[m]
          /\ \A m \in Name : Pending(module'[m]) \subseteq Pending(module[m])
      BY <1>1, <1>5
    <2>2. p = parser[Depth - 1]
      OBVIOUS
    <2> HIDE DEF p, q
    <2> QED BY <1>1, <1>2, <1>5, <2>1, <2>2, ReturnParsers
  <1> QED BY <1>6, <1>7 DEF RecordsOK, StackOK, RInv, RecordsTrue

LEMMA ReturnToApplicationKeeps ==
  ASSUME IInv, RInv, BInv, ReturnToApplication
  PROVE  RInv' /\ BInv' /\ Growth
  <1>1. Leave /\ Depth = 1 /\ parser' = <<>> /\ UNCHANGED module
    BY DEF ReturnToApplication
  <1>2. UNCHANGED <<disk, moduleList>>
    BY <1>1, LeaveFacts
  <1>3. RecordsOK' /\ Growth
    BY <1>1, <1>2, SameRecords
  <1>4. StackOK' /\ BInv'
    BY <1>1, LastParser
  <1> QED BY <1>3, <1>4 DEF RecordsOK, StackOK, RInv, RecordsTrue

\* A step that leaves modules, parsers and buffers alone.
LEMMA IdleKeeps ==
  ASSUME RInv, BInv, UNCHANGED <<disk, moduleList, module, parser, lex>>,
         crashed' = crashed \/ ~Roomy
  PROVE  RInv' /\ BInv' /\ Growth
  <1>1. RecordsOK' /\ Growth
    BY SameRecords
  <1>2. /\ Depth' = Depth /\ top' = top /\ Roomy' = Roomy
        /\ (InPlace <=> InPlace') /\ \A x : Listed(x) <=> Listed(x)'
    BY DEF Depth, top, Roomy, InPlace, IsHeader, Listed
  <1>3. Unfinished' /\ Resolved' /\ Awaited' /\ Undecided'
    BY <1>2 DEF RInv, Unfinished, Resolved, Awaited, Undecided
  <1>4. Begun' /\ SmiInPlace' /\ ImportsSettled'
    BY <1>2 DEF RInv, RecordsTrue, Begun, SmiInPlace, ImportsSettled
  <1>5. BInv'
    BY <1>2 DEF BInv
  <1> QED BY <1>1, <1>3, <1>4, <1>5 DEF RecordsOK, RInv, RecordsTrue

\* The process dies only after the scanner's stack was full.
LEMMA CrashKeeps ==
  ASSUME IInv, RInv, BInv, Crash
  PROVE  RInv' /\ BInv' /\ Growth
  <1>1. Depth \in 1 .. Depth /\ parser # <<>>
    BY StackFacts DEF Crash, IInv, TypeOK
  <1>2. ASSUME Roomy PROVE FALSE
    <2>1. Len(lex) = Depth /\ ~top.over
      BY <1>1, <1>2 DEF BInv, top
    <2>2. lex # <<>>
      BY <1>1, <2>1, EmptySeq
    <2> QED BY <2>1, <2>2 DEF Crash, Undefined
  <1> QED BY <1>2, IdleKeeps DEF Crash

LEMMA ApplicationKeeps ==
  ASSUME IInv, RInv, BInv, Application
  PROVE  RInv' /\ BInv' /\ Growth
  <1>1. PICK n \in Name : \/ smiLoadModuleByName(n)
                          \/ smiLoadModuleByPath(n)
                          \/ smiGetModule(n)
    BY DEF Application
  <1>2. Idle /\ \/ \E r, v : Answer(r, v)
                \/ \E fn : StartLoad(fn, n)
    BY <1>1 DEF smiLoadModuleByName, smiLoadModuleByPath, smiGetModule
  <1>3. CASE \E r, v : Answer(r, v)
    BY <1>3, IdleKeeps DEF Answer
  <1>4. CASE \E fn : StartLoad(fn, n)
    <2>1. /\ Push(<<>>, lex, n) /\ parser = <<>>
          /\ UNCHANGED <<disk, moduleList, module, crashed>>
      BY <1>2, <1>4 DEF StartLoad, Idle
    <2>2. StackOK' /\ BInv'
      BY <2>1, FirstParser
    <2>3. RecordsOK' /\ Growth
      BY <2>1, SameRecords
    <2> QED BY <2>2, <2>3 DEF RecordsOK, StackOK, RInv, RecordsTrue
  <1> QED BY <1>2, <1>3, <1>4

\* SNMPv2-SMI is found in its own file.
LEMMA HeaderPlaced ==
  ASSUME IInv, RInv, parser # <<>>, tok.op \in {"module", "pib"}, InPlace,
         tok.name = SNMPv2_SMI
  PROVE  top.file = SNMPv2_SMI
  <1> DEFINE b == lex[Len(lex)]
  <1>1. lex # <<>> /\ b.pos \in DOMAIN disk[b.file] /\ tok = disk[b.file][b.pos]
    BY DEF tok, EOF
  <1>2. b.file \in DOMAIN disk
    <2>1. Len(lex) \in DOMAIN lex
      BY <1>1, EmptySeq, LenProperties DEF IInv, TypeOK
    <2> QED BY <2>1 DEF IInv, FilesExist
  <1> HIDE DEF b
  <1>3. IsHeader(b.file, b.pos)
    BY <1>1 DEF IsHeader
  <1>4. b.file = SNMPv2_SMI /\ b.pos = 1
    BY <1>1, <1>2, <1>3 DEF InPlace
  <1> QED BY <1>1, <1>4 DEF RInv, Begun, b

\* Module x will be in the list.
ListedThen(x) == \E i \in DOMAIN moduleList' : moduleList'[i] = x

\* The parser q that was outside of any module has read a header.
LEMMA HeaderParsers ==
  ASSUME IInv, RInv, BInv, parser # <<>>, top.st \notin Inside,
         NEW q \in Parser, q.file = top.file, q.over = top.over,
         q.mod # NULL => ListedThen(q.mod), q.scope = top.scope,
         Fits(q, module'[q.mod]), Placed(q),
         \A x : Listed(x) => ListedThen(x),
         Len(moduleList) \in Nat, Len(moduleList') \in Nat,
         Len(moduleList) <= Len(moduleList'),
         \A n \in Name : Listed(n) => module'[n] = module[n],
         \A n \in Name : Pending(module'[n]) = Pending(module[n]),
         SetTop(q), lex' = Advanced, UNCHANGED <<disk, crashed>>
  PROVE  StackOK' /\ BInv'
  <1>1. /\ parser \in Seq(Parser) /\ Depth \in Nat \ {0}
        /\ DOMAIN parser = 1 .. Depth
    BY StackFacts DEF IInv, TypeOK
  <1>2. /\ parser' \in Seq(Parser) /\ Depth' = Depth
        /\ \A i \in 1 .. Depth :
             parser'[i] = IF i = Depth THEN q ELSE parser[i]
    BY <1>1, ExceptSeq DEF Depth, SetTop
  <1>3. parser' # <<>> /\ top' = q /\ top'.file = top.file
    <2>1. parser' = <<>> => Depth' = 0
      BY DEF Depth
    <2>2. top' = parser'[Depth'] /\ Depth \in 1 .. Depth
      BY <1>1 DEF top
    <2> QED BY <1>1, <1>2, <2>1, <2>2
  <1>4. Resolved'
    <2>1. \A i \in 1 .. Depth : Holds(parser[i])
      BY ParserByParser DEF RInv
    <2>2. \A i \in 1 .. Depth :
            /\ parser'[i].mod # NULL => ListedThen(parser'[i].mod)
            /\ \A c \in Clauses :
                 parser'[i].scope[c] # NULL => ListedThen(parser'[i].scope[c])
      BY <1>1, <1>2, <2>1 DEF Holds, top
    <2> QED BY <1>2, <2>2 DEF Resolved, Listed, ListedThen
  <1>5. SmiInPlace'
    <2>1. \A i \in 1 .. Depth : Placed(parser'[i])
      BY <1>2, ParserByParser DEF RInv
    <2>2. InPlace <=> InPlace'
      BY DEF InPlace, IsHeader
    <2> QED BY <1>2, <2>1, <2>2 DEF SmiInPlace, Placed
  <1>6. \A i \in 1 .. Depth : Fits(parser'[i], module'[parser'[i].mod])
    <2> SUFFICES ASSUME NEW i \in 1 .. Depth, i # Depth
                 PROVE  Fits(parser[i], module'[parser[i].mod])
      BY <1>2
    <2>1. i < Depth
      BY <1>1
    <2>2. parser[i].mod \in Name /\ Listed(parser[i].mod)
      BY <2>1 DEF IInv, Owners
    <2>3. module'[parser[i].mod] = module[parser[i].mod]
      BY <2>2
    <2> QED BY <2>3, ParserByParser DEF RInv
  <1>7. Unfinished' /\ Undecided'
    BY <1>2, <1>6 DEF Unfinished, Undecided, Fits
  <1>8. Awaited'
    <2>1. \A i \in 1 .. Depth - 1 : /\ parser'[i] = parser[i]
                                    /\ parser'[i + 1].file = parser[i + 1].file
      BY <1>1, <1>2 DEF top
    <2> QED BY <1>2, <2>1 DEF RInv, Awaited
  <1>9. ImportsSettled'
    <2>1. ASSUME NEW n \in Name, Pending(module'[n]) # {}
          PROVE  \E k \in 1 .. Depth - 1 : parser'[k].mod = n
                                           /\ parser'[k].wait = "import"
      <3>1. \A m \in Name : Pending(module[m]) # {} =>
              \E k \in 1 .. Depth - 1 : parser[k].mod = m
                                        /\ parser[k].wait = "import"
        BY ParserByParser DEF RInv, RecordsTrue
      <3>2. Pending(module[n]) # {}
        BY <2>1
      <3>3. PICK k \in 1 .. Depth - 1 : parser[k].mod = n
                                        /\ parser[k].wait = "import"
        BY <3>1, <3>2
      <3>4. parser'[k] = parser[k]
        BY <1>1, <1>2
      <3> QED BY <3>3, <3>4
    <2> QED BY <1>2, <2>1 DEF ImportsSettled, Pending
  <1>10. Begun'
    BY <1>3, BegunStays DEF IInv, RInv
  <1>11. BInv'
    <2>1. /\ Len(lex') = Len(lex)
          /\ \A i \in DOMAIN lex : lex'[i].file = lex[i].file
      BY AdvancedFacts DEF IInv
    <2>2. Roomy' => Roomy
      BY DepthAssumption DEF Roomy
    <2>3. DOMAIN lex = 1 .. Len(lex)
      BY LenProperties DEF IInv, TypeOK
    <2> QED BY <1>1, <1>2, <2>1, <2>2, <2>3 DEF BInv, top
  <1> QED BY <1>4, <1>5, <1>7, <1>8, <1>9, <1>10, <1>11 DEF StackOK

LEMMA HeaderKeeps ==
  ASSUME IInv, RInv, BInv, ModuleHeader
  PROVE  RInv' /\ BInv' /\ Growth
  <1> DEFINE n == tok.name
             q == AfterHeader(top, n)
  <1>1. /\ parser # <<>> /\ top \in Parser /\ n \in Name
        /\ top.st \notin Inside /\ tok.op \in {"module", "pib"}
        /\ SetTop(q) /\ lex' = Advanced /\ UNCHANGED <<disk, crashed>>
    <2>1. tok \in Token /\ tok.op \in {"module", "pib"} /\ Running
          /\ top.st = "file"
      BY RunningFacts DEF ModuleHeader
    <2> QED BY <2>1, RunningFacts, TokenFields
            DEF ModuleHeader, Inside, Clauses
  <1>2. /\ q \in Parser /\ q.mod = n /\ q.file = top.file /\ q.over = top.over
        /\ q.scope = top.scope
        /\ q.st = IF Listed(n) THEN "done" ELSE "header"
    BY <1>1 DEF AfterHeader, Parser
  <1>3. Placed(q)
    BY <1>1, <1>2, HeaderPlaced DEF Placed
  <1>4. moduleList \in Seq(Name) /\ Len(moduleList) \in Nat
    BY LenProperties DEF IInv, TypeOK
  <1>5. CASE Listed(n)
    <2>1. UNCHANGED <<disk, moduleList, module>>
      BY <1>1, <1>5 DEF ModuleHeader
    <2>2. q.st \notin Inside /\ Fits(q, module'[q.mod])
      BY <1>2, <1>5 DEF Inside, Clauses, Fits
    <2>3. \A x : Listed(x) <=> ListedThen(x)
      BY <2>1 DEF Listed, ListedThen
    <2>4. RecordsOK' /\ Growth
      BY <2>1, SameRecords
    <2> HIDE DEF q, n
    <2>5. StackOK' /\ BInv'
      BY <1>1, <1>2, <1>3, <1>4, <1>5, <2>1, <2>2, <2>3, HeaderParsers
    <2> QED BY <2>4, <2>5 DEF RecordsOK, StackOK, RInv, RecordsTrue
  <1>6. CASE ~Listed(n)
    <2> DEFINE new == [NewModule EXCEPT !.language = HeaderLanguage]
    <2>1. /\ moduleList' = Append(moduleList, n)
          /\ module' = [module EXCEPT ![n] = new]
      BY <1>6 DEF ModuleHeader
    <2>2. /\ HeaderLanguage \in {"unknown", "smiv1", "smiv2", "sppi"}
          /\ HeaderLanguage = "smiv2" => n = SNMPv2_SMI
          /\ n = SNMPv2_SMI => HeaderLanguage \in {"smiv2", "sppi"}
      BY <1>1 DEF HeaderLanguage
    <2>3. /\ new.imports = <<>> /\ ~new.complete /\ new.defs = {}
          /\ new.fwd = {} /\ new.language = HeaderLanguage /\ new \in Module
      <3>1. NewModule \in Module
        BY DEF NewModule, Module
      <3>2. new \in Module
        BY <2>2, <3>1 DEF Module
      <3>3. /\ new.imports = <<>> /\ ~new.complete /\ new.defs = {}
            /\ new.fwd = {} /\ new.language = HeaderLanguage
        BY DEF NewModule
      <3> QED BY <3>2, <3>3
    <2>4. /\ Imported(new) = {} /\ FromSMI(new) = {} /\ Pending(new) = {}
      BY <2>3 DEF Imported, FromSMI, Pending
    <2> HIDE DEF new
    <2>5. /\ module[n] = NewModule /\ module' \in [Name -> Module]
          /\ \A x \in Name : module'[x] = IF x = n THEN new ELSE module[x]
      BY <1>1, <1>6, <2>1, <2>3 DEF RInv, Fresh, IInv, TypeOK
    <2>6. /\ NewModule.imports = <<>> /\ ~NewModule.complete
          /\ NewModule.defs = {} /\ NewModule.fwd = {}
      BY DEF NewModule
    <2>7. /\ DOMAIN moduleList = 1 .. Len(moduleList)
          /\ moduleList' \in Seq(Name)
          /\ DOMAIN moduleList' = 1 .. Len(moduleList) + 1
          /\ Len(moduleList') = Len(moduleList) + 1
          /\ \A i \in 1 .. Len(moduleList) : moduleList'[i] = moduleList[i]
          /\ moduleList'[Len(moduleList) + 1] = n
      BY <1>1, <1>4, <2>1, AppendProperties, LenProperties
    <2>8. \A x : Listed(x)' <=> (Listed(x) \/ x = n)
      BY <1>4, <2>7 DEF Listed
    <2>9. /\ \A x \in Name : Pending(module'[x]) = Pending(module[x])
          /\ \A x \in Name : Listed(x) => module'[x] = module[x]
          /\ \A x \in Name : Visible(x) \subseteq Visible(x)'
      BY <1>6, <2>3, <2>4, <2>5, <2>6 DEF Pending, Visible
    <2>10. \A x \in Name : \A i \in DOMAIN module'[x].imports :
             Truthful(module'[x].imports[i])
      <3>1. \A x \in Name : \A i \in DOMAIN module[x].imports :
              Truthful(module[x].imports[i])
        BY DEF RInv, RecordsTrue, ImportTruth, Truthful
      <3> QED BY <2>3, <2>5, <3>1
    <2>11. ImportTruth'
      BY <2>5, <2>8, <2>9, <2>10, TruthStays
    <2>12. Fresh'
      BY <2>5, <2>8 DEF RInv, Fresh
    <2>13. LanguageRule'
      <3>1. LanguageOf(n, new)
        BY <2>2, <2>3, <2>4 DEF LanguageOf
      <3>2. \A x \in Name : Listed(x)' => LanguageOf(x, module'[x])
        BY <2>5, <2>8, <3>1 DEF RInv, RecordsTrue, LanguageRule
      <3>3. \A x, rec : LanguageOf(x, rec) <=> LanguageOf(x, rec)'
        BY <1>1 DEF LanguageOf, InPlace, IsHeader
      <3> QED BY <3>2, <3>3 DEF LanguageRule
    <2>14. Growth
      <3>1. \A x \in Name : Grows(module[x], module'[x])
        BY <2>3, <2>5, <2>6 DEF Grows
      <3>2. \A i \in DOMAIN moduleList : /\ i \in DOMAIN moduleList'
                                         /\ moduleList'[i] = moduleList[i]
        BY <1>4, <2>7
      <3>3. \A x \in Name : module[x].complete => module'[x] = module[x]
        BY <2>5, <2>6
      <3> QED BY <2>9, <3>1, <3>2, <3>3 DEF Growth, Grows
    <2>15. Fits(q, module'[q.mod])
      <3> HIDE DEF q, n
      <3>1. module'[q.mod] = new
        BY <1>1, <1>2, <2>5
      <3> QED BY <1>2, <2>2, <2>3, <2>4, <3>1 DEF Fits, Deciding
    <2> HIDE DEF q, n
    <2>16. Len(moduleList) <= Len(moduleList') /\ Len(moduleList') \in Nat
      BY <1>4, <2>7
    <2>17. \A x : ListedThen(x) <=> (Listed(x) \/ x = n)
      BY <1>4, <2>7 DEF Listed, ListedThen
    <2>18. StackOK' /\ BInv'
      BY <1>1, <1>2, <1>3, <1>4, <2>9, <2>15, <2>16, <2>17, HeaderParsers
    <2> QED BY <2>11, <2>12, <2>13, <2>14, <2>18
            DEF RecordsOK, StackOK, RInv, RecordsTrue
  <1> QED BY <1>5, <1>6

-----------------------------------------------------------------------------
(* The invariant of the records, and what it shows.                        *)

LEMMA InitRInv == Init => RInv /\ BInv
  <1> SUFFICES ASSUME Init
               PROVE  RInv /\ BInv
    OBVIOUS
  <1>1. /\ moduleList = <<>> /\ parser = <<>> /\ lex = <<>> /\ ~crashed
        /\ module = [n \in Name |-> NewModule]
    BY DEF Init
  <1>2. Depth = 0 /\ Len(lex) = 0
    BY <1>1, EmptySeq DEF Depth
  <1>3. \A n \in Name : /\ ~Listed(n) /\ module[n] = NewModule
                        /\ module[n].imports = <<>>
    <2>1. \A n \in Name : ~Listed(n) /\ module[n] = NewModule
      <3>1. \A i \in DOMAIN moduleList : FALSE
        BY <1>1
      <3>2. \A n \in Name : module[n] = NewModule
        <4> HIDE DEF NewModule
        <4> QED BY <1>1
      <3> QED BY <3>1, <3>2 DEF Listed
    <2>2. NewModule.imports = <<>>
      BY DEF NewModule
    <2> QED BY <2>1, <2>2
  <1>4. RecordsTrue
    BY <1>3 DEF RecordsTrue, ImportsSettled, ImportTruth, LanguageRule
  <1>5. /\ Fresh /\ Unfinished /\ Resolved /\ Awaited /\ Undecided /\ Begun
        /\ SmiInPlace
    BY <1>1, <1>2, <1>3
       DEF Fresh, Unfinished, Resolved, Awaited, Undecided, Begun, SmiInPlace
  <1> QED BY <1>1, <1>2, <1>4, <1>5 DEF RInv, BInv

LEMMA NextRInv ==
  ASSUME IInv, RInv, BInv, [Next]_vars
  PROVE  RInv' /\ BInv' /\ Growth
  <1>1. CASE UNCHANGED vars
    BY <1>1, IdleKeeps DEF vars
  <1>2. CASE Application
    BY <1>2, ApplicationKeeps
  <1>3. CASE ModuleHeader
    BY <1>3, HeaderKeeps
  <1>4. CASE ImportClause
    BY <1>4, ImportKeeps
  <1>5. CASE LinkageClause
    BY <1>5, LinkageKeeps
  <1>6. CASE Declaration
    BY <1>6, DeclarationKeeps
  <1>7. CASE ClauseModule
    BY <1>7, ClauseModuleKeeps
  <1>8. CASE ClauseReference
    BY <1>8, ClauseReferenceKeeps
  <1>9. CASE EndClause
    BY <1>9, EndClauseKeeps
  <1>10. CASE FlushDeclaration
    BY <1>10, FlushKeeps
  <1>11. CASE EndModule
    BY <1>11, EndModuleKeeps
  <1>12. CASE EndOfParse
    BY <1>12, EndOfParseKeeps
  <1>13. CASE ReturnToApplication
    BY <1>13, ReturnToApplicationKeeps
  <1>14. CASE ReturnToImport
    BY <1>14, ReturnToImportKeeps
  <1>15. CASE ReturnToClause
    BY <1>15, ReturnToClauseKeeps
  <1>16. CASE Crash
    BY <1>16, CrashKeeps
  <1> QED BY <1>1, <1>2, <1>3, <1>4, <1>5, <1>6, <1>7, <1>8, <1>9, <1>10,
             <1>11, <1>12, <1>13, <1>14, <1>15, <1>16 DEF Next, Library

LEMMA RecordsInductive == Spec => [](RInv /\ BInv)
  <1>1. RInv /\ BInv /\ IInv /\ [Next]_vars => (RInv /\ BInv)'
    BY NextRInv
  <1> QED BY <1>1, InitRInv, Inductive, PTL DEF Spec

\* Whatever is half parsed when it is recorded: an import of an IMPORTS clause
\* is left unknown only while its module waits for the one it names, a settled
\* import is found where it says, as what it says, and the language of each
\* module follows from its name and its imports (checkImports(),
\* linkageClause of parser-smi.y).
THEOREM Records == Spec => []RecordsTrue
  <1>1. RInv => RecordsTrue
    BY DEF RInv
  <1> QED BY <1>1, RecordsInductive, PTL

\* As long as fewer modules are known than scanner buffers can be stacked,
\* each parser reads the file it was created for, and the process does not
\* die in smiLeaveLexRecursion().
THEOREM OwnBuffers == Spec => [](Roomy => OwnBuffer /\ ~crashed)
  <1>1. IInv /\ BInv => (Roomy => OwnBuffer /\ ~crashed)
    BY DEF IInv, BInv, OwnBuffer
  <1> QED BY <1>1, Inductive, RecordsInductive, PTL

\* No step drops or reorders modules, takes back how an import was settled,
\* forgets a descriptor, or touches a module after its END.
THEOREM GrowOnly == Spec => ModulesOnlyGrow
  <1>1. IInv /\ RInv /\ BInv /\ [Next]_vars => [Growth]_vars
    BY NextRInv
  <1> QED BY <1>1, Inductive, RecordsInductive, PTL DEF Spec, ModulesOnlyGrow

-----------------------------------------------------------------------------
(* Which modules need which, read off the files.                           *)

\* What the files say does not depend on what was loaded.
LEMMA SameFiles ==
  ASSUME UNCHANGED disk
  PROVE  /\ \A f : Held(f)' = Held(f)
         /\ \A n : Mentions(n)' = Mentions(n)
         /\ \A k, n : Needs(k, n)' <=> Needs(k, n)
         /\ \A p, pos : Reading(p, pos)' <=> Reading(p, pos)
  <1>1. \A f : Held(f)' = Held(f)
    BY DEF Held, IsHeader
  <1>2. \A n : Mentions(n)' = Mentions(n)
    BY DEF Mentions, Under, IsHeader
  <1>3. \A n : DependsOn(n)' = DependsOn(n)
    BY DEF DependsOn, Held, Mentions, Under, IsHeader
  <1>4. \A k, n : Needs(k, n)' <=> Needs(k, n)
    BY DEF Needs, DependsOn, Held, Mentions, Under, IsHeader
  <1>5. \A p, pos : Reading(p, pos)' <=> Reading(p, pos)
    BY DEF Reading, IsHeader
  <1> QED BY <1>1, <1>2, <1>4, <1>5

\* A module needs what it depends on.
LEMMA NeedsDirectly ==
  ASSUME NEW a \in Name, NEW b \in DependsOn(a)
  PROVE  Needs(a, b)
  <1> DEFINE on == [m \in Name |-> DependsOn(m)]
  <1>1. on[a] = DependsOn(a)
    OBVIOUS
  <1> HIDE DEF on
  <1>2. \A T \in SUBSET (Name \ {b}) : \E m \in T \cup {a} : ~(on[m] \subseteq T)
    BY <1>1
  <1> QED BY <1>2 DEF Needs, on

\* And what one that it needs depends on.
LEMMA NeedsAlong ==
  ASSUME NEW a \in Name, NEW b \in Name, NEW c \in DependsOn(b), Needs(a, b)
  PROVE  Needs(a, c)
  <1> DEFINE on == [m \in Name |-> DependsOn(m)]
  <1>1. on[b] = DependsOn(b)
    OBVIOUS
  <1>2. \A T \in SUBSET (Name \ {b}) : \E m \in T \cup {a} : ~(on[m] \subseteq T)
    BY DEF Needs
  <1> HIDE DEF on
  <1>3. ASSUME NEW T \in SUBSET (Name \ {c})
        PROVE  \E m \in T \cup {a} : ~(on[m] \subseteq T)
    <2>1. CASE b \in T
      BY <1>1, <2>1
    <2>2. CASE b \notin T
      BY <1>2, <2>2
    <2> QED BY <2>1, <2>2
  <1> QED BY <1>3 DEF Needs, on

\* The module of a file that n mentions is one that n depends on, and so is
\* the mentioned name.
LEMMA HeldDepends ==
  ASSUME NEW n, NEW f \in Mentions(n), NEW k, k = f \/ k \in Held(f)
  PROVE  k \in DependsOn(n)
  BY DEF DependsOn

LEMMA ReadIsHeld ==
  ASSUME NEW p, NEW pos, p.file \in DOMAIN disk, p.mod # NULL, Reading(p, pos)
  PROVE  p.mod \in Held(p.file)
  BY DEF Reading, Held

-----------------------------------------------------------------------------
(* Parsers that read their own files.                                      *)

StackS == /\ Reads /\ Mentioned /\ Chained
          /\ \A i \in 1 .. Depth : Apart(parser[i])
SParts == StackS /\ AllExcused

LEMMA SInvParts == SInv <=> (Roomy => SParts)
  BY DEF SInv, SParts, StackS

\* The current token is read from the file of the running parser.
LEMMA OwnToken ==
  ASSUME IInv, RInv, BInv, Roomy, parser # <<>>
  PROVE  /\ Depth \in Nat \ {0} /\ Depth \in 1 .. Depth
         /\ Len(lex) = Depth /\ DOMAIN lex = 1 .. Depth
         /\ \A i \in 1 .. Depth : /\ lex[i].pos \in Nat
                                  /\ parser[i].file \in DOMAIN disk
         /\ \A i \in 1 .. Depth - 1 : Advanced[i] = lex[i]
         /\ tok = EOF => Advanced[Depth].pos = lex[Depth].pos
         /\ tok # EOF => /\ Advanced[Depth].pos = lex[Depth].pos + 1
                         /\ lex[Depth].pos \in DOMAIN disk[top.file]
                         /\ tok = disk[top.file][lex[Depth].pos]
  <1>1. Depth \in Nat \ {0} /\ Depth \in 1 .. Depth
    BY StackFacts DEF IInv, TypeOK
  <1>2. Len(lex) = Depth /\ \A i \in 1 .. Depth : lex[i].file = parser[i].file
    BY DEF BInv
  <1>3. /\ lex \in Buffers /\ DOMAIN lex = 1 .. Depth /\ lex # <<>>
    BY <1>1, <1>2, LenProperties, EmptySeq DEF IInv, TypeOK, Buffers
  <1>4. \A i \in 1 .. Depth : lex[i] \in [file : Name, pos : Nat]
    BY <1>2, <1>3, ElementOfSeq DEF Buffers
  <1>5. \A i \in 1 .. Depth : parser[i].file \in DOMAIN disk
    BY <1>2, <1>3 DEF IInv, FilesExist
  <1> DEFINE b == lex[Depth]
             e == [b EXCEPT !.pos = @ + 1]
  <1>6. b.file = top.file
    BY <1>1, <1>2 DEF top
  <1>7. b.pos \in DOMAIN disk[b.file] => tok = disk[b.file][b.pos]
    BY <1>2, <1>3 DEF tok
  <1>8. b.pos \notin DOMAIN disk[b.file] => tok = EOF
    BY <1>2, <1>3 DEF tok
  <1>9. e.pos = b.pos + 1
    BY <1>1, <1>4
  <1>10. Advanced = IF tok = EOF THEN lex ELSE [lex EXCEPT ![Depth] = e]
    BY <1>2 DEF Advanced
  <1> HIDE DEF e
  <1>11. \A i \in 1 .. Depth - 1 : Advanced[i] = lex[i]
    BY <1>1, <1>3, <1>10
  <1>12. tok # EOF => Advanced[Depth].pos = b.pos + 1
    BY <1>1, <1>3, <1>9, <1>10
  <1>13. tok = EOF => Advanced[Depth].pos = b.pos
    BY <1>10
  <1> QED BY <1>1, <1>2, <1>3, <1>4, <1>5, <1>6, <1>7, <1>8, <1>11, <1>12,
             <1>13

\* Reading on in the module of parser p: it has still read its header.
LEMMA ReadOn ==
  ASSUME IInv, RInv, BInv, Roomy, Reads, parser # <<>>,
         NEW q, q.file = top.file, q.mod = top.mod,
         q.st \in {"header", "imports"}
           => top.st \in {"header", "imports"} /\ tok.op \notin {"module", "pib"}
  PROVE  Reading(q, Advanced[Depth].pos)
  <1> DEFINE pos == lex[Depth].pos
  <1>1. /\ Depth \in 1 .. Depth /\ pos \in Nat
        /\ tok = EOF => Advanced[Depth].pos = pos
        /\ tok # EOF => /\ Advanced[Depth].pos = pos + 1
                        /\ tok = disk[top.file][pos]
        /\ top.file \in DOMAIN disk
    BY OwnToken DEF top
  <1>2. Reading(top, pos)
    BY <1>1 DEF Reads, top
  <1>3. DOMAIN disk[top.file] \subseteq Nat
    <2>1. disk[top.file] \in Seq(Token)
      BY <1>1, DiskAssumption DEF IInv, TypeOK
    <2> QED BY <2>1, LenProperties
  <1> HIDE DEF pos
  <1> SUFFICES ASSUME q.mod # NULL
               PROVE  \E h \in DOMAIN disk[q.file] :
                        /\ h < Advanced[Depth].pos /\ IsHeader(q.file, h)
                        /\ disk[q.file][h].name = q.mod
                        /\ q.st \in {"header", "imports"}
                             => \A x \in h + 1 .. Advanced[Depth].pos - 1 :
                                  ~IsHeader(q.file, x)
    BY DEF Reading
  <1>4. PICK h \in DOMAIN disk[top.file] :
          /\ h < pos /\ IsHeader(top.file, h)
          /\ disk[top.file][h].name = top.mod
          /\ top.st \in {"header", "imports"}
               => \A x \in h + 1 .. pos - 1 : ~IsHeader(top.file, x)
    BY <1>2 DEF Reading
  <1>5. CASE tok = EOF
    BY <1>1, <1>4, <1>5
  <1>6. CASE tok # EOF
    <2>1. ASSUME q.st \in {"header", "imports"}, NEW x \in h + 1 .. pos
          PROVE  ~IsHeader(top.file, x)
      <3>1. x \in h + 1 .. pos - 1 \/ x = pos
        BY <1>1, <1>3, <2>1
      <3>2. ~IsHeader(top.file, pos)
        BY <1>1, <1>6, <2>1 DEF IsHeader
      <3> QED BY <1>4, <2>1, <3>1, <3>2
    <2>2. (pos + 1) - 1 = pos /\ h < pos + 1
      BY <1>1, <1>3, <1>4
    <2> QED BY <1>1, <1>4, <1>6, <2>1, <2>2
  <1> QED BY <1>5, <1>6

\* What the running parser asks for is mentioned by its module.
LEMMA AskedIsMentioned ==
  ASSUME IInv, RInv, BInv, Roomy, Reads, parser # <<>>, top.mod # NULL,
         tok.op \in {"import"} \cup Clauses,
         tok.op = "import" => top.st \in {"header", "imports"}
  PROVE  tok.name \in Mentions(top.mod)
  <1> DEFINE pos == lex[Depth].pos
             f   == top.file
  <1>1. tok # EOF
    BY DEF EOF, Clauses
  <1>2. /\ Depth \in 1 .. Depth /\ pos \in DOMAIN disk[f]
        /\ tok = disk[f][pos] /\ f \in DOMAIN disk
    BY <1>1, OwnToken DEF top
  <1>3. DOMAIN disk[f] \subseteq Nat
    <2>1. disk[f] \in Seq(Token)
      BY <1>2, DiskAssumption DEF IInv, TypeOK
    <2> QED BY <2>1, LenProperties
  <1>4. Reading(top, pos)
    BY <1>2 DEF Reads, top
  <1> HIDE DEF pos, f
  <1>5. PICK h \in DOMAIN disk[f] :
          /\ h < pos /\ IsHeader(f, h) /\ disk[f][h].name = top.mod
          /\ top.st \in {"header", "imports"}
               => \A x \in h + 1 .. pos - 1 : ~IsHeader(f, x)
    BY <1>4 DEF Reading, f
  <1>6. Under(f, h, pos)
    <2>1. ~IsHeader(f, pos)
      BY <1>2 DEF IsHeader, Clauses
    <2>2. \A x \in h + 1 .. pos : x \in h + 1 .. pos - 1 \/ x = pos
      BY <1>2, <1>3
    <2> QED BY <1>2, <1>5, <2>1, <2>2 DEF Under
  <1> QED BY <1>2, <1>5, <1>6 DEF Mentions

\* The running parser goes on as q, in the same module.
LEMMA TopStack ==
  ASSUME IInv, RInv, BInv, Roomy, StackS, parser # <<>>, NEW q \in Parser,
         q.file = top.file, q.mod = top.mod,
         q.st \in Inside => top.st \in Inside,
         q.st \in {"header", "imports"}
           => top.st \in {"header", "imports"} /\ tok.op \notin {"module", "pib"},
         Apart(q), SetTop(q), lex' = Advanced, UNCHANGED disk
  PROVE  StackS' /\ \A k : BeingParsed(k)' => BeingParsed(k)
  <1>1. /\ parser \in Seq(Parser) /\ DOMAIN parser = 1 .. Depth
        /\ Depth \in Nat \ {0} /\ Depth \in 1 .. Depth
    BY StackFacts DEF IInv, TypeOK
  <1>2. /\ Depth' = Depth
        /\ \A i \in 1 .. Depth :
             parser'[i] = IF i = Depth THEN q ELSE parser[i]
    BY <1>1, ExceptSeq DEF Depth, SetTop
  <1>3. \A i \in 1 .. Depth : i = Depth \/ i \in 1 .. Depth - 1
    BY <1>1
  <1>4. \A i \in 1 .. Depth : /\ parser'[i].file = parser[i].file
                              /\ parser'[i].mod = parser[i].mod
                              /\ parser'[i].st \in Inside
                                   => parser[i].st \in Inside
                              /\ Apart(parser'[i])
    BY <1>1, <1>2 DEF StackS, top
  <1>5. Reads'
    <2>1. Reading(q, Advanced[Depth].pos)
      BY ReadOn DEF StackS
    <2>2. \A i \in 1 .. Depth - 1 : Advanced[i] = lex[i] /\ i # Depth
      BY <1>1, OwnToken
    <2>3. \A i \in 1 .. Depth : Reading(parser'[i], lex'[i].pos)
      BY <1>2, <1>3, <2>1, <2>2 DEF StackS, Reads
    <2> QED BY <1>2, <2>3, SameFiles DEF Reads
  <1>6. Mentioned'
    <2>1. \A i \in 1 .. Depth - 1 : i \in 1 .. Depth /\ i + 1 \in 1 .. Depth
      BY <1>1
    <2> QED BY <1>2, <1>4, <2>1, SameFiles DEF StackS, Mentioned
  <1>7. Chained'
    BY <1>2, <1>4, SameFiles DEF StackS, Chained
  <1>8. \A k : BeingParsed(k)' => BeingParsed(k)
    BY <1>2, <1>4 DEF BeingParsed
  <1>9. \A i \in 1 .. Depth' : Apart(parser'[i])
    BY <1>2, <1>4
  <1> QED BY <1>5, <1>6, <1>7, <1>8, <1>9 DEF StackS, Apart

\* The running parser, now q, calls loadModule() for file n.
LEMMA PushStack ==
  ASSUME IInv, RInv, BInv, Roomy, StackS, parser # <<>>, top.st \in Inside,
         NEW q \in Parser, q.file = top.file, q.mod = top.mod,
         q.st \in Inside,
         q.st \in {"header", "imports"}
           => top.st \in {"header", "imports"} /\ tok.op \notin {"module", "pib"},
         Apart(q), NEW n \in Mentions(top.mod), n \in Name,
         Push([parser EXCEPT ![Depth] = q], Advanced, n), UNCHANGED disk
  PROVE  StackS' /\ \A k : BeingParsed(k)' => BeingParsed(k)
  <1> DEFINE stack == [parser EXCEPT ![Depth] = q]
             over  == Len(Advanced) >= MAX_LEX_DEPTH
             r     == NewParser(n, over)
  <1>1. /\ parser \in Seq(Parser) /\ DOMAIN parser = 1 .. Depth
        /\ Depth \in Nat \ {0} /\ Depth \in 1 .. Depth
    BY StackFacts DEF IInv, TypeOK
  <1>2. /\ stack \in Seq(Parser) /\ Len(stack) = Depth
        /\ \A i \in 1 .. Depth :
             stack[i] = IF i = Depth THEN q ELSE parser[i]
    BY <1>1, ExceptSeq DEF Depth
  <1>3. Advanced \in Buffers /\ Len(Advanced) = Depth
    BY AdvancedFacts, OwnToken DEF IInv
  <1>4. /\ over \in BOOLEAN /\ parser' = Append(stack, r)
        /\ ~over => \A i \in 1 .. Depth : lex'[i] = Advanced[i]
    <2>1. /\ over \in BOOLEAN /\ parser' = Append(stack, r)
          /\ over => lex' = Advanced
          /\ ~over => /\ lex' # <<>>
                      /\ Len(lex') = Len(Advanced) + 1
                      /\ \A i \in 1 .. Len(Advanced) : lex'[i] = Advanced[i]
                      /\ lex'[Len(Advanced) + 1].file = n
                      /\ lex'[Len(Advanced) + 1].pos = 1
          /\ lex' \in Buffers
      BY <1>3, PushBuffers, Zenon
    <2> HIDE DEF stack, over, r
    <2> QED BY <1>3, <2>1
  <1>5. ~over
    <2>1. Depth <= Len(moduleList) /\ Len(moduleList) \in Nat
      BY LenProperties DEF IInv, TypeOK, Covered
    <2> QED BY <1>1, <1>3, <2>1, DepthAssumption DEF Roomy
  <1>6. r \in Parser /\ r.st \notin Inside /\ r.file = n /\ r.mod = NULL
    <2>1. r.mod = NULL
      BY DEF NewParser
    <2> HIDE DEF r
    <2> QED BY <1>4, <2>1, NewParserFacts DEF r
  <1> HIDE DEF stack, over, r
  <1>7. /\ Depth' = Depth + 1
        /\ \A i \in 1 .. Depth : parser'[i] = stack[i]
        /\ parser'[Depth + 1] = r
    <2>1. /\ Append(stack, r) \in Seq(Parser)
          /\ Len(Append(stack, r)) = Len(stack) + 1
          /\ \A i \in 1 .. Len(stack) : Append(stack, r)[i] = stack[i]
          /\ Append(stack, r)[Len(stack) + 1] = r
      BY <1>2, <1>6, AppendProperties, SMTT(30)
    <2> QED BY <1>2, <1>4, <2>1 DEF Depth
  <1>8. /\ \A i \in 1 .. Depth : i = Depth \/ i \in 1 .. Depth - 1
        /\ \A i \in 1 .. Depth + 1 : i \in 1 .. Depth \/ i = Depth + 1
        /\ \A i \in 1 .. Depth - 1 : i # Depth
    BY <1>1
  <1>9. \A i \in 1 .. Depth : /\ parser'[i].file = parser[i].file
                              /\ parser'[i].mod = parser[i].mod
                              /\ parser'[i].st \in Inside
                                   => parser[i].st \in Inside
                              /\ Apart(parser'[i])
    BY <1>1, <1>2, <1>7 DEF StackS, top
  <1>10. Reads'
    <2>1. Reading(q, Advanced[Depth].pos)
      BY ReadOn DEF StackS
    <2>2. \A i \in 1 .. Depth - 1 : Advanced[i] = lex[i]
      BY <1>1, OwnToken
    <2>3. \A i \in 1 .. Depth : Reading(parser'[i], lex'[i].pos)
      BY <1>2, <1>4, <1>5, <1>7, <1>8, <2>1, <2>2 DEF StackS, Reads
    <2>4. Reading(parser'[Depth + 1], lex'[Depth + 1].pos)
      BY <1>6, <1>7 DEF Reading
    <2> QED BY <1>7, <1>8, <2>3, <2>4, SameFiles DEF Reads
  <1>11. Mentioned'
    <2>1. ASSUME NEW i \in 1 .. Depth
          PROVE  parser'[i + 1].file \in Mentions(parser'[i].mod)
      <3>1. CASE i = Depth
        BY <1>6, <1>7, <1>9, <3>1 DEF top
      <3>2. CASE i \in 1 .. Depth - 1
        <4>1. i + 1 \in 1 .. Depth
          BY <1>1, <3>2
        <4> QED BY <1>9, <3>2, <4>1 DEF StackS, Mentioned
      <3> QED BY <1>8, <3>1, <3>2
    <2>2. Depth' - 1 = Depth
      BY <1>1, <1>7
    <2> QED BY <2>1, <2>2, SameFiles DEF Mentioned
  <1>12. Chained'
    <2>1. ASSUME NEW i \in 1 .. Depth + 1, NEW j \in 1 .. Depth + 1,
                 i < j, parser'[j].st \in Inside
          PROVE  Needs(parser'[i].mod, parser'[j].mod)
      <3>1. j \in 1 .. Depth
        BY <1>6, <1>7, <1>8, <2>1
      <3>2. i \in 1 .. Depth
        BY <1>1, <2>1, <3>1
      <3> QED BY <1>9, <2>1, <3>1, <3>2 DEF StackS, Chained
    <2> QED BY <1>7, <2>1, SameFiles DEF Chained
  <1>13. \A k : BeingParsed(k)' => BeingParsed(k)
    BY <1>6, <1>7, <1>8, <1>9 DEF BeingParsed
  <1>14. \A i \in 1 .. Depth' : Apart(parser'[i])
    BY <1>6, <1>7, <1>8, <1>9 DEF Apart
  <1> QED BY <1>10, <1>11, <1>12, <1>13, <1>14 DEF StackS, Apart

\* The innermost parser returns into the one that waits for it, now q.
LEMMA ReturnStack ==
  ASSUME IInv, RInv, BInv, Roomy, StackS, Leave, Depth > 1,
         NEW p, p = parser[Depth - 1], NEW q \in Parser,
         q.file = p.file, q.mod = p.mod, q.st \in Inside,
         q.st \in {"header", "imports"} => p.st \in {"header", "imports"},
         Apart(q),
         parser' = [SubSeq(parser, 1, Depth - 1) EXCEPT ![Depth - 1] = q]
  PROVE  StackS' /\ \A k : BeingParsed(k)' => BeingParsed(k)
  <1> DEFINE d     == Depth - 1
             stack == SubSeq(parser, 1, d)
  <1>1. /\ parser \in Seq(Parser) /\ DOMAIN parser = 1 .. Depth
        /\ Depth \in Nat \ {0} /\ parser # <<>> /\ UNCHANGED disk
        /\ \A i \in 1 .. Depth : parser[i] \in Parser
    BY LeaveFacts, StackFacts DEF IInv, TypeOK
  <1>2. /\ d \in Nat \ {0} /\ d \in 1 .. d /\ Depth = d + 1
        /\ \A i \in 1 .. d : i \in 1 .. Depth /\ (i = d \/ i \in 1 .. d - 1)
        /\ \A i \in 1 .. d - 1 : i \in 1 .. d /\ i # d /\ i + 1 \in 1 .. d
    BY <1>1
  <1>3. \A i \in 1 .. d : lex'[i] = lex[i] /\ lex[i].pos \in Nat
    BY <1>1, <1>2, LeaveBuffers, OwnToken
  <1> HIDE DEF d
  <1>4. /\ stack \in Seq(Parser) /\ Len(stack) = d
        /\ \A i \in 1 .. d : stack[i] = parser[i]
    BY <1>1, <1>2, SubSeqProperties
  <1>5. /\ Depth' = d
        /\ \A i \in 1 .. d : parser'[i] = IF i = d THEN q ELSE parser[i]
    <2>1. parser' = [stack EXCEPT ![d] = q]
      BY DEF d
    <2> HIDE DEF stack
    <2>2. /\ Len([stack EXCEPT ![d] = q]) = Len(stack)
          /\ \A i \in 1 .. Len(stack) : [stack EXCEPT ![d] = q][i]
               = IF i = d THEN q ELSE stack[i]
      BY <1>2, <1>4, ExceptSeq
    <2> QED BY <1>4, <2>1, <2>2 DEF Depth
  <1>6. \A i \in 1 .. d : i < Depth
    BY <1>2
  <1>7. \A i \in 1 .. d : /\ parser'[i].file = parser[i].file
                          /\ parser'[i].mod = parser[i].mod
                          /\ parser[i].st \in Inside
                          /\ Apart(parser'[i])
    BY <1>2, <1>5, <1>6 DEF StackS, IInv, Owners, d
  <1>8. Reads'
    <2>1. Reading(p, lex[d].pos)
      BY <1>2 DEF StackS, Reads, d
    <2>2. Reading(q, lex[d].pos)
      BY <2>1 DEF Reading
    <2>3. \A i \in 1 .. d : Reading(parser'[i], lex'[i].pos)
      BY <1>2, <1>3, <1>5, <2>2 DEF StackS, Reads
    <2> QED BY <1>1, <1>5, <2>3, SameFiles DEF Reads
  <1>9. Mentioned'
    <2>1. \A i \in 1 .. d - 1 : i \in 1 .. Depth - 1
      BY <1>2
    <2> QED BY <1>1, <1>2, <1>5, <1>7, <2>1, SameFiles DEF StackS, Mentioned
  <1>10. Chained'
    BY <1>1, <1>2, <1>5, <1>7, SameFiles DEF StackS, Chained
  <1>11. \A k : BeingParsed(k)' => BeingParsed(k)
    BY <1>2, <1>5, <1>7 DEF BeingParsed
  <1>12. \A i \in 1 .. Depth' : Apart(parser'[i])
    BY <1>5, <1>7
  <1> QED BY <1>8, <1>9, <1>10, <1>11, <1>12 DEF StackS, Apart

\* The parser outside of any module has read a header, and is now q.
LEMMA HeaderStack ==
  ASSUME IInv, RInv, BInv, Roomy, StackS, parser # <<>>, top.st \notin Inside,
         NEW q \in Parser, q.file = top.file, q.mod \in Name,
         Reading(q, Advanced[Depth].pos), Apart(q), SetTop(q), lex' = Advanced,
         UNCHANGED disk
  PROVE  /\ StackS'
         /\ \A k : BeingParsed(k)' =>
              BeingParsed(k) \/ (q.st \in Inside /\ k = q.mod)
  <1>1. /\ parser \in Seq(Parser) /\ DOMAIN parser = 1 .. Depth
        /\ Depth \in Nat \ {0} /\ Depth \in 1 .. Depth
    BY StackFacts DEF IInv, TypeOK
  <1>2. /\ Depth' = Depth
        /\ \A i \in 1 .. Depth :
             parser'[i] = IF i = Depth THEN q ELSE parser[i]
    BY <1>1, ExceptSeq DEF Depth, SetTop
  <1>3. /\ \A i \in 1 .. Depth : i = Depth \/ i \in 1 .. Depth - 1
        /\ \A i \in 1 .. Depth - 1 : /\ i \in 1 .. Depth /\ i # Depth
                                     /\ i + 1 \in 1 .. Depth /\ i < Depth
    BY <1>1
  <1>4. \A i \in 1 .. Depth : parser'[i].file = parser[i].file
    BY <1>1, <1>2 DEF top
  <1>5. Reads'
    <2>1. \A i \in 1 .. Depth - 1 : Advanced[i] = lex[i]
      BY <1>1, OwnToken
    <2>2. \A i \in 1 .. Depth : Reading(parser'[i], lex'[i].pos)
      BY <1>2, <1>3, <2>1 DEF StackS, Reads
    <2> QED BY <1>2, <2>2, SameFiles DEF Reads
  <1>6. Mentioned'
    <2>1. \A i \in 1 .. Depth - 1 : parser'[i] = parser[i]
      BY <1>2, <1>3
    <2> QED BY <1>2, <1>3, <1>4, <2>1, SameFiles DEF StackS, Mentioned
  <1>7. Chained'
    <2>1. ASSUME NEW i \in 1 .. Depth - 1
          PROVE  Needs(parser[i].mod, q.mod)
      <3> DEFINE d == Depth - 1
      <3>1. /\ d \in 1 .. Depth - 1 /\ d + 1 = Depth
            /\ i = d \/ i < d
        BY <1>1, <2>1
      <3>2. /\ parser[i].mod \in Name
            /\ parser[d].mod \in Name /\ parser[d].st \in Inside
        BY <1>3, <2>1, <3>1 DEF IInv, Owners
      <3>3. q.mod \in DependsOn(parser[d].mod)
        <4>1. q.file \in Mentions(parser[d].mod)
          BY <3>1 DEF StackS, Mentioned, top
        <4>2. q.mod \in Held(q.file)
          <5>1. q.file \in DOMAIN disk /\ q.mod # NULL
            BY <1>1, OwnToken, NameAssumption DEF top
          <5> QED BY <5>1, ReadIsHeld
        <4> QED BY <4>1, <4>2, HeldDepends
      <3>4. CASE i = d
        BY <3>2, <3>3, <3>4, NeedsDirectly
      <3>5. CASE i < d
        <4>1. Needs(parser[i].mod, parser[d].mod)
          BY <1>3, <2>1, <3>1, <3>2, <3>5 DEF StackS, Chained
        <4> QED BY <3>2, <3>3, <4>1, NeedsAlong
      <3> QED BY <3>1, <3>4, <3>5
    <2>2. ASSUME NEW i \in 1 .. Depth, NEW j \in 1 .. Depth,
                 i < j, parser'[j].st \in Inside
          PROVE  Needs(parser'[i].mod, parser'[j].mod)
      <3>1. i \in 1 .. Depth - 1 /\ i # Depth
        BY <1>1, <2>2
      <3>2. CASE j = Depth
        BY <1>2, <2>1, <3>1, <3>2
      <3>3. CASE j # Depth
        BY <1>2, <2>2, <3>1, <3>3 DEF StackS, Chained
      <3> QED BY <3>2, <3>3
    <2> QED BY <1>2, <2>2, SameFiles DEF Chained
  <1>8. \A k : BeingParsed(k)' =>
          BeingParsed(k) \/ (q.st \in Inside /\ k = q.mod)
    BY <1>2 DEF BeingParsed
  <1>9. \A i \in 1 .. Depth' : Apart(parser'[i])
    BY <1>2 DEF StackS
  <1> QED BY <1>5, <1>6, <1>7, <1>8, <1>9 DEF StackS, Apart

\* With a single new parser, or none, there is nobody that waits.
LEMMA FreshStack ==
  ASSUME \/ parser' = <<>>
         \/ \E r \in Parser : /\ parser' = <<r>> /\ r.mod = NULL
                              /\ r.st \notin Inside
  PROVE  StackS' /\ \A k : ~BeingParsed(k)'
  <1>1. CASE parser' = <<>>
    <2>1. Depth' = 0
      BY <1>1, EmptySeq DEF Depth
    <2>2. Reads' /\ Mentioned' /\ Chained' /\ \A k : ~BeingParsed(k)'
      BY <2>1 DEF Reads, Mentioned, Chained, BeingParsed
    <2>3. \A i \in 1 .. Depth' : Apart(parser'[i])
      BY <2>1
    <2> QED BY <2>2, <2>3 DEF StackS, Apart
  <1>2. CASE \E r \in Parser : /\ parser' = <<r>> /\ r.mod = NULL
                               /\ r.st \notin Inside
    <2>1. PICK r \in Parser : /\ parser' = <<r>> /\ r.mod = NULL
                              /\ r.st \notin Inside
      BY <1>2
    <2>2. Depth' = 1 /\ parser'[1] = r
      BY <2>1 DEF Depth
    <2>3. \A i \in 1 .. Depth' : i = 1
      BY <2>2
    <2>4. Mentioned' /\ Chained' /\ \A k : ~BeingParsed(k)'
      BY <2>1, <2>2, <2>3 DEF Mentioned, Chained, BeingParsed
    <2>5. Reads'
      BY <2>1, <2>2, <2>3 DEF Reads, Reading
    <2>6. \A i \in 1 .. Depth' : Apart(parser'[i])
      BY <2>1, <2>2, <2>3 DEF Apart
    <2> QED BY <2>4, <2>5, <2>6 DEF StackS, Apart
  <1> QED BY <1>1, <1>2

-----------------------------------------------------------------------------
(* Imports that were not found.                                            *)

\* While nobody starts to parse a module of the list, and only modules that
\* are being parsed get definitions, an import stays excused.
LEMMA ExcusedStays ==
  ASSUME UNCHANGED disk, \A x : Listed(x) => Listed(x)',
         \A k \in Name : Listed(k) => (BeingParsed(k)' => BeingParsed(k)),
         \A k \in Name : Listed(k) /\ ~BeingParsed(k)
                           => module'[k].defs \subseteq module[k].defs,
         NEW imp \in Import, NEW n, Excused(imp, n)
  PROVE  Excused(imp, n)'
  <1> SUFFICES ASSUME imp.kind = "notfound", imp.from # NULL,
                      ~Needs(imp.from, n)
               PROVE  /\ Listed(imp.from)' /\ ~BeingParsed(imp.from)'
                      /\ imp.sym \notin module'[imp.from].defs
    BY SameFiles DEF Excused
  <1>1. imp.from \in Name
    BY DEF Import
  <1> QED BY <1>1 DEF Excused

\* A module whose parser is not yet through is looked up in for n only if
\* the module needs n.
LEMMA SettleExcused ==
  ASSUME NEW imps \in Seq(Import), NEW m \in Name \cup {NULL}, NEW n,
         m # NULL => Listed(m) /\ (BeingParsed(m) => Needs(m, n)),
         \A i \in DOMAIN imps : Excused(imps[i], n)
  PROVE  \A i \in DOMAIN Settle(imps, m) : Excused(Settle(imps, m)[i], n)
  <1> SUFFICES ASSUME NEW i \in DOMAIN imps
               PROVE  Excused(Settle(imps, m)[i], n)
    BY DEF Settle
  <1>1. CASE imps[i].kind # "unknown"
    BY <1>1, SettleFacts
  <1>2. CASE imps[i].kind = "unknown"
    <2> DEFINE new == Settle(imps, m)[i]
    <2>1. imps[i] \in Import
      BY LenProperties, ElementOfSeq
    <2>2. Class[imps[i].sym] # "notfound"
      BY <2>1, ClassAssumption DEF Import, Classes
    <2>3. new.sym = imps[i].sym /\ new.from = m
      BY <1>2, SettleFacts
    <2>4. m # NULL /\ imps[i].sym \in Visible(m) => new.kind # "notfound"
      <3>1. ASSUME m # NULL, imps[i].sym \in Visible(m)
            PROVE  new.kind = Class[imps[i].sym]
        <4>1. new = [imps[i] EXCEPT !.from = m, !.kind = Class[imps[i].sym]]
          BY <1>2, <3>1 DEF Settle
        <4> HIDE DEF new
        <4> QED BY <2>1, <4>1 DEF Import
      <3> QED BY <2>2, <3>1
    <2> HIDE DEF new
    <2>5. Excused(new, n)
      BY <2>3, <2>4 DEF Excused, Visible
    <2> QED BY <2>5 DEF new
  <1> QED BY <1>1, <1>2

LEMMA ContinuesExcused ==
  ASSUME NEW rec, NEW imps, Continues(rec, imps), NEW n,
         \A i \in DOMAIN rec.imports : Excused(rec.imports[i], n)
  PROVE  \A i \in DOMAIN imps : Excused(imps[i], n)
  BY DEF Continues, Excused

LEMMA ReferredExcused ==
  ASSUME NEW rec \in Module, NEW s \in Symbol, NEW scope, NEW n,
         \A i \in DOMAIN rec.imports : Excused(rec.imports[i], n),
         NEW new, new = Referred(rec, s, scope)
  PROVE  \A i \in DOMAIN new.imports : Excused(new.imports[i], n)
  <1> DEFINE from == IF scope["compliance"] # NULL THEN scope["compliance"]
                     ELSE scope["capabilities"]
             imp  == [sym |-> s, from |-> from, kind |-> "unknown",
                      inc |-> TRUE]
             imps == Append(rec.imports, imp)
             longer == [rec EXCEPT !.imports = imps]
             fwd    == [rec EXCEPT !.fwd = @ \cup {s}]
  <1>1. new = rec \/ new = longer \/ new = fwd
    BY DEF Referred
  <1>2. fwd.imports = rec.imports /\ longer.imports = imps
    BY DEF Module
  <1>3. imp.kind = "unknown" /\ rec.imports \in Seq(Import)
    BY DEF Module
  <1>4. /\ Len(rec.imports) \in Nat
        /\ DOMAIN rec.imports = 1 .. Len(rec.imports)
        /\ DOMAIN imps = 1 .. Len(rec.imports) + 1
        /\ \A i \in 1 .. Len(rec.imports) : imps[i] = rec.imports[i]
        /\ imps[Len(rec.imports) + 1] = imp
    BY LenProperties DEF Module
  <1> HIDE DEF imp, imps, longer, fwd
  <1>5. \A i \in DOMAIN imps : \/ i \in DOMAIN rec.imports
                                  /\ imps[i] = rec.imports[i]
                               \/ imps[i].kind = "unknown"
    BY <1>3, <1>4
  <1>6. \A i \in DOMAIN imps : Excused(imps[i], n)
    BY <1>5 DEF Excused
  <1> QED BY <1>1, <1>2, <1>6

\* Module m gets the record new.
LEMMA ExcusedStep ==
  ASSUME IInv, AllExcused, NEW m \in Name, NEW new \in Module,
         module' = [module EXCEPT ![m] = new], UNCHANGED <<disk, moduleList>>,
         \A k : BeingParsed(k)' => BeingParsed(k),
         new.defs = module[m].defs \/ BeingParsed(m),
         \A i \in DOMAIN new.imports : Excused(new.imports[i], m)
  PROVE  AllExcused'
  <1>1. \A n \in Name : module'[n] = IF n = m THEN new ELSE module[n]
    BY DEF IInv, TypeOK
  <1>2. \A n \in Name : \A i \in DOMAIN module'[n].imports :
          /\ module'[n].imports[i] \in Import
          /\ Excused(module'[n].imports[i], n)
    <2>1. \A n \in Name : module'[n] \in Module
      BY <1>1 DEF IInv, TypeOK
    <2>2. \A n \in Name : \A i \in DOMAIN module'[n].imports :
            module'[n].imports[i] \in Import
      <3> SUFFICES ASSUME NEW n \in Name, NEW i \in DOMAIN module'[n].imports
                   PROVE  module'[n].imports[i] \in Import
        OBVIOUS
      <3>1. module'[n].imports \in Seq(Import)
        BY <2>1 DEF Module
      <3> QED BY <3>1, LenProperties, ElementOfSeq
    <2> QED BY <1>1, <2>2 DEF AllExcused
  <1>3. \A k \in Name : Listed(k) /\ ~BeingParsed(k)
                          => module'[k].defs \subseteq module[k].defs
    BY <1>1
  <1>4. \A x : Listed(x) => Listed(x)'
    BY DEF Listed
  <1>5. \A imp \in Import : \A n : Excused(imp, n) => Excused(imp, n)'
    BY <1>3, <1>4, ExcusedStays
  <1> QED BY <1>2, <1>5 DEF AllExcused, Excused

LEMMA SameExcused ==
  ASSUME IInv, AllExcused, UNCHANGED <<disk, moduleList, module>>,
         \A k : BeingParsed(k)' => BeingParsed(k)
  PROVE  AllExcused'
  <1>1. \A n \in Name : \A i \in DOMAIN module[n].imports :
          module[n].imports[i] \in Import
    <2> SUFFICES ASSUME NEW n \in Name, NEW i \in DOMAIN module[n].imports
                 PROVE  module[n].imports[i] \in Import
      OBVIOUS
    <2>1. module[n].imports \in Seq(Import)
      BY DEF IInv, TypeOK, Module
    <2> QED BY <2>1, LenProperties, ElementOfSeq
  <1>2. \A x : Listed(x) => Listed(x)'
    BY DEF Listed
  <1>3. \A imp \in Import : \A n : Excused(imp, n) => Excused(imp, n)'
    BY <1>2, ExcusedStays
  <1> QED BY <1>1, <1>3 DEF AllExcused, Excused

-----------------------------------------------------------------------------
(* Each step keeps the imports excused.                                    *)

\* The running parser goes on as q, and no record changes.
LEMMA PlainExcused ==
  ASSUME IInv, RInv, BInv, Roomy, SParts, parser # <<>>, NEW q \in Parser,
         q.file = top.file, q.mod = top.mod,
         q.st \in Inside => top.st \in Inside,
         q.st \notin {"header", "imports"}, Apart(q),
         SetTop(q), lex' = Advanced, UNCHANGED <<disk, moduleList, module>>
  PROVE  SParts'
  <1>1. StackS' /\ \A k : BeingParsed(k)' => BeingParsed(k)
    BY TopStack DEF SParts
  <1> QED BY <1>1, SameExcused DEF SParts

\* The running parser goes on as q, and leaves the record new.
LEMMA InsideExcused ==
  ASSUME IInv, RInv, BInv, Roomy, SParts, parser # <<>>, top.st \in Inside,
         NEW q \in Parser, q.file = top.file, q.mod = top.mod,
         q.st \in {"header", "imports"}
           => top.st \in {"header", "imports"} /\ tok.op \notin {"module", "pib"},
         Apart(q), NEW new \in Module,
         \A i \in DOMAIN new.imports : Excused(new.imports[i], top.mod),
         module' = [module EXCEPT ![top.mod] = new],
         SetTop(q), lex' = Advanced, UNCHANGED <<disk, moduleList>>
  PROVE  SParts'
  <1>1. StackS' /\ \A k : BeingParsed(k)' => BeingParsed(k)
    BY TopStack DEF SParts
  <1>2. top.mod \in Name
    BY InsideFacts
  <1>3. BeingParsed(top.mod)
    <2>1. Depth \in 1 .. Depth
      BY StackFacts DEF IInv, TypeOK
    <2> QED BY <2>1 DEF BeingParsed, top
  <1> QED BY <1>1, <1>2, <1>3, ExcusedStep DEF SParts

\* What is known of the running parser and of its module.
LEMMA TopExcused ==
  ASSUME IInv, RInv, SParts, parser # <<>>, top.st \in Inside
  PROVE  /\ Apart(top) /\ top.mod \in Name
         /\ \A i \in DOMAIN module[top.mod].imports :
              Excused(module[top.mod].imports[i], top.mod)
  <1>1. Depth \in 1 .. Depth
    BY StackFacts DEF IInv, TypeOK
  <1>2. Apart(top)
    BY <1>1 DEF SParts, StackS, top
  <1> QED BY <1>2, InsideFacts DEF SParts, AllExcused

\* A module that is being parsed below the parser j needs the module of j.
LEMMA NeedsAbove ==
  ASSUME IInv, StackS, NEW j \in 1 .. Depth, parser[j].st \in Inside,
         \A i \in 1 .. Depth : j < i => parser[i].st \notin Inside,
         NEW k, BeingParsed(k), k # parser[j].mod
  PROVE  Needs(k, parser[j].mod)
  <1>1. PICK i \in 1 .. Depth : parser[i].st \in Inside /\ parser[i].mod = k
    BY DEF BeingParsed
  <1>2. i < j
    BY <1>1
  <1> QED BY <1>1, <1>2 DEF StackS, Chained

\* A module that is looked up at the end of a clause or of an import of the
\* running parser, other than its own, needs the one of that parser.
LEMMA NeedsTop ==
  ASSUME IInv, StackS, parser # <<>>, top.st \in Inside,
         NEW k, BeingParsed(k), k # top.mod
  PROVE  Needs(k, top.mod)
  <1>1. Depth \in Nat /\ Depth \in 1 .. Depth
    BY StackFacts DEF IInv, TypeOK
  <1>2. \A i \in 1 .. Depth : ~(Depth < i)
    BY <1>1
  <1> QED BY <1>1, <1>2, NeedsAbove DEF top

LEMMA LinkageExcused ==
  ASSUME IInv, RInv, BInv, Roomy, SParts, LinkageClause
  PROVE  SParts'
  <1> DEFINE q   == [top EXCEPT !.st = "body"]
             rec == module[top.mod]
             new == [rec EXCEPT !.language = LinkageLanguage(@)]
  <1>1. parser # <<>> /\ top.st \in Inside
    BY DEF LinkageClause, Inside, Running
  <1>2. top \in Parser /\ rec \in Module
    BY <1>1, InsideFacts
  <1>3. /\ q \in Parser /\ q.file = top.file /\ q.mod = top.mod
        /\ q.st = "body" /\ q.scope = top.scope
    BY <1>2 DEF Parser
  <1>4. new \in Module /\ new.imports = rec.imports
    BY <1>2 DEF Module, LinkageLanguage
  <1>5. /\ SetTop(q) /\ lex' = Advanced /\ UNCHANGED <<disk, moduleList>>
        /\ module' = [module EXCEPT ![top.mod] = new]
    BY DEF LinkageClause
  <1> HIDE DEF q, new
  <1>6. Apart(q)
    BY <1>1, <1>3, TopExcused DEF Apart
  <1>7. \A i \in DOMAIN new.imports : Excused(new.imports[i], top.mod)
    BY <1>1, <1>4, TopExcused
  <1> QED BY <1>1, <1>3, <1>4, <1>5, <1>6, <1>7, InsideExcused

LEMMA EndModuleExcused ==
  ASSUME IInv, RInv, BInv, Roomy, SParts, EndModule
  PROVE  SParts'
  <1> DEFINE q   == [top EXCEPT !.st = "file", !.scope["capabilities"] = NULL]
             rec == module[top.mod]
             new == [rec EXCEPT !.complete = TRUE,
                       !.language = IF @ = "unknown" THEN "smiv1" ELSE @]
  <1>1. parser # <<>> /\ top.st \in Inside
    BY DEF EndModule, InBody, Inside, Running
  <1>2. top \in Parser /\ rec \in Module
    BY <1>1, InsideFacts
  <1>3. /\ q \in Parser /\ q.file = top.file /\ q.mod = top.mod
        /\ q.st = "file"
    BY <1>2 DEF Parser
  <1>4. new \in Module /\ new.imports = rec.imports
    BY <1>2 DEF Module
  <1>5. /\ SetTop(q) /\ lex' = Advanced /\ UNCHANGED <<disk, moduleList>>
        /\ module' = [module EXCEPT ![top.mod] = new]
    BY DEF EndModule
  <1> HIDE DEF q, new
  <1>6. Apart(q)
    BY <1>3 DEF Apart, Inside, Clauses
  <1>7. \A i \in DOMAIN new.imports : Excused(new.imports[i], top.mod)
    BY <1>1, <1>4, TopExcused
  <1> QED BY <1>1, <1>3, <1>4, <1>5, <1>6, <1>7, InsideExcused

LEMMA DeclarationExcused ==
  ASSUME IInv, RInv, BInv, Roomy, SParts, Declaration
  PROVE  SParts'
  <1> DEFINE q   == [top EXCEPT !.st = "body"]
             rec == module[top.mod]
             ref == IF Len(tok.syms) = 1 THEN rec
                    ELSE Referred(rec, tok.syms[2], top.scope)
             new == Declared(ref, tok.op, tok.syms[1])
  <1>1. /\ Running /\ parser # <<>> /\ top.st \in Inside
        /\ tok.syms # <<>> /\ tok \in Token
    BY RunningFacts DEF Declaration, InBody, Inside, Running
  <1>2. top \in Parser /\ top.mod \in Name /\ rec \in Module
    BY <1>1, InsideFacts
  <1>3. tok.syms[1] \in Symbol
        /\ (Len(tok.syms) # 1 => tok.syms[2] \in Symbol)
    <2> DEFINE k == Len(tok.syms)
    <2>1. k \in Nat \ {0} /\ \A i \in 1 .. k : tok.syms[i] \in Symbol
      BY <1>1, TokenFields, EmptySeq, LenProperties, ElementOfSeq
    <2>2. 1 \in 1 .. k /\ (k # 1 => 2 \in 1 .. k)
      <3>1. k \in Nat /\ k # 0
        BY <2>1
      <3> HIDE DEF k
      <3> QED BY <3>1
    <2> QED BY <2>1, <2>2
  <1>4. /\ ref \in Module
        /\ \A i \in DOMAIN ref.imports : Excused(ref.imports[i], top.mod)
    <2>1. CASE Len(tok.syms) = 1
      BY <1>1, <1>2, <2>1, TopExcused
    <2>2. CASE Len(tok.syms) # 1
      <3>1. ref = Referred(rec, tok.syms[2], top.scope)
        BY <2>2
      <3>2. top.scope \in [Clauses -> Name \cup {NULL}]
        BY <1>2 DEF Parser
      <3>3. ref \in Module
        BY <1>2, <1>3, <2>2, <3>1, <3>2, ReferredType
      <3>4. \A i \in DOMAIN rec.imports : Excused(rec.imports[i], top.mod)
        BY <1>1, TopExcused
      <3> HIDE DEF ref, rec
      <3> QED BY <1>2, <1>3, <2>2, <3>1, <3>3, <3>4, ReferredExcused
    <2> QED BY <2>1, <2>2
  <1>5. /\ q \in Parser /\ q.file = top.file /\ q.mod = top.mod
        /\ q.st = "body" /\ q.scope = top.scope
    BY <1>2 DEF Parser
  <1>6. /\ SetTop(q) /\ lex' = Advanced /\ UNCHANGED <<disk, moduleList>>
        /\ module' = [module EXCEPT ![top.mod] = new]
    BY DEF Declaration, Declared
  <1> HIDE DEF q, ref
  <1>7. new \in Module /\ new.imports = ref.imports
    <2>1. new.imports = ref.imports
      BY <1>4 DEF Declared, Module
    <2> QED BY <1>3, <1>4, <2>1, DeclaredType
  <1> HIDE DEF new
  <1>8. Apart(q)
    BY <1>1, <1>5, TopExcused DEF Apart
  <1>9. \A i \in DOMAIN new.imports : Excused(new.imports[i], top.mod)
    BY <1>4, <1>7
  <1> QED BY <1>1, <1>5, <1>6, <1>7, <1>8, <1>9, InsideExcused

LEMMA ClauseReferenceExcused ==
  ASSUME IInv, RInv, BInv, Roomy, SParts, ClauseReference
  PROVE  SParts'
  <1> DEFINE rec == module[top.mod]
             new == Referred(rec, tok.syms[1], top.scope)
  <1>1. /\ Running /\ parser # <<>> /\ top.st \in Inside
        /\ top.st \in Clauses /\ tok.syms # <<>> /\ tok \in Token
    BY RunningFacts DEF ClauseReference, Inside, Running
  <1>2. top \in Parser /\ top.mod \in Name /\ rec \in Module
    BY <1>1, InsideFacts
  <1>3. tok.syms[1] \in Symbol
    <2>1. tok.syms \in Seq(Symbol)
      BY <1>1, TokenFields
    <2>2. 1 \in 1 .. Len(tok.syms)
      BY <1>1, <2>1, EmptySeq, LenProperties
    <2> QED BY <2>1, <2>2, ElementOfSeq
  <1>4. new \in Module
    <2>1. top.scope \in [Clauses -> Name \cup {NULL}]
      BY <1>2 DEF Parser
    <2> QED BY <1>2, <1>3, <2>1, ReferredType
  <1>5. \A i \in DOMAIN new.imports : Excused(new.imports[i], top.mod)
    <2>1. \A i \in DOMAIN rec.imports : Excused(rec.imports[i], top.mod)
      BY <1>1, TopExcused
    <2> HIDE DEF rec
    <2> QED BY <1>2, <1>3, <2>1, ReferredExcused
  <1>6. SetTop(top) /\ lex' = Advanced /\ UNCHANGED <<disk, moduleList>>
        /\ module' = [module EXCEPT ![top.mod] = new]
    <2>1. parser = [parser EXCEPT ![Depth] = top]
      BY <1>1, StackFacts DEF top, IInv, TypeOK
    <2> QED BY <2>1 DEF SetTop, ClauseReference
  <1> HIDE DEF new
  <1>7. top.st \notin {"header", "imports"}
    BY <1>1 DEF Clauses
  <1> QED BY <1>1, <1>2, <1>4, <1>5, <1>6, <1>7, TopExcused, InsideExcused

LEMMA EndClauseExcused ==
  ASSUME IInv, RInv, BInv, Roomy, SParts, EndClause
  PROVE  SParts'
  <1> DEFINE q   == [top EXCEPT !.st = "body", !.scope[top.st] = NULL]
             m   == top.scope[top.st]
             rec == module[top.mod]
             new == [rec EXCEPT !.imports = Settle(rec.imports, m)]
  <1>1. /\ parser # <<>> /\ top.st \in Clauses /\ top.st \in Inside
    BY DEF EndClause, Inside, Running
  <1>2. top \in Parser /\ rec \in Module /\ Holds(top)
    BY <1>1, InsideFacts
  <1>3. /\ q \in Parser /\ q.file = top.file /\ q.mod = top.mod
        /\ q.st = "body"
        /\ \A c \in Clauses : q.scope[c] = NULL \/ q.scope[c] = top.scope[c]
    BY <1>1, <1>2 DEF Parser, Clauses
  <1>4. /\ m \in Name \cup {NULL}
        /\ m # NULL => Listed(m) /\ m # top.mod
    BY <1>1, <1>2, TopExcused DEF Parser, Holds, Apart
  <1>5. SetTop(q) /\ lex' = Advanced /\ UNCHANGED <<disk, moduleList>>
    BY DEF EndClause
  <1>6. Apart(q)
    BY <1>1, <1>3, TopExcused DEF Apart
  <1>7. CASE m = NULL
    <2>1. module' = module
      BY <1>7 DEF EndClause
    <2>2. q.st \in Inside => top.st \in Inside
      BY <1>1
    <2>3. q.st \notin {"header", "imports"}
      BY <1>3
    <2> HIDE DEF q
    <2> QED BY <1>1, <1>3, <1>5, <1>6, <2>1, <2>2, <2>3, PlainExcused
  <1>8. CASE m # NULL
    <2>1. module' = [module EXCEPT ![top.mod] = new]
      BY <1>8 DEF EndClause
    <2>2. rec.imports \in Seq(Import)
      BY <1>2 DEF Module
    <2>3. new \in Module /\ new.imports = Settle(rec.imports, m)
      <3>1. Settle(rec.imports, m) \in Seq(Import)
        BY <1>4, <2>2, SettleType
      <3> QED BY <1>2, <3>1 DEF Module
    <2> HIDE DEF m, q
    <2>4. \A i \in DOMAIN new.imports : Excused(new.imports[i], top.mod)
      <3>1. BeingParsed(m) => Needs(m, top.mod)
        BY <1>1, <1>4, <1>8, NeedsTop DEF SParts
      <3>2. \A i \in DOMAIN rec.imports : Excused(rec.imports[i], top.mod)
        BY <1>1, TopExcused
      <3> HIDE DEF rec, new
      <3>3. \A i \in DOMAIN Settle(rec.imports, m) :
              Excused(Settle(rec.imports, m)[i], top.mod)
        BY <1>4, <2>2, <3>1, <3>2, SettleExcused
      <3> QED BY <2>3, <3>3
    <2> HIDE DEF new
    <2> QED BY <1>1, <1>3, <1>5, <1>6, <2>1, <2>3, <2>4, InsideExcused
  <1> QED BY <1>7, <1>8

LEMMA FlushExcused ==
  ASSUME IInv, RInv, BInv, Roomy, SParts, FlushDeclaration
  PROVE  SParts'
  <1> DEFINE st == IF tok.op \in {"ref", "endclause", "flush"} \cup Declarations
                   THEN "body" ELSE "recover"
             q  == [top EXCEPT !.st = st]
  <1>1. /\ parser # <<>> /\ top.st \in Inside
    BY DEF FlushDeclaration, Inside, Clauses, Running
  <1>2. top \in Parser
    BY <1>1, InsideFacts
  <1>3. /\ q \in Parser /\ q.file = top.file /\ q.mod = top.mod
        /\ q.st \in {"body", "recover"} /\ q.scope = top.scope
    BY <1>2 DEF Parser
  <1>4. /\ SetTop(q) /\ lex' = Advanced
        /\ UNCHANGED <<disk, moduleList, module>>
    BY DEF FlushDeclaration
  <1> HIDE DEF q
  <1>5. Apart(q)
    BY <1>1, <1>3, TopExcused DEF Apart
  <1> QED BY <1>1, <1>3, <1>4, <1>5, PlainExcused

LEMMA EndOfParseExcused ==
  ASSUME IInv, RInv, BInv, Roomy, SParts, EndOfParse
  PROVE  SParts'
  <1> DEFINE q == [top EXCEPT !.st = "done"]
  <1>1. parser # <<>> /\ top \in Parser
    BY StackFacts DEF EndOfParse, Running, IInv, TypeOK
  <1>2. /\ q \in Parser /\ q.file = top.file /\ q.mod = top.mod
        /\ q.st = "done"
    BY <1>1 DEF Parser
  <1>3. /\ SetTop(q) /\ lex' = Advanced
        /\ UNCHANGED <<disk, moduleList, module>>
    BY DEF EndOfParse
  <1> HIDE DEF q
  <1>4. Apart(q) /\ q.st \notin Inside
    BY <1>2 DEF Apart, Inside, Clauses
  <1> QED BY <1>1, <1>2, <1>3, <1>4, PlainExcused

\* A parser enters, or comes back to, a clause about another module.
LEMMA EnterScopeApart ==
  ASSUME NEW p \in Parser, p.st \in Inside, Apart(p), NEW c \in Clauses,
         NEW m \in Name \cup {NULL}, NEW q, q = EnterScope(p, c, m)
  PROVE  /\ q \in Parser /\ q.file = p.file /\ q.mod = p.mod /\ q.st = c
         /\ q.st \in Inside /\ q.st \notin {"header", "imports"} /\ Apart(q)
  <1>1. /\ q \in Parser /\ q.file = p.file /\ q.mod = p.mod /\ q.st = c
        /\ q.scope[c] = IF m = p.mod THEN NULL ELSE m
        /\ \A x \in Clauses : x # c => q.scope[x] = p.scope[x]
    BY DEF EnterScope, Parser, Clauses
  <1>2. Apart(q)
    BY <1>1 DEF Apart
  <1> QED BY <1>1, <1>2 DEF Inside, Clauses

LEMMA ClauseModuleExcused ==
  ASSUME IInv, RInv, BInv, Roomy, SParts, ClauseModule
  PROVE  SParts'
  <1> DEFINE q == [top EXCEPT !.wait = tok.op, !.asked = tok.name]
  <1>1. /\ Running /\ parser # <<>> /\ top.st \in Inside
        /\ tok.op \in Clauses /\ tok \in Token
        /\ UNCHANGED <<disk, moduleList, module>>
    BY RunningFacts DEF ClauseModule, InBody, Inside, Running
  <1>2. top \in Parser /\ top.mod \in Name /\ Apart(top)
    BY <1>1, InsideFacts, TopExcused
  <1>3. tok.name \in Name /\ tok.op \notin {"import", "module", "pib"}
    BY <1>1, TokenFields DEF Clauses
  <1>4. ASSUME NEW m \in Name \cup {NULL},
               SetTop(EnterScope(top, tok.op, m)), lex' = Advanced
        PROVE  SParts'
    <2> DEFINE s == EnterScope(top, tok.op, m)
    <2>1. /\ s \in Parser /\ s.file = top.file /\ s.mod = top.mod
          /\ s.st \in Inside /\ s.st \notin {"header", "imports"} /\ Apart(s)
      BY <1>1, <1>2, <1>4, EnterScopeApart
    <2> HIDE DEF s
    <2>2. SetTop(s)
      BY <1>4 DEF s
    <2> QED BY <1>1, <1>4, <2>1, <2>2, PlainExcused
  <1>5. ASSUME Push([parser EXCEPT ![Depth].wait = tok.op,
                                   ![Depth].asked = tok.name],
                    Advanced, tok.name)
        PROVE  SParts'
    <2>1. /\ q \in Parser /\ q.st = top.st /\ q.mod = top.mod
          /\ q.file = top.file /\ q.scope = top.scope
      BY <1>1, <1>2, <1>3 DEF Parser
    <2>2. Push([parser EXCEPT ![Depth] = q], Advanced, tok.name)
      BY <1>5 DEF top
    <2> HIDE DEF q
    <2>3. Apart(q)
      BY <1>2, <2>1 DEF Apart
    <2>4. tok.name \in Mentions(top.mod)
      BY <1>1, <1>2, <1>3, AskedIsMentioned, NameAssumption DEF SParts, StackS
    <2>5. StackS' /\ \A k : BeingParsed(k)' => BeingParsed(k)
      BY <1>1, <1>3, <2>1, <2>2, <2>3, <2>4, PushStack DEF SParts
    <2> QED BY <1>1, <2>5, SameExcused DEF SParts
  <1> QED BY <1>3, <1>4, <1>5, NameAssumption DEF ClauseModule

LEMMA ImportExcused ==
  ASSUME IInv, RInv, BInv, Roomy, SParts, ImportClause
  PROVE  SParts'
  <1> DEFINE n    == tok.name
             rec  == module[top.mod]
             imps == AddImports(rec.imports, tok.syms)
             q    == [top EXCEPT !.st = "imports"]
             r    == [top EXCEPT !.st = "imports", !.wait = "import",
                                 !.asked = n]
  <1>1. /\ Running /\ parser # <<>> /\ top.st \in {"header", "imports"}
        /\ top.st \in Inside /\ tok.op = "import" /\ tok \in Token
        /\ UNCHANGED <<disk, moduleList>>
    BY RunningFacts DEF ImportClause, Inside, Running
  <1>2. /\ top \in Parser /\ top.mod \in Name /\ rec \in Module /\ Apart(top)
        /\ \A i \in DOMAIN rec.imports : Excused(rec.imports[i], top.mod)
    BY <1>1, InsideFacts, TopExcused
  <1>3. n \in Name /\ tok.syms \in Seq(Symbol)
    BY <1>1, TokenFields
  <1>4. imps \in Seq(Import)
        /\ \A i \in DOMAIN imps : Excused(imps[i], top.mod)
    <2>1. rec.imports \in Seq(Import)
      BY <1>2 DEF Module
    <2>2. imps \in Seq(Import) /\ Continues(rec, imps)
      BY <1>3, <2>1, AddImportsType, AddImportsFacts DEF Continues
    <2> HIDE DEF rec, imps
    <2> QED BY <1>2, <2>2, ContinuesExcused
  <1>5. n \in Mentions(top.mod)
    BY <1>1, <1>2, AskedIsMentioned, NameAssumption DEF SParts, StackS
  <1>6. BeingParsed(n) => Needs(n, top.mod)
    <2>1. CASE n = top.mod
      <3>1. n \in DependsOn(top.mod)
        BY <1>5, HeldDepends
      <3> QED BY <1>2, <2>1, <3>1, NeedsDirectly
    <2>2. CASE n # top.mod
      BY <1>1, <2>2, NeedsTop DEF SParts
    <2> QED BY <2>1, <2>2
  <1>7. ASSUME NEW from \in Name \cup {NULL},
               from # NULL => Listed(from) /\ from = n,
               NEW f, f = FinishImport(imps, n, from, rec.language),
               module' = [module EXCEPT ![top.mod].imports  = f.imports,
                                        ![top.mod].language = f.language],
               SetTop(q), lex' = Advanced
        PROVE  SParts'
    <2> DEFINE new == [rec EXCEPT !.imports = f.imports,
                                  !.language = f.language]
    <2>1. module' = [module EXCEPT ![top.mod] = new]
      BY <1>7
    <2>2. /\ f.imports \in Seq(Import) /\ f.imports = Settle(imps, from)
          /\ f.language \in {"unknown", "smiv1", "smiv2", "sppi"}
      <3>1. rec.language \in {"unknown", "smiv1", "smiv2", "sppi"}
        BY <1>2 DEF Module
      <3>2. f.imports = Settle(imps, from)
        BY <1>7 DEF FinishImport
      <3> HIDE DEF imps, n, rec
      <3> QED BY <1>4, <1>7, <3>1, <3>2, FinishImportType
    <2>3. new \in Module /\ new.imports = f.imports
      BY <1>2, <2>2 DEF Module
    <2>4. \A i \in DOMAIN new.imports : Excused(new.imports[i], top.mod)
      <3> HIDE DEF imps, n, rec, new
      <3>1. from # NULL => Listed(from)
                           /\ (BeingParsed(from) => Needs(from, top.mod))
        BY <1>6, <1>7
      <3>2. \A i \in DOMAIN Settle(imps, from) :
              Excused(Settle(imps, from)[i], top.mod)
        BY <1>4, <3>1, SettleExcused
      <3> QED BY <2>2, <2>3, <3>2
    <2>5. /\ q \in Parser /\ q.file = top.file /\ q.mod = top.mod
          /\ q.st = "imports" /\ q.scope = top.scope
      BY <1>2 DEF Parser
    <2> HIDE DEF new, q
    <2>6. Apart(q)
      BY <1>1, <1>2, <2>5 DEF Apart
    <2>7. tok.op \notin {"module", "pib"}
      BY <1>1
    <2> QED BY <1>1, <1>7, <2>1, <2>3, <2>4, <2>5, <2>6, <2>7, InsideExcused
  <1>8. ASSUME module' = [module EXCEPT ![top.mod].imports = imps],
               Push([parser EXCEPT ![Depth].st = "imports",
                                   ![Depth].wait = "import",
                                   ![Depth].asked = n], Advanced, n)
        PROVE  SParts'
    <2> DEFINE new == WithImports(rec, imps)
    <2>1. module' = [module EXCEPT ![top.mod] = new]
      BY <1>8 DEF WithImports
    <2>2. /\ new \in Module /\ new.imports = imps
          /\ new.defs = module[top.mod].defs
      BY <1>2, <1>4 DEF Module, WithImports
    <2>3. /\ r \in Parser /\ r.file = top.file /\ r.mod = top.mod
          /\ r.st = "imports" /\ r.scope = top.scope /\ r.st \in Inside
      BY <1>2, <1>3 DEF Parser, Inside
    <2>4. Push([parser EXCEPT ![Depth] = r], Advanced, n)
      BY <1>8 DEF top
    <2> HIDE DEF new, r
    <2>5. Apart(r)
      BY <1>1, <1>2, <2>3 DEF Apart
    <2>6. tok.op \notin {"module", "pib"}
      BY <1>1
    <2>7. StackS' /\ \A k : BeingParsed(k)' => BeingParsed(k)
      BY <1>1, <1>3, <1>5, <2>3, <2>4, <2>5, <2>6, PushStack DEF SParts
    <2>8. \A i \in DOMAIN new.imports : Excused(new.imports[i], top.mod)
      <3> HIDE DEF imps
      <3> QED BY <1>4, <2>2
    <2> HIDE DEF imps, rec
    <2>9. AllExcused'
      BY <1>1, <1>2, <2>1, <2>2, <2>7, <2>8, ExcusedStep DEF SParts
    <2> QED BY <2>7, <2>9 DEF SParts
  <1> QED BY <1>3, <1>7, <1>8, NameAssumption DEF ImportClause

LEMMA HeaderExcused ==
  ASSUME IInv, RInv, BInv, Roomy, SParts, ModuleHeader
  PROVE  SParts'
  <1> DEFINE n == tok.name
             q == AfterHeader(top, n)
  <1>1. /\ parser # <<>> /\ top \in Parser /\ n \in Name
        /\ top.st \notin Inside /\ tok.op \in {"module", "pib"}
        /\ SetTop(q) /\ lex' = Advanced /\ UNCHANGED disk
    <2>1. tok \in Token /\ tok.op \in {"module", "pib"} /\ Running
          /\ top.st = "file"
      BY RunningFacts DEF ModuleHeader
    <2> QED BY <2>1, RunningFacts, TokenFields
            DEF ModuleHeader, Inside, Clauses
  <1>2. /\ q \in Parser /\ q.mod = n /\ q.file = top.file
        /\ q.scope = top.scope
        /\ q.st = IF Listed(n) THEN "done" ELSE "header"
    BY <1>1 DEF AfterHeader, Parser
  <1>3. Reading(q, Advanced[Depth].pos)
    <2> DEFINE pos == lex[Depth].pos
    <2>1. tok # EOF
      BY <1>1 DEF EOF
    <2>2. /\ Advanced[Depth].pos = pos + 1 /\ pos \in DOMAIN disk[top.file]
          /\ tok = disk[top.file][pos] /\ pos \in Nat
      BY <1>1, <2>1, OwnToken
    <2> HIDE DEF pos, q
    <2>3. pos < pos + 1 /\ \A x \in pos + 1 .. (pos + 1) - 1 : FALSE
      BY <2>2
    <2>4. IsHeader(q.file, pos) /\ disk[q.file][pos].name = q.mod
      BY <1>1, <1>2, <2>2 DEF IsHeader
    <2> QED BY <1>2, <2>2, <2>3, <2>4 DEF Reading
  <1>4. Apart(q)
    <2>1. Holds(top)
      <3>1. Depth \in 1 .. Depth
        BY <1>1, StackFacts DEF IInv, TypeOK
      <3> QED BY <3>1, ParserByParser DEF RInv, top
    <2> HIDE DEF q
    <2> QED BY <1>2, <2>1 DEF Apart, Holds, Inside, Clauses
  <1>5. /\ StackS'
        /\ \A k : BeingParsed(k)' =>
             BeingParsed(k) \/ (q.st \in Inside /\ k = q.mod)
    <2> HIDE DEF q
    <2> QED BY <1>1, <1>2, <1>3, <1>4, HeaderStack DEF SParts
  <1>6. CASE Listed(n)
    <2>1. UNCHANGED <<disk, moduleList, module>>
      BY <1>1, <1>6 DEF ModuleHeader
    <2>2. q.st \notin Inside
      BY <1>2, <1>6 DEF Inside, Clauses
    <2> HIDE DEF q
    <2>3. \A k : BeingParsed(k)' => BeingParsed(k)
      BY <1>5, <2>2
    <2> QED BY <1>5, <2>1, <2>3, SameExcused DEF SParts
  <1>7. CASE ~Listed(n)
    <2> DEFINE new == [NewModule EXCEPT !.language = HeaderLanguage]
    <2>1. /\ moduleList' = Append(moduleList, n)
          /\ module' = [module EXCEPT ![n] = new]
      BY <1>7 DEF ModuleHeader
    <2>2. new.imports = <<>>
      BY DEF NewModule
    <2> HIDE DEF new, q, n
    <2>3. \A x \in Name : module'[x] = IF x = n THEN new ELSE module[x]
      BY <2>1 DEF IInv, TypeOK
    <2>4. \A x : Listed(x) => Listed(x)'
      <3>1. /\ DOMAIN moduleList = 1 .. Len(moduleList)
            /\ DOMAIN moduleList' = 1 .. Len(moduleList) + 1
            /\ Len(moduleList) \in Nat
            /\ \A i \in 1 .. Len(moduleList) : moduleList'[i] = moduleList[i]
        BY <1>1, <2>1, AppendProperties, LenProperties DEF IInv, TypeOK
      <3> QED BY <3>1 DEF Listed
    <2>5. \A k \in Name : Listed(k) => (BeingParsed(k)' => BeingParsed(k))
      BY <1>2, <1>5, <1>7
    <2>6. \A k \in Name : Listed(k) /\ ~BeingParsed(k)
                            => module'[k].defs \subseteq module[k].defs
      BY <1>7, <2>3
    <2>7. \A imp \in Import : \A x : Excused(imp, x) => Excused(imp, x)'
      BY <1>1, <2>4, <2>5, <2>6, ExcusedStays
    <2>8. \A x \in Name : \A i \in DOMAIN module'[x].imports :
            /\ module'[x].imports[i] \in Import
            /\ Excused(module'[x].imports[i], x)
      <3> SUFFICES ASSUME NEW x \in Name, NEW i \in DOMAIN module[x].imports
                   PROVE  /\ module[x].imports[i] \in Import
                          /\ Excused(module[x].imports[i], x)
        BY <2>2, <2>3
      <3>1. module[x].imports \in Seq(Import)
        BY DEF IInv, TypeOK, Module
      <3> QED BY <3>1, LenProperties, ElementOfSeq DEF SParts, AllExcused
    <2>9. AllExcused'
      BY <2>7, <2>8 DEF AllExcused, Excused
    <2> QED BY <1>5, <2>9 DEF SParts
  <1> QED BY <1>6, <1>7

\* What the innermost parser returns to the one below it.
LEMMA ReturnedNeeds ==
  ASSUME IInv, RInv, BInv, Roomy, SParts, Leave, Depth > 1, Returned # NULL,
         NEW p, p = parser[Depth - 1], BeingParsed(Returned)
  PROVE  Needs(Returned, p.mod)
  <1>1. /\ Depth \in Nat \ {0} /\ Depth - 1 \in 1 .. Depth
        /\ Depth - 1 \in 1 .. Depth - 1 /\ Depth - 1 < Depth
        /\ (Depth - 1) + 1 = Depth /\ Depth \in 1 .. Depth
        /\ parser # <<>> /\ top.st = "done"
    BY LeaveFacts DEF Leave
  <1>2. p.st \in Inside /\ p.mod \in Name
    BY <1>1 DEF IInv, Owners
  <1>3. CASE Returned = p.mod
    <2>1. top.file \in Mentions(p.mod)
      BY <1>1 DEF SParts, StackS, Mentioned, top
    <2>2. top.file \in DOMAIN disk /\ Reading(top, lex[Depth].pos)
      BY <1>1, OwnToken DEF SParts, StackS, Reads, top
    <2>3. Returned \in Held(top.file)
      BY <2>2, ReadIsHeld DEF Returned
    <2>4. Returned \in DependsOn(p.mod)
      BY <2>1, <2>3, HeldDepends
    <2> QED BY <1>2, <1>3, <2>4, NeedsDirectly
  <1>4. CASE Returned # p.mod
    <2>1. \A i \in 1 .. Depth : Depth - 1 < i => parser[i].st \notin Inside
      <3>1. top.st \notin Inside
        BY <1>1 DEF Inside, Clauses
      <3>2. \A i \in 1 .. Depth : Depth - 1 < i => i = Depth
        BY <1>1
      <3> QED BY <3>1, <3>2 DEF top
    <2> DEFINE d == Depth - 1
    <2>2. d \in 1 .. Depth /\ \A i \in 1 .. Depth : d < i => parser[i].st \notin Inside
      BY <1>1, <2>1
    <2>3. p = parser[d]
      OBVIOUS
    <2> HIDE DEF d
    <2> QED BY <1>2, <1>4, <2>2, <2>3, NeedsAbove DEF SParts
  <1> QED BY <1>3, <1>4

LEMMA ReturnToImportExcused ==
  ASSUME IInv, RInv, BInv, Roomy, SParts, ReturnToImport
  PROVE  SParts'
  <1> DEFINE p   == parser[Depth - 1]
             rec == module[p.mod]
             f   == FinishImport(rec.imports, p.asked, Returned, rec.language)
             q   == [p EXCEPT !.wait = "no", !.asked = NULL]
             new == [rec EXCEPT !.imports = f.imports, !.language = f.language]
  <1>1. Leave /\ Depth > 1
    BY DEF ReturnToImport
  <1>2. /\ p \in Parser /\ p.st \in Inside /\ p.mod \in Name /\ rec \in Module
    <2> HIDE DEF p
    <2>1. p = parser[Depth - 1]
      BY DEF p
    <2> QED BY <1>1, <2>1, WaiterFacts
  <1>3. /\ Returned \in Name \cup {NULL} /\ (Returned # NULL => Listed(Returned))
        /\ UNCHANGED <<disk, moduleList>>
    BY <1>1, ReturnedFacts
  <1>4. Apart(p) /\ \A i \in DOMAIN rec.imports : Excused(rec.imports[i], p.mod)
    <2>1. Depth - 1 \in 1 .. Depth
      BY <1>1, LeaveFacts
    <2> QED BY <1>2, <2>1 DEF SParts, StackS, AllExcused
  <1>5. /\ rec.imports \in Seq(Import)
        /\ rec.language \in {"unknown", "smiv1", "smiv2", "sppi"}
    BY <1>2 DEF Module
  <1>6. /\ f.imports \in Seq(Import) /\ f.imports = Settle(rec.imports, Returned)
        /\ f.language \in {"unknown", "smiv1", "smiv2", "sppi"}
    <2>1. f.imports = Settle(rec.imports, Returned)
      BY DEF FinishImport
    <2> HIDE DEF p, rec
    <2> QED BY <1>3, <1>5, <2>1, FinishImportType
  <1>7. /\ new \in Module /\ new.imports = Settle(rec.imports, Returned)
        /\ new.defs = module[p.mod].defs
    <2> HIDE DEF f
    <2> QED BY <1>2, <1>6 DEF Module
  <1>8. \A i \in DOMAIN new.imports : Excused(new.imports[i], p.mod)
    <2>1. Returned # NULL => /\ Listed(Returned)
                             /\ BeingParsed(Returned) => Needs(Returned, p.mod)
      BY <1>1, <1>3, ReturnedNeeds
    <2> HIDE DEF p, rec, new
    <2>2. \A i \in DOMAIN Settle(rec.imports, Returned) :
            Excused(Settle(rec.imports, Returned)[i], p.mod)
      BY <1>3, <1>4, <1>5, <2>1, SettleExcused
    <2> QED BY <1>7, <2>2
  <1>9. module' = [module EXCEPT ![p.mod] = new]
    BY DEF ReturnToImport
  <1>10. parser' = [SubSeq(parser, 1, Depth - 1) EXCEPT ![Depth - 1] = q]
    <2>1. SubSeq(parser, 1, Depth - 1)[Depth - 1] = p
      <3>1. /\ Depth \in Nat \ {0} /\ Depth - 1 \in Int
            /\ \A i \in 1 .. Depth - 1 : parser[i] \in Parser
        BY <1>1, LeaveFacts, StackFacts DEF IInv, TypeOK
      <3>2. \A i \in 1 .. Depth - 1 :
              SubSeq(parser, 1, Depth - 1)[i] = parser[i]
        BY <3>1, SubSeqProperties
      <3> QED BY <1>1, <3>1, <3>2
    <2>2. parser' = [SubSeq(parser, 1, Depth - 1) EXCEPT
                       ![Depth - 1].wait = "no", ![Depth - 1].asked = NULL]
      BY DEF ReturnToImport
    <2> QED BY <2>1, <2>2
  <1>11. /\ q \in Parser /\ q.st = p.st /\ q.file = p.file /\ q.mod = p.mod
         /\ q.scope = p.scope
    BY <1>2 DEF Parser
  <1> HIDE DEF f, q, new
  <1>12. Apart(q)
    BY <1>4, <1>11 DEF Apart
  <1>13. StackS' /\ \A k : BeingParsed(k)' => BeingParsed(k)
    <2>1. p = parser[Depth - 1]
      OBVIOUS
    <2> HIDE DEF p, rec
    <2> QED BY <1>1, <1>2, <1>10, <1>11, <1>12, <2>1, ReturnStack DEF SParts
  <1>14. AllExcused'
    <2> HIDE DEF p
    <2> QED BY <1>2, <1>3, <1>7, <1>8, <1>9, <1>13, ExcusedStep DEF SParts
  <1> QED BY <1>13, <1>14 DEF SParts

LEMMA ReturnToClauseExcused ==
  ASSUME IInv, RInv, BInv, Roomy, SParts, ReturnToClause
  PROVE  SParts'
  <1> DEFINE p == parser[Depth - 1]
             q == EnterScope(p, p.wait, Returned)
  <1>1. /\ Leave /\ Depth > 1 /\ p.wait \in Clauses /\ UNCHANGED module
        /\ parser' = [SubSeq(parser, 1, Depth - 1) EXCEPT ![Depth - 1] = q]
    BY DEF ReturnToClause
  <1>2. p \in Parser /\ p.st \in Inside
    <2> HIDE DEF p
    <2>1. p = parser[Depth - 1]
      BY DEF p
    <2> QED BY <1>1, <2>1, WaiterFacts
  <1>3. Returned \in Name \cup {NULL} /\ UNCHANGED <<disk, moduleList>>
    BY <1>1, ReturnedFacts
  <1>4. Apart(p)
    <2>1. Depth - 1 \in 1 .. Depth
      BY <1>1, LeaveFacts
    <2> QED BY <2>1 DEF SParts, StackS
  <1>5. /\ q \in Parser /\ q.file = p.file /\ q.mod = p.mod
        /\ q.st \in Inside /\ q.st \notin {"header", "imports"} /\ Apart(q)
    <2> HIDE DEF p
    <2> QED BY <1>1, <1>2, <1>3, <1>4, EnterScopeApart
  <1>6. StackS' /\ \A k : BeingParsed(k)' => BeingParsed(k)
    <2>1. p = parser[Depth - 1]
      OBVIOUS
    <2> HIDE DEF p, q
    <2> QED BY <1>1, <1>5, <2>1, ReturnStack DEF SParts
  <1> QED BY <1>1, <1>3, <1>6, SameExcused DEF SParts

LEMMA ReturnToApplicationExcused ==
  ASSUME IInv, RInv, BInv, Roomy, SParts, ReturnToApplication
  PROVE  SParts'
  <1>1. Leave /\ parser' = <<>> /\ UNCHANGED module
    BY DEF ReturnToApplication
  <1>2. StackS' /\ \A k : ~BeingParsed(k)'
    BY <1>1, FreshStack
  <1> QED BY <1>1, <1>2, ReturnedFacts, SameExcused DEF SParts

\* A step that leaves modules, parsers and buffers alone.
LEMMA IdleExcused ==
  ASSUME IInv, SParts, UNCHANGED <<disk, moduleList, module, parser, lex>>
  PROVE  SParts'
  <1>1. Depth' = Depth
    BY DEF Depth
  <1>2. Reads' /\ Mentioned' /\ Chained'
    BY <1>1, SameFiles DEF SParts, StackS, Reads, Mentioned, Chained
  <1>3. \A i \in 1 .. Depth' : Apart(parser'[i])
    BY <1>1 DEF SParts, StackS
  <1>4. \A k : BeingParsed(k)' => BeingParsed(k)
    BY <1>1 DEF BeingParsed
  <1> QED BY <1>2, <1>3, <1>4, SameExcused DEF SParts, StackS, Apart

LEMMA ApplicationExcused ==
  ASSUME IInv, RInv, BInv, Roomy, SParts, Application
  PROVE  SParts'
  <1>1. PICK n \in Name : \/ smiLoadModuleByName(n)
                          \/ smiLoadModuleByPath(n)
                          \/ smiGetModule(n)
    BY DEF Application
  <1>2. Idle /\ \/ \E r, v : Answer(r, v)
                \/ \E fn : StartLoad(fn, n)
    BY <1>1 DEF smiLoadModuleByName, smiLoadModuleByPath, smiGetModule
  <1>3. CASE \E r, v : Answer(r, v)
    BY <1>3, IdleExcused DEF Answer
  <1>4. CASE \E fn : StartLoad(fn, n)
    <2> DEFINE over == Len(lex) >= MAX_LEX_DEPTH
               r    == NewParser(n, over)
    <2>1. Push(<<>>, lex, n) /\ UNCHANGED <<disk, moduleList, module>>
      BY <1>4 DEF StartLoad
    <2>2. /\ over \in BOOLEAN /\ parser' = Append(<<>>, r)
          /\ over => lex' = lex
          /\ ~over => /\ lex' # <<>>
                      /\ Len(lex') = Len(lex) + 1
                      /\ \A i \in 1 .. Len(lex) : lex'[i] = lex[i]
                      /\ lex'[Len(lex) + 1].file = n
                      /\ lex'[Len(lex) + 1].pos = 1
          /\ lex' \in Buffers
      <3>1. lex \in Buffers
        BY DEF IInv, TypeOK, Buffers
      <3> QED BY <2>1, <3>1, PushBuffers, Zenon
    <2>3. r \in Parser /\ r.st \notin Inside /\ r.mod = NULL
      <3>1. r.mod = NULL
        BY DEF NewParser
      <3>2. r \in Parser /\ r.st \notin Inside
        BY <2>2, NewParserFacts, Zenon
      <3> QED BY <3>1, <3>2
    <2>4. parser' = <<r>>
      <3> HIDE DEF r
      <3> QED BY <2>2
    <2> HIDE DEF r
    <2>5. StackS' /\ \A k : ~BeingParsed(k)'
      BY <2>3, <2>4, FreshStack
    <2> QED BY <2>1, <2>5, SameExcused DEF SParts
  <1> QED BY <1>2, <1>3, <1>4

\* The list of modules never gets shorter.
LEMMA RoomyBefore ==
  ASSUME IInv, [Next]_vars, Roomy'
  PROVE  Roomy
  <1>1. CASE moduleList' = moduleList
    BY <1>1 DEF Roomy
  <1>2. CASE ModuleHeader
    <2>1. moduleList \in Seq(Name) /\ Len(moduleList) \in Nat
      BY LenProperties DEF IInv, TypeOK
    <2>2. tok.name \in Name
      BY <1>2, RunningFacts, TokenFields DEF ModuleHeader
    <2>3. Len(moduleList) <= Len(moduleList') /\ Len(moduleList') \in Nat
      BY <1>2, <2>1, <2>2, AppendProperties DEF ModuleHeader
    <2> QED BY <2>1, <2>3, DepthAssumption DEF Roomy
  <1>3. [Next]_vars => moduleList' = moduleList \/ ModuleHeader
    BY DEF Next, Library, Application, smiLoadModuleByName,
           smiLoadModuleByPath, smiGetModule, StartLoad, Answer,
           ImportClause, LinkageClause, Declaration, ClauseModule,
           ClauseReference, EndClause, FlushDeclaration, EndModule,
           EndOfParse, Leave, ReturnToApplication, ReturnToImport,
           ReturnToClause, Crash, vars
  <1> QED BY <1>1, <1>2, <1>3

LEMMA InitSInv == Init => SInv
  <1> SUFFICES ASSUME Init
               PROVE  SParts
    BY SInvParts
  <1>1. parser = <<>> /\ module = [n \in Name |-> NewModule]
    BY DEF Init
  <1>2. Depth = 0
    BY <1>1, EmptySeq DEF Depth
  <1>3. StackS
    BY <1>2 DEF StackS, Reads, Mentioned, Chained
  <1>4. AllExcused
    <2>1. NewModule.imports = <<>>
      BY DEF NewModule
    <2> HIDE DEF NewModule
    <2> QED BY <1>1, <2>1 DEF AllExcused
  <1> QED BY <1>3, <1>4 DEF SParts

LEMMA NextSInv ==
  ASSUME IInv, RInv, BInv, SInv, [Next]_vars
  PROVE  SInv'
  <1> SUFFICES ASSUME Roomy'
               PROVE  SParts'
    BY DEF SInv, SParts, StackS
  <1>1. Roomy /\ SParts
    BY RoomyBefore, SInvParts
  <1>2. CASE UNCHANGED vars
    BY <1>1, <1>2, IdleExcused DEF vars
  <1>3. CASE Application
    BY <1>1, <1>3, ApplicationExcused
  <1>4. CASE ModuleHeader
    BY <1>1, <1>4, HeaderExcused
  <1>5. CASE ImportClause
    BY <1>1, <1>5, ImportExcused
  <1>6. CASE LinkageClause
    BY <1>1, <1>6, LinkageExcused
  <1>7. CASE Declaration
    BY <1>1, <1>7, DeclarationExcused
  <1>8. CASE ClauseModule
    BY <1>1, <1>8, ClauseModuleExcused
  <1>9. CASE ClauseReference
    BY <1>1, <1>9, ClauseReferenceExcused
  <1>10. CASE EndClause
    BY <1>1, <1>10, EndClauseExcused
  <1>11. CASE FlushDeclaration
    BY <1>1, <1>11, FlushExcused
  <1>12. CASE EndModule
    BY <1>1, <1>12, EndModuleExcused
  <1>13. CASE EndOfParse
    BY <1>1, <1>13, EndOfParseExcused
  <1>14. CASE ReturnToApplication
    BY <1>1, <1>14, ReturnToApplicationExcused
  <1>15. CASE ReturnToImport
    BY <1>1, <1>15, ReturnToImportExcused
  <1>16. CASE ReturnToClause
    BY <1>1, <1>16, ReturnToClauseExcused
  <1>17. CASE Crash
    BY <1>1, <1>17, IdleExcused DEF Crash
  <1> QED BY <1>2, <1>3, <1>4, <1>5, <1>6, <1>7, <1>8, <1>9, <1>10, <1>11,
             <1>12, <1>13, <1>14, <1>15, <1>16, <1>17 DEF Next, Library

\* An import goes stale only in an import loop: as long as fewer modules are
\* known than scanner buffers can be stacked, an import that was recorded as
\* not found, though the module it is attributed to has come to define it, is
\* attributed to a module that, as the files say, needs the importing one
\* (findModuleByName() finding a module that is half parsed, whose
\* definitions checkImports() then misses for good).
THEOREM StaleLoops == Spec => [](Roomy => StaleImportNeedsLoop)
  <1>1. IInv /\ RInv /\ BInv /\ SInv /\ [Next]_vars => SInv'
    BY NextSInv
  <1>2. SInv => (Roomy => StaleImportNeedsLoop)
    BY DEF SInv, AllExcused, Excused, StaleImportNeedsLoop
  <1> QED BY <1>1, <1>2, InitSInv, Inductive, RecordsInductive, PTL DEF Spec

-----------------------------------------------------------------------------
(* Each load behaves like a single operation of the module registry.       *)

\* What the registry's variables stand for.
Names == {moduleList[i] : i \in DOMAIN moduleList}
Busy  == parser # <<>>

LEMMA RegistryMap ==
  /\ \A n : Listed(n) <=> n \in Names
  /\ IInv => (Busy <=> smiDepth # 0) /\ smiDepth \in Nat
  <1>1. \A n : Listed(n) <=> n \in Names
    BY DEF Listed, Names
  <1>2. IInv => (Busy <=> smiDepth # 0) /\ smiDepth \in Nat
    <2> SUFFICES ASSUME IInv
                 PROVE  (Busy <=> smiDepth # 0) /\ smiDepth \in Nat
      OBVIOUS
    <2>1. parser \in Seq(Parser) /\ smiDepth = Len(parser)
      BY DEF IInv, TypeOK, Depth
    <2> QED BY <2>1, EmptySeq DEF Busy
  <1> QED BY <1>1, <1>2

LEMMA BusyNext ==
  ASSUME IInv'
  PROVE  Busy' <=> smiDepth' # 0
  <1>1. parser' \in Seq(Parser) /\ smiDepth' = Len(parser')
    BY DEF IInv, TypeOK, Depth
  <1> QED BY <1>1, EmptySeq DEF Busy

\* The registry sees nothing of a step inside of a load.
LEMMA InsideMaps ==
  ASSUME IInv, IInv', Busy, smiDepth' # 0,
         UNCHANGED <<moduleList, view, result>>
  PROVE  UNCHANGED Registry!vars
  <1>1. Busy' <=> smiDepth' # 0
    BY BusyNext
  <1>2. parser # <<>> /\ parser' # <<>>
    BY <1>1 DEF Busy
  <1> QED BY <1>2 DEF Registry!vars

LEMMA HeaderMaps ==
  ASSUME IInv, IInv', ModuleHeader
  PROVE  [Registry!Next]_(Registry!vars)
  <1>1. Busy /\ smiDepth # 0 /\ UNCHANGED <<smiDepth, view, result>>
    BY RunningFacts, RegistryMap DEF ModuleHeader, Busy
  <1> PICK n \in Name : n = tok.name
    BY RunningFacts, TokenFields DEF ModuleHeader
  <1>2. Busy'
    <2>1. Busy' <=> smiDepth' # 0
      BY BusyNext
    <2> QED BY <1>1, <2>1
  <1>3. CASE UNCHANGED moduleList
    BY <1>1, <1>3, InsideMaps
  <1>4. CASE ~Listed(n) /\ moduleList' = Append(moduleList, n)
    <2>1. /\ moduleList \in Seq(Name) /\ Len(moduleList) \in Nat
          /\ DOMAIN moduleList = 1 .. Len(moduleList)
          /\ DOMAIN moduleList' = 1 .. Len(moduleList) + 1
          /\ \A i \in 1 .. Len(moduleList) : moduleList'[i] = moduleList[i]
          /\ moduleList'[Len(moduleList) + 1] = n
      BY <1>1, <1>4, AppendProperties, LenProperties DEF IInv, TypeOK
    <2>2. Names' = Names \cup {n}
      BY <2>1 DEF Names
    <2>3. n \notin Names
      BY <1>4, RegistryMap
    <2>4. Registry!Learn(n)
      BY <1>1, <1>2, <2>2, <2>3, Zenon DEF Registry!Learn, Names, Busy
    <2> QED BY <2>4 DEF Registry!Next
  <1> QED BY <1>3, <1>4 DEF ModuleHeader

LEMMA AnswerMaps ==
  ASSUME IInv, NEW r \in Name \cup {NULL}, r # NULL => Listed(r),
         NEW v, v = view \/ (r # NULL /\ \E n \in Name : v = view \cup {n}),
         Answer(r, v), ~Busy
  PROVE  Registry!Immediate
  <1>1. /\ result' = r /\ view' = v /\ UNCHANGED <<moduleList, parser>>
    BY DEF Answer
  <1>2. result' \in Names \cup {NULL}
    BY <1>1, RegistryMap
  <1>3. UNCHANGED Names /\ UNCHANGED Busy
    BY <1>1 DEF Names, Busy
  <1>4. view' = view \/ (result' # NULL /\ \E n \in Name : view' = view \cup {n})
    BY <1>1
  <1> QED BY <1>2, <1>3, <1>4, Zenon
          DEF Registry!Immediate, Registry!Reply, Names, Busy

LEMMA StartMaps ==
  ASSUME IInv, IInv', ~Busy, NEW fn, NEW n, StartLoad(fn, n)
  PROVE  Registry!Begin
  <1>1. smiDepth' = smiDepth + 1 /\ UNCHANGED <<moduleList, view, result>>
    BY DEF StartLoad, Push
  <1>2. Busy'
    <2>1. Busy' <=> smiDepth' # 0
      BY BusyNext
    <2>2. smiDepth \in Nat
      BY RegistryMap
    <2> QED BY <1>1, <2>1, <2>2
  <1>3. UNCHANGED Names
    BY <1>1 DEF Names
  <1> QED BY <1>1, <1>2, <1>3, Zenon DEF Registry!Begin, Names, Busy

LEMMA ApplicationMaps ==
  ASSUME IInv, IInv', Application
  PROVE  Registry!Next
  <1>1. PICK n \in Name : \/ smiLoadModuleByName(n)
                          \/ smiLoadModuleByPath(n)
                          \/ smiGetModule(n)
    BY DEF Application
  <1>2. ~Busy
    BY <1>1 DEF smiLoadModuleByName, smiLoadModuleByPath, smiGetModule, Idle,
                Busy
  <1>3. n # NULL
    BY NameAssumption
  <1>4. CASE \E fn : StartLoad(fn, n)
    BY <1>2, <1>4, StartMaps DEF Registry!Next
  <1>5. CASE Answer(NULL, view)
    BY <1>2, <1>5, AnswerMaps DEF Registry!Next
  <1>6. CASE Listed(n) /\ (Answer(n, view) \/ Answer(n, view \cup {n}))
    BY <1>2, <1>3, <1>6, AnswerMaps DEF Registry!Next
  <1> QED BY <1>1, <1>4, <1>5, <1>6
          DEF smiLoadModuleByName, smiLoadModuleByPath, smiGetModule

LEMMA ReturnMaps ==
  ASSUME IInv, RInv, ReturnToApplication
  PROVE  Registry!Finish
  <1> DEFINE new == CASE Returned # NULL /\ call.fn = "byName" -> {call.name}
                      [] Returned # NULL /\ call.fn = "byPath" -> {Returned}
                      [] OTHER -> {}
  <1>1. /\ Leave /\ parser' = <<>> /\ result' = Returned
        /\ view' = view \cup new
    BY DEF ReturnToApplication
  <1>2. Busy /\ ~Busy' /\ UNCHANGED moduleList
    BY <1>1, LeaveFacts DEF Busy
  <1>3. /\ Returned \in Name \cup {NULL}
        /\ Returned \in Names \cup {NULL}
    BY <1>1, ReturnedFacts, RegistryMap
  <1>4. new = {} \/ (Returned # NULL /\ \E n \in Name : new = {n})
    <2>1. call.fn = "byName" => call.name \in Name
      BY DEF IInv, TypeOK, Call, NoCall
    <2> QED BY <1>3, <2>1
  <1>5. view' = view \/ (result' # NULL /\ \E n \in Name : view' = view \cup {n})
    <2> HIDE DEF new
    <2> QED BY <1>1, <1>4
  <1>6. UNCHANGED Names
    BY <1>2 DEF Names
  <1>7. result' \in Names \cup {NULL}
    BY <1>1, <1>3
  <1>8. (Busy') = FALSE
    BY <1>2
  <1> QED BY <1>2, <1>5, <1>6, <1>7, <1>8, Zenon
          DEF Registry!Finish, Registry!Reply, Names, Busy

LEMMA StepMaps ==
  ASSUME IInv, RInv, IInv', [Next]_vars
  PROVE  [Registry!Next]_(Registry!vars)
  <1>1. CASE UNCHANGED vars
    BY <1>1 DEF vars, Registry!vars
  <1>2. CASE Application
    BY <1>2, ApplicationMaps
  <1>3. CASE ModuleHeader
    BY <1>3, HeaderMaps
  <1>4. CASE ReturnToApplication
    BY <1>4, ReturnMaps DEF Registry!Next
  <1>5. /\ IInv => (Busy <=> smiDepth # 0) /\ smiDepth \in Nat
        /\ parser # <<>> <=> Busy
    BY RegistryMap DEF Busy
  <1>6. ASSUME \/ LinkageClause \/ Declaration \/ ClauseReference \/ EndClause
               \/ FlushDeclaration \/ EndModule \/ EndOfParse \/ Crash
        PROVE  UNCHANGED Registry!vars
    <2>1. Busy /\ UNCHANGED <<moduleList, view, result, smiDepth>>
      BY <1>5, <1>6
         DEF LinkageClause, Declaration, ClauseReference, EndClause,
             FlushDeclaration, EndModule, EndOfParse, Crash, Running
    <2> QED BY <1>5, <2>1, InsideMaps
  <1>7. ASSUME ImportClause \/ ClauseModule
        PROVE  UNCHANGED Registry!vars
    <2>1. Busy /\ UNCHANGED <<moduleList, view, result>>
      BY <1>5, <1>7 DEF ImportClause, ClauseModule, Running
    <2>2. smiDepth' = smiDepth \/ smiDepth' = smiDepth + 1
      BY <1>7 DEF ImportClause, ClauseModule, Push
    <2> QED BY <1>5, <2>1, <2>2, InsideMaps
  <1>8. ASSUME ReturnToImport \/ ReturnToClause
        PROVE  UNCHANGED Registry!vars
    <2>1. Busy /\ UNCHANGED <<moduleList, view, result>>
      BY <1>5, <1>8 DEF ReturnToImport, ReturnToClause, Leave
    <2>2. smiDepth' = smiDepth - 1 /\ smiDepth > 1
      BY <1>8 DEF ReturnToImport, ReturnToClause, Leave, IInv
    <2> QED BY <1>5, <2>1, <2>2, InsideMaps
  <1> QED BY <1>1, <1>2, <1>3, <1>4, <1>6, <1>7, <1>8 DEF Next, Library

LEMMA InitMaps == Init => Registry!Init
  BY DEF Init, Registry!Init

\* The loader implements the registry: however many files a call of the
\* application parses, in whatever order they name each other, the modules
\* become known one by one, the answer is one of them or NULL, and no more
\* than one name becomes visible.
THEOREM Registered == Spec => RegistrySpec
  <1>1. IInv /\ RInv /\ IInv' /\ [Next]_vars => [Registry!Next]_(Registry!vars)
    BY StepMaps
  <1> QED BY <1>1, InitMaps, Inductive, RecordsInductive, PTL
          DEF Spec, RegistrySpec, Registry!Spec
=============================================================================
