---------------------------- MODULE ModuleLoader ----------------------------
(***************************************************************************)
(* How libsmi loads MIB modules.  An application asks for a module by name *)
(* or by path; loadModule() opens the file, pushes a parser and a scanner  *)
(* buffer and runs the SMIv1/v2 parser on it.  An IMPORTS clause, or the   *)
(* MODULE (SUPPORTS) clause of a compliance (capabilities) statement, of a *)
(* module that is not yet in the module list makes the parser call         *)
(* loadModule() recursively, so partially parsed modules are visible to    *)
(* the modules that are parsed on top of them.                             *)
(*                                                                         *)
(* A file is a sequence of tokens, each one grammar rule whose semantic    *)
(* action changes the state: the data of a declaration is abstracted to    *)
(* the descriptor it defines and the one it refers to.                     *)
(***************************************************************************)
EXTENDS Naturals, Sequences

CONSTANTS
  Name,         \* names of modules, and of the files they are searched in
  Symbol,       \* descriptors that modules define, import and refer to
  Class,        \* what each descriptor is: "object", "type" or "macro"
  NULL,         \* the NULL pointer, and the empty module name of an import
  SNMPv2_SMI,   \* the module whose macros and types make a module SMIv2
  MAX_LEX_DEPTH,\* number of scanner buffers that can be stacked
  Disks         \* the search path's possible contents: found name -> tokens

Clauses == {"compliance", "capabilities"}
Classes == {"object", "type", "macro"}
Kinds   == {"unknown", "notfound"} \cup Classes

Token ==
  [op : {"module", "pib", "import"} \cup Clauses, name : Name,
   syms : Seq(Symbol)]
  \cup
  [op : {"endimports", "declare", "convention", "ref", "endclause", "flush",
         "end", "eof"},
   name : {NULL}, syms : Seq(Symbol)]

ASSUME NameAssumption  == NULL \notin Name /\ SNMPv2_SMI \in Name
ASSUME ClassAssumption == Class \in [Symbol -> Classes]
ASSUME DepthAssumption == MAX_LEX_DEPTH \in Nat \ {0}
ASSUME DiskAssumption  ==
  \A d \in Disks : /\ DOMAIN d \subseteq Name
                   /\ \A n \in DOMAIN d : d[n] \in Seq(Token)

VARIABLES
  disk,         \* the files, fixed while the library runs
  moduleList,   \* the handle's module list, in the order of addModule()
  module,       \* the contents of the modules in the list
  parser,       \* the parsers of the active loadModule() calls, innermost last
  lex,          \* the stacked scanner buffers, the current one last
  smiDepth,     \* nesting depth that the error filter consults
  view,         \* modules the application has made known
  call,         \* the API call in progress
  result,       \* what the last completed API call returned
  crashed       \* the process died from undefined behaviour

vars == <<disk, moduleList, module, parser, lex, smiDepth, view, call,
          result, crashed>>

Import == [sym  : Symbol,
           from : Name \cup {NULL},
           kind : Kinds,
           inc  : BOOLEAN]       \* FLAG_INCOMPLIANCE
Module == [defs     : SUBSET Symbol,   \* defined descriptors
           fwd      : SUBSET Symbol,   \* forward references not yet defined
           imports  : Seq(Import),
           language : {"unknown", "smiv1", "smiv2", "sppi"},
           complete : BOOLEAN]         \* END was reached
Parser == [file  : Name,
           st    : {"file", "header", "imports", "body", "recover", "done"}
                  \cup Clauses,
           mod   : Name \cup {NULL},   \* modulePtr
           wait  : {"no", "import"} \cup Clauses,
           asked : Name \cup {NULL},   \* the name loadModule() was called for
           scope : [Clauses -> Name \cup {NULL}],
           over  : BOOLEAN]            \* smiEnterLexRecursion() had failed
NoCall == [fn |-> "none", name |-> NULL]
Call == {NoCall}
        \cup [fn : {"byName", "byPath", "smiGetModule"}, name : Name]

NewModule == [defs |-> {}, fwd |-> {}, imports |-> <<>>,
              language |-> "unknown", complete |-> FALSE]
NewParser(n, over) ==
  [file |-> n, st |-> "file", mod |-> NULL, wait |-> "no", asked |-> NULL,
   scope |-> [c \in Clauses |-> NULL], over |-> over]

-----------------------------------------------------------------------------
(* The top of the two stacks, and what the current parser reads.           *)

Depth == Len(parser)
top   == parser[Depth]

\* Fault: modules that are still being parsed are not found.
Listed_CompleteOnly(n) ==
  \E i \in DOMAIN moduleList : moduleList[i] = n /\ module[n].complete

\* findModuleByName() finds a module as soon as its header has been parsed.
Listed(n) == \E i \in DOMAIN moduleList : moduleList[i] = n

EOF == [op |-> "eof", name |-> NULL, syms |-> <<>>]
tok == IF lex = <<>> THEN EOF
       ELSE LET b == lex[Len(lex)]
            IN  IF b.pos \in DOMAIN disk[b.file] THEN disk[b.file][b.pos]
                ELSE EOF

Advanced == IF tok = EOF THEN lex ELSE [lex EXCEPT ![Len(lex)].pos = @ + 1]

\* The parser that runs: one whose loadModule() waits for no nested one.
Running == /\ parser # <<>> /\ ~crashed
           /\ top.st # "done"

SetTop(p) == parser' = [parser EXCEPT ![Depth] = p]

\* What a lookup in module n finds: an object or type that was only referred
\* to so far is already chained into the module.
Visible(n) == module[n].defs \cup module[n].fwd

-----------------------------------------------------------------------------
(* loadModule(): the file was found; push the parser and its buffer.  A    *)
(* failed smiEnterLexRecursion() pushes no buffer, yet the parser is run.  *)

Push(stack, bufs, n) ==
  LET over == Len(bufs) >= MAX_LEX_DEPTH
  IN  /\ parser' = Append(stack, NewParser(n, over))
      /\ lex' = IF over THEN bufs ELSE Append(bufs, [file |-> n, pos |-> 1])
      /\ smiDepth' = smiDepth + 1

\* Faults: imports of a module that could not be loaded stay unknown; the
\* descriptors are not looked up; only nodes are looked up; what was settled
\* by an earlier clause is looked up again.
Settle_SkipMissing(imps, m) ==
  [i \in DOMAIN imps |->
     IF imps[i].kind # "unknown" \/ m = NULL THEN imps[i]
     ELSE [imps[i] EXCEPT
             !.from = m, !.kind = IF imps[i].sym \in Visible(m)
                                  THEN Class[imps[i].sym] ELSE "notfound"]]
Settle_NoLookup(imps, m) ==
  [i \in DOMAIN imps |->
     IF imps[i].kind # "unknown" THEN imps[i]
     ELSE [imps[i] EXCEPT
             !.from = m, !.kind = IF m # NULL THEN Class[imps[i].sym]
                                  ELSE "notfound"]]
Settle_NodesOnly(imps, m) ==
  [i \in DOMAIN imps |->
     IF imps[i].kind # "unknown" THEN imps[i]
     ELSE [imps[i] EXCEPT
             !.from = m,
             !.kind = IF m # NULL /\ imps[i].sym \in Visible(m)
                         /\ Class[imps[i].sym] = "object"
                      THEN "object" ELSE "notfound"]]
Settle_Again(imps, m) ==
  [i \in DOMAIN imps |->
     [imps[i] EXCEPT
        !.from = m,
        !.kind = IF m # NULL /\ imps[i].sym \in Visible(m)
                 THEN Class[imps[i].sym] ELSE "notfound"]]

\* checkImports(): settle every import of list imps that is still unknown.
Settle(imps, m) ==
  [i \in DOMAIN imps |->
     IF imps[i].kind # "unknown" THEN imps[i]
     ELSE [imps[i] EXCEPT
             !.from = m,
             !.kind = IF m # NULL /\ imps[i].sym \in Visible(m)
                      THEN Class[imps[i].sym] ELSE "notfound"]]

\* The end of an import clause FROM asked, when m is the module found or
\* loaded: the imports are settled and the language is guessed from them.
FinishImport(imps, asked, m, language) ==
  LET settled == Settle(imps, m)
  IN  [imports  |-> settled,
       language |->
         IF /\ m # NULL /\ asked = SNMPv2_SMI /\ language # "sppi"
            /\ \E i \in DOMAIN settled :
                 /\ settled[i].from = asked
                 /\ settled[i].kind \in {"macro", "type"}
         THEN "smiv2" ELSE language]

\* addImport() for each descriptor of the list syms.
AddImports(imps, syms) ==
  imps \o [i \in DOMAIN syms |->
             [sym |-> syms[i], from |-> NULL, kind |-> "unknown",
              inc |-> FALSE]]

\* complianceModulePtr (capabilitiesModulePtr) after MODULE m was resolved.
EnterScope(p, clause, m) ==
  [p EXCEPT !.scope[clause] = IF m = p.mod THEN NULL ELSE m,
            !.wait = "no", !.asked = NULL, !.st = clause]

-----------------------------------------------------------------------------
(* Calls of the application.                                               *)

Idle == parser = <<>> /\ call = NoCall /\ ~crashed

StartLoad(fn, n) ==
  /\ n \in DOMAIN disk
  /\ Push(<<>>, lex, n)
  /\ call' = [fn |-> fn, name |-> n]
  /\ UNCHANGED <<disk, moduleList, module, view, result, crashed>>

Answer(r, v) ==
  /\ result' = r
  /\ view' = v
  /\ UNCHANGED <<disk, moduleList, module, parser, lex, smiDepth, call,
                 crashed>>

\* smiLoadModule(n) with a plain module name.
smiLoadModuleByName(n) ==
  /\ Idle
  /\ \/ /\ Listed(n)
        /\ Answer(n, view \cup {n})
     \/ ~Listed(n) /\ StartLoad("byName", n)
     \/ /\ ~Listed(n) /\ n \notin DOMAIN disk
        /\ Answer(NULL, view)

\* smiLoadModule(path of the file that is found for n): always parses it.
smiLoadModuleByPath(n) ==
  /\ Idle
  /\ \/ StartLoad("byPath", n)
     \/ n \notin DOMAIN disk /\ Answer(NULL, view)

\* smiGetModule(n), and the retrieval functions with a qualified name, load
\* the module but do not make it known.
smiGetModule(n) ==
  /\ Idle
  /\ \/ Listed(n) /\ Answer(n, view)
     \/ ~Listed(n) /\ StartLoad("smiGetModule", n)
     \/ ~Listed(n) /\ n \notin DOMAIN disk /\ Answer(NULL, view)

-----------------------------------------------------------------------------
(* Semantic actions of the grammar.                                        *)

\* Fault: parsing goes on with the module that was found.
AfterHeader_NoAbort(p, n) == [p EXCEPT !.mod = n, !.st = "header"]

\* The parser after the header of module n.  A name that is in the list
\* aborts the whole file, with modulePtr set to the module that was found.
AfterHeader(p, n) ==
  [p EXCEPT !.mod = n, !.st = IF Listed(n) THEN "done" ELSE "header"]

HeaderLanguage == CASE tok.op = "pib"       -> "sppi"
                    [] tok.name = SNMPv2_SMI
                       /\ tok.op = "module" -> "smiv2"
                    [] OTHER                -> "unknown"

ModuleHeader ==
  /\ Running /\ top.st = "file" /\ tok.op \in {"module", "pib"}
  /\ SetTop(AfterHeader(top, tok.name))
  /\ lex' = Advanced
  /\ \/ Listed(tok.name) /\ UNCHANGED <<moduleList, module>>
     \/ /\ ~Listed(tok.name)
        /\ moduleList' = Append(moduleList, tok.name)
        /\ module' = [module EXCEPT ![tok.name] =
                        [NewModule EXCEPT !.language = HeaderLanguage]]
  /\ UNCHANGED <<disk, smiDepth, view, call, result, crashed>>

\* One import clause: the descriptors are chained as unknown, then the module
\* is looked up, and loaded when it is not in the list.
ImportClause ==
  /\ Running /\ top.st \in {"header", "imports"} /\ tok.op = "import"
  /\ LET m    == top.mod
         imps == AddImports(module[m].imports, tok.syms)
         Finish(from) ==
           LET f == FinishImport(imps, tok.name, from, module[m].language)
           IN  /\ module' = [module EXCEPT ![m].imports  = f.imports,
                                           ![m].language = f.language]
               /\ SetTop([top EXCEPT !.st = "imports"])
               /\ lex' = Advanced
               /\ UNCHANGED smiDepth
     IN \/ Listed(tok.name) /\ Finish(tok.name)
        \/ ~Listed(tok.name) /\ tok.name \notin DOMAIN disk /\ Finish(NULL)
        \/ /\ ~Listed(tok.name) /\ tok.name \in DOMAIN disk
           /\ module' = [module EXCEPT ![m].imports = imps]
           /\ Push([parser EXCEPT ![Depth].st = "imports",
                                  ![Depth].wait = "import",
                                  ![Depth].asked = tok.name],
                   Advanced, tok.name)
  /\ UNCHANGED <<disk, moduleList, view, call, result, crashed>>

\* Fault: the language that was derived from the imports is overwritten.
LinkageLanguage_Overwrite(l) == IF l = "sppi" THEN l ELSE "smiv1"

LinkageLanguage(l) == IF l \in {"smiv2", "sppi"} THEN l ELSE "smiv1"

\* The semicolon that ends the IMPORTS of a module, which may be empty.
LinkageClause ==
  /\ Running /\ top.st \in {"header", "imports"} /\ tok.op = "endimports"
  /\ lex' = Advanced
  /\ SetTop([top EXCEPT !.st = "body"])
  /\ module' = [module EXCEPT ![top.mod].language = LinkageLanguage(@)]
  /\ UNCHANGED <<disk, moduleList, smiDepth, view, call, result, crashed>>

InBody == top.st \in {"header", "body"}

\* The first label of an object identifier: the module's own objects first,
\* then its imports, then the module of the enclosing compliance or
\* capabilities clause, else a forward reference.
Referred(rec, s, scope) ==
  LET hits == {i \in DOMAIN rec.imports : rec.imports[i].sym = s
                                          /\ ~rec.imports[i].inc}
      from == IF scope["compliance"] # NULL THEN scope["compliance"]
              ELSE scope["capabilities"]
      first == CHOOSE i \in hits : \A j \in hits : i <= j
  IN  IF s \in rec.defs \cup rec.fwd THEN rec
      ELSE IF hits # {} /\ rec.imports[first].kind # "notfound" THEN rec
      ELSE IF from # NULL /\ s \in Visible(from)
           THEN [rec EXCEPT !.imports = Append(@,
                   [sym |-> s, from |-> from, kind |-> "unknown",
                    inc |-> TRUE])]
      ELSE [rec EXCEPT !.fwd = @ \cup {s}]

Declarations == {"declare", "convention"}

\* A declaration: the parent label of its value, if any, is looked up, then
\* the declared descriptor is defined; a forward reference to it is resolved.
\* A textual convention makes a module without imports SMIv2.
Declaration ==
  /\ Running /\ InBody /\ tok.op \in Declarations /\ tok.syms # <<>>
  /\ LET rec == module[top.mod]
         ref == IF Len(tok.syms) = 1 THEN rec
                ELSE Referred(rec, tok.syms[2], top.scope)
     IN  module' = [module EXCEPT ![top.mod] =
                      [ref EXCEPT !.defs = @ \cup {tok.syms[1]},
                                  !.fwd  = @ \ {tok.syms[1]},
                                  !.language =
                                    IF tok.op = "convention" /\ @ = "unknown"
                                    THEN "smiv2" ELSE @]]
  /\ lex' = Advanced
  /\ SetTop([top EXCEPT !.st = "body"])
  /\ UNCHANGED <<disk, moduleList, smiDepth, view, call, result, crashed>>

\* MODULE n of a compliance statement, SUPPORTS n of a capabilities one.
ClauseModule ==
  /\ Running /\ InBody /\ tok.op \in Clauses
  /\ \/ /\ Listed(tok.name)
        /\ SetTop(EnterScope(top, tok.op, tok.name))
        /\ lex' = Advanced
        /\ UNCHANGED smiDepth
     \/ /\ ~Listed(tok.name) /\ tok.name \notin DOMAIN disk
        /\ SetTop(EnterScope(top, tok.op, NULL))
        /\ lex' = Advanced
        /\ UNCHANGED smiDepth
     \/ /\ ~Listed(tok.name) /\ tok.name \in DOMAIN disk
        /\ Push([parser EXCEPT ![Depth].wait = tok.op,
                               ![Depth].asked = tok.name],
                Advanced, tok.name)
  /\ UNCHANGED <<disk, moduleList, module, view, call, result, crashed>>

\* A group or object named inside the clause.
ClauseReference ==
  /\ Running /\ top.st \in Clauses /\ tok.op = "ref" /\ tok.syms # <<>>
  /\ module' = [module EXCEPT ![top.mod] =
                  Referred(@, tok.syms[1], top.scope)]
  /\ lex' = Advanced
  /\ UNCHANGED <<disk, moduleList, parser, smiDepth, view, call, result,
                 crashed>>

\* The end of a clause: the imports it implied are settled.
EndClause ==
  /\ Running /\ top.st \in Clauses /\ tok.op = "endclause"
  /\ LET m == top.scope[top.st]
     IN  module' = IF m = NULL THEN module
                   ELSE [module EXCEPT ![top.mod].imports = Settle(@, m)]
  /\ SetTop([top EXCEPT !.st = "body", !.scope[top.st] = NULL])
  /\ lex' = Advanced
  /\ UNCHANGED <<disk, moduleList, smiDepth, view, call, result, crashed>>

\* END of a module.
EndModule ==
  /\ Running /\ InBody /\ tok.op = "end"
  /\ module' = [module EXCEPT ![top.mod].complete = TRUE,
                  ![top.mod].language = IF @ = "unknown" THEN "smiv1" ELSE @]
  /\ SetTop([top EXCEPT !.st = "file", !.scope["capabilities"] = NULL])
  /\ lex' = Advanced
  /\ UNCHANGED <<disk, moduleList, smiDepth, view, call, result, crashed>>

Expected ==
  \/ top.st = "file" /\ tok.op \in {"module", "pib"}
  \/ top.st \in {"header", "imports"} /\ tok.op \in {"import", "endimports"}
  \/ InBody /\ tok.op \in {"end"} \cup Clauses
  \/ InBody /\ tok.op \in Declarations /\ tok.syms # <<>>
  \/ top.st \in Clauses /\ tok.op = "endclause"
  \/ top.st \in Clauses /\ tok.op = "ref" /\ tok.syms # <<>>

\* A syntax error among the declarations: input is dropped up to the next
\* closing brace, and parsing goes on.  The scopes stay as they are.
FlushDeclaration ==
  /\ Running /\ ~Expected /\ tok.op # "eof"
  /\ top.st \in {"header", "body", "recover"} \cup Clauses
  /\ SetTop([top EXCEPT !.st =
               IF tok.op \in {"ref", "endclause", "flush"} \cup Declarations
               THEN "body" ELSE "recover"])
  /\ lex' = Advanced
  /\ UNCHANGED <<disk, moduleList, module, smiDepth, view, call, result,
                 crashed>>

\* Fault: the end of the file is not an error inside a module.
EndOfParse_IgnoreEof ==
  /\ Running /\ ~Expected
  /\ top.st \in {"file", "imports"}
  /\ SetTop([top EXCEPT !.st = "done"])
  /\ lex' = Advanced
  /\ UNCHANGED <<disk, moduleList, module, smiDepth, view, call, result,
                 crashed>>

\* The end of the file, or an error outside of the declarations.
EndOfParse ==
  /\ Running /\ ~Expected
  /\ tok.op = "eof" \/ top.st \in {"file", "imports"}
  /\ SetTop([top EXCEPT !.st = "done"])
  /\ lex' = Advanced
  /\ UNCHANGED <<disk, moduleList, module, smiDepth, view, call, result,
                 crashed>>

-----------------------------------------------------------------------------
(* The end of loadModule(): leave the scanner recursion, and go on in the  *)
(* caller with parser.modulePtr, the last module named in the file.        *)

\* When the buffer was never pushed the FILE is closed twice, and the buffer
\* that is popped belongs to an enclosing parser: the process may die, or go
\* on.  Popping from the empty stack reads before the array.
Undefined == top.over \/ lex = <<>>

\* Faults: the scanner buffer stays; smiDepth is decremented twice.
Leave_KeepBuffer ==
  /\ parser # <<>> /\ ~crashed /\ top.st = "done"
  /\ lex # <<>>
  /\ smiDepth' = smiDepth - 1
  /\ UNCHANGED <<disk, moduleList, crashed, lex>>
Leave_Twice ==
  /\ parser # <<>> /\ ~crashed /\ top.st = "done"
  /\ lex # <<>>
  /\ smiDepth' = smiDepth - 2
  /\ lex' = SubSeq(lex, 1, Len(lex) - 1)
  /\ UNCHANGED <<disk, moduleList, crashed>>

Leave ==
  /\ parser # <<>> /\ ~crashed /\ top.st = "done"
  /\ lex # <<>>
  /\ smiDepth' = smiDepth - 1
  /\ lex' = SubSeq(lex, 1, Len(lex) - 1)
  /\ UNCHANGED <<disk, moduleList, crashed>>

Crash ==
  /\ parser # <<>> /\ ~crashed /\ top.st = "done" /\ Undefined
  /\ crashed' = TRUE
  /\ UNCHANGED <<disk, moduleList, module, parser, lex, smiDepth, view, call,
                 result>>

\* Fault: the module that was asked for is returned.
Returned_Asked == top.file

\* loadModule() returns parser.modulePtr even when the parser failed.
Returned == top.mod

ReturnToApplication ==
  /\ Leave /\ Depth = 1
  /\ parser' = <<>>
  /\ call' = NoCall
  /\ result' = Returned
  /\ view' = view \cup
       CASE Returned # NULL /\ call.fn = "byName" -> {call.name}
         [] Returned # NULL /\ call.fn = "byPath" -> {Returned}
         [] OTHER -> {}
  /\ UNCHANGED module

ReturnToImport ==
  /\ Leave /\ Depth > 1
  /\ LET p == parser[Depth - 1]
         f == FinishImport(module[p.mod].imports, p.asked, Returned,
                           module[p.mod].language)
     IN  /\ p.wait = "import"
         /\ module' = [module EXCEPT ![p.mod].imports  = f.imports,
                                     ![p.mod].language = f.language]
         /\ parser' = [SubSeq(parser, 1, Depth - 1) EXCEPT
                         ![Depth - 1].wait = "no",
                         ![Depth - 1].asked = NULL]
  /\ UNCHANGED <<view, call, result>>

ReturnToClause ==
  /\ Leave /\ Depth > 1
  /\ LET p == parser[Depth - 1]
     IN  /\ p.wait \in Clauses
         /\ parser' = [SubSeq(parser, 1, Depth - 1) EXCEPT
                         ![Depth - 1] = EnterScope(p, p.wait, Returned)]
  /\ UNCHANGED <<module, view, call, result>>

-----------------------------------------------------------------------------
Init ==
  /\ disk \in Disks
  /\ moduleList = <<>>
  /\ module = [n \in Name |-> NewModule]
  /\ parser = <<>>
  /\ lex = <<>>
  /\ smiDepth = 0
  /\ view = {}
  /\ call = NoCall
  /\ result = NULL
  /\ crashed = FALSE

Application == \E n \in Name : \/ smiLoadModuleByName(n)
                               \/ smiLoadModuleByPath(n)
                               \/ smiGetModule(n)

Library ==
  \/ ModuleHeader \/ ImportClause \/ LinkageClause \/ Declaration
  \/ ClauseModule \/ ClauseReference \/ EndClause \/ FlushDeclaration
  \/ EndModule \/ EndOfParse
  \/ ReturnToApplication \/ ReturnToImport \/ ReturnToClause \/ Crash

Next == Application \/ Library

Spec == Init /\ [][Next]_vars

\* The library runs in the thread of its caller: nothing it does waits for
\* anything else, so its steps are weakly fair; the application owes nothing.
FairSpec == Spec /\ WF_vars(Library)
-----------------------------------------------------------------------------
(* Properties.                                                             *)

TypeOK ==
  /\ disk \in Disks
  /\ moduleList \in Seq(Name)
  /\ module \in [Name -> Module]
  /\ parser \in Seq(Parser)
  /\ lex \in Seq([file : Name, pos : Nat])
  /\ smiDepth \in Nat
  /\ view \subseteq Name
  /\ call \in Call
  /\ result \in Name \cup {NULL}
  /\ crashed \in BOOLEAN

\* The inductive invariant says what each stacked parser owns.  Where a
\* parser is inside of a module:
Inside == {"header", "imports", "body", "recover"} \cup Clauses

\* Every scanner buffer reads a file that exists.
FilesExist == \A i \in DOMAIN lex : lex[i].file \in DOMAIN disk

\* Every waiting parser is inside of a module; a parser inside of a module
\* owns it: it is in the list, and no other parser is inside of it.
Owners ==
  /\ \A i \in 1 .. Depth : i < Depth => parser[i].st \in Inside
  /\ \A i \in 1 .. Depth : parser[i].st \in Inside =>
       parser[i].mod \in Name /\ Listed(parser[i].mod)
  /\ \A i, j \in 1 .. Depth :
       /\ i # j
       /\ parser[i].st \in Inside
       /\ parser[j].st \in Inside
       => parser[i].mod # parser[j].mod

\* Names in the list are distinct.
ListDistinct ==
  \A i, j \in DOMAIN moduleList : moduleList[i] = moduleList[j] => i = j

\* A parser that is inside of a module is covered by its own module; one that
\* is not may be one ahead of the list.
Covered ==
  /\ Depth <= Len(moduleList) + 1
  /\ parser # <<>> /\ top.st \in Inside => Depth <= Len(moduleList)

IInv == /\ TypeOK
        /\ smiDepth = Depth
        /\ FilesExist
        /\ Owners
        /\ ListDistinct
        /\ Covered

\* A module is chained into the list once, whatever files name it, and no two
\* parsers that wait for nested ones work on the same module: the check of
\* the module header against modules that are themselves being parsed.
OneParserPerModule ==
  /\ \A i, j \in DOMAIN moduleList :
       moduleList[i] = moduleList[j] => i = j
  /\ \A i \in 1 .. Depth - 1 :
       /\ Listed(parser[i].mod)
       /\ \A j \in 1 .. Depth - 1 : parser[i].mod = parser[j].mod => i = j

\* Recursive imports nest no deeper than the modules known so far, plus one,
\* even if modules import each other in a loop: every waiting parser has put
\* a module of its own into the list.
NestingBounded == Depth <= Len(moduleList) + 1

\* Parsers, scanner buffers and smiDepth stay in step: each parser reads the
\* file it was created for, so no module gets declarations of another file.
OwnBuffer ==
  /\ Len(lex) = Depth
  /\ smiDepth = Depth
  /\ \A i \in 1 .. Depth : lex[i].file = parser[i].file

\* A descriptor of an IMPORTS clause is left unknown only while the parser of
\* its module waits for the module it is imported from.
ImportsSettled ==
  \A n \in Name : \A i \in DOMAIN module[n].imports :
    (module[n].imports[i].kind = "unknown" /\ ~module[n].imports[i].inc)
      => \E k \in 1 .. Depth - 1 : parser[k].mod = n
                                   /\ parser[k].wait = "import"

\* A settled import names a module of the list in which a lookup finds the
\* descriptor, as the kind that was recorded: modules never lose one.
ImportTruth ==
  \A n \in Name : \A i \in DOMAIN module[n].imports :
    LET imp == module[n].imports[i]
    IN  imp.kind \in Classes
          => /\ imp.from # NULL
             /\ Listed(imp.from)
             /\ imp.sym \in Visible(imp.from)
             /\ imp.kind = Class[imp.sym]

\* The imports of the IMPORTS clause, and those that are known to be macros
\* or types of SNMPv2-SMI.
Imported(rec) == {i \in DOMAIN rec.imports : ~rec.imports[i].inc}
FromSMI(rec)  == {i \in DOMAIN rec.imports :
                    /\ rec.imports[i].from = SNMPv2_SMI
                    /\ rec.imports[i].kind \in {"macro", "type"}}

\* SNMPv2-SMI is found nowhere but at the start of the file of that name.
IsHeader(f, i) == disk[f][i].op \in {"module", "pib"}
InPlace == \A f \in DOMAIN disk : \A i \in DOMAIN disk[f] :
  IsHeader(f, i) /\ disk[f][i].name = SNMPv2_SMI => f = SNMPv2_SMI /\ i = 1

\* A module is taken for SMIv2 only if it is SNMPv2-SMI, if some macro or type
\* was found there for one of its imports, or if it has no imports at all;
\* and it is, if it is no PIB, in the first case, and in the second one too
\* unless its import clause named a file that happens to hold SNMPv2-SMI.
LanguageOf(n, rec) ==
  rec.language # "sppi"
    => /\ rec.language = "smiv2"
            => n = SNMPv2_SMI \/ FromSMI(rec) # {} \/ Imported(rec) = {}
       /\ n = SNMPv2_SMI \/ (InPlace /\ FromSMI(rec) \cap Imported(rec) # {})
            => rec.language = "smiv2"
LanguageRule == \A n \in Name : Listed(n) => LanguageOf(n, module[n])

\* What a module records of its imports and of its language is true, whatever
\* was half parsed when it was recorded.
RecordsTrue == ImportsSettled /\ ImportTruth /\ LanguageRule

\* What the records of the modules rest on.  A module that is not in the list
\* is as it was allocated, and one a parser is inside of is not complete.
Fresh == \A n \in Name : ~Listed(n) => module[n] = NewModule
Unfinished == \A i \in 1 .. Depth :
  parser[i].st \in Inside => ~module[parser[i].mod].complete

\* A parser holds on to modules of the list only, and while it waits, to the
\* name that the nested parser was started for; it knows what it waits for.
Resolved == \A i \in 1 .. Depth :
  /\ parser[i].mod # NULL => Listed(parser[i].mod)
  /\ \A c \in Clauses : parser[i].scope[c] # NULL => Listed(parser[i].scope[c])
Awaited == \A i \in 1 .. Depth - 1 : parser[i].wait # "no" =>
  /\ parser[i].asked = parser[i + 1].file
  /\ parser[i].wait = "import" <=> parser[i].st = "imports"

\* Before the declarations only the imports can have made a module SMIv2;
\* after the imports its language is no longer unknown.
Deciding(p, rec) ==
  /\ p.st \in {"header", "imports"} /\ rec.language = "smiv2"
       => p.mod = SNMPv2_SMI \/ FromSMI(rec) # {}
  /\ p.st # "imports" /\ rec.language = "unknown" => Imported(rec) = {}
Undecided == \A i \in 1 .. Depth :
  parser[i].st \in Inside => Deciding(parser[i], module[parser[i].mod])

\* The first token of a buffer is read by the parser it was pushed for.
Begun ==
  /\ \A i \in DOMAIN lex : lex[i].pos >= 1 /\ (i < Len(lex) => lex[i].pos > 1)
  /\ lex # <<>> /\ lex[Len(lex)].pos = 1
       => parser # <<>> /\ lex[Len(lex)].file = top.file
SmiInPlace == InPlace => \A i \in 1 .. Depth :
  parser[i].mod = SNMPv2_SMI => parser[i].file = SNMPv2_SMI

RInv == /\ Fresh
        /\ Unfinished
        /\ Resolved
        /\ Awaited
        /\ Undecided
        /\ Begun
        /\ SmiInPlace
        /\ RecordsTrue

\* As long as fewer modules are known than scanner buffers can be stacked, no
\* loadModule() goes without its buffer.
Roomy == Len(moduleList) < MAX_LEX_DEPTH
BInv == Roomy => /\ ~crashed
                 /\ Len(lex) = Depth
                 /\ \A i \in 1 .. Depth : /\ ~parser[i].over
                                          /\ lex[i].file = parser[i].file

\* What the files alone say of the modules that a module may cause to be
\* parsed.  The modules whose texts file f holds; none if it does not exist.
Held(f) == IF f \in DOMAIN disk
           THEN {disk[f][h].name : h \in {x \in DOMAIN disk[f] :
                                            IsHeader(f, x)}}
           ELSE {}

\* The token i of file f belongs to the module whose header is the token h:
\* for the imports, which follow their header, no other header is between.
\* In the declarations headers are dropped where errors are recovered from,
\* so that a clause may belong to any module that began before it.
Under(f, h, i) ==
  /\ h < i /\ IsHeader(f, h)
  /\ disk[f][i].op = "import" => \A x \in h + 1 .. i : ~IsHeader(f, x)

\* The names that the text of module n, in whatever file, imports from or
\* refers to in a MODULE or SUPPORTS clause.
Mentions(n) ==
  UNION { {disk[f][i].name : i \in {x \in DOMAIN disk[f] :
             /\ disk[f][x].op \in {"import"} \cup Clauses
             /\ \E h \in DOMAIN disk[f] : /\ disk[f][h].name = n
                                         /\ Under(f, h, x)}} :
          f \in DOMAIN disk }

DependsOn(n) == UNION {{k} \cup Held(k) : k \in Mentions(n)}

\* Module k depends on module n over any number of modules: no set without n
\* holds all that k and the members of the set depend on.
Needs(k, n) ==
  LET on == [m \in Name |-> DependsOn(m)]
  IN  \A T \in SUBSET (Name \ {n}) : \E m \in T \cup {k} : ~(on[m] \subseteq T)

\* An import that was not found though the module it is attributed to has
\* come to define it was looked up while that module was still being parsed:
\* that happens only if the module depends, over any number of modules, on
\* the importing one.  Without an import loop no import goes stale.
StaleImportNeedsLoop ==
  \A n \in Name : \A i \in DOMAIN module[n].imports :
    LET imp == module[n].imports[i]
    IN  (/\ imp.kind = "notfound" /\ imp.from # NULL
         /\ imp.sym \in module[imp.from].defs)
          => Needs(imp.from, n)

\* What that rests on, while every parser reads its own file.  A parser with
\* a module has read its header; before the declarations, no other since.
Reading(p, pos) ==
  p.mod # NULL =>
    \E h \in DOMAIN disk[p.file] :
      /\ h < pos /\ IsHeader(p.file, h) /\ disk[p.file][h].name = p.mod
      /\ p.st \in {"header", "imports"}
           => \A x \in h + 1 .. pos - 1 : ~IsHeader(p.file, x)
Reads == \A i \in 1 .. Depth : Reading(parser[i], lex[i].pos)

\* A nested parser reads a file that the waiting module mentions, so that its
\* module, and those of all parsers above, are needed by the waiting one.
Mentioned == \A i \in 1 .. Depth - 1 :
  parser[i + 1].file \in Mentions(parser[i].mod)
Chained == \A i, j \in 1 .. Depth :
  i < j /\ parser[j].st \in Inside => Needs(parser[i].mod, parser[j].mod)

\* The module of a clause is another one than that of its parser.
Apart(p) == p.st \in Inside => \A c \in Clauses :
  p.scope[c] # NULL => p.scope[c] # p.mod

\* An import that was not found in a module that is no longer being parsed is
\* not defined there, unless that module needs the importing one.
BeingParsed(k) == \E i \in 1 .. Depth : parser[i].st \in Inside /\ parser[i].mod = k
Excused(imp, n) ==
  imp.kind = "notfound" /\ imp.from # NULL
    => \/ Needs(imp.from, n)
       \/ /\ Listed(imp.from) /\ ~BeingParsed(imp.from)
          /\ imp.sym \notin module[imp.from].defs
AllExcused == \A n \in Name : \A i \in DOMAIN module[n].imports :
  Excused(module[n].imports[i], n)

SInv == Roomy => /\ Reads
                 /\ Mentioned
                 /\ Chained
                 /\ \A i \in 1 .. Depth : Apart(parser[i])
                 /\ AllExcused

\* What one step may never do: drop or reorder modules, take back how an
\* import was settled, forget a descriptor, or touch a module after its END.
Growth ==
  /\ \A i \in DOMAIN moduleList :
       i \in DOMAIN moduleList' /\ moduleList'[i] = moduleList[i]
  /\ \A n \in Name :
       /\ module[n].complete => module'[n] = module[n]
       /\ Visible(n) \subseteq Visible(n)'
       /\ \A i \in DOMAIN module[n].imports :
            /\ i \in DOMAIN module'[n].imports
            /\ module[n].imports[i].kind # "unknown"
                 => module'[n].imports[i] = module[n].imports[i]
\* What is found once stays found, and what was read stays as it was read.
ModulesOnlyGrow == [][Growth]_vars

\* Every call of the application returns, whatever the files contain: import
\* loops, files that hold other modules than they are named for, files with
\* several modules and files that end early.
LoadReturns == (parser # <<>>) ~> (parser = <<>> \/ crashed)

\* Each load behaves like a single operation of the module registry.
Registry == INSTANCE ModuleRegistry WITH
  known <- {moduleList[i] : i \in DOMAIN moduleList},
  busy  <- parser # <<>>
RegistrySpec == Registry!Spec
=============================================================================
