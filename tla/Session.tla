------------------------------- MODULE Session -------------------------------
(***************************************************************************)
(* The calls that surround the loading of modules: data sets are opened,   *)
(* selected and closed by smiInit() and smiExit(), configured by files and *)
(* by calls, and filled by smiLoadModule(); errors found on the way are    *)
(* recorded in the modules and filtered for the application's handler,     *)
(* which may itself configure the library, or select another data set,     *)
(* before it returns to the parser.                                        *)
(*                                                                         *)
(* A module's text is reduced to the errors found in it and the modules it *)
(* imports.  The handler does not load modules or close data sets.         *)
(***************************************************************************)
EXTENDS Integers, Sequences, FiniteSetsExt

CONSTANTS
  Tag,            \* tags that smiInit() is called with
  Program,        \* names of applications
  App,            \* per tag: the application's, the part before the colon
  Module, Dir,    \* names of modules, directories of search paths
  NULL,
  Text,           \* per directory: the text of the modules found there
  Config,         \* the commands of the configuration files
  SmiPath,        \* the environment variable SMIPATH, as a path command
  Error,          \* errors, and the severities that they have in error.c
  Level,
  NOT_FOUND,      \* ERR_MODULE_NOT_FOUND
  Levels, Flags, Severities, Patterns, Paths,  \* what the application sets
  MaxHandles,     \* bound on the data sets opened in a run
  MaxCalls        \* bound on the calls of the application and its handler

DEFAULT_ERRORLEVEL == 3
IGNORE   == 128
Builtin  == <<CHOOSE d \in Dir : TRUE>>
Flag     == {"ERRORS", "RECURSIVE"}
Handler  == {"smiErrorHandler", "own", NULL}
Handle   == [name : Tag \cup {NULL}, prev : Nat, next : Nat,
             freed : BOOLEAN, level : Nat, flags : SUBSET Flag,
             handler : Handler, path : Seq(Dir),
             conformance : [Module -> Nat \cup {NULL}]]
Stated   == 0 .. 15
Severity == Stated \cup {IGNORE + s : s \in Stated}
Command  ==
  LET For == {NULL} \cup Program
  IN  [app : For, op : {"level"}, arg : Nat]
      \cup [app : For, op : {"hide"}, arg : SUBSET Error]
      \cup [app : For, op : {"load"}, arg : Module]
      \cup [app : For, op : {"append", "prepend", "replace"}, arg : Dir]

Statement == [op : {"import"}, arg : Module] \cup [op : {"error"}, arg : Error]

\* What an application finds out about a data set: its settings, and what has
\* been loaded.
Settings == [level : Nat, flags : SUBSET Flag, handler : Handler,
             path : Seq(Dir), loaded : SUBSET Module]

ASSUME NullAssumption == /\ NULL \notin Tag /\ "untagged" \notin Tag
                         /\ NULL # "untagged"
                         /\ NULL \notin Nat /\ NULL \notin Settings
ASSUME ErrorAssumption == NOT_FOUND \in Error /\ Level \in [Error -> Severity]
ASSUME ConfigAssumption ==
  /\ App \in [Tag -> Program] /\ Config \in Seq(Command)
  /\ SmiPath \in Command /\ SmiPath.app = NULL
  /\ SmiPath.op \in {"append", "prepend", "replace"}
ASSUME TextAssumption ==
  /\ Dir # {}
  /\ \A d \in Dir : /\ DOMAIN Text[d] \subseteq Module
                   /\ \A m \in DOMAIN Text[d] : Text[d][m] \in Seq(Statement)
ASSUME CallAssumption ==
  /\ Levels \subseteq Nat /\ Flags \subseteq SUBSET Flag
  /\ Severities \subseteq Stated \cup {IGNORE, -1}
  /\ Patterns \subseteq SUBSET Error /\ Paths \subseteq Seq(Dir)
  /\ MaxHandles \in Nat /\ MaxCalls \in Nat

VARIABLES
  handle,    \* all handles allocated
  list,      \* firstHandlePtr and lastHandlePtr
  smiHandle, \* the handle of the selected data set
  smiDepth,  \* what the filter of errors takes for the depth of imports
  errors,    \* the table of severities
  stack,     \* what is in progress, innermost last
  status,    \* of the process
  calls,     \* number of calls so far
  raised,    \* errors so far, and what became of them
  nested     \* a handler has opened a data set

vars == <<handle, list, smiHandle, smiDepth, errors, stack, status, calls,
          raised, nested>>

NIL == 0
Data == [h |-> handle, list |-> list, cur |-> smiHandle, depth |-> smiDepth]

(***************************************************************************)
(* The list of handles.                                                    *)
(***************************************************************************)

NewHandle(name, last) ==
  [name |-> name, prev |-> last, next |-> NIL, freed |-> FALSE,
   level |-> DEFAULT_ERRORLEVEL, flags |-> {}, handler |-> "smiErrorHandler",
   path |-> Builtin, conformance |-> [m \in Module |-> NULL]]

\* addHandle(), and the settings that smiInit() begins with.
AddHandle(d, name) ==
  LET new   == Len(d.h) + 1
      added == Append(d.h, NewHandle(name, d.list.last))
  IN  [h     |-> IF d.list.last = NIL THEN added
                 ELSE [added EXCEPT ![d.list.last].next = new],
       list  |-> [first |-> IF d.list.first = NIL THEN new ELSE d.list.first,
                  last  |-> new],
       cur   |-> new,
       depth |-> 0]

Unlinked(h, x) ==
  [i \in DOMAIN h |->
     CASE i = h[x].prev -> [h[i] EXCEPT !.next = h[x].next]
       [] i = h[x].next -> [h[i] EXCEPT !.prev = h[x].prev]
       [] i = x -> [h[i] EXCEPT !.freed = TRUE]
       [] i \notin {x, h[x].prev, h[x].next} -> h[i]]

\* Mutant: lastHandlePtr is not moved back.
RemoveHandle_KeepLast(d, x) ==
  [h     |-> Unlinked(d.h, x),
   list  |-> [first |-> IF d.h[x].prev = NIL THEN d.h[x].next ELSE d.list.first,
              last  |-> d.list.last],
   cur   |-> NIL,
   depth |-> d.depth]

\* removeHandle(), and what smiExit() does after it.
RemoveHandle(d, x) ==
  [h     |-> Unlinked(d.h, x),
   list  |-> [first |-> IF d.h[x].prev = NIL THEN d.h[x].next ELSE d.list.first,
              last  |-> IF d.h[x].next = NIL THEN d.h[x].prev ELSE d.list.last],
   cur   |-> NIL,
   depth |-> d.depth]

\* The handles in the order of the list, then NIL.
NextPtr(x) == IF x = NIL THEN NIL ELSE handle[x].next
Order ==
  LET order[k \in DOMAIN handle] ==
        IF k = 1 THEN list.first ELSE NextPtr(order[k - 1])
  IN  order

\* findHandleByName() compares the names of the handles up to the one it finds.
Named(x, t)   == x # NIL /\ handle[x].name = t
FindHandle(t) == LET order == Order
                     hits  == {k \in DOMAIN handle : Named(order[k], t)}
                 IN  IF hits = {} THEN NIL ELSE order[Min(hits)]
Nameless(t)   == LET order == Order IN
                 \E k \in DOMAIN handle :
                   Named(order[k], NULL) /\ \A j \in 1 .. k : ~Named(order[j], t)

(***************************************************************************)
(* Control                                                                 *)
(***************************************************************************)

Running == status = "running"
Top == stack[Len(stack)]
Below == SubSeq(stack, 1, Len(stack) - 1)

\* Calls come from the application, or from its error handler.
Calling == /\ Running
           /\ calls < MaxCalls
           /\ stack # <<>> => Top.kind = "handler"
           /\ calls' = calls + 1

\* A command may be restricted to one application.
Applicable(command, app) == command.app = NULL \/ command.app = app

\* The commands of a configuration file come from the library.
Configuring(op) == /\ Running
                   /\ stack # <<>> /\ Top.kind = "config"
                   /\ Top.rest # <<>> /\ Head(Top.rest).op = op
                   /\ Applicable(Head(Top.rest), Top.app)
                   /\ UNCHANGED calls

Parsing(op) == /\ Running
               /\ stack # <<>> /\ Top.kind = "parser"
               /\ Top.rest # <<>> /\ Head(Top.rest).op = op
               /\ UNCHANGED calls

\* Both go on after the command, or the statement.
Argument == Head(Top.rest).arg
Done == [stack EXCEPT ![Len(stack)].rest = Tail(@)]

Set(d) == /\ handle' = d.h
          /\ list' = d.list
          /\ smiHandle' = d.cur
          /\ smiDepth' = d.depth

(***************************************************************************)
(* Errors                                                                  *)
(***************************************************************************)

Imported(stk) ==
  Len(stk) > 1 /\ stk[Len(stk)].kind = "parser"
               /\ stk[Len(stk) - 1].kind = "parser"

\* Mutant: the largest severity is kept.
Conformance_Largest(old, severity) ==
  IF old < severity \/ old = 0 THEN severity ELSE old

Conformance(old, severity) ==
  IF old > severity \/ old = 0 THEN severity ELSE old

\* printError() with a parser: the severity goes to the module, and the
\* message to the handler of the data set selected now.
Told(d, p, severity) ==
  /\ d.h[d.cur].handler # NULL
  /\ severity <= d.h[d.cur].level
  /\ "ERRORS" \in p.flags
  /\ d.depth = 1 \/ "RECURSIVE" \in p.flags

\* printError() without one.
ToldAnyway(d, severity) ==
  d.h[d.cur].handler # NULL /\ severity <= d.h[d.cur].level

\* smiErrorHandler() gives up after a fatal error; the application's own
\* handler takes over.
Handle1(d, told, severity, stk) ==
  /\ status' = IF /\ told /\ severity = 0
                  /\ d.h[d.cur].handler = "smiErrorHandler"
               THEN "exited" ELSE status
  /\ stack' = IF told /\ d.h[d.cur].handler = "own"
              THEN Append(stk, [kind |-> "handler"]) ELSE stk

PrintError(d, e, stk) ==
  LET p == stk[Len(stk)]
      severity == errors[e]
      heard == d.h[d.cur].handler # NULL
      told == Told(d, p, severity)
  IN  /\ Set(IF heard
             THEN [d EXCEPT !.h[p.at].conformance[p.mod] =
                              Conformance(@, severity)]
             ELSE d)
      /\ Handle1(d, told, severity, stk)
      /\ raised' = raised \cup
           {[at |-> p.at, mod |-> p.mod, severity |-> severity,
             flags |-> p.flags, level |-> d.h[d.cur].level,
             imported |-> Imported(stk), heard |-> heard, told |-> told]}

PrintErrorAnyway(d, e, stk) ==
  /\ Set(d)
  /\ Handle1(d, ToldAnyway(d, errors[e]), errors[e], stk)
  /\ UNCHANGED raised

(***************************************************************************)
(* Loading                                                                 *)
(***************************************************************************)

\* smiGetModulePath(): the first directory of the path that has the module.
Found(d, m) ==
  LET path == d.h[d.cur].path
      hits == {i \in DOMAIN path : m \in DOMAIN Text[path[i]]}
  IN  IF hits = {} THEN 0 ELSE Min(hits)

\* loadModule(): a copy of the flags goes to the parser.
Parser(d, m) ==
  [kind |-> "parser", mod |-> m, at |-> d.cur, flags |-> d.h[d.cur].flags,
   rest |-> Text[d.h[d.cur].path[Found(d, m)]][m]]

\* A module that is known is not loaded again.  The parser on top of stk, if
\* any, has asked for it.
Load(d, m, stk) ==
  LET x == d.cur IN
  \/ /\ d.h[x].conformance[m] # NULL
     /\ Set(d) /\ stack' = stk
     /\ UNCHANGED <<status, raised>>
  \/ /\ d.h[x].conformance[m] = NULL /\ Found(d, m) # 0
     /\ Set([d EXCEPT !.h[x].conformance[m] = 0, !.depth = @ + 1])
     /\ stack' = Append(stk, Parser(d, m))
     /\ UNCHANGED <<status, raised>>
  \/ /\ d.h[x].conformance[m] = NULL /\ Found(d, m) = 0
     /\ IF stk # <<>> /\ stk[Len(stk)].kind = "parser"
        THEN PrintError(d, NOT_FOUND, stk)
        ELSE PrintErrorAnyway(d, NOT_FOUND, stk)

Import == /\ Parsing("import")
          /\ Load(Data, Argument, Done)
          /\ UNCHANGED <<errors, nested>>

Complain == /\ Parsing("error")
            /\ PrintError(Data, Argument, Done)
            /\ UNCHANGED <<errors, nested>>

\* Mutant: smiDepth is not decremented.
LeaveDepth_Kept == smiDepth
LeaveDepth == smiDepth - 1

EndOfFile == /\ Running
             /\ stack # <<>> /\ Top.kind = "parser" /\ Top.rest = <<>>
             /\ smiDepth' = LeaveDepth
             /\ stack' = Below
             /\ UNCHANGED <<handle, list, smiHandle, errors, status, calls,
                            raised, nested>>

HandlerReturns == /\ Running
                  /\ stack # <<>> /\ Top.kind = "handler"
                  /\ stack' = Below
                  /\ UNCHANGED <<handle, list, smiHandle, smiDepth, errors,
                                 status, calls, raised, nested>>

(***************************************************************************)
(* The interface                                                           *)
(***************************************************************************)

\* A path argument that starts or ends with a separator extends the path.
NewPath(op, path, dir) ==
  CASE op = "append"  -> Append(path, dir)
    [] op = "prepend" -> <<dir>> \o path
    [] op = "replace" -> <<dir>>

\* The calls that can be the first one open a data set without a tag; no
\* configuration files are read for it.
Ensured ==
  IF smiHandle # NIL THEN Data
  ELSE LET d == AddHandle(Data, NULL)
       IN  [d EXCEPT !.h[d.cur].path = NewPath(SmiPath.op, @, SmiPath.arg)]
CanEnsure == smiHandle # NIL \/ Len(handle) < MaxHandles

ConfigFile(app, commands) ==
  [kind |-> "config", app |-> app, rest |-> commands]

\* smiInit(NULL) always opens a data set.
smiInitUntagged ==
  /\ Calling
  /\ Len(handle) < MaxHandles
  /\ LET d == AddHandle(Data, NULL)
     IN  Set([d EXCEPT !.h[d.cur].path = NewPath(SmiPath.op, @, SmiPath.arg)])
  /\ nested' = (nested \/ stack # <<>>)
  /\ UNCHANGED <<errors, stack, status, raised>>

\* smiInit() with a tag: to compare it with the name of a data set without a
\* tag is undefined.
smiInit(t) ==
  /\ Calling
  /\ \/ /\ Nameless(t)
        /\ status' = "crashed"
        /\ UNCHANGED <<handle, list, smiHandle, smiDepth, stack, nested>>
     \/ /\ ~Nameless(t) /\ FindHandle(t) # NIL
        /\ smiHandle' = FindHandle(t)
        /\ UNCHANGED <<handle, list, smiDepth, stack, status, nested>>
     \/ /\ ~Nameless(t) /\ FindHandle(t) = NIL
        /\ Len(handle) < MaxHandles
        /\ Set(AddHandle(Data, t))
        /\ stack' = Append(stack, ConfigFile(App[t], Append(Config, SmiPath)))
        /\ nested' = (nested \/ stack # <<>>)
        /\ UNCHANGED status
  /\ UNCHANGED <<errors, raised>>

\* smiExit(): smiFreeData() and removeHandle().
smiExit ==
  /\ Calling
  /\ stack = <<>>
  /\ smiHandle # NIL
  /\ Set(RemoveHandle(Data, smiHandle))
  /\ raised' = {r \in raised : r.at # smiHandle}
  /\ UNCHANGED <<errors, stack, status, nested>>

smiLoadModule(m) ==
  /\ Calling /\ stack = <<>> /\ CanEnsure
  /\ Load(Ensured, m, stack)
  /\ UNCHANGED <<errors, nested>>

\* What all functions that only change a setting leave alone.
Setting(stk) == /\ stack' = stk
                /\ UNCHANGED <<status, raised, nested>>

smiSetErrorLevel(l) ==
  /\ Calling /\ CanEnsure
  /\ Set([Ensured EXCEPT !.h[Ensured.cur].level = l])
  /\ Setting(stack) /\ UNCHANGED errors

smiSetFlags(f) ==
  /\ Calling /\ CanEnsure
  /\ Set([Ensured EXCEPT !.h[Ensured.cur].flags = f])
  /\ Setting(stack) /\ UNCHANGED errors

\* smiSetErrorHandler() needs a data set.
smiSetErrorHandler(f) ==
  /\ Calling
  /\ smiHandle # NIL
  /\ Set([Data EXCEPT !.h[smiHandle].handler = f])
  /\ Setting(stack) /\ UNCHANGED errors

\* 128 sets a flag that makes the severity too large for any level, and -1
\* removes it.
NewSeverity(old, s) ==
  CASE s = IGNORE -> (old % IGNORE) + IGNORE [] s = -1 -> old % IGNORE
    [] s \in Stated -> s

\* smiSetErrorSeverity() of the errors whose tag starts with a pattern: the
\* table is that of all data sets.
Severe(pattern, s) ==
  errors' = [e \in Error |-> IF e \in pattern THEN NewSeverity(errors[e], s)
                                              ELSE errors[e]]

smiSetSeverity(pattern, s) ==
  /\ Calling
  /\ Severe(pattern, s) /\ Setting(stack)
  /\ UNCHANGED <<handle, list, smiHandle, smiDepth>>

\* smiSetPath(); the NULL path is the empty one.
smiSetPath(path) ==
  /\ Calling /\ CanEnsure
  /\ Set([Ensured EXCEPT !.h[Ensured.cur].path = path])
  /\ Setting(stack) /\ UNCHANGED errors

smiReadConfig(app) ==
  /\ Calling
  /\ stack = <<>>
  /\ smiHandle # NIL
  /\ stack' = Append(stack, ConfigFile(app, Config))
  /\ UNCHANGED <<handle, list, smiHandle, smiDepth, errors, status, raised,
                 nested>>

ConfigLoad == /\ Configuring("load")
              /\ Load(Data, Argument, Done)
              /\ UNCHANGED <<errors, nested>>

ConfigLevel == /\ Configuring("level")
               /\ Set([Data EXCEPT !.h[smiHandle].level = Argument])
               /\ Setting(Done) /\ UNCHANGED errors

ConfigHide == /\ Configuring("hide")
              /\ Severe(Argument, 9) /\ Setting(Done)
              /\ UNCHANGED <<handle, list, smiHandle, smiDepth>>

ConfigPath(op) ==
  /\ Configuring(op)
  /\ Set([Data EXCEPT !.h[smiHandle].path = NewPath(op, @, Argument)])
  /\ Setting(Done) /\ UNCHANGED errors

\* The commands of other applications.
ConfigSkip ==
  /\ Running
  /\ stack # <<>> /\ Top.kind = "config" /\ Top.rest # <<>>
  /\ ~Applicable(Head(Top.rest), Top.app)
  /\ stack' = Done
  /\ UNCHANGED <<handle, list, smiHandle, smiDepth, errors, status, calls,
                 raised, nested>>

EndOfConfig ==
  /\ Running
  /\ stack # <<>> /\ Top.kind = "config" /\ Top.rest = <<>>
  /\ stack' = Below
  /\ UNCHANGED <<handle, list, smiHandle, smiDepth, errors, status, calls,
                 raised, nested>>

-----------------------------------------------------------------------------
Init ==
  /\ handle = <<>> /\ list = [first |-> NIL, last |-> NIL]
  /\ smiHandle = NIL /\ smiDepth = 0
  /\ errors = Level
  /\ stack = <<>> /\ status = "running" /\ calls = 0
  /\ raised = {} /\ nested = FALSE

Application ==
  \/ smiInitUntagged \/ smiExit
  \/ \E t \in Tag : smiInit(t) \/ smiReadConfig(App[t])
  \/ \E m \in Module : smiLoadModule(m)
  \/ \E l \in Levels : smiSetErrorLevel(l)
  \/ \E f \in Flags : smiSetFlags(f)
  \/ \E f \in Handler : smiSetErrorHandler(f)
  \/ \E p \in Patterns, s \in Severities : smiSetSeverity(p, s)
  \/ \E path \in Paths : smiSetPath(path)

Library ==
  \/ Import \/ Complain \/ EndOfFile \/ HandlerReturns
  \/ ConfigLoad \/ ConfigLevel \/ ConfigHide \/ ConfigSkip
  \/ EndOfConfig
  \/ \E op \in {"append", "prepend", "replace"} : ConfigPath(op)

Next == Application \/ Library

Spec == Init /\ [][Next]_vars

-----------------------------------------------------------------------------
(* Properties                                                              *)

Parsers  == [kind : {"parser"}, mod : Module, at : DOMAIN handle,
             flags : SUBSET Flag, rest : Seq(Statement)]
Frames   == Parsers \cup [kind : {"config"}, app : Program,
                          rest : Seq(Command)]
                    \cup [kind : {"handler"}]

TypeOK ==
  /\ handle \in Seq(Handle)
  /\ list \in [first : Nat, last : Nat]
  /\ smiHandle \in {NIL} \cup DOMAIN handle
  /\ smiDepth \in Int
  /\ errors \in [Error -> Severity]
  /\ stack \in Seq(Frames)
  /\ status \in {"running", "crashed", "exited"}
  /\ calls \in 0 .. MaxCalls
  /\ nested \in BOOLEAN

\* However data sets are opened, selected and closed, each is found under its
\* tag and changed only while it is selected, even by a handler that selects
\* another one in the middle of a load.
Kept(h) == [level |-> h.level, flags |-> h.flags, handler |-> h.handler,
            path |-> h.path,
            loaded |-> {m \in Module : h.conformance[m] # NULL}]
Sets == INSTANCE DataSets WITH
  NONE     <- NULL,
  UNTAGGED <- "untagged",
  Fresh    <- Kept(NewHandle(NULL, NIL)),
  set      <- [t \in Tag |-> IF FindHandle(t) = NIL THEN NULL
                             ELSE Kept(handle[FindHandle(t)])],
  selected <- IF smiHandle = NIL THEN NULL
              ELSE IF handle[smiHandle].name = NULL THEN "untagged"
              ELSE handle[smiHandle].name
DataSetSpec == Sets!Spec

\* smi_config(3): errors in a module that is read due to an import statement
\* are told only if the application asked for that, those of a module that it
\* loads itself whenever it asked for errors of that severity at all.  The
\* library's global count of the depth must stay right for that; it is reset
\* when a handler opens a data set.
ToldAsAsked ==
  ~nested => \A r \in raised :
    r.told <=> /\ r.heard
               /\ r.severity <= r.level
               /\ "ERRORS" \in r.flags
               /\ r.imported => "RECURSIVE" \in r.flags

\* smi_module(3): "the smallest error/warning severity raised while parsing the
\* module or the value 0 if no error/warning was raised", told or not, as long
\* as there is a handler and no error is fatal.
ConformanceSmallest ==
  \A x \in DOMAIN handle, m \in Module :
    LET own == {r \in raised : r.at = x /\ r.mod = m} IN
    /\ ~handle[x].freed
    /\ handle[x].conformance[m] # NULL
    /\ \A r \in own : r.heard /\ r.severity # 0
    => handle[x].conformance[m] = Min({r.severity : r \in own} \cup
                                      IF own = {} THEN {0} ELSE {})
=============================================================================
