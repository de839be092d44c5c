# Verification of libsmi

libsmi reads MIB modules (SMIv1, SMIv2, SPPI, SMIng, YANG) into one in-memory
database and offers an API to walk it; `smilint`, `smidump`, `smidiff` and
`smiquery` are built on that API.  This directory models the core of the
library and of its tools in TLA+, checks it with TLC on small instances, and
proves the properties of eight components with TLAPS for every instance.

Paths below are relative to `src/`.

## 1. Inventory

libsmi is sequential: all of it runs in the thread of its caller and shares
static variables.  What makes it hard is not concurrency but *re-entrance*
(the parser calls the loader, which runs another parser; the error printer
calls the application, which may call the library), *order* (MIB modules may
use a name before they define it, and modules may import each other in a
loop), and *linked structures that are changed in place* (merging trees and
types, sorting lists of ranges).

| component | code | state it keeps | operations | what makes it correct |
| --- | --- | --- | --- | --- |
| module loader | `lib/smi.c`, `lib/smi-data.c` (`loadModule`, `addModule`, imports), `lib/parser-smi.y` (module, linkage, compliance rules), `lib/scanner-smi.l` (buffer stack) | list of modules, one `Parser` per active `loadModule()`, stack of scanner buffers, `smiDepth`, view | `smiLoadModule`, `smiGetModule`, the IMPORTS / MODULE / SUPPORTS rules, end of a file | a module is parsed by one parser; recursion ends; parsers and buffers stay in step; imports are settled and stay true |
| tree of object identifiers | `lib/smi-data.c` (`addNode`, `addObject`, `setObjectName`, `mergeNodeTrees`), `lib/parser-smi.y` (objectIdentifier, `checkObjects`) | nodes in sorted sibling lists, objects of a node, objects of a module, the pending tree of forward references | the rules for labels and numbers, declarations, end of a module | OIDs are those the definitions mean, whatever their order; no object is lost; recursion is reported |
| type table | `lib/smi-data.c` (`addType`, `duplicateType`, `setTypeName`), `lib/parser-smi.y` (SYNTAX rules), `lib/smi-check.c` | types of a module, parents, incomplete types | SYNTAX rules, type declarations, `checkTypes` | one type per name, live links, basetypes as written, the right errors |
| named numbers | `lib/smi-check.c` | list of named numbers of a type | `smiCheckNamedNumbersOrder`, redefinition and subtyping | the list is sorted in place and keeps its numbers; errors are true of the list as it was written |
| ranges, sizes, DEFVALs | `lib/smi-check.c`, `lib/smi.c`, `lib/scanner-smi.l` | list of ranges of a type | `smiCheckTypeRanges`, `smiCheckDefault`, `smiGetMinSize`, `smiGetMaxSize` | the list is sorted, normalized and allows the numbers that were written |
| clauses and declarations | `lib/parser-smi.y` (nearly all rules), imports and revisions of `lib/smi-data.c`, names in `lib/smi-check.c` | what the clauses of the declaration mean so far; static flags of the parser that outlive it: `indexFlag`, `impliedFlag`, `default_basetype`, `variationkind`, `FLAG_CREATABLE`, the module of a compliance statement | macros, their clauses, the checks at END | a declaration means what its own text says, in the order it is written, whatever was read before or broke off |
| data sets, configuration, errors | `lib/smi.c`, `lib/smi-data.c` (handles), `lib/error.c` | list of handles, selected handle, table of severities | `smiInit`, `smiExit`, setters, `smiReadConfig`, `printError` and the application's handler | data sets do not mix; errors are filtered as asked for |
| retrieval of nodes | `lib/smi.c` | none but what the application holds: the node returned last | `smiGetFirstNode`, `smiGetNextNode`, child, parent, alias functions | a walk returns every node of its module, once, in order |
| retrieval of modules, types, macros; rendering | `lib/smi.c` | none | first/next functions over single lists, `smiRenderOID`, `smiRenderValue` | they return the list; a value reads as its display hint says |
| checks of a finished module | `lib/parser-smi.y` (`checkObjects`), `lib/smi-check.c` | kinds of nodes, flags of membership that outlive the module | tables, indexes, augmentation, SEQUENCEs, groups, compliances | the rules of RFC 2578-2580 and 3159, whatever the order of the declarations |
| SMIng parser | `lib/parser-sming.y`, `lib/scanner-sming.l` | as the SMIv1/v2 parser; classes, their attributes, unique lists and events | the same calls of `smi-data.c`; `smiGetAttribute` through the classes that are extended | as above; a class is told as it was written |
| YANG parser and data | `lib/parser-yang.y`, `lib/yang-data.c`, `lib/yang-check.c` | tree of statements, resolved references, markers, states of groupings | statements; `yangSemanticAnalysis` in six passes: references, expansion of uses and augment, config, keys, names, types | references lead to what their scope says; copies are complete and made once; cycles are reported |
| translation to YANG | `lib/smi2yang.c` | list of imports with their prefixes, static | one walk over a module per kind of definition | every prefix is declared; references lead to what the translation of the other module holds |
| helpers | `lib/util.c`, `lib/snprintf.c`, ... | none | memory and strings | a failed allocation ends the process |
| option parser | `tools/shhopt.c` | `argv`, which it shortens while it reads it | `optParseOptions` | what is an option, a value or a module is heard as it was written |
| smidump | `tools/smidump.c`, `tools/dump-*.c` | flags, list of modules, static lists of the drivers | options, loading, one function per format | what is printed is well-formed; the numbers it computes are right |
| smidiff | `tools/smidiff.c` | two data sets, messages printed | loops over the definitions of both versions | differences are told, and nothing else is |
| other tools | `tools/smilint.c`, `tools/smiquery.c`, ... | options, a handler | drivers of the API | form of the output |

`PROJECT.json` lists the components file by file.

### How they interact

* `smiLoadModule()` opens a data set if none is selected, and calls
  `loadModule()`, which pushes a `Parser` on the C stack and a buffer on the
  scanner's stack.  The IMPORTS rule calls `loadModule()` again.
* Each declaration is walked from the root of the one tree of OIDs; a label or
  a type name that is not known yet becomes a placeholder in a *pending* tree
  or an *incomplete* type, which the definition is merged into later.
* END of a module runs `checkImportsUsage`, `checkObjects`, `checkTypes` and
  the checks of `smi-check.c`.  A file that ends early skips all of them, but
  the module stays in the list.
* `printError()` changes the module (its conformance) and then calls the
  application's handler, in the middle of whatever the parser does.
* Retrieval functions read the structures above, and applications may load
  modules between two of them.
* The tools parse their options, set flags, load modules and then only retrieve:
  a driver of `smidump` prints one module after the other, `smidiff` walks over
  two data sets by turns.

### Behaviours that are hard to test

`PROJECT.json` lists 40 of them, each at its line.  The most important ones:
import loops see half-parsed modules; a scanner stack that is full; forward
references in every order; the four pointers of a node after any sequence of
insertions and merges; a type merged into its forward reference; a list of
ranges sorted in place; numbers at the limits of C integers; a handler that
selects another data set; an iterator over a tree that grows; groupings that
are expanded while others are being expanded; imports collected in a static
list by one pass for what another one prints.

## 2. The modules

| module | lines of code modelled | role |
| --- | --- | --- |
| `ModuleLoader` | `lib/parser-smi.y`, `lib/smi-data.c`, `lib/smi.c` | recursive loading |
| `ModuleRegistry` | - | abstract specification that `ModuleLoader` implements |
| `ModuleLoaderProofs` | - | TLAPS proofs |
| `OidTree` | `lib/smi-data.c`, `lib/parser-smi.y` | the tree of OIDs |
| `TypeTable` | `lib/smi-data.c`, `lib/parser-smi.y`, `lib/smi-check.c` | types and their references |
| `TypeTableProofs` | - | TLAPS proofs |
| `TypeRanges` | `lib/smi-check.c`, `lib/scanner-smi.l`, `lib/smi.c` | ranges and sizes |
| `TypeRangesProofs` | - | TLAPS proofs |
| `Session` | `lib/smi.c`, `lib/smi-data.c`, `lib/error.c` | data sets, configuration, errors |
| `DataSets` | - | abstract specification that `Session` implements |
| `SessionProofs` | - | TLAPS proofs |
| `NodeWalk` | `lib/smi.c`, `lib/smi-data.c`, `lib/parser-smi.y` | retrieval of nodes |
| `Rendering` | `lib/smi.c` | what values read like: numbers, labels, bits, and octet strings by a display hint |
| `RenderingProofs` | - | TLAPS proofs |
| `Lookup` | `lib/smi.c`, `lib/smi-data.c` | retrieval by name and number, lists, rendering of names |
| `LookupProofs` | - | TLAPS proofs |
| `NamedNumbers` | `lib/smi-check.c`, `lib/parser-smi.y` | named numbers of one type |
| `NumbersDiff` | `tools/smidiff.c` | named numbers of two versions of a type, each read as `NamedNumbers` says |
| `NumbersProofs` | - | TLAPS proofs |
| `Clauses` | `lib/parser-smi.y` | what each clause of a macro adds to a declaration |
| `Declarations` | `lib/parser-smi.y`, `lib/smi-data.c`, `lib/smi-check.c` | beginning and end of each macro, compliance, capabilities, END |
| `WrittenClauses` | - | what the text of a module means, read without a memory |
| `Classes` | `lib/parser-sming.y`, `lib/smi-data.c`, `lib/smi.c`, `tools/dump-sming.c` | typedefs, identities and classes of SMIng |
| `ReadSources` | - | texts of modules for `Clauses`, `Declarations` and `Classes`; modules for `ModuleChecks` |
| `ModuleChecks` | `lib/parser-smi.y`, `lib/smi-check.c` | what is checked at the END of a module |
| `YangReferences` | `lib/yang-check.c`, `lib/yang-data.c` | references of a YANG module, the types behind them |
| `YangSchema` | `lib/yang-check.c`, `lib/yang-data.c` | expansion and checks of its schema tree |
| `Options` | `tools/shhopt.c` | a command line |
| `Smidump` | `tools/smidump.c` | `smidump`: options, modules, driver; composes the drivers below and `Options` |
| `DumpSmi` | `tools/dump-smi.c` | the formats `smiv1` and `smiv2` |
| `DumpSppi` | `tools/dump-sppi.c` | the format `sppi`, and how a MIB becomes a PIB |
| `DumpSming` | `tools/dump-sming.c` | the format `sming` |
| `PduSizes` | `tools/dump-sizes.c` | the format `sizes` |
| `PduSizesProofs` | - | TLAPS proofs |
| `SmiSources` | - | modules for the drivers, nodes for `sizes`, and modules for `SmiYang` |
| `SmiYang` | `lib/smi2yang.c` | the format `yang` for SMI modules |
| `SmiDiff` | `tools/smidiff.c` | `smidiff` |
| `MC...` | - | constants of the checked instances, and the composition of several models in one run (`MCParserChecks`, `MCTools`, `MCTypeRanges`) |

A definition named `X_Something` next to `X` is `X` with a plausible bug
(`Mutant:` or `Fault:` in its comment).  It is not used by the specification;
`PROJECT.json` says which property fails when it takes the place of `X`.

### ModuleLoader

A file is a sequence of tokens, one per grammar rule whose semantic action
changes the state; the data of a declaration is the descriptor it defines and
the one it refers to.  The lines of a grammar rule in `PROJECT.json` are those of
its action in `lib/parser-smi.c`, the parser that bison made of
`lib/parser-smi.y`; the names of rules are those of the latter.

| state | code |
| --- | --- |
| `moduleList`, `module` | `smiHandle->firstModulePtr` ... and the fields of `Module` that the loader reads: definitions, forward references, imports, language |
| `parser` | the `Parser` variables of the active `loadModule()` calls, with the grammar's position (`st`), `modulePtr`, `complianceModulePtr` and `capabilitiesModulePtr` |
| `lex` | `lexBuffers[]` of the scanner, and the position in each file |
| `smiDepth`, `view` | the variables of that name |
| `call`, `result` | the API call that is in progress, and its answer |

Actions are the three API calls, one action per grammar rule
(`ModuleHeader`, `ImportClause`, `LinkageClause`, `Declaration`,
`ClauseModule`, `ClauseReference`, `EndClause`, `EndModule`), the two ways a
parser meets an error (`FlushDeclaration`, `EndOfParse`) and the three ways a
`loadModule()` returns (`ReturnToApplication`, `ReturnToImport`,
`ReturnToClause`).  A failing `smiEnterLexRecursion()` is followed as the code
follows it: no buffer is pushed, the parser runs, and a buffer of somebody else
is popped; `Crash` is the other outcome the build can have.

### OidTree

Nodes and objects are numbered in the order of their allocation, and the
children of a node keep the C pointers `firstChildPtr`, `lastChildPtr`,
`prevPtr`, `nextPtr`, since what goes wrong goes wrong with these.  The lists
of objects of a node and of a module are sequences.  `Label`, `Number` and
`NamedNumber` are the parts of an object identifier value, `Declaration` is
`setObjectName()` with the merge of the pending tree, `SequenceItem` a column
named in a SEQUENCE before it is defined, and `EndModule` computes the OIDs as
`checkObjects()` does.  A write through a null pointer and the endless merge
are `heap.fault`; an object that is freed while still chained is found by
`Stale`; a behaviour is followed up to that point and no further (`Intact`).

### TypeTable

One text is chosen declaration by declaration while it is read: first the
SYNTAX (`ReadBuiltin`, `ReadRestricted`, `ReadBits`, `ReadName`, `ReadSubtype`,
`ReadSequenceOf`, `ReadSequence`, `ReadApplication`), then what it is used for
(`DeclareType`, `DeclareObject`).  Types are numbered in the order of their
allocation; `owner` is the type that the elements of its list point back to.
`EndModule` is `checkTypes()`, and its `hung` is the loop of
`smiCheckTypeFormat()` that does not end: the type is in a set of types
(`Endless`) each of which has its parent in the set.

### TypeRanges

An action is an iteration of a loop of `smiCheckTypeRanges()`: `CheckRange`
casts, exchanges and links the first range, `SeekOn` and `LinkRange` are the
search for its place, `JoinRanges` and `KeepRange` the normalization.
Integers keep their width: `AsSigned` and `AsUnsigned` reinterpret, `Scan` is
what the scanner makes of a number of any size.  `CheckDefault` is
`smiCheckValueType()`; `smiGetMinSize` and `smiGetMaxSize` are functions over
the chain of derivation.

### NamedNumbers and NumbersDiff

One action is one iteration of `smiCheckNamedNumbersOrder()`: `list[1 .. pos]`
is what `lastPtr` has passed, and what lies behind it may be taken out and put
in front.  The number is compared with those from the head on; when the place
that is found lies behind the item itself the loop that looks for its
predecessor leaves the list, which is the state `crashed`.  `NumbersDiff` reads an old and a new
type like that and merges the two lists, one action per iteration of
`checkNamedNumbers()`; `use` tells which of its two callers compares the rest.

### Clauses and Declarations

A text is a sequence of declarations, and a declaration one of clauses; one
action reads one clause.  `sem` is the meaning of the declaration so far (the
semantic values of bison), `parser` what outlives a declaration: the static
variables `indexFlag`, `impliedFlag`, `default_basetype`, `variationkind`, and
the flag FLAG_CREATABLE and the two modules of the `Parser`.  A declaration
whose text has no `end` is flushed and leaves them as they are.  `module` has
the imports with their uses, the names known so far, the types that SEQUENCEs
gave to columns, and the revisions.

`WrittenClauses` says the same of the text as a whole, with quantifiers over
clauses instead of a state.  Where the code does carry something over, the
property says so: a declaration that breaks off behind `read-create` hands that
on to the next object, and one that breaks off within a MODULE part hands on
the module.

### Classes

A statement of SMIng is one action.  Attributes are found through `Chain`, a
class and those it extends; a class may name itself as its parent, where
`smiGetAttribute()` calls itself without end for a name it does not find
(`overflow`).  The class that a duplicate statement would have declared is
`classPtr = 0`, through which the code then writes (`crash`).  After the END the
module is passed on to `PrintClass` and `PrintUnique`, the walk of `smidump`
over classes; an attribute twice in one unique statement never lets that end
(`endless`).  `StopsOnlyFor` says that nothing else makes the program stop.

### ModuleChecks

One action is one object in one of the three loops of `checkObjects()`.  A
module is a sequence of objects in the order of declaration, with their
parents, INDEX clauses, SEQUENCEs and lists; `kind`, `grouped` and `required`
are the kinds and flags that outlive the module, so that a second module can
extend the first one.  `CheckTypeUsage` is one object of
`smiCheckTypeUsage()`: of an address it looks for the type that goes with it
among the siblings before it, in the INDEX and in the row that is augmented.

### YangReferences and YangSchema

A node is its place in `tree`; a copy is appended, as in the list of children.
`YangReferences` visits nodes as `resolveReferences()` and `typeHandler()` do
and follows a chain one reference at a time, marking what it passes.
`YangSchema` adds the passes between these two; the recursion of
`expandGroupings()` is `stack`, whose frames say how far the visit of a node
has come, so that copies may be appended to lists that are being walked.

### Options and Smidump

`Options` takes options and values out of `argv` one at a time and carries
each out as soon as it is read.  `Smidump` adds what the options of `smidump`
do, the search for `-c` before they are parsed, the loop over the modules and
the call of the driver, and then behaves like `DumpSmi` for each module or
like `PduSizes`: two models that run within a third one, by INSTANCE and by
EXTENDS.

### DumpSmi

What is printed is a sequence of items: a name, the macro, the names it uses,
and whether it is but a comment.  `AddImport` is one round of
`createImportList()`, the other actions print one definition each.

### DumpSppi

The items are those of `DumpSmi`, by INSTANCE, and so are the steps that it
shares; what differs is the conversion.  A MIB gets an identity for the PIB, a
column InstanceId and PIB-INDEX for each row, a group of all columns and a
compliance statement, and the names of SNMPv2-SMI become those of COPS-PR-SPPI.
`SppiSound` asks of the result what `DumpSmi` asks of its own: names are
defined or imported, once; rows have their columns; numbers that are added are
free.

### DumpSming

Lines open a block, close one, or are statements, with their indentation.
`lastindent` is the local variable that decides how many blocks a further
object closes.  `SmingSound` says that lines stand where the blocks that are
open say, that imports, typedefs and objects are printed in their order, and
which names are known.

### PduSizes

Functions count octets, with octets of any number of values; actions loop over
variables and index columns and add up the best, the mean and the worst case.
`Wide` says whether a C `long` has eight octets: the mean of two 32-bit numbers is
half of a sum of longs, which overflows only if they have four (`Width`).
`Type` holds the types that the rest of the library can produce: limits and named
numbers that the basetype can hold, sizes that are lengths.
Beside them the module keeps the size of a message whose values are any that the
types allow, which the program does not have.  That one is counted as BER has it:
`Enclosed` puts tag and length around a part, with the octet that tells the number
of octets of a length from 128 (`LongLength`) on, and strings have tag and length.
`uncounted` is how many octets of it the program leaves out: these long forms, tag
and length of strings, and what the first number of an OID takes beyond one octet.

### SmiYang

A YANG module is a sequence of statements, each with the number of the one it
stands in; a reference is a sequence of names with the prefix that is printed
and the module that it is meant to be.  `AddImport` and `AddBuiltins` fill the
sorted import list and choose prefixes, the other actions translate one
definition each, and `Finish` frees the list before the next module.

### SmiDiff

A module is a record of its clauses, types, nodes and revisions, with what
another module of the same data set puts at its OIDs (`shadowed`).  One action
is one iteration of a loop; a comparison is an operator that returns the
reports of the function of that name, which `Printed` filters by severity and
by `--ignore`.  Named numbers are compared as a set, which `NumbersDiff` and
`DifferencesExact` justify.  A default value is its basetype and what its union
holds; `Answers` are the answers that `cmpSmiValues()` can give for two of them,
none if it follows a number as an address (`Misread`, as where a null pointer is
read or an argument of `printf()` is missing).

### Session

`handle` holds all handles ever allocated, with their `prevPtr` and `nextPtr`;
`stack` what is in progress: parsers, configuration files, the application's
handler.  A module's text is the errors found in it and the modules it
imports; that of a configuration file its commands, those for other programs
(`ConfigSkip`) included.  The application may call at any time when nothing is
in progress; its handler may call the setters and `smiInit()`.

### NodeWalk

A node is its OID, and the label of a declaration is the OID it stands for,
which `OidTree` justifies (`OidsRight`, `TreeSound`).  `Declare` gives a
node its objects; `smiLoadModule` adds a module's nodes and, if its END is
there, computes `oid` and the module's prefix.  One walk, or one retrieval of
children, is followed in a behaviour: the calls do not change the tree, and so
do not influence each other.

### Lookup

`Lookup` extends `NodeWalk` with what the answers to names and numbers depend
on: `order`, the list of modules, and `view`, those that were asked for by
`smiLoadModule()` (`View`) and not by a name or an import (`Mention`).  The
functions of the interface are operators of these; `Ask` keeps one answer, and
`smiGetFirstModule`, `smiGetNextModule` pass the list of modules while it
grows.  The other lists do not change after their module was loaded: `Toured`
is what a first and a next function return of one.

What `NamesFound` leaves out, because the code does not provide it: a name with a
module that cannot be loaded is looked for in all modules, as if it had none; a
simple name of a type is not found if the first module that has the name only
refers to it; a top-level node is rendered as `::iso`, which `smiGetNode()` does
not read; a number below a node of a module that was cut short is rendered
with all its sub-identifiers behind the name; if a module imports one name from
two others, the parent may be that of either; and of two types of one name in
a module the second is not found.

### Rendering

A call is a value with its type and flags.  `RenderNumber`, `RenderEnum`,
`RenderBits`, `RenderOctets` and `RenderNothing` are the cases that
`smiRenderValue()` answers at once; for an octet string with a display hint
`BeginFormat` enters the loop, and `TellText`, `TellNumber`, `RefuseText` and
`RefuseSpec` are one iteration of it.

| state | code |
| --- | --- |
| `call` | the arguments |
| `st` | where in the function |
| `spec`, `i` | `fmt`, as the number of the specification that begins there, and `i` |
| `s`, `answer` | the groups that were appended to `s`, and what is returned |

A hint is what this loop takes it for, a sequence of specifications each with a
number, a letter and a separator; what is no such letter is `bad`.  A group of
the text is the octets that it shows, not their digits.  `ValueAsString` is the
function of that name, an operator since it is one step.

The model says what the code does where that is not what RFC 2579 says: a type
without a name is formatted as an IpAddress, the letter `b` prints a word of
zeros or ones behind its own octets, format `b` of an integer does not return
(`crash`), and the octal form of 64 bits has the wrong sign or an unset format
(`garbage`).

## 3. Runs

The figures are distinct states.

| run | states | module | question | result |
| --- | --- | --- | --- | --- |
| `loader` | 256 334 | `MCModuleLoader` | Do nested parsers, buffers, imports and the module list stay consistent, whatever the files hold? | holds |
| `loader_overflow` | 6 391 | `MCModuleLoader` | Does every call return, even with a scanner stack of one buffer? | holds |
| `oid_tree` | 49 098 | `MCOidTree` | Are tree and OIDs right in every order of the declarations? | holds |
| `type_table` | 1 776 565 | `MCTypeTable` | Are forward references, imports and redefinitions of types resolved as written? | holds |
| `type_ranges` | 233 624 | `MCTypeRanges` | Is a list of ranges sorted and normalized without a change of what it allows? Are values told as their display hints say? | holds, outside of the exception below |
| `session` | 716 363 | `MCSession` | Are data sets kept apart, and errors told as asked for? | holds |
| `node_walk` | 103 968 | `MCNodeWalk` | Does a walk return all nodes of its module in order? Is what a name or a number stands for found, and every list passed once? | holds for complete modules |
| `parser_checks` | 619 440 | `MCParserChecks` | Are named numbers sorted, judged and compared as they were written? Are the rules about a finished module applied whatever the order of its declarations? Does each clause mean what its own text says? | holds |
| `yang_schema` | 241 003 | `MCYangSchema` | Do references, expansion and checks of a YANG module agree with what its scopes and uses statements say? | holds |
| `tools` | 208 087 | `MCTools` | Are command lines heard, modules dumped soundly, sizes bracketed, and differences told? | holds |
| `merge_hang` | | `MCOidTree` | Does `mergeNodeTrees()` return? | violated |
| `yang_types` | | `MCYangSchema` | Does every YANG type get its builtin type? | violated |

### What the passing runs show

* **`loader`**: a module that is parsed is owned by one parser
  (`OneParserPerModule`); import loops nest no deeper than the modules that are
  known (`NestingBounded`); parsers, buffers and `smiDepth` are in step
  (`OwnBuffer`); an import is unknown only while its module is being loaded,
  what it was settled to stays true, and the guess of the language follows its
  rule (`RecordsTrue`, `ModulesOnlyGrow`); what was *not* found may appear
  later only in an import loop (`StaleImportNeedsLoop`); to the application it
  all looks like one operation of a registry that only grows (`RegistrySpec`).
* **`loader_overflow`**: `LoadReturns` under `FairSpec`; also when the buffer
  stack overflows and parsers read each other's files.
* **`oid_tree`**: the four pointers of nodes agree and each object hangs in one
  place (`TreeSound`); every OID is the one that the definitions mean, read as
  a set, and leads to its object, and recursive definitions are reported and
  no others (`OidsRight`); what hangs in the main tree never moves
  (`RootedStay`).
* **`type_table`**: one type of a name, no link to a type that was merged away
  (`TableSound`); the parents lead to the basetype the text gives, at once if
  everything came before (`MeantAsWritten`); unknown and unfitting references
  are reported exactly, redefinitions only if there are some (`NamesJudged`);
  the checks end unless a name was declared twice (`ChecksEnd`).
* **`type_ranges`**: `ListsSorted`, `ListsNormalized`; the numbers that were
  written stay allowed, unless a range is written between two earlier ones,
  and errors are told exactly of what is wrong (`RangesJudged`); a size that
  all restrictions allow is within `smiGetMinSize()` and `smiGetMaxSize()`,
  and a DEFVAL is judged as by the ranges that were written (`ValuesJudged`).
  An octet string is told as its hint says, completely or not at all
  (`HintFollowed`), and each iteration of the loop gets ahead (`GetsAhead`),
  so that every call returns, unless the hint ends in a specification
  of no octets; numbers keep their sign and a digit before the point, and the
  labels of `smiRenderValue()` are those of `smiValueAsString()` (`ValuesTold`).
* **`session`**: the list of handles implements a map from tags to data sets
  (`DataSetSpec`); an error is told if and only if the application asked for
  it, according to where its module was asked for (`ToldAsAsked`); the
  conformance of a module is its smallest severity (`ConformanceSmallest`).
* **`node_walk`**: `WalkVisitsAll` and `ToursSound`, while modules are
  loaded between the calls; names, qualified or not, and numbers are found, and
  what a number is rendered as leads back to it (`NamesFound`).
* **`parser_checks`**: the sort in place keeps every number and ends in order
  (`NumbersOrdered`); the errors about a list are those of the list as it was
  written (`NumbersJudged`); two lists are compared completely
  (`DifferencesExact`, but for how a bit before an old one is reported); tables,
  rows and columns are told apart in any order of
  declarations (`ObjectsJudged`), a row without an error has the SEQUENCE, the
  columns and the index of a table, and a wrong SEQUENCE is told,
  what no group lists or no compliance asks for is reported (all `ObjectsJudged`);
  indexes, creatable rows, types in SEQUENCEs, default values, revisions,
  unused imports, compliance statements, variations and names are what the
  text of their own declarations says (`ClausesJudged`), and so are the classes
  of a module in SMIng, what is told of their unique statements, and that
  nothing but three mistakes stops the program (`ClausesJudged` has `ClassesSound`
  as a conjunct); addresses and types that belong together are told exactly if
  their partner is missing (`ObjectsJudged`).
* **`yang_schema`**: an unresolved reference is reported exactly if its scope
  has no such name, each cycle once, and the builtin type is that at the end of
  the chain if typedefs come before their use (`ReferencesSound`); the schema
  has each node where and as often as the uses and augment statements say
  (`SchemaAsMeant`, with `ExpansionAsMeant`); config is what was written or refined above a node
  (`ConfigInherited`); of the data nodes with one parent and one name all but
  one are reported (`DuplicatesJudged`).
* **`tools`**: options, values and modules are told apart as they were written,
  and the driver gets the modules in their order (`CommandHeard`); what the
  formats `smiv1` and `smiv2` print uses no name that is neither defined nor
  imported in it, prints nothing twice and keeps its lists and compliances
  whole, also for the second module; so does `sppi`,
  also for what it adds to a MIB (`NamesKnown` says which uses the code forgets);
  what `sming` prints is a nesting of blocks that reads as the module it was, with
  one block closed at its end whatever is open; and in a translation to YANG prefixes are
  declared, keys are leafs, names are used once, and a leafref leads to a leaf
  exactly if the column or scalar is shown (`DumpSound`); no message whose
  types allow it is smaller than the best case that is printed, or larger than the worst
  one by more than the octets that are never counted (`SizesBracket`); `smidiff` is silent exactly of
  versions that are alike, apart from what it overlooks (`DifferencesTold`).

### Bounds, and why they are enough

| run | bound | why |
| --- | --- | --- |
| `loader` | two user modules and SNMPv2-SMI, three descriptors; fifteen shapes for one file, six for the other, two for the third, each present or absent; `MAX_LEX_DEPTH` 4 | loops of length one, two and three, files named for one module that hold another or two or SNMPv2-SMI, a textual convention without imports and with an empty IMPORTS, truncation, errors, all clauses; a stack of 4 is never full with three modules (`NestingBounded`), so that this run is about the normal case |
| `loader_overflow` | `MAX_LEX_DEPTH` 1 | every import overflows |
| `oid_tree` | one declaration in a first module, three in a second one, from 7 x 5 x 7 definitions in all six orders; `MAX_OID` 7; subids 0 .. 3 | two forward references at a time is what it takes to merge a subtree into one that exists and to move nodes to the front, the middle and the end; the longest OID without recursion has seven numbers |
| `type_table` | two modules, three declarations in all, two ordinary names (symmetric) and one application type | a definition, a use before it and a use after it; a chain of three; a loop of two and of one |
| `type_ranges` | integers of four bits (`INT_MAX` 7, as `LONG_MAX`; a `SIZE_MAX` of 8), lists of one range over eight limits on both sides of all boundaries and of up to three ranges over six intervals, one derived type | three ranges cover the head, the middle and the end of the insertion; wrap-around happens at the width, whatever it is. For `Rendering`: octets of two bits, words of two octets, strings of up to four octets, hints of up to three specifications of 0, 1, 2 octets or more than a word, every flag; the last specification is read again when the octets outlast it, ends with the string or within a group, and a group is larger than a word |
| `session` | two tags of one application (symmetric), two modules, two directories, `MaxHandles` 3, `MaxCalls` 6, a configuration file of four commands, one of them for another program | open two sets, go back to the first, close one in the middle of the list and load once more |
| `node_walk` | a module with three or more of five declarations, another with three variants and a third with three, complete or cut short; subids 1 .. 3 | nodes of others before, between, behind and below those of the module that is walked, and a module that lies outside of another's prefix |
| `parser_checks` | lists of one or two, or of three different ones, of five items, of which two share a name and two a number, bytes of two bits; enumerations of two items with a parent that may be declared later; the modules of `ReadSources`: a table of two columns in every order of declaration, second modules that extend it; its texts: rows, SEQUENCEs and columns in every order, each declaration also cut off behind each clause, up to three revisions, two statements of compliance about three modules | an item may have to be moved to the front, to the middle or nowhere; a bit in the byte of an old one and behind it; two columns can be exchanged, missing or foreign; a flag that outlives a declaration shows in the next one |
| `yang_schema` | two groupings that may use each other and themselves, one uses statement with or without refinement, one augment, in several orders; three typedefs that refer to each other or to nothing, leafs before or behind them | a grouping within a grouping, a copy of a copy, cycles of one, two and three, chains that join one that was followed before |
| `tools` | command lines of up to two of 23 arguments and some longer ones, four modules that are there or not, seven drivers; for `yang` three modules with tables that are indexed by, or augment, those of each other and the other modules of `SmiSources`, one after the other; octets of four values, longs of four octets, lengths of the long form from 48 on, one or two variables with up to two index columns (`SmiSources` too); pairs of versions that differ in one or two definitions, two levels of output | an option takes at most the argument that follows; the second module shows what the first one left behind; with octets of four values every length changes at a boundary, messages lie on both sides of 48 octets, some exceed the worst case by just the octets that are not counted, and some without such octets reach it; every clause that is compared changes, appears and disappears |

`CHECK_DEADLOCK FALSE` stands where behaviours end: all tokens are read
(`oid_tree`), the process died or hung (`loader_overflow`, `type_table`,
`session`), calls or types are used up (`session`, `type_ranges`), all
modules are loaded and the walk has ended (`node_walk`), or the program or the
analysis is through (`parser_checks`, `yang_schema`, `tools`).  In `loader` an
application can always call again, and deadlock is checked.

### Fairness

Only `LoadReturns` needs any.  The library runs in the thread
of its caller and waits for nothing, so once a call has begun its steps are taken
until it returns: `WF_vars(Library)` in `ModuleLoader`.  Nothing is assumed of the
application.

### Findings

1. `merge_hang` - "Merge the subtree rooted at `from' into the `to' tree
   recursively and release the `from' tree" (`lib/smi-data.c:1191`): a node
   that is moved to the end of a list keeps its `nextPtr` (1264), is found
   there again and merged with itself; the loop at 1226 does not end.
2. `yang_types` - "Resolves references to extensions, features, defined types,
   groupings and identities" (`lib/yang-check.c:582`): when the chain behind a
   typedef is followed, base types are stored with its start
   (`lib/yang-check.c:633`), so that a typedef in the middle of a chain, which
   is declared later, is left without one, and restrictions of it are refused.

Other places where code and documentation or comments differ, met while the
models were written; the models follow the code there, and no run is
spent on them:

* `ERR_MAX_LEX_DEPTH` (`lib/error.c:80`) speaks of a limit of the recursion,
  but `loadModule()` ignores that `smiEnterLexRecursion()` failed
  (`lib/smi-data.c:4651`).
* `mergeNodeTrees()` leaves null `prevPtr`s, through which `addNode()` writes
  later (`lib/smi-data.c:1054`); an object that is combined with a pending one
  is freed while it is still in the middle of its module's chain (1374);
  the rules that ignore the result of `setObjectName()` go on with a freed
  object (`lib/parser-smi.y:6524`, 7016).
* Error recovery leaves `complianceModulePtr` and FLAG_CREATABLE set
  (`lib/parser-smi.y:1962`): the next object is looked up in that module, or
  makes its row creatable.  IMPLIED of an earlier index reaches PIB-INDEX
  (5600).  "all" in SUBJECT-CATEGORIES is taken for the only one if it has a
  number (3641).  A label as DEFVAL of a variation without SYNTAX is read as
  of the last SYNTAX; one of an enumeration that is declared further down is
  refused (4218).  Opaque and IpAddress as the type of a column of a PIB are
  told only if the SEQUENCE was read first (2900).  What stands before the
  first macro of SMIv2 in a module without IMPORTS is judged as SMIv1.  A
  mandatory group that a module does not have is a null pointer in the list
  (6699), which an optional group behind it is compared with
  (`lib/smi-check.c:1777`; `CompareWithNull`).
* `compareValues()` of an INTEGER32 and an UNSIGNED32 returns the difference
  with the wrong sign (`lib/smi-check.c:118`), so that `-1..0`,
  written for a type that is not defined yet, counts as exchanged; a maximum
  size of 0 counts as none (`lib/smi.c:2976`).
* A type that is defined twice is merged although the first is no forward
  reference (`lib/smi-data.c:2475`), which can close a cycle of parents and
  hang `smiCheckTypeFormat()`; types derived from a forward reference keep
  the basetype UNKNOWN; an unknown application type is a null pointer
  (`lib/parser-smi.y:4532`).
* `printError()` without a parser does not look at `SMI_FLAG_ERRORS`
  (`lib/error.c:1131`), and the default level is 3, not 0; the conformance is
  not updated when there is no handler (`lib/error.c:1097`), and 0 stands
  for none as well as for a fatal error.
* `smiInit("tag")` after `smiInit(NULL)` compares a null pointer
  (`lib/smi-data.c:161`); `smiDepth` is reset when a handler opens a data set
  (`lib/smi.c:699`).
* `smiGetFirstAlias()` tests the children instead of the objects
  (`lib/smi.c:3193`); `smiGetParentNode()` forgets the definition it looked
  for (`lib/smi.c:2014`).
* `smi_config(3)`: `smiIsLoaded()` "returns a positive value if the module named
  module is already loaded", but `smiLoadModule(name)` adds the *requested*
  name to the view (`lib/smi.c:950`) whatever module the file held.
* "Side effects: None." (`lib/smi-check.c:1077`): a range that is linked in
  between two others loses all that follow (1195).  Ranges of a type that was
  merged keep the freed type as their owner (`lib/smi-data.c:2513`).
* `smiGetNextNode()` reads the prefix of a module that was cut short through a
  null pointer (`lib/smi.c:1951`).
* The sort of named numbers leaves its list when three or more are written,
  two of them the same (`lib/smi-check.c:687`).
* "named bit added without starting in a new byte" (`tools/smidiff.c:281`, 309):
  bytes are looked at only for the bits behind the last old one (1187), so that a
  bit in the middle of an old byte is reported as a plain addition.
  `DifferencesExact` leaves open how these bits (`Overlooked`) are reported, and
  asks for the message of all others that share their byte with an old bit.
* The number of index columns that must not be accessible is not that of the
  row (`lib/smi-check.c:957`).
* YANG (`lib/yang-check.c`): `typeHandler()` does not end for a leaf of a cyclic
  typedef (1052); a chain is resolved in the scope of its start when typedefs
  are nested; the names of cases and of nodes that stand for a case are not
  compared (`CasesUnique` of `YangSchema`); the result of several augment
  statements depends on their order, and the nodes that an augment statement
  itself contains are judged as config true; a container with five refinements
  uses a list of four, which drops `reference`; a refinement frees strings that
  the grouping and other copies share (388); a deviation of config has no
  effect.
* `smiRenderValue()` (`lib/smi.c`): the loop of format `b` counts an unsigned
  number down to below zero (2475); a hint whose last specification has the
  length 0 never gets ahead (2774); `*` is not supported; the letter `b` of a
  hint counts the octets that are left of the group, not those that were read
  (2738); a positive octal number of 64 bits gets a minus sign, a negative one
  is printed with a format that is not set (2611); a type without a name is
  formatted as an IpAddress (2667); without a type it follows a null pointer
  (2449).  `smiValueAsString()` counts the bits of SMIng from the other end
  (594).
* "best case / worst case RFC 3416 PDU sizes" (`tools/smidump.1.in:161`): real messages
  exceed the worst case of `tools/dump-sizes.c`.  A length of 128 and more is counted
  without the octet that says how many octets follow (280); octet strings and bits
  are counted without tag and length (454, 501), and the worst OID as one that begins
  with an octet (312), by an overflow.  `SizesBracket` bounds by how much
  (`uncounted`), and asks that messages without such octets are enclosed.
* `tools/dump-sizes.c`: the limits of signed types with negative ranges and
  of 64-bit types are wrong, and `abs(INT_MIN)` is undefined; IMPLIED is asked
  of the column; fixed-size strings are counted with a length; the largest
  error-index is one too small; OIDs are cut at 128 numbers; two means are
  `max + min/2` (725, 783).
* `tools/dump-smi.c`: parents of type definitions, the index columns of related
  rows, types of refinements, the ENTERPRISE of a trap and OBJECT-IDENTITY for
  capabilities are used without an import; so is Gauge for Unsigned32 in SMIv1;
  a column of a type of 64 bits is left out although an INDEX names it; GROUP
  and OBJECT clauses of modules without mandatory groups are lost (1800).
* `tools/dump-sppi.c`: the number of an identity is looked for among the
  children of a node that was not found, and is always 128 (1557); macros of
  what is added are imported only if the module has columns; of a comment that
  stands for a column of a type PIBs do not have, the comma stays behind the
  last one; a group names the columns that are comments; an OID as a value is
  compared with the text `zeroDotZero`, which it never is.
* `tools/dump-sming.c`: the list of imports is built and freed unread; the loop
  over typedefs of SNMPv2-SMI ends at the first it excludes; `--` before
  capabilities is no comment in SMIng (`lib/scanner-sming.l:125`); only one block
  is closed after the last object (1331), as in the stored dump
  `test/dumps/sming/RMON2-MIB`; a compliance names groups and objects of other
  modules without them.
* SMIng (`lib/parser-sming.y`): a second class of one name, or an unknown type of a
  typedef, leads through a null pointer; a class may extend itself, and a name
  that it does not have is then looked for without end; an unknown name in a
  unique statement ends the list that is told of it; so does an attribute of a
  class that is extended.
* `tools/smidump.c`: one module that a driver cannot take keeps back all others
  (346, 433); `SMIDUMP_DRIVER_CANT_SMING` is tested against the flags instead
  of the driver's; `-qc file` and `--conf` do not keep the default
  configuration from being read, although smidump(1) says "instead of any
  other"; smidump(1) names SMIng as the default format, which is SMIv2; errors
  of preloaded modules are not told; a long option may be cut short to nothing.
* `lib/smi2yang.c`: the prefix of a module that is reached only through an
  object of another module (its type, table or row) is used but not declared;
  two modules can get the same prefix if one's name begins the other's (251);
  a scalar in an index becomes a key without a leaf; a column and one of
  another module with the same name are mixed up in a key (1082, 1247);
  leafrefs to columns that are neither readable nor in an index, and to
  scalars behind an undefined node, lead nowhere; a notification repeats
  a name of an index that has it twice; `getModulePrefix()` frees
  the prefix that `smi2yangLeafPath()` still uses (265, 493).
* `tools/smidiff.c`: an object without a type that gets one leads through a null
  pointer (1432); the new name of a notification, surplus columns of an INDEX
  and unnamed types of refinements that come or go are not told; an added type
  of a refinement is printed without its argument (1376); a changed kind of
  index prints the name of the module and exchanged lines (1650); objects of
  notifications are not named; optional groups are looked for among the
  mandatory ones, so that what is optional for both is told to be removed and
  added; the previous definition is shown although the message was ignored;
  "If the
  basetype is different, no comparison is done and '0' will be returned" (800),
  but `cmpSmiValues()` reads both values as the basetype of the first says (809),
  and may take a number for an address (835).

## 4. Proofs

TLC checks the instances above; TLAPS proves the following for every value of
the constants that satisfies their assumptions.

### ModuleLoaderProofs

`TypeCorrect` (`[]TypeOK`), `OneParser` (`[]OneParserPerModule`) and `Nesting`
(`[]NestingBounded`), from `NameAssumption`, `ClassAssumption`,
`DepthAssumption` and `DiskAssumption`: for any set of module names and
descriptors, any contents of the search path and any depth of the scanner
stack - also when that overflows and parsers read each other's files.

`OneParserPerModule` speaks of the parsers that wait and is not inductive: the
current parser may be inside of a module too, and becomes a waiting one with
the next import.  `IInv` (in `ModuleLoader`) says what every parser owns:

* `Owners`: a parser that is inside of a module has that module in the list,
  and no other parser is inside of the same one; all that wait are inside.
* `ListDistinct`: a name is in the list once.
* `Covered`: there are no more parsers than modules in the list, plus one for
  a parser that has not read its header.  It follows step by step from the
  fact that a parser gets inside of a module only by appending it.
* `smiDepth = Depth`, `FilesExist`, `TypeOK`.

There is one lemma per action (`HeaderPreserves`, `ImportPreserves`, ...),
resting on lemmas about what pushing a parser (`Push`), popping one (`Leave`)
and replacing the current one preserve.

On top of it, from the same assumptions:

* `Records` (`[]RecordsTrue`): what a module records of its imports and of its
  language is true, although it is recorded while other modules are half
  parsed.
* `GrowOnly` (`ModulesOnlyGrow`): no step drops or reorders modules, takes back
  how an import was settled, forgets a descriptor or touches a module after
  its END.
* `OwnBuffers` (`[](Roomy => OwnBuffer /\ ~crashed)`): while fewer modules are
  known than buffers can be stacked (`Roomy`), each parser reads its own file
  and the process does not die.  `OwnBuffer` alone is false: see the overflow
  at `lib/smi-data.c:4651`.
* `StaleLoops` (`[](Roomy => StaleImportNeedsLoop)`): an import that was not
  found, though the module it is attributed to has come to define it, is part
  of an import loop of the files.
* `Registered` (`Spec => RegistrySpec`): the loader implements
  `ModuleRegistry`.  A header of a new module is `Learn`, the begin of a load
  `Begin`, its end `Finish`, an answer without a load `Immediate`, and every
  other step a stutter.

The second invariant, `RInv`, says what the parsers may rely on: modules that
are not in the list are as they were allocated (`Fresh`), a module is not
complete while a parser is inside of it (`Unfinished`), the modules that a
parser holds on to are in the list (`Resolved`), one that waits knows the name
the nested one was started for and why it waits (`Awaited`), before the
declarations only imports make a module SMIv2 (`Undecided`), and the first token
of a file is read by the parser it was opened for (`Begun`, `SmiInPlace`).
`BInv` is the invariant of `OwnBuffers`.  Each action has a lemma `...Keeps`
that shows `RInv' /\ BInv' /\ Growth`; they rest on what one record may become
(`Kept`: `FinishKept`, `ReferredKept`, `SettledKept`, ...) and on what a step of
the innermost parser, a nested one and one that returns leave of the stack
(`TopParsers`, `NestedParsers`, `ReturnParsers`).

The third, `SInv`, says under `Roomy` how the parsers on the stack need each
other, by what the files alone say: a parser has read the header of its module
(`Reads`), a nested one reads a file that the waiting module mentions
(`Mentioned`), so that each waiting module needs those above it (`Chained`); a
clause is about another module than its own (`Apart`); and an import that was
not found closes a loop, or is not defined in a module that is listed and no
longer being parsed (`AllExcused`).  `Needs` is reachability, stated without
paths: each set of modules that is closed under what they depend on and holds
what `k` depends on contains `n`.  Its transitivity then takes no induction.
A parser that reads the buffer of another one imports what its own file does
not mention, which is why the theorem is limited to `Roomy`; the run knows
fewer modules than there are buffers and never meets that limit.  TLC checked
`SInv` with smaller stacks too before it was proved.

The attempt to prove the rule about languages showed that it was false as it
had been stated: a module without IMPORTS that uses a textual convention is
SMIv2, and a module that imports from SNMPv2-SMI is not if its clause named
another file that happens to hold it.  `LanguageRule` now says both, and the
instance has files that do so.

### SessionProofs

`Inductive` (`[]SInv`), `TypeCorrect`, `AskedAndTold` (`[]ToldAsAsked`),
`Smallest` (`[]ConformanceSmallest`) and `Refines` (`Spec => DataSetSpec`), from
`NullAssumption`, `ErrorAssumption`, `ConfigAssumption`, `TextAssumption` and
`CallAssumption`: for any tags, modules, texts with any imports and errors,
configuration files and handlers, and any number of data sets.

`SInv` has these parts:

* `DataOK`: the links of the handles in use follow the order of their
  allocation (`Forward`, `Backward`, `Linked`), and no two have the same tag
  (`OneTag`).  `findHandleByName()` follows links; with this the handle it
  returns can be described without them (`OrderFacts`), by the least of a set
  of numbers (`LeastNat`, from the well-foundedness of `<`) where a proof on
  paper would use induction over the list.
* `FramesOK`, `RaisedOK`: what is on the stack and what was raised belongs to
  data sets that are in use.
* `DepthOK`: the nesting depth that `printError()` looks at is that of the
  frames (`Shape`, `Depth`), which is what makes `ToldAsAsked` true: whether an
  error is told depends on the depth of the parser that raised it.
* `AskedOK`, `SmallestOK`: the two properties, in terms of the process.

For the refinement each step is one of `Open`, `Select`, `OpenUntagged`, `Work`
and `Close` of `DataSets`, or a stutter.

### TypeRangesProofs

`TypeCorrect`, `RangesSorted` (`[]ListsSorted`), `RangesNormalized`
(`[]ListsNormalized`), `RangesRight` (`[]RangesJudged`) and `ValuesRight`
(`[]ValuesJudged`), from `WidthAssumption`, `SizeAssumption`,
`RestrictionAssumption` and `NumberAssumption`: for integers of any width, any
number of ranges with any limits, and any depth of derivation, although the
insertion cuts the list.  With these every property that the run `type_ranges`
checks is proved.

The invariant `IInv` = `TypeOK /\ JobInv /\ TypesInv`: all limits of a list
have the basetype that its type is cast to (so that `compareValues()` is an
order on them, lemma `Compared`), the list is sorted at any time, the ranges
that the search has passed are below the one that is linked in, and while the
list is normalized what is *kept* is final: sorted, apart, and below what is
left.  `PutFirst`, `PutLast`, `Cut` and `DropFirst` say what the list
operations preserve.

`CoverInv` says what the list stands for.  At any time the numbers of the list
and of what is kept are those of the ranges that have been taken (`Covered`), as
long as no range is written between two earlier ones: then the search always
ends at the last range, and nothing is cut off (`CutBetween`).  This needs that
each range of the list starts where a written one does, which joining would
break, and so is claimed before that only; and that numbers of the basetype are
read and reinterpreted as themselves (`Fits`, `CastFits`, `RangeFits`).

`ErrInv` says what has been reported: nothing, exactly if the ranges so far are
in order (`WFTo`), and then the list is the text, range by range.  That nothing
is reported is what forces each range to the end of the list, and only then do
the comparisons with its neighbours decide about all ranges before it
(`WFNext`).

`ValuesJudged` follows from the lists of the types: of a DEFVAL from
`DefaultInv` (what was reported is what `smiCheckValueType()` says of the type as
it is now: later types change nothing), of the sizes by descent to the least
type of a derivation for which it fails (`SizesBetween`).  The recursive
functions `smiGetMinSize` and `smiGetMaxSize` are shown to exist (`Iterated`,
`SizesDefined`), and so are the least and the largest limit of a list (`MinOf`,
`MaxOf`), from the well-foundedness of `<`.

### NumbersProofs

`Ordered` (`[]NumbersOrdered`), `Judged` (`[]NumbersJudged`), `NumbersTyped` and
`Exact` (`[]DifferencesExact`), for lists of any length over any names and
numbers, from `TextAssumption` and `ByteAssumption`.

`NInv` says of the sort that what `lastPtr` has passed is in order
(`PassedSorted`), that the items are those of the text, that numbers stay
distinct if they were, and that the list is not left as long as they are
(`NoRunOff`).  An iteration moves one item of a sequence: `Shift(s, n, p)` and
its lemmas say that this keeps items and order.  `MInv` says of the merge that
what has been reported is the difference of the parts that were passed, and
that what is left lies behind both (`Apart`).  `AllPassed` gives the bits that
`DifferencesExact` may find reported as plain additions: all of `Overlooked`.

`JInv` says of the errors what `NumbersJudged` says at the end: until the sort
is over, "not ascending" is reported exactly if it is so of the numbers that
were passed (`OrderJudged`, `DescendsNext`), and nothing about names.  What is
written twice in the text is twice in the sorted list (`SameTwice`,
`ShiftSameTwice`), so that the check, which sees the sorted list, reports of
the text (`RedefinitionsFound`, `MissingFound`).

### TypeTableProofs

`Inductive` (`[]IInv`), `TableAlwaysSound` (`[]TableSound`), `NamesStay`
(`[]NameInv`), `UnknownAlwaysReported` (`[]UnknownReported`),
`RedefinitionsAlwaysJustified` (`[]RedefinitionsJustified`) and
`ChecksAlwaysEnd` (`[]ChecksEnd`), from `NameAssumption` and `BoundAssumption`:
for any names, any number of modules and of declarations, in any order.

`TableOK(ts, m)` says what a table of types looks like, of any table and not
of the variable, because a step goes through several: a rule that refers to a
name may create a type for it and derive another one from that.  The rules
append types (`Appended`; `Extension` says what a SYNTAX makes of the table),
a declaration names one (`Renamed`, `SetTypeNameSound`).  What makes the merge
of `setTypeName()` harmless is `ParentsOK`: a type is only derived from one
that *has a name*, so that nothing leads to the type that is freed, which has
none; and `PendingOK`: the pending type is not that of an object.

Two layers rest on it:

* `NameInv` ties the table to the text.  A type has a name because its
  declaration was read, or is `Awaited` (`NamedOK`), and whatever a module
  declares, refers to or imports has a type (`KnownOK`).  At the end of a
  module the types that `checkTypes()` reports are then those of the awaited
  names (`EndReports`).
* `EndInv` says why the loop of `smiCheckTypeFormat()` ends: unless a name was
  declared twice, the types can be ranked so that one whose basetype is known
  is derived from one of a lesser rank whose basetype is known too (`Ranks`).
  A definition takes over a type without a basetype (`ForwardOK`), which no
  type with one is derived from; so the merged type can keep its rank.
  `ParentsEnd` is the descent.

### LookupProofs

`ToursRight` (`[]ToursSound`) and `NamesAlwaysFound` (`[]NamesFound`) of
`LookupSpec`, with which both invariants of the run `node_walk` are proved: for
any modules with any declarations, complete or cut short, that are loaded in any
order and between any two calls.  The assumptions say what the texts are made
of: sub-identifiers are numbers and 1 is one of them (`SubidAssumption`),
declarations are those of `TextAssumption`, lists are sequences
(`ListAssumption`), languages are numbers (`LanguageAssumption`), and names of
objects, of modules, of the toplevel objects and null pointers are told apart
(`NameAssumption`, `NullAssumption`).

The invariant `LookupInv` has four parts; `AnswerInv` rests on it.

* `NodesInv`: the tree is finite and closed upwards, each node has an object,
  objects belong to modules that are loaded, and whatever a module declares has
  that module's object at its place (`Declared`).  It is kept because loading a
  module adds nodes and objects of that module and changes nothing else:
  `NumberFacts` and `DeclareFacts` say so of one number and one declaration,
  `GrownFacts` of a module, by `Induct` over its declarations (`Iterated` shows
  that the recursive functions exist).
* `KidsInv`: a retrieval of children is ascending, and of the children that
  were there when it began those not yet returned lie behind the last one.
  `FirstChild` and `NextPtr` are the first of a set in the order of OIDs
  (`FirstFacts`); this needs that the order, which compares common prefixes and
  the first difference, is strict and total (`BeforeIsLex`,
  `BeforeTransitive`, `BeforeTotal`), and that a finite set has a first element
  (`FirstExists`, which counts the elements before each).
* `OrderInv` and `TourInv`: the list of modules holds each loaded module once,
  behind the dummy, and a tour is the beginning of it.
* `AnswerInv`: what `smiGetNode()` has returned for a simple name is found in
  the first module of the list that has the name.  Modules are appended, so
  that this module stays the first one (`FoundKept`).

`NamesRight`, `NumbersRight`, `ParentsRight` and `TypesRight` follow from
`NodesInv` and `OrderInv` (`NamesAreRight`, `NumbersAreRight`, ...): a number
leads to the deepest node on its way because the tree is closed upwards
(`Closed`, `DeepestNode`), and of the objects of a node one of the newest
language is found (`Newest`).

Three things were not true as they had been stated, although no run
told.  `TypeOK` of `NodeWalk` left out the object `iso`, whose name is no name
of a declaration.  `ParentsRight` had no place for a module that imports one
name from two others, and `TypesRight` none for a module that declares two
types of one name.  What they say now is said of the instance too.

### RenderingProofs

`TextFollowsHint` (`[]HintFollowed`) and `LoopGetsAhead` (`GetsAhead`) of
`RenderSpec`, from `WordAssumption`, `NameAssumption`, `CharAssumption` and
`CallAssumption`: for octet strings and hints of any length, and octets and words
of any size.

`LoopInv` says where the loop is when it has told some groups (`Position`): all
octets up to the end of the last group are told; the next specification is the
one that the number of groups leads to, or there is none left, and then all
octets are told or the hint is empty.  `TellKeeps` is the one lemma for what
an iteration appends, `EndedInLoop` and `EndedAtOnce` for the ends.

`GetsAhead` needs that invariant as well: what decreases is the octets and the
specifications together, of which an iteration leaves the same number only if
the last specification takes no octet.

### PduSizesProofs

`SizesEnclose` (`[]SizesBracket`), from `OctetAssumption`, `LongAssumption`,
`WideAssumption`, `NodeAssumption` and `IdAssumption`: for octets of any width, longs
of four octets or eight, any length from which on lengths have the long form, any
nodes with any number of variables and index columns, and a limit
to the length of OIDs that is a number of one.  Like the property it speaks of
messages of which nothing was `regular` no more: a negative number, or a 64-bit
type without ranges, has limits of which the code takes the wrong ones.

`Counts(a, p, b)` says of a part `p` of a real message that it has `a` octets at least,
and `b` at most without those that are not counted.  Tags and lengths around a part
keep this, and so do parts that are put side by side (`EnclosedCounts`,
`BesideCounts`): the message is built of nothing else.

Three layers carry what is left.  *Lengths grow*: more to count never takes fewer octets
(`PowersReached`, `LengthGrows`, `WrappedGrows`, `SubidGrows`, `OctetsGrow`).  *Values lie
between*: what `getAbsMin...()` and `getAbsMax...()` find is at most and at least
each number of the type, and so is its length (`NumbersBetween`,
`NumberLength`, `ValueBetween`); the mean lies between if the machine's sum is the
sum (`MeanBetween`).  *Instances*: `IndexAppended` says that a further index
column keeps the counted OIDs around the real one.

`SizesInv` adds to the property what is needed of an unfinished OID.  That the
longest one counted has at least the octets of any real one is not inductive: a
column that no longer fits is cut off at `MaxOid`, and a longer OID then gains
less than a shorter one.  `Near` therefore says that it has, for each number
that it has more, the octets of a largest character more.  What is cut off is
then paid for by the numbers that fill the OID up.

### Only model-checked

* Liveness: `LoadReturns`.  The prover does not reach liveness under fairness.
* `OidTree` uses a RECURSIVE operator for the merge, and what it computes for
  every tree would need induction over data, which is out of reach of the
  prover: all its properties stay with TLC.
* `MeantAsWritten` and `RestrictionsReported` (the middle part of `NamesJudged`)
  compare the table with `Meaning`, a recursive reading of the text.
* `WalkVisitsAll`: the search of `smiGetNextNode()` goes from node to node until
  it finds one, and `NodeWalk` says so with a recursive function over the tree;
  what it computes needs an induction over the tree in pre-order.
* `ValuesTold` is about the number of digits, which `Digits` chooses: that there
  is such a number would need an induction over powers.
* All of `ModuleChecks`, `Declarations`, `Classes`,
  `YangReferences`, `YangSchema` and of the tools but for `NumbersDiff` and
  `PduSizes`.
## 5. What is left out

* **ModuleLoader**: SMIng and YANG files (their parsers share the scheme), the
  cache file.  Descriptors of one class have one class everywhere.
* **OidTree**: `iso` is the only well-known node; an imported label is the
  name of an object of an earlier module.  Names that are declared twice, or
  that are plain aliases of other names, are modelled but exempt from
  `OidsRight` (`Clear`).  A plain alias of a later name takes the pending
  tree of that name off the list without merging it.
* **TypeRanges**: hexadecimal and binary limits, limits beyond 64 bits, and the
  modules in which errors are suppressed (SNMPv2-SMI, COPS-PR-SPPI).
* **TypeTable**: display hints, CHOICE, references of the form
  `Module.Type`, the check of columns against their SEQUENCE; four builtin
  types stand for all; modules without declarations.
* **Session**: a handler does not load or close; a module is registered when
  its file is opened; views, the cache command and the flags NODESCR, STATS
  and VIEWALL.
* **NodeWalk, Lookup**: objects whose label is never resolved (`OidTree` has them),
  two objects of one name in one module, and the flags of `smiRenderOID()` and
  `smiRenderNode()` but for the qualified form.
* **Rendering**: values that are OIDs, octets that are 0 within a text (which
  ends there for C), the number of decimals with a sign, lengths beyond 32
  bits, and the length of the buffer of `smiValueAsString()`.
* **NamedNumbers**: numbers that are no integers, and references to named
  numbers in DEFVALs (`TypeRanges`).
* **Clauses, Declarations**: texts (units, display hints, organization), the OIDs
  of declarations (`OidTree`), ranges (`TypeRanges`), SMIv1 names of types that
  are predefined (their imports are assumed), the names of capabilities
  (only their errors are kept), a second parent of a notification.
* **Classes**: texts, status, restrictions of types, revisions, imports (their
  recursion is that of `ModuleLoader`), the statements of the SNMP mapping.
* **ModuleChecks**: the refinements of compliance statements, the size of an
  index, the reverse mapping of notifications.
* **YangReferences, YangSchema**: the parser, imports and submodules,
  deviations, complex types, refined values other than config, the checks of
  `default`, `unique` and of empty keys, rpcs; groupings and typedefs that are
  nested in statements.
* **DumpSmi**: the wording and layout of clauses.
* **DumpSppi**: values, UNIQUENESS, INSTALL-ERRORS, PIB-REFERENCES; that added
  names are cut behind 46, 51 or 54 characters of the name they are made of.
* **DumpSming**: texts, ranges, values, identities, revisions, extensions.
* **PduSizes**: OIDs of variable length beyond the length they are counted with;
  requests and exceptions, which carry no values: messages are those with values,
  responses, `set` requests and notifications.
* **Smidump**: numbers with a sign as values; options of drivers.
* **SmiYang**: statements that hold texts and numbers, the restrictions of
  types, and the choice between `string` and `binary`.
* **SmiDiff**: wording; preloaded modules; texts are equal or not, as
  `diffStrings()` decides it up to white space.
* Not modelled at all, with reasons in `PROJECT.json`: the other tools and
  formats.

## 6. Plan

Done: the loader, since everything else runs inside of it; the tree and the
types, where forward references make order matter; the ranges and named
numbers, which can be proved about; the data sets around them; the retrieval
on top; the clauses of declarations and the checks at the end of a module; the schema of YANG modules; three
tools.

Left, in this order:

1. *Models.*  Loading under two parsers (SMIng) in `ModuleLoader`.  Abstract
   specifications: the tree as a set of OIDs for `OidTree` and `NodeWalk` (a
   walk is an enumeration of a growing set), a map from names to types for
   `TypeTable`.
2. *Proofs.*  `WalkVisitsAll` of `NodeWalk`, on top of the invariant of
   `LookupProofs`; the refinement of the map above by `TypeTable`, for which
   `TableAlwaysSound` and `NamesStay` are the ground.

`ModuleLoader` and `Session` meet at `smiLoadModule()` (Session reduces a
parser to the errors and imports in its file), `OidTree` and `NodeWalk` at the
tree, `TypeRanges`, `NamedNumbers` and `TypeTable` at the list of a type,
`NumbersDiff` and `SmiDiff` at `checkNamedNumbers()`.

## 7. How to run

    tlc -workers 2 -config MCModuleLoader.cfg MCModuleLoader
    tlapm ModuleLoaderProofs.tla

Each configuration belongs to the module that `PROJECT.json` names.  A run takes
between half a minute and two and a half minutes; the proofs a few minutes.
