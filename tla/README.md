# TLA+ model of the TypeScript native compiler

The repository compiles TypeScript to native code: a parser builds a syntax
tree, `MLIRGen.cpp` turns the tree into operations of an MLIR dialect, lowering
passes turn those into LLVM, and the program is linked with, or run beside, a
small runtime.  These modules specify the parts of it whose correctness depends
on *order* and on what is remembered from one step to a later one: the order in
which threads run, in which declarations are resolved, in which effects happen
when control leaves a block, and in which tables are laid out and read; what a
parser that gave up an attempt leaves behind; which tag comes with a word; which
variable a closure refers to; which token begins at a place.  Each
part has a model that TLC checks on small instances; three of them also have
theorems that the TLA+ proof system checks for every value of their constants.

Contents: [the system](#1-the-system), [hard behaviours](#2-what-is-hard),
[modules](#3-the-modules), [runs](#4-runs-what-tlc-checks),
[disagreements found](#5-where-the-code-and-its-documents-disagree),
[proofs](#6-what-is-proved), [limits](#7-what-is-not-modelled),
[plan](#8-plan).

To check a run: `tlc -config AsyncLoop.cfg MCAsyncRuntime`; a proof:
`tlapm AsyncShutdownProofs.tla`, and so for each module named in section 6 (a module's
proofs use the theorems of the modules it extends, which are checked with those).  Paths below are
relative to `tsc/` in the repository.

## 1. The system

| Component | Source | State it keeps | Operations | Correct when |
|---|---|---|---|---|
| Async runtime | `lib/TypeScriptAsyncRuntime/AsyncRuntime.cpp` | tokens, values, groups, each with a reference count, a mutex, a condition variable and a list of awaiters; the pool's queue | create, add to a group, emplace, await (block or resume), drop a reference, shut down | an await passes when and only when what it waits for is ready, nothing is used after it is freed or kept for ever, and everyone is woken |
| Control flow | statement functions of `lib/TypeScript/MLIRGen.cpp`, `lib/TypeScript/LowerToAffineLoops.cpp` | scope chain with `using` variables, the pending label, jump targets, unwind target, return target | generate and lower loops, labels, jumps, switch, try, blocks | the graph of basic blocks has the effects of the source, in its order; finally blocks and disposals run on every way out |
| Front end passes | `lib/TypeScript/MLIRGen.cpp`, 84–540 | file list, `processed` flags, symbol tables, module under construction | load files, discovery run, code generation run, repeated passes | every statement of every file is generated once, in order; passes end; only unresolvable programs are given up |
| Classes, interfaces, virtual tables | class and interface parts of `MLIRGen.cpp`, `include/TypeScript/MLIRLogic/MLIRGenStore.h` | `ClassInfo`, `InterfaceInfo`, emitted tables, slots compiled into calls | declare, lay out, look up, cast | the slot a call was compiled with holds the intended member in the table of every class the object may have |
| Scanner, parser, incremental parser | `tsc-new-parser/` | position, token, context flags, the lists being parsed, diagnostics, the places known not to begin an arrow function | scan, parse, look ahead, try, skip a token | every text is read to its end into one tree, which is the grammar's if there is no error; a failed speculation leaves no trace |
| Syntax tree, node factory, visitor, printer | `tsc-new-parser/` (`parser_types.h`, `node_factory.cpp`, `parenthesizer_rules.cpp`, `utilities.h`, `dump.h`) | nodes with their fields; indentation and declaration mode while printing | create a node (with parentheses where its text needs them), visit what is below it, print it | the text of a tree is read as that tree; a visit sees every node in the order of the text |
| Captures and function discovery | `MLIRGen.cpp`, `LowerToLLVM.cpp` | symbol table, `captureVarsMap`, `PassResult`, the `captured` mark of variables; at run time frames, heap and capture records | discover, refer to a function, generate it, allocate, call | a trial run finds what a function captures, and leaves nothing behind that changes the real one; every function reaches the variables it names, as long as it lives |
| Namespaces, imports, generics | `MLIRGen.cpp` | namespace tree, instantiations | register, instantiate | a name is instantiated once and found where it is used |
| Generators, for-in, for-of | `MLIRGen.cpp`, `LowerToAffineLoops.cpp` | step field and state labels | rewrite into an object with `next`, into a for; suspend, resume | resumption continues after the yield that suspended |
| Expressions, types, casts | `MLIRGen.cpp`, `MLIRTypeHelper.h`, `CastLogicHelper.h`, `LowerToLLVM.cpp` | the static type, word, flag and tag of a value | cast, narrow, operate, compare, merge types | a value means what the language says after any sequence of them; tags tell how words are read |
| Driver, passes, other runtimes | `tsc/`, `lib/TypeScript*Pass`, `lib/TypeScriptRuntime` | options | run passes, link, JIT, allocate | straight-line calls of libraries |
| Tests | `test/tester` | – | compile and run | used here as the statement of what programs promise |

How they interact.  The driver calls the front end; the front end calls the
parser for every file, and itself once per statement and pass; each statement
function reads and writes the symbol stores and emits operations; the lowering
passes rewrite the operations one function at a time.  No two of these run at
once: the hard part is what an earlier attempt left behind.  The compiled program
calls the async runtime, and there threads do run at once: the runtime calls
back into coroutines of the program while it holds its own locks.

## 2. What is hard

* **Threads** (runtime): a thread sleeps on an object while another makes it
  ready; a coroutine suspends while its continuation is already being run;
  reference counts are dropped by several threads; awaiters run inside the
  emplacement, under the mutexes of the token and of the group; blocking awaits
  take pool threads from the tasks they wait for.
* **Leaving blocks** (control flow): a jump, return or exception crosses
  loops, labels, tries and scopes with `using` variables.  Inner operations
  overwrite what outer ones recorded for an operation.
* **Repeated attempts** (front end, classes): a statement is generated several
  times, in two runs; failed attempts leave names, members and tables behind.
* **Captures**: the names a function captures are found in one place, kept, and
  looked up again in others; a variable outlives its block only if a later
  reference has marked it.
* **Slots** (virtual tables): a slot number is read at one moment, the table
  laid out at another.
* **Tokens** (scanner): the text is read without knowing what the parser expects, so
  some tokens are read again as another kind; line breaks are found in one way by
  the scanner and in another for the line map; values of escapes and numbers are
  computed in integers.
* **Speculation and recovery** (parser): `<`, `(`, `async`, `type`, a line break
  and a dozen other lexemes mean something only with what follows, so the parser
  tries and takes back, attempts within attempts; after an error the lists that
  are being parsed must agree which of them goes on, or the parser does not
  progress; flags that allow `in`, `yield` or `await` must be what they were.
* **Representations** (values): the same value is a word, a word with a flag, a
  word with a tag or a pointer to a box, and undefined is something else in each;
  a value is stored in a union as another of its members; a type is chosen for two
  operands and both are brought to it.

The list of hazards, each at its line, with the properties that watch it or the
reason none does, is in `PROJECT.json`.

## 3. The modules

```
AsyncLowering      StatementSemantics                Frontend       VirtualTables
     |                    |                             |                |
AsyncRuntime       ControlFlowLowering             MCFrontend     MCVirtualTables
     |                    |                        FrontendProofs VirtualTablesProofs
AsyncRuntimeProps  MCControlFlow
  |  |         \
  |  |   AsyncRuntimeProofs -- AsyncGroupProofs -- AsyncMemoryProofs -- AsyncShutdownProofs
  |  |
  | INSTANCE Futures  (abstract)
MCAsyncRuntime

ParserState -- ParserLookahead -- ParserTypes -- ParserExpressions
   -- ParserStatements -- ParserDeclarations -- Parser -- ParserProps -- MCParser

ValueSemantics -- Values -- MCValues
                     \-- ValuesProofs -- MeaningProofs

ScopeSemantics -- Captures -- MCCaptures

LexicalGrammar -- Scanner -- ScannerProps -- MCFrontend

SyntaxTree -- Parenthesizer -- NodeFactory -- MCSyntaxTree --\
   |  \- NodeVisitor --\                                      MCParser
   \---- Printer ------- PrinterProps ----------------------/
                             | (and ParserProps)
```

(A module extends the one to the left of it, or above it.)

### AsyncRuntime, AsyncRuntimeProps, AsyncLowering, Futures

A *routine* is the compiled main function or the coroutine of one
`async.execute` region.  `Code[r]` is the sequence of runtime calls the routine
makes; `AsyncLowering` gives the calls that `MLIRGen` emits for `await` and
`for await` (drops of references are inserted by MLIR's reference counting pass,
which is outside the repository and modelled from its effect).  One action
stands for each stretch of code between two points where another thread can
interfere: taking a mutex, `cv.wait`, an atomic counter, running a callback.

| Actions | Code |
|---|---|
| `Execute`, `TakeTask` | `mlirAsyncRuntimeCreateToken/Value`, `mlirAsyncRuntimeExecute`, the pool thread |
| `CreateGroup`, `AddLockToken`, `AddLockGroup`, `RunGroupAwaiter`, `AddUnlock` | `CreateGroup`, `AddTokenToGroup` with the callback left in the token |
| `EndTask`, `EmplaceLock`, `RunResumeAwaiter`, `RunGroupCallback`, `CallbackUnlock`, `CallbackDrop`, `EmplaceUnlock`, `EmplaceDrop` | `EmplaceToken`/`EmplaceValue`, `setState`, the awaiters it runs, `onTokenReady` |
| `AwaitPass`, `AwaitBlock`, `SpuriousWakeup`, `AwaitSuspend` | `AwaitToken`, `AwaitValue`, `AwaitAllInGroup` and their `AndExecute` forms |
| `Drop`, `Shutdown` | `DropRef`, `~AsyncRuntime` |
| `Load`, `Store` | `count++` on a captured variable |

A token and a value are the same code, so both are *cells*.  A resumed
coroutine runs on top of the resuming thread's stack (`caller`) and inside its
locks (`mu`), as in the code.  Compiled programs never put a token into the
error state today; the API does, and `Fails` exercises it.

`Futures` is the abstract promise: a routine starts, settles once, and passes
an await only when what it awaits has settled; every routine that can go on
does.  `AsyncRuntimeProps!ImplementsFutures` is the refinement, with the mapping of
`pc`, started and settled cells; `FollowsFutures` is its safety part, without the
fairness.

`ProgramAssumption` says what the theorems take for granted of `Code`: an object is a
result of one async operation, all the calls about it are made by the routine that
made it, tokens join a group before its await, an object is awaited at most once and
dropped after that, and a token joins at most one group.  That is what the code emits:
`mlirGen(AwaitExpression)` (`MLIRGen.cpp`, 5572–5619) and the `for await` of
`mlirGen(ForStatement)` (6233–6367) make the token, value or group and everything that
uses it in one region, one await each, and MLIR's reference counting drops a reference
after the last use.  `IterationAssumption` adds that a token which joins a group is
awaited through the group only: `mlirGen(ForStatement)` (6317–6329) makes the token of an
iteration, adds it and has no other use of it.  Without it the runtime can lock itself
up: a task that emplaces such a token holds its mutex, takes the group's in `onTokenReady`, and
with it held resumes a coroutine which awaits the token, whose mutex its own thread holds.
TLC evaluates both assumptions on the programs of the async runs.

`NoCircularWait` and `NoStandstill` are about the threads.  `Blocked`: the thread is at
a mutex that is taken (`Wants` names the mutexes the next step takes); `Asleep`: it is
in `cv.wait`; `Idle`: it has no routine and finds no task.  A spurious wakeup apart, a
thread that is none of the three can go on.

### StatementSemantics, ControlFlowLowering

`StatementSemantics` is the reference: it replays a trace of effects (calls,
tests, disposals, catch entries...) against a statement and says whether the
language allows it and how the statement completes.  It is not code of the
repository.  `ControlFlowLowering!Lower` translates the generation and the
lowering together: a function from nodes to instructions, one node per basic
block edge that matters, with the records the code keeps – jump targets, unwind
target, return target, landing block of the enclosing try, chain of scopes, and
the single `label` member.  `TestFrom`, `CaseStart`, `CaseEnd` say what
`pendingConditions`, `pendingBranches` and `defaultBlock` of `mlirGenSwitchCase`
hold when a switch has been generated.  A for-in, or a for-of over an iterator, is the for
that `mlirGen(ForInStatement)` and `mlirGenES2015` build: `RewrittenBody` and
`Increment`.  A machine then runs the graph with open results for
tests and calls.  A program with yields is the `next` method of a generator:
`Yield` stores the number of its state in `step` and returns, `Resume` is the next
call of the method, which the state switch sends to the label with that number.
Because that switch has split the blocks at the labels before a try is lowered, and the
walk of `TryOpLowering` stops after the first block of a body, what stands after a yield
in a try's own body has not its landing block but what it had before: the node's
environment keeps that as `past`, and `Later` takes it; a construct inside the body is
walked whole (`Inside`).
Model: the Linux (Itanium) path, catch clauses that catch
everything.

### Frontend

`LoadFile`, `SkipMissing`, `EndLoad` are `loadSourceBuf`; `Report` the
diagnostics; `SkipProcessed`, `Resolve`, `FailToResolve`, `RepeatPass`,
`GiveUp`, `NextFile` the loop of `processStatements` and the files;
`EndDiscovery` is `mlirDiscoverAllDependencies` with `clearState` and the scope
of `fullNameGlobalsMap`; `EndGeneration`, `Verify` are `mlirCodeGenModule`.  The
generation of a statement is abstracted to steps that need and give names, so a
failed attempt registers what its first steps give, as in the code.  `wants` are
names a statement can do without in the discovery run (`allowPartialResolve`).

### VirtualTables

The symbol store with its `ClassInfo` and `InterfaceInfo` (`store`) and the same
passes over declarations.  `InterfaceGenerated` and `ClassGenerated` are the
whole handlers, stage by stage; `Layout` and `Indexed` are
`ClassInfo::getVirtualTable` and its side effect on the indices; `Slots`,
`RecalcOffsets` and `MemberSlot` the interface's; `MethodCall`,
`InterfaceCall`, `CastToInterface` leave the slot a compiled call will read.  A
stage that fails returns the store it had changed.  `mlirGenClassMembers` repeats
until two iterations fail alike; two iterations are modelled, because no attempt
at a member lets another succeed.

### ParserState to Parser, ParserProps

The recursive descent parser of `parser.cpp` as a machine with a stack: a rule is
a program of instructions, one step executes one, and `parseX` inside a rule is a
call.  `ParserState` has the instructions and the state that the code keeps: the
scanner's token, the diagnostics with the rule of one per position, the flag that
puts an error on the next node, the context flags, `parsingContext`, and
`notParenthesizedArrow`; `ParserLookahead` the questions the parser asks of the
tokens ahead (`isStartOf...`, `isListElement`, `isListTerminator`, the arrow
function tri-state); the four rule modules the functions of the parser, in its
order; `Parser` the machine, with `speculationHelper` as instructions that save
and restore what the code saves and restores (`notParenthesizedArrow` is not).

A text is a sequence of lexemes: `"x"` stands for every identifier, `"1"` for
every number, `"'s'"` for every string, `"\n"` is the line break before the next
token, and `head`, `middle`, `text` and `}` make templates.  A node is its kind, its
error flag, its first lexeme and its children.  `ParserProps` states the grammar
without its rules, as what may stand where in a tree: how strongly each
expression binds and what each operand needs.

### SyntaxTree, Parenthesizer, NodeFactory, NodeVisitor, Printer, PrinterProps

What happens to a tree besides being parsed.  `SyntaxTree` says what a node of each
kind holds (`parser_types.h`); `NodeFactory` which rule for parentheses each `create`
function calls on which of its arguments, and `Parenthesizer` the rules; `NodeVisitor`
which fields `forEachChild` shows, and the walk over a whole tree; `Printer` what
`dump.h` writes for each kind, once as a program and once as the declaration that
`addDeclarationToExport` of `MLIRGen.cpp` puts into a library (no bodies, `declare`,
a decorator).  Trees and texts use the lexemes of the parser's model, so a printed text
is a text the parser can read: `PrinterProps` starts the parser's machine on it (`meant`
keeps what the tree was) and compares.  That is what
`test/print-tester/printer-tester.cpp` does with a handful of files, and what every
import of a library depends on.

### LexicalGrammar, Scanner, ScannerProps

`Scanner` is `scanner.cpp` with its names: `scan` reads one token from a sequence of
characters, the `reScan...` functions read it again as the parser asks, and the state
is the record of the scanner's fields and the tokens the parser has got (`read`).
Every function that a number, a name, an escape, a template or a comment passes
through is an operator from the fields to the fields, with the errors it reports; an
exception of `std::stoi` is `crashed`.  `LexicalGrammar` is written from the
language, not from the scanner: which sequences of characters are tokens, and their
values.  `ScannerProps` compares the two, the longest token of the language against
the token read, and computes lines as `computeLineStarts` and the binary search of
`core.h` do.  The places where the scanner is not what the language says have names
there: `DropsNull` (`S("\0")` is an empty text, so `\0` vanishes from a string),
`DropsParts` (plain characters between an escape and a later `\u{...}` of a name are
lost), `Rounds` (`1e-7` becomes 0, because `std::to_wstring` writes six digits),
`RunsOn` (`0b12` is two tokens without an error, `1.n` a bigint), `AfterSeparator`, and
`CalledEquals` (the `*` of `*=`, read again, is a token of one character that
`reScanAsteriskEqualsToken` calls `=`).

### ValueSemantics, Values

`ValueSemantics` says what the language makes of primitive values (it is no code
of the repository): conversion, addition, comparison, truth.  In `Values` a
compiled value is a static type, a word with its machine representation, an
optional's flag, and a union's or box's tag.  An expression grows by one
operation: a cast (`CastTo`), `!`, unary
plus, a typeof guard and the narrowing it allows, arithmetic, `===`, `&&` and
`||`, `??`, `?:`.  `Cast` is `MLIRGenImpl::cast` with the value it takes out of
`any`; `AsMember` is the conversion to a member of a union before the value is stored in
it; `CastOp` with `Verifies` is the operation of the dialect, which may be
rejected; `Lower` is the lowering to LLVM, with the union instances that `NormalizeCast`
makes of casts (its rule for a cast of a cast is in a comment: there is none in the model).
`Members` are the unions that need a tag (`isUnionTypeNeedsTag`).
Beside the value stands what the language gives the expression (`js`), which is
`Unknown` from the first step on for which a named exception says that the code
does not keep to it.

### ScopeSemantics, Captures

`ScopeSemantics` is the reference (no code of the repository): variables, nested
functions and closures with environments and a store, and what a program prints.
In `Captures`, `Gen` and the operators it uses generate a statement:
`Register` is `registerVariable`, `Use` is `resolveIdentifierAsVariable` with the
note it takes of a variable of another function, `Discover` the trial generation
of a body, `WithCaptures` the fields that the captured names stand for in the body,
and `ResolveCapturedVars` with `Capture` and `FunctionValue` what a reference to the
function makes of the names.  `GenFrom` and `DeclarationPass` are the passes inside a
block, where a statement that fails is tried again after the function declarations;
`DiscoverPass` and `GeneratePass` are the passes over the file, a step each.  Then the
code is run, an operation a step: `VariableOp` allocates on the heap or in the frame,
`CaptureOp` makes the record, `CallOp`, `Return` and the others are the lowered
operations.  A store that is not of a supported program may leave a cell
without a value; `Garbage` stands for what is read from it.

## 4. Runs: what TLC checks

| Run | Instance | Shows |
|---|---|---|
| `async_loop` | `for await` over three values, one failing, two pool threads | references exact, no use after free, counters of groups exact, no wakeup lost, refinement of `Futures` |
| `async_nested` | an awaited task with a `for await` whose body awaits a value, two pool threads | suspended coroutines: a continuation is resumed only when suspended; no circle of threads that wait for each other's mutexes; no standstill before the end; all objects gone at shutdown; termination |
| `control_flow` | 18,233 functions and generators: all combinations of two nested constructs and handlers, a yield between any two statements of them, and functions of the tests; 469,702 states | the graph follows the source, disposes once, ends; a generator goes on where it stopped |
| `frontend` | 5,426 one-file programs of three statements, and 512 of a library, a diamond of references and a missing file; beside them 14,243 texts: all up to three or four characters, or pieces, of each kind of token, alone or in quotes; 224,008 states | nothing lost or repeated, in order, references first, giving up only when stuck, termination; tokens are the longest of the language, with its values, and errors where it has none; line breaks are those of the line map |
| `virtual_tables` | 304 programs: a class hierarchy in all orders, interfaces and casts in every order that declares before use | every compiled slot holds the intended member; exactly the complete programs compile |
| `parser` | about 7,000 texts: 136 sentences, one or more for each rule, each of them with every lexeme left out or doubled and cut after every lexeme; all chains of three operators of nine levels; all texts of up to four lexemes of arrow functions; and 3,647 texts printed from 2,987 trees: every kind of node with all and with the least it holds, every expression, type and statement in every place it may stand, every pair of operators of nine levels; 1,703,751 states | every text but the one named below is read to its end, and leaves nothing behind; errors are marked; nothing is lost; the tree is the grammar's; sentences have no errors; a printed text is read as the tree it was printed from, and the visitor sees that tree in the order of the text |
| `values` | expressions of any length over 21 variables of every kind of type; 1,006 states | they mean what the language says, but for the exceptions listed below; tags tell their words; merged types take both operands |
| `captures` | 9,590 files with a function of five statements: every kind of variable, two nested functions or closures that use, shadow or capture them, blocks and loops around their calls, a global before or after; 153,282 states | programs print what they are written to print; only the expected ones are rejected; discovery finds exactly what is captured; no closure outlives its variables |

The remaining four runs end in a violation; see section 5.

**Bounds, and why they are enough.**  *Async*: three tasks are the fewest with
which one task can complete before, one while and one after the group is being
filled; two workers plus main give every pairwise race on an object; `async_loop` blocks
on a group, the nested program blocks on a token and suspends on a group and on a
value.
*Control flow*: the state that the lowering carries is per enclosing construct
and each construct replaces at most what the one around it recorded, so two
nested constructs with a handler each reach every replacement; `MaxTests = 2`
true tests let a loop body run twice, enough to see a disposal that is repeated.
*Front end*: three statements allow cycles, chains in the wrong order and a
statement that fails while two others progress; two-step statements give what a
class gives before it fails.  *Virtual tables*: three classes (base, heir,
sibling or heir of the heir), two interfaces one of which extends the other.
*Parser*: what an attempt may leave behind
is a flag, a list, an error or a remembered place, and each rule that tries is in
some sentence; recovery from an error depends on the lists around it and on the
token, and leaving out, doubling and cutting put every token of a sentence at
every wrong place next to it; four lexemes are enough for a parenthesized list
with a type and no arrow; three operators are enough for a pair of each level in either order with a
third that takes the result.  *Values*: representations are compared, not numbers:
halves from -4 to 3.5 and an i32 of three bits give a fraction to lose, a
sum that does not fit and a number out of the range of i32; texts are the empty one,
one that is no numeral, one that is, and one that begins with one.  The length of
an expression is not bounded; the second operand of an operator is always a variable.
*Captures*: two functions nested in one
are the fewest of which one captures through the other; two calls of a closure, or
two turns of a loop (`Turns`), show whether they share a variable; programs that make
more than six calls (`MaxCalls`) are not considered, so that recursion ends.
*Scanner*: no rule looks further than three characters ahead or keeps more than the
last one, except for the digits of an escape, which are pieces of their own; so texts
of three or four characters or pieces reach every branch.  `IntBits` is what an int
holds.
The caps are `MaxTests`, `MaxWord`, `MaxInt`, `Numbers`, `Texts`, `Turns` and `MaxCalls`.

**Fairness.**  `FairSpec` of the runtime has weak fairness per thread: the
operating system eventually runs a thread that can go on; nothing is assumed
about which of its steps it takes, about who gets a mutex first, or about
spurious wakeups (which may always happen and are never required).  The compiler
is one sequential process, and so is its parser: weak fairness of the next step.
The same of a compiled function; the program goes on asking a generator for values
until there are no more.

**What the passing runs leave out on purpose.**  `control_flow` checks the
programs of class `Supported`, which `MCControlFlow` defines.  Outside of it the
lowering does not follow the source: a break or continue out of a try with a
finally; a return in nested tries with finally, or with `using` variables in
outer scopes; a try with finally inside a catch or finally; an exception in a
finally inside another try; a jump that leaves more than one scope with `using`
variables (two with a label); an exception through a plain block with `using`
variables; two `using` variables in one block, disposed in the order they were
declared; a break without label inside a labelled block; a labelled block that
contains a loop; a break nested in a statement of a case; a default clause that
is neither last nor left by a jump; a yield in a catch or finally block (the
clones of finally have no labels of their own, so a resumption goes on in the original);
in a try of a generator, something that may throw after a yield of the try's own body
(it passes the catch and the finally; after a yield inside a construct of the body it does
not, and those programs are in the run).  Most of these are hazards, and one of them is checked as a run.
`GeneratesInOrder` is about programs without static fields and without uses
that discovery lets pass (`Plain`), because the second run may need several
passes for the others; `OutputOrdered` and `NothingLost` hold for all.
`GivesUpOnlyWhenStuck` is about statements that only ask for names in their last
step: one with three or more stages can be given up although it progresses,
because two passes fail the same number of times.  The interface programs of
`virtual_tables` declare before use, put methods before fields and let at most
one class derive from an implementing one; the hazards name what goes wrong
otherwise.
`frontend` reads a text or compiles files: the two share the run, not their state.
`TokensOfTheLanguage` excepts the texts that `ScannerProps` names (`DropsNull`, `DropsParts`,
`Rounds`, `RunsOn`, `AfterSeparator`, `CalledEquals`, `Tagged`).
`Terminates` of the parser excepts one state, `InModuleName`: `parseJSDocType` reads the name
after `module` in a loop whose `break` leaves only the `switch`, so a parser that gets
there reads the end of the text for ever.  The run has such a text,
`type x = function(module x): x`, and no other hangs.
`NothingLost` of the parser excepts texts with a regular expression or, outside of the
sentences, a template: either takes more of the text than was meant.

`ReadsBack` and `VisitsInOrder` are about the trees without a node that is `Misread`
(`PrinterProps`); each of these exceptions is necessary.  Rules for parentheses that
the factory does not have: a unary expression or an assertion on the left of `**`, and a
yield on its right; an arrow function on the left of an operator, as a condition or
before `as`; anything that binds less than `as` before it; a statement that begins with a
class or calls a function expression; `in` in the initializer of a `for`;
`(infer X)[..]` and `(keyof X)[..]`; a function type before `extends`.  One it has on
purpose: `a * (b * c)` loses its parentheses.  What the printer does: an object literal
after `return`, `throw` or `yield` begins on a new line; type arguments of an `import()`
type without a name, and the words of a type predicate without a type, are
lost; `do` is glued to a statement that is no block; a function or a class inside an
exported declaration is printed as a declaration.  The corpus leaves out what the
printer writes as `[MISSING` (`satisfies`, static blocks, `override`, `accessor`,
import attributes, JSX) or does not write at all (type arguments of `typeof`,
type-only imports, the name of `export * as`, modifiers of type parameters, members and
signs of mapped types, the last hole of an array, `implements`), and what it writes as
something else (`export default` as `export =`, `using` as `var`).

`values` follows an expression up to the first step that is one of these:
undefined as a number or boolean (it has no bits of its own; any value may
come out); the empty string as a boolean (the pointer is not null; a known gap,
`28boolcasts.ts` has it as a TODO); a string that is no numeral as a number (its
first digits, not NaN); a fraction or a number out of range as an i32; NaN as text
(`nan`); a missing optional put into a box (which has no flag) or taken as a plain
value (the default of its type); a union read as a type that is not its tag's;
a value taken out of
a box whose tag is none of the three that are looked for; `typeof` of an i32, which
tells its own name; a sum of booleans (one bit) and a sum that does not fit an
i32; `+` with a string that the types do not know of; `===` of values of
different kinds (they are brought to one first; `01any.ts` asserts it) and of
a missing optional and a plain value (the words are compared); and `??`, where zero
is taken for null.  Each of them is necessary: without it the run fails.
Comparisons with `any` and unions that no cast precedes are left out.

`captures` states `RunsAsWritten` of programs (`Supported`) and `Compiles` of programs
(`Resolvable`) without the following, each of which is necessary: a function that uses a
variable, or a function that captures, which is declared after it, or that calls
itself and captures (it is rejected: its names are found once, when the other has none yet);
a call in a scope where a captured name means something else (the other variable is
taken); a `var` in the scope of another variable of its name, or declared twice (it is a
global of the module); a constant that is the copy of a variable, captured after the
variable has changed; and a closure that is kept and has a loop's variable or a nested
function's `var` (there is one of each, not one per turn or call).

## 5. Where the code and its documents disagree

| Run | Property | Disagreement |
|---|---|---|
| `async_count` | `CountsEveryIteration` | bodies of `for await` run in parallel, `count++` loses increments; `00for_await.ts` asserts the count |
| `async_starved` | `Terminates` | an await in a plain function blocks its pool thread; with one pool thread `00for_await_yield.ts` hangs |
| `nested_return` | `FinallyRuns` | a return inside two tries with finally skips the outer finally |
| `vtable_instanceof` | `InstanceOfFirst` | a class that implements an interface has that interface's table, not `.instanceOf`, in slot 0 |

## 6. What is proved

The theorems hold for every value of the constants that satisfies the named
assumptions: any program, any finite number of tasks, any pool size and set of groups
(`CodeAssumption`: the code is made of instructions, and main only blocks;
`ProgramAssumption` and `IterationAssumption`, section 3); any files, references and statements
(`FilesAssumption`, `ProgramsAssumption`); any declarations of classes
(`ProgramsAssumption` of `VirtualTables`: they have the fields the model reads); any variables, types to cast to, numbers,
texts and width of an i32.  Of these the proofs assume that a variable has been
given a value that its type can hold (`TypesAssumption`, `VariablesAssumption`: nothing is
said of a variable that is read before it is written), that a double holds every i32
(`NumbersSuffice`), that a string is the sequence of its characters
(`TextsAssumption`: true of every string, and stated because no prover knows it of
string values), and that numbers are integers of halves with NaN not one of them
(`NumbersAssumption`, `MaxIntAssumption`).  Nothing else is assumed.  TLC evaluates
all the assumptions on the constants of the runs.

All safety properties that the runs check of `AsyncRuntime`, of `Frontend` and of
`Values` are theorems, but for `CountsEveryIteration`, which is false.  The invariants
of the runtime are built in layers, each module proving its own with the ones below.

`AsyncRuntimeProofs`: `TypeCorrect`, `ControlCorrect`, and the half of `NoLostWakeup`
that is about cells.
The inductive invariant `IInv` is `TypeOK /\ ControlOK /\ NoSleeperOnSettledCell`.
`ControlOK` is needed because the objects an action works on are read from the program
at `pc` and from the awaiters at `next`: without it the types are not inductive.  The
wakeup half is inductive with it, because a thread joins the wait set in the same
critical section in which it tested the state, and `setState` empties the wait set in
the section in which it settles the cell.  `ControlFrame` states once why a step of one
routine leaves the control of the others alone.

`AsyncGroupProofs`: `MutexesExclude`, `CountersCorrect` (`GroupAccounting`),
`NoDoubleResume` (`ResumesSuspendedOnly`), `NoWakeupLost` (`NoLostWakeup`).  None of these is
inductive alone; `GInv` ties them.  The counter of a group is the number of its tokens
not yet accounted for (`GroupAccounting`), which a step that adds or completes a token
keeps only if no other routine is inside the group (`MutualExclusion`), and if the
callback it runs was left by exactly one add (`AwaitersOK`) of a token that settles
once (`SettlesOK`, `StartsOK`).  A coroutine that is resumed is suspended because it
is in one list of awaiters, at one place, and the part of the list that is still to be
run is known (`CellResumesOK`, `GroupResumesOK`, `ToRun`).

`AsyncMemoryProofs`: `RefsCounted` (`RefsAccounted`), `NoCallOnDeleted`
(`NoUseAfterFree`).  `MInv` says of every object whether it has been created
(`Created`, a condition on `pc`), that it lives from there until its count is zero, and
that the count is the number of holders: the program up to its drop, the task up to its
emplacement, and for a group the callbacks that are still in tokens
(`Callbacks`, a set whose cardinality changes by one where the code changes the count).
That a call works on a live object then follows from the place of the call in the
program, which is between the creation and the drop.

`AsyncGroupProofs` also has `RuntimeFollowsFutures`, that is `Spec => FollowsFutures`.  One
lemma for every action shows which action of `Futures` it is, or that it stutters.
`EndOK` adds that a task that emplaces has made all its calls.

`AsyncShutdownProofs`: `NobodyLeft` and `AllDestroyed` (`AllDestroyedAtShutdown`).
What could go wrong is a coroutine that waits for something that no one will do any
more.  `DInv` excludes it: a suspended coroutine is in the awaiters of what it waits
for, at a place still to be run (`SuspendedOK`), and a task leaves a cell only when
it has run its awaiters to the end (`DrainedOK`), so what is waited for is not settled
and some task is not done.  When the queue is empty and no thread runs anything, that
task is itself suspended, on a cell or group whose tokens are those of tasks it has
started.  Tasks start each other in no circle (`LeafOK`: in every set of started tasks,
one starts none of the others, which is kept because a task starts only
tasks that were new), so in the set of suspended tasks one waits for a task that is
not suspended, which is a contradiction.  That no routine is running when all threads
are idle needs the shape of the stacks: a routine is at most once on them (`StackOK`),
each ends on top of a thread (`TopsOK`), and main is at the bottom of its own
(`MainOK`).  `TopsOK` and `LeafOK` are quantified over sets of routines, the form
in which the absence of circles is inductive without a measure.  With nobody left,
every reference has been dropped, and by `MInv` every object is gone.

The same module has the theorems about mutexes: `MutexInv`, `NoMutexDeadlock`
(`NoCircularWait`) and `NeverStuck` (`NoStandstill`).  `LInv` adds to the invariants above
that a mutex belongs to the thread on whose stack is the routine that holds it
(`OwnersOK`, with a function from routines to threads in place of the stacks), that a
group which has been awaited has no pending tokens and gets none (`AwaitedOK`), and that
a routine which has resumed another is running the awaiters of what the other has passed its
await of (`ResumedOK`).  The last two are needed because a coroutine is resumed with
the mutexes of the resuming task held: they show that what it calls next is about other objects, or
about objects of its own.  A thread that waits for a mutex while its routine holds one
waits for a group's (`WantedCall`), and a routine that holds a group's wants
no other (`HeldObject`), so among threads that wait for each other the third finds
nothing to wait for.  Then, if no thread can go on, none is at a mutex; the pool is idle and
main sleeps or has returned; no coroutine is left, by the argument of `NobodyLeft`, and so
what main sleeps on is ready, against `NoLostWakeup`.  `NoStandstill` excepts what really
happens: a pool without threads, and a thread of the pool asleep in an await of a plain
function, which is the finding of `async_starved`.

`FrontendProofs`: `TypeCorrect`, `InOrder` (`GeneratesInOrder`), `AllGenerated`
(`NothingLost`), `OutputInOrder` (`OutputOrdered`), `ReferencesBefore`
(`ReferencesFirst`), `GivesUpWhenStuck` (`GivesUpOnlyWhenStuck`).
* The inductive invariant of the first three adds to the types: nothing has been
  generated before the runs (`Fresh`); a pass without failures has processed all it
  went past (`PassCounts`); what discovery has processed finds its names in the tables
  (`Discovered`), hence every statement of a plain program does in the second run
  (`AllSatisfied`); what the second run went past is in the output (`AllKept`).
* `OutputOK`: what is in the output is of files already passed, or processed.
* `LoadOrder`: what a loaded file references is before it, or still on the stack, and
  so will be put before it.
* `PassTight`: `notResolved` is the number of statements that the pass has tried and
  left, `lastTime` at least the number of those that are left.  Equal counts mean that
  nothing was resolved in the second of two passes; and everything that fails in it had
  failed in the first, where it registered all it gives before it asks.  So no
  name was added in the second pass, and all attempts in it failed with the same names.

`ValuesProofs`: `Typed`, `TagsTellTheWord` (`TagsTell`), `MergedTypeIsAccepted`
(`MergedTypeTakesBoth`).  The inductive invariant is `Expression`: type, word and tag
go together (`WellFormed`).  `LowerWellFormed` shows that every lowering of a cast keeps words and
tags together, `AsMemberExpression` that what is stored in a union still is of the union's
type, `UnionTypeTakes` that the verifier accepts what is merged: a union or
optional made of two types has a member or value that each of them widens to, and a union
that is made needs a tag.

`MeaningProofs`: `MeaningIsKept` (`KeepsMeaning`).  That the value means what is
known of the language's is not inductive: `Sound` adds that types and words go together,
that words are those of values (`Proper`: an i32 is in
range, a bit is 0 or 1), and that what is known of was written (`Initialised`).
`CastWordMeans` compares every conversion of words with the language's conversion where
`KeepsPlain` names no exception (a numeral is read back as the number it is the
text of: `LeadingNumbers`); `LowerMeans`, `CastOpSound` and `CastSound` raise that to the
casts of the dialect and of the generator, `AsSound` to values from a box.  Then there is
one lemma for each operator.  `OperateMeans` needs that an i32 result which is whole
and in range wraps to itself; `SameValuesMeans` that the case in which the words of a
missing optional are compared is left out; `CoalescesTells` that null is tested exactly
where the value is undefined, for the types for which `Coalesce` says it is known.

`VirtualTablesProofs`: `DispatchTheorem`, that is `Spec => [](Orderly /\ lastTime = 0 =>
MethodCallsDispatch)`.  It is about programs of any size that declare a class once, after
its base and before its methods are called from outside (`DeclaresFirst`), with no method
named like a field or an interface (`NamesApart`), and about runs in which nothing had to
be tried again once discovery had ended; in discovery everything may fail any number of
times, half way and in any order.  Both conditions are needed: TLC finds the wrong slot
where a field has the name of an inherited method, and where a call precedes a class with
static fields, since every attempt at the class registers them again and moves the slots of its heirs
(`hazards`, MLIRGen.cpp:8936).  That is also why retries are left out.  Of the 304 programs of
the run 122 are orderly, end without retries and call a method on a class whose objects may be of several.
* Three lemmas about tables: what is added to a table moves no entry (`ExtendedGrows`),
  a method's entry has the class of its provider (`SlotOfMethod`), and an heir keeps
  the slots of its base (`HeirsKeepSlots`).  They go by induction over the hierarchy, in which a
  class has a higher rank than its base (`Hierarchy`).
* The inductive invariant `VInv`: what the store knows of a class is declared (`ClassesOK`),
  and all of it is known once discovery has ended the class (`Whole`); so in the second
  run layouts no longer depend on when they are computed.  What the second run went
  past has the slots of its layout (`AllIndicesOK`), the table of its layout, and what it has not
  reached has none (`TablesOK`); every compiled call has the slot of its class (`CallsOK`).
* `Good` is what each stage of a class keeps, also the stages that fail: one lemma for
  every stage, by induction over the calls, members and interfaces it goes through.
  The slots of the class itself are those of its virtual part (`VirtualPart`), which its
  static fields do not move; they move those of its heirs only, which are not yet reached.
* At the end the chains of the store are those of the declarations (`DeclaredChainIs`), so
  the provider is the most derived class that declares the method (`MostDerivedIs`).

Only model-checked, with the reason:
* All liveness (`Terminates`, the fairness of `ImplementsFutures`): out of the prover's
  reach.
* Control flow and captures: `Lower`, the reference semantics and the generators are
  RECURSIVE operators, for which the prover has no backend.  The same of the scanner,
  and of `ParserProps` and `PrinterProps`, which walk trees.
* Of `VirtualTables`: `InterfacesReached` and `Compiles`.  Both are broken outside the
  programs of the run in the ways that the hazards say, and a theorem about the others
  needs the order in which heirs take the interfaces of their base.  Also the dispatch
  where the run that is kept tries a declaration again: no program that ends does in
  the run.

## 7. What is not modelled

* Scanner: JSX and JSDoc tokens, comment directives, and characters beyond the basic
  plane (on Linux `charSize` counts two positions for such a letter where the text
  has one, scanner.cpp:3624, so the next character is skipped).
* Trees: JSX and JSDoc tags in the printer, transform flags (the factory collects them
  from copies of its lists, so those of lists are lost; nothing reads them), `update` functions.
* Parser: JSX, JSDoc comments (the JSDoc types that may stand in a program are modelled;
  whether one is reported is not), private names, unicode escapes, the second parse of a file
  with top-level await, the reuse of nodes of an earlier tree, and positions other
  than a node's first lexeme.
* Values: literals and the folding of constants, null, bigint, arrays, tuples,
  objects, functions and classes as values, the other operators, two expressions
  both longer than a variable; unions that need no tag, or hold i32 beside number.
* Data: payloads of async values, types of expressions, field values, names
  beyond identity, texts of diagnostics.
* Async: reads of error states after an await (no compiled program reaches
  them); the Windows and JIT variants of the runtime's symbols.
* Control flow: `using` inside a case, typed catch clauses, the Windows exception
  path; for-of over an array, the `return` method of an iterator (the code never
  calls it); returns and `using` variables in generators, calls of `next` after the
  end, where generators and coroutines keep their variables.
* Captures: parameters and returned values, the capture of `this`, generic, async and
  generator functions, methods, functions in object literals.
* Front end: files that reference each other in a circle (they are loaded for
  ever: a hazard), import statements, namespace bodies.
* Virtual tables: generic and static classes, accessors, constructors in
  interfaces, optional members, dynamic imports, casts of object literals.
* Whole components, with the reason each, are listed in `PROJECT.json` with
  status `not_modelled`: mostly pure translation, generated code, calls of
  libraries, or parts that the plan adds.

## 8. Plan

In this order:

1. `ControlFlowLowering`: what generators still lack (section 7), and `next` called
   again after the end.
2. `Captures`: parameters, `this` and methods, generators.  `Frontend`: composition with
   the passes inside namespaces, imports.
3. `TypeRelations`: assignability of structured types and `extends` with `infer` as
   operators, checked against reference definitions on bounded types; `Values`
   with tuples and objects.
4. Proofs: what `NothingLeftBehind` and `NothingLost` of the parser rest on, rule by
   rule, stated without the trees of `ParserProps`; `InterfacesReached` for programs in
   which at most one heir of a class takes its interfaces.
