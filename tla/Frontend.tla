------------------------------ MODULE Frontend ------------------------------
(***************************************************************************)
(* The front end of the compiler, MLIRGen.cpp: the source files are loaded *)
(* (loadSourceBuf), their diagnostics reported, and their statements       *)
(* generated twice, in a discovery run whose output is thrown away         *)
(* (mlirDiscoverAllDependencies) and in the run that keeps it              *)
(* (mlirCodeGenModule).  Statements may be written in any order: a pass    *)
(* over a list of statements tries each that is not processed yet, and     *)
(* passes are repeated until none is left or a pass has left as many       *)
(* unresolved as the one before it.                                        *)
(*                                                                         *)
(* The generation of a statement is abstracted to its steps: a step needs  *)
(* names and gives names; others it wants, which it can do without in the  *)
(* discovery run (allowPartialResolve).  A name stands for whatever        *)
(* another statement may ask for: a declaration, or a stage of one, as the *)
(* storage type of a class.  The symbol tables (known) outlive a failed    *)
(* attempt, and all but one the discovery run: fullNameGlobalsMap, which   *)
(* holds the static fields of classes, is scoped to it.                    *)
(***************************************************************************)
EXTENDS Integers, Sequences, FiniteSets

CONSTANTS Files,      \* source files that may be named
          Names,      \* what statements need and give
          Main,       \* the file to compile
          Lib,        \* jslib/lib.d.ts
          UseLib,     \* not noDefaultLib, on the command line or in Main
          Refs,       \* the files each file references
          Missing,    \* those that cannot be opened
          Scoped,     \* the names kept in fullNameGlobalsMap
          Programs    \* the statements the files may hold

Step == [needs : SUBSET Names, wants : SUBSET Names, gives : SUBSET Names]

ASSUME FilesAssumption ==
    /\ Main \in Files /\ Lib \in Files /\ UseLib \in BOOLEAN
    /\ Refs \in [Files -> Seq(Files)]
    /\ Missing \subseteq Files /\ Scoped \subseteq Names

ASSUME ProgramsAssumption == Programs \subseteq [Files -> Seq(Seq(Step))]

VARIABLES program,     \* the statements of each file, as steps
          phase,       \* what the compiler is doing
          toLoad,      \* filesToProcess, a stack
          includes,    \* includeFiles
          at,          \* the file generated: an index of includes, or Main after it
          next,        \* the next statement of the pass
          processed,   \* the statements of the file that have been generated
          notResolved, \* how many the pass has failed to
          lastTime,    \* lastTimeNotResolved
          known,       \* the names in the symbol tables
          output       \* the statements generated to keep, in order

vars == <<program, phase, toLoad, includes, at, next, processed, notResolved,
          lastTime, known, output>>
passVars == <<next, processed, notResolved, lastTime>>

-----------------------------------------------------------------------------
(***************************************************************************)
(* Statements.                                                             *)
(***************************************************************************)
FileAt(p)     == IF p <= Len(includes) THEN includes[p] ELSE Main
StatementsAt(p) == program[FileAt(p)]
Count(p)      == Len(StatementsAt(p))

Asks(step) == step.needs \cup (IF phase = "generate" THEN step.wants ELSE {})

\* What the steps of statement s before the j-th give.
GivenBefore(s, j) == UNION {s[i].gives : i \in 1..(j - 1)}

\* With the names ns known, the generation of s gets past its j-th step.
Passes(s, j, ns) == \A i \in 1..j : Asks(s[i]) \subseteq ns \cup GivenBefore(s, i)

Completes(s, ns) == Passes(s, Len(s), ns)

\* The names an attempt at s registers, failed or not.
Registers(s, ns) == UNION {s[j].gives : j \in {j \in DOMAIN s : Passes(s, j, ns)}}

-----------------------------------------------------------------------------
(***************************************************************************)
(* Loading: loadMainSourceFile and loadSourceBuf.                          *)
(***************************************************************************)
Init == /\ program \in Programs
        /\ phase = "load"
        /\ toLoad = (IF UseLib THEN <<Lib>> ELSE <<>>) \o Refs[Main]
        /\ includes = <<>>
        /\ at = 1 /\ next = 1
        /\ processed = {} /\ notResolved = 0 /\ lastTime = 0
        /\ known = {} /\ output = <<>>

Top  == toLoad[Len(toLoad)]
Rest == SubSeq(toLoad, 1, Len(toLoad) - 1)

\* Mutant: files are kept in the order they are loaded.
LoadFileUnreversed ==
    /\ phase = "load" /\ toLoad # <<>> /\ Top \notin Missing
    /\ toLoad' = Rest \o Refs[Top]
    /\ includes' = Append(includes, Top)
    /\ UNCHANGED <<program, phase, at, known, output, passVars>>

\* The file on top is parsed and its references pushed.  includes is kept
\* reversed from the start: std::reverse follows the loop.
LoadFile ==
    /\ phase = "load" /\ toLoad # <<>> /\ Top \notin Missing
    /\ toLoad' = Rest \o Refs[Top]
    /\ includes' = <<Top>> \o includes
    /\ UNCHANGED <<program, phase, at, known, output, passVars>>

\* "can't open file": an error is emitted, and the loop goes on.
SkipMissing ==
    /\ phase = "load" /\ toLoad # <<>> /\ Top \in Missing
    /\ toLoad' = Rest
    /\ UNCHANGED <<program, phase, includes, at, known, output, passVars>>

EndLoad ==
    /\ phase = "load" /\ toLoad = <<>>
    /\ phase' = "report"
    /\ UNCHANGED <<program, toLoad, includes, at, known, output, passVars>>

\* showMessages and report: a syntax error in any of the files ends the
\* compilation.
Report ==
    /\ phase = "report"
    /\ phase' \in {"discover", "failed"}
    /\ UNCHANGED <<program, toLoad, includes, at, known, output, passVars>>

-----------------------------------------------------------------------------
(***************************************************************************)
(* A pass over the statements of a file: processStatements for Main,       *)
(* mlirGen(NodeArray<Statement>) for an included file.                     *)
(***************************************************************************)
Generating == phase \in {"discover", "generate"}
Trying     == Generating /\ next <= Count(at)
Statement  == StatementsAt(at)[next]

\* if (statement->processed) continue;
SkipProcessed ==
    /\ Trying /\ next \in processed
    /\ next' = next + 1
    /\ UNCHANGED <<program, phase, toLoad, includes, at, processed,
                   notResolved, lastTime, known, output>>

\* Mutant: the statement is not marked.
ResolveUnmarked ==
    /\ Trying /\ next \notin processed
    /\ Completes(Statement, known)
    /\ next' = next + 1
    /\ known' = known \cup Registers(Statement, known)
    /\ output' = IF phase = "generate" THEN Append(output, <<at, next>>) ELSE output
    /\ UNCHANGED <<program, phase, toLoad, includes, at, processed, notResolved, lastTime>>

\* The statement is generated and marked: statement->processed = true;
Resolve ==
    /\ Trying /\ next \notin processed
    /\ Completes(Statement, known)
    /\ next' = next + 1
    /\ processed' = processed \cup {next}
    /\ known' = known \cup Registers(Statement, known)
    /\ output' = IF phase = "generate" THEN Append(output, <<at, next>>) ELSE output
    /\ UNCHANGED <<program, phase, toLoad, includes, at, notResolved, lastTime>>

\* Mutant: what a failed attempt has registered is taken back.
FailToResolveUndone ==
    /\ Trying /\ next \notin processed
    /\ ~Completes(Statement, known)
    /\ next' = next + 1
    /\ notResolved' = notResolved + 1
    /\ UNCHANGED <<program, phase, toLoad, includes, at, processed, lastTime, known, output>>

\* Mutant: the failure is not counted.
FailToResolveUncounted ==
    /\ Trying /\ next \notin processed
    /\ ~Completes(Statement, known)
    /\ next' = next + 1
    /\ known' = known \cup Registers(Statement, known)
    /\ UNCHANGED <<program, phase, toLoad, includes, at, processed, notResolved, lastTime, output>>

\* emitError(loc(statement), "failed statement"); notResolved++;
FailToResolve ==
    /\ Trying /\ next \notin processed
    /\ ~Completes(Statement, known)
    /\ next' = next + 1
    /\ notResolved' = notResolved + 1
    /\ known' = known \cup Registers(Statement, known)
    /\ UNCHANGED <<program, phase, toLoad, includes, at, processed, lastTime, output>>

PassEnded == Generating /\ next > Count(at)
NewPass(n) == next' = 1 /\ notResolved' = 0 /\ lastTime' = n

\* Mutant: passes are repeated as long as anything is unresolved.
StuckNever == FALSE

\* if (lastTimeNotResolved > 0 && lastTimeNotResolved == notResolved)
Stuck == lastTime > 0 /\ lastTime = notResolved

\* Another pass: while (notResolved > 0).
RepeatPass ==
    /\ PassEnded /\ notResolved > 0 /\ ~Stuck
    /\ NewPass(notResolved)
    /\ UNCHANGED <<program, phase, toLoad, includes, at, processed, known, output>>

\* The pass got no further than the last: the compilation fails.
GiveUp ==
    /\ PassEnded /\ Stuck
    /\ phase' = "failed"
    /\ UNCHANGED <<program, toLoad, includes, at, known, output, passVars>>

\* Mutant: there is one file more.
NextFileOffByOne ==
    /\ PassEnded /\ notResolved = 0 /\ at <= Len(includes) + 1
    /\ at' = at + 1
    /\ processed' = {}
    /\ NewPass(0)
    /\ UNCHANGED <<program, phase, toLoad, includes, known, output>>

\* All statements of an included file are generated: the next file, the
\* processed flags cleared.
NextFile ==
    /\ PassEnded /\ notResolved = 0 /\ at <= Len(includes)
    /\ at' = at + 1
    /\ processed' = {}
    /\ NewPass(0)
    /\ UNCHANGED <<program, phase, toLoad, includes, known, output>>

\* Mutant: the flags of the discovery run are left set.
EndDiscoveryKeepsFlags ==
    /\ PassEnded /\ notResolved = 0 /\ at > Len(includes) /\ phase = "discover"
    /\ phase' = "generate"
    /\ at' = 1
    /\ NewPass(0)
    /\ known' = known \ Scoped
    /\ UNCHANGED <<program, toLoad, includes, processed, output>>

\* The end of the discovery run: the module is emptied and the flags are
\* cleared, and the scope of fullNameGlobalsMap ends.
EndDiscovery ==
    /\ PassEnded /\ notResolved = 0 /\ at > Len(includes) /\ phase = "discover"
    /\ phase' = "generate"
    /\ at' = 1
    /\ processed' = {}
    /\ NewPass(0)
    /\ known' = known \ Scoped
    /\ UNCHANGED <<program, toLoad, includes, output>>

EndGeneration ==
    /\ PassEnded /\ notResolved = 0 /\ at > Len(includes) /\ phase = "generate"
    /\ phase' = "verify"
    /\ UNCHANGED <<program, toLoad, includes, at, known, output, passVars>>

\* mlir::verify(theModule).
Verify ==
    /\ phase = "verify"
    /\ phase' \in {"done", "failed"}
    /\ UNCHANGED <<program, toLoad, includes, at, known, output, passVars>>

Ended == phase \in {"done", "failed"}
Terminated == Ended /\ UNCHANGED vars

Next == \/ LoadFile \/ SkipMissing \/ EndLoad \/ Report
        \/ SkipProcessed \/ Resolve \/ FailToResolve
        \/ RepeatPass \/ GiveUp \/ NextFile \/ EndDiscovery \/ EndGeneration
        \/ Verify \/ Terminated

\* One sequential process: it goes on as long as it can.
Spec == Init /\ [][Next]_vars /\ WF_vars(Next)

-----------------------------------------------------------------------------
(***************************************************************************)
(* Properties.                                                             *)
(***************************************************************************)
Phases == {"load", "report", "discover", "generate", "verify", "done", "failed"}

\* The types of the variables, with next and at inside what they index.
TypeOK ==
    /\ program \in Programs
    /\ phase \in Phases
    /\ toLoad \in Seq(Files) /\ includes \in Seq(Files)
    /\ at \in 1..(Len(includes) + 1)
    /\ next \in 1..(Count(at) + 1)
    /\ processed \subseteq 1..Count(at)
    /\ notResolved \in Nat /\ lastTime \in Nat
    /\ known \subseteq Names
    /\ output \in Seq(Nat \X Nat)

\* No statement needs a name kept in fullNameGlobalsMap, or can do without a
\* name in the discovery run only.
Plain == \A f \in Files : \A i \in DOMAIN program[f] : \A j \in DOMAIN program[f][i] :
            LET step == program[f][i][j] IN step.needs \cap Scoped = {} /\ step.wants = {}

\* Once discovery has succeeded nothing fails to resolve: the run that keeps
\* its output generates the statements of a plain program in order, each
\* once, no matter in how many passes and in which order discovery resolved
\* them (mlirCodeGenModule).
GeneratesInOrder ==
    phase = "generate" /\ Plain =>
        /\ notResolved = 0
        /\ processed = 1..(next - 1)
        /\ next > 1 => output # <<>> /\ output[Len(output)] = <<at, next - 1>>

\* The output never repeats a statement and never goes back to a file, even
\* when the statements of a file are generated out of order.
OutputOrdered ==
    \A i, j \in DOMAIN output :
        i < j => output[i][1] <= output[j][1] /\ output[i] # output[j]

\* Nothing of the source is lost: a compilation that ends well has generated
\* every statement of every file it loaded.
NothingLost ==
    phase \in {"verify", "done"} =>
        \A p \in 1..(Len(includes) + 1) : \A i \in 1..Count(p) :
            \E k \in DOMAIN output : output[k] = <<p, i>>

\* Compilation gives up over a file only when no statement left of it can be
\* resolved with what is known and what attempts at the others register, if
\* only the last step of a statement asks for names.  processStatements compares two counts for it.
LastAsks == \A f \in Files : \A i \in DOMAIN program[f] :
                \A j \in 1..(Len(program[f][i]) - 1) : Asks(program[f][i][j]) = {}
GivesUpOnlyWhenStuck ==
    LET left  == {StatementsAt(at)[i] : i \in (1..Count(at)) \ processed}
        names == known \cup UNION {Registers(s, known) : s \in left}
    IN  PassEnded /\ Stuck /\ LastAsks => \A s \in left : ~Completes(s, names)

\* Whenever generation begins, a file that was found comes after all the
\* files it references that were found (loadSourceBuf: a stack, then reversed).
ReferencesFirst ==
    phase # "load" =>
        \A p \in DOMAIN includes : \A f \in {Refs[includes[p]][k] : k \in DOMAIN Refs[includes[p]]} :
            f \in Missing \/ \E q \in 1..(p - 1) : includes[q] = f

\* A compilation of files that do not reference each other in a circle ends:
\* passes are not repeated for ever.
Terminates == <>Ended
=============================================================================
