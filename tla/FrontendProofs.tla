--------------------------- MODULE FrontendProofs ---------------------------
(***************************************************************************)
(* Proofs about Frontend, for all files, programs and references: types,   *)
(* nothing of the source is lost, and a plain program is generated in      *)
(* order.                                                                  *)
(***************************************************************************)
EXTENDS Frontend, FiniteSetTheorems, SequenceTheorems, TLAPS

(***************************************************************************)
(* The inductive invariant.                                                *)
(***************************************************************************)
\* Before the runs nothing has been generated.
Fresh ==
    phase \in {"load", "report"} =>
        /\ at = 1 /\ next = 1 /\ processed = {}
        /\ notResolved = 0 /\ lastTime = 0 /\ known = {}

\* A pass without a failure has processed all the statements it went past.
PassCounts == Generating /\ notResolved = 0 => 1..(next - 1) \subseteq processed

\* The statement's steps find their names, whichever run it is.
Satisfied(s, ns) ==
    \A j \in 1..Len(s) : s[j].needs \subseteq ns \cup GivenBefore(s, j)

\* Discovery leaves the names behind that its statements need.
Discovered ==
    phase = "discover" =>
        /\ \A p \in 1..(at - 1) : \A i \in 1..Count(p) : Satisfied(StatementsAt(p)[i], known)
        /\ \A i \in processed : Satisfied(StatementsAt(at)[i], known)

\* In the second run, every statement of a plain program finds its names.
AllSatisfied ==
    phase = "generate" /\ Plain =>
        \A p \in 1..(Len(includes) + 1) : \A i \in 1..Count(p) :
            Satisfied(StatementsAt(p)[i], known)

\* The statements the second run has got through are in the output.
Kept(p, i) == \E k \in DOMAIN output : output[k] = <<p, i>>
AllKept ==
    /\ phase \in {"generate", "verify", "done"} =>
          \A p \in 1..(at - 1) : \A i \in 1..Count(p) : Kept(p, i)
    /\ phase = "generate" => \A i \in processed : Kept(at, i)
    /\ phase \in {"verify", "done"} => NothingLost

IInv == TypeOK /\ Fresh /\ PassCounts /\ Discovered /\ AllSatisfied
        /\ GeneratesInOrder /\ AllKept

-----------------------------------------------------------------------------
(***************************************************************************)
(* Statements.                                                             *)
(***************************************************************************)
\* A file of a program holds statements, each a sequence of steps.
LEMMA FileTyping ==
    ASSUME NEW q \in Programs, NEW f \in Files
    PROVE  /\ q[f] \in Seq(Seq(Step))
           /\ Len(q[f]) \in Nat
           /\ \A i \in 1..Len(q[f]) : q[f][i] \in Seq(Step)
BY ProgramsAssumption

\* The same of the file a position stands for.
LEMMA StatementTyping ==
    ASSUME TypeOK, NEW p \in 1..(Len(includes) + 1)
    PROVE  /\ FileAt(p) \in Files
           /\ StatementsAt(p) \in Seq(Seq(Step))
           /\ Count(p) \in Nat
           /\ \A i \in 1..Count(p) : StatementsAt(p)[i] \in Seq(Step)
  <1>1. program \in Programs /\ includes \in Seq(Files)
    BY DEF TypeOK
  <1>2. FileAt(p) \in Files
    BY <1>1, FilesAssumption DEF FileAt
  <1> QED
    BY <1>1, <1>2, FileTyping DEF StatementsAt, Count

\* A statement registers names.
LEMMA RegistersNames ==
    ASSUME NEW s \in Seq(Step), NEW ns
    PROVE  Registers(s, ns) \subseteq Names
  <1>1. \A j \in DOMAIN s : s[j] \in Step
    OBVIOUS
  <1>2. \A j \in DOMAIN s : s[j].gives \subseteq Names
    BY <1>1 DEF Step
  <1> QED
    BY <1>2 DEF Registers

\* What is satisfied stays so as names are added.
LEMMA SatisfiedMonotone ==
    ASSUME NEW s, NEW ns, NEW more, Satisfied(s, ns), ns \subseteq more
    PROVE  Satisfied(s, more)
BY DEF Satisfied

\* A statement that is generated found the names it needs.
LEMMA CompletesSatisfied ==
    ASSUME NEW s, NEW ns, Completes(s, ns)
    PROVE  Satisfied(s, ns)
BY DEF Completes, Passes, Satisfied, Asks

\* The steps of a plain program want nothing more, and need no static field.
LEMMA PlainSteps ==
    ASSUME TypeOK, Plain, NEW p \in 1..(Len(includes) + 1), NEW i \in 1..Count(p),
           NEW j \in 1..Len(StatementsAt(p)[i])
    PROVE  /\ StatementsAt(p)[i][j].needs \cap Scoped = {}
           /\ StatementsAt(p)[i][j].wants = {}
  <1>1. /\ FileAt(p) \in Files
        /\ StatementsAt(p) \in Seq(Seq(Step))
        /\ StatementsAt(p)[i] \in Seq(Step)
    BY StatementTyping
  <1>2. i \in DOMAIN program[FileAt(p)] /\ j \in DOMAIN program[FileAt(p)][i]
    BY <1>1 DEF StatementsAt, Count
  <1> QED
    BY <1>1, <1>2 DEF Plain, StatementsAt

\* Satisfied, a statement of a plain program is generated.
LEMMA SatisfiedCompletes ==
    ASSUME TypeOK, Plain, NEW p \in 1..(Len(includes) + 1), NEW i \in 1..Count(p),
           NEW ns, Satisfied(StatementsAt(p)[i], ns)
    PROVE  Completes(StatementsAt(p)[i], ns)
  <1>1. \A j \in 1..Len(StatementsAt(p)[i]) : StatementsAt(p)[i][j].wants = {}
    BY PlainSteps
  <1> QED
    BY <1>1 DEF Completes, Passes, Satisfied, Asks

\* It needs nothing the end of discovery drops.
LEMMA SatisfiedUnscoped ==
    ASSUME TypeOK, Plain, NEW p \in 1..(Len(includes) + 1), NEW i \in 1..Count(p),
           NEW ns, Satisfied(StatementsAt(p)[i], ns)
    PROVE  Satisfied(StatementsAt(p)[i], ns \ Scoped)
  <1>1. \A j \in 1..Len(StatementsAt(p)[i]) : StatementsAt(p)[i][j].needs \cap Scoped = {}
    BY PlainSteps
  <1> QED
    BY <1>1 DEF Satisfied

-----------------------------------------------------------------------------
(***************************************************************************)
(* Types.                                                                  *)
(***************************************************************************)
\* The actions after loading leave the files and the program alone.
LEMMA SameFiles ==
    ASSUME program' = program, includes' = includes
    PROVE  \A p : /\ FileAt(p)' = FileAt(p)
                  /\ StatementsAt(p)' = StatementsAt(p)
                  /\ Count(p)' = Count(p)
BY DEF FileAt, StatementsAt, Count

\* The initial states are typed.
LEMMA InitTypeOK == Init => TypeOK
  <1> SUFFICES ASSUME Init PROVE TypeOK
    OBVIOUS
  <1>1. /\ program \in Programs /\ phase = "load" /\ includes = <<>>
        /\ at = 1 /\ next = 1 /\ processed = {} /\ notResolved = 0 /\ lastTime = 0
        /\ known = {} /\ output = <<>>
        /\ toLoad = (IF UseLib THEN <<Lib>> ELSE <<>>) \o Refs[Main]
    BY DEF Init
  <1>2. toLoad \in Seq(Files)
    BY <1>1, FilesAssumption
  <1>3. FileAt(1) \in Files
    BY <1>1, FilesAssumption DEF FileAt
  <1>4. Count(1) \in Nat
    BY <1>1, <1>3, FileTyping DEF Count, StatementsAt
  <1> QED
    BY <1>1, <1>2, <1>4 DEF TypeOK, Phases

\* Loading keeps the types: nothing is generated yet.
LEMMA LoadTypeOK ==
    ASSUME TypeOK, Fresh, LoadFile
    PROVE  TypeOK'
  <1>1. /\ phase = "load" /\ toLoad # <<>>
        /\ toLoad' = Rest \o Refs[Top] /\ includes' = <<Top>> \o includes
        /\ program' = program /\ phase' = phase /\ at' = at /\ next' = next
        /\ processed' = processed /\ notResolved' = notResolved /\ lastTime' = lastTime
        /\ known' = known /\ output' = output
    BY DEF LoadFile, passVars
  <1>2. at = 1 /\ next = 1 /\ processed = {} /\ notResolved = 0 /\ lastTime = 0
    BY <1>1 DEF Fresh
  <1>3. /\ program \in Programs /\ toLoad \in Seq(Files) /\ includes \in Seq(Files)
        /\ phase \in Phases /\ known \subseteq Names /\ output \in Seq(Nat \X Nat)
    BY DEF TypeOK
  <1>4. Top \in Files /\ Rest \in Seq(Files)
    BY <1>1, <1>3 DEF Top, Rest
  <1>5. Refs[Top] \in Seq(Files)
    BY <1>4, FilesAssumption
  <1>6. toLoad' \in Seq(Files) /\ includes' \in Seq(Files) /\ Len(includes') \in Nat
    BY <1>1, <1>3, <1>4, <1>5
  <1>7. FileAt(1)' \in Files
    BY <1>6, FilesAssumption DEF FileAt
  <1>8. Count(1)' \in Nat
    BY <1>1, <1>3, <1>7, FileTyping DEF Count, StatementsAt
  <1>9. at' = 1 /\ Count(at)' = Count(1)'
    BY <1>1, <1>2 DEF Count, StatementsAt, FileAt
  <1>10. next' \in 1..(Count(at)' + 1) /\ at' \in 1..(Len(includes') + 1)
    BY <1>1, <1>2, <1>6, <1>8, <1>9
  <1> QED
    BY <1>1, <1>2, <1>3, <1>6, <1>10 DEF TypeOK

\* So does every other step.
LEMMA StepTypeOK ==
    ASSUME TypeOK, Fresh, [Next]_vars
    PROVE  TypeOK'
  <1> DEFINE Same == program' = program /\ includes' = includes
             Untouched == Same /\ at' = at /\ next' = next /\ processed' = processed
                          /\ notResolved' = notResolved /\ lastTime' = lastTime
                          /\ known' = known /\ output' = output
  <1>0. /\ program \in Programs /\ toLoad \in Seq(Files) /\ includes \in Seq(Files)
        /\ phase \in Phases /\ known \subseteq Names /\ output \in Seq(Nat \X Nat)
        /\ at \in 1..(Len(includes) + 1) /\ next \in 1..(Count(at) + 1)
        /\ processed \subseteq 1..Count(at) /\ notResolved \in Nat /\ lastTime \in Nat
        /\ Len(includes) \in Nat
    BY DEF TypeOK
  <1>1. ASSUME Same
        PROVE  \A p \in 1..(Len(includes) + 1) : Count(p)' = Count(p) /\ Count(p) \in Nat
    BY <1>1, StatementTyping, SameFiles
  <1>2. ASSUME Untouched, phase' \in Phases, toLoad' \in Seq(Files)
        PROVE  TypeOK'
    <2>1. Count(at)' = Count(at)
      BY <1>2 DEF Count, StatementsAt, FileAt
    <2> QED
      BY <1>2, <1>0, <2>1 DEF TypeOK
  <1>3. CASE LoadFile
    BY <1>3, LoadTypeOK
  <1>4. CASE SkipMissing
    <2>1. Untouched /\ phase' = phase /\ toLoad # <<>> /\ toLoad' = Rest
      BY <1>4 DEF SkipMissing, passVars
    <2>2. toLoad' \in Seq(Files)
      BY <1>0, <2>1 DEF Rest
    <2> QED
      BY <1>0, <1>2, <2>1, <2>2
  <1>5. CASE EndLoad \/ Report \/ GiveUp \/ EndGeneration \/ Verify
    <2>1. Untouched /\ toLoad' = toLoad
      BY <1>5 DEF EndLoad, Report, GiveUp, EndGeneration, Verify, passVars
    <2>2. phase' \in Phases
      BY <1>5 DEF EndLoad, Report, GiveUp, EndGeneration, Verify, Phases
    <2> QED
      BY <1>0, <1>2, <2>1, <2>2
  <1>6. CASE SkipProcessed \/ Resolve \/ FailToResolve
    <2>1. /\ Same /\ at' = at /\ toLoad' = toLoad /\ phase' = phase
          /\ lastTime' = lastTime /\ next' = next + 1 /\ next <= Count(at)
      BY <1>6 DEF SkipProcessed, Resolve, FailToResolve, Trying
    <2>2. /\ processed' \subseteq processed \cup {next}
          /\ notResolved' = notResolved \/ notResolved' = notResolved + 1
          /\ known' = known \/ known' = known \cup Registers(Statement, known)
          /\ output' = output \/ output' = Append(output, <<at, next>>)
      BY <1>6 DEF SkipProcessed, Resolve, FailToResolve
    <2>3. Count(at)' = Count(at) /\ Count(at) \in Nat
      BY <2>1, <1>0, <1>1 DEF Count, StatementsAt, FileAt
    <2>4. Statement \in Seq(Step)
      BY <1>0, <2>1, <2>3, StatementTyping DEF Statement
    <2>5. known' \subseteq Names
      BY <1>0, <2>2, <2>4, RegistersNames
    <2>6. next \in Nat /\ at \in Nat
      BY <1>0, <2>3
    <2>7. output' \in Seq(Nat \X Nat)
      <3>1. output \in Seq(Nat \X Nat)
        BY <1>0
      <3>2. <<at, next>> \in Nat \X Nat
        BY <2>6
      <3>3. output' = output \/ output' = Append(output, <<at, next>>)
        BY <2>2
      <3>4. \A e \in Nat \X Nat : Append(output, e) \in Seq(Nat \X Nat)
        BY <3>1, AppendProperties
      <3> QED
        BY <3>1, <3>2, <3>3, <3>4, Zenon
    <2>8. next' \in 1..(Count(at)' + 1) /\ processed' \subseteq 1..Count(at)' /\ notResolved' \in Nat
      BY <1>0, <2>1, <2>2, <2>3
    <2> QED
      BY <1>0, <2>1, <2>5, <2>7, <2>8 DEF TypeOK
  <1>7. CASE RepeatPass
    <2>1. /\ Same /\ at' = at /\ toLoad' = toLoad /\ phase' = phase
          /\ processed' = processed /\ known' = known /\ output' = output
          /\ next' = 1 /\ notResolved' = 0 /\ lastTime' = notResolved
      BY <1>7 DEF RepeatPass, NewPass
    <2>2. Count(at)' = Count(at) /\ Count(at) \in Nat
      BY <2>1, <1>0, <1>1 DEF Count, StatementsAt, FileAt
    <2> QED
      BY <1>0, <2>1, <2>2 DEF TypeOK
  <1>8. CASE NextFile \/ EndDiscovery
    <2>1. /\ Same /\ toLoad' = toLoad /\ output' = output /\ processed' = {}
          /\ known' = known \/ known' = known \ Scoped
          /\ next' = 1 /\ notResolved' = 0 /\ lastTime' = 0
          /\ phase' \in {phase, "generate"}
          /\ at' = 1 \/ (at <= Len(includes) /\ at' = at + 1)
      BY <1>8 DEF NextFile, EndDiscovery, NewPass
    <2>2. at' \in 1..(Len(includes) + 1)
      BY <1>0, <2>1
    <2>3. Count(at)' \in Nat
      <3>1. Count(at)' = Count(at')
        BY <2>1 DEF Count, StatementsAt, FileAt
      <3> QED
        BY <3>1, <2>1, <2>2, <1>1
    <2> QED
      BY <1>0, <2>1, <2>2, <2>3 DEF TypeOK, Phases
  <1>9. CASE UNCHANGED vars
    <2>1. Untouched /\ toLoad' = toLoad /\ phase' = phase
      BY <1>9 DEF vars
    <2> QED
      BY <1>0, <1>2, <2>1
  <1> QED
    BY <1>3, <1>4, <1>5, <1>6, <1>7, <1>8, <1>9 DEF Next, Terminated

-----------------------------------------------------------------------------
(***************************************************************************)
(* Discovery.                                                              *)
(***************************************************************************)
\* Nothing is generated before the runs.
LEMMA StepFresh ==
    ASSUME Fresh, [Next]_vars
    PROVE  Fresh'
  <1>1. CASE LoadFile \/ SkipMissing \/ EndLoad \/ Report
    BY <1>1 DEF LoadFile, SkipMissing, EndLoad, Report, Fresh, passVars
  <1>2. CASE SkipProcessed \/ Resolve \/ FailToResolve
    BY <1>2 DEF SkipProcessed, Resolve, FailToResolve, Trying, Generating, Fresh
  <1>3. CASE RepeatPass \/ GiveUp \/ NextFile
    BY <1>3 DEF RepeatPass, GiveUp, NextFile, PassEnded, Generating, Fresh
  <1>4. CASE EndDiscovery \/ EndGeneration \/ Verify
    BY <1>4 DEF EndDiscovery, EndGeneration, Verify, Fresh
  <1>5. CASE UNCHANGED vars
    BY <1>5 DEF vars, Fresh
  <1> QED
    BY <1>1, <1>2, <1>3, <1>4, <1>5 DEF Next, Terminated

\* A pass counts every statement it fails to resolve.
LEMMA StepPassCounts ==
    ASSUME TypeOK, Fresh, PassCounts, [Next]_vars
    PROVE  PassCounts'
  <1>0. next \in Nat /\ notResolved \in Nat
    <2>1. at \in 1..(Len(includes) + 1) /\ next \in 1..(Count(at) + 1) /\ notResolved \in Nat
      BY DEF TypeOK
    <2> QED
      BY <2>1, StatementTyping
  <1>1. CASE LoadFile \/ SkipMissing \/ EndLoad \/ Report
    <2>1. next' = 1
      BY <1>1 DEF LoadFile, SkipMissing, EndLoad, Report, Fresh, passVars
    <2> QED
      BY <2>1 DEF PassCounts
  <1>2. CASE SkipProcessed \/ Resolve
    <2>1. /\ Generating /\ notResolved' = notResolved /\ next' = next + 1
          /\ processed' = processed \cup {next} \/ (next \in processed /\ processed' = processed)
      BY <1>2 DEF SkipProcessed, Resolve, Trying
    <2> QED
      BY <1>0, <2>1 DEF PassCounts
  <1>3. CASE FailToResolve
    <2>1. notResolved' = notResolved + 1
      BY <1>3 DEF FailToResolve
    <2> QED
      BY <1>0, <2>1 DEF PassCounts
  <1>4. CASE RepeatPass \/ NextFile \/ EndDiscovery
    <2>1. next' = 1
      BY <1>4 DEF RepeatPass, NextFile, EndDiscovery, NewPass
    <2> QED
      BY <2>1 DEF PassCounts
  <1>5. CASE GiveUp \/ EndGeneration \/ Verify
    BY <1>5 DEF GiveUp, EndGeneration, Verify, PassCounts, Generating
  <1>6. CASE UNCHANGED vars
    BY <1>6 DEF vars, PassCounts, Generating
  <1> QED
    BY <1>1, <1>2, <1>3, <1>4, <1>5, <1>6 DEF Next, Terminated

\* At the end of a file all its statements are processed.
LEMMA FileEnded ==
    ASSUME TypeOK, PassCounts, PassEnded, notResolved = 0
    PROVE  1..Count(at) \subseteq processed
  <1>1. at \in 1..(Len(includes) + 1) /\ next \in 1..(Count(at) + 1)
    BY DEF TypeOK
  <1>2. Count(at) \in Nat
    BY <1>1, StatementTyping
  <1>3. next = Count(at) + 1
    BY <1>1, <1>2 DEF PassEnded
  <1> QED
    BY <1>2, <1>3 DEF PassCounts, PassEnded

\* Discovery only adds names, and leaves a statement when it is satisfied.
LEMMA StepDiscovered ==
    ASSUME TypeOK, Fresh, PassCounts, Discovered, [Next]_vars
    PROVE  Discovered'
  <1>0. at \in 1..(Len(includes) + 1) /\ Len(includes) \in Nat
    BY DEF TypeOK
  <1>1. ASSUME program' = program, includes' = includes, phase = "discover", at' = at,
               known \subseteq known', 
               \A i \in processed' \ processed : Satisfied(StatementsAt(at)[i], known)
        PROVE  Discovered'
    <2>1. \A p : Count(p)' = Count(p) /\ StatementsAt(p)' = StatementsAt(p)
      BY <1>1, SameFiles
    <2>2. ASSUME NEW p \in 1..(at - 1), NEW i \in 1..Count(p)
          PROVE  Satisfied(StatementsAt(p)[i], known')
      BY <2>2, <1>1, SatisfiedMonotone DEF Discovered
    <2>3. ASSUME NEW i \in processed'
          PROVE  Satisfied(StatementsAt(at)[i], known')
      BY <2>3, <1>1, SatisfiedMonotone DEF Discovered
    <2>4. \A s : Satisfied(s, known)' <=> Satisfied(s, known')
      BY DEF Satisfied, GivenBefore
    <2> QED
      BY <1>1, <2>1, <2>2, <2>3, <2>4 DEF Discovered
  <1>2. CASE LoadFile \/ SkipMissing \/ EndLoad \/ Report
    <2>1. at' = 1 /\ processed' = {}
      BY <1>2 DEF LoadFile, SkipMissing, EndLoad, Report, Fresh, passVars
    <2> QED
      BY <2>1 DEF Discovered
  <1>3. CASE phase # "discover" /\ phase \notin {"load", "report"}
    <2>1. phase' # "discover"
      BY <1>3 DEF Next, LoadFile, SkipMissing, EndLoad, Report, SkipProcessed, Resolve,
                  FailToResolve, RepeatPass, GiveUp, NextFile, EndDiscovery, EndGeneration,
                  Verify, Terminated, vars
    <2> QED
      BY <2>1 DEF Discovered
  <1>4. CASE phase = "discover" /\ (SkipProcessed \/ FailToResolve \/ RepeatPass)
    <2>1. /\ program' = program /\ includes' = includes /\ at' = at
          /\ processed' = processed /\ known \subseteq known'
      BY <1>4 DEF SkipProcessed, FailToResolve, RepeatPass
    <2> QED
      BY <1>4, <2>1, <1>1
  <1>5. CASE phase = "discover" /\ Resolve
    <2>1. /\ program' = program /\ includes' = includes /\ at' = at
          /\ processed' = processed \cup {next} /\ known \subseteq known'
          /\ Completes(Statement, known)
      BY <1>5 DEF Resolve
    <2>2. Satisfied(StatementsAt(at)[next], known)
      BY <2>1, CompletesSatisfied DEF Statement
    <2> QED
      BY <1>5, <2>1, <2>2, <1>1
  <1>6. CASE phase = "discover" /\ NextFile
    <2>1. /\ program' = program /\ includes' = includes /\ at' = at + 1
          /\ processed' = {} /\ known' = known /\ notResolved = 0 /\ PassEnded
      BY <1>6 DEF NextFile
    <2>2. \A p : Count(p)' = Count(p) /\ StatementsAt(p)' = StatementsAt(p)
      BY <2>1, SameFiles
    <2>3. \A i \in 1..Count(at) : Satisfied(StatementsAt(at)[i], known)
      BY <1>6, <2>1, FileEnded DEF Discovered
    <2>4. ASSUME NEW p \in 1..(at' - 1), NEW i \in 1..Count(p)
          PROVE  Satisfied(StatementsAt(p)[i], known)
      <3>1. p \in 1..(at - 1) \/ p = at
        BY <1>0, <2>1
      <3> QED
        BY <1>6, <2>3, <2>4, <3>1 DEF Discovered
    <2>5. \A s : Satisfied(s, known)' <=> Satisfied(s, known')
      BY DEF Satisfied, GivenBefore
    <2> QED
      BY <2>1, <2>2, <2>4, <2>5 DEF Discovered
  <1>7. CASE GiveUp \/ EndDiscovery \/ EndGeneration \/ Verify
    BY <1>7 DEF GiveUp, EndDiscovery, EndGeneration, Verify, Discovered
  <1>8. CASE UNCHANGED vars
    <2>1. CASE phase = "discover"
      <3>1. /\ program' = program /\ includes' = includes /\ at' = at
            /\ processed' = processed /\ known' = known
        BY <1>8 DEF vars
      <3> QED
        BY <2>1, <3>1, <1>1
    <2>2. CASE phase # "discover"
      BY <1>8, <2>2 DEF vars, Discovered
    <2> QED
      BY <2>1, <2>2
  <1>9. CASE phase \in {"load", "report"} /\ Next
    <2>1. LoadFile \/ SkipMissing \/ EndLoad \/ Report
      BY <1>9 DEF Next, SkipProcessed, Resolve, FailToResolve, RepeatPass, GiveUp, NextFile,
                  EndDiscovery, EndGeneration, Verify, Terminated, Ended, Trying, PassEnded,
                  Generating
    <2> QED
      BY <2>1, <1>2
  <1> QED
    BY <1>2, <1>3, <1>4, <1>5, <1>6, <1>7, <1>8, <1>9 DEF Next, Terminated

-----------------------------------------------------------------------------
(***************************************************************************)
(* The second run.                                                         *)
(***************************************************************************)
\* Only the end of discovery begins the second run.
LEMMA EntersGeneration ==
    ASSUME [Next]_vars, phase' = "generate"
    PROVE  \/ EndDiscovery
           \/ /\ phase = "generate"
              /\ SkipProcessed \/ Resolve \/ FailToResolve \/ RepeatPass \/ NextFile
                 \/ UNCHANGED vars
BY DEF Next, LoadFile, SkipMissing, EndLoad, Report, SkipProcessed, Resolve, FailToResolve,
       RepeatPass, GiveUp, NextFile, EndDiscovery, EndGeneration, Verify, Terminated, vars

\* What discovery has left is enough for a plain program.
LEMMA StepAllSatisfied ==
    ASSUME TypeOK, PassCounts, Discovered, AllSatisfied, [Next]_vars
    PROVE  AllSatisfied'
  <1> SUFFICES ASSUME phase' = "generate", Plain',
                      NEW p \in 1..(Len(includes') + 1), NEW i \in 1..Count(p)'
               PROVE  Satisfied(StatementsAt(p)[i]', known')
    <2>1. \A s : Satisfied(s, known)' <=> Satisfied(s, known')
      BY DEF Satisfied, GivenBefore
    <2> QED
      BY <2>1 DEF AllSatisfied
  <1>1. program' = program /\ includes' = includes
    BY EntersGeneration DEF EndDiscovery, SkipProcessed, Resolve, FailToResolve, RepeatPass,
                            NextFile, vars
  <1>2. Plain /\ Count(p)' = Count(p) /\ StatementsAt(p)' = StatementsAt(p)
    BY <1>1, SameFiles DEF Plain
  <1>3. CASE EndDiscovery
    <2>1. /\ PassEnded /\ notResolved = 0 /\ at > Len(includes) /\ phase = "discover"
          /\ known' = known \ Scoped
      BY <1>3 DEF EndDiscovery
    <2>2. at = Len(includes) + 1
      BY <2>1 DEF TypeOK
    <2>3. p \in 1..(at - 1) \/ p = at
      BY <1>1, <2>2
    <2>4. Satisfied(StatementsAt(p)[i], known)
      BY <1>2, <2>1, <2>3, FileEnded DEF Discovered
    <2> QED
      BY <1>1, <1>2, <2>1, <2>4, SatisfiedUnscoped
  <1>4. CASE phase = "generate" /\ known \subseteq known'
    <2>1. Satisfied(StatementsAt(p)[i], known)
      BY <1>1, <1>2, <1>4 DEF AllSatisfied
    <2> QED
      BY <1>2, <1>4, <2>1, SatisfiedMonotone
  <1>5. EndDiscovery \/ (phase = "generate" /\ known \subseteq known')
    BY EntersGeneration DEF SkipProcessed, Resolve, FailToResolve, RepeatPass, NextFile, vars
  <1> QED
    BY <1>3, <1>4, <1>5

\* What appending to a sequence leaves, and adds.
LEMMA Appended ==
    ASSUME NEW S, NEW s \in Seq(S), NEW e \in S
    PROVE  /\ Append(s, e) # <<>>
           /\ Append(s, e)[Len(Append(s, e))] = e
           /\ \E k \in DOMAIN Append(s, e) : Append(s, e)[k] = e
           /\ \A k \in DOMAIN s : k \in DOMAIN Append(s, e) /\ Append(s, e)[k] = s[k]
  <1>1. /\ Append(s, e) # <<>>
        /\ Len(Append(s, e)) = Len(s) + 1
        /\ \A i \in 1..Len(s) : Append(s, e)[i] = s[i]
        /\ Append(s, e)[Len(s) + 1] = e
        /\ Append(s, e) \in Seq(S)
    BY AppendProperties
  <1>2. Len(s) \in Nat /\ DOMAIN s = 1..Len(s)
    OBVIOUS
  <1>3. DOMAIN Append(s, e) = 1..(Len(s) + 1)
    BY <1>1
  <1>4. Len(s) + 1 \in DOMAIN Append(s, e)
    BY <1>2, <1>3
  <1>5. \A k \in DOMAIN s : k \in DOMAIN Append(s, e) /\ Append(s, e)[k] = s[k]
    BY <1>1, <1>2, <1>3
  <1> QED
    BY <1>1, <1>4, <1>5, Zenon

\* The same of the output.
LEMMA OutputAppended ==
    ASSUME output \in Seq(Nat \X Nat), NEW e \in Nat \X Nat, output' = Append(output, e)
    PROVE  /\ output' # <<>>
           /\ output'[Len(output')] = e
           /\ \E k \in DOMAIN output' : output'[k] = e
           /\ \A k \in DOMAIN output : k \in DOMAIN output' /\ output'[k] = output[k]
  <1> DEFINE T == Nat \X Nat
  <1>1. output \in Seq(T) /\ e \in T
    OBVIOUS
  <1> HIDE DEF T
  <1>2. /\ Append(output, e) # <<>>
        /\ Append(output, e)[Len(Append(output, e))] = e
        /\ \E k \in DOMAIN Append(output, e) : Append(output, e)[k] = e
        /\ \A k \in DOMAIN output : k \in DOMAIN Append(output, e)
                                     /\ Append(output, e)[k] = output[k]
    BY <1>1, Appended
  <1> QED
    BY <1>2

\* So nothing fails there.
LEMMA StepGeneratesInOrder ==
    ASSUME TypeOK, AllSatisfied, GeneratesInOrder, [Next]_vars
    PROVE  GeneratesInOrder'
  <1> SUFFICES ASSUME phase' = "generate", Plain'
               PROVE  /\ notResolved' = 0
                      /\ processed' = 1..(next' - 1)
                      /\ next' > 1 => output' # <<>> /\ output'[Len(output')] = <<at', next' - 1>>
    BY DEF GeneratesInOrder
  <1>0. /\ at \in 1..(Len(includes) + 1) /\ next \in 1..(Count(at) + 1) /\ next \in Nat
        /\ Count(at) \in Nat /\ output \in Seq(Nat \X Nat) /\ at \in Nat
    <2>1. /\ at \in 1..(Len(includes) + 1) /\ next \in 1..(Count(at) + 1)
          /\ output \in Seq(Nat \X Nat)
      BY DEF TypeOK
    <2> QED
      BY <2>1, StatementTyping
  <1>1. CASE EndDiscovery
    BY <1>1 DEF EndDiscovery, NewPass
  <1>2. CASE phase = "generate" /\ ~EndDiscovery
    <2>1. program' = program
      BY <1>2, EntersGeneration DEF SkipProcessed, Resolve, FailToResolve, RepeatPass, NextFile, vars
    <2>2. Plain
      BY <2>1 DEF Plain
    <2>3. /\ notResolved = 0 /\ processed = 1..(next - 1)
          /\ next > 1 => output # <<>> /\ output[Len(output)] = <<at, next - 1>>
      BY <1>2, <2>2 DEF GeneratesInOrder
    <2>4. ~SkipProcessed /\ ~RepeatPass
      BY <1>0, <2>3 DEF SkipProcessed, RepeatPass
    <2>5. ~FailToResolve
      <3>1. SUFFICES ASSUME FailToResolve PROVE FALSE
        OBVIOUS
      <3>2. next \in 1..Count(at) /\ ~Completes(StatementsAt(at)[next], known)
        BY <1>0, <3>1 DEF FailToResolve, Trying, Statement
      <3>3. Satisfied(StatementsAt(at)[next], known)
        BY <1>0, <1>2, <2>2, <3>2 DEF AllSatisfied
      <3> QED
        BY <1>0, <2>2, <3>2, <3>3, SatisfiedCompletes
    <2>6. CASE Resolve
      <3>1. /\ next' = next + 1 /\ processed' = processed \cup {next}
            /\ notResolved' = notResolved /\ output' = Append(output, <<at, next>>) /\ at' = at
        BY <1>2, <2>6 DEF Resolve
      <3>2. processed' = 1..(next' - 1) /\ next' - 1 = next
        BY <1>0, <2>3, <3>1
      <3>3. <<at, next>> \in Nat \X Nat
        BY <1>0
      <3>4. output \in Seq(Nat \X Nat)
        BY <1>0
      <3>5. output' # <<>> /\ output'[Len(output')] = <<at, next>>
        BY <3>1, <3>3, <3>4, OutputAppended, Zenon
      <3> QED
        BY <2>3, <3>1, <3>2, <3>5
    <2>7. CASE NextFile
      BY <2>7 DEF NextFile, NewPass
    <2>8. CASE UNCHANGED vars
      BY <2>3, <2>8 DEF vars
    <2> QED
      BY <1>2, <2>4, <2>5, <2>6, <2>7, <2>8, EntersGeneration
  <1> QED
    BY <1>1, <1>2, EntersGeneration

\* The output only grows.
LEMMA KeptStays ==
    ASSUME TypeOK, NEW p, NEW i, Kept(p, i), NEW e \in Nat \X Nat,
           output' = output \/ output' = Append(output, e)
    PROVE  Kept(p, i)'
  <1>1. PICK k \in DOMAIN output : output[k] = <<p, i>>
    BY DEF Kept
  <1>2. output \in Seq(Nat \X Nat)
    BY DEF TypeOK
  <1>3. k \in DOMAIN output' /\ output'[k] = output[k]
    BY <1>1, <1>2, OutputAppended, Zenon
  <1> QED
    BY <1>1, <1>3 DEF Kept

\* A statement that is generated is kept.
LEMMA ResolveKeeps ==
    ASSUME TypeOK, Resolve, phase = "generate"
    PROVE  \E k \in DOMAIN output' : output'[k] = <<at, next>>
  <1>1. output \in Seq(Nat \X Nat) /\ output' = Append(output, <<at, next>>)
    BY DEF Resolve, TypeOK
  <1>2. at \in 1..(Len(includes) + 1) /\ next \in 1..(Count(at) + 1)
    BY DEF TypeOK
  <1>3. <<at, next>> \in Nat \X Nat
    BY <1>2, StatementTyping
  <1> QED
    BY <1>1, <1>3, OutputAppended, Zenon

\* What the second run has got through is in its output.
LEMMA StepAllKept ==
    ASSUME TypeOK, PassCounts, AllKept, [Next]_vars
    PROVE  AllKept'
  <1>0. at \in 1..(Len(includes) + 1) /\ Len(includes) \in Nat
    BY DEF TypeOK
  <1>00. <<at, next>> \in Nat \X Nat
    <2>1. next \in 1..(Count(at) + 1)
      BY DEF TypeOK
    <2> QED
      BY <1>0, <2>1, StatementTyping
  <1>1. CASE phase' = "generate" /\ EndDiscovery
    <2>1. phase' = "generate" /\ at' = 1 /\ processed' = {}
      BY <1>1 DEF EndDiscovery, NewPass
    <2> QED
      BY <2>1 DEF AllKept
  <1>2. CASE phase' = "generate" /\ phase = "generate"
    <2>1. /\ program' = program /\ includes' = includes
          /\ output' = output \/ output' = Append(output, <<at, next>>)
      BY <1>2, EntersGeneration DEF EndDiscovery, SkipProcessed, Resolve, FailToResolve,
                                    RepeatPass, NextFile, vars
    <2>2. \A p : Count(p)' = Count(p)
      BY <2>1, SameFiles
    <2>30. ASSUME NEW p, NEW i, Kept(p, i) PROVE Kept(p, i)'
      BY <1>00, <2>1, <2>30, KeptStays
    <2>3. \A p \in 1..(at - 1) : \A i \in 1..Count(p) : Kept(p, i)'
      BY <1>2, <2>30 DEF AllKept
    <2>40. \A i \in processed : Kept(at, i)
      BY <1>2 DEF AllKept
    <2>41. ASSUME at' = at, NEW i \in processed PROVE Kept(at, i)'
      <3>1. \E k \in DOMAIN output' : output'[k] = <<at, i>>
        BY <2>1, <2>40, <2>30, <2>41, Zenon DEF Kept
      <3> QED
        BY <3>1, <2>41 DEF Kept
    <2>4. \A i \in processed : Kept(at, i) /\ (at' = at => Kept(at, i)')
      BY <2>40, <2>41
    <2>5. CASE at' = at /\ processed' = processed
      BY <1>2, <2>2, <2>3, <2>4, <2>5 DEF AllKept
    <2>6. CASE Resolve
      <3>1. at' = at /\ processed' = processed \cup {next}
        BY <2>6 DEF Resolve
      <3>2. \A i \in processed' : \E k \in DOMAIN output' : output'[k] = <<at, i>>
        BY <1>2, <2>4, <2>6, <3>1, ResolveKeeps DEF Kept
      <3>3. \A i \in processed' : Kept(at, i)'
        BY <3>1, <3>2 DEF Kept
      <3> QED
        BY <1>2, <2>2, <2>3, <3>1, <3>3 DEF AllKept
    <2>7. CASE NextFile
      <3>1. /\ at' = at + 1 /\ processed' = {} /\ output' = output
            /\ PassEnded /\ notResolved = 0
        BY <2>7 DEF NextFile
      <3>2. \A i \in 1..Count(at) : Kept(at, i)
        BY <1>2, <3>1, FileEnded DEF AllKept
      <3>3. ASSUME NEW p \in 1..(at' - 1), NEW i \in 1..Count(p)
            PROVE  Kept(p, i)
        <4>1. p \in 1..(at - 1) \/ p = at
          BY <1>0, <3>1
        <4> QED
          BY <1>2, <3>2, <3>3, <4>1 DEF AllKept
      <3>4. \A p, i : Kept(p, i) => Kept(p, i)'
        BY <3>1 DEF Kept
      <3> QED
        BY <1>2, <2>2, <3>1, <3>3, <3>4 DEF AllKept
    <2>8. \/ at' = at /\ processed' = processed
          \/ Resolve \/ NextFile
      BY <1>2, EntersGeneration DEF EndDiscovery, SkipProcessed, FailToResolve, RepeatPass, vars
    <2> QED
      BY <2>5, <2>6, <2>7, <2>8
  <1>3. CASE EndGeneration
    <2>1. /\ phase = "generate" /\ phase' = "verify" /\ at > Len(includes) /\ PassEnded
          /\ notResolved = 0 /\ program' = program /\ includes' = includes
          /\ at' = at /\ output' = output
      BY <1>3 DEF EndGeneration
    <2>2. \A p : Count(p)' = Count(p)
      BY <2>1, SameFiles
    <2>3. at = Len(includes) + 1
      BY <1>0, <2>1
    <2>4. \A i \in 1..Count(at) : Kept(at, i)
      BY <2>1, FileEnded DEF AllKept
    <2>5. ASSUME NEW p \in 1..(Len(includes) + 1), NEW i \in 1..Count(p)
          PROVE  Kept(p, i)
      <3>1. p \in 1..(at - 1) \/ p = at
        BY <1>0, <2>3
      <3> QED
        BY <2>1, <2>4, <2>5, <3>1 DEF AllKept
    <2>6. NothingLost'
      BY <2>1, <2>2, <2>5 DEF NothingLost, Kept
    <2>7. \A p \in 1..(at' - 1) : \A i \in 1..Count(p)' : Kept(p, i)'
      BY <1>0, <2>1, <2>2, <2>3, <2>5 DEF Kept
    <2> QED
      BY <2>1, <2>6, <2>7 DEF AllKept
  <1>4. CASE phase' \in {"verify", "done"} /\ ~EndGeneration
    <2>1. /\ phase \in {"verify", "done"} /\ program' = program /\ includes' = includes
          /\ at' = at /\ output' = output
      BY <1>4 DEF Next, LoadFile, SkipMissing, EndLoad, Report, SkipProcessed, Resolve,
                  FailToResolve, RepeatPass, GiveUp, NextFile, EndDiscovery, Verify, Terminated,
                  vars, Trying, PassEnded, Generating
    <2>2. \A p : Count(p)' = Count(p)
      BY <2>1, SameFiles
    <2>3. NothingLost'
      BY <2>1, <2>2 DEF AllKept, NothingLost
    <2>4. \A p \in 1..(at' - 1) : \A i \in 1..Count(p)' : Kept(p, i)'
      BY <2>1, <2>2 DEF AllKept, Kept
    <2> QED
      BY <1>4, <2>3, <2>4 DEF AllKept
  <1>5. CASE phase' \notin {"generate", "verify", "done"}
    BY <1>5 DEF AllKept
  <1> QED
    BY <1>1, <1>2, <1>3, <1>4, <1>5, EntersGeneration

-----------------------------------------------------------------------------
(***************************************************************************)
(* The files in order.                                                     *)
(***************************************************************************)
\* File f will be before the file at p of includes: it is there already, or it
\* is still to be loaded.  Or it cannot be opened.
Before(f, p) ==
    \/ f \in Missing
    \/ \E q \in 1..(p - 1) : includes[q] = f
    \/ \E k \in DOMAIN toLoad : toLoad[k] = f

\* What a loaded file references comes before it, when all is loaded.
LoadOrder ==
    /\ phase # "load" => toLoad = <<>>
    /\ \A p \in DOMAIN includes : \A k \in DOMAIN Refs[includes[p]] :
          Before(Refs[includes[p]][k], p)

\* A sequence put in front shifts the rest by one; one put behind leaves it.
LEMMA Shifted ==
    ASSUME NEW S, NEW s \in Seq(S), NEW e \in S
    PROVE  /\ Len(<<e>> \o s) = Len(s) + 1 /\ DOMAIN (<<e>> \o s) = 1..(Len(s) + 1)
           /\ (<<e>> \o s)[1] = e
           /\ \A k \in 1..Len(s) : (<<e>> \o s)[k + 1] = s[k]
  <1>1. PICK u \in Seq(S) : u = <<e>>
    <2>1. <<e>> \in Seq(S)
      OBVIOUS
    <2>. QED  BY <2>1, Zenon
  <1>2. Len(u) = 1 /\ u[1] = e
    BY <1>1
  <1>3. Len(s) \in Nat
    OBVIOUS
  <1>4. Len(u \o s) = 1 + Len(s) /\ DOMAIN (u \o s) = 1..(1 + Len(s))
    BY <1>1, <1>2
  <1>5. (u \o s)[1] = e
    BY <1>1, <1>2, <1>3
  <1>6. ASSUME NEW k \in 1..Len(s) PROVE (u \o s)[k + 1] = s[k]
    BY <1>1, <1>2, <1>3
  <1>. QED  BY <1>1, <1>3, <1>4, <1>5, <1>6

\* A stack without its top.
LEMMA Popped ==
    ASSUME toLoad \in Seq(Files), toLoad # <<>>
    PROVE  /\ Rest \in Seq(Files)
           /\ DOMAIN toLoad = 1..(Len(Rest) + 1) /\ Len(Rest) \in Nat
           /\ \A k \in 1..Len(Rest) : Rest[k] = toLoad[k]
           /\ Top = toLoad[Len(Rest) + 1] /\ Top \in Files
  <1>1. PICK s \in Seq(Files) : s = toLoad
    OBVIOUS
  <1>2. Len(s) \in Nat /\ Len(s) > 0 /\ DOMAIN s = 1..Len(s)
    BY <1>1
  <1>3. SubSeq(s, 1, Len(s) - 1) \in Seq(Files)
    BY <1>2
  <1>4. PICK u \in Seq(Files) : u = SubSeq(s, 1, Len(s) - 1)
    BY <1>3, Zenon
  <1>5. Len(u) = Len(s) - 1 /\ \A k \in 1..Len(u) : u[k] = s[k]
    BY <1>2, <1>4
  <1>6. Rest = u
    BY <1>1, <1>4 DEF Rest
  <1>7. Top = s[Len(s)] /\ Len(s) = Len(u) + 1 /\ s[Len(s)] \in Files
    BY <1>1, <1>2, <1>5 DEF Top
  <1>8. Len(u) \in Nat
    OBVIOUS
  <1>. QED  BY <1>1, <1>2, <1>5, <1>6, <1>7, <1>8

\* With more put on it.
LEMMA Pushed ==
    ASSUME NEW S, NEW u \in Seq(S), NEW t \in Seq(S)
    PROVE  /\ \A k \in 1..Len(u) : k \in DOMAIN (u \o t) /\ (u \o t)[k] = u[k]
           /\ \A k \in DOMAIN t : Len(u) + k \in DOMAIN (u \o t) /\ (u \o t)[Len(u) + k] = t[k]
  <1>1. Len(u) \in Nat /\ Len(t) \in Nat /\ DOMAIN t = 1..Len(t)
    OBVIOUS
  <1>2. /\ \A k \in 1..Len(u) : (u \o t)[k] = u[k]
        /\ \A k \in 1..Len(t) : (u \o t)[Len(u) + k] = t[k]
        /\ DOMAIN (u \o t) = 1..(Len(u) + Len(t))
    OBVIOUS
  <1>. QED  BY <1>1, <1>2

\* A file that is loaded comes before those already there; its references are
\* put on the stack, so they will come before it.
LEMMA LoadLoadOrder ==
    ASSUME TypeOK, LoadOrder, LoadFile
    PROVE  LoadOrder'
  <1>1. /\ toLoad \in Seq(Files) /\ includes \in Seq(Files) /\ toLoad # <<>>
        /\ toLoad' = SubSeq(toLoad, 1, Len(toLoad) - 1) \o Refs[Top]
        /\ includes' = <<Top>> \o includes /\ phase' = "load"
    BY DEF TypeOK, LoadFile, Rest
  <1>2. Top \in Files
    BY <1>1, Popped
  <1>3. PICK r \in Seq(Files) : r = Refs[Top]
    BY <1>2, FilesAssumption
  <1>4. PICK e \in Files : e = Top
    BY <1>2
  <1>5. /\ DOMAIN includes = 1..Len(includes) /\ Len(includes) \in Nat
        /\ DOMAIN includes' = 1..(Len(includes) + 1)
        /\ includes'[1] = e /\ \A k \in 1..Len(includes) : includes'[k + 1] = includes[k]
    BY <1>1, <1>4, Shifted
  <1>6. /\ \A k \in DOMAIN toLoad : toLoad[k] # e =>
              k \in DOMAIN toLoad' /\ toLoad'[k] = toLoad[k]
        /\ \A k \in DOMAIN r : \E j \in DOMAIN toLoad' : toLoad'[j] = r[k]
    <2>1. PICK u \in Seq(Files) : u = Rest
      BY <1>1, Popped
    <2>2. toLoad' = u \o r
      BY <1>1, <1>3, <2>1 DEF Rest
    <2>3. /\ DOMAIN toLoad = 1..(Len(u) + 1) /\ Len(u) \in Nat
          /\ \A k \in 1..Len(u) : u[k] = toLoad[k]
          /\ e = toLoad[Len(u) + 1]
      BY <1>1, <1>4, <2>1, Popped
    <2>4. /\ \A k \in 1..Len(u) : k \in DOMAIN toLoad' /\ toLoad'[k] = u[k]
          /\ \A k \in DOMAIN r : Len(u) + k \in DOMAIN toLoad' /\ toLoad'[Len(u) + k] = r[k]
      BY <2>2, Pushed
    <2>5. ASSUME NEW k \in DOMAIN toLoad, toLoad[k] # e
          PROVE  k \in DOMAIN toLoad' /\ toLoad'[k] = toLoad[k]
      <3>1. k \in 1..Len(u)
        BY <2>3, <2>5
      <3>. QED  BY <2>3, <2>4, <3>1
    <2>. QED  BY <2>4, <2>5
  <1>7. \A k \in DOMAIN r : \E j \in DOMAIN toLoad' : toLoad'[j] = r[k]
    BY <1>6
  <1>8. ASSUME NEW p \in DOMAIN includes, NEW f, Before(f, p)
        PROVE  \/ f \in Missing
               \/ \E q \in 1..p : includes'[q] = f
               \/ \E k \in DOMAIN toLoad' : toLoad'[k] = f
    <2>1. CASE f \in Missing
      BY <2>1
    <2>2. ASSUME NEW q \in 1..(p - 1), includes[q] = f
          PROVE  \E x \in 1..p : includes'[x] = f
      <3>1. q + 1 \in 1..p /\ q \in 1..Len(includes)
        BY <1>5, <1>8
      <3>. QED  BY <1>5, <2>2, <3>1
    <2>3. ASSUME NEW k \in DOMAIN toLoad, toLoad[k] = f, f # e
          PROVE  \E x \in DOMAIN toLoad' : toLoad'[x] = f
      BY <1>6, <2>3
    <2>4. ASSUME f = e
          PROVE  \E x \in 1..p : includes'[x] = f
      <3>1. 1 \in 1..p
        BY <1>5, <1>8
      <3>. QED  BY <1>2, <1>4, <1>5, <2>4, <3>1
    <2>. QED  BY <1>8, <2>1, <2>2, <2>3, <2>4 DEF Before
  <1>9. ASSUME NEW p \in DOMAIN includes', NEW k \in DOMAIN Refs[includes'[p]]
        PROVE  \/ Refs[includes'[p]][k] \in Missing
               \/ \E q \in 1..(p - 1) : includes'[q] = Refs[includes'[p]][k]
               \/ \E j \in DOMAIN toLoad' : toLoad'[j] = Refs[includes'[p]][k]
    <2>1. CASE p = 1
      BY <1>3, <1>4, <1>5, <1>7, <1>9, <2>1
    <2>2. CASE p # 1
      <3>1. PICK x \in 1..Len(includes) : p = x + 1
        <4>1. p - 1 \in 1..Len(includes) /\ p = (p - 1) + 1
          BY <1>5, <2>2
        <4>. QED  BY <4>1
      <3>2. includes'[p] = includes[x] /\ x \in DOMAIN includes
        BY <1>5, <3>1
      <3>3. Before(Refs[includes[x]][k], x)
        BY <1>9, <3>2 DEF LoadOrder
      <3>4. 1..x = 1..(p - 1)
        BY <3>1
      <3>. QED  BY <1>8, <3>2, <3>3, <3>4
    <2>. QED  BY <2>1, <2>2
  <1>. QED  BY <1>1, <1>9 DEF LoadOrder, Before

\* The other steps.
LEMMA StepLoadOrder ==
    ASSUME TypeOK, LoadOrder, [Next]_vars
    PROVE  LoadOrder'
  <1>1. CASE SkipMissing
    <2>1. /\ toLoad \in Seq(Files) /\ toLoad # <<>> /\ Top \in Missing
          /\ toLoad' = SubSeq(toLoad, 1, Len(toLoad) - 1)
          /\ includes' = includes /\ phase' = "load"
      BY <1>1 DEF TypeOK, SkipMissing, Rest
    <2>2. PICK u \in Seq(Files) : u = Rest
      BY <2>1, Popped
    <2>3. /\ DOMAIN toLoad = 1..(Len(u) + 1) /\ Len(u) \in Nat
          /\ \A k \in 1..Len(u) : u[k] = toLoad[k]
          /\ toLoad[Len(u) + 1] \in Missing
      BY <2>1, <2>2, Popped
    <2>4. toLoad' = u /\ DOMAIN u = 1..Len(u)
      BY <2>1, <2>2 DEF Rest
    <2>5. ASSUME NEW f, NEW p, Before(f, p) PROVE Before(f, p)'
      <3>1. ASSUME NEW k \in DOMAIN toLoad, toLoad[k] = f, f \notin Missing
            PROVE  k \in DOMAIN toLoad' /\ toLoad'[k] = f
        <4>1. k \in 1..Len(u)
          BY <2>3, <3>1
        <4>. QED  BY <2>3, <2>4, <3>1, <4>1
      <3>. QED  BY <2>1, <2>5, <3>1 DEF Before
    <2>. QED  BY <2>1, <2>5 DEF LoadOrder
  <1>2. CASE EndLoad
    BY <1>2 DEF EndLoad, LoadOrder, Before
  <1>3. ASSUME phase # "load", phase' # "load", toLoad' = toLoad, includes' = includes
        PROVE  LoadOrder'
    BY <1>3 DEF LoadOrder, Before
  <1>4. CASE Report \/ SkipProcessed \/ Resolve \/ FailToResolve
    BY <1>3, <1>4 DEF Report, SkipProcessed, Resolve, FailToResolve, Trying, Generating
  <1>5. CASE RepeatPass \/ GiveUp \/ NextFile \/ EndDiscovery \/ EndGeneration \/ Verify
    BY <1>3, <1>5 DEF RepeatPass, GiveUp, NextFile, EndDiscovery, EndGeneration, Verify,
                      PassEnded, Generating
  <1>6. CASE UNCHANGED vars
    BY <1>6 DEF vars, LoadOrder, Before
  <1>. QED  BY <1>1, <1>2, <1>4, <1>5, <1>6, LoadLoadOrder DEF Next, Terminated

-----------------------------------------------------------------------------
(***************************************************************************)
(* The order of the output.                                                *)
(***************************************************************************)
\* What is in the output is of the files up to the one at hand, and of that
\* one only what is processed.
OutputOK ==
    /\ phase \in {"load", "report", "discover"} => output = <<>>
    /\ \A k \in DOMAIN output :
          /\ output[k][1] <= at
          /\ phase = "generate" /\ output[k][1] = at => output[k][2] \in processed
    /\ OutputOrdered

\* A statement that is generated is new, and of the last file in the output.
LEMMA ResolveOutputOK ==
    ASSUME TypeOK, OutputOK, Resolve, phase = "generate"
    PROVE  OutputOK'
  <1>1. /\ phase' = phase /\ at' = at /\ processed' = processed \cup {next}
        /\ output' = Append(output, <<at, next>>) /\ next \notin processed
    BY DEF Resolve
  <1>2. at \in Nat /\ next \in Nat
    <2>1. at \in 1..(Len(includes) + 1) /\ next \in 1..(Count(at) + 1)
      BY DEF TypeOK
    <2>. QED  BY <2>1, StatementTyping
  <1>3. output \in Seq(Nat \X Nat) /\ <<at, next>> \in Nat \X Nat
    BY <1>2 DEF TypeOK
  <1>4. PICK n \in Nat : n = Len(output) /\ DOMAIN output = 1..n
    BY <1>3
  <1>5. /\ DOMAIN output' = 1..(n + 1)
        /\ output'[n + 1] = <<at, next>>
        /\ \A k \in 1..n : output'[k] = output[k]
    BY <1>1, <1>3, <1>4
  <1>6. \A k \in 1..n : output[k] \in Nat \X Nat
    BY <1>3, <1>4
  <1>7. ASSUME NEW k \in 1..(n + 1)
        PROVE  output'[k][1] <= at /\ (output'[k][1] = at => output'[k][2] \in processed')
    <2>1. CASE k = n + 1
      BY <1>1, <1>2, <1>5, <2>1
    <2>2. CASE k \in 1..n
      BY <1>1, <1>4, <1>5, <2>2 DEF OutputOK
    <2>. QED  BY <1>4, <2>1, <2>2
  <1>8. ASSUME NEW i \in 1..(n + 1), NEW j \in 1..(n + 1), i < j
        PROVE  output'[i][1] <= output'[j][1] /\ output'[i] # output'[j]
    <2>1. i \in 1..n
      BY <1>4, <1>8
    <2>2. CASE j \in 1..n
      BY <1>4, <1>5, <1>8, <2>1, <2>2 DEF OutputOK, OutputOrdered
    <2>3. CASE j = n + 1
      <3>1. output'[i] = output[i] /\ output'[j] = <<at, next>>
        BY <1>5, <2>1, <2>3
      <3>2. output[i][1] <= at /\ (output[i][1] = at => output[i][2] # next)
        BY <1>1, <1>4, <2>1 DEF OutputOK
      <3>. QED  BY <3>1, <3>2
    <2>. QED  BY <1>4, <2>2, <2>3
  <1>9. OutputOrdered'
    BY <1>5, <1>8 DEF OutputOrdered
  <1>. QED  BY <1>1, <1>5, <1>7, <1>9 DEF OutputOK

\* The other steps add nothing, and go on to later files.
LEMMA StepOutputOK ==
    ASSUME TypeOK, OutputOK, [Next]_vars
    PROVE  OutputOK'
  <1>1. CASE Resolve /\ phase = "generate"
    BY <1>1, ResolveOutputOK
  <1>2. at \in Nat
    BY DEF TypeOK
  <1>3. ASSUME output' = output, at' = at, processed' = processed,
               phase' \in {"load", "report", "discover"} => phase \in {"load", "report", "discover"},
               phase' = "generate" => phase = "generate"
        PROVE  OutputOK'
    BY <1>3 DEF OutputOK, OutputOrdered
  <1>4. CASE LoadFile \/ SkipMissing \/ EndLoad \/ Report
    BY <1>3, <1>4 DEF LoadFile, SkipMissing, EndLoad, Report, passVars
  <1>5. CASE Resolve /\ phase # "generate"
    <2>1. phase = "discover" /\ phase' = phase /\ output' = output
      BY <1>5 DEF Resolve, Trying, Generating
    <2>. QED  BY <2>1 DEF OutputOK, OutputOrdered
  <1>6. CASE SkipProcessed \/ FailToResolve
    BY <1>3, <1>6 DEF SkipProcessed, FailToResolve
  <1>7. CASE RepeatPass \/ GiveUp \/ EndGeneration \/ Verify
    BY <1>3, <1>7 DEF RepeatPass, GiveUp, EndGeneration, Verify, passVars
  <1>8. CASE NextFile
    <2>1. at' = at + 1 /\ output' = output /\ phase' = phase
      BY <1>8 DEF NextFile
    <2>2. \A k \in DOMAIN output : output[k][1] <= at /\ output[k] \in Nat \X Nat
      BY DEF OutputOK, TypeOK
    <2>3. \A k \in DOMAIN output : output[k][1] <= at + 1 /\ output[k][1] # at + 1
      BY <1>2, <2>2
    <2>. QED  BY <2>1, <2>3 DEF OutputOK, OutputOrdered
  <1>9. CASE EndDiscovery
    <2>1. output' = <<>>
      BY <1>9 DEF EndDiscovery, OutputOK
    <2>. QED  BY <2>1 DEF OutputOK, OutputOrdered
  <1>10. CASE UNCHANGED vars
    BY <1>3, <1>10 DEF vars
  <1>. QED  BY <1>1, <1>4, <1>5, <1>6, <1>7, <1>8, <1>9, <1>10 DEF Next, Terminated

-----------------------------------------------------------------------------
(***************************************************************************)
(* Giving up.                                                              *)
(***************************************************************************)
\* The statements of the file that are not generated, and those of them that
\* this pass has tried.
Left  == (1..Count(at)) \ processed
Tried == (1..(next - 1)) \ processed

\* What statement i gives before it asks for anything is registered.
Registered(i) ==
    LET s == StatementsAt(at)[i] IN \A j \in 1..(Len(s) - 1) : s[j].gives \subseteq known

\* notResolved counts the failures of the pass.  Those of the pass before,
\* lastTime, were all that is left, and have registered what they can: as long
\* as none of them is resolved now, no name is added, and they fail again.
PassTight ==
    Generating =>
        /\ notResolved = Cardinality(Tried)
        /\ LastAsks => \A i \in Tried : Registered(i)
        /\ lastTime > 0 =>
              /\ Cardinality(Left) <= lastTime
              /\ LastAsks => \A i \in Left : Registered(i)
              /\ LastAsks /\ Cardinality(Left) = lastTime =>
                    \A i \in Tried : ~Completes(StatementsAt(at)[i], known)

\* Both are finite, and what is tried is left.
LEMMA LeftFinite ==
    ASSUME TypeOK
    PROVE  /\ IsFiniteSet(Left) /\ IsFiniteSet(Tried) /\ Tried \subseteq Left
           /\ Cardinality(Left) \in Nat /\ Cardinality(Tried) \in Nat
           /\ next > Count(at) => Tried = Left
           /\ Count(at) \in Nat /\ next \in 1..(Count(at) + 1) /\ next \in Nat
  <1>1. at \in 1..(Len(includes) + 1) /\ next \in 1..(Count(at) + 1)
    BY DEF TypeOK
  <1>2. Count(at) \in Nat
    BY <1>1, StatementTyping
  <1>3. IsFiniteSet(1..Count(at))
    BY <1>2, FS_Interval
  <1>4. Left \subseteq 1..Count(at) /\ Tried \subseteq Left
    BY <1>1, <1>2 DEF Left, Tried
  <1>5. IsFiniteSet(Left)
    BY <1>3, <1>4, FS_Subset
  <1>6. IsFiniteSet(Tried)
    BY <1>4, <1>5, FS_Subset
  <1>7. next > Count(at) => Tried = Left
    BY <1>1, <1>2 DEF Left, Tried
  <1>. QED  BY <1>1, <1>2, <1>4, <1>5, <1>6, <1>7, FS_CardinalityType

\* If only last steps ask for names, an attempt that fails registers what all
\* steps but the last give.
LEMMA FailedRegisters ==
    ASSUME TypeOK, LastAsks, NEW i \in 1..Count(at), NEW ns, NEW s,
           s = StatementsAt(at)[i], ~Completes(s, ns)
    PROVE  \A x : x \in Registers(s, ns) <=> \E j \in 1..(Len(s) - 1) : x \in s[j].gives
  <1>1. /\ FileAt(at) \in Files /\ s \in Seq(Step) /\ i \in DOMAIN program[FileAt(at)]
        /\ s = program[FileAt(at)][i]
    <2>1. at \in 1..(Len(includes) + 1)
      BY DEF TypeOK
    <2>2. StatementsAt(at) \in Seq(Seq(Step))
      BY <2>1, StatementTyping
    <2>. QED  BY <2>1, <2>2, StatementTyping DEF StatementsAt, Count
  <1>2. \A j \in 1..(Len(s) - 1) : Asks(s[j]) = {}
    BY <1>1 DEF LastAsks
  <1>3. Len(s) \in Nat /\ DOMAIN s = 1..Len(s)
    BY <1>1
  <1>4. ~Passes(s, Len(s), ns)
    BY DEF Completes
  <1>5. \A j \in 1..(Len(s) - 1) : Passes(s, j, ns)
    <2> TAKE j \in 1..(Len(s) - 1)
    <2>1. \A x \in 1..j : x \in 1..(Len(s) - 1)
      BY <1>3
    <2>. QED  BY <1>2, <2>1 DEF Passes
  <1>6. {j \in DOMAIN s : Passes(s, j, ns)} = 1..(Len(s) - 1)
    BY <1>3, <1>4, <1>5
  <1>. QED  BY <1>6 DEF Registers

\* A statement that fails adds no name, if what it gives before it asks is
\* known.
LEMMA FailsAgain ==
    ASSUME TypeOK, LastAsks, NEW i \in 1..Count(at), Registered(i),
           ~Completes(StatementsAt(at)[i], known)
    PROVE  Registers(StatementsAt(at)[i], known) \subseteq known
  <1>1. PICK s : s = StatementsAt(at)[i]
    OBVIOUS
  <1>2. \A x : x \in Registers(s, known) <=> \E j \in 1..(Len(s) - 1) : x \in s[j].gives
    <2>1. ~Completes(s, known)
      BY <1>1
    <2>. QED  BY <1>1, <2>1, FailedRegisters
  <1>3. \A j \in 1..(Len(s) - 1) : s[j].gives \subseteq known
    BY <1>1 DEF Registered
  <1>. QED  BY <1>1, <1>2, <1>3

\* What a step inside a pass leaves alone.
LEMMA PassFrame ==
    ASSUME program' = program, includes' = includes, at' = at, phase' = phase
    PROVE  /\ Count(at)' = Count(at) /\ StatementsAt(at)' = StatementsAt(at)
           /\ LastAsks' = LastAsks /\ Generating' = Generating
           /\ known' = known => \A i : Completes(StatementsAt(at)[i], known)'
                                         = Completes(StatementsAt(at)[i], known)
           /\ known \subseteq known' => \A i : Registered(i) => Registered(i)'
  <1>1. Count(at)' = Count(at) /\ StatementsAt(at)' = StatementsAt(at)
    BY DEF Count, StatementsAt, FileAt
  <1>2. LastAsks' = LastAsks /\ Generating' = Generating
    BY DEF LastAsks, Asks, Generating
  <1>3. ASSUME known' = known, NEW i
        PROVE  Completes(StatementsAt(at)[i], known)' = Completes(StatementsAt(at)[i], known)
    BY <1>1, <1>3 DEF Completes, Passes, Asks, GivenBefore
  <1>4. ASSUME known \subseteq known', NEW i, Registered(i)
        PROVE  Registered(i)'
    BY <1>1, <1>4 DEF Registered
  <1>. QED  BY <1>1, <1>2, <1>3, <1>4

\* A statement that is resolved leaves fewer than the pass before has left.
LEMMA ResolvePassTight ==
    ASSUME TypeOK, PassTight, Resolve
    PROVE  PassTight'
  <1>1. /\ next' = next + 1 /\ processed' = processed \cup {next} /\ Generating
        /\ next \notin processed /\ next <= Count(at)
        /\ known \subseteq known' /\ notResolved' = notResolved /\ lastTime' = lastTime
        /\ program' = program /\ includes' = includes /\ at' = at /\ phase' = phase
    BY DEF Resolve, Trying
  <1>2. Tried' = Tried /\ Left' = Left \ {next} /\ next \in Left
    BY <1>1, LeftFinite, PassFrame DEF Tried, Left
  <1>3. PICK c, d \in Nat : c = Cardinality(Left) /\ d = Cardinality(Left \ {next}) /\ d = c - 1
    BY <1>2, LeftFinite, FS_RemoveElement, FS_CardinalityType
  <1>4. \A i \in Left' : i \in Left
    BY <1>2
  <1>5. \A i : Registered(i) => Registered(i)'
    BY <1>1, PassFrame
  <1>6. LastAsks' => LastAsks
    BY <1>1, PassFrame
  <1>7. notResolved' = Cardinality(Tried)'
    BY <1>1, <1>2 DEF PassTight
  <1>8. LastAsks' => \A i \in Tried' : Registered(i)'
    BY <1>1, <1>2, <1>5, <1>6 DEF PassTight
  <1>9. ASSUME lastTime' > 0
        PROVE  /\ Cardinality(Left)' < lastTime'
               /\ LastAsks' => \A i \in Left' : Registered(i)'
    <2>1. c <= lastTime /\ (LastAsks => \A i \in Left : Registered(i))
      BY <1>1, <1>3, <1>9 DEF PassTight
    <2>2. lastTime \in Nat /\ Cardinality(Left)' = d
      BY <1>2, <1>3 DEF TypeOK
    <2>. QED  BY <1>1, <1>3, <1>4, <1>5, <1>6, <2>1, <2>2
  <1>10. lastTime' > 0 => Cardinality(Left)' <= lastTime' /\ Cardinality(Left)' # lastTime'
    BY <1>1, <1>2, <1>3, <1>9 DEF TypeOK
  <1>. QED  BY <1>7, <1>8, <1>9, <1>10 DEF PassTight

\* A statement that fails is counted, and has registered what it can.
LEMMA FailPassTight ==
    ASSUME TypeOK, PassTight, FailToResolve
    PROVE  PassTight'
  <1>1. /\ next' = next + 1 /\ processed' = processed /\ Generating
        /\ next \notin processed /\ next <= Count(at)
        /\ known' = known \cup Registers(StatementsAt(at)[next], known)
        /\ ~Completes(StatementsAt(at)[next], known)
        /\ notResolved' = notResolved + 1 /\ lastTime' = lastTime
        /\ program' = program /\ includes' = includes /\ at' = at /\ phase' = phase
    BY DEF FailToResolve, Trying, Statement
  <1>2. Tried' = Tried \cup {next} /\ next \notin Tried /\ Left' = Left /\ next \in Left
        /\ next \in 1..Count(at)
    BY <1>1, LeftFinite, PassFrame DEF Tried, Left
  <1>3. notResolved' = Cardinality(Tried)'
    <2>1. Cardinality(Tried \cup {next}) = Cardinality(Tried) + 1
      BY <1>2, LeftFinite, FS_AddElement
    <2>. QED  BY <1>1, <1>2, <2>1 DEF PassTight
  <1>4. \A i : Registered(i) => Registered(i)'
    BY <1>1, PassFrame
  <1>5. LastAsks' => LastAsks
    BY <1>1, PassFrame
  <1>6. PICK n : n = next
    OBVIOUS
  <1>7. LastAsks => Registered(n)'
    <2>1. SUFFICES ASSUME LastAsks PROVE Registered(n)'
      OBVIOUS
    <2>2. PICK s : s = StatementsAt(at)[n]
      OBVIOUS
    <2>3. \A x : x \in Registers(s, known) <=> \E j \in 1..(Len(s) - 1) : x \in s[j].gives
      <3>1. ~Completes(s, known) /\ n \in 1..Count(at)
        BY <1>1, <1>2, <1>6, <2>2
      <3>. QED  BY <2>1, <2>2, <3>1, FailedRegisters
    <2>4. \A j \in 1..(Len(s) - 1) : s[j].gives \subseteq known'
      BY <1>1, <1>6, <2>2, <2>3
    <2>5. StatementsAt(at)' = StatementsAt(at)
      BY <1>1, PassFrame
    <2>. QED  BY <2>2, <2>4, <2>5 DEF Registered
  <1>8. LastAsks' => \A i \in Tried' : Registered(i)'
    BY <1>1, <1>2, <1>4, <1>5, <1>6, <1>7 DEF PassTight
  <1>9. lastTime' > 0 => /\ Cardinality(Left)' <= lastTime'
                         /\ LastAsks' => \A i \in Left' : Registered(i)'
    BY <1>1, <1>2, <1>4, <1>5 DEF PassTight
  <1>10. ASSUME lastTime' > 0, LastAsks', Cardinality(Left)' = lastTime'
         PROVE  \A i \in Tried' : ~Completes(StatementsAt(at)[i], known)'
    <2>1. LastAsks /\ lastTime > 0 /\ Cardinality(Left) = lastTime
      BY <1>1, <1>2, <1>5, <1>10
    <2>2. Registered(n) /\ \A i \in Tried : ~Completes(StatementsAt(at)[i], known)
      BY <1>1, <1>2, <1>6, <2>1 DEF PassTight
    <2>3. Registers(StatementsAt(at)[n], known) \subseteq known
      BY <1>1, <1>2, <1>6, <2>1, <2>2, FailsAgain
    <2>4. known' = known
      BY <1>1, <1>6, <2>3
    <2>5. \A i : Completes(StatementsAt(at)[i], known)' = Completes(StatementsAt(at)[i], known)
      BY <1>1, <2>4, PassFrame
    <2>6. ~Completes(StatementsAt(at)[n], known)
      BY <1>1, <1>6
    <2>. QED  BY <1>2, <1>6, <2>2, <2>5, <2>6
  <1>. QED  BY <1>3, <1>8, <1>9, <1>10 DEF PassTight

\* A pass that begins has tried nothing.
LEMMA NewPassTight ==
    ASSUME next' = 1, notResolved' = 0, lastTime' = 0
    PROVE  PassTight'
  <1>1. Tried' = {}
    BY DEF Tried
  <1>. QED  BY <1>1, FS_EmptySet DEF PassTight

\* The pass after it starts with all that is left.
LEMMA RepeatPassTight ==
    ASSUME TypeOK, PassTight, RepeatPass
    PROVE  PassTight'
  <1>1. /\ next' = 1 /\ notResolved' = 0 /\ lastTime' = notResolved /\ next > Count(at)
        /\ Generating /\ processed' = processed /\ known' = known
        /\ program' = program /\ includes' = includes /\ at' = at /\ phase' = phase
    BY DEF RepeatPass, NewPass, PassEnded
  <1>2. Tried' = {} /\ Left' = Left /\ Tried = Left
    BY <1>1, LeftFinite, PassFrame DEF Tried, Left
  <1>3. lastTime' = Cardinality(Left)' /\ Cardinality(Left)' \in Nat
    BY <1>1, <1>2, LeftFinite DEF PassTight
  <1>4. LastAsks' => \A i \in Left' : Registered(i)'
    BY <1>1, <1>2, PassFrame DEF PassTight
  <1>. QED  BY <1>1, <1>2, <1>3, <1>4, FS_EmptySet DEF PassTight

\* Every step keeps it.
LEMMA StepPassTight ==
    ASSUME TypeOK, Fresh, PassTight, [Next]_vars
    PROVE  PassTight'
  <1>1. CASE LoadFile \/ SkipMissing \/ EndLoad
    BY <1>1 DEF LoadFile, SkipMissing, EndLoad, PassTight, Generating
  <1>2. CASE Report
    <2>1. next' = 1 /\ notResolved' = 0 /\ lastTime' = 0
      BY <1>2 DEF Report, Fresh, passVars
    <2>. QED  BY <2>1, NewPassTight
  <1>3. CASE SkipProcessed
    <2>1. /\ next' = next + 1 /\ processed' = processed /\ next \in processed /\ known' = known
          /\ notResolved' = notResolved /\ lastTime' = lastTime
          /\ program' = program /\ includes' = includes /\ at' = at /\ phase' = phase
      BY <1>3 DEF SkipProcessed
    <2>2. Tried' = Tried /\ Left' = Left
      BY <2>1, LeftFinite, PassFrame DEF Tried, Left
    <2>3. /\ LastAsks' = LastAsks /\ Generating' = Generating
          /\ \A i : Completes(StatementsAt(at)[i], known)' = Completes(StatementsAt(at)[i], known)
          /\ \A i : Registered(i) => Registered(i)'
      BY <2>1, PassFrame
    <2>. QED  BY <2>1, <2>2, <2>3 DEF PassTight
  <1>4. CASE GiveUp \/ EndGeneration \/ Verify
    BY <1>4 DEF GiveUp, EndGeneration, Verify, PassTight, Generating
  <1>5. CASE NextFile \/ EndDiscovery
    <2>1. next' = 1 /\ notResolved' = 0 /\ lastTime' = 0
      BY <1>5 DEF NextFile, EndDiscovery, NewPass
    <2>. QED  BY <2>1, NewPassTight
  <1>6. CASE UNCHANGED vars
    <2>1. /\ next' = next /\ processed' = processed /\ known' = known
          /\ notResolved' = notResolved /\ lastTime' = lastTime
          /\ program' = program /\ includes' = includes /\ at' = at /\ phase' = phase
      BY <1>6 DEF vars
    <2>2. Tried' = Tried /\ Left' = Left
      BY <2>1, PassFrame DEF Tried, Left
    <2>3. /\ LastAsks' = LastAsks /\ Generating' = Generating
          /\ \A i : Completes(StatementsAt(at)[i], known)' = Completes(StatementsAt(at)[i], known)
          /\ \A i : Registered(i) => Registered(i)'
      BY <2>1, PassFrame
    <2>. QED  BY <2>1, <2>2, <2>3 DEF PassTight
  <1>. QED  BY <1>1, <1>2, <1>3, <1>4, <1>5, <1>6, ResolvePassTight, FailPassTight, RepeatPassTight
            DEF Next, Terminated

\* At the end of a pass that got no further, nothing left can be resolved.
LEMMA TightGivesUp ==
    ASSUME TypeOK, PassTight
    PROVE  GivesUpOnlyWhenStuck
  <1> DEFINE left == {StatementsAt(at)[i] : i \in (1..Count(at)) \ processed}
             names == known \cup UNION {Registers(s, known) : s \in left}
  <1>1. SUFFICES ASSUME PassEnded, Stuck, LastAsks, NEW s \in left
                 PROVE  ~Completes(s, names)
    BY DEF GivesUpOnlyWhenStuck
  <1>2. Generating /\ Tried = Left /\ lastTime > 0 /\ Cardinality(Left) = lastTime
    BY <1>1, LeftFinite DEF PassEnded, Stuck, PassTight
  <1>3. \A i \in Left : Registered(i) /\ ~Completes(StatementsAt(at)[i], known)
    BY <1>1, <1>2 DEF PassTight
  <1>4. \A i \in Left : i \in 1..Count(at)
    BY DEF Left
  <1>5. \A i \in Left : Registers(StatementsAt(at)[i], known) \subseteq known
    BY <1>1, <1>3, <1>4, FailsAgain
  <1>6. \A q \in left : ~Completes(q, known) /\ Registers(q, known) \subseteq known
    BY <1>3, <1>5 DEF Left
  <1>7. names = known
    BY <1>6
  <1>. QED  BY <1>1, <1>6, <1>7

-----------------------------------------------------------------------------
(***************************************************************************)
(* The theorems.                                                           *)
(***************************************************************************)
\* The conjuncts hold together in every reachable state.
LEMMA Invariant == Spec => []IInv
  <1>1. Init => IInv
    <2> SUFFICES ASSUME Init PROVE IInv
      OBVIOUS
    <2>1. phase = "load" /\ at = 1 /\ next = 1 /\ processed = {} /\ notResolved = 0
          /\ lastTime = 0 /\ known = {}
      BY DEF Init
    <2> QED
      BY <2>1, InitTypeOK DEF IInv, Fresh, PassCounts, Generating, Discovered, AllSatisfied,
                              GeneratesInOrder, AllKept
  <1>2. IInv /\ [Next]_vars => IInv'
    BY StepTypeOK, StepFresh, StepPassCounts, StepDiscovered, StepAllSatisfied,
       StepGeneratesInOrder, StepAllKept DEF IInv
  <1> QED
    BY <1>1, <1>2, PTL DEF Spec

\* The variables keep their types: at and next stay within the files and
\* statements they index.
THEOREM TypeCorrect == Spec => []TypeOK
  <1>1. IInv => TypeOK
    BY DEF IInv
  <1> QED
    BY <1>1, Invariant, PTL

\* For any files and statements, the second run over a plain program fails
\* nowhere and follows the source order (mlirCodeGenModule after
\* mlirDiscoverAllDependencies).
THEOREM InOrder == Spec => []GeneratesInOrder
  <1>1. IInv => GeneratesInOrder
    BY DEF IInv
  <1> QED
    BY <1>1, Invariant, PTL

\* For any files and statements, a compilation that succeeds has generated
\* every statement of every file it loaded (processStatements).
THEOREM AllGenerated == Spec => []NothingLost
  <1>1. IInv => NothingLost
    BY DEF IInv, AllKept, NothingLost
  <1> QED
    BY <1>1, Invariant, PTL

\* Whatever files reference each other, the files a file references are
\* generated before it (loadSourceBuf).
THEOREM ReferencesBefore == Spec => []ReferencesFirst
  <1>1. Init => LoadOrder
    BY DEF Init, LoadOrder
  <1>2. TypeOK /\ LoadOrder /\ [Next]_vars => LoadOrder'
    BY StepLoadOrder
  <1>3. TypeOK /\ LoadOrder => ReferencesFirst
    <2> SUFFICES ASSUME LoadOrder, phase # "load",
                        NEW p \in DOMAIN includes, NEW k \in DOMAIN Refs[includes[p]]
                 PROVE  \/ Refs[includes[p]][k] \in Missing
                        \/ \E q \in 1..(p - 1) : includes[q] = Refs[includes[p]][k]
      BY DEF ReferencesFirst
    <2>. QED  BY DEF LoadOrder, Before
  <1>. QED  BY <1>1, <1>2, <1>3, TypeCorrect, PTL DEF Spec

\* For any files and statements, the output repeats no statement and goes back
\* to no file, in however many passes its statements were generated.
THEOREM OutputInOrder == Spec => []OutputOrdered
  <1>1. Init => OutputOK
    BY DEF Init, OutputOK, OutputOrdered
  <1>2. TypeOK /\ OutputOK /\ [Next]_vars => OutputOK'
    BY StepOutputOK
  <1>3. OutputOK => OutputOrdered
    BY DEF OutputOK
  <1>. QED  BY <1>1, <1>2, <1>3, TypeCorrect, PTL DEF Spec

\* For any files and statements, a compilation gives up over a file only when
\* nothing left of it can be resolved (processStatements compares two counts
\* to find out).
THEOREM GivesUpWhenStuck == Spec => []GivesUpOnlyWhenStuck
  <1>1. Init => PassTight
    BY DEF Init, PassTight, Generating
  <1>2. IInv /\ PassTight /\ [Next]_vars => PassTight'
    BY StepPassTight DEF IInv
  <1>3. IInv /\ PassTight => GivesUpOnlyWhenStuck
    BY TightGivesUp DEF IInv
  <1>. QED  BY <1>1, <1>2, <1>3, Invariant, PTL DEF Spec
=============================================================================
