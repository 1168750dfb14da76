------------------------ MODULE ControlFlowLowering ------------------------
(***************************************************************************)
(* Structured control flow on its way to a graph of basic blocks.          *)
(*                                                                         *)
(* MLIRGen (MLIRGen.cpp) turns statements into operations with regions and *)
(* inlines the calls that dispose `using` variables; the lowering pass     *)
(* (LowerToAffineLoops.cpp) turns those into branches, visiting an outer   *)
(* operation before the inner ones, so that what an inner loop, label or   *)
(* try records for an operation (jumps, unwind, cleanup) replaces what an  *)
(* outer one recorded.  Both are modelled together by Lower, which gives   *)
(* the graph of a statement: a function from nodes to instructions.  A     *)
(* node is <<path of the statement, copies of finally it is in, part>>.    *)
(*                                                                         *)
(* The machine then runs the graph of one program of Programs; what a call *)
(* or a test does is open, and trace keeps the effects in order.  The      *)
(* model is of the Itanium (not Windows) exception model, and of catch     *)
(* clauses that catch everything.                                          *)
(***************************************************************************)
EXTENDS StatementSemantics, TLC, FiniteSets, SequencesExt

CONSTANTS Programs,   \* the programs: sequences of statements
          MaxTests    \* how often the tests of a run may be TRUE

(***************************************************************************)
(* What the generation of a statement depends on:                          *)
(*   copy    the clones of finally regions the statement is in             *)
(*   jumps   the enclosing targets of break and continue, innermost first  *)
(*   unwind  where a call or a throw here goes (TsContext::unwind)         *)
(*   past    where one in a later block of the same region goes, see Later *)
(*   ret     where a return goes (TsContext::cleanup, or the return block) *)
(*   parent  the landing block of the enclosing try (parentTryOp)          *)
(*   scopes  the chain of GenContexts with their usingVars, innermost first*)
(*   attr    the label each loop is given, see LoopLabels                  *)
(***************************************************************************)
None    == <<"none">>
Exit    == <<"exit">>       \* the return block of the function
Unwound == <<"unwound">>    \* an exception left the function
Waiting == <<"waiting">>    \* a generator is asked for its next value
NoJump  == <<"nojump">>    \* assert(jump) in BreakOpLowering

Node(p, e, part) == <<p, e.copy, part>>
Start(p, e)      == Node(p, e, "start")
Instr(op, p, next, alt) == [op |-> op, at |-> p, next |-> next, alt |-> alt]

\* The first statement of a block at p, or k when it has none.
BlockStart(ss, p, k, e) == IF ss = <<>> THEN k ELSE Start(Append(p, 1), e)

(***************************************************************************)
(* MLIRHelper::matchLabelOrNotSet and the target of a break or continue.   *)
(***************************************************************************)
MatchLabelOrNotSet(loopLabel, opLabel) == opLabel = "" \/ loopLabel = opLabel

Jump(kind, label, e) ==
    LET hits == {i \in DOMAIN e.jumps :
                    MatchLabelOrNotSet(e.jumps[i].label, label)}
    IN IF hits = {} THEN NoJump
       ELSE LET inner == CHOOSE i \in hits : \A j \in hits : i <= j
            IN IF kind = "break" THEN e.jumps[inner].brk ELSE e.jumps[inner].cont

(***************************************************************************)
(* A clause of a switch (mlirGenSwitchCase): a single block is taken apart, *)
(* and generation stops at the first break, whatever its label.            *)
(***************************************************************************)
IsOneBlock(c) == Len(c.body) = 1 /\ c.body[1].k = "block"
CaseStatements(c) == IF IsOneBlock(c) THEN c.body[1].body ELSE c.body
CasePath(c, q)    == IF IsOneBlock(c) THEN Append(q, 1) ELSE q

Breaks(c)   == {m \in DOMAIN CaseStatements(c) : CaseStatements(c)[m].k = "break"}
HasBreak(c) == Breaks(c) # {}
Kept(c)     == LET ss == CaseStatements(c)
               IN IF HasBreak(c) THEN SubSeq(ss, 1, Min(Breaks(c)) - 1) ELSE ss

(***************************************************************************)
(* A for-in, and a for-of over an iterator, is rewritten into a for whose  *)
(* body is a block: the declaration of the variable, and the statement.    *)
(***************************************************************************)
RewrittenBody(s) ==
    IF s.k \in {"forin", "forof"}
    THEN BlockS(IF s.using THEN <<UsingS, s.body>> ELSE <<s.body>>)
    ELSE s.body

\* yield* is a for-of whose body yields what the iterator gives.
YieldStar == ForOfS(FALSE, YieldS)

(***************************************************************************)
(* The label member of MLIRGen: a labelled statement sets it and the next  *)
(* loop generated takes it.  Labels(s, p) lists labelled statements, loops *)
(* and yields in the order they are generated.                             *)
(***************************************************************************)
RECURSIVE Labels(_, _), LabelsOf(_, _)
LabelsOf(ss, p) ==
    IF ss = <<>> THEN <<>>
    ELSE LET n == Len(ss) IN LabelsOf(SubSeq(ss, 1, n - 1), p) \o Labels(ss[n], Append(p, n))
Labels(s, p) ==
    CASE s.k \in Loops -> <<<<"loop", p>>>> \o Labels(RewrittenBody(s), Append(p, 1))
      [] s.k = "yield" -> <<<<"yield", p>>>>
      [] s.k = "yield*" -> Labels(YieldStar, p)
      [] s.k = "label" -> <<<<"label", s.label>>>> \o Labels(s.body, Append(p, 1))
      [] s.k = "if"    -> Labels(s.then, Append(p, 1)) \o Labels(s.else, Append(p, 2))
      [] s.k = "block" -> LabelsOf(s.body, p)
      [] s.k = "try"   -> LabelsOf(s.body, Append(p, 1))
                          \o (IF s.catch = <<>> THEN <<>>
                              ELSE LabelsOf(s.catch[1], Append(p, 2)))
                          \o LabelsOf(s.fin, Append(p, 3))
      [] s.k = "switch" ->
             FlattenSeq([j \in DOMAIN s.cases |->
                            LabelsOf(Kept(s.cases[j]), CasePath(s.cases[j], Append(p, j)))])
      [] OTHER -> <<>>

LoopLabels(ss) ==
    LET seq == SelectSeq(LabelsOf(ss, <<>>), LAMBDA x : x[1] # "yield")
        loops == {i \in DOMAIN seq : seq[i][1] = "loop"}
        At(p) == CHOOSE i \in loops : seq[i][2] = p
    IN [p \in {seq[i][2] : i \in loops} |->
          IF At(p) > 1 /\ seq[At(p) - 1][1] = "label" THEN seq[At(p) - 1][2] ELSE ""]

\* The state labels of a generator, numbered from 1 as its yields are generated
\* and in the order SwitchStateOpLowering finds them.
StateLabels(ss) ==
    LET seq == SelectSeq(LabelsOf(ss, <<>>), LAMBDA x : x[1] = "yield")
    IN  [i \in DOMAIN seq |-> seq[i][2]]

(***************************************************************************)
(* Scopes: a block copies its GenContext, adds an empty usingVars, and the *)
(* loops generated in it set its isLoop for good; loopLabel is assigned    *)
(* after label has been emptied, so it is always "".                       *)
(***************************************************************************)
RECURSIVE HasLoop(_)
HasLoop(s) == \/ s.k \in Loops \cup {"yield*"}
              \/ s.k = "label" /\ HasLoop(s.body)
              \/ s.k = "if" /\ (HasLoop(s.then) \/ HasLoop(s.else))

NewScope(e) == [vars |-> <<>>,
                isLoop |-> e.scopes # <<>> /\ e.scopes[1].isLoop]

InLoop(scopes) == IF scopes = <<>> THEN scopes
                  ELSE <<[scopes[1] EXCEPT !.isLoop = TRUE]>> \o Tail(scopes)

\* The using variables of the first n statements of a block at p, in the
\* order registerVariable pushes them.
UsingVars(ss, p, n) ==
    LET js == SelectSeq([j \in 1..n |-> j], LAMBDA j : ss[j].k = "using")
    IN [i \in DOMAIN js |-> Append(p, js[i])]

\* The scopes the j-th statement of a block is generated in.
ScopesAt(ss, p, j, e) ==
    <<[vars |-> UsingVars(ss, p, j - 1),
       isLoop |-> e.scopes[1].isLoop \/ \E i \in 1..(j - 1) : HasLoop(ss[i])]>>
    \o Tail(e.scopes)

(***************************************************************************)
(* mlirGenDisposable: the variables a break or continue ("loop") or a      *)
(* return ("full") disposes, in order.  The recursive call passes no       *)
(* label.                                                                  *)
(***************************************************************************)
\* Mutant: a return disposes the innermost scope only.
ContinueIntoLoops(depth, scope, label) == depth = "loop" /\ scope.isLoop /\ label # ""

ContinueInto(depth, scope, label) ==
    depth = "full" \/ (depth = "loop" /\ scope.isLoop /\ label # "")

RECURSIVE Disposed(_, _, _)
Disposed(scopes, depth, label) ==
    IF scopes = <<>> THEN <<>>
    ELSE scopes[1].vars
         \o IF ContinueInto(depth, scopes[1], label)
              THEN Disposed(Tail(scopes), depth, "") ELSE <<>>

\* The calls that dispose vars, at p, and where the first of them is.
ChainStart(vars, p, part, k, e) ==
    IF vars = <<>> THEN k ELSE Node(Append(p, 1), e, part)

Chain(vars, p, part, k, e) ==
    [n \in {Node(Append(p, i), e, part) : i \in DOMAIN vars} |->
        LET i == Last(n[1])
        IN Instr("dispose", vars[i],
                 IF i < Len(vars) THEN Node(Append(p, i + 1), e, part) ELSE k,
                 e.unwind)]

(***************************************************************************)
(* The pass splits a region at every yield that is in no operation of it   *)
(* (SwitchStateOpLowering) before it comes to the try the region may be    *)
(* the body of, and a try gives a target to the calls and throws of the    *)
(* first block of its body only: it->walk, and a continue that leaves the  *)
(* do ... while (false).  What stands in a later block keeps the target    *)
(* the enclosing try has given it, if it has given one.                    *)
(***************************************************************************)
RECURSIVE Splits(_)
Splits(s) == s.k = "yield" \/ (s.k = "block" /\ \E x \in ToSet(s.body) : Splits(x))

\* After the first n statements of a block of the region.
Later(ss, n, e) ==
    IF \E i \in 1..n : Splits(ss[i]) THEN [e EXCEPT !.unwind = e.past] ELSE e

\* In a region of an operation of the region: the walk covers all of its blocks.
Inside(e) == [e EXCEPT !.past = e.unwind]

(***************************************************************************)
(* The blocks of a try statement: TryOpLowering.  The normal exit gets the *)
(* finally region itself, an exception and a return each get a clone; the  *)
(* operations of a clone are in none of the tables of the pass.            *)
(***************************************************************************)
BodyVars(s, p) == UsingVars(s.body, Append(p, 1), Len(s.body))

CloneEnv(p, tag, e) ==
    [e EXCEPT !.copy = Append(@, <<p, tag>>), !.jumps = <<>>,
              !.unwind = None, !.past = None, !.ret = Exit, !.parent = None]

ExceptionFinally(s, p, e) == BlockStart(s.fin, Append(p, 3), None, CloneEnv(p, "exc", e))
ReturnFinally(s, p, e)    == BlockStart(s.fin, Append(p, 3), None, CloneEnv(p, "ret", e))
ExitFinally(s, p, k, e)   == BlockStart(s.fin, Append(p, 3), k, e)

LandingBlock(s, p, e) ==
    CASE BodyVars(s, p) # <<>> ->
             ChainStart(BodyVars(s, p), Append(p, 1), "cleanup", None, e)
      [] s.catch # <<>>        -> Node(p, e, "catch")
      [] OTHER                 -> ExceptionFinally(s, p, e)

\* After the cleanup calls of the landing block.
AfterCleanup(s, p, e) ==
    IF s.catch # <<>> THEN Node(p, e, "catch") ELSE ExceptionFinally(s, p, e)

BodyEnv(s, p, e) ==
    LET landing == LandingBlock(s, p, e)
    IN [e EXCEPT !.unwind = IF landing = None THEN @ ELSE landing,
                 !.past   = e.unwind,
                 !.ret    = IF s.fin = <<>> THEN @ ELSE ReturnFinally(s, p, e),
                 !.parent = landing]

\* Mutant: what the catch block throws is not pointed at finally.
CatchEnvThrowsPast(s, p, e) ==
    [e EXCEPT !.past   = e.unwind,
              !.ret    = IF s.fin = <<>> THEN @ ELSE ReturnFinally(s, p, e),
              !.parent = LandingBlock(s, p, e)]

CatchEnv(s, p, e) ==
    [e EXCEPT !.unwind = IF s.fin = <<>> THEN @ ELSE ExceptionFinally(s, p, e),
              !.past   = e.unwind,
              !.ret    = IF s.fin = <<>> THEN @ ELSE ReturnFinally(s, p, e),
              !.parent = LandingBlock(s, p, e)]

(***************************************************************************)
(* Lower(s, p, k, e): the graph of s at p, going on at k.                  *)
(***************************************************************************)
RECURSIVE Lower(_, _, _, _), LowerBlock(_, _, _, _), CaseStart(_, _, _, _, _)

\* A block in a scope of its own, its using variables disposed at its end.
LowerBlock(ss, p, k, e) ==
    LET inner == [e EXCEPT !.scopes = <<NewScope(e)>> \o @]
        vars  == UsingVars(ss, p, Len(ss))
        end   == ChainStart(vars, p, "end", k, e)
        Part(j) == Lower(ss[j], Append(p, j),
                         IF j < Len(ss) THEN Start(Append(p, j + 1), e) ELSE end,
                         Later(ss, j - 1, [inner EXCEPT !.scopes = ScopesAt(ss, p, j, inner)]))
    IN FoldLeft(LAMBDA g, j : g @@ Part(j), Chain(vars, p, "end", k, Later(ss, Len(ss), e)),
                [j \in DOMAIN ss |-> j])

\* Mutant: continue goes to the body.
ContinueToBody(s, p, e) == Start(Append(p, 1), e)

\* Where continue, and the end of the body, goes: to what the loop has between two
\* iterations, or to its test.
ContinueTo(s, p, e) ==
    IF s.k \in {"while", "do"} THEN Node(p, e, "test") ELSE Node(p, e, "incr")

\* The increment of a for, the one of the hidden index of a for-in, and the call of
\* next of a for-of, which is also its initializer.
Increment(s, p, e) ==
    CASE s.k = "forof" -> Instr("next", p, Node(p, e, "test"), e.unwind)
      [] s.k = "forin" -> Instr("branch", p, Node(p, e, "test"), None)
      [] s.k \in {"while", "do", "for"} -> Instr("incr", p, Node(p, e, "test"), None)

LowerLoop(s, p, k, e) ==
    LET test == Node(p, e, "test")
        init == Node(p, e, "init")
        body == Append(p, 1)
        env  == [e EXCEPT !.jumps = <<[label |-> e.attr[p], brk |-> k,
                                       cont |-> ContinueTo(s, p, e)]>> \o @,
                          !.past = e.unwind, !.scopes = InLoop(@)]
        first == CASE s.k = "do" -> Start(body, e) [] s.k = "forof" -> init
                   [] s.k \in {"while", "for", "forin"} -> test
    IN  (Start(p, e) :> Instr("branch", p, first, None))
        @@ (init :> Increment(s, p, e))
        @@ (test :> Instr("test", p, Start(body, e), k))
        @@ (Node(p, e, "incr") :> Increment(s, p, e))
        @@ Lower(RewrittenBody(s), body, ContinueTo(s, p, e), env)

LowerTry(s, p, k, e) ==
    LET exit  == ExitFinally(s, p, k, e)
        exc   == CloneEnv(p, "exc", e)
        ret   == CloneEnv(p, "ret", e)
        again == Node(p, e, "rethrow")
        body  == Append(p, 1)
        cat   == Append(p, 2)
        fin   == Append(p, 3)
    IN  (Start(p, e) :> Instr("branch", p, BlockStart(s.body, body, exit, e), None))
        @@ LowerBlock(s.body, body, exit, BodyEnv(s, p, e))
        @@ Chain(BodyVars(s, p), body, "cleanup", AfterCleanup(s, p, e), e)
        @@ (IF s.catch = <<>> THEN <<>>
            ELSE (Node(p, e, "catch") :>
                    Instr("catch", p, BlockStart(s.catch[1], cat, exit, e), None))
                 @@ LowerBlock(s.catch[1], cat, exit, CatchEnv(s, p, e)))
        @@ LowerBlock(s.fin, fin, k, [Inside(e) EXCEPT !.parent = LandingBlock(s, p, e)])
        @@ LowerBlock(s.fin, fin, again, exc)
        @@ LowerBlock(s.fin, fin, Exit, ret)
        @@ (again :> Instr("raise", p, None, e.parent))

(***************************************************************************)
(* A switch: a chain of tests, and the bodies of the clauses, linked while *)
(* they are generated by pendingConditions, pendingBranches and the block  *)
(* of the default clause.  k is the merge block.                           *)
(***************************************************************************)
\* Where clause j goes at its end: pendingBranches has it when it neither
\* breaks nor is the default, and the next body, if any, then sets it.
CaseEnd(cs, p, j, k, e) ==
    IF HasBreak(cs[j]) \/ cs[j].default \/ j = Len(cs) THEN k
    ELSE CaseStart(cs, p, j + 1, k, e)

CaseStart(cs, p, j, k, e) ==
    IF Kept(cs[j]) = <<>> THEN CaseEnd(cs, p, j, k, e)
    ELSE Start(Append(CasePath(cs[j], Append(p, j)), 1), e)

\* The next test at or after clause j, or what follows when all have failed.
TestFrom(cs, p, j, k, e) ==
    LET tests    == {i \in j..Len(cs) : ~cs[i].default}
        defaults == {i \in DOMAIN cs : cs[i].default}
    IN CASE tests # {}    -> Start(Append(p, Min(tests)), e)
         [] defaults # {} -> CaseStart(cs, p, Max(defaults), k, e)
         [] OTHER         -> k

\* The statements of clause j; they share one GenContext with the clauses
\* before it, and with it the isLoop that a loop in one of them has set.
LowerClause(cs, p, j, k, e) ==
    LET ss == Kept(cs[j])
        q  == CasePath(cs[j], Append(p, j))
        looped(m) == \/ \E i \in 1..(j - 1) : \E s \in ToSet(Kept(cs[i])) : HasLoop(s)
                     \/ \E i \in 1..(m - 1) : HasLoop(ss[i])
        Part(m) == Lower(ss[m], Append(q, m),
                         IF m < Len(ss) THEN Start(Append(q, m + 1), e)
                         ELSE CaseEnd(cs, p, j, k, e),
                         IF looped(m) THEN [Inside(e) EXCEPT !.scopes = InLoop(@)] ELSE Inside(e))
    IN FoldLeft(LAMBDA g, m : g @@ Part(m), <<>>, [m \in DOMAIN ss |-> m])

LowerSwitch(s, p, k, e) ==
    LET cs == s.cases
        test(j) == Instr("test", Append(p, j), CaseStart(cs, p, j, k, e),
                         TestFrom(cs, p, j + 1, k, e))
    IN  (Start(p, e) :> Instr("branch", p, TestFrom(cs, p, 1, k, e), None))
        @@ [n \in {Start(Append(p, j), e) : j \in {i \in DOMAIN cs : ~cs[i].default}} |->
               test(Last(n[1]))]
        @@ FoldLeft(LAMBDA g, j : g @@ LowerClause(cs, p, j, k, e), <<>>,
                    [j \in DOMAIN cs |-> j])

Lower(s, p, k, e) ==
    LET n == Start(p, e)
    IN CASE s.k = "call"   -> n :> Instr("call", p, k, e.unwind)
         [] s.k = "throw"  -> n :> Instr("throw", p, None, e.unwind)
         [] s.k = "using"  -> n :> Instr("create", p, k, None)
         \* Store the state, return, and a label to come back to.
         [] s.k = "yield"  -> (n :> Instr("yield", p, None, None))
                              @@ (Node(p, e, "label") :> Instr("branch", p, k, None))
         [] s.k = "return" ->
              LET vars == Disposed(e.scopes, "full", "")
              IN (n :> Instr("return", p, ChainStart(vars, p, "leave", e.ret, e), None))
                 @@ Chain(vars, p, "leave", e.ret, e)
         [] s.k \in {"break", "continue"} ->
              LET vars == Disposed(e.scopes, "loop", s.label)
                  to   == Jump(s.k, s.label, e)
              IN (n :> Instr("branch", p, ChainStart(vars, p, "leave", to, e), None))
                 @@ Chain(vars, p, "leave", to, e)
         [] s.k = "if" ->
              (n :> Instr("test", p, Start(Append(p, 1), e), Start(Append(p, 2), e)))
              @@ Lower(s.then, Append(p, 1), k, Inside(e))
              @@ Lower(s.else, Append(p, 2), k, Inside(e))
         [] s.k = "block" ->
              (n :> Instr("branch", p, BlockStart(s.body, p, k, e), None))
              @@ LowerBlock(s.body, p, k, e)
         [] s.k = "yield*" -> LowerLoop(YieldStar, p, k, e)
         [] s.k \in Loops -> LowerLoop(s, p, k, e)
         [] s.k = "label" ->
              (n :> Instr("branch", p, Start(Append(p, 1), e), None))
              @@ Lower(s.body, Append(p, 1), k,
                   IF s.body.k \in Loops THEN e
                   ELSE [Inside(e) EXCEPT !.jumps = <<[label |-> s.label, brk |-> k,
                                     cont |-> Start(Append(p, 1), e)]>> \o @])
         [] s.k = "try"    -> LowerTry(s, p, k, e)
         [] s.k = "switch" -> LowerSwitch(s, p, k, e)

\* A function: its return block, no enclosing try, the scope of its body.
LowerFunction(ss) ==
    LowerBlock(ss, <<>>, Exit,
        [copy |-> <<>>, jumps |-> <<>>, unwind |-> None, past |-> None, ret |-> Exit,
         parent |-> None, scopes |-> <<>>, attr |-> LoopLabels(ss)])

-----------------------------------------------------------------------------
(***************************************************************************)
(* The run of a program: one action per kind of instruction.               *)
(***************************************************************************)
VARIABLES prog,   \* the program that runs
          graph,  \* what the compiler made of it
          cases,  \* its state labels, if it is a generator
          pc,     \* the node to execute
          step,   \* the .step field of the generator's object
          trace   \* the effects so far

vars == <<prog, graph, cases, pc, step, trace>>

First(ss) == BlockStart(ss, <<>>, Exit, [copy |-> <<>>])

Init == /\ prog \in Programs
        /\ graph = LowerFunction(prog)
        /\ cases = StateLabels(prog)
        /\ pc = IF cases = <<>> THEN First(prog) ELSE Waiting
        /\ step = 0
        /\ trace = <<>>

Finished == pc \in {Exit, Unwound, NoJump}
Suspended == pc = Waiting
Here     == graph[pc]
Effect(kind, outcome) == trace' = Append(trace, <<kind, Here.at, outcome>>)
Executes(op) == ~Finished /\ ~Suspended /\ Here.op = op

\* Where an exception goes from here: to the landing block, or out.
Raised == IF Here.alt = None THEN Unwound ELSE Here.alt

\* A call that returns, and one that throws (InvokeOp, or a plain call).
Call == /\ \E op \in {"call", "next"} :
              /\ Executes(op)
              /\ \/ Effect(op, TRUE) /\ pc' = Here.next
                 \/ Effect(op, FALSE) /\ pc' = Raised
        /\ UNCHANGED <<prog, graph, cases, step>>

Throw == /\ Executes("throw")
         /\ Effect("throw", TRUE)
         /\ pc' = Raised
         /\ UNCHANGED <<prog, graph, cases, step>>

\* The end of the clone of finally an exception goes through: EndCleanupOp
\* resumes unwinding, or a throw to the landing block of the enclosing try.
Raise == /\ Executes("raise")
         /\ pc' = Raised
         /\ UNCHANGED <<prog, graph, cases, step, trace>>

\* BeginCatchOp and CatchOp.
Catch == /\ Executes("catch")
         /\ Effect("catch", TRUE)
         /\ pc' = Here.next
         /\ UNCHANGED <<prog, graph, cases, step>>

Test == /\ Executes("test")
        /\ \/ /\ Cardinality({i \in DOMAIN trace : trace[i][1] = "test" /\ trace[i][3]})
                   < MaxTests
              /\ Effect("test", TRUE)
              /\ pc' = Here.next
           \/ Effect("test", FALSE) /\ pc' = Here.alt
        /\ UNCHANGED <<prog, graph, cases, step>>

\* The effects of a statement that cannot go anywhere else.
Step == /\ \E op \in {"return", "create", "dispose", "incr"} :
             Executes(op) /\ Effect(op, TRUE)
        /\ pc' = Here.next
        /\ UNCHANGED <<prog, graph, cases, step>>

Branch == /\ Executes("branch")
          /\ pc' = Here.next
          /\ UNCHANGED <<prog, graph, cases, step, trace>>

\* YieldReturnValOp: the next method returns, with step telling where it was.
Yield == /\ Executes("yield")
         /\ Effect("yield", TRUE)
         /\ step' = CHOOSE i \in DOMAIN cases : cases[i] = Here.at
         /\ pc' = Waiting
         /\ UNCHANGED <<prog, graph, cases>>

\* The next method is called, until it has no more values, and switches to its state.
\* A label is in the block itself, not in one of the clones made of it later.
Resume == /\ Suspended
          /\ pc' = IF step = 0 THEN First(prog)
                   ELSE <<cases[step], <<>>, "label">>
          /\ UNCHANGED <<prog, graph, cases, step, trace>>

Terminated == Finished /\ UNCHANGED vars

Next == Call \/ Throw \/ Raise \/ Catch \/ Test \/ Step \/ Branch \/ Yield \/ Resume \/ Terminated

Spec == Init /\ [][Next]_vars /\ WF_vars(Next)

-----------------------------------------------------------------------------
(***************************************************************************)
(* Properties.                                                             *)
(***************************************************************************)
\* What the lowered program does, the source may do: no effect out of order,
\* skipped or repeated, however breaks, continues, returns and exceptions
\* cross loops, labels, finally blocks and scopes with using variables, and
\* wherever a generator has stopped between two values; and
\* when it ends, it completes as the source does (LowerToAffineLoops.cpp,
\* all of the structured operations, with the disposal of MLIRGen.cpp).
FollowsSource ==
    LET r == RunFunction(BlockS(prog), trace)
    IN CASE pc = Exit    -> r.c \in {"normal", "return"} /\ r.i = Len(trace) + 1
         [] pc = Unwound -> r.c = "throw" /\ r.i = Len(trace) + 1
         [] pc = NoJump  -> FALSE
         [] OTHER        -> r.c # "bad"

Count(kind, p) == Cardinality({i \in DOMAIN trace : trace[i][1] = kind /\ trace[i][2] = p})
Within(i, p)   == IsPrefix(p, trace[i][2])

\* When the function has been left, every value a using declaration created
\* has been disposed once (mlirGenDisposable and the cleanup region of try).
DisposedOnce ==
    pc \in {Exit, Unwound} =>
        \A i \in DOMAIN trace :
            LET p == trace[i][2]
            IN trace[i][1] \in {"create", "dispose"} => Count("create", p) = Count("dispose", p)

\* The tries of a program that have a finally block.
RECURSIVE Finallies(_, _)
FinalliesOf(ss, p) == UNION {Finallies(ss[j], Append(p, j)) : j \in DOMAIN ss}
Finallies(s, p) ==
    CASE s.k \in Loops \cup {"label"} -> Finallies(s.body, Append(p, 1))
      [] s.k = "if"    -> Finallies(s.then, Append(p, 1)) \cup Finallies(s.else, Append(p, 2))
      [] s.k = "block" -> FinalliesOf(s.body, p)
      [] s.k = "try"   -> FinalliesOf(s.body, Append(p, 1))
                          \cup (IF s.catch = <<>> THEN {}
                                ELSE FinalliesOf(s.catch[1], Append(p, 2)))
                          \cup FinalliesOf(s.fin, Append(p, 3))
                          \cup (IF s.fin = <<>> THEN {} ELSE {p})
      [] s.k = "switch" ->
             UNION {FinalliesOf(s.cases[j].body, Append(p, j)) : j \in DOMAIN s.cases}
      [] OTHER -> {}

\* When the function has been left, a finally block has run after whatever
\* its try body or catch block did, on every way out of them.
FinallyRuns ==
    pc \in {Exit, Unwound} =>
        \A p \in FinalliesOf(prog, <<>>), i \in DOMAIN trace :
            Within(i, Append(p, 1)) \/ Within(i, Append(p, 2))
              => \E j \in (i + 1)..Len(trace) : Within(j, Append(p, 3))

\* A run of a program with bounded tests reaches the end of the function: no
\* branch, landing block or clone of finally leads back to itself.
Terminates == <>Finished
=============================================================================
