---------------------------- MODULE MCControlFlow ----------------------------
(***************************************************************************)
(* Programs for ControlFlowLowering: every program of a bounded shape that *)
(* is Supported, and single programs on which the code and what its tests  *)
(* assert disagree.                                                        *)
(***************************************************************************)
EXTENDS ControlFlowLowering

(***************************************************************************)
(* The programs whose lowering is faithful.  c says where a statement is:  *)
(*   labels   the labels in use                                            *)
(*   jumps    the targets in reach, innermost first, with the number of    *)
(*            scopes around them                                           *)
(*   scopes   whether the scopes around it hold using variables, innermost *)
(*            first                                                        *)
(*   throws   an exception may leave the statement                         *)
(*   late     and may do so after a yield of the same region: no, in the   *)
(*            body of a try, since it would pass the handlers of the try   *)
(*   returns  the function may be left from it                             *)
(*   case     the innermost construct a break could leave is a switch      *)
(*   yields   a generator may stop in it                                   *)
(*   try, finally, handler   it is in some try; in the body or catch of    *)
(*            one with a finally; directly in the catch or finally of one  *)
(***************************************************************************)
Outermost == [labels |-> {}, jumps |-> <<>>, scopes |-> <<>>, throws |-> TRUE, late |-> TRUE,
              returns |-> TRUE, yields |-> TRUE, case |-> FALSE, try |-> FALSE, finally |-> FALSE, handler |-> FALSE]

\* A jump finds a loop (or the block it names), and the scopes it leaves
\* are those mlirGenDisposable disposes: one, or two when it has a label.
JumpSupported(kind, label, c) ==
    \E t \in DOMAIN c.jumps :
        LET left == Len(c.scopes) - c.jumps[t].depth
        IN /\ MatchLabelOrNotSet(c.jumps[t].label, label)
           /\ \A u \in 1..(t - 1) : ~MatchLabelOrNotSet(c.jumps[u].label, label)
           /\ c.jumps[t].loop \/ (label # "" /\ kind = "break")
           /\ \A i \in DOMAIN c.scopes : c.scopes[i] =>
                 /\ i <= left <=> i <= IF label = "" THEN 1 ELSE 2
                 /\ c.jumps[t].loop \/ i > 2

\* The clauses of a switch keep their break, and a default clause that is
\* not the last one does not fall through.
Leaves(c) == \/ HasBreak(c)
             \/ Kept(c) # <<>> /\ Last(Kept(c)).k \in {"return", "throw", "continue"}

ClausesSupported(cs) ==
    \A j \in DOMAIN cs :
        /\ cs[j].default => j = Len(cs) \/ Leaves(cs[j])
        /\ HasBreak(cs[j]) => CaseStatements(cs[j])[Min(Breaks(cs[j]))].label = ""
        /\ \A x \in ToSet(Kept(cs[j])) : x.k # "using"

RECURSIVE Supported(_, _), SupportedBlock(_, _, _)

\* Only the block of a try disposes what it holds when an exception leaves.
SupportedBlock(ss, c, tryBlock) ==
    \A j \in DOMAIN ss :
        LET holds == \E i \in 1..(j - 1) : ss[i].k = "using"
            split == \E i \in 1..(j - 1) : Splits(ss[i])
        IN /\ tryBlock /\ ss[j].k = "using" => j = 1
           /\ Supported(ss[j], [c EXCEPT !.scopes = <<holds>> \o @,
                                         !.throws = @ /\ (holds => tryBlock) /\ (split => c.late)])

Supported(s, c) ==
    CASE s.k \in {"call", "throw"}     -> c.throws
      [] s.k = "yield"                 -> c.yields
      [] s.k = "yield*"                -> c.yields /\ c.throws
      [] s.k = "return"                -> c.returns
      [] s.k = "using"                 -> TRUE
      [] s.k \in {"break", "continue"} ->
           /\ s.k = "break" /\ c.case => s.label # ""
           /\ JumpSupported(s.k, s.label, c)
      [] s.k = "if"    -> /\ Supported(s.then, [c EXCEPT !.late = TRUE])
                          /\ Supported(s.else, [c EXCEPT !.late = TRUE])
      [] s.k = "block" -> SupportedBlock(s.body, c, FALSE)
      [] s.k \in Loops ->
           /\ s.k = "forof" => c.throws
           /\ Supported(RewrittenBody(s), [c EXCEPT !.case = FALSE, !.late = TRUE, !.jumps =
                  <<[label |-> "", loop |-> TRUE, depth |-> Len(c.scopes)]>> \o @])
      [] s.k = "label" ->
           LET loop  == s.body.k \in Loops
               inner == [c EXCEPT !.labels = @ \cup {s.label}, !.late = TRUE,
                                  !.jumps = <<[label |-> s.label, loop |-> loop,
                                               depth |-> Len(c.scopes)]>> \o @]
           IN /\ s.label \notin c.labels
              /\ s.body.k = "forof" => c.throws
              /\ IF loop THEN Supported(RewrittenBody(s.body), [inner EXCEPT !.case = FALSE])
                 \* The first loop of a labelled block would take the label.
                 ELSE /\ Supported(s.body, inner)
                      /\ \A x \in ToSet(Labels(s.body, <<>>)) : x[1] # "loop"
      [] s.k = "switch" ->
           /\ ClausesSupported(s.cases)
           /\ \A j \in DOMAIN s.cases : \A x \in ToSet(Kept(s.cases[j])) :
                  Supported(x, [c EXCEPT !.case = TRUE, !.late = TRUE])
      [] s.k = "try" ->
           LET fin   == s.fin # <<>>
               owns  == \E i \in DOMAIN c.scopes : c.scopes[i]
               inner == [c EXCEPT
                          !.try     = TRUE,
                          !.finally = @ \/ fin,
                          !.jumps   = IF fin THEN <<>> ELSE @,
                          !.returns = @ /\ (fin => ~c.finally /\ ~owns)]
           IN /\ fin => ~c.handler
              /\ SupportedBlock(s.body,
                     [inner EXCEPT !.handler = FALSE, !.late = FALSE,
                                   !.throws = @ \/ s.catch # <<>>], TRUE)
              /\ s.catch # <<>> =>
                     SupportedBlock(s.catch[1], [inner EXCEPT !.handler = TRUE, !.late = TRUE, !.yields = FALSE], FALSE)
              /\ SupportedBlock(s.fin,
                     [c EXCEPT !.jumps = <<>>, !.handler = TRUE, !.try = TRUE, !.late = TRUE,
                               !.yields = FALSE,
                               !.throws = @ /\ ~c.try, !.returns = @ /\ ~c.try], FALSE)

SupportedFunction(ss) == SupportedBlock(ss, Outermost, FALSE)

(***************************************************************************)
(* The shapes: a simple statement in two levels of blocks, with every kind *)
(* of handler around each of them.                                         *)
(***************************************************************************)
Peek == IfS(Nothing, Nothing)    \* an effect that cannot throw

Jumps  == {CallS, ThrowS, BreakS(""), ContinueS(""), BreakS("l"), ContinueS("l")}
Simple == Jumps \cup {ReturnS, IfS(BreakS(""), ReturnS)}

Handled(C, F) == {h \in C \X F : h # <<<<>>, <<>>>>}
Handlers == Handled({<<>>, <<<<CallS>>>>, <<<<ThrowS>>>>, <<<<ReturnS>>>>, <<<<BreakS("")>>>>},
                    {<<>>, <<CallS>>, <<Peek>>, <<ReturnS>>})

Blocks(S) == {<<s>> : s \in S} \cup {<<UsingS, s>> : s \in S} \cup {<<s, Peek>> : s \in S}

\* A clause that falls into one that breaks; a default clause ahead of the
\* cases, ended by a break; a case after the default clause and an empty one.
Falling(b)   == SwitchS(<<CaseC(b), CaseC(<<BlockS(<<Peek, BreakS("")>>)>>), DefaultC(<<Peek>>)>>)
Defaulted(b) == SwitchS(<<DefaultC(Append(b, BreakS(""))), CaseC(<<>>), CaseC(<<Peek>>)>>)
Trailing(b)  == SwitchS(<<CaseC(<<>>), DefaultC(<<Peek, BreakS("")>>), CaseC(b)>>)

Wrapped(kind, h, b) ==
    CASE kind = "falling" -> Falling(b) [] kind = "defaulted" -> Defaulted(b) [] kind = "trailing" -> Trailing(b)
      [] kind = "while" -> WhileS(BlockS(b)) [] kind = "do" -> DoS(BlockS(b)) [] kind = "for" -> ForS(BlockS(b))
      [] kind = "forin" -> ForInS(BlockS(b)) [] kind = "forof" -> ForOfS(FALSE, BlockS(b))
      [] kind = "for using" -> ForOfS(TRUE, BlockS(b))
      [] kind = "labelled while" -> LabelS("l", WhileS(BlockS(b))) [] kind = "labelled" -> LabelS("l", BlockS(b))
      [] kind = "block" -> BlockS(b) [] kind = "try" -> TryS(b, h[1], h[2])
Kinds  == {"falling", "defaulted", "trailing", "while", "do", "for", "forin", "forof", "labelled while", "labelled", "block"}

Around(B, K, H) == {Wrapped(w[1], w[2], b) : w \in (K \X {<<<<>>, <<>>>>}) \cup ({"try"} \X H), b \in B}

One == Around(Blocks(Simple), Kinds, Handlers)
Two(inner) == Around(Blocks(inner), Kinds \cup {"for using"}, Handlers)

\* Generators: a yield next to a jump or a call, or a yield*, in two levels of
\* statements, with a yield between them; nothing returns.
Quiet      == Handled({<<>>, <<<<CallS>>>>, <<<<ThrowS>>>>}, {<<>>, <<CallS>>, <<Peek>>})
Yielding  == {<<YieldS, s>> : s \in Jumps} \cup {<<IfS(BreakS(""), Nothing), YieldS>>, <<CallS, YieldS>>, <<YieldAllS>>}
Generators == {<<s>> : s \in Around({<<s, YieldS>> : s \in Around(Yielding, Kinds, Quiet)}, Kinds, Quiet)}

(***************************************************************************)
(* Functions of the repository's tests: test_label and test_while_labeled  *)
(* of 00break_continue.ts, func of 02disposable.ts, func1 and func2 of     *)
(* 00try_finally_return.ts, test1 and test4 of 00switch.ts, testIt of      *)
(* 34switch.ts.                                                            *)
(***************************************************************************)
TestFunctions ==
    {<<LabelS("l", BlockS(<<IfS(Nothing, BreakS("l")), ContinueS("l")>>))>>,
     <<LabelS("l", WhileS(BlockS(<<WhileS(BlockS(<<
           IfS(BlockS(<<BreakS("l")>>), IfS(BlockS(<<BreakS("")>>), Nothing))>>))>>)))>>,
     <<UsingS, LabelS("l", WhileS(BlockS(<<UsingS,
           WhileS(BlockS(<<UsingS, ContinueS("l")>>))>>)))>>,
     <<TryS(<<CallS, ReturnS>>, <<>>, <<Peek>>), Peek>>,
     <<TryS(<<CallS, IfS(ReturnS, Nothing)>>, <<<<ThrowS>>>>, <<Peek>>), ReturnS>>,
     <<ForS(BlockS(<<CallS, SwitchS(<<CaseC(<<CallS>>), CaseC(<<>>),
           CaseC(<<CallS, CallS, BreakS("")>>), CaseC(<<CallS, BreakS("")>>),
           DefaultC(<<CallS, BreakS("")>>)>>)>>))>>,
     <<SwitchS(<<DefaultC(<<BlockS(<<CallS, BreakS("")>>)>>)>>)>>,
     <<CallS, SwitchS(<<CaseC(<<ReturnS>>), DefaultC(<<ReturnS>>),
                        CaseC(<<ReturnS>>), CaseC(<<ReturnS>>)>>)>>}

AllSupported(S) == {ss \in S : SupportedFunction(ss)}

SupportedPrograms ==
    TestFunctions \cup AllSupported(Blocks(One))
    \cup AllSupported({<<s>> : s \in Two(One)}) \cup AllSupported(Generators)

(***************************************************************************)
(* A return inside two tries with finally blocks.                          *)
(***************************************************************************)
NestedReturn == {<<TryS(<<TryS(<<Peek, ReturnS>>, <<>>, <<Peek>>)>>, <<>>, <<Peek>>)>>}
=============================================================================
