------------------------- MODULE StatementSemantics -------------------------
(***************************************************************************)
(* The statements of TypeScript whose order of effects the compiler has to *)
(* preserve, and what a program made of them may do.  A statement is a     *)
(* record; the part of a program an effect comes from is named by its path *)
(* in the tree, so no identifiers are needed.  An effect is a triple       *)
(* <<kind, path, outcome>>.                                                *)
(*                                                                         *)
(* The semantics is the one the language defines: Run replays a trace of   *)
(* effects against the statement and says how far the trace conforms and   *)
(* how the statement completes.  It is the reference the lowering of the   *)
(* compiler (ControlFlowLowering) is compared with, not code of it.        *)
(***************************************************************************)
EXTENDS Integers, Sequences

(***************************************************************************)
(* The statements.                                                         *)
(***************************************************************************)
CallS          == [k |-> "call"]              \* a call, which may throw
ThrowS         == [k |-> "throw"]
ReturnS        == [k |-> "return"]
UsingS         == [k |-> "using"]             \* using x = ...
BreakS(l)      == [k |-> "break", label |-> l]
ContinueS(l)   == [k |-> "continue", label |-> l]
IfS(a, b)      == [k |-> "if", then |-> a, else |-> b]
BlockS(ss)     == [k |-> "block", body |-> ss]
WhileS(s)      == [k |-> "while", body |-> s]
DoS(s)         == [k |-> "do", body |-> s]
ForS(s)        == [k |-> "for", body |-> s]
YieldS         == [k |-> "yield"]             \* in a generator
YieldAllS      == [k |-> "yield*"]            \* yield* of an iterator
\* for (x in ...) and for (x of ...) over an iterator; u: using x of ...
ForInS(s)      == [k |-> "forin", using |-> FALSE, body |-> s]
ForOfS(u, s)   == [k |-> "forof", using |-> u, body |-> s]
LabelS(l, s)   == [k |-> "label", label |-> l, body |-> s]
\* catch == <<>> stands for no catch clause; a catch clause is <<block>>.
TryS(b, c, f)  == [k |-> "try", body |-> b, catch |-> c, fin |-> f]

\* The clauses of a switch, each with the statements that follow it.
CaseC(ss)      == [default |-> FALSE, body |-> ss]
DefaultC(ss)   == [default |-> TRUE, body |-> ss]
SwitchS(cs)    == [k |-> "switch", cases |-> cs]

Nothing == BlockS(<<>>)
Loops   == {"while", "do", "for", "forin", "forof"}

(***************************************************************************)
(* How a statement completes after the first i - 1 effects of a trace:     *)
(* "more" when the trace ends inside it, "bad" when the next effect of the *)
(* trace is not one the statement may have there.                          *)
(***************************************************************************)
Done(i, c, l) == [i |-> i, c |-> c, label |-> l]
Normal(i)     == Done(i, "normal", "")

Expect(kind, p, t, i) ==
    IF i > Len(t) THEN Done(i, "more", "")
    ELSE IF t[i][1] = kind /\ t[i][2] = p THEN Normal(i + 1)
    ELSE Done(i, "bad", "")

Stuck(r) == r.c \in {"more", "bad"}

\* A call, which may throw.
Attempt(kind, p, t, i) ==
    LET r == Expect(kind, p, t, i)
    IN  IF Stuck(r) \/ t[i][3] THEN r ELSE [r EXCEPT !.c = "throw"]

\* The completion c of a statement followed by one effect it always has.
Lastly(r, kind, p, t) ==
    IF Stuck(r) THEN r
    ELSE LET d == Expect(kind, p, t, r.i)
         IN IF Stuck(d) THEN d ELSE [r EXCEPT !.i = d.i]

RECURSIVE Run(_, _, _, _, _), RunSeq(_, _, _, _, _), RunLoop(_, _, _, _, _, _),
          RunClauses(_, _, _, _, _), RunTests(_, _, _, _, _), RunIteration(_, _, _, _)

\* One iteration; a for-in or for-of has a variable of its own in each, which a
\* using disposes at the end of it.
RunIteration(s, p, t, i) ==
    LET q == Append(p, 1)
        bound == RunSeq(IF s.using THEN <<UsingS, s.body>> ELSE <<s.body>>, q, 1, t, i)
    IN  IF s.k \in {"forin", "forof"} THEN bound ELSE Run(s.body, q, {}, t, i)

\* A loop from its test on; ls are the labels of the loop.  A for-of asks its
\* iterator for the next value before each test.
RunLoop(s, p, ls, t, i, tested) ==
    LET next == IF s.k = "forof" THEN Attempt("next", p, t, i) ELSE Normal(i)
        test == IF tested \/ next.c # "normal" THEN next ELSE Expect("test", p, t, next.i)
    IN  IF test.c # "normal" THEN test
        ELSE IF ~tested /\ ~t[next.i][3] THEN Normal(test.i)
        ELSE LET r == RunIteration(s, p, t, test.i)
                 mine == r.label = "" \/ r.label \in ls
             IN  IF r.c = "break" /\ mine THEN Normal(r.i)
                 ELSE IF r.c = "normal" \/ (r.c = "continue" /\ mine)
                   THEN LET n == IF s.k = "for" THEN Expect("incr", p, t, r.i)
                                 ELSE Normal(r.i)
                        IN IF Stuck(n) THEN n
                           ELSE RunLoop(s, p, ls, t, n.i, FALSE)
                 ELSE r

\* The statements of ss from the j-th on.  What a using declares is disposed
\* when the rest of its block completes, in whichever way it does.
RunSeq(ss, p, j, t, i) ==
    IF j > Len(ss) THEN Normal(i)
    ELSE LET q == Append(p, j)
             r == Run(ss[j], q, {}, t, i)
             rest == RunSeq(ss, p, j + 1, t, r.i)
         IN  IF r.c # "normal" THEN r
             ELSE IF ss[j].k = "using" THEN Lastly(rest, "dispose", q, t)
             ELSE rest

\* The clauses cs of a switch from the j-th on: each falls into the next.
RunClauses(cs, p, j, t, i) ==
    IF j > Len(cs) THEN Normal(i)
    ELSE LET r == RunSeq(cs[j].body, Append(p, j), 1, t, i)
         IN IF r.c # "normal" THEN r ELSE RunClauses(cs, p, j + 1, t, r.i)

\* The tests of the cases from the j-th clause on; when all of them fail the
\* default clause is entered, wherever it stands.
RunTests(cs, p, j, t, i) ==
    IF j > Len(cs)
      THEN IF \E d \in DOMAIN cs : cs[d].default
             THEN RunClauses(cs, p, CHOOSE d \in DOMAIN cs : cs[d].default, t, i)
             ELSE Normal(i)
    ELSE IF cs[j].default THEN RunTests(cs, p, j + 1, t, i)
    ELSE LET r == Expect("test", Append(p, j), t, i)
         IN IF Stuck(r) THEN r
            ELSE IF t[i][3] THEN RunClauses(cs, p, j, t, r.i)
            ELSE RunTests(cs, p, j + 1, t, r.i)

Run(s, p, ls, t, i) ==
    CASE s.k = "call"  -> Attempt("call", p, t, i)
      [] s.k = "yield" -> Expect("yield", p, t, i)
      [] s.k = "yield*" -> RunLoop(ForOfS(FALSE, YieldS), p, {}, t, i, FALSE)
      [] s.k = "throw" ->
           LET r == Expect("throw", p, t, i)
           IN IF Stuck(r) THEN r ELSE [r EXCEPT !.c = "throw"]
      [] s.k = "return" ->
           LET r == Expect("return", p, t, i)
           IN IF Stuck(r) THEN r ELSE [r EXCEPT !.c = "return"]
      [] s.k = "using" -> Expect("create", p, t, i)
      [] s.k \in {"break", "continue"} -> Done(i, s.k, s.label)
      [] s.k = "if" ->
           LET r == Expect("test", p, t, i)
           IN IF Stuck(r) THEN r
              ELSE IF t[i][3] THEN Run(s.then, Append(p, 1), {}, t, r.i)
              ELSE Run(s.else, Append(p, 2), {}, t, r.i)
      [] s.k = "block" -> RunSeq(s.body, p, 1, t, i)
      [] s.k \in Loops -> RunLoop(s, p, ls, t, i, s.k = "do")
      [] s.k = "switch" ->
           LET r == RunTests(s.cases, p, 1, t, i)
           IN IF r.c = "break" /\ r.label = "" THEN Normal(r.i) ELSE r
      [] s.k = "label" ->
           LET r == Run(s.body, Append(p, 1), ls \cup {s.label}, t, i)
               mine == r.label = s.label /\ s.body.k \notin Loops \cup {"label"}
           IN IF r.c = "break" /\ mine THEN Normal(r.i)
              \* Only this compiler accepts it: the labelled block again.
              ELSE IF r.c = "continue" /\ mine THEN Run(s, p, ls, t, r.i)
              ELSE r
      [] s.k = "try" ->
           LET b == RunSeq(s.body, Append(p, 1), 1, t, i)
               entered == Expect("catch", p, t, b.i)
               r == IF b.c = "throw" /\ s.catch # <<>>
                      THEN IF Stuck(entered) THEN entered
                           ELSE RunSeq(s.catch[1], Append(p, 2), 1, t, entered.i)
                      ELSE b
               f == RunSeq(s.fin, Append(p, 3), 1, t, r.i)
           IN IF Stuck(r) THEN r
              ELSE IF f.c = "normal" THEN [r EXCEPT !.i = f.i]
              ELSE f

\* A function whose body is the block s.
RunFunction(s, t) == Run(s, <<>>, {}, t, 1)
=============================================================================
