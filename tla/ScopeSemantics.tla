--------------------------- MODULE ScopeSemantics ---------------------------
(***************************************************************************)
(* Variables, nested functions and closures: the statements of a small     *)
(* TypeScript, when a program of them is well formed, and what it prints.  *)
(* A variable holds a number or a function without parameters; functions   *)
(* are declared or made by a lambda, and may be called while the variables *)
(* they use outlive the blocks that declare them.                          *)
(*                                                                         *)
(* The semantics is the one the language defines, with environments and a  *)
(* store.  It is the reference the captures of the compiler (Captures) are *)
(* compared with, not code of it.                                          *)
(***************************************************************************)
EXTENDS Integers, Sequences, SequencesExt

(***************************************************************************)
(* The statements.                                                         *)
(***************************************************************************)
LetS(n, v)       == [k |-> "let", name |-> n, value |-> v]
ConstS(n, v)     == [k |-> "const", name |-> n, value |-> v]
VarS(n, v)       == [k |-> "var", name |-> n, value |-> v]
CopyS(d, n, m)   == [k |-> "copy", kind |-> d, name |-> n, from |-> m]   \* let n = m, const n = m
IncS(n)          == [k |-> "inc", name |-> n]             \* n++
PrintS(n)        == [k |-> "print", name |-> n]
CallS(n)         == [k |-> "call", name |-> n]            \* n()
FunctionS(n, b)  == [k |-> "function", name |-> n, body |-> b]
\* let n = () => { b }, const n = ..., n = ...
LambdaS(d, n, b) == [k |-> "lambda", kind |-> d, name |-> n, body |-> b]
BlockS(b)        == [k |-> "block", body |-> b]
ForS(n, b)       == [k |-> "for", name |-> n, body |-> b] \* for (let n = 0; n < 2; n++)

Turns    == 2      \* of a for loop
MaxCalls == 6      \* a program that makes more calls is not considered

(***************************************************************************)
(* What a block declares, and what a function declares with var: those     *)
(* belong to the function whatever block they are in.                      *)
(***************************************************************************)
Declares(s) == \/ s.k \in {"let", "const", "copy", "function"}
               \/ s.k = "lambda" /\ s.kind # "set"
Declared(b) == {b[i].name : i \in {i \in DOMAIN b : Declares(b[i])}}
Kind(b, n)  == LET s == b[CHOOSE i \in DOMAIN b : Declares(b[i]) /\ b[i].name = n]
               IN IF s.k \in {"lambda", "copy"} THEN s.kind ELSE s.k

RECURSIVE VarsOf(_)
VarsOf(b) == UNION {CASE b[i].k = "var"             -> {b[i].name}
                      [] b[i].k \in {"block", "for"} -> VarsOf(b[i].body)
                      [] OTHER                      -> {} : i \in DOMAIN b}

(***************************************************************************)
(* Every name is declared around its use, nothing twice in a block, and    *)
(* only let and var are assigned.  kinds maps the names in scope.          *)
(***************************************************************************)
With(kinds, names, kindOf(_)) ==
    [n \in DOMAIN kinds \cup names |-> IF n \in names THEN kindOf(n) ELSE kinds[n]]

RECURSIVE WellFormed(_, _), WellFormedStatement(_, _)

WellFormed(b, kinds) ==
    /\ \A i, j \in DOMAIN b : Declares(b[i]) /\ Declares(b[j]) /\ b[i].name = b[j].name => i = j
    /\ Declared(b) \cap VarsOf(b) = {}
    /\ LET inside == With(kinds, Declared(b), LAMBDA n : Kind(b, n))
       IN \A i \in DOMAIN b : WellFormedStatement(b[i], inside)

FunctionWellFormed(b, kinds) == WellFormed(b, With(kinds, VarsOf(b), LAMBDA n : "var"))

WellFormedStatement(s, kinds) ==
    CASE s.k = "inc"              -> s.name \in DOMAIN kinds /\ kinds[s.name] \in {"let", "var"}
      [] s.k \in {"print", "call"} -> s.name \in DOMAIN kinds
      [] s.k = "copy"             -> s.from \in DOMAIN kinds
      [] s.k = "function"         -> FunctionWellFormed(s.body, kinds)
      [] s.k = "lambda"           -> /\ s.kind = "set" => s.name \in DOMAIN kinds /\ kinds[s.name] = "let"
                                     /\ FunctionWellFormed(s.body, kinds)
      [] s.k = "block"            -> WellFormed(s.body, kinds)
      [] s.k = "for"              -> WellFormed(s.body, With(kinds, {s.name}, LAMBDA n : "const"))
      [] OTHER                    -> TRUE

(***************************************************************************)
(* Running.  An environment maps names to cells of the store.  A cell is a *)
(* hole until its declaration has been executed: its use is an error.      *)
(***************************************************************************)
Hole          == [is |-> "hole"]
Number(v)     == [is |-> "number", value |-> v]
Closure(b, e) == [is |-> "function", body |-> b, env |-> e]

Start == [store |-> <<>>, out |-> <<>>, calls |-> 0, error |-> FALSE]
Failed(m) == [m EXCEPT !.error = TRUE]

\* Names get new cells with the values given.
Place(names)     == SetToSeq(names)
Bind(env, m, ns) == [n \in DOMAIN env \cup ToSet(ns) |->
                        IF n \in ToSet(ns)
                        THEN Len(m.store) + CHOOSE i \in DOMAIN ns : ns[i] = n
                        ELSE env[n]]

\* The environment of a block: its functions are ready from the start.
EnterBlock(b, env, m) ==
    LET ns    == Place(Declared(b))
        inner == Bind(env, m, ns)
        first(n) == LET s == b[CHOOSE i \in DOMAIN b : Declares(b[i]) /\ b[i].name = n]
                    IN IF s.k = "function" THEN Closure(s.body, inner) ELSE Hole
    IN [env |-> inner,
        m   |-> [m EXCEPT !.store = @ \o [i \in DOMAIN ns |-> first(ns[i])]]]

NewCells(env, m, ns, v) ==
    [env |-> Bind(env, m, ns), m |-> [m EXCEPT !.store = @ \o [i \in DOMAIN ns |-> v]]]

RECURSIVE RunBlock(_, _, _), RunFrom(_, _, _, _), RunStatement(_, _, _), RunCall(_, _),
          RunTurns(_, _, _, _)

RunBlock(b, env, m) ==
    LET e == EnterBlock(b, env, m) IN RunFrom(b, 1, e.env, e.m)

RunFrom(b, i, env, m) ==
    IF i > Len(b) \/ m.error THEN m
    ELSE RunFrom(b, i + 1, env, RunStatement(b[i], env, m))

RunFunction(b, env, m) ==
    LET e == NewCells(env, m, Place(VarsOf(b)), Hole) IN RunBlock(b, e.env, e.m)

RunCall(f, m) ==
    IF f.is # "function" \/ m.calls = MaxCalls THEN Failed(m)
    ELSE RunFunction(f.body, f.env, [m EXCEPT !.calls = @ + 1])

\* Each turn of a for loop has a variable of its own.
RunTurns(s, turn, env, m) ==
    IF turn = Turns \/ m.error THEN m
    ELSE LET e == NewCells(env, m, <<s.name>>, Number(turn))
         IN RunTurns(s, turn + 1, env, RunBlock(s.body, e.env, e.m))

RunStatement(s, env, m) ==
    CASE s.k \in {"let", "const", "var"} -> [m EXCEPT !.store[env[s.name]] = Number(s.value)]
      [] s.k = "copy"     -> LET c == m.store[env[s.from]]
                             IN IF c.is = "hole" THEN Failed(m)
                                ELSE [m EXCEPT !.store[env[s.name]] = c]
      [] s.k = "inc"      -> LET c == m.store[env[s.name]]
                             IN IF c.is # "number" THEN Failed(m)
                                ELSE [m EXCEPT !.store[env[s.name]] = Number(c.value + 1)]
      [] s.k = "print"    -> LET c == m.store[env[s.name]]
                             IN IF c.is # "number" THEN Failed(m)
                                ELSE [m EXCEPT !.out = Append(@, c.value)]
      [] s.k = "call"     -> RunCall(m.store[env[s.name]], m)
      [] s.k = "function" -> m
      [] s.k = "lambda"   -> IF s.kind = "set" /\ m.store[env[s.name]].is = "hole" THEN Failed(m)
                             ELSE [m EXCEPT !.store[env[s.name]] = Closure(s.body, env)]
      [] s.k = "block"    -> RunBlock(s.body, env, m)
      [] s.k = "for"      -> RunTurns(s, 0, env, m)
=============================================================================
