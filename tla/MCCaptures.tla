------------------------------- MODULE MCCaptures ------------------------------
(***************************************************************************)
(* Files with a function main: a variable x, three statements, and the     *)
(* variable printed.  x and y are variables, f and g functions, k a        *)
(* closure.  The file may have a global y, before main or after it.        *)
(***************************************************************************)
EXTENDS Captures

Bodies == {<<PrintS("x")>>, <<IncS("x")>>, <<PrintS("y")>>, <<CallS("g")>>, <<CallS("k")>>,
           <<LetS("x", 7), PrintS("x")>>, <<VarS("y", 7), IncS("y"), PrintS("y")>>,
           <<LambdaS("set", "k", <<IncS("x"), PrintS("x")>>)>>,
           <<LetS("y", 7), LambdaS("set", "k", <<IncS("y"), PrintS("y")>>)>>,
           <<FunctionS("g", <<IncS("x"), PrintS("x")>>), CallS("g")>>}

Makers == {FunctionS("f", b) : b \in Bodies} \cup {LambdaS("const", "k", b) : b \in Bodies}
          \cup {LambdaS("let", "k", <<PrintS("x")>>)}
Declaring == {LetS("y", 5), ConstS("y", 5), VarS("y", 5), CopyS("const", "y", "x"), CopyS("let", "y", "x"),
                 FunctionS("g", <<IncS("x")>>), FunctionS("g", <<PrintS("y")>>)}
Users == {IncS("x"), CallS("f"), CallS("k"), PrintS("y"),
          BlockS(<<LetS("x", 9), CallS("f")>>),
          BlockS(<<LetS("y", 9), LambdaS("set", "k", <<IncS("y"), PrintS("y")>>)>>),
          ForS("i", <<CallS("f")>>), ForS("i", <<LambdaS("set", "k", <<PrintS("i")>>)>>),
          ForS("i", <<LambdaS("const", "m", <<PrintS("i")>>), CallS("m")>>),
          ForS("i", <<LetS("y", 9), CallS("k"), LambdaS("set", "k", <<IncS("y"), PrintS("y")>>)>>)}

Firsts(n) == {LetS("x", n), ConstS("x", n), VarS("x", n)}
All == Makers \cup Declaring \cup Users

Mains(n) == {<<d, a, b, c, e>> : d \in Firsts(n), a \in Makers \cup Declaring, b \in All, c \in Users,
                                  e \in {PrintS("x"), CallS("k"), CallS("f")}}

ShortMains(n) == {<<d, a, c, e>> : d \in Firsts(n), a \in All, c \in Users, e \in {PrintS("x"), CallS("k"), CallS("g")}}

Good(p) == /\ FunctionWellFormed(p, <<>>)
           /\ LET r == RunBlock(p \o <<CallS("main")>>, <<>>, Start) IN ~r.error /\ r.out # <<>>

File(before, b, after) == before \o <<FunctionS("main", b)>> \o after
GlobalY   == LetS("y", 3)
Recursive == FunctionS("g", <<CallS("h")>>)
Later     == FunctionS("h", <<VarS("z", 4), PrintS("z")>>)

Alone(n)   == {File(<<>>, m, <<>>) : m \in Mains(n)}
Around(n)  == UNION {{File(<<GlobalY>>, m, <<>>), File(<<>>, m, <<GlobalY>>), File(<<Recursive>>, m, <<Later>>)} :
                        m \in ShortMains(n)}
MCPrograms == {p \in Alone(1) : Good(p)} \cup {p \in Around(1) : Good(p)}
=============================================================================
