----------------------------- MODULE ParserProps -----------------------------
(***************************************************************************)
(* What the parser of parser.cpp promises: it reads every text to its end, *)
(* keeps its scopes, marks its errors, loses nothing, and makes the tree   *)
(* that the grammar of the language gives a text.  The grammar is stated   *)
(* as what may stand where in a tree, so it shares nothing with the rules. *)
(***************************************************************************)
EXTENDS Parser

CONSTANT Sentences    \* those of Inputs that belong to the language

Done     == stack = <<>> /\ failed = "none"
Accepted == Done /\ diagnostics = <<>>

\* Every node of a sequence of trees, each before the nodes below it.
RECURSIVE NodesOf(_)
NodesOf(trees) ==
    IF trees = <<>> THEN <<>>
    ELSE <<Head(trees)>> \o NodesOf(Children(Head(trees))) \o NodesOf(Tail(trees))

StartOf(node) == node[3]
HasError(node) == node[2]
AllNodes == LET all == NodesOf(nodes) IN {all[i] : i \in DOMAIN all}

\* The nodes that stand for a token of the text, in the order of the tree.
MadeByScanner == {"Identifier", "middle", "tail", "regex", "EOF", "<<", "??", "*=", ">=", ">>", ">>=", ">>>", ">>>="}
IsToken(node) ==
    Children(node) = <<>> /\ (Kind(node) \in MadeByScanner \/ Kind(node) = Lexeme(StartOf(node)))
Names == {"x", "1", "'s'", "template", "head"}
Items(s) == {s[i] : i \in DOMAIN s}
Leaves == SelectSeq(NodesOf(nodes), IsToken)

-----------------------------------------------------------------------------
(* The grammar: how strongly an expression holds together, and how         *)
(* strongly the operands of an operator have to.                           *)
-----------------------------------------------------------------------------
Operators ==
    <<{"??"}, {"||"}, {"&&"}, {"|"}, {"^"}, {"&"}, {"==", "!=", "===", "!=="},
      {"<", ">", "<=", ">=", "instanceof", "in"}, {"<<", ">>", ">>>"}, {"+", "-"}, {"*", "/", "%"}, {"**"}>>
Comma == 0
Assigning == 1
Choosing == 2
Relation == 10
Power == 14
Unary == 15
LeftHandSide == 17

OperatorStrength(op) ==
    IF op = "," THEN Comma
    ELSE IF \A i \in DOMAIN Operators : op \notin Operators[i] THEN Assigning
    ELSE 2 + CHOOSE i \in DOMAIN Operators : op \in Operators[i]

UnaryKinds == {"PrefixUnary", "Delete", "TypeOf", "Void", "Await"}
IsUpdate(node) ==
    Kind(node) = "PostfixUnary" \/ (Kind(node) = "PrefixUnary" /\ Lexeme(StartOf(node)) \in {"++", "--"})

Strength(node) ==
    CASE Kind(node) = "Binary" -> OperatorStrength(Kind(Children(node)[2]))
      [] Kind(node) \in {"As", "Satisfies"}       -> Relation
      [] Kind(node) = "Conditional"               -> Choosing
      [] Kind(node) \in {"ArrowFunction", "Yield"} -> Assigning
      [] IsUpdate(node)                           -> Unary + 1
      [] Kind(node) \in UnaryKinds \cup {"TypeAssertion"} /\ ~IsUpdate(node) -> Unary
      [] OTHER                                    -> LeftHandSide

\* The strength that the i-th child of a node must have at least.
Needed(node, i) ==
    LET op == OperatorStrength(Kind(Children(node)[2])) IN
    CASE Kind(node) = "Binary" ->
           CASE i = 2         -> LeftHandSide
             [] op = Comma    -> IF i = 1 THEN Comma ELSE Assigning
             [] op = Assigning -> IF i = 1 THEN LeftHandSide ELSE Assigning
             [] op = Power    -> IF i = 1 THEN Unary + 1 ELSE Power
             [] OTHER         -> IF i = 1 THEN op ELSE op + 1
      [] Kind(node) \in {"As", "Satisfies"} -> IF i = 1 THEN Relation ELSE Comma
      [] Kind(node) = "Conditional"         -> IF i = 1 THEN Choosing + 1 ELSE Assigning
      [] Kind(node) \in UnaryKinds /\ ~IsUpdate(node) -> Unary
      [] IsUpdate(node)                     -> LeftHandSide
      [] Kind(node) \in {"Call", "New", "PropertyAccess", "ElementAccess", "TaggedTemplate",
                         "NonNullExpression"} -> IF i = 1 THEN LeftHandSide ELSE Comma
      [] Kind(node) \in {"ArrowFunction", "List", "PropertyAssignment", "SpreadElement"} -> Assigning
      [] OTHER -> Comma

\* A statement an else after it would belong to.
RECURSIVE EndsInOpenIf(_)
EndsInOpenIf(node) ==
    LET n == Len(Children(node)) IN
    \/ Kind(node) = "If" /\ n = 2
    \/ Kind(node) \in {"If", "While", "For", "ForIn", "ForOf", "With", "Labeled"} /\ EndsInOpenIf(Children(node)[n])

\* Where the grammar allows no line break before an operand.
NoLineBreakBefore(node) ==
    Kind(node) \in {"Return", "Yield", "Throw", "Break", "Continue"} /\ Children(node) # <<>>
    => Lexeme(StartOf(Children(node)[1]) - 1) # "\n"

\* A type ends where no operator goes on, so what follows it takes all of 'x as T'.
EndsInType(node) == Kind(node) \in {"As", "Satisfies"}

InGrammar(node) ==
    /\ \A i \in DOMAIN Children(node) :
          \/ Strength(Children(node)[i]) >= Needed(node, i)
          \/ i = 1 /\ EndsInType(Children(node)[i]) /\ Kind(node) \in {"Binary", "As", "Satisfies"}
    /\ Kind(node) = "If" /\ Len(Children(node)) = 3 => ~EndsInOpenIf(Children(node)[2])
    /\ Kind(node) = "New" => Kind(Children(node)[1]) # "Call"
    /\ NoLineBreakBefore(node)

-----------------------------------------------------------------------------
(* Properties.                                                             *)
-----------------------------------------------------------------------------
\* The parser is in the loop of parseJSDocType that has no end: it has read
\* 'module' where the type of a parameter of a JSDoc function type begins.
InModuleName == Takes("then") /\ Step[2] = "skipModuleName"

\* Every text is read to its end, and makes one tree, unless it has 'module' at
\* the one place where the parser hangs: the lists that are being parsed always
\* agree who takes the next token or skips it, no speculation ends with another
\* context than it began with, and no Debug::_assert fails.
Terminates == <>((Done /\ Token = "EOF" /\ Len(nodes) = 1) \/ InModuleName)

\* The context flags and the lists of a statement end with it, whatever errors
\* it has: between the statements of the file and after the last one nothing is
\* left of them. A node says that there was an error before it exactly when one was
\* reported: speculation, which takes errors back, takes them back from the nodes.
NothingLeftBehind ==
    /\ Len(stack) = 1 /\ Takes("then") /\ Step[2] = "parseListRest" =>
           contextFlags = {} /\ parsingContext = {"SourceElements"}
    /\ Done => contextFlags = {} /\ parsingContext = {} /\ ~errorPending
    /\ Done => ((diagnostics # <<>>) <=> \E node \in AllNodes : HasError(node))

\* The tokens of the tree are in the order of the text, none is in it twice,
\* and no name or literal of a text without errors is left out.  (A regular
\* expression or a template that is longer than it was meant to be takes what
\* is in it.)
NothingLost ==
    Done => LET leaves == Leaves
                places == {StartOf(leaves[i]) : i \in DOMAIN leaves}
            IN /\ \A i \in 1 .. Len(leaves) - 1 : StartOf(leaves[i]) < StartOf(leaves[i + 1])
               /\ diagnostics = <<>> /\ "/" \notin Items(input) /\ ("head" \in Items(input) => input \in Sentences) =>
                    {p \in DOMAIN input : input[p] \in Names} \subseteq places

\* A text without errors has the tree its grammar gives it: precedence and
\* associativity of the operators, which if an else belongs to, where an arrow
\* function, a conditional or an assignment may stand, and what a line break
\* ends.
TreeOfGrammar == Accepted => \A node \in AllNodes : InGrammar(node)

\* What belongs to the language is read without an error.
AcceptsTheLanguage == Done /\ input \in Sentences => diagnostics = <<>>

==============================================================================
