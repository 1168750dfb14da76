----------------------------- MODULE ParserState -----------------------------
(***************************************************************************)
(* The state of the parser of src/tsc/tsc-new-parser/parser.cpp and the    *)
(* steps its functions are made of.                                        *)
(*                                                                         *)
(* A text is a sequence of lexemes: every identifier is "x", literals are  *)
(* "1", "'s'" and "template", every other token stands for itself.  "\n"   *)
(* and " " are the trivia that matter: a line break before a token, and a  *)
(* gap between two tokens that would otherwise be scanned as one.  "head"  *)
(* begins a template with substitutions; the text after a substitution is  *)
(* one lexeme, "text{" when another substitution follows, "text" when the  *)
(* template ends.                                                          *)
(*                                                                         *)
(* A function of the parser is a rule: the sequence of the steps it takes, *)
(* which may depend on the state it is called in.  The modules             *)
(* ParserTypes, ParserExpressions, ParserStatements and ParserDeclarations *)
(* hold the rules, Parser runs them.                                       *)
(***************************************************************************)
EXTENDS Integers, Sequences, FiniteSets

CONSTANT Inputs    \* the texts to parse

VARIABLES
    input,         \* the text
    scan,          \* the scanner: the current token, where it starts and ends
    contextFlags,  \* the NodeFlags in force: DisallowIn, Yield, Await, Decorator, ...
    parsingContext,\* the kinds of the lists that are being parsed
    diagnostics,   \* parseDiagnostics: where each error was reported
    errorPending,  \* parseErrorBeforeNextFinishedNode
    topLevel,      \* topLevel: not inside a function
    notArrow,      \* notParenthesizedArrow: where no arrow function starts
    stack,         \* the active calls, each with the steps it has left
    nodes,         \* the nodes made that no other node has taken yet
    failed,        \* the Debug::_assert that failed, if any
    ret            \* what the last call returned: a node (TRUE), undefined (FALSE), a Tristate

-----------------------------------------------------------------------------
(* The scanner.                                                            *)
-----------------------------------------------------------------------------
Trivia == {"\n", " "}

Lexeme(p) == IF p <= Len(input) THEN input[p] ELSE "EOF"

SkipTrivia(p) == IF Lexeme(p) \in Trivia THEN p + 1 ELSE p

\* Scanner::scan, from where the last token ended. Two lexemes that touch are one
\* token when a reScan takes it apart again ('>' is read one character at a
\* time, reScanGreaterToken joins them). The decoration of the lines of a JSDoc
\* type (scanner.cpp:2594) is left out: no text has one.
OneToken == [pair \in {<<"<", "<">>, <<"?", "?">>, <<"*", "=">>} |->
               CASE pair[1] = "<" -> "<<"  [] pair[1] = "?" -> "??"  [] pair[1] = "*" -> "*="]
TokenAt(q) ==
    IF <<Lexeme(q), Lexeme(q + 1)>> \in DOMAIN OneToken
    THEN [token |-> OneToken[<<Lexeme(q), Lexeme(q + 1)>>], start |-> q, end |-> q + 2]
    ELSE [token |-> Lexeme(q), start |-> q, end |-> IF q <= Len(input) THEN q + 1 ELSE q]
ScanFrom(p) == TokenAt(SkipTrivia(p))

\* The scanner after one more call of nextToken.
After(s) == ScanFrom(s.end)

HasPrecedingLineBreak(s) == s.start > 1 /\ input[s.start - 1] = "\n"

\* getTokenFullStart: where the token starts with the trivia before it.
FullStart(s) == IF s.start > 1 /\ input[s.start - 1] \in Trivia THEN s.start - 1 ELSE s.start

Token == scan.token

\* reScanGreaterToken: '>' with the '>' and '=' that touch it.
Joined == <<<<">", ">=">>, <<">>", ">>=">>, <<">>>", ">>>=">>>>
RescannedGreater(s) ==
    LET n == IF Lexeme(s.end) # ">" THEN 1 ELSE IF Lexeme(s.end + 1) # ">" THEN 2 ELSE 3
        e == IF Lexeme(s.start + n) = "=" THEN 1 ELSE 0
    IN IF s.token # ">" THEN s
       ELSE [token |-> Joined[n][1 + e], start |-> s.start, end |-> s.start + n + e]

\* reScanLessThanToken: '<<' becomes '<'.
RescannedLess(s) ==
    IF s.token = "<<" THEN [token |-> "<", start |-> s.start, end |-> s.start + 1] ELSE s

\* reScanQuestionToken: '??' becomes '?'.
RescannedQuestion(s) ==
    IF s.token = "??" THEN [token |-> "?", start |-> s.start, end |-> s.start + 1] ELSE s

\* reScanAsteriskEqualsToken: what is left of '*=' is the '*', and is called '='.
RescannedAsterisk(s) ==
    IF s.token = "*=" THEN [token |-> "=", start |-> s.start, end |-> s.start + 1] ELSE s

\* reScanTemplateToken: '}' and the text after it, up to the next
\* substitution or the end of the template.
RescannedTemplate(s) ==
    [token |-> IF Lexeme(s.end) = "text{" THEN "middle" ELSE "tail", start |-> s.start,
     end |-> IF Lexeme(s.end) \in {"text{", "text"} THEN s.end + 1 ELSE Len(input) + 1]

\* reScanSlashToken: a regular expression, up to the next slash of the line.
RescannedSlash(s) ==
    LET stops == {p \in s.end .. Len(input) + 1 : Lexeme(p) \in {"/", "\n", "EOF"}}
        stop  == CHOOSE p \in stops : \A q \in stops : p <= q
    IN [token |-> "regex", start |-> s.start, end |-> IF Lexeme(stop) = "/" THEN stop + 1 ELSE stop]

-----------------------------------------------------------------------------
(* The steps.                                                              *)
-----------------------------------------------------------------------------
Next == <<"next">>                       \* nextToken()
Rescan(to) == <<"rescan", to>>           \* the reScan functions: the scanner is at to
Expect(t) == <<"expect", t>>             \* parseExpected(t)
When(ts, a, b) == <<"when", ts, a, b>>   \* if (token() in ts) a else b
If(a, b) == <<"if", a, b>>               \* if (the last result is a node or true) a else b
CallWith(f, arg) == <<"call", f, arg>>
Call(f) == CallWith(f, 0)
\* The same function goes on, as the state it has reached says.
ThenWith(f, arg) == <<"then", f, arg>>
Then(f) == ThenWith(f, 0)
Inside(c, f, arg) == <<"inside", c, f, arg>>    \* doInsideOfContext(c, f)
Outside(c, f, arg) == <<"outside", c, f, arg>>  \* doOutsideOfContext(c, f)
SetFlags(on, off) == <<"flags", on, off>>\* setContextFlag
Enter(kind) == <<"enter", kind>>         \* parsingContext |= 1 << kind
Leave(saved) == <<"leave", saved>>       \* parsingContext = saveParsingContext
SetTopLevel(b) == <<"topLevel", b>>      \* topLevel = b
TryParse(f, arg) == <<"speculate", f, arg, "tryParse">>
LookAhead(f, arg) == <<"speculate", f, arg, "lookAhead">>
TokenNode == <<"token">>                 \* parseTokenNode() and the nodes of one token
IdentifierNode == <<"identifier">>       \* createIdentifier(true)
Missing == <<"missing">>                 \* createMissingNode, without a message
Finish(kind) == <<"finish", kind>>       \* finishNode(factory.create..(...)) of the nodes made here
Group(kind) == <<"array", kind>>         \* a node of the nodes made here that is not finished
Array == Group("List")                   \* createNodeArray
MissingList == Group("MissingList")      \* createMissingList
ArrayIfAny == <<"arrayIfAny">>           \* ... or undefined when there is none
Error == <<"error", "token">>            \* parseErrorAtCurrentToken
ErrorFull == <<"error", "full">>         \* parseErrorAtPosition(getTokenFullStart(), 0)
ErrorAt(p) == <<"error at", p>>          \* parseErrorAt, parseErrorAtRange
ErrorAtNode == <<"error", "node">>       \* parseErrorAtRange of the last node
Result(r) == <<"result", r>>             \* what the function returns, when it is no node
Undefined == <<"undefined">>             \* return undefined: the nodes made here are dropped
Drop == <<"drop">>                       \* the last node made is not used
Open == <<"open">>                       \* ... but its children are
DebugAssert(what, b) == <<"assert", what, b>> \* Debug::_assert(b)
Restore(fs) == SetFlags(contextFlags \cap fs, fs \ contextFlags)  \* ... to what it is now
NoArrow(p) == <<"no arrow", p>>          \* notParenthesizedArrow.push_back(p)

\* parseOptional(t), and what the code does in either case.
OptionalThen(t, a, b) == When({t}, <<Next>> \o a, b)
Optional(t) == OptionalThen(t, <<>>, <<>>)

\* parseOptionalToken(t), parseExpectedToken(t).
OptionalToken(t) == When({t}, <<TokenNode>>, <<>>)
\* Without a message the missing token is not reported.
ExpectToken(t) == When({t}, <<TokenNode>>, <<Missing>>)
ExpectTokenOrReport(t) == When({t}, <<TokenNode>>, <<Error, Missing>>)

\* A node is <<kind, has an error, where it starts, its children>>; a token, an
\* identifier and a missing node have no children.
LastNode == nodes[Len(nodes)]
Kind(node) == node[1]
Children(node) == node[4]

\* The nodes the running function has made, and the modifiers among them.
Made == SubSeq(nodes, stack[Len(stack)].mark + 1, Len(nodes))
HasModifier(k) == \E i \in DOMAIN Made : /\ Kind(Made[i]) = "List"
                                        /\ \E j \in DOMAIN Children(Made[i]) : Kind(Children(Made[i])[j]) = k

vars == <<input, scan, contextFlags, parsingContext, diagnostics, errorPending, topLevel,
          notArrow, stack, nodes, failed, ret>>
==============================================================================
