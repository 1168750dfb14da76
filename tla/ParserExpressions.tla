-------------------------- MODULE ParserExpressions --------------------------
(***************************************************************************)
(* The rules of expressions: precedence, arrow functions and the choices   *)
(* the parser makes by speculation.                                        *)
(***************************************************************************)
EXTENDS ParserTypes

Assign(allowReturnTypeInArrowFunction) ==
    CallWith("parseAssignmentExpressionOrHigher", allowReturnTypeInArrowFunction)
AllowInAnd(f, arg) == Outside({"DisallowIn"}, f, arg)
disallowInAndDecoratorContext == {"DisallowIn", "Decorator"}

parseExpression == <<SetFlags({}, {"Decorator"}), Assign(TRUE), Then("parseCommaRest"), Restore({"Decorator"})>>
parseCommaRest ==
    <<When({","}, <<TokenNode, Assign(TRUE), Finish("Binary"), Then("parseCommaRest")>>, <<>>)>>

parseInitializer == <<OptionalThen("=", <<Assign(TRUE)>>, <<>>)>>

AssignmentOperators == {"=", "+=", "-=", "*=", "**=", "/=", "%=", "<<=", ">>=", ">>>=", "&=", "|=", "^=",
                        "||=", "&&=", "??="}
NotLeftHandSide == {"Binary", "PrefixUnary", "PostfixUnary", "Conditional", "ArrowFunction", "Yield",
                    "Await", "Delete", "TypeOf", "Void", "As", "Satisfies", "TypeAssertion"}
\* Mutant: a binary expression is taken for one.
IsLeftHandSideOrBinary(node) == Kind(node) \notin NotLeftHandSide \ {"Binary"}
IsLeftHandSideExpression(node) == Kind(node) \notin NotLeftHandSide
\* A missing node is an identifier without text.
IsIdentifierNode(node) == Kind(node) \in {"Identifier", "missing"}

-----------------------------------------------------------------------------
(* Arrow functions.                                                        *)
-----------------------------------------------------------------------------
\* isParenthesizedArrowFunctionExpressionWorker after an open parenthesis at p.
ParametersOfArrow(p) ==
    LET s == After(p)
        n == After(s)
    IN CASE s.token = ")"        -> IF n.token \in {"=>", ":", "{"} THEN "True" ELSE "False"
         [] s.token \in {"[", "{"} -> "Unknown"
         [] s.token = "..."      -> "True"
         [] IsModifierKind(s) /\ s.token # "async" /\ IsIdentifier(n) ->
              IF n.token = "as" THEN "False" ELSE "True"
         [] OTHER ->
              CASE ~IsIdentifier(s) /\ s.token # "this" -> "False"
                [] n.token = ":" -> "True"
                [] n.token = "?" -> IF After(n).token \in {":", ",", "=", ")"} THEN "True" ELSE "False"
                [] OTHER         -> IF n.token \in {",", "=", ")"} THEN "Unknown" ELSE "False"

IsParenthesizedArrowFunctionExpression(s) ==
    LET p == IF s.token = "async" THEN After(s) ELSE s
    IN CASE s.token = "=>" -> "True"
         [] s.token = "(" \/ (s.token = "async" /\ p.token = "(" /\ ~HasPrecedingLineBreak(p)) ->
              ParametersOfArrow(p)
         [] s.token = "<" \/ (s.token = "async" /\ p.token = "<" /\ ~HasPrecedingLineBreak(p)) ->
              IF IsIdentifier(After(p)) \/ After(p).token = "const" THEN "Unknown" ELSE "False"
         [] OTHER -> "False"

parsePossibleParenthesizedArrowFunctionExpression(allowReturnType) ==
    IF scan.start \in notArrow THEN <<Undefined>>
    ELSE <<CallWith("parseParenthesizedArrowFunctionExpression", <<FALSE, allowReturnType>>),
           If(<<Result(TRUE)>>, <<NoArrow(scan.start), Undefined>>)>>

SignatureFlags(isAsync) == IF isAsync THEN {"Await"} ELSE {}

\* p is <<allowAmbiguity, allowReturnTypeInArrowFunction>>.
parseParenthesizedArrowFunctionExpression(p) ==
    LET isAsync == Token = "async"
        return  == ThenWith("parseReturnTypeOfArrow", [ambiguity |-> p[1], returnType |-> p[2], async |-> isAsync])
        close   == <<Expect(")"), IF p[1] THEN return ELSE If(<<return>>, <<Undefined>>)>>
    IN <<Call("parseModifiersForArrowFunction"), Call("parseTypeParameters"), Expect("("),
         If(<<CallWith("parseParametersWorker", <<SignatureFlags(isAsync), p[1]>>), If(close, <<Undefined>>)>>,
            IF p[1] THEN <<Call("createMissingList"), return>> ELSE <<Undefined>>)>>

createMissingList == <<MissingList>>

parseReturnTypeOfArrow(a) ==
    <<CallWith("parseReturnType", <<":", FALSE>>),
      ThenWith("parseArrowAndBody", <<a, a.returnType \/ Token # ":">>)>>

\* The type at the end of a type: what a function returns, what parentheses hold.
TypesAtTheEnd(type, kinds) ==
    LET down[i \in Nat] ==
          IF i = 0 THEN type
          ELSE IF Kind(down[i - 1]) \in kinds
               THEN Children(down[i - 1])[Len(Children(down[i - 1]))] ELSE down[i - 1]
    IN {down[i] : i \in 0 .. Len(input)}

TypeHasArrowFunctionBlockingParseError(type) ==
    \E t \in TypesAtTheEnd(type, {"FunctionType", "ConstructorType", "ParenthesizedType"}) :
        \/ Kind(t) = "TypeReference" /\ Kind(Children(t)[1]) = "missing"
        \/ /\ Kind(t) \in {"FunctionType", "ConstructorType"}
           /\ \E i \in DOMAIN Children(t) : Kind(Children(t)[i]) = "MissingList"

IsJSDocFunction(type) ==
    \E t \in TypesAtTheEnd(type, {"ParenthesizedType"}) : Kind(t) = "JSDocFunctionType"

\* b is <<a, whether the arrow function is kept whatever comes after it>>; ret
\* tells whether there is a return type.
parseArrowAndBody(b) ==
    LET a == b[1] IN
    CASE ret /\ ~a.ambiguity /\ TypeHasArrowFunctionBlockingParseError(LastNode) -> <<Undefined>>
      [] /\ ~a.ambiguity /\ Token # "=>"
         /\ Token # "{" \/ (ret /\ IsJSDocFunction(LastNode)) -> <<Undefined>>
      [] OTHER ->
           <<ExpectToken("=>"),
             IF Token \in {"=>", "{"}
             THEN CallWith("parseArrowFunctionExpressionBody", <<a.async, a.returnType>>)
             ELSE Call("parseIdentifier"),
             IF b[2] THEN Finish("ArrowFunction")
             ELSE When({":"}, <<Finish("ArrowFunction")>>, <<Undefined>>)>>

parseArrowFunctionExpressionBody(b) ==      \* b is <<isAsync, allowReturnTypeInArrowFunction>>
    LET flags == SignatureFlags(b[1])
        f == "parseAssignmentExpressionOrHigher"
    IN CASE Token = "{" -> <<CallWith("parseFunctionBlock", flags)>>
         [] /\ Token \notin {"{", ";", "function", "class"}
            /\ IsStartOfStatement(scan) /\ ~IsStartOfExpressionStatement(scan) ->
              <<CallWith("parseFunctionBlock", flags \cup {"IgnoreMissingOpenBrace"})>>
         [] OTHER -> <<SetTopLevel(FALSE), IF b[1] THEN Inside({"Await"}, f, b[2]) ELSE Outside({"Await"}, f, b[2]),
                       SetTopLevel(topLevel)>>

parseSimpleArrowFunctionExpression(b) ==
    <<DebugAssert("simple arrow function", Token = "=>"), ExpectToken("=>"), CallWith("parseArrowFunctionExpressionBody", b),
      Finish("ArrowFunction")>>

parseParameterOfAsyncArrow == <<CallWith("parseBinaryExpressionOrHigher", 0), Finish("Parameter"), Array>>

isUnParenthesizedAsyncArrowFunctionWorker == <<Next, Then("isUnParenthesizedAsyncArrow")>>
isUnParenthesizedAsyncArrow ==
    IF HasPrecedingLineBreak(scan) \/ Token = "=>" THEN <<Result(FALSE)>>
    ELSE <<CallWith("parseBinaryExpressionOrHigher", 0), Then("isIdentifierBeforeArrow")>>
isIdentifierBeforeArrow ==
    <<Result(~HasPrecedingLineBreak(scan) /\ IsIdentifierNode(LastNode) /\ Token = "=>")>>

-----------------------------------------------------------------------------
(* Assignments, conditional and binary expressions.                        *)
-----------------------------------------------------------------------------
IsYieldExpression ==
    Token = "yield" /\ (InYieldContext \/ NextTokenIsIdentifierOrKeywordOrLiteralOnSameLine(scan))

parseYieldExpression == <<Next, Then("parseYieldOperand"), Finish("Yield")>>
parseYieldOperand ==
    IF ~HasPrecedingLineBreak(scan) /\ (Token = "*" \/ IsStartOfExpression(scan))
    THEN <<OptionalToken("*"), Assign(TRUE)>> ELSE <<>>

parseBinaryThenAssignment(allow) ==
    <<CallWith("parseBinaryExpressionOrHigher", 0), ThenWith("parseAssignmentRest", allow)>>

tryParseAsyncSimpleArrowFunctionExpression(allow) ==
    IF Token # "async" THEN parseBinaryThenAssignment(allow)
    ELSE <<LookAhead("isUnParenthesizedAsyncArrowFunctionWorker", 0),
           If(<<Call("parseModifiersForArrowFunction"), Call("parseParameterOfAsyncArrow"),
                ThenWith("parseSimpleArrowFunctionExpression", <<TRUE, allow>>)>>,
              parseBinaryThenAssignment(allow))>>

parseAssignmentExpressionOrHigher(allow) ==
    LET triState == IsParenthesizedArrowFunctionExpression(scan)
    IN CASE IsYieldExpression -> parseYieldExpression
         [] ~IsYieldExpression /\ triState = "True" -> parseParenthesizedArrowFunctionExpression(<<TRUE, TRUE>>)
         [] ~IsYieldExpression /\ triState = "Unknown" ->
              <<TryParse("parsePossibleParenthesizedArrowFunctionExpression", allow),
                If(<<>>, tryParseAsyncSimpleArrowFunctionExpression(allow))>>
         [] OTHER -> tryParseAsyncSimpleArrowFunctionExpression(allow)

parseConditionalExpressionRest(allow) ==
    <<TokenNode, Outside(disallowInAndDecoratorContext, "parseAssignmentExpressionOrHigher", FALSE),
      When({":"}, <<TokenNode, Assign(allow)>>, <<Missing, Error, Missing>>), Finish("Conditional")>>

parseAssignmentRest(allow) ==
    LET s == RescannedGreater(scan)
    IN CASE IsIdentifierNode(LastNode) /\ Token = "=>" ->
              <<Finish("Parameter"), Array, ThenWith("parseSimpleArrowFunctionExpression", <<FALSE, allow>>)>>
         [] IsLeftHandSideExpression(LastNode) /\ s.token \in AssignmentOperators ->
              <<Rescan(s), TokenNode, Assign(allow), Finish("Binary")>>
         [] OTHER -> <<When({"?"}, parseConditionalExpressionRest(allow), <<>>)>>

parseBinaryExpressionOrHigher(precedence) ==
    <<Call("parseUnaryExpressionOrHigher"), ThenWith("parseBinaryExpressionRest", precedence)>>

\* The scanner stays at the operator that was read, whether it binds or not.
parseBinaryExpressionRest(precedence) ==
    <<Rescan(RescannedGreater(scan)), ThenWith("parseBinaryOperator", precedence)>>

parseBinaryOperator(precedence) ==
    LET new   == BinaryPrecedence(Token)
        binds == IF Token = "**" THEN new >= precedence ELSE new > precedence
        type  == Token \in {"as", "satisfies"}
        again == ThenWith("parseBinaryExpressionRest", precedence)
    IN CASE \/ ~binds \/ (Token = "in" /\ "DisallowIn" \in contextFlags)
            \/ type /\ HasPrecedingLineBreak(scan) -> <<>>
         [] binds /\ type /\ ~HasPrecedingLineBreak(scan) ->
              <<Next, Call("parseType"), Finish(IF Token = "as" THEN "As" ELSE "Satisfies"), again>>
         [] OTHER -> <<TokenNode, CallWith("parseBinaryExpressionOrHigher", new), Finish("Binary"), again>>

-----------------------------------------------------------------------------
(* Unary expressions.                                                      *)
-----------------------------------------------------------------------------
UnaryOperators ==
    [t \in {"+", "-", "~", "!", "delete", "typeof", "void", "await"} |->
        CASE t = "delete" -> "Delete" [] t = "typeof" -> "TypeOf" [] t = "void" -> "Void"
          [] t = "await"  -> "Await"  [] OTHER -> "PrefixUnary"]

IsAwaitExpression ==
    InAwaitContext \/ NextTokenIsIdentifierOrKeywordOrLiteralOnSameLine(scan)

\* Mutant: without the case of a type assertion.
IsUpdateOrTypeAssertion == Token \notin DOMAIN UnaryOperators
IsUpdateExpression == Token \notin DOMAIN UnaryOperators \cup {"<"}

parseUnaryExpressionOrHigher ==
    IF IsUpdateExpression
    THEN <<Call("parseUpdateExpression"),
           When({"**"}, <<ThenWith("parseBinaryExpressionRest", BinaryPrecedence("**"))>>, <<>>)>>
    ELSE <<Call("parseSimpleUnaryExpression"), When({"**"}, <<ErrorAtNode>>, <<>>)>>

parseTypeAssertion ==
    <<Expect("<"), Call("parseType"), Expect(">"), Call("parseSimpleUnaryExpression"),
      Finish("TypeAssertion")>>

parseUpdateExpression ==
    IF Token \in {"++", "--"}
    THEN <<Next, Call("parseLeftHandSideExpressionOrHigher"), Finish("PrefixUnary")>>
    ELSE <<Call("parseLeftHandSideExpressionOrHigher"), Then("parsePostfixOperator")>>

parsePostfixOperator ==
    <<DebugAssert("update expression", IsLeftHandSideExpression(LastNode))>>
    \o (IF Token \in {"++", "--"} /\ ~HasPrecedingLineBreak(scan)
        THEN <<Next, Finish("PostfixUnary")>> ELSE <<>>)

parseSimpleUnaryExpression ==
    CASE Token \in DOMAIN UnaryOperators /\ (Token = "await" => IsAwaitExpression) ->
           <<Next, Call("parseSimpleUnaryExpression"), Finish(UnaryOperators[Token])>>
      [] Token = "<" -> parseTypeAssertion
      [] OTHER -> parseUpdateExpression

-----------------------------------------------------------------------------
(* Member, call and primary expressions.                                   *)
-----------------------------------------------------------------------------
parseLeftHandSideExpressionOrHigher ==
    (CASE Token = "import" /\ After(scan).token \in {"(", "<"} -> <<TokenNode>>
       [] Token = "import" /\ After(scan).token = "." ->
            <<Next, Next, Call("parseIdentifierName"), Finish("MetaProperty")>>
       [] Token = "super" -> <<Call("parseSuperExpression")>>
       [] OTHER -> <<Call("parsePrimaryExpression"), ThenWith("parseMemberExpressionRest", TRUE)>>)
    \o <<Then("parseCallExpressionRest")>>

parseSuperExpression ==
    <<TokenNode,
      When({"<"}, <<TryParse("parseTypeArgumentsInExpression", 0),
                    If(<<ErrorAt(After(scan).start),
                         When({"template", "head"}, <<Drop>>, <<Group("ExpressionWithTypeArguments")>>)>>, <<>>)>>,
           <<>>),
      When({"(", ".", "["}, <<>>,
           <<Expect("."), CallWith("parseRightSideOfDot", TRUE), Finish("PropertyAccess")>>)>>

parseTaggedTemplateRest ==
    <<When({"template"}, <<TokenNode>>, <<Call("parseTemplateExpression")>>), Finish("TaggedTemplate")>>

parseElementAccessExpressionRest ==
    <<When({"]"}, <<ErrorFull, Missing>>, <<AllowInAnd("parseExpression", 0)>>), Expect("]"),
      Finish("ElementAccess")>>

\* What follows an expression with type arguments takes them over.
HasTypeArguments == Kind(LastNode) = "ExpressionWithTypeArguments"
TypeArgumentsTaken == IF HasTypeArguments THEN <<Open>> ELSE <<>>

parsePropertyAccessExpressionRest ==
    <<CallWith("parseRightSideOfDot", TRUE)>>
    \o (IF HasTypeArguments THEN <<ErrorAt(Children(LastNode)[2][3])>> ELSE <<>>)
    \o <<Finish("PropertyAccess")>>

parseMemberExpressionRest(allowOptionalChain) ==
    LET chain == /\ allowOptionalChain /\ Token = "?."
                 /\ NextTokenIsIdentifierOrKeywordOrOpenBracketOrTemplate(scan)
        again == <<ThenWith("parseMemberExpressionRest", allowOptionalChain)>>
    IN CASE chain ->
              <<TokenNode>>
              \o (CASE TokenIsIdentifierOrKeyword(After(scan)) -> parsePropertyAccessExpressionRest
                    [] After(scan).token = "[" -> <<Next>> \o parseElementAccessExpressionRest
                    [] OTHER -> parseTaggedTemplateRest) \o again
         [] Token = "." -> <<Next>> \o parsePropertyAccessExpressionRest \o again
         [] Token = "[" /\ "Decorator" \notin contextFlags ->
              <<Next>> \o parseElementAccessExpressionRest \o again
         [] Token \in Templates -> TypeArgumentsTaken \o parseTaggedTemplateRest \o again
         [] Token = "!" /\ ~HasPrecedingLineBreak(scan) -> <<Next, Finish("NonNullExpression")>> \o again
         [] RescannedLess(scan).token = "<" ->
              <<TryParse("parseTypeArgumentsInExpression", 0),
                If(<<Finish("ExpressionWithTypeArguments")>> \o again, <<>>)>>
         [] OTHER -> <<>>

parseCallExpressionRest == <<ThenWith("parseMemberExpressionRest", TRUE), Then("parseCall")>>

parseCall ==
    CASE Token = "?." ->
           <<TokenNode, TryParse("parseTypeArgumentsInExpression", 0), Then("parseOptionalCall")>>
      [] Token = "(" ->
           TypeArgumentsTaken \o <<Call("parseArgumentList"), Finish("Call"), Then("parseCallExpressionRest")>>
      [] OTHER -> <<>>

\* After a?. and, when ret, type arguments.
parseOptionalCall ==
    CASE Token \in Templates -> parseTaggedTemplateRest \o <<Then("parseCallExpressionRest")>>
      [] Token \notin Templates /\ (ret \/ Token = "(") ->
           <<Call("parseArgumentList"), Finish("Call"), Then("parseCallExpressionRest")>>
      [] OTHER -> <<Error, Missing, Finish("PropertyAccess")>>

parseArgumentList ==
    <<Expect("("), CallWith("parseDelimitedList", <<"ArgumentExpressions", "parseArgumentExpression", 0>>),
      Expect(")")>>

parseTypeArgumentsInExpression ==
    IF RescannedLess(scan).token # "<" THEN <<Undefined>>
    ELSE <<Rescan(RescannedLess(scan)), Next,
           CallWith("parseDelimitedList", <<"TypeArguments", "parseType", 0>>), Then("parseTypeArgumentsEnd")>>

parseTypeArgumentsEnd ==
    IF RescannedGreater(scan).token # ">" THEN <<Undefined>>
    ELSE <<Next, Then("canFollowTypeArgumentsInExpression")>>

canFollowTypeArgumentsInExpression ==
    IF \/ Token \in Templates \cup {"("}
       \/ /\ Token \notin {"<", ">", "+", "-"}
          /\ HasPrecedingLineBreak(scan) \/ IsBinaryOperator(scan) \/ ~IsStartOfExpression(scan)
    THEN <<Result(TRUE)>> ELSE <<Undefined>>

parseParenthesizedExpression ==
    <<Expect("("), AllowInAnd("parseExpression", 0), Expect(")"), Finish("Parenthesized")>>

parseArgumentOrArrayLiteralElement ==
    CASE Token = "..." -> <<Expect("..."), Assign(TRUE), Finish("SpreadElement")>>
      [] Token = ","   -> <<Finish("OmittedExpression")>>
      [] OTHER         -> parseAssignmentExpressionOrHigher(TRUE)

parseArgumentExpression ==
    <<Outside(disallowInAndDecoratorContext, "parseArgumentOrArrayLiteralElement", 0)>>

parseArrayLiteralExpression ==
    <<Expect("["),
      CallWith("parseDelimitedList", <<"ArrayLiteralMembers", "parseArgumentOrArrayLiteralElement", 0>>),
      Expect("]"), Finish("ArrayLiteral")>>

parseObjectLiteralExpression ==
    <<Expect("{"), CallWith("parseDelimitedList", <<"ObjectLiteralMembers", "parseObjectLiteralElement", 0>>),
      Expect("}"), Finish("ObjectLiteral")>>

parseObjectLiteralElement ==
    IF Token = "..." THEN <<TokenNode, Assign(TRUE), Finish("SpreadAssignment")>>
    ELSE <<CallWith("parseModifiers", ModifiersOf(TRUE, FALSE, FALSE)), Then("parseObjectMember")>>

parseObjectMember ==
    CASE IsContextualModifier(scan, "get") ->
           <<Next, ThenWith("parseAccessorDeclaration", <<"GetAccessor", {}>>)>>
      [] IsContextualModifier(scan, "set") ->
           <<Next, ThenWith("parseAccessorDeclaration", <<"SetAccessor", {}>>)>>
      [] OTHER -> <<OptionalToken("*"), ThenWith("parseObjectMemberName", Token = "*")>>

parseObjectMemberName(generator) ==
    <<Call("parsePropertyName"), OptionalToken("?"), OptionalToken("!"),
      ThenWith("parseObjectMemberRest", [generator |-> generator, identifier |-> IsIdentifier(scan)])>>

parseObjectMemberRest(m) ==
    LET assign == AllowInAnd("parseAssignmentExpressionOrHigher", TRUE)
    IN CASE m.generator \/ Token \in {"(", "<"} -> <<ThenWith("parseMethodDeclaration", m.generator)>>
         [] ~m.generator /\ m.identifier /\ Token \notin {"(", "<", ":"} ->
              <<When({"="}, <<TokenNode, assign>>, <<>>), Finish("ShorthandPropertyAssignment")>>
         [] OTHER -> <<Expect(":"), assign, Finish("PropertyAssignment")>>

parseFunctionExpression ==
    LET isAsync == Token = "async"
        function == IF isAsync THEN After(scan) ELSE scan
        flags == SignatureFlags(isAsync) \cup (IF After(function).token = "*" THEN {"Yield"} ELSE {})
    IN <<SetFlags({}, {"Decorator"}), CallWith("parseModifiers", ModifiersOf(FALSE, FALSE, FALSE)),
         Expect("function"), OptionalToken("*"), Inside(flags, "parseOptionalBindingIdentifier", 0),
         Call("parseTypeParameters"), CallWith("parseParameters", flags),
         CallWith("parseReturnType", <<":", FALSE>>), CallWith("parseFunctionBlock", flags),
         Restore({"Decorator"}), Finish("FunctionExpression")>>

parseOptionalBindingIdentifier ==
    IF IsBindingIdentifier(scan) THEN parseBindingIdentifier ELSE <<Result(FALSE)>>

parseNewExpressionOrNewDotTarget ==
    <<Expect("new"),
      OptionalThen(".", <<Call("parseIdentifierName"), Finish("MetaProperty")>>,
        <<Call("parseMemberExpressionOfNew"), Then("parseArgumentsOfNew")>>)>>

parseMemberExpressionOfNew ==
    <<Call("parsePrimaryExpression"), ThenWith("parseMemberExpressionRest", FALSE)>>

parseArgumentsOfNew ==
    TypeArgumentsTaken
    \o <<When({"?."}, <<Error>>, <<>>), When({"("}, <<Call("parseArgumentList")>>, <<>>), Finish("New")>>

parsePrimaryExpression ==
    CASE Token \in Literals \cup {"template", "this", "super", "null", "true", "false"} -> <<TokenNode>>
      [] Token = "(" -> parseParenthesizedExpression
      [] Token = "[" -> parseArrayLiteralExpression
      [] Token = "{" -> parseObjectLiteralExpression
      [] \/ Token = "function"
         \/ Token = "async" /\ NextTokenIsKeywordOnSameLine(scan, "function") -> parseFunctionExpression
      [] Token = "@"     -> <<Then("parseDecoratedExpression")>>
      [] Token = "class" -> <<ThenWith("parseClassDeclarationOrExpression", "ClassExpression")>>
      [] Token = "new"   -> parseNewExpressionOrNewDotTarget
      [] Token \in {"/", "/="} -> <<Rescan(RescannedSlash(scan)), TokenNode>>
      [] Token = "head"  -> parseTemplateExpression
      [] OTHER           -> parseIdentifier
==============================================================================
