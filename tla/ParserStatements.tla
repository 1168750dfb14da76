--------------------------- MODULE ParserStatements ---------------------------
(***************************************************************************)
(* The rules of blocks, statements, bindings, functions and classes.       *)
(***************************************************************************)
EXTENDS ParserExpressions

-----------------------------------------------------------------------------
(* Blocks.                                                                 *)
-----------------------------------------------------------------------------
Statements(kind) == CallWith("parseList", <<kind, "parseStatement", 0>>)

parseBlock(ignoreMissingOpenBrace) ==
    LET block == <<Statements("BlockStatements"), Expect("}"), Finish("Block"), When({"="}, <<Error, Next>>, <<>>)>>
    IN <<Expect("{"), If(block, IF ignoreMissingOpenBrace THEN block ELSE <<MissingList, Finish("Block")>>)>>

\* Mutant: the flags of the function stay.
parseFunctionBlockKeepsFlags(flags) ==
    <<YieldAwait(flags), SetFlags({}, {"Decorator"}), SetTopLevel(FALSE),
      CallWith("parseBlock", "IgnoreMissingOpenBrace" \in flags), SetTopLevel(topLevel), Restore({"Decorator"})>>

parseFunctionBlock(flags) ==
    <<YieldAwait(flags), SetFlags({}, {"Decorator"}), SetTopLevel(FALSE),
      CallWith("parseBlock", "IgnoreMissingOpenBrace" \in flags),
      SetTopLevel(topLevel), Restore({"Yield", "Await", "Decorator"})>>

parseFunctionBlockOrSemicolon(flags) ==
    CASE Token # "{" /\ "Type" \in flags -> parseTypeMemberSemicolon
      [] Token # "{" /\ "Type" \notin flags /\ CanParseSemicolon(scan) -> parseSemicolon
      [] OTHER -> parseFunctionBlock(flags)

-----------------------------------------------------------------------------
(* Semicolons that are missing.                                            *)
-----------------------------------------------------------------------------
\* Every name but a few is reported where it stands.
parseErrorForMissingSemicolonAfter(node) ==
    CASE Kind(node) = "TaggedTemplate" -> <<ErrorAt(Children(node)[Len(Children(node))][3])>>
      [] Kind(node) = "Identifier" ->
           CASE Lexeme(node[3]) = "declare" -> <<>>
             [] Lexeme(node[3]) \in {"interface", "module", "namespace", "type"} -> <<Error>>
             [] OTHER -> <<ErrorAt(node[3])>>
      [] OTHER -> <<Error>>

parseSemicolonAfterExpression ==
    IF CanParseSemicolon(scan) THEN <<Optional(";")>> ELSE parseErrorForMissingSemicolonAfter(LastNode)

\* p is <<the place of the name among the nodes, has a type, has an initializer>>.
parseSemicolonAfterPropertyName(p) ==
    CASE Token = "@" /\ ~HasPrecedingLineBreak(scan) -> <<Error>>
      [] Token = "(" -> <<Error, Next>>
      [] OTHER -> CASE CanParseSemicolon(scan) -> <<Optional(";")>>
                    [] ~CanParseSemicolon(scan) /\ (p[2] \/ p[3]) -> <<Error>>
                    [] OTHER -> parseErrorForMissingSemicolonAfter(nodes[p[1]])

-----------------------------------------------------------------------------
(* Statements.                                                             *)
-----------------------------------------------------------------------------
ParenthesizedCondition == <<Expect("("), AllowInAnd("parseExpression", 0), Expect(")")>>

parseIfStatement ==
    <<Expect("if")>> \o ParenthesizedCondition
    \o <<Call("parseStatement"), OptionalThen("else", <<Call("parseStatement")>>, <<>>), Finish("If")>>

parseDoStatement ==
    <<Expect("do"), Call("parseStatement"), Expect("while")>> \o ParenthesizedCondition
    \o <<Optional(";"), Finish("Do")>>

parseWhileStatement ==
    <<Expect("while")>> \o ParenthesizedCondition \o <<Call("parseStatement"), Finish("While")>>

parseWithStatement ==
    <<Expect("with")>> \o ParenthesizedCondition
    \o <<Inside({"InWithStatement"}, "parseStatement", 0), Finish("With")>>

parseForOrForInOrForOfStatement ==
    <<Expect("for"), OptionalToken("await"), Expect("("),
      ThenWith("parseInitializerOfFor", After(scan).token = "await")>>

StartsVariableDeclarations(s) ==
    \/ s.token \in {"var", "let", "const"}
    \/ s.token = "using" /\ NextTokenIsBindingIdentifierOrStartOfDestructuringOnSameLine(s, TRUE)
    \/ s.token = "await" /\ NextTokenIsUsingKeywordThenBinding(s, TRUE)

parseForOfRest ==
    <<AllowInAnd("parseAssignmentExpressionOrHigher", TRUE), Expect(")"), Call("parseStatement"), Finish("ForOf")>>

parseForInOrForRest ==
    LET expression == <<AllowInAnd("parseExpression", 0)>>
    IN <<OptionalThen("in", expression \o <<Expect(")"), Call("parseStatement"), Finish("ForIn")>>,
           <<Expect(";"), When({";", ")"}, <<>>, expression), Expect(";"), When({")"}, <<>>, expression),
             Expect(")"), Call("parseStatement"), Finish("For")>>)>>

parseInitializerOfFor(await) ==
    (CASE Token = ";" -> <<>>
       [] StartsVariableDeclarations(scan) -> <<CallWith("parseVariableDeclarationList", TRUE)>>
       [] OTHER -> <<Inside({"DisallowIn"}, "parseExpression", 0)>>)
    \o (IF await THEN <<Expect("of"), If(parseForOfRest, parseForInOrForRest)>>
        ELSE <<OptionalThen("of", parseForOfRest, parseForInOrForRest)>>)

parseBreakOrContinueStatement ==
    <<Next, Then("parseLabelOfJump"), Then("parseSemicolon"), Finish(IF Token = "break" THEN "Break" ELSE "Continue")>>
parseLabelOfJump == IF CanParseSemicolon(scan) THEN <<>> ELSE parseIdentifier

parseReturnStatement ==
    <<Expect("return"), Then("parseOperandOfReturn"), Then("parseSemicolon"), Finish("Return")>>
parseOperandOfReturn == IF CanParseSemicolon(scan) THEN <<>> ELSE <<AllowInAnd("parseExpression", 0)>>

\* A line break after throw is reported nowhere here: the operand is missing.
parseThrowStatement ==
    <<Expect("throw"), Then("parseOperandOfThrow"), Then("parseSemicolonAfterExpression"), Finish("Throw")>>
parseOperandOfThrow ==
    IF HasPrecedingLineBreak(scan) THEN <<Missing>> ELSE <<AllowInAnd("parseExpression", 0)>>

parseCaseOrDefaultClause ==
    IF Token = "case"
    THEN <<Expect("case"), AllowInAnd("parseExpression", 0), Expect(":"), Statements("SwitchClauseStatements"),
           Finish("CaseClause")>>
    ELSE <<Expect("default"), Expect(":"), Statements("SwitchClauseStatements"), Finish("DefaultClause")>>

parseCaseBlock ==
    <<Expect("{"), CallWith("parseList", <<"SwitchClauses", "parseCaseOrDefaultClause", 0>>), Expect("}"),
      Finish("CaseBlock")>>

parseSwitchStatement ==
    <<Expect("switch")>> \o ParenthesizedCondition \o <<Call("parseCaseBlock"), Finish("Switch")>>

parseTryStatement ==
    LET finally == <<Expect("finally"), CallWith("parseBlock", FALSE)>>
    IN <<Expect("try"), CallWith("parseBlock", FALSE),
         When({"catch"}, <<Call("parseCatchClause"), When({"finally"}, finally, <<>>)>>, finally), Finish("Try")>>

parseCatchClause ==
    <<Expect("catch"),
      OptionalThen("(", <<CallWith("parseVariableDeclaration", FALSE), Expect(")")>>, <<>>),
      CallWith("parseBlock", FALSE), Finish("CatchClause")>>

parseExpressionOrLabeledStatement ==
    <<AllowInAnd("parseExpression", 0), Then("parseLabeledOrExpressionStatement")>>
parseLabeledOrExpressionStatement ==
    IF IsIdentifierNode(LastNode) /\ Token = ":"
    THEN <<Next, Call("parseStatement"), Finish("Labeled")>>
    ELSE <<Then("parseSemicolonAfterExpression"), Finish("ExpressionStatement")>>

DeclarationKeywords ==
    {"async", "interface", "type", "module", "namespace", "declare", "const", "enum", "export", "import",
     "private", "protected", "public", "abstract", "accessor", "static", "readonly", "global"}

\* A using that declares nothing falls through to the function declaration.
parseStatement ==
    CASE Token = ";"  -> <<Expect(";"), Finish("Empty")>>
      [] Token = "{"  -> parseBlock(FALSE)
      [] \/ Token = "var" \/ (Token = "let" /\ IsLetDeclaration(scan))
         \/ Token = "using" /\ IsUsingDeclaration(scan)
         \/ Token = "await" /\ IsAwaitUsingDeclaration(scan) -> <<Then("parseVariableStatement")>>
      [] Token = "function" \/ (Token = "using" /\ ~IsUsingDeclaration(scan)) ->
           <<Then("parseFunctionDeclaration")>>
      [] Token = "class"  -> <<ThenWith("parseClassDeclarationOrExpression", "ClassDeclaration")>>
      [] Token = "if"     -> parseIfStatement
      [] Token = "do"     -> parseDoStatement
      [] Token = "while"  -> parseWhileStatement
      [] Token = "for"    -> parseForOrForInOrForOfStatement
      [] Token \in {"continue", "break"} -> parseBreakOrContinueStatement
      [] Token = "return" -> parseReturnStatement
      [] Token = "with"   -> parseWithStatement
      [] Token = "switch" -> parseSwitchStatement
      [] Token = "throw"  -> parseThrowStatement
      [] Token \in {"try", "catch", "finally"} -> parseTryStatement
      [] Token = "debugger" -> <<Expect("debugger"), Then("parseSemicolon"), Finish("Debugger")>>
      [] Token = "@" \/ (Token \in DeclarationKeywords /\ IsDeclaration(scan)) -> <<Then("parseDeclaration")>>
      [] OTHER -> parseExpressionOrLabeledStatement

-----------------------------------------------------------------------------
(* Bindings and variables.                                                 *)
-----------------------------------------------------------------------------
parseArrayBindingElement ==
    IF Token = "," THEN <<Finish("OmittedExpression")>>
    ELSE <<OptionalToken("..."), Call("parseIdentifierOrPattern"), Call("parseInitializer"), Finish("BindingElement")>>

parseObjectBindingElement == <<OptionalToken("..."), Then("parseObjectBindingName")>>
parseObjectBindingName ==
    LET rename == <<Expect(":"), Call("parseIdentifierOrPattern")>>
    IN <<Call("parsePropertyName")>> \o (IF IsBindingIdentifier(scan) THEN <<When({":"}, rename, <<>>)>> ELSE rename)
       \o <<Call("parseInitializer"), Finish("BindingElement")>>

BindingPattern(open, kind, element, close, node) ==
    <<Expect(open), AllowInAnd("parseDelimitedList", <<kind, element, 0>>), Expect(close), Finish(node)>>

parseIdentifierOrPattern ==
    CASE Token = "[" -> BindingPattern("[", "ArrayBindingElements", "parseArrayBindingElement", "]",
                                       "ArrayBindingPattern")
      [] Token = "{" -> BindingPattern("{", "ObjectBindingElements", "parseObjectBindingElement", "}",
                                       "ObjectBindingPattern")
      [] OTHER -> parseBindingIdentifier

parseVariableDeclaration(allowExclamation) ==
    <<Call("parseIdentifierOrPattern"), ThenWith("parseVariableDeclarationRest", allowExclamation)>>
parseVariableDeclarationRest(allowExclamation) ==
    (IF allowExclamation /\ IsIdentifierNode(LastNode) /\ ~HasPrecedingLineBreak(scan)
     THEN <<OptionalToken("!")>> ELSE <<>>)
    \o <<Call("parseTypeAnnotation"), When({"in", "of"}, <<>>, <<Call("parseInitializer")>>),
         Finish("VariableDeclaration")>>

parseVariableDeclarationList(inFor) ==
    (IF Token = "await" THEN <<DebugAssert("await using", IsAwaitUsingDeclaration(scan)), Next>> ELSE <<>>)
    \o <<Next, ThenWith("parseVariableDeclarations", inFor)>>

parseVariableDeclarations(inFor) ==
    IF Token = "of" /\ IsIdentifier(After(scan)) /\ After(After(scan)).token = ")"
    THEN <<MissingList, Finish("VariableDeclarationList")>>
    ELSE <<IF inFor THEN SetFlags({"DisallowIn"}, {}) ELSE SetFlags({}, {"DisallowIn"}),
           CallWith("parseDelimitedList", <<"VariableDeclarations", "parseVariableDeclaration", ~inFor>>),
           Restore({"DisallowIn"}), Finish("VariableDeclarationList")>>

parseVariableStatement ==
    <<CallWith("parseVariableDeclarationList", FALSE), Then("parseSemicolon"), Finish("VariableStatement")>>

-----------------------------------------------------------------------------
(* Functions.                                                              *)
-----------------------------------------------------------------------------
\* From the type parameters to the body.
Signature(flags, body) ==
    <<CallWith("parseParameters", flags), CallWith("parseReturnType", <<":", FALSE>>), CallWith(body, flags)>>

FlagsOf(generator) ==
    (IF generator THEN {"Yield"} ELSE {}) \cup SignatureFlags(HasModifier("async"))

parseFunctionDeclaration ==
    LET name == IF Token = "function" THEN After(scan) ELSE scan
    IN <<Expect("function"), OptionalToken("*"),
         Call(IF HasModifier("default") THEN "parseOptionalBindingIdentifier" ELSE "parseBindingIdentifier"),
         Call("parseTypeParameters"),
         SetFlags(IF HasModifier("export") THEN {"Await"} ELSE {}, {})>>
       \o Signature(FlagsOf(name.token = "*"), "parseFunctionBlockOrSemicolon")
       \o <<Restore({"Await"}), Finish("FunctionDeclaration")>>

parseMethodDeclaration(generator) ==
    <<Call("parseTypeParameters")>> \o Signature(FlagsOf(generator), "parseFunctionBlockOrSemicolon")
    \o <<Finish("MethodDeclaration")>>

parseAccessorDeclaration(a) ==      \* a is <<kind, the flags of the body>>
    <<Call("parsePropertyName"), Call("parseTypeParameters"), CallWith("parseParameters", {}),
      CallWith("parseReturnType", <<":", FALSE>>), CallWith("parseFunctionBlockOrSemicolon", a[2]), Finish(a[1])>>

\* tryParseConstructorDeclaration: once its name is read the speculation cannot fail.
\* A string literal is not spelled 'constructor' here.
parseConstructorDeclaration ==
    <<Expect("constructor"), Call("parseTypeParameters")>>
    \o Signature({}, "parseFunctionBlockOrSemicolon") \o <<Finish("Constructor")>>

-----------------------------------------------------------------------------
(* Classes.                                                                *)
-----------------------------------------------------------------------------
parseClassDeclarationOrExpression(kind) ==
    <<Expect("class"), Then("parseNameOfClassDeclarationOrExpression"), Call("parseTypeParameters"),
      SetFlags(IF HasModifier("export") THEN {"Await"} ELSE {}, {}), Call("parseHeritageClauses"), Expect("{"),
      If(<<CallWith("parseList", <<"ClassMembers", "parseClassElement", 0>>), Expect("}")>>,
         <<Call("createMissingList")>>),
      Restore({"Await"}), Finish(kind)>>

parseNameOfClassDeclarationOrExpression ==
    IF IsBindingIdentifier(scan) /\ ~(Token = "implements" /\ TokenIsIdentifierOrKeyword(After(scan)))
    THEN parseBindingIdentifier ELSE <<>>

parseHeritageClauses ==
    IF IsHeritageClause(scan) THEN parseList(<<"HeritageClauses", "parseHeritageClause", 0>>) ELSE <<>>

parseHeritageClause ==
    <<DebugAssert("heritage clause", IsHeritageClause(scan)), Next,
      CallWith("parseDelimitedList", <<"HeritageClauseElement", "parseExpressionWithTypeArguments", 0>>),
      Finish("HeritageClause")>>

parseExpressionWithTypeArguments ==
    <<Call("parseLeftHandSideExpressionOrHigher"), Then("parseTypeArgumentsOfHeritage")>>
parseTypeArgumentsOfHeritage ==
    IF HasTypeArguments THEN <<>>
    ELSE <<When({"<"}, <<CallWith("parseBracketedList", <<"TypeArguments", "parseType", 0, "<", ">">>)>>, <<>>),
           Finish("ExpressionWithTypeArguments")>>

parseClassElement ==
    IF Token = ";" THEN <<Next, Finish("SemicolonClassElement")>>
    ELSE <<CallWith("parseModifiers", ModifiersOf(TRUE, TRUE, TRUE)), Then("parseClassMember")>>

parseClassMember ==
    CASE Token = "static" /\ After(scan).token = "{" ->
           <<Next, SetFlags({"Await"}, {"Yield"}), CallWith("parseBlock", FALSE), Restore({"Yield", "Await"}),
             Finish("ClassStaticBlock")>>
      [] IsContextualModifier(scan, "get") ->
           <<Next, ThenWith("parseAccessorDeclaration", <<"GetAccessor", {}>>)>>
      [] IsContextualModifier(scan, "set") ->
           <<Next, ThenWith("parseAccessorDeclaration", <<"SetAccessor", {}>>)>>
      [] Token = "constructor"  -> parseConstructorDeclaration
      [] IsIndexSignature(scan) -> <<Then("parseIndexSignatureDeclaration")>>
      [] OTHER -> <<Then("parsePropertyOrMethodDeclaration")>>

parsePropertyOrMethodDeclaration ==
    CASE IsLiteralPropertyName(scan) \/ Token \in {"*", "["} ->
           <<SetFlags(IF HasModifier("declare") THEN {"Ambient"} ELSE {}, {}), OptionalToken("*"),
             ThenWith("parseNameOfMember", Token = "*"), Restore({"Ambient"})>>
      [] ~IsLiteralPropertyName(scan) /\ Token \notin {"*", "["} /\ Made # <<>> ->
           <<ErrorFull, Missing, ThenWith("parsePropertyDeclaration", FALSE)>>
      [] OTHER -> <<DebugAssert("class member", FALSE)>>

parseNameOfMember(generator) ==
    <<Call("parsePropertyName"),
      When({"?"}, <<TokenNode, ThenWith("parseMemberRest", <<generator, TRUE>>)>>,
                  <<ThenWith("parseMemberRest", <<generator, FALSE>>)>>)>>

parseMemberRest(m) ==      \* m is <<generator, has a question mark>>
    IF m[1] \/ Token \in {"(", "<"} THEN <<ThenWith("parseMethodDeclaration", m[1])>>
    ELSE <<ThenWith("parsePropertyDeclaration", m[2])>>

parsePropertyDeclaration(question) ==
    (IF ~question /\ ~HasPrecedingLineBreak(scan) THEN <<OptionalToken("!")>> ELSE <<>>)
    \o <<ThenWith("parseTypeOfProperty", IF question THEN Len(nodes) - 1 ELSE Len(nodes)), Finish("PropertyDeclaration")>>
parseTypeOfProperty(name) ==
    <<Call("parseTypeAnnotation"), ThenWith("parseInitializerOfProperty", <<name, Token = ":">>)>>
parseInitializerOfProperty(p) ==
    <<Outside({"Yield", "Await", "DisallowIn"}, "parseInitializer", 0),
      ThenWith("parseSemicolonAfterPropertyName", <<p[1], p[2], Token = "=">>)>>
==============================================================================
