----------------------------- MODULE ParserTypes -----------------------------
(***************************************************************************)
(* The rules of names, lists, literals, modifiers, parameters and types.   *)
(***************************************************************************)
EXTENDS ParserLookahead

-----------------------------------------------------------------------------
(* Names, literals and lists.                                              *)
-----------------------------------------------------------------------------
createMissingIdentifier == <<IF Token = "EOF" THEN ErrorFull ELSE Error, Missing>>

createIdentifier(isIdentifier) ==
    IF isIdentifier THEN <<IdentifierNode>> ELSE createMissingIdentifier

parseBindingIdentifier == createIdentifier(IsBindingIdentifier(scan))
parseIdentifier        == createIdentifier(IsIdentifier(scan))
parseIdentifierName    == createIdentifier(TokenIsIdentifierOrKeyword(scan))

parsePropertyName ==
    CASE Token \in Literals -> <<TokenNode>>
      [] Token = "["        -> <<Call("parseComputedPropertyName")>>
      [] OTHER              -> parseIdentifierName

parseComputedPropertyName ==
    <<Expect("["), Outside({"DisallowIn"}, "parseExpression", 0), Expect("]"),
      Finish("ComputedPropertyName")>>

tryParseSemicolon ==
    IF CanParseSemicolon(scan) THEN <<Optional(";"), Result(TRUE)>> ELSE <<Result(FALSE)>>

parseSemicolon == IF CanParseSemicolon(scan) THEN tryParseSemicolon ELSE <<Expect(";")>>

\* list is <<kind, the function of an element, its argument>>.
parseList(list) ==
    <<Enter(list[1]), ThenWith("parseListRest", list), Leave(parsingContext), Array>>

parseListRest(list) ==
    CASE IsListTerminator(list[1], scan) -> <<>>
      [] ~IsListTerminator(list[1], scan) /\ IsListElement(list[1], scan, FALSE) ->
           <<CallWith(list[2], list[3]), ThenWith("parseListRest", list)>>
      [] OTHER -> <<Error, ThenWith("abortParsingListOrMoveToNextToken", <<"parseListRest", list>>)>>

\* Mutant: the token nobody takes is not skipped.
abortParsingListWithoutMoving(goOn) ==
    IF IsInSomeParsingContext(scan) THEN <<Result(TRUE)>> ELSE <<ThenWith(goOn[1], goOn[2])>>

\* goOn is the loop to go on with when the list is not given up.
abortParsingListOrMoveToNextToken(goOn) ==
    IF IsInSomeParsingContext(scan) THEN <<Result(TRUE)>> ELSE <<Next, ThenWith(goOn[1], goOn[2])>>

parseDelimitedList(list) ==
    <<Enter(list[1]), ThenWith("parseDelimitedListRest", list), Leave(parsingContext),
      If(<<Array>>, <<Undefined>>)>>

parseDelimitedListRest(list) ==
    CASE IsListElement(list[1], scan, FALSE) ->
           <<CallWith(list[2], list[3]),
             ThenWith("parseDelimitedListNext", <<list, scan.start, Len(nodes)>>)>>
      [] ~IsListElement(list[1], scan, FALSE) /\ IsListTerminator(list[1], scan) -> <<Result(TRUE)>>
      [] OTHER ->
           <<Error, ThenWith("abortParsingListOrMoveToNextToken", <<"parseDelimitedListRest", list>>)>>

\* After an element: at is <<list, where the element started, the nodes before it>>.
parseDelimitedListNext(at) ==
    LET kind == at[1][1]
        more == ThenWith("parseDelimitedListRest", at[1])
        semicolon == kind \in {"ObjectLiteralMembers", "ImportAttributes"} /\ Token = ";" /\ ~HasPrecedingLineBreak(scan)
    IN CASE Len(nodes) = at[3] -> <<Result(FALSE)>>
         [] Len(nodes) > at[3] /\ Token = "," -> <<Next, more>>
         [] Len(nodes) > at[3] /\ Token # "," /\ IsListTerminator(kind, scan) -> <<Result(TRUE)>>
         [] OTHER -> <<Error>> \o (IF semicolon \/ scan.start = at[2] THEN <<Next>> ELSE <<>>) \o <<more>>

\* b is <<kind, function, argument, open, close>>.
parseBracketedList(b) ==
    <<Expect(b[4]), If(<<CallWith("parseDelimitedList", <<b[1], b[2], b[3]>>), Expect(b[5])>>,
                       <<MissingList>>)>>

parseEntityName(allowReservedWords) ==
    (IF allowReservedWords THEN parseIdentifierName ELSE parseIdentifier)
    \o <<ThenWith("parseEntityNameRest", allowReservedWords)>>

parseEntityNameRest(allowReservedWords) ==
    <<OptionalThen(".", <<When({"<"}, <<>>,
        <<CallWith("parseRightSideOfDot", allowReservedWords), Finish("QualifiedName"),
          ThenWith("parseEntityNameRest", allowReservedWords)>>)>>, <<>>)>>

parseRightSideOfDot(allowIdentifierNames) ==
    CASE /\ HasPrecedingLineBreak(scan) /\ TokenIsIdentifierOrKeyword(scan)
         /\ NextTokenIsIdentifierOrKeywordOnSameLine(scan) -> <<ErrorFull, Missing>>
      [] OTHER -> IF allowIdentifierNames THEN parseIdentifierName ELSE parseIdentifier

parseTemplateExpression == <<TokenNode, Then("parseTemplateSpans"), Finish("TemplateExpression")>>
parseTemplateSpans == <<Call("parseTemplateSpan"), Then("parseTemplateSpansRest")>>
parseTemplateSpansRest ==
    IF Kind(Children(LastNode)[2]) = "middle" THEN <<Then("parseTemplateSpans")>> ELSE <<>>
parseTemplateSpan ==
    <<Outside({"DisallowIn"}, "parseExpression", 0), Then("parseLiteralOfTemplateSpan"),
      Finish("TemplateSpan")>>

parseTemplateType == <<TokenNode, Then("parseTemplateTypeSpans"), Finish("TemplateLiteralType")>>
parseTemplateTypeSpans == <<Call("parseTemplateTypeSpan"), Then("parseTemplateTypeSpansRest")>>
parseTemplateTypeSpansRest ==
    IF Kind(Children(LastNode)[2]) = "middle" THEN <<Then("parseTemplateTypeSpans")>> ELSE <<>>
parseTemplateTypeSpan ==
    <<Call("parseType"), Then("parseLiteralOfTemplateSpan"), Finish("TemplateLiteralTypeSpan")>>

parseLiteralOfTemplateSpan ==
    IF Token = "}" THEN <<Rescan(RescannedTemplate(scan)), TokenNode>> ELSE <<Error, Missing>>

-----------------------------------------------------------------------------
(* Modifiers and decorators.                                               *)
-----------------------------------------------------------------------------
\* tryParseModifier: m is [decorators, const, block, static], what parseModifiers
\* was asked for and whether it has seen static.
IsModifier(m) ==
    CASE Token = "const" /\ m.const ->
           ~HasPrecedingLineBreak(After(scan)) /\ CanFollowModifier(After(scan))
      [] Token = "static" /\ m.block /\ After(scan).token = "{" -> FALSE
      [] Token = "static" /\ m.static -> FALSE
      [] OTHER -> IsModifierKind(scan) /\ NextTokenCanFollowModifier(scan)

ModifiersOf(decorators, const, block) ==
    [decorators |-> decorators, const |-> const, block |-> block, static |-> FALSE, phase |-> 0]

parseModifiers(m) ==
    <<ThenWith("parseDecorators", m.decorators), ThenWith("parseModifierRun", m), ArrayIfAny>>

parseDecorators(allowed) ==
    IF allowed /\ Token = "@"
    THEN <<Call("tryParseDecorator"), ThenWith("parseDecorators", TRUE)>> ELSE <<>>

\* phase 1: a modifier was read; phase 2: decorators were read after it.
parseModifierRun(m) ==
    CASE IsModifier(m) ->
           <<TokenNode, ThenWith("parseModifierRun",
                [m EXCEPT !.static = @ \/ Token = "static", !.phase = IF @ = 2 THEN 2 ELSE 1])>>
      [] ~IsModifier(m) /\ m.phase = 1 /\ m.decorators /\ Token = "@" ->
           <<ThenWith("parseDecorators", TRUE), ThenWith("parseModifierRun", [m EXCEPT !.phase = 2])>>
      [] OTHER -> <<>>

tryParseDecorator == <<Expect("@"), Inside({"Decorator"}, "parseDecoratorExpression", 0),
                       Finish("Decorator")>>

parseDecoratorExpression ==
    IF InAwaitContext /\ Token = "await"
    THEN parseIdentifier \o <<Next, ThenWith("parseMemberExpressionRest", TRUE),
                              Then("parseCallExpressionRest")>>
    ELSE <<Then("parseLeftHandSideExpressionOrHigher")>>

parseModifiersForArrowFunction == <<When({"async"}, <<TokenNode, Array>>, <<>>)>>

-----------------------------------------------------------------------------
(* Type parameters, parameters and signatures.                             *)
-----------------------------------------------------------------------------
parseTypeParameter ==
    <<CallWith("parseModifiers", ModifiersOf(FALSE, TRUE, FALSE)), Call("parseIdentifier"),
      OptionalThen("extends", <<Then("parseTypeParameterConstraint")>>, <<>>),
      OptionalThen("=", <<Call("parseType")>>, <<>>), Finish("TypeParameter")>>

parseTypeParameterConstraint ==
    IF IsStartOfType(scan) \/ ~IsStartOfExpression(scan) THEN <<Call("parseType")>>
    ELSE <<Call("parseUnaryExpressionOrHigher")>>

parseTypeParameters ==
    IF Token = "<"
    THEN <<CallWith("parseBracketedList", <<"TypeParameters", "parseTypeParameter", 0, "<", ">">>)>>
    ELSE <<>>

parseNameOfParameter(hasModifiers) ==
    <<Call("parseIdentifierOrPattern"), ThenWith("skipModifierAsName", hasModifiers)>>

\* A modifier that was not read as one is no name either: it is skipped.
skipModifierAsName(hasModifiers) ==
    IF Kind(LastNode) = "missing" /\ ~hasModifiers /\ IsModifierKind(scan) THEN <<Next>> ELSE <<>>

\* p is <<inOuterAwaitContext, allowAmbiguity>>.
parseParameterWorker(p) ==
    <<IF p[1] THEN Inside({"Await"}, "parseModifiers", ModifiersOf(TRUE, FALSE, FALSE))
      ELSE Outside({"Await"}, "parseModifiers", ModifiersOf(TRUE, FALSE, FALSE)),
      ThenWith("parseParameterRest", <<p[2], Len(nodes)>>)>>

IsParameterNameStart(s) == IsBindingIdentifier(s) \/ s.token \in {"[", "{"}

\* p is <<allowAmbiguity, the nodes before the modifiers>>.
parseParameterRest(p) ==
    LET hasModifiers == Len(nodes) > p[2]
        dots == Token = "..."
        name == IF dots THEN After(scan) ELSE scan
    IN CASE Token = "this" ->
              <<IdentifierNode, Call("parseTypeAnnotation")>>
              \o (IF hasModifiers THEN <<ErrorAt(LastNode[3])>> ELSE <<>>) \o <<Finish("Parameter")>>
         [] Token # "this" /\ ~p[1] /\ ~IsParameterNameStart(name) ->
              <<SetTopLevel(FALSE), OptionalToken("..."), Undefined>>
         [] OTHER ->
              <<SetTopLevel(FALSE), OptionalToken("..."),
                CallWith("parseNameOfParameter", hasModifiers), OptionalToken("?"),
                Call("parseTypeAnnotation"), Call("parseInitializer"), Finish("Parameter"),
                SetTopLevel(topLevel)>>

parseReturnType(r) ==      \* r is <<returnToken, isType>>
    LET type == Outside({"DisallowConditionalTypes"}, "parseTypeOrTypePredicate", 0)
    IN CASE r[1] = "=>" -> <<Expect("=>"), type>>
         [] r[1] = ":" /\ Token = ":" -> <<Next, type>>
         [] r[1] = ":" /\ Token = "=>" /\ r[2] -> <<Error, Next, type>>
         [] OTHER -> <<Result(FALSE)>>

YieldAwait(flags) == SetFlags(flags \cap {"Yield", "Await"}, {"Yield", "Await"} \ flags)

parseParametersWorker(p) ==    \* p is <<flags, allowAmbiguity>>
    <<YieldAwait(p[1]),
      CallWith("parseDelimitedList",
               IF "JSDoc" \in p[1] THEN <<"JSDocParameters", "parseJSDocParameter", 0>>
               ELSE <<"Parameters", "parseParameterWorker", <<InAwaitContext, p[2]>>>>),
      Restore({"Yield", "Await"})>>

parseParameters(flags) ==
    <<Expect("("), If(<<CallWith("parseParametersWorker", <<flags, TRUE>>), Expect(")")>>, <<MissingList>>)>>

parseTypeMemberSemicolon == IF Token = "," THEN <<Next>> ELSE parseSemicolon

parseSignatureMember(kind) ==
    (IF kind = "ConstructSignature" THEN <<Expect("new")>> ELSE <<>>)
    \o <<Call("parseTypeParameters"), CallWith("parseParameters", {"Type"}),
         CallWith("parseReturnType", <<":", TRUE>>), Call("parseTypeMemberSemicolon"), Finish(kind)>>

parseIndexSignatureDeclaration ==
    <<CallWith("parseBracketedList", <<"Parameters", "parseParameterWorker", <<FALSE, TRUE>>, "[", "]">>),
      Call("parseTypeAnnotation"), Call("parseTypeMemberSemicolon"), Finish("IndexSignature")>>

parsePropertyOrMethodSignature ==
    <<Call("parsePropertyName"), OptionalToken("?"),
      When({"(", "<"},
           <<Call("parseTypeParameters"), CallWith("parseParameters", {"Type"}),
             CallWith("parseReturnType", <<":", TRUE>>), Call("parseTypeMemberSemicolon"),
             Finish("MethodSignature")>>,
           <<Call("parseTypeAnnotation"), When({"="}, <<Call("parseInitializer")>>, <<>>),
             Call("parseTypeMemberSemicolon"), Finish("PropertySignature")>>)>>

parseTypeMember ==
    CASE Token \in {"(", "<"} -> parseSignatureMember("CallSignature")
      [] Token = "new" /\ After(scan).token \in {"(", "<"} -> parseSignatureMember("ConstructSignature")
      [] OTHER -> <<CallWith("parseModifiers", ModifiersOf(FALSE, FALSE, FALSE)),
                    Then("parseTypeMemberRest")>>

parseTypeMemberRest ==
    CASE IsContextualModifier(scan, "get") ->
           <<Next, ThenWith("parseAccessorDeclaration", <<"GetAccessor", {"Type"}>>)>>
      [] IsContextualModifier(scan, "set") ->
           <<Next, ThenWith("parseAccessorDeclaration", <<"SetAccessor", {"Type"}>>)>>
      [] IsIndexSignature(scan) -> parseIndexSignatureDeclaration
      [] OTHER -> parsePropertyOrMethodSignature

-----------------------------------------------------------------------------
(* Types.                                                                  *)
-----------------------------------------------------------------------------
parseTypeAnnotation == <<OptionalThen(":", <<Call("parseType")>>, <<>>)>>

parseTypeArgumentList ==
    <<CallWith("parseBracketedList", <<"TypeArguments", "parseType", 0, "<", ">">>)>>

parseTypeArgumentsOfTypeReference ==
    IF HasPrecedingLineBreak(scan) THEN <<>>
    ELSE <<Rescan(RescannedLess(scan)), When({"<"}, parseTypeArgumentList, <<>>)>>

parseTypeReference ==
    <<CallWith("parseEntityName", TRUE), Call("parseTypeArgumentsOfTypeReference"),
      Finish("TypeReference")>>

parseTypeQuery ==
    <<Expect("typeof"), CallWith("parseEntityName", TRUE), Call("parseTypeArgumentsOfTypeQuery"),
      Finish("TypeQuery")>>

parseTypeArgumentsOfTypeQuery ==
    IF ~HasPrecedingLineBreak(scan) /\ Token = "<" THEN parseTypeArgumentList ELSE <<>>

parseTypeLiteral == <<Call("parseObjectTypeMembers"), Finish("TypeLiteral")>>

parseObjectTypeMembers ==
    <<Expect("{"), If(<<CallWith("parseList", <<"TypeMembers", "parseTypeMember", 0>>), Expect("}")>>,
                      <<MissingList>>)>>

IsStartOfMappedType(s) ==
    LET n == After(s)
        m == IF n.token = "readonly" THEN After(n) ELSE n
    IN IF n.token \in {"+", "-"} THEN After(n).token = "readonly"
       ELSE /\ m.token = "[" /\ IsIdentifier(After(m)) /\ After(After(m)).token = "in"

parseMappedTypeParameter ==
    parseIdentifierName \o <<Expect("in"), Call("parseType"), Finish("TypeParameter")>>

parseMappedType ==
    <<Expect("{"),
      When({"readonly"}, <<TokenNode>>, <<When({"+", "-"}, <<TokenNode, Expect("readonly")>>, <<>>)>>),
      Expect("["), Call("parseMappedTypeParameter"),
      OptionalThen("as", <<Call("parseType")>>, <<>>), Expect("]"),
      When({"?"}, <<TokenNode>>, <<When({"+", "-"}, <<TokenNode, Expect("?")>>, <<>>)>>),
      Call("parseTypeAnnotation"), Call("parseSemicolon"),
      CallWith("parseList", <<"TypeMembers", "parseTypeMember", 0>>), Expect("}"),
      Finish("MappedType")>>

parseTupleElementType ==
    IF Token = "..." THEN <<Next, Call("parseType"), Finish("RestType")>>
    ELSE <<Call("parseType"), Then("parseOptionalTupleElement")>>

\* A postfix '?' makes an optional element: the nullable type starts where its type does.
parseOptionalTupleElement ==
    IF Kind(LastNode) = "NullableType" /\ LastNode[3] = Children(LastNode)[1][3]
    THEN <<Finish("OptionalType")>> ELSE <<>>

parseTupleElementNameOrTupleElementType ==
    IF IsTupleElementName(scan)
    THEN <<OptionalToken("..."), Call("parseIdentifierName"), OptionalToken("?"), Expect(":"),
           Call("parseTupleElementType"), Finish("NamedTupleMember")>>
    ELSE parseTupleElementType

parseTupleType ==
    <<CallWith("parseBracketedList",
               <<"TupleElementTypes", "parseTupleElementNameOrTupleElementType", 0, "[", "]">>),
      Finish("TupleType")>>

parseParenthesizedType == <<Expect("("), Call("parseType"), Expect(")"), Finish("ParenthesizedType")>>

parseFunctionOrConstructorType ==
    LET constructor == Token \in {"abstract", "new"}
    IN <<When({"abstract"}, <<TokenNode, Array>>, <<>>), Optional("new"),
         Call("parseTypeParameters"), CallWith("parseParameters", {"Type"}),
         CallWith("parseReturnType", <<"=>", FALSE>>),
         Finish(IF constructor THEN "ConstructorType" ELSE "FunctionType")>>

parseKeywordAndNoDot == <<TokenNode, When({"."}, <<Undefined>>, <<Result(TRUE)>>)>>

parseLiteralTypeNode(negative) ==
    IF negative THEN <<Next, TokenNode, Finish("PrefixUnary"), Finish("LiteralType")>>
    ELSE <<TokenNode, Finish("LiteralType")>>

parseImportType ==
    <<Optional("typeof"), Expect("import"), Expect("("), Call("parseType"),
      OptionalThen(",",
        <<Expect("{"), When({"with", "assert"}, <<Next>>, <<Error>>), Expect(":"),
          CallWith("parseImportAttributes", TRUE), Expect("}")>>, <<>>),
      Expect(")"), OptionalThen(".", <<CallWith("parseEntityName", TRUE)>>, <<>>),
      Call("parseTypeArgumentsOfTypeReference"), Finish("ImportType")>>

parseJSDocUnknownOrNullableType ==
    <<Next, When({",", "}", ")", ">", "=", "|"}, <<Finish("UnknownType")>>,
                 <<Call("parseType"), Finish("PrefixNullableType")>>)>>

parseJSDocFunctionType ==
    IF After(scan).token = "("
    THEN <<Next, CallWith("parseParameters", {"Type", "JSDoc"}),
           CallWith("parseReturnType", <<":", FALSE>>), Finish("JSDocFunctionType")>>
    ELSE parseIdentifierName \o <<Finish("TypeReference")>>

parseJSDocParameter ==
    (IF Token \in {"this", "new"} THEN parseIdentifierName \o <<Expect(":")>> ELSE <<>>)
    \o <<Call("parseJSDocType"), Finish("Parameter")>>

parseJSDocType ==
    <<OptionalThen("module", <<Then("skipModuleName")>>,
        <<When({"..."}, <<Next, Call("parseTypeOrTypePredicate"), Finish("JSDocVariadicType")>>,
                        <<Call("parseTypeOrTypePredicate")>>),
          OptionalThen("=", <<Finish("JSDocOptionalType")>>, <<>>)>>)>>

\* nextTokenJSDoc skips no trivia. The break of the code leaves the switch and
\* not the loop around it: the loop has no end.
skipModuleName ==
    (IF Token \in {"}", "EOF", ",", " "} THEN <<>> ELSE <<Rescan(TokenAt(scan.end))>>)
    \o <<Then("skipModuleName")>>

parseAssertsTypePredicate ==
    <<ExpectToken("asserts"), When({"this"}, <<TokenNode>>, <<Call("parseIdentifier")>>),
      OptionalThen("is", <<Call("parseType")>>, <<>>), Finish("TypePredicate")>>

parseNonArrayType ==
    CASE Token \in {"any", "unknown", "string", "number", "bigint", "symbol", "boolean", "undefined",
                    "never", "object"} ->
           <<TryParse("parseKeywordAndNoDot", 0), If(<<>>, <<Then("parseTypeReference")>>)>>
      [] Token \in {"*", "*="} -> <<Rescan(RescannedAsterisk(scan)), Next, Finish("JSDocAllType")>>
      [] Token \in {"?", "??"} -> <<Rescan(RescannedQuestion(scan))>> \o parseJSDocUnknownOrNullableType
      [] Token = "function" -> parseJSDocFunctionType
      [] Token = "!"        -> <<Next, Call("parseNonArrayType"), Finish("NonNullableType")>>
      [] Token \in {"template", "true", "false", "null"} \cup Literals -> parseLiteralTypeNode(FALSE)
      [] Token = "-" /\ After(scan).token = "1" -> parseLiteralTypeNode(TRUE)
      [] Token = "void"     -> <<TokenNode>>
      [] Token = "this"     -> <<TokenNode, Then("parseThisTypeRest")>>
      [] Token = "typeof"   -> IF After(scan).token = "import" THEN parseImportType ELSE parseTypeQuery
      [] Token = "{"        -> IF IsStartOfMappedType(scan) THEN parseMappedType ELSE parseTypeLiteral
      [] Token = "["        -> parseTupleType
      [] Token = "("        -> parseParenthesizedType
      [] Token = "import"   -> parseImportType
      [] Token = "asserts" /\ NextTokenIsIdentifierOrKeywordOnSameLine(scan) -> parseAssertsTypePredicate
      [] Token = "head"     -> parseTemplateType
      [] OTHER              -> parseTypeReference

parseThisTypeRest ==
    IF Token = "is" /\ ~HasPrecedingLineBreak(scan)
    THEN <<Next, Call("parseType"), Finish("TypePredicate")>> ELSE <<>>

parsePostfixTypeOrHigher == <<Call("parseNonArrayType"), Then("parsePostfixTypeRest")>>

parsePostfixTypeRest ==
    CASE HasPrecedingLineBreak(scan) -> <<>>
      [] ~HasPrecedingLineBreak(scan) /\ Token = "!" ->
           <<Next, Finish("NonNullableType"), Then("parsePostfixTypeRest")>>
      [] ~HasPrecedingLineBreak(scan) /\ Token = "?" ->
           IF IsStartOfType(After(scan)) THEN <<>>
           ELSE <<Next, Finish("NullableType"), Then("parsePostfixTypeRest")>>
      [] ~HasPrecedingLineBreak(scan) /\ Token = "[" ->
           IF IsStartOfType(After(scan))
           THEN <<Next, Call("parseType"), Expect("]"), Finish("IndexedAccessType"),
                  Then("parsePostfixTypeRest")>>
           ELSE <<Next, Expect("]"), Finish("ArrayType"), Then("parsePostfixTypeRest")>>
      [] OTHER -> <<>>

parseInferType == <<Expect("infer"), Call("parseTypeParameterOfInferType"), Finish("InferType")>>

parseTypeParameterOfInferType ==
    parseIdentifier \o <<TryParse("tryParseConstraintOfInferType", 0), Finish("TypeParameter")>>

tryParseConstraintOfInferType ==
    <<OptionalThen("extends",
        <<Inside({"DisallowConditionalTypes"}, "parseType", 0),
          IF "DisallowConditionalTypes" \in contextFlags THEN Result(TRUE)
          ELSE When({"?"}, <<Undefined>>, <<Result(TRUE)>>)>>,
        <<Undefined>>)>>

parseTypeOperatorOrHigher ==
    CASE Token \in {"keyof", "unique", "readonly"} ->
           <<Next, Call("parseTypeOperatorOrHigher"), Finish("TypeOperator")>>
      [] Token = "infer" -> parseInferType
      [] OTHER -> <<Outside({"DisallowConditionalTypes"}, "parsePostfixTypeOrHigher", 0)>>

\* u is <<operator, function of the constituents, kind of the node>>.
UnionType        == <<"|", "parseIntersectionTypeOrHigher", "UnionType">>
IntersectionType == <<"&", "parseTypeOperatorOrHigher", "IntersectionType">>

parseUnionTypeOrHigher        == <<ThenWith("parseUnionOrIntersectionType", UnionType)>>
parseIntersectionTypeOrHigher == <<ThenWith("parseUnionOrIntersectionType", IntersectionType)>>

parseUnionOrIntersectionType(u) ==
    IF Token = u[1]
    THEN <<Next, CallWith("parseConstituentType", u), ThenWith("parseUnionRest", u)>>
    ELSE <<Call(u[2]), When({u[1]}, <<ThenWith("parseUnionRest", u)>>, <<>>)>>

parseUnionRest(u) ==
    IF Token = u[1]
    THEN <<Next, CallWith("parseConstituentType", u), ThenWith("parseUnionRest", u)>>
    ELSE <<Finish(u[3])>>

parseConstituentType(u) ==
    <<Call("isStartOfFunctionTypeOrConstructorType"),
      If(<<Call("parseFunctionOrConstructorType"), ErrorAtNode>>, <<Call(u[2])>>)>>

isStartOfFunctionTypeOrConstructorType ==
    IF Token = "(" THEN <<LookAhead("isUnambiguouslyStartOfFunctionType", 0)>>
    ELSE <<Result(Token \in {"<", "new"} \/ (Token = "abstract" /\ After(scan).token = "new"))>>

isUnambiguouslyStartOfFunctionType ==
    <<Next, When({")", "..."}, <<Result(TRUE)>>,
      <<Call("skipParameterStart"),
        If(<<When({":", ",", "?", "="}, <<Result(TRUE)>>,
             <<OptionalThen(")", <<When({"=>"}, <<Result(TRUE)>>, <<Result(FALSE)>>)>>,
                            <<Result(FALSE)>>)>>)>>,
           <<Result(FALSE)>>)>>)>>

skipParameterStart ==
    (IF IsModifierKind(scan) THEN <<CallWith("parseModifiers", ModifiersOf(FALSE, FALSE, FALSE))>>
     ELSE <<>>) \o <<Then("skipParameterName")>>

skipParameterName ==
    CASE IsIdentifier(scan) \/ Token = "this" -> <<Next, Result(TRUE)>>
      [] Token \in {"[", "{"} ->
           <<Call("parseIdentifierOrPattern"), ThenWith("noNewErrors", Len(diagnostics))>>
      [] OTHER -> <<Result(FALSE)>>

noNewErrors(previousErrorCount) == <<Result(Len(diagnostics) = previousErrorCount)>>

parseTypeOrTypePredicate ==
    IF IsIdentifier(scan)
    THEN <<TryParse("parseTypePredicatePrefix", 0),
           If(<<Call("parseType"), Finish("TypePredicate")>>, <<Call("parseType")>>)>>
    ELSE <<Call("parseType")>>

parseTypePredicatePrefix ==
    parseIdentifier \o <<Then("parseTypePredicateIs")>>
parseTypePredicateIs ==
    IF Token = "is" /\ ~HasPrecedingLineBreak(scan) THEN <<Next, Result(TRUE)>> ELSE <<Undefined>>

parseType ==
    IF {"Yield", "Await"} \cap contextFlags # {} THEN <<Outside({"Yield", "Await"}, "parseType", 0)>>
    ELSE <<Call("isStartOfFunctionTypeOrConstructorType"),
           If(<<Call("parseFunctionOrConstructorType")>>,
              <<Call("parseUnionTypeOrHigher"), Then("parseConditionalType")>>)>>

parseConditionalType ==
    LET branch == Outside({"DisallowConditionalTypes"}, "parseType", 0)
    IN IF /\ "DisallowConditionalTypes" \notin contextFlags
          /\ ~HasPrecedingLineBreak(scan) /\ Token = "extends"
       THEN <<Next, Inside({"DisallowConditionalTypes"}, "parseType", 0), Expect("?"), branch,
              Expect(":"), branch, Finish("ConditionalType")>>
       ELSE <<>>
==============================================================================
