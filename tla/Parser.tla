-------------------------------- MODULE Parser --------------------------------
(***************************************************************************)
(* The parser of src/tsc/tsc-new-parser/parser.cpp: the machine that runs  *)
(* the rules of ParserDeclarations and the modules it extends.             *)
(*                                                                         *)
(* The stack holds the calls that are active, each with the steps it has   *)
(* left, the number of nodes there were when it began (mark) and where its *)
(* first token starts (at, getNodePos).  Each action below takes the first *)
(* step of the innermost call; a call with no step left has returned.      *)
(***************************************************************************)
EXTENDS ParserDeclarations

\* The function of that name.
Body(f, arg) ==
    CASE f = "parseBindingIdentifier" -> parseBindingIdentifier  [] f = "parseIdentifier" -> parseIdentifier
      [] f = "parseIdentifierName" -> parseIdentifierName  [] f = "parsePropertyName" -> parsePropertyName
      [] f = "parseComputedPropertyName" -> parseComputedPropertyName
      [] f = "parseSemicolon" -> parseSemicolon  [] f = "parseList" -> parseList(arg)
      [] f = "parseListRest" -> parseListRest(arg)
      [] f = "abortParsingListOrMoveToNextToken" -> abortParsingListOrMoveToNextToken(arg)
      [] f = "parseDelimitedList" -> parseDelimitedList(arg)
      [] f = "parseDelimitedListRest" -> parseDelimitedListRest(arg)
      [] f = "parseDelimitedListNext" -> parseDelimitedListNext(arg)
      [] f = "parseBracketedList" -> parseBracketedList(arg)  [] f = "parseEntityName" -> parseEntityName(arg)
      [] f = "parseEntityNameRest" -> parseEntityNameRest(arg)
      [] f = "parseRightSideOfDot" -> parseRightSideOfDot(arg)
      [] f = "parseTemplateExpression" -> parseTemplateExpression
      [] f = "parseTemplateSpans" -> parseTemplateSpans
      [] f = "parseTemplateSpansRest" -> parseTemplateSpansRest
      [] f = "parseTemplateSpan" -> parseTemplateSpan
      [] f = "parseTemplateTypeSpans" -> parseTemplateTypeSpans
      [] f = "parseTemplateTypeSpansRest" -> parseTemplateTypeSpansRest
      [] f = "parseTemplateTypeSpan" -> parseTemplateTypeSpan
      [] f = "parseLiteralOfTemplateSpan" -> parseLiteralOfTemplateSpan
      [] f = "parseModifiers" -> parseModifiers(arg)  [] f = "parseDecorators" -> parseDecorators(arg)
      [] f = "parseModifierRun" -> parseModifierRun(arg)  [] f = "tryParseDecorator" -> tryParseDecorator
      [] f = "parseDecoratorExpression" -> parseDecoratorExpression
      [] f = "parseModifiersForArrowFunction" -> parseModifiersForArrowFunction
      [] f = "parseTypeParameter" -> parseTypeParameter
      [] f = "parseTypeParameterConstraint" -> parseTypeParameterConstraint
      [] f = "parseTypeParameters" -> parseTypeParameters
      [] f = "parseNameOfParameter" -> parseNameOfParameter(arg)
      [] f = "skipModifierAsName" -> skipModifierAsName(arg)
      [] f = "parseParameterWorker" -> parseParameterWorker(arg)
      [] f = "parseParameterRest" -> parseParameterRest(arg)  [] f = "parseReturnType" -> parseReturnType(arg)
      [] f = "parseParametersWorker" -> parseParametersWorker(arg)
      [] f = "parseParameters" -> parseParameters(arg)
      [] f = "parseTypeMemberSemicolon" -> parseTypeMemberSemicolon
      [] f = "parseIndexSignatureDeclaration" -> parseIndexSignatureDeclaration
      [] f = "parseTypeMember" -> parseTypeMember  [] f = "parseTypeMemberRest" -> parseTypeMemberRest
      [] f = "parseTypeAnnotation" -> parseTypeAnnotation
      [] f = "parseTypeArgumentsOfTypeReference" -> parseTypeArgumentsOfTypeReference
      [] f = "parseTypeReference" -> parseTypeReference
      [] f = "parseTypeArgumentsOfTypeQuery" -> parseTypeArgumentsOfTypeQuery
      [] f = "parseObjectTypeMembers" -> parseObjectTypeMembers
      [] f = "parseMappedTypeParameter" -> parseMappedTypeParameter
      [] f = "parseTupleElementType" -> parseTupleElementType
      [] f = "parseOptionalTupleElement" -> parseOptionalTupleElement
      [] f = "parseTupleElementNameOrTupleElementType" -> parseTupleElementNameOrTupleElementType
      [] f = "parseFunctionOrConstructorType" -> parseFunctionOrConstructorType
      [] f = "parseKeywordAndNoDot" -> parseKeywordAndNoDot
      [] f = "parseJSDocParameter" -> parseJSDocParameter  [] f = "parseNonArrayType" -> parseNonArrayType
      [] f = "parseJSDocType" -> parseJSDocType  [] f = "skipModuleName" -> skipModuleName
      [] f = "parseThisTypeRest" -> parseThisTypeRest
      [] f = "parsePostfixTypeOrHigher" -> parsePostfixTypeOrHigher
      [] f = "parsePostfixTypeRest" -> parsePostfixTypeRest
      [] f = "parseTypeParameterOfInferType" -> parseTypeParameterOfInferType
      [] f = "tryParseConstraintOfInferType" -> tryParseConstraintOfInferType
      [] f = "parseTypeOperatorOrHigher" -> parseTypeOperatorOrHigher  
      [] f = "parseUnionTypeOrHigher" -> parseUnionTypeOrHigher
      [] f = "parseIntersectionTypeOrHigher" -> parseIntersectionTypeOrHigher
      [] f = "parseUnionOrIntersectionType" -> parseUnionOrIntersectionType(arg)
      [] f = "parseUnionRest" -> parseUnionRest(arg)
      [] f = "parseConstituentType" -> parseConstituentType(arg)
      [] f = "isStartOfFunctionTypeOrConstructorType" -> isStartOfFunctionTypeOrConstructorType
      [] f = "isUnambiguouslyStartOfFunctionType" -> isUnambiguouslyStartOfFunctionType
      [] f = "skipParameterStart" -> skipParameterStart  [] f = "skipParameterName" -> skipParameterName
      [] f = "noNewErrors" -> noNewErrors(arg)  [] f = "parseTypeOrTypePredicate" -> parseTypeOrTypePredicate
      [] f = "parseTypePredicatePrefix" -> parseTypePredicatePrefix
      [] f = "parseTypePredicateIs" -> parseTypePredicateIs  [] f = "parseType" -> parseType
      [] f = "parseConditionalType" -> parseConditionalType  [] f = "parseExpression" -> parseExpression
      [] f = "parseCommaRest" -> parseCommaRest  [] f = "parseInitializer" -> parseInitializer
      [] f = "parsePossibleParenthesizedArrowFunctionExpression" -> parsePossibleParenthesizedArrowFunctionExpression(arg)
      [] f = "parseParenthesizedArrowFunctionExpression" -> parseParenthesizedArrowFunctionExpression(arg)
      [] f = "createMissingList" -> createMissingList
      [] f = "parseReturnTypeOfArrow" -> parseReturnTypeOfArrow(arg)
      [] f = "parseArrowAndBody" -> parseArrowAndBody(arg)
      [] f = "parseArrowFunctionExpressionBody" -> parseArrowFunctionExpressionBody(arg)
      [] f = "parseSimpleArrowFunctionExpression" -> parseSimpleArrowFunctionExpression(arg)
      [] f = "parseParameterOfAsyncArrow" -> parseParameterOfAsyncArrow
      [] f = "isUnParenthesizedAsyncArrowFunctionWorker" -> isUnParenthesizedAsyncArrowFunctionWorker
      [] f = "isUnParenthesizedAsyncArrow" -> isUnParenthesizedAsyncArrow
      [] f = "isIdentifierBeforeArrow" -> isIdentifierBeforeArrow
      [] f = "parseYieldOperand" -> parseYieldOperand
      [] f = "parseAssignmentExpressionOrHigher" -> parseAssignmentExpressionOrHigher(arg)
      [] f = "parseAssignmentRest" -> parseAssignmentRest(arg)
      [] f = "parseBinaryExpressionOrHigher" -> parseBinaryExpressionOrHigher(arg)
      [] f = "parseBinaryExpressionRest" -> parseBinaryExpressionRest(arg)
      [] f = "parseBinaryOperator" -> parseBinaryOperator(arg)
      [] f = "parseUnaryExpressionOrHigher" -> parseUnaryExpressionOrHigher
      [] f = "parseUpdateExpression" -> parseUpdateExpression
      [] f = "parsePostfixOperator" -> parsePostfixOperator
      [] f = "parseSimpleUnaryExpression" -> parseSimpleUnaryExpression
      [] f = "parseLeftHandSideExpressionOrHigher" -> parseLeftHandSideExpressionOrHigher
      [] f = "parseSuperExpression" -> parseSuperExpression
      [] f = "parseMemberExpressionRest" -> parseMemberExpressionRest(arg)
      [] f = "parseCallExpressionRest" -> parseCallExpressionRest  [] f = "parseCall" -> parseCall
      [] f = "parseOptionalCall" -> parseOptionalCall  [] f = "parseArgumentList" -> parseArgumentList
      [] f = "parseTypeArgumentsInExpression" -> parseTypeArgumentsInExpression
      [] f = "parseTypeArgumentsEnd" -> parseTypeArgumentsEnd
      [] f = "canFollowTypeArgumentsInExpression" -> canFollowTypeArgumentsInExpression
      [] f = "parseArgumentOrArrayLiteralElement" -> parseArgumentOrArrayLiteralElement
      [] f = "parseArgumentExpression" -> parseArgumentExpression
      [] f = "parseObjectLiteralElement" -> parseObjectLiteralElement
      [] f = "parseObjectMember" -> parseObjectMember
      [] f = "parseObjectMemberName" -> parseObjectMemberName(arg)
      [] f = "parseObjectMemberRest" -> parseObjectMemberRest(arg)
      [] f = "parseOptionalBindingIdentifier" -> parseOptionalBindingIdentifier
      [] f = "parseMemberExpressionOfNew" -> parseMemberExpressionOfNew
      [] f = "parseArgumentsOfNew" -> parseArgumentsOfNew
      [] f = "parsePrimaryExpression" -> parsePrimaryExpression  [] f = "parseBlock" -> parseBlock(arg)
      [] f = "parseFunctionBlock" -> parseFunctionBlock(arg)
      [] f = "parseFunctionBlockOrSemicolon" -> parseFunctionBlockOrSemicolon(arg)
      [] f = "parseSemicolonAfterExpression" -> parseSemicolonAfterExpression
      [] f = "parseSemicolonAfterPropertyName" -> parseSemicolonAfterPropertyName(arg)
      [] f = "parseInitializerOfFor" -> parseInitializerOfFor(arg)
      [] f = "parseLabelOfJump" -> parseLabelOfJump  [] f = "parseOperandOfReturn" -> parseOperandOfReturn
      [] f = "parseOperandOfThrow" -> parseOperandOfThrow
      [] f = "parseCaseOrDefaultClause" -> parseCaseOrDefaultClause  [] f = "parseCaseBlock" -> parseCaseBlock
      [] f = "parseCatchClause" -> parseCatchClause
      [] f = "parseLabeledOrExpressionStatement" -> parseLabeledOrExpressionStatement
      [] f = "parseStatement" -> parseStatement  [] f = "parseArrayBindingElement" -> parseArrayBindingElement
      [] f = "parseObjectBindingElement" -> parseObjectBindingElement
      [] f = "parseObjectBindingName" -> parseObjectBindingName
      [] f = "parseIdentifierOrPattern" -> parseIdentifierOrPattern
      [] f = "parseVariableDeclaration" -> parseVariableDeclaration(arg)
      [] f = "parseVariableDeclarationRest" -> parseVariableDeclarationRest(arg)
      [] f = "parseVariableDeclarationList" -> parseVariableDeclarationList(arg)
      [] f = "parseVariableDeclarations" -> parseVariableDeclarations(arg)
      [] f = "parseVariableStatement" -> parseVariableStatement
      [] f = "parseFunctionDeclaration" -> parseFunctionDeclaration
      [] f = "parseMethodDeclaration" -> parseMethodDeclaration(arg)
      [] f = "parseAccessorDeclaration" -> parseAccessorDeclaration(arg)
      [] f = "parseClassDeclarationOrExpression" -> parseClassDeclarationOrExpression(arg)
      [] f = "parseNameOfClassDeclarationOrExpression" -> parseNameOfClassDeclarationOrExpression
      [] f = "parseHeritageClauses" -> parseHeritageClauses
      [] f = "parseHeritageClause" -> parseHeritageClause
      [] f = "parseExpressionWithTypeArguments" -> parseExpressionWithTypeArguments
      [] f = "parseTypeArgumentsOfHeritage" -> parseTypeArgumentsOfHeritage
      [] f = "parseClassElement" -> parseClassElement  [] f = "parseClassMember" -> parseClassMember
      [] f = "parsePropertyOrMethodDeclaration" -> parsePropertyOrMethodDeclaration
      [] f = "parseNameOfMember" -> parseNameOfMember(arg)  [] f = "parseMemberRest" -> parseMemberRest(arg)
      [] f = "parsePropertyDeclaration" -> parsePropertyDeclaration(arg)
      [] f = "parseTypeOfProperty" -> parseTypeOfProperty(arg)
      [] f = "parseInitializerOfProperty" -> parseInitializerOfProperty(arg)
      [] f = "parseDeclaration" -> parseDeclaration
      [] f = "parseAmbientOrOtherDeclaration" -> parseAmbientOrOtherDeclaration
      [] f = "parseDeclarationWorker" -> parseDeclarationWorker
      [] f = "parseDecoratedExpression" -> parseDecoratedExpression
      [] f = "parseInterfaceDeclaration" -> parseInterfaceDeclaration
      [] f = "parseTypeAliasDeclaration" -> parseTypeAliasDeclaration
      [] f = "parseEnumMember" -> parseEnumMember  [] f = "parseEnumDeclaration" -> parseEnumDeclaration
      [] f = "parseModuleBlock" -> parseModuleBlock
      [] f = "parseModuleOrNamespaceDeclaration" -> parseModuleOrNamespaceDeclaration(arg)
      [] f = "parseAmbientExternalModuleDeclaration" -> parseAmbientExternalModuleDeclaration
      [] f = "parseModuleDeclaration" -> parseModuleDeclaration
      [] f = "parseImportDeclarationOrImportEqualsDeclaration" -> parseImportDeclarationOrImportEqualsDeclaration
      [] f = "parseImportedModule" -> parseImportedModule
      [] f = "parseAttributesOfModule" -> parseAttributesOfModule
      [] f = "parseImportAttributes" -> parseImportAttributes(arg)
      [] f = "parseImportAttribute" -> parseImportAttribute
      [] f = "parseImportClause" -> parseImportClause(arg)
      [] f = "parseModuleReference" -> parseModuleReference
      [] f = "parseModuleSpecifier" -> parseModuleSpecifier
      [] f = "parseNamespaceImport" -> parseNamespaceImport
      [] f = "parseNamedImportsOrExports" -> parseNamedImportsOrExports(arg)
      [] f = "parseCheckedName" -> parseCheckedName(arg)
      [] f = "parseSpecifierNames" -> parseSpecifierNames(arg)
      [] f = "parseImportOrExportSpecifier" -> parseImportOrExportSpecifier(arg)
      [] f = "parseExport" -> parseExport  [] f = "parseExportAssignment" -> parseExportAssignment
      [] f = "parseNamespaceExport" -> parseNamespaceExport
      [] f = "parseModuleOfExport" -> parseModuleOfExport
      [] f = "parseExportDeclaration" -> parseExportDeclaration  [] f = "parseSourceFile" -> parseSourceFile
      [] f = "parseEndOfFile" -> parseEndOfFile

-----------------------------------------------------------------------------
Frame == stack[Len(stack)]
Step  == Head(Frame.code)
Rest  == Tail(Frame.code)
Takes(kind) == stack # <<>> /\ Step[1] = kind

\* The stack when the innermost call has the steps of code left.
Left(code) == IF code = <<>> THEN SubSeq(stack, 1, Len(stack) - 1)
              ELSE [stack EXCEPT ![Len(stack)].code = code]
GoOn(code) == stack' = Left(code)

\* The nodes when those the innermost call has made become one.
Outer == SubSeq(nodes, 1, Frame.mark)
Grouped(node) == Append(Outer, node)

Report(p) ==
    /\ diagnostics' = IF diagnostics # <<>> /\ diagnostics[Len(diagnostics)] = p
                      THEN diagnostics ELSE Append(diagnostics, p)
    /\ errorPending' = TRUE

InputOf == <<input, scan>>
Scopes  == <<contextFlags, parsingContext, topLevel, notArrow>>
Errors  == <<diagnostics, errorPending>>

-----------------------------------------------------------------------------
(* Tokens.                                                                 *)
-----------------------------------------------------------------------------
NextToken ==
    /\ Takes("next") /\ scan' = After(scan) /\ GoOn(Rest)
    /\ UNCHANGED <<input, Scopes, Errors, nodes, failed, ret>>

RescanToken ==
    /\ Takes("rescan") /\ scan' = Step[2] /\ GoOn(Rest)
    /\ UNCHANGED <<input, Scopes, Errors, nodes, failed, ret>>

ExpectedToken ==
    /\ Takes("expect") /\ Token = Step[2]
    /\ scan' = After(scan) /\ ret' = TRUE /\ GoOn(Rest)
    /\ UNCHANGED <<input, Scopes, Errors, nodes, failed>>

ExpectedTokenIsMissing ==
    /\ Takes("expect") /\ Token # Step[2]
    /\ Report(scan.start) /\ ret' = FALSE /\ GoOn(Rest)
    /\ UNCHANGED <<InputOf, Scopes, nodes, failed>>

\* parseTokenNode, createIdentifier: a node of one token.
TokenBecomesNode ==
    /\ \/ Takes("token") /\ nodes' = Append(nodes, <<Token, errorPending, scan.start, <<>>>>)
       \/ Takes("identifier") /\ nodes' = Append(nodes, <<"Identifier", errorPending, scan.start, <<>>>>)
    /\ scan' = After(scan) /\ errorPending' = FALSE /\ ret' = TRUE /\ GoOn(Rest)
    /\ UNCHANGED <<input, Scopes, diagnostics, failed>>

-----------------------------------------------------------------------------
(* Conditions and calls.                                                   *)
-----------------------------------------------------------------------------
Choose ==
    /\ \/ Takes("when") /\ GoOn((IF Token \in Step[2] THEN Step[3] ELSE Step[4]) \o Rest)
       \/ Takes("if") /\ GoOn((IF ret THEN Step[2] ELSE Step[3]) \o Rest)
    /\ UNCHANGED <<InputOf, Scopes, Errors, nodes, failed, ret>>

EnterFunction(body) ==
    stack' = IF body = <<>> THEN Left(Rest)
             ELSE Append(Left(Rest), [code |-> body, mark |-> Len(nodes), at |-> scan.start])

CallFunction ==
    /\ Takes("call") /\ EnterFunction(Body(Step[2], Step[3]))
    /\ UNCHANGED <<InputOf, Scopes, Errors, nodes, failed, ret>>

Continue ==
    /\ Takes("then") /\ GoOn(Body(Step[2], Step[3]) \o Rest)
    /\ UNCHANGED <<InputOf, Scopes, Errors, nodes, failed, ret>>

\* doInsideOfContext, doOutsideOfContext: the flags that change are restored.
ChangeContext ==
    /\ LET c == Step[2] IN
       \/ /\ Takes("inside") /\ contextFlags' = contextFlags \cup c
          /\ GoOn(<<CallWith(Step[3], Step[4]), SetFlags({}, c \ contextFlags)>> \o Rest)
       \/ /\ Takes("outside") /\ contextFlags' = contextFlags \ c
          /\ GoOn(<<CallWith(Step[3], Step[4]), SetFlags(c \cap contextFlags, {})>> \o Rest)
    /\ UNCHANGED <<InputOf, parsingContext, topLevel, notArrow, Errors, nodes, failed, ret>>

SetScopes ==
    /\ \/ /\ Takes("flags") /\ contextFlags' = (contextFlags \cup Step[2]) \ Step[3]
          /\ UNCHANGED <<parsingContext, topLevel, notArrow>>
       \/ /\ Takes("enter") /\ parsingContext' = parsingContext \cup {Step[2]}
          /\ UNCHANGED <<contextFlags, topLevel, notArrow>>
       \/ /\ Takes("leave") /\ parsingContext' = Step[2]
          /\ UNCHANGED <<contextFlags, topLevel, notArrow>>
       \/ /\ Takes("topLevel") /\ topLevel' = Step[2]
          /\ UNCHANGED <<contextFlags, parsingContext, notArrow>>
       \/ /\ Takes("no arrow") /\ notArrow' = notArrow \cup {Step[2]}
          /\ UNCHANGED <<contextFlags, parsingContext, topLevel>>
    /\ GoOn(Rest) /\ UNCHANGED <<InputOf, Errors, nodes, failed, ret>>

-----------------------------------------------------------------------------
(* Speculation.                                                            *)
-----------------------------------------------------------------------------
\* speculationHelper: what is saved, and what is restored when the callback
\* has returned.
Saved == [scan |-> scan, diagnostics |-> Len(diagnostics), errorPending |-> errorPending,
          nodes |-> Len(nodes), contextFlags |-> contextFlags]

Speculate ==
    /\ Takes("speculate")
    /\ GoOn(<<CallWith(Step[2], Step[3]), <<"settle", Step[4], Saved>>>> \o Rest)
    /\ UNCHANGED <<InputOf, Scopes, Errors, nodes, failed, ret>>

RestoreSaved(saved) ==
    /\ scan' = saved.scan
    /\ diagnostics' = SubSeq(diagnostics, 1, saved.diagnostics)
    /\ errorPending' = saved.errorPending
    /\ nodes' = SubSeq(nodes, 1, saved.nodes)

Settle ==
    /\ Takes("settle")
    /\ LET saved == Step[3]
       IN IF contextFlags # saved.contextFlags
          THEN failed' = "speculation" /\ stack' = <<>> /\ UNCHANGED <<scan, Errors, nodes>>
          ELSE /\ GoOn(Rest) /\ UNCHANGED failed
               /\ IF Step[2] = "lookAhead" \/ ~ret THEN RestoreSaved(saved)
                  ELSE UNCHANGED <<scan, Errors, nodes>>
    /\ UNCHANGED <<input, Scopes, ret>>

-----------------------------------------------------------------------------
(* Nodes and errors.                                                       *)
-----------------------------------------------------------------------------
\* finishNode: the node takes the error that waits for one.
FinishNode ==
    /\ \/ Takes("finish") /\ nodes' = Grouped(<<Step[2], errorPending, Frame.at, Made>>)
       \/ Takes("missing") /\ nodes' = Append(nodes, <<"missing", errorPending, scan.start, <<>>>>)
    /\ errorPending' = FALSE /\ ret' = TRUE /\ GoOn(Rest)
    /\ UNCHANGED <<InputOf, Scopes, diagnostics, failed>>

GroupNodes ==
    /\ \/ /\ Takes("array") /\ nodes' = Grouped(<<Step[2], FALSE, Frame.at, Made>>) /\ ret' = TRUE
       \/ /\ Takes("arrayIfAny") /\ ret' = (Made # <<>>)
          /\ nodes' = IF Made = <<>> THEN nodes ELSE Grouped(<<"List", FALSE, Frame.at, Made>>)
       \/ Takes("open") /\ nodes' = SubSeq(nodes, 1, Len(nodes) - 1) \o Children(LastNode) /\ UNCHANGED ret
    /\ GoOn(Rest) /\ UNCHANGED <<InputOf, Scopes, Errors, failed>>

ReportError ==
    /\ \/ Takes("error") /\ Report(CASE Step[2] = "token" -> scan.start
                                     [] Step[2] = "full"  -> FullStart(scan)
                                     [] Step[2] = "node"  -> LastNode[3])
       \/ Takes("error at") /\ Report(Step[2])
    /\ GoOn(Rest) /\ UNCHANGED <<InputOf, Scopes, nodes, failed, ret>>

Return ==
    /\ \/ Takes("result") /\ ret' = Step[2] /\ UNCHANGED nodes
       \/ Takes("undefined") /\ ret' = FALSE /\ nodes' = Outer
       \/ Takes("drop") /\ nodes' = SubSeq(nodes, 1, Len(nodes) - 1) /\ UNCHANGED ret
    /\ GoOn(Rest) /\ UNCHANGED <<InputOf, Scopes, Errors, failed>>

\* A Debug::_assert that fails ends the program.
CheckAssert ==
    /\ Takes("assert")
    /\ IF Step[3] THEN GoOn(Rest) /\ UNCHANGED failed ELSE stack' = <<>> /\ failed' = Step[2]
    /\ UNCHANGED <<InputOf, Scopes, Errors, nodes, ret>>

-----------------------------------------------------------------------------
Start ==
    /\ scan = ScanFrom(1)
    /\ contextFlags = {} /\ parsingContext = {} /\ diagnostics = <<>> /\ errorPending = FALSE
    /\ topLevel = TRUE /\ notArrow = {} /\ nodes = <<>> /\ failed = "none" /\ ret = TRUE
    /\ stack = <<[code |-> parseSourceFile, mark |-> 0, at |-> 1]>>

Init == input \in Inputs /\ Start

Run ==
    \/ NextToken \/ RescanToken \/ ExpectedToken \/ ExpectedTokenIsMissing \/ TokenBecomesNode
    \/ Choose \/ CallFunction \/ Continue \/ ChangeContext \/ SetScopes
    \/ Speculate \/ Settle \/ FinishNode \/ GroupNodes \/ ReportError \/ Return \/ CheckAssert

Terminating == stack = <<>> /\ UNCHANGED vars

\* The parser is one thread: it takes its next step as long as there is one.
Spec == Init /\ [][Run \/ Terminating]_vars /\ WF_vars(Run)
==============================================================================
