------------------------------ MODULE NodeVisitor ------------------------------
(***************************************************************************)
(* forEachChild and forEachChildRecursively of utilities.h: the children   *)
(* that a visitor is shown, and the order it is shown them in.  A kind     *)
(* that the switch has no case for has no children to show.  The walk of a *)
(* ClassStaticBlockDeclaration goes on into the case after it, which takes *)
(* its node for another one: no tree of this project has one.              *)
(***************************************************************************)
EXTENDS SyntaxTree, SequencesExt

VisitsOfJSDocTypes(kind) ==
    CASE kind \in JSDocTypes            -> <<"type">>
      [] kind = "JSDocFunctionType"     -> <<"parameters", "type">>
      [] kind = "PartiallyEmittedExpression" -> <<"expression">>
      [] OTHER -> <<>>

VisitsOfTemplatesAndJsx(kind) ==
    CASE kind \in {"TemplateExpression", "TemplateLiteralType"} -> <<"head", "templateSpans">>
      [] kind = "TemplateSpan"             -> <<"expression", "literal">>
      [] kind = "TemplateLiteralTypeSpan"  -> <<"type", "literal">>
      [] kind = "HeritageClause"           -> <<"types">>
      [] kind = "ExpressionWithTypeArguments" -> <<"expression", "typeArguments">>
      [] kind \in {"ComputedPropertyName", "ExternalModuleReference", "JsxSpreadAttribute"} -> <<"expression">>
      [] kind = "MissingDeclaration"       -> <<"modifiers">>
      [] kind = "CommaListExpression"      -> <<"elements">>
      [] kind = "JsxElement"               -> <<"openingElement", "children", "closingElement">>
      [] kind = "JsxFragment"              -> <<"openingFragment", "children", "closingFragment">>
      [] kind \in {"JsxSelfClosingElement", "JsxOpeningElement"} -> <<"tagName", "typeArguments", "attributes">>
      [] kind = "JsxAttributes"            -> <<"properties">>
      [] kind = "JsxAttribute"             -> <<"name", "initializer">>
      [] kind = "JsxExpression"            -> <<"dotDotDotToken", "expression">>
      [] kind = "JsxClosingElement"        -> <<"tagName">>
      [] kind \in {"OptionalType", "RestType"} -> <<"type">>
      [] OTHER -> VisitsOfJSDocTypes(kind)

VisitsOfDeclarations(kind) ==
    CASE kind \in ClassLikes \cup {"InterfaceDeclaration"} ->
           <<"modifiers", "name", "typeParameters", "heritageClauses", "members">>
      [] kind = "TypeAliasDeclaration"    -> <<"modifiers", "name", "typeParameters", "type">>
      [] kind = "EnumDeclaration"         -> <<"modifiers", "name", "members">>
      [] kind = "EnumMember"              -> <<"name", "initializer">>
      [] kind = "ModuleDeclaration"       -> <<"modifiers", "name", "body">>
      [] kind = "ImportEqualsDeclaration" -> <<"modifiers", "name", "moduleReference">>
      [] kind = "ImportDeclaration"       -> <<"modifiers", "importClause", "moduleSpecifier", "attributes">>
      [] kind = "ImportClause"            -> <<"name", "namedBindings">>
      [] kind = "NamespaceExportDeclaration" -> <<"modifiers", "name">>
      [] kind \in {"NamespaceImport", "NamespaceExport"} -> <<"name">>
      [] kind \in {"NamedImports", "NamedExports"} -> <<"elements">>
      [] kind = "ExportDeclaration"       -> <<"modifiers", "exportClause", "moduleSpecifier", "attributes">>
      [] kind \in {"ImportSpecifier", "ExportSpecifier"} -> <<"propertyName", "name">>
      [] kind = "ExportAssignment"        -> <<"modifiers", "expression">>
      [] OTHER -> VisitsOfTemplatesAndJsx(kind)

VisitsOfStatements(kind) ==
    CASE kind \in {"Block", "ModuleBlock", "DefaultClause"} -> <<"statements">>
      [] kind = "SourceFile"              -> <<"statements", "endOfFileToken">>
      [] kind = "VariableStatement"       -> <<"modifiers", "declarationList">>
      [] kind = "VariableDeclarationList" -> <<"declarations">>
      [] kind \in {"ExpressionStatement", "Return", "Throw", "Decorator"} -> <<"expression">>
      [] kind = "If"                      -> <<"expression", "thenStatement", "elseStatement">>
      [] kind = "Do"                      -> <<"statement", "expression">>
      [] kind \in {"While", "With"}       -> <<"expression", "statement">>
      [] kind = "For"                     -> <<"initializer", "condition", "incrementor", "statement">>
      [] kind = "ForIn"                   -> <<"initializer", "expression", "statement">>
      [] kind = "ForOf"                   -> <<"awaitModifier", "initializer", "expression", "statement">>
      [] kind \in {"Continue", "Break"}   -> <<"label">>
      [] kind = "Switch"                  -> <<"expression", "caseBlock">>
      [] kind = "CaseBlock"               -> <<"clauses">>
      [] kind = "CaseClause"              -> <<"expression", "statements">>
      [] kind = "Labeled"                 -> <<"label", "statement">>
      [] kind = "Try"                     -> <<"tryBlock", "catchClause", "finallyBlock">>
      [] kind = "CatchClause"             -> <<"variableDeclaration", "block">>
      [] OTHER -> VisitsOfDeclarations(kind)

VisitsOfExpressions(kind) ==
    CASE kind \in {"ObjectBindingPattern", "ArrayBindingPattern", "ArrayLiteral"} -> <<"elements">>
      [] kind = "ObjectLiteral"           -> <<"properties">>
      [] kind = "PropertyAccess"          -> <<"expression", "questionDotToken", "name">>
      [] kind = "ElementAccess"           -> <<"expression", "questionDotToken", "argumentExpression">>
      [] kind = "Call"                    -> <<"expression", "questionDotToken", "typeArguments", "arguments">>
      [] kind = "New"                     -> <<"expression", "typeArguments", "arguments">>
      [] kind = "TaggedTemplate"          -> <<"tag", "questionDotToken", "typeArguments", "_template">>
      [] kind = "TypeAssertion"           -> <<"type", "expression">>
      [] kind \in Unaries                 -> <<"expression">>
      [] kind \in {"PrefixUnary", "PostfixUnary"} -> <<"operand">>
      [] kind = "Yield"                   -> <<"asteriskToken", "expression">>
      [] kind = "Binary"                  -> <<"left", "operatorToken", "right">>
      [] kind \in {"As", "Satisfies"}     -> <<"expression", "type">>
      [] kind = "MetaProperty"            -> <<"name">>
      [] kind = "Conditional" -> <<"condition", "questionToken", "whenTrue", "colonToken", "whenFalse">>
      [] OTHER -> VisitsOfStatements(kind)

VisitsOfTypes(kind) ==
    CASE kind = "TypeReference"     -> <<"typeName", "typeArguments">>
      [] kind = "TypePredicate"     -> <<"assertsModifier", "parameterName", "type">>
      [] kind = "TypeQuery"         -> <<"exprName", "typeArguments">>
      [] kind = "TypeLiteral"       -> <<"members">>
      [] kind = "ArrayType"         -> <<"elementType">>
      [] kind = "TupleType"         -> <<"elements">>
      [] kind \in {"UnionType", "IntersectionType"} -> <<"types">>
      [] kind = "ConditionalType"   -> <<"checkType", "extendsType", "trueType", "falseType">>
      [] kind = "InferType"         -> <<"typeParameter">>
      [] kind = "ImportType"        -> <<"argument", "attributes", "qualifier", "typeArguments">>
      [] kind \in {"ParenthesizedType", "TypeOperator"} -> <<"type">>
      [] kind = "IndexedAccessType" -> <<"objectType", "indexType">>
      [] kind = "MappedType"        -> <<"readonlyToken", "typeParameter", "nameType", "questionToken", "type">>
      [] kind = "LiteralType"       -> <<"literal">>
      [] kind = "NamedTupleMember"  -> <<"dotDotDotToken", "name", "questionToken", "type">>
      [] OTHER -> VisitsOfExpressions(kind)

Visits(kind) ==
    CASE kind = "QualifiedName" -> <<"left", "right">>
      [] kind = "TypeParameter" -> <<"modifiers", "name", "constraint", "_default", "expression">>
      [] kind = "ShorthandPropertyAssignment" ->
           <<"modifiers", "name", "questionToken", "exclamationToken", "equalsToken", "objectAssignmentInitializer">>
      [] kind = "SpreadAssignment" -> <<"expression">>
      [] kind = "Parameter" ->
           <<"modifiers", "dotDotDotToken", "name", "questionToken", "type", "initializer">>
      [] kind = "PropertyDeclaration" ->
           <<"modifiers", "name", "questionToken", "exclamationToken", "type", "initializer">>
      [] kind = "PropertySignature"   -> <<"modifiers", "name", "questionToken", "type", "initializer">>
      [] kind = "PropertyAssignment"  -> <<"modifiers", "name", "questionToken", "initializer">>
      [] kind = "VariableDeclaration" -> <<"modifiers", "name", "exclamationToken", "type", "initializer">>
      [] kind = "BindingElement" -> <<"modifiers", "dotDotDotToken", "propertyName", "name", "initializer">>
      [] kind \in Signatures \cup {"MethodSignature"} ->
           <<"modifiers", "name", "questionToken", "typeParameters", "parameters", "type">>
      [] kind \in FunctionLikes \cup {"ArrowFunction"} ->
           <<"modifiers", "asteriskToken", "name", "questionToken", "exclamationToken", "typeParameters", "parameters",
             "type", "equalsGreaterThanToken", "body">>
      [] OTHER -> VisitsOfTypes(kind)

\* What forEachChild shows of a node; a token has nothing to show.
ChildrenOf(tree) == LET roles == Visits(tree.kind) IN FlattenSeq([i \in DOMAIN roles |-> Under(tree, roles[i])])

\* forEachChildRecursively: the node shown next is the last of the queue, and
\* its children follow the rest of the queue, so that its first child is next.
RECURSIVE WalkFrom(_)

\* Mutant: the children are put on the queue as they come.
WalkFromLastChild(queue) ==
    IF queue = <<>> THEN <<>> ELSE <<queue[1]>> \o WalkFrom(Reverse(ChildrenOf(queue[1])) \o Tail(queue))

WalkFrom(queue) == IF queue = <<>> THEN <<>>
                   ELSE <<queue[1]>> \o WalkFrom(ChildrenOf(queue[1]) \o Tail(queue))
Walk(tree) == WalkFrom(ChildrenOf(tree))
===============================================================================
