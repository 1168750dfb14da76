------------------------------ MODULE SyntaxTree ------------------------------
(***************************************************************************)
(* The nodes of the syntax tree of src/tsc/tsc-new-parser/parser_types.h:  *)
(* what a node of each kind holds, in the order in which it stands in the  *)
(* text.  A tree is a record: its kind, the text of a token or the         *)
(* operator of a node that keeps it (text), and what it holds under each   *)
(* of its roles (kids): a tree, or a sequence of trees where the role is   *)
(* one of ListRoles.  A role that kids does not have is undefined, or an   *)
(* empty array, in the program.                                            *)
(*                                                                         *)
(* The names are those of SyntaxKind, without the words Expression and     *)
(* Statement where the parser's rules leave them out too.                  *)
(***************************************************************************)
EXTENDS Integers, Sequences, FiniteSets

Node(kind, kids) == [kind |-> kind, text |-> "", kids |-> kids]
Leaf(kind, text) == [kind |-> kind, text |-> text, kids |-> <<>>]
Has(tree, role)  == role \in DOMAIN tree.kids

\* Roles that hold a NodeArray.
ListRoles == {"modifiers", "typeParameters", "parameters", "typeArguments", "arguments", "elements", "members",
              "properties", "statements", "declarations", "clauses", "types", "heritageClauses", "templateSpans",
              "children", "tags", "jsDocPropertyTags"}

Signatures    == {"CallSignature", "ConstructSignature", "IndexSignature", "FunctionType", "ConstructorType"}
FunctionLikes == {"MethodDeclaration", "Constructor", "GetAccessor", "SetAccessor", "FunctionExpression",
                  "FunctionDeclaration"}
ClassLikes    == {"ClassDeclaration", "ClassExpression"}
JSDocTypes    == {"JSDocTypeExpression", "JSDocNonNullableType", "JSDocNullableType", "JSDocOptionalType",
                  "JSDocVariadicType"}
Unaries       == {"Delete", "TypeOf", "Void", "Await", "Parenthesized", "NonNullExpression", "SpreadElement"}

OfNamesAndParameters(kind) ==
    CASE kind = "QualifiedName"               -> <<"left", "right">>
      [] kind = "ExpressionWithTypeArguments" -> <<"expression", "typeArguments">>
      [] kind \in {"ComputedPropertyName", "Decorator"} -> <<"expression">>
      [] kind = "ClassStaticBlock"            -> <<"modifiers", "body">>
      [] kind = "TypeParameter"               -> <<"modifiers", "name", "constraint", "_default">>
      [] OTHER -> <<>>

OfVariables(kind) ==
    CASE kind \in Signatures                  -> <<"modifiers", "typeParameters", "parameters", "type">>
      [] kind = "VariableDeclaration"         -> <<"name", "exclamationToken", "type", "initializer">>
      [] kind = "VariableDeclarationList"     -> <<"declarations">>
      [] kind = "Parameter" ->
           <<"modifiers", "dotDotDotToken", "name", "questionToken", "type", "initializer">>
      [] kind = "BindingElement"              -> <<"dotDotDotToken", "propertyName", "name", "initializer">>
      [] kind = "PropertySignature"           -> <<"modifiers", "name", "questionToken", "type">>
      [] kind = "PropertyDeclaration" ->
           <<"modifiers", "name", "questionToken", "exclamationToken", "type", "initializer">>
      [] kind = "PropertyAssignment"          -> <<"name", "initializer">>
      [] kind = "ShorthandPropertyAssignment" -> <<"name", "equalsToken", "objectAssignmentInitializer">>
      [] kind = "SpreadAssignment"            -> <<"expression">>
      [] kind \in {"ObjectBindingPattern", "ArrayBindingPattern"} -> <<"elements">>
      [] kind = "MethodSignature" ->
           <<"modifiers", "name", "questionToken", "typeParameters", "parameters", "type">>
      [] kind \in FunctionLikes ->
           <<"modifiers", "asteriskToken", "name", "questionToken", "exclamationToken", "typeParameters", "parameters",
             "type", "body">>
      [] OTHER -> <<>>

OfTypes(kind) ==
    CASE kind = "ImportType"            -> <<"argument", "attributes", "qualifier", "typeArguments">>
      [] kind = "LiteralType"           -> <<"literal">>
      [] kind = "TypeReference"         -> <<"typeName", "typeArguments">>
      [] kind = "TypePredicate"         -> <<"assertsModifier", "parameterName", "type">>
      [] kind = "TypeQuery"             -> <<"exprName", "typeArguments">>
      [] kind = "TypeLiteral"           -> <<"members">>
      [] kind = "ArrayType"             -> <<"elementType">>
      [] kind = "TupleType"             -> <<"elements">>
      [] kind = "NamedTupleMember"      -> <<"dotDotDotToken", "name", "questionToken", "type">>
      [] kind \in {"OptionalType", "RestType", "ParenthesizedType", "TypeOperator"} -> <<"type">>
      [] kind \in {"UnionType", "IntersectionType"} -> <<"types">>
      [] kind = "ConditionalType"       -> <<"checkType", "extendsType", "trueType", "falseType">>
      [] kind = "InferType"             -> <<"typeParameter">>
      [] OTHER -> <<>>

OfTypesAndUnaries(kind) ==
    CASE kind = "IndexedAccessType"     -> <<"objectType", "indexType">>
      [] kind = "MappedType"            -> <<"readonlyToken", "typeParameter", "nameType", "questionToken", "type", "members">>
      [] kind \in {"TemplateLiteralType", "TemplateExpression"} -> <<"head", "templateSpans">>
      [] kind = "TemplateLiteralTypeSpan" -> <<"type", "literal">>
      [] kind \in {"PrefixUnary", "PostfixUnary"} -> <<"operand">>
      [] kind \in Unaries \cup {"PartiallyEmittedExpression"} -> <<"expression">>
      [] kind = "Yield"                 -> <<"asteriskToken", "expression">>
      [] OTHER -> <<>>

OfOperations(kind) ==
    CASE kind = "Binary"         -> <<"left", "operatorToken", "right">>
      [] kind = "Conditional"    -> <<"condition", "questionToken", "whenTrue", "colonToken", "whenFalse">>
      [] kind = "ArrowFunction" ->
           <<"modifiers", "typeParameters", "parameters", "type", "equalsGreaterThanToken", "body">>
      [] kind = "TemplateSpan"   -> <<"expression", "literal">>
      [] kind = "ArrayLiteral"   -> <<"elements">>
      [] OTHER -> <<>>

OfAccesses(kind) ==
    CASE kind = "ObjectLiteral"    -> <<"properties">>
      [] kind = "PropertyAccess"   -> <<"expression", "questionDotToken", "name">>
      [] kind = "ElementAccess"    -> <<"expression", "questionDotToken", "argumentExpression">>
      [] kind = "Call"             -> <<"expression", "questionDotToken", "typeArguments", "arguments">>
      [] OTHER -> <<>>

OfCallsAndAssertions(kind) ==
    CASE kind = "New"              -> <<"expression", "typeArguments", "arguments">>
      [] kind = "TaggedTemplate"   -> <<"tag", "questionDotToken", "typeArguments", "_template">>
      [] kind \in {"As", "Satisfies"} -> <<"expression", "type">>
      [] kind = "TypeAssertion"    -> <<"type", "expression">>
      [] kind = "MetaProperty"     -> <<"name">>
      [] OTHER -> <<>>

OfJsx(kind) ==
    CASE kind = "JsxElement"             -> <<"openingElement", "children", "closingElement">>
      [] kind = "JsxFragment"            -> <<"openingFragment", "children", "closingFragment">>
      [] kind = "JsxAttributes"          -> <<"properties">>
      [] kind = "JsxNamespacedName"      -> <<"_namespace", "name">>
      [] kind \in {"JsxOpeningElement", "JsxSelfClosingElement"} -> <<"tagName", "typeArguments", "attributes">>
      [] kind = "JsxAttribute"           -> <<"name", "initializer">>
      [] kind = "JsxSpreadAttribute"     -> <<"expression">>
      [] kind = "JsxClosingElement"      -> <<"tagName">>
      [] kind = "JsxExpression"          -> <<"dotDotDotToken", "expression">>
      [] OTHER -> <<>>

OfStatements(kind) ==
    CASE kind = "CommaListExpression"    -> <<"elements">>
      [] kind = "MissingDeclaration"     -> <<"modifiers">>
      [] kind = "Block"                  -> <<"statements">>
      [] kind = "VariableStatement"      -> <<"modifiers", "declarationList">>
      [] kind \in {"ExpressionStatement", "Return", "Throw"} -> <<"expression">>
      [] kind = "If"                     -> <<"expression", "thenStatement", "elseStatement">>
      [] kind = "Do"                     -> <<"statement", "expression">>
      [] kind \in {"While", "With"}      -> <<"expression", "statement">>
      [] kind = "For"                    -> <<"initializer", "condition", "incrementor", "statement">>
      [] kind = "ForIn"                  -> <<"initializer", "expression", "statement">>
      [] kind = "ForOf"                  -> <<"awaitModifier", "initializer", "expression", "statement">>
      [] kind \in {"Break", "Continue"}  -> <<"label">>
      [] OTHER -> <<>>

OfClauses(kind) ==
    CASE kind = "Switch"                 -> <<"expression", "caseBlock">>
      [] kind = "CaseBlock"              -> <<"clauses">>
      [] kind = "CaseClause"             -> <<"expression", "statements">>
      [] kind = "DefaultClause"          -> <<"statements">>
      [] kind = "Labeled"                -> <<"label", "statement">>
      [] kind = "Try"                    -> <<"tryBlock", "catchClause", "finallyBlock">>
      [] kind = "CatchClause"            -> <<"variableDeclaration", "block">>
      [] kind \in ClassLikes \cup {"InterfaceDeclaration"} ->
           <<"modifiers", "name", "typeParameters", "heritageClauses", "members">>
      [] kind = "HeritageClause"         -> <<"types">>
      [] kind = "TypeAliasDeclaration"   -> <<"modifiers", "name", "typeParameters", "type">>
      [] kind = "EnumMember"             -> <<"name", "initializer">>
      [] kind = "EnumDeclaration"        -> <<"modifiers", "name", "members">>
      [] kind = "ModuleDeclaration"      -> <<"modifiers", "name", "body">>
      [] kind = "ModuleBlock"            -> <<"statements">>
      [] OTHER -> <<>>

OfModules(kind) ==
    CASE kind = "ImportEqualsDeclaration" -> <<"modifiers", "name", "moduleReference">>
      [] kind = "ExternalModuleReference" -> <<"expression">>
      [] kind = "ImportDeclaration"       -> <<"modifiers", "importClause", "moduleSpecifier", "attributes">>
      [] kind = "ImportClause"            -> <<"name", "namedBindings">>
      [] kind \in {"NamespaceImport", "NamespaceExport"} -> <<"name">>
      [] kind = "NamespaceExportDeclaration" -> <<"modifiers", "name">>
      [] kind = "ExportDeclaration"       -> <<"modifiers", "exportClause", "moduleSpecifier", "attributes">>
      [] kind \in {"NamedImports", "NamedExports"} -> <<"elements">>
      [] kind \in {"ImportSpecifier", "ExportSpecifier"} -> <<"propertyName", "name">>
      [] kind = "ExportAssignment"        -> <<"modifiers", "expression">>
      [] kind = "SourceFile"              -> <<"statements", "endOfFileToken">>
      [] kind = "ImportAttributes"        -> <<"elements">>
      [] kind = "ImportAttribute"         -> <<"name", "value">>
      [] OTHER -> <<>>

OfJSDocTypes(kind) ==
    CASE kind \in JSDocTypes        -> <<"type">>
      [] kind = "JSDocFunctionType" -> <<"parameters", "type">>
      [] OTHER -> <<>>

\* What a node holds, in the order of the text.
Roles(kind) ==
    OfNamesAndParameters(kind) \o OfVariables(kind) \o OfTypes(kind) \o OfTypesAndUnaries(kind) \o OfOperations(kind)
    \o OfAccesses(kind) \o OfCallsAndAssertions(kind) \o OfJsx(kind) \o OfStatements(kind) \o OfClauses(kind) \o OfModules(kind)
    \o OfJSDocTypes(kind)

\* The trees under a role.
Under(tree, role) ==
    IF ~Has(tree, role) THEN <<>> ELSE IF role \in ListRoles THEN tree.kids[role] ELSE <<tree.kids[role]>>
==============================================================================
