----------------------------- MODULE MCSyntaxTree -----------------------------
(***************************************************************************)
(* The trees that are printed and read again: every expression under every *)
(* role that takes an expression, every type under every role that takes a *)
(* type, every statement where a statement stands, and every kind of node  *)
(* with all it can hold, with one thing less and with one thing more than  *)
(* it must.  They are made by the functions of the node factory.           *)
(***************************************************************************)
EXTENDS NodeFactory

As(kind, text, kids) == [kind |-> kind, text |-> text, kids |-> kids]
x    == Leaf("Identifier", "x")
One  == Leaf("1", "1")
Name == Leaf("'s'", "'s'")
Tok(t) == Leaf(t, t)
Ref  == Node("TypeReference", [typeName |-> x])

Statement(e) == Node("ExpressionStatement", [expression |-> e])
Block(statements) == Node("Block", [statements |-> statements])
Parameter    == Node("Parameter", [name |-> x])
TypeParameter == Node("TypeParameter", [name |-> x])
Variables(kids) == As("VariableDeclarationList", "var", [declarations |-> <<Node("VariableDeclaration", kids)>>])
Op(left, op, right) == Node("Binary", [left |-> left, operatorToken |-> Tok(op), right |-> right])
Prefixed(op, tree) == As("PrefixUnary", op, [operand |-> tree])
Clause == Node("CaseClause", [expression |-> x, statements |-> <<>>])
Heritage == Node("HeritageClause", [types |-> <<Node("ExpressionWithTypeArguments", [expression |-> x])>>])
Head_ == Leaf("head", "head")
Tail_ == Leaf("tail", "text")

-----------------------------------------------------------------------------
(* A node of each kind, with everything the factory and the printer know.  *)
-----------------------------------------------------------------------------
Functions == [modifiers |-> <<Tok("async")>>, asteriskToken |-> Tok("*"), name |-> x,
              typeParameters |-> <<TypeParameter>>, parameters |-> <<Parameter, Parameter>>, type |-> Ref,
              body |-> Block(<<Statement(x)>>)]
Types_ == [typeParameters |-> <<TypeParameter>>, parameters |-> <<Parameter, Parameter>>, type |-> Ref]
Lacking(kids, roles) == [role \in DOMAIN kids \ roles |-> kids[role]]

WholeOfNames(kind) ==
    CASE kind = "QualifiedName" -> [left |-> x, right |-> x]
      [] kind = "ExpressionWithTypeArguments" -> [expression |-> x, typeArguments |-> <<Ref, Ref>>]
      [] kind = "ComputedPropertyName" -> [expression |-> x]
      [] kind = "TypeParameter" -> [name |-> x, constraint |-> Ref, _default |-> Ref]
      [] kind \in {"CallSignature", "ConstructSignature", "FunctionType"} -> Types_
      [] kind = "ConstructorType" -> [modifiers |-> <<Tok("abstract")>>] @@ Types_
      [] kind = "IndexSignature" -> [parameters |-> <<Node("Parameter", [name |-> x, type |-> Tok("string")])>>,
                                     type |-> Ref]
      [] kind = "VariableDeclaration" -> [name |-> x, exclamationToken |-> Tok("!"), type |-> Ref, initializer |-> x]
      [] kind = "VariableDeclarationList" -> [declarations |-> [i \in 1 .. 2 |-> Node("VariableDeclaration", [name |-> x])]]
      [] kind = "Parameter" -> [modifiers |-> <<Tok("public")>>, dotDotDotToken |-> Tok("..."), name |-> x,
                                questionToken |-> Tok("?"), type |-> Ref, initializer |-> x]
      [] kind = "BindingElement" -> [dotDotDotToken |-> Tok("..."), propertyName |-> x, name |-> x, initializer |-> x]
      [] kind = "PropertySignature" -> [modifiers |-> <<Tok("readonly")>>, name |-> x, questionToken |-> Tok("?"),
                                        type |-> Ref]
      [] kind = "PropertyDeclaration" -> [modifiers |-> <<Tok("static"), Tok("readonly")>>, name |-> x,
                                          questionToken |-> Tok("?"), type |-> Ref, initializer |-> x]
      [] kind = "PropertyAssignment" -> [name |-> x, initializer |-> x]
      [] kind = "ShorthandPropertyAssignment" ->
           [name |-> x, equalsToken |-> Tok("="), objectAssignmentInitializer |-> x]
      [] kind = "SpreadAssignment" -> [expression |-> x]
      [] kind \in {"ObjectBindingPattern", "ArrayBindingPattern"} ->
           [elements |-> [i \in 1 .. 2 |-> Node("BindingElement", [name |-> x])]]
      [] kind = "MethodSignature" -> [name |-> x, questionToken |-> Tok("?")] @@ Types_
      [] OTHER -> <<>>

WholeOfFunctions(kind) ==
    CASE kind = "MethodDeclaration" -> [questionToken |-> Tok("?")] @@ Functions
      [] kind \in {"FunctionExpression", "FunctionDeclaration"} -> Functions
      [] kind = "Constructor" -> [modifiers |-> <<Tok("private")>>, parameters |-> <<Parameter, Parameter>>,
                                  body |-> Block(<<>>)]
      [] kind = "GetAccessor" -> [modifiers |-> <<Tok("static")>>, name |-> x, parameters |-> <<>>, type |-> Ref,
                                  body |-> Block(<<>>)]
      [] kind = "SetAccessor" -> [modifiers |-> <<Tok("static")>>, name |-> x, parameters |-> <<Parameter>>,
                                  body |-> Block(<<>>)]
      [] kind = "ArrowFunction" -> [modifiers |-> <<Tok("async")>>, typeParameters |-> <<TypeParameter>>,
                                    parameters |-> <<Parameter, Parameter>>, type |-> Ref, body |-> x]
      [] OTHER -> <<>>

WholeOfTypes(kind) ==
    CASE kind = "ImportType" -> [argument |-> Node("LiteralType", [literal |-> Name]), qualifier |-> x,
                                 typeArguments |-> <<Ref>>]
      [] kind = "LiteralType"           -> [literal |-> Name]
      [] kind = "TypeReference"         -> [typeName |-> x, typeArguments |-> <<Ref, Ref>>]
      [] kind = "TypePredicate"         -> [assertsModifier |-> Tok("asserts"), parameterName |-> x, type |-> Ref]
      [] kind = "TypeQuery"             -> [exprName |-> x]
      [] kind = "TypeLiteral" -> [members |-> [i \in 1 .. 2 |-> Node("PropertySignature", [name |-> x])]]
      [] kind = "ArrayType"             -> [elementType |-> Ref]
      [] kind = "TupleType"             -> [elements |-> <<Ref, Ref>>]
      [] kind = "NamedTupleMember" -> [dotDotDotToken |-> Tok("..."), name |-> x, questionToken |-> Tok("?"),
                                       type |-> Ref]
      [] kind \in {"OptionalType", "RestType", "ParenthesizedType", "TypeOperator"} -> [type |-> Ref]
      [] kind \in {"UnionType", "IntersectionType"} -> [types |-> <<Ref, Ref, Ref>>]
      [] kind = "ConditionalType" -> [checkType |-> Ref, extendsType |-> Ref, trueType |-> Ref, falseType |-> Ref]
      [] kind = "InferType"             -> [typeParameter |-> TypeParameter]
      [] kind = "IndexedAccessType"     -> [objectType |-> Ref, indexType |-> Ref]
      [] kind = "MappedType" ->
           [readonlyToken |-> Tok("readonly"), nameType |-> Ref, questionToken |-> Tok("?"), type |-> Ref,
            typeParameter |-> Node("TypeParameter", [name |-> x, constraint |-> Ref])]
      [] kind = "TemplateLiteralType" -> [head |-> Head_, templateSpans |->
           <<Node("TemplateLiteralTypeSpan", [type |-> Ref, literal |-> Leaf("middle", "text{")]),
             Node("TemplateLiteralTypeSpan", [type |-> Ref, literal |-> Tail_])>>]
      [] kind = "TemplateLiteralTypeSpan" -> [type |-> Ref, literal |-> Tail_]
      [] OTHER -> <<>>

WholeOfExpressions(kind) ==
    CASE kind \in {"PrefixUnary", "PostfixUnary"} -> [operand |-> x]
      [] kind \in Unaries \cup {"SpreadElement"}  -> [expression |-> x]
      [] kind = "Yield"          -> [asteriskToken |-> Tok("*"), expression |-> x]
      [] kind = "Binary"         -> [left |-> x, operatorToken |-> Tok("+"), right |-> x]
      [] kind = "Conditional"    -> [condition |-> x, whenTrue |-> x, whenFalse |-> x]
      [] kind = "TemplateExpression" -> [head |-> Head_, templateSpans |->
           <<Node("TemplateSpan", [expression |-> x, literal |-> Leaf("middle", "text{")]),
             Node("TemplateSpan", [expression |-> x, literal |-> Tail_])>>]
      [] kind = "TemplateSpan"   -> [expression |-> x, literal |-> Tail_]
      [] kind = "ArrayLiteral"   -> [elements |-> <<x, x>>]
      [] kind = "ObjectLiteral"  ->
           [properties |-> [i \in 1 .. 2 |-> Node("PropertyAssignment", [name |-> x, initializer |-> x])]]
      [] kind = "PropertyAccess" -> [expression |-> x, questionDotToken |-> Tok("?."), name |-> x]
      [] kind = "ElementAccess"  -> [expression |-> x, questionDotToken |-> Tok("?."), argumentExpression |-> x]
      [] kind = "Call" -> [expression |-> x, questionDotToken |-> Tok("?."), typeArguments |-> <<Ref, Ref>>,
                           arguments |-> <<x, x>>]
      [] kind = "New"            -> [expression |-> x, typeArguments |-> <<Ref, Ref>>, arguments |-> <<x, x>>]
      [] kind = "TaggedTemplate" -> [tag |-> x, typeArguments |-> <<Ref>>, _template |-> Leaf("template", "template")]
      [] kind \in {"As", "TypeAssertion"} -> [expression |-> x, type |-> Ref]
      [] kind = "MetaProperty"   -> [name |-> x]
      [] OTHER -> <<>>

WholeOfStatements(kind) ==
    CASE kind = "Block" -> [statements |-> <<Statement(x), Statement(x)>>]
      [] kind = "VariableStatement" -> [modifiers |-> <<Tok("export")>>, declarationList |-> Variables([name |-> x])]
      [] kind \in {"ExpressionStatement", "Return", "Throw"} -> [expression |-> x]
      [] kind = "If"     -> [expression |-> x, thenStatement |-> Statement(x), elseStatement |-> Statement(x)]
      [] kind = "Do"     -> [statement |-> Block(<<Statement(x)>>), expression |-> x]
      [] kind \in {"While", "With"} -> [expression |-> x, statement |-> Statement(x)]
      [] kind = "For"    -> [initializer |-> x, condition |-> x, incrementor |-> x, statement |-> Statement(x)]
      [] kind = "ForIn"  -> [initializer |-> x, expression |-> x, statement |-> Statement(x)]
      [] kind = "ForOf"  -> [awaitModifier |-> Tok("await"), initializer |-> x, expression |-> x,
                             statement |-> Statement(x)]
      [] kind \in {"Break", "Continue"} -> [label |-> x]
      [] kind = "Switch" -> [expression |-> x, caseBlock |-> Node("CaseBlock", [clauses |-> <<Clause, Clause>>])]
      [] kind = "CaseBlock"      -> [clauses |-> <<Clause, Node("DefaultClause", [statements |-> <<Statement(x)>>])>>]
      [] kind = "CaseClause"     -> [expression |-> x, statements |-> <<Statement(x), Statement(x)>>]
      [] kind = "DefaultClause"  -> [statements |-> <<Statement(x), Statement(x)>>]
      [] kind = "Labeled"        -> [label |-> x, statement |-> Statement(x)]
      [] kind = "Try" -> [tryBlock |-> Block(<<>>), catchClause |-> Node("CatchClause", [block |-> Block(<<>>)]),
                          finallyBlock |-> Block(<<>>)]
      [] kind = "CatchClause" -> [variableDeclaration |-> Node("VariableDeclaration", [name |-> x]), block |-> Block(<<>>)]
      [] OTHER -> <<>>

WholeOfDeclarations(kind) ==
    CASE kind \in ClassLikes \cup {"InterfaceDeclaration"} ->
           [modifiers |-> IF kind = "ClassExpression" THEN <<>> ELSE <<Tok("export")>>, name |-> x,
            typeParameters |-> <<TypeParameter>>, heritageClauses |-> <<Heritage>>, members |->
              IF kind = "InterfaceDeclaration" THEN <<Node("MethodSignature", [name |-> x, parameters |-> <<>>])>>
              ELSE <<Node("MethodDeclaration", [name |-> x, parameters |-> <<>>, body |-> Block(<<>>)]),
                     Node("PropertyDeclaration", [name |-> x])>>]
      [] kind = "HeritageClause" -> Heritage.kids
      [] kind = "TypeAliasDeclaration" ->
           [modifiers |-> <<Tok("export")>>, name |-> x, typeParameters |-> <<TypeParameter>>, type |-> Ref]
      [] kind = "EnumDeclaration" -> [modifiers |-> <<Tok("const")>>, name |-> x,
                                      members |-> [i \in 1 .. 2 |-> Node("EnumMember", [name |-> x])]]
      [] kind = "EnumMember"     -> [name |-> x, initializer |-> x]
      [] kind = "ModuleDeclaration" -> [modifiers |-> <<Tok("declare")>>, name |-> x,
                                        body |-> Node("ModuleBlock", [statements |-> <<Statement(x)>>])]
      [] kind = "ModuleBlock"    -> [statements |-> <<Statement(x), Statement(x)>>]
      [] kind = "ImportEqualsDeclaration" -> [modifiers |-> <<Tok("export")>>, name |-> x, moduleReference |-> x]
      [] kind = "ExternalModuleReference" -> [expression |-> Name]
      [] kind = "ImportDeclaration" -> [importClause |-> Node("ImportClause", [name |-> x]), moduleSpecifier |-> Name]
      [] kind = "ImportClause" -> [name |-> x, namedBindings |-> Node("NamespaceImport", [name |-> x])]
      [] kind = "NamespaceImport" -> [name |-> x]
      [] kind = "NamespaceExportDeclaration" -> [name |-> x]
      [] kind = "ExportDeclaration" ->
           [exportClause |-> Node("NamedExports", [elements |-> <<Node("ExportSpecifier", [name |-> x])>>]),
            moduleSpecifier |-> Name]
      [] kind \in {"NamedImports", "NamedExports"} ->
           [elements |-> [i \in 1 .. 2 |->
              Node(IF kind = "NamedImports" THEN "ImportSpecifier" ELSE "ExportSpecifier", [name |-> x])]]
      [] kind \in {"ImportSpecifier", "ExportSpecifier"} -> [propertyName |-> x, name |-> x]
      [] kind = "ExportAssignment" -> [expression |-> x]
      [] kind = "SourceFile" -> [statements |-> <<Statement(x), Statement(x)>>, endOfFileToken |-> Leaf("EndOfFile", "")]
      [] OTHER -> <<>>

Whole(kind) == WholeOfNames(kind) @@ WholeOfFunctions(kind) @@ WholeOfTypes(kind) @@ WholeOfExpressions(kind)
               @@ WholeOfStatements(kind) @@ WholeOfDeclarations(kind)

\* What a node may be without.
NeverNeeded == {"modifiers", "questionToken", "exclamationToken", "asteriskToken", "dotDotDotToken", "typeParameters",
                "typeArguments", "constraint", "_default", "assertsModifier", "qualifier", "nameType", "readonlyToken",
                "questionDotToken", "propertyName", "elseStatement", "incrementor", "awaitModifier",
                "finallyBlock", "variableDeclaration", "heritageClauses"}
MayLack(kind) ==
    NeverNeeded \cup
     CASE kind \in {"Parameter", "VariableDeclaration", "PropertyDeclaration"} -> {"initializer", "type"}
       [] kind \in {"BindingElement", "EnumMember"}          -> {"initializer"}
       [] kind \in FunctionLikes \cup {"ArrowFunction", "PropertySignature", "MethodSignature", "CallSignature",
                                       "ConstructSignature", "TypePredicate"} ->
            {"type"} \cup (IF kind = "FunctionExpression" THEN {"name"} ELSE {})
       [] kind = "For" -> {"initializer", "condition"}
       [] kind = "Return"                                    -> {"expression"}
       [] kind \in {"Break", "Continue"}                     -> {"label"}
       [] kind = "ImportDeclaration"                         -> {"importClause"}
       [] kind = "ExportDeclaration"                         -> {"moduleSpecifier"}
       [] kind = "ClassExpression"                           -> {"name"}
       [] kind = "ImportClause"                              -> {"namedBindings"}
       [] OTHER -> {}
Least(kind) == Lacking(Whole(kind), MayLack(kind))

TextFor(kind, kids) ==
    CASE kind = "PrefixUnary"  -> "-"
      [] kind = "PostfixUnary" -> "++"
      [] kind = "VariableDeclarationList" -> "var"
      [] kind = "TypeOperator" -> "keyof"
      [] kind = "MetaProperty" -> "new"
      [] kind = "ExportAssignment" -> "="
      [] OTHER -> IF "questionDotToken" \in DOMAIN kids THEN "chain" ELSE ""
Built(kind, kids) == As(kind, TextFor(kind, kids), kids)

-----------------------------------------------------------------------------
(* What stands where.                                                      *)
-----------------------------------------------------------------------------
ExpressionKinds ==
    {"Delete", "TypeOf", "Void", "Await", "Parenthesized", "NonNullExpression", "PrefixUnary", "PostfixUnary", "Yield",
     "Conditional", "ArrowFunction", "TemplateExpression", "ArrayLiteral", "ObjectLiteral", "PropertyAccess",
     "ElementAccess", "Call", "New", "TaggedTemplate", "As", "TypeAssertion", "MetaProperty", "FunctionExpression",
     "ClassExpression"}
TypeKinds ==
    {"TypeReference", "TypeQuery", "TypeLiteral", "ArrayType", "TupleType", "UnionType", "IntersectionType",
     "ConditionalType", "InferType", "ImportType", "ParenthesizedType", "TypeOperator", "IndexedAccessType",
     "MappedType", "LiteralType", "TemplateLiteralType", "FunctionType", "ConstructorType"}
StatementKinds ==
    {"Block", "VariableStatement", "ExpressionStatement", "Return", "Throw", "If", "Do", "While", "With", "For",
     "ForIn", "ForOf", "Break", "Continue", "Switch", "Labeled", "Try", "FunctionDeclaration", "ClassDeclaration",
     "InterfaceDeclaration", "TypeAliasDeclaration", "EnumDeclaration", "ModuleDeclaration",
     "ImportEqualsDeclaration", "ImportDeclaration", "NamespaceExportDeclaration", "ExportDeclaration",
     "ExportAssignment"}
ElementKinds ==
    {"QualifiedName", "ExpressionWithTypeArguments", "ComputedPropertyName", "TypeParameter", "CallSignature",
     "ConstructSignature", "IndexSignature", "VariableDeclaration", "VariableDeclarationList", "Parameter",
     "BindingElement", "PropertySignature", "PropertyDeclaration", "PropertyAssignment", "ShorthandPropertyAssignment",
     "SpreadAssignment", "ObjectBindingPattern", "ArrayBindingPattern", "MethodSignature", "MethodDeclaration",
     "Constructor", "GetAccessor", "SetAccessor", "TypePredicate", "NamedTupleMember", "OptionalType", "RestType",
     "TemplateLiteralTypeSpan", "TemplateSpan", "SpreadElement", "CaseBlock", "CaseClause", "DefaultClause",
     "CatchClause", "HeritageClause", "EnumMember", "ModuleBlock", "ExternalModuleReference", "ImportClause",
     "NamespaceImport", "NamedImports", "NamedExports", "ImportSpecifier", "ExportSpecifier"}

\* Where a node stands that is looked at by itself.
Home(kind) ==
    CASE kind \in StatementKinds  -> <<"SourceFile", "statements">>
      [] kind \in TypeKinds \cup {"QualifiedName"} -> <<"TypeAliasDeclaration", "type">>
      [] kind = "HeritageClause"  -> <<"ClassDeclaration", "heritageClauses">>
      [] kind \in {"ComputedPropertyName", "MethodDeclaration", "Constructor", "GetAccessor", "SetAccessor",
                   "PropertyDeclaration"} -> <<"ClassDeclaration", "members">>
      [] kind = "TypeParameter"   -> <<"TypeAliasDeclaration", "typeParameters">>
      [] kind \in {"CallSignature", "ConstructSignature", "IndexSignature", "PropertySignature", "MethodSignature"} ->
           <<"InterfaceDeclaration", "members">>
      [] kind = "VariableDeclaration"     -> <<"VariableDeclarationList", "declarations">>
      [] kind = "VariableDeclarationList" -> <<"VariableStatement", "declarationList">>
      [] kind \in {"ObjectBindingPattern", "ArrayBindingPattern"} -> <<"VariableDeclaration", "name">>
      [] kind = "Parameter"       -> <<"FunctionDeclaration", "parameters">>
      [] kind = "BindingElement"  -> <<"ObjectBindingPattern", "elements">>
      [] kind \in {"PropertyAssignment", "ShorthandPropertyAssignment", "SpreadAssignment"} ->
           <<"ObjectLiteral", "properties">>
      [] kind = "TypePredicate"   -> <<"FunctionDeclaration", "type">>
      [] kind \in {"NamedTupleMember", "OptionalType", "RestType"} -> <<"TupleType", "elements">>
      [] kind = "TemplateLiteralTypeSpan" -> <<"TemplateLiteralType", "templateSpans">>
      [] kind = "TemplateSpan"    -> <<"TemplateExpression", "templateSpans">>
      [] kind = "SpreadElement"   -> <<"ArrayLiteral", "elements">>
      [] kind = "CaseBlock"       -> <<"Switch", "caseBlock">>
      [] kind \in {"CaseClause", "DefaultClause"} -> <<"CaseBlock", "clauses">>
      [] kind = "CatchClause"     -> <<"Try", "catchClause">>
      [] kind = "EnumMember"      -> <<"EnumDeclaration", "members">>
      [] kind = "ModuleBlock"     -> <<"ModuleDeclaration", "body">>
      [] kind = "ExternalModuleReference" -> <<"ImportEqualsDeclaration", "moduleReference">>
      [] kind = "ImportClause"    -> <<"ImportDeclaration", "importClause">>
      [] kind \in {"NamespaceImport", "NamedImports"} -> <<"ImportClause", "namedBindings">>
      [] kind \in {"NamedExports", "NamespaceExport"} -> <<"ExportDeclaration", "exportClause">>
      [] kind = "ImportSpecifier" -> <<"NamedImports", "elements">>
      [] kind = "ExportSpecifier" -> <<"NamedExports", "elements">>
      [] OTHER                    -> <<"ExpressionStatement", "expression">>

\* A node with the least it must have, and a tree under one of its roles.
Given(role, tree) == IF role = "types" THEN <<tree, Ref, tree>> ELSE IF role \in ListRoles THEN <<tree>> ELSE tree
Around(kind, role, tree) == Built(kind, (role :> Given(role, tree)) @@ Least(kind))
InHome(tree) ==
    CASE tree.kind = "QualifiedName" -> Built("TypeReference", [typeName |-> tree])
      [] tree.kind = "ComputedPropertyName" -> Built("PropertyDeclaration", [name |-> tree])
      [] tree.kind = "ExpressionWithTypeArguments" -> Node("HeritageClause", [types |-> <<tree>>])
      [] tree.kind = "ClassExpression" -> Built("Parenthesized", [expression |-> tree])
      [] tree.kind \notin {"QualifiedName", "ComputedPropertyName", "ExpressionWithTypeArguments", "ClassExpression"} ->
           LET home == Home(tree.kind) IN Around(home[1], home[2], tree)

ExpressionRoles(kind) ==
    {role \in DOMAIN Whole(kind) :
       \/ role \in {"operand", "condition", "whenTrue", "whenFalse", "argumentExpression", "tag", "incrementor",
                    "objectAssignmentInitializer", "arguments"}
       \/ role = "expression" /\ kind \notin {"ExternalModuleReference", "ExpressionWithTypeArguments"}
       \/ role = "initializer" /\ kind \notin {"ForIn", "ForOf"}
       \/ role \in {"left", "right"} /\ kind = "Binary"
       \/ role = "elements" /\ kind = "ArrayLiteral"
       \/ role = "body" /\ kind = "ArrowFunction"}
TypeRoles(kind) ==
    {role \in DOMAIN Whole(kind) :
       \/ role \in {"type", "elementType", "checkType", "extendsType", "trueType", "falseType", "objectType",
                    "indexType", "constraint", "_default", "nameType", "typeArguments", "argument"}
       \/ role = "elements" /\ kind = "TupleType"
       \/ role = "types" /\ kind \in {"UnionType", "IntersectionType"}}
StatementRoles(kind) == {"statement", "thenStatement", "elseStatement", "statements"} \cap DOMAIN Whole(kind)

Kinds == ExpressionKinds \cup TypeKinds \cup StatementKinds \cup ElementKinds \cup {"Binary", "SourceFile"}

-----------------------------------------------------------------------------
(* The trees.                                                              *)
-----------------------------------------------------------------------------
Plain(kind) == Built(kind, Least(kind))
Full(kind)  == Built(kind, Whole(kind))

Operations == {Op(x, op, x) : op \in {",", "=", "||", "==", "in", ">>>", "+", "*", "**"}}
ExpressionTrees ==
    {Plain(kind) : kind \in ExpressionKinds \ {"Await", "Yield"}} \cup Operations
    \cup {x, One, Tok("this"), Leaf("template", "template"), Leaf("regex", "")}
    \cup {Around(kind, "questionDotToken", Tok("?.")) : kind \in {"PropertyAccess", "ElementAccess", "Call"}}
    \cup {Prefixed("++", x), Prefixed("!", x), Built("Call", [expression |-> Tok("import"), arguments |-> <<x>>])}
\* Those that a rule of a statement or a declaration might have to do with.
Few == {Op(x, ",", x), Op(x, "=", x), Op(x, "in", x)}
       \cup {Plain(kind) : kind \in {"Conditional", "ArrowFunction", "ObjectLiteral", "FunctionExpression",
                                     "ClassExpression", "PrefixUnary"}}
Targets == {x} \cup {Plain(kind) : kind \in {"PropertyAccess", "ElementAccess", "ArrayLiteral", "ObjectLiteral"}}
Suspending == {Plain("Await"), Plain("Yield"), Full("Yield")}

TypesOfTrees ==
    {Plain(kind) : kind \in TypeKinds} \cup {Full("FunctionType"), Tok("string"), Tok("void"), Leaf("ThisType", "this"),
     Built("LiteralType", [literal |-> Prefixed("-", One)])}
StatementTrees ==
    {Plain(kind) : kind \in StatementKinds \ {"ImportEqualsDeclaration", "ImportDeclaration",
       "NamespaceExportDeclaration", "ExportDeclaration", "ExportAssignment"}}
    \cup {Full("If"), Full("Try"), Leaf("Empty", ""), Leaf("Debugger", "")}
    \cup {Built("If", [expression |-> x, thenStatement |-> Block(<<>>), elseStatement |-> Block(<<>>)])}

\* Where nothing waits.
NoSuspending == {"ArrowFunction", "Parameter", "PropertyDeclaration", "EnumMember", "ComputedPropertyName",
                 "ExportAssignment"}
OperatorsOfTrees == {",", "&&", "==", "*", "**"}

Placed(kinds, Roles_(_), trees) ==
    UNION {{Around(kind, role, tree) : role \in Roles_(kind), tree \in trees} : kind \in kinds}
Joining(left, operators, right) == {Op(a, op, b) : a \in left, op \in operators, b \in right}

WithExpressions ==
    Placed((ExpressionKinds \cup {"SpreadElement"}) \ {"Await", "Yield", "PostfixUnary"}, ExpressionRoles, ExpressionTrees)
    \cup Placed(StatementKinds \cup ElementKinds, ExpressionRoles, Few)
    \cup Placed({"ExpressionStatement"}, ExpressionRoles, ExpressionTrees)
    \cup Placed({"PostfixUnary"}, ExpressionRoles, Targets)
    \cup Joining(ExpressionTrees, OperatorsOfTrees, {x}) \cup Joining({x}, OperatorsOfTrees \cup {"="}, ExpressionTrees)
    \cup Joining(Targets, {"="}, {x})
    \cup UNION {Joining({Op(x, op, x)}, {op}, {x}) : op \in {"-", "+", "/", "**"}}
    \cup UNION {Joining({x}, {op}, {Op(x, op, x)}) : op \in {"-", "/", "**"}}
    \cup {Prefixed(outer, Prefixed(inner, x)) : outer \in {"-", "+", "!"}, inner \in {"-", "--", "+", "++", "!"}}
    \cup UNION {Joining({x, Plain("PostfixUnary")}, {op}, {Prefixed(op, x)}) : op \in {"+", "-"}}

WithTypes ==
    Placed(TypeKinds \cup {"As", "TypeAssertion"}, TypeRoles, TypesOfTrees)
    \cup Placed(Kinds, TypeRoles,
                {Plain("FunctionType"), Plain("ConditionalType"), Plain("UnionType"), Plain("MappedType")})

WithStatements ==
    Placed({"Block", "If", "Do", "While", "With", "For", "ForIn", "ForOf", "CaseClause", "Labeled", "SourceFile"},
           StatementRoles, StatementTrees)
    \cup {Block(<<tree, Statement(x)>>) : tree \in StatementTrees}
    \cup {Built("If", [expression |-> x, thenStatement |-> tree, elseStatement |-> Statement(x)]) :
            tree \in StatementTrees \ {Plain("If"), Plain("Labeled")}}
    \cup {Node("DefaultClause", [statements |-> <<tree, Statement(x)>>]) : tree \in StatementTrees}

OfEveryKind ==
    {Full(kind) : kind \in Kinds} \cup {Plain(kind) : kind \in Kinds}
    \cup UNION {LET whole == Whole(kind) IN
                {Built(kind, Lacking(whole, lacks)) :
                   lacks \in UNION {{{role}, MayLack(kind) \ {role}} : role \in MayLack(kind) \cap DOMAIN whole}} : kind \in Kinds}
    \cup {Built("Try", Lacking(Whole("Try"), {"catchClause"}))}

\* What an async generator holds.
InGenerators ==
    Placed(Kinds \ (NoSuspending \cup {"PostfixUnary", "Binary"}), ExpressionRoles, Suspending)
    \cup Placed({"Await", "Yield"}, ExpressionRoles, ExpressionTrees)
    \cup Joining(Suspending, OperatorsOfTrees, {x}) \cup Joining({x}, OperatorsOfTrees \cup {"="}, Suspending)

\* The file around a tree, and the generator around it.
RECURSIVE UpTo(_, _)
UpTo(kinds, tree) == IF tree.kind \in kinds THEN tree ELSE UpTo(kinds, InHome(tree))
Generator(tree) ==
    Built("FunctionDeclaration", [Whole("FunctionDeclaration") EXCEPT !.body = Block(<<UpTo(StatementKinds, tree)>>)])
File(tree) == UpTo({"SourceFile"}, tree)

Suspended(tree) == tree.kind \in {"Await", "Yield"}

\* What the factory makes of a tree, from the leaves up.
RECURSIVE FromFactory(_)
FromFactory(tree) ==
    createAs(tree.kind, tree.text,
             [role \in DOMAIN tree.kids |->
                IF role \in ListRoles THEN [i \in DOMAIN tree.kids[role] |-> FromFactory(tree.kids[role][i])]
                ELSE FromFactory(tree.kids[role])])

Files ==
    {FromFactory(tree) : tree \in
       {File(t) : t \in {t \in WithExpressions \cup WithTypes \cup WithStatements \cup OfEveryKind : ~Suspended(t)}}
       \cup {File(Generator(t)) : t \in InGenerators}}
===============================================================================
