-------------------------------- MODULE Printer --------------------------------
(***************************************************************************)
(* The Printer of dump.h, which writes a tree as text again: for the       *)
(* declarations a library exports (MLIRGen sets the declaration mode), for *)
(* the printer tester and for debugging.  What is written is a sequence of *)
(* the lexemes of the Parser module, with " " and "\n" for white space; a  *)
(* lexeme that holds more than its own characters ("head", "text{") holds  *)
(* the '`' and '${' next to it too.  A printed tree knows the kind of its  *)
(* parent (setParentNodes), whether it is indented (ident > 0) and whether *)
(* it is printed as a declaration (declarationMode).                       *)
(***************************************************************************)
EXTENDS SyntaxTree, SequencesExt

-----------------------------------------------------------------------------
(* What is written.                                                        *)
-----------------------------------------------------------------------------
Put(pieces) == <<[kind |-> "text", pieces |-> pieces]>>

\* A tree of n, to be printed where n is.
Printed(n, tree) == <<tree @@ [parent |-> n.kind, inside |-> n.inside, declaring |-> n.declaring]>>
Child(n, role)   == IF Has(n, role) THEN Printed(n, n.kids[role]) ELSE <<>>
Opt(n, before, role) == IF Has(n, role) THEN Put(before) \o Child(n, role) ELSE <<>>
Indent(n) == IF n.inside THEN <<" ">> ELSE <<>>

\* forEachChildrenPrint.
Several(n, role, open, separator, end, ifAny) ==
    LET trees == Under(n, role)
        each(i) == (IF i > 1 THEN Put(separator) ELSE <<>>) \o Printed(n, trees[i])
    IN IF ifAny /\ trees = <<>> THEN <<>>
       ELSE Put(open) \o FlattenSeq([i \in DOMAIN trees |-> each(i)]) \o Put(end)
Listed(n, role)        == Several(n, role, <<>>, <<",", " ">>, <<>>, FALSE)
TypeParametersOf(n)    == Several(n, "typeParameters", <<"<">>, <<",", " ">>, <<">">>, TRUE)
TypeArgumentsOf(n)     == Several(n, "typeArguments", <<"<">>, <<",", " ">>, <<">">>, TRUE)
ParametersOf(n)        == Several(n, "parameters", <<"(">>, <<",", " ">>, <<")">>, FALSE)
Braced(n, role)        == Put(<<"{">>) \o Several(n, role, <<" ">>, <<",", " ">>, <<" ">>, TRUE) \o Put(<<"}">>)
Bracketed(n, role)     == Put(<<"[">>) \o Several(n, role, <<" ">>, <<",", " ">>, <<" ">>, TRUE) \o Put(<<"]">>)

EachWithBlank(n, trees) == FlattenSeq([i \in DOMAIN trees |-> Printed(n, trees[i]) \o Put(<<" ">>)])
printModifiers(n) == EachWithBlank(n, Under(n, "modifiers"))
printModifiersWithMode(n) ==
    IF ~n.declaring THEN printModifiers(n)
    ELSE Put(<<"declare", " ">>)
         \o EachWithBlank(n, SelectSeq(Under(n, "modifiers"), LAMBDA m : m.kind \notin {"export", "declare"}))

isBlock(tree) == tree.kind \in {"Block", "ModuleBlock"}
ClassMembers  == {"MethodDeclaration", "Constructor", "GetAccessor", "SetAccessor"}
EndsWith(kind) ==
    CASE kind \in {"While", "For", "ForIn", "ForOf", "With", "Labeled"} -> "statement"
      [] kind \in FunctionLikes \cup {"ArrowFunction"}                  -> "body"
      [] kind = "CatchClause" -> "block"
      [] OTHER                -> "none"

\* isBlockOrStatementWithBlock: what is printed with a line break at its end.
RECURSIVE WithBlock(_, _)
WithBlock(declaring, tree) ==
    CASE tree.kind = "If" -> \E role \in {"thenStatement", "elseStatement"} :
                                Has(tree, role) /\ WithBlock(declaring, tree.kids[role])
      [] tree.kind = "Try" ->
           WithBlock(declaring, tree.kids[IF Has(tree, "finallyBlock") THEN "finallyBlock" ELSE "catchClause"])
      [] EndsWith(tree.kind) # "none" ->
           /\ ~(declaring /\ EndsWith(tree.kind) = "body")
           /\ Has(tree, EndsWith(tree.kind)) /\ WithBlock(declaring, tree.kids[EndsWith(tree.kind)])
      [] OTHER -> isBlock(tree) \/ tree.kind \in {"ClassDeclaration", "EnumDeclaration", "ModuleDeclaration",
                                                  "InterfaceDeclaration", "Switch"}

\* printStatementsLike.
Lines(n, role, separator) ==
    LET trees == Under(n, role)
        line(tree) == Put(Indent(n)) \o Printed(n, tree)
                      \o (IF WithBlock(n.declaring, tree) THEN <<>> ELSE Put(<<separator, "\n">>))
    IN FlattenSeq([i \in DOMAIN trees |-> line(trees[i])])

\* printBlockBase: no line break after the block of an expression.
BlockBase(n, parent, body) ==
    Put(<<"\n">> \o Indent(n) \o <<"{", "\n">>) \o body \o Put(Indent(n) \o <<"}">>)
    \o (IF parent \in {"ArrowFunction", "FunctionExpression", "ClassExpression", "ObjectLiteral"} THEN <<>>
        ELSE Put(<<"\n">>))
Within(n) == [n EXCEPT !.inside = TRUE]
MembersBlock(n, parent, role, separator) == BlockBase(n, parent, Lines(Within(n), role, separator))

-----------------------------------------------------------------------------
(* forEachChildPrint, case by case.                                        *)
-----------------------------------------------------------------------------
WordsPrinted == {"true", "false", "null", "string", "number", "this", "const", "undefined", "boolean", "any", "void",
                 "declare", "readonly", "object", "never", "unknown", "abstract", "static", "public", "protected",
                 "private", "super", "default", "async", "await", "import", "bigint", "symbol", "asserts", "export"}
MarksPrinted == {"!", "...", "?", "?."}
\* What the scanner reads one character at a time, or takes apart again.
Characters(op) ==
    CASE op = "<<" -> <<"<", "<">> [] op = ">>" -> <<">", ">">> [] op = ">>>" -> <<">", ">", ">">>
      [] op = ">=" -> <<">", "=">> [] op = ">>=" -> <<">", ">", "=">> [] op = ">>>=" -> <<">", ">", ">", "=">>
      [] op = "??" -> <<"?", "?">> [] op = "*=" -> <<"*", "=">>
      [] OTHER -> <<op>>
OperatorsPrinted ==
    {":", ",", "=", "==", "===", "!=", "!==", "=>", "<", "<=", "<<", "<<=", ">", ">=", ">>>", ">>", ">>=", ">>>=", "+",
     "++", "+=", "*", "*=", "**", "**=", "&", "&=", "&&", "&&=", "|", "|=", "||", "||=", "??", "??=", "-", "--", "-=",
     "/", "/=", "^", "^=", "%", "%=", "in", "instanceof"}

PrintToken(n) ==
    CASE n.kind \in WordsPrinted \cup MarksPrinted -> Put(<<n.kind>>)
      [] n.kind \in OperatorsPrinted -> Put(<<" ">> \o Characters(n.kind) \o <<" ">>)
      [] n.kind \in {"Empty", "EndOfFile", "SemicolonClassElement"} -> <<>>
      [] OTHER -> Put(<<"[", "x", " ", "x", "]">>)    \* [MISSING ...]

PrintRestOfTypes(n) ==
    CASE n.kind = "OptionalType" -> Child(n, "type") \o Put(<<"?">>)
      [] n.kind = "RestType"     -> Put(<<"...">>) \o Child(n, "type")
      [] n.kind = "ThisType"     -> Put(<<"this">>)
      [] n.kind \in JSDocTypes   -> Child(n, "type")
      [] n.kind = "JSDocFunctionType" -> ParametersOf(n) \o Child(n, "type")
      [] n.kind = "PartiallyEmittedExpression" -> Child(n, "expression")
      [] OTHER -> PrintToken(n)

PrintTemplates(n) ==
    CASE n.kind \in {"head", "middle", "tail", "template"} -> Put(<<n.text>>)
      [] n.kind \in {"TemplateExpression", "TemplateLiteralType"} ->
           Child(n, "head") \o Several(n, "templateSpans", <<>>, <<>>, <<>>, FALSE)
      [] n.kind = "TemplateSpan" -> Child(n, "expression") \o Put(<<"}">>) \o Child(n, "literal")
      [] n.kind = "TemplateLiteralTypeSpan" -> Child(n, "type") \o Put(<<"}">>) \o Child(n, "literal")
      [] n.kind = "ComputedPropertyName" -> Put(<<"[">>) \o Child(n, "expression") \o Put(<<"]">>)
      [] n.kind = "HeritageClause" -> Put(<<" ", "extends", " ">>) \o Listed(n, "types")
      [] n.kind = "ExpressionWithTypeArguments" -> Child(n, "expression") \o TypeArgumentsOf(n)
      [] n.kind = "ExternalModuleReference" -> Put(<<"require", "(">>) \o Child(n, "expression") \o Put(<<")">>)
      [] n.kind = "MissingDeclaration"  -> printModifiers(n)
      [] n.kind = "CommaListExpression" -> Listed(n, "elements")
      [] n.kind = "OmittedExpression"   -> <<>>
      [] OTHER -> PrintRestOfTypes(n)

PrintModules(n) ==
    CASE n.kind = "ImportDeclaration" ->
           printModifiers(n) \o Put(<<"import", " ">>)
           \o (IF Has(n, "importClause") THEN Child(n, "importClause") \o Put(<<" ", "from", " ">>) ELSE <<>>)
           \o Child(n, "moduleSpecifier")
      [] n.kind = "ImportClause" ->
           Child(n, "name") \o (IF Has(n, "name") /\ Has(n, "namedBindings") THEN Put(<<",", " ">>) ELSE <<>>)
           \o Child(n, "namedBindings")
      [] n.kind = "NamespaceExportDeclaration" -> Put(<<"export", " ", "as", " ", "namespace", " ">>) \o Child(n, "name")
      [] n.kind = "NamespaceImport" -> Put(<<"*", " ", "as", " ">>) \o Child(n, "name")
      [] n.kind = "NamespaceExport" -> Child(n, "name")
      [] n.kind \in {"NamedImports", "NamedExports"} -> Several(n, "elements", <<"{">>, <<",", " ">>, <<"}">>, FALSE)
      [] n.kind = "ExportDeclaration" ->
           printModifiers(n) \o Put(<<"export", " ">>)
           \o (IF Has(n, "exportClause") THEN Child(n, "exportClause") ELSE Put(<<"*">>))
           \o Opt(n, <<" ", "from", " ">>, "moduleSpecifier")
      [] n.kind \in {"ImportSpecifier", "ExportSpecifier"} ->
           (IF Has(n, "propertyName") THEN Child(n, "propertyName") \o Put(<<" ", "as", " ">>) ELSE <<>>)
           \o Child(n, "name")
      [] n.kind = "ExportAssignment" ->
           printModifiers(n) \o Put(<<"export", " ", "=", " ">>) \o Child(n, "expression")
      [] OTHER -> PrintTemplates(n)

\* The modules of a dotted name: each is the body of the one before it.
RECURSIVE Dotted(_)
Dotted(tree) == IF Has(tree, "body") /\ tree.kids.body.kind = "ModuleDeclaration"
                THEN <<tree>> \o Dotted(tree.kids.body) ELSE <<tree>>

PrintDeclarations(n) ==
    CASE n.kind = "Decorator" -> Child(n, "expression")
      [] n.kind \in ClassLikes \cup {"InterfaceDeclaration"} ->
           printModifiersWithMode(n) \o Put(<<IF n.kind \in ClassLikes THEN "class" ELSE "interface", " ">>)
           \o Child(n, "name") \o TypeParametersOf(n) \o Several(n, "heritageClauses", <<>>, <<>>, <<>>, FALSE)
           \o MembersBlock(n, n.kind, "members", ";")
      [] n.kind = "TypeAliasDeclaration" ->
           printModifiersWithMode(n) \o Put(<<"type", " ">>) \o Child(n, "name") \o TypeParametersOf(n)
           \o Put(<<" ", "=", " ">>) \o Child(n, "type")
      [] n.kind = "EnumDeclaration" ->
           printModifiersWithMode(n) \o Put(<<"enum", " ">>) \o Child(n, "name") \o MembersBlock(n, "", "members", ",")
      [] n.kind = "EnumMember" -> Child(n, "name") \o Opt(n, <<" ", "=", " ">>, "initializer")
      [] n.kind = "ModuleDeclaration" ->
           LET modules == Dotted(n)
               name(i) == (IF i > 1 THEN Put(<<".">>) ELSE <<>>) \o Printed(n, modules[i].kids.name)
               last    == modules[Len(modules)]
           IN printModifiers(n) \o Put(<<"module", " ">>) \o FlattenSeq([i \in DOMAIN modules |-> name(i)])
              \o (IF Has(last, "body") THEN Printed(n, last.kids.body) ELSE <<>>)
      [] n.kind = "ImportEqualsDeclaration" ->
           printModifiers(n) \o Put(<<"import", " ">>) \o Child(n, "name") \o Put(<<" ", "=", " ">>)
           \o Child(n, "moduleReference")
      [] OTHER -> PrintModules(n)

PrintJumpsAndClauses(n) ==
    CASE n.kind \in {"Continue", "Break"} ->
           Put(<<IF n.kind = "Break" THEN "break" ELSE "continue">>) \o Opt(n, <<" ">>, "label")
      [] n.kind = "Return"   -> Put(<<"return">>) \o Opt(n, <<" ">>, "expression")
      [] n.kind = "With" -> Put(<<"with", " ", "(">>) \o Child(n, "expression") \o Put(<<")">>) \o Child(n, "statement")
      [] n.kind = "Switch" ->
           Put(<<"switch", " ", "(">>) \o Child(n, "expression") \o Put(<<")">>) \o Child(n, "caseBlock")
      [] n.kind = "CaseBlock" ->
           LET clause(tree) == Put(<<" ">>) \o Printed(Within(n), tree)
           IN BlockBase(n, "", FlattenSeq([i \in DOMAIN n.kids.clauses |-> clause(n.kids.clauses[i])]))
      [] n.kind = "CaseClause" ->
           Put(<<"case", " ">>) \o Child(n, "expression") \o Put(<<":", "\n">>) \o Lines(Within(n), "statements", ";")
      [] n.kind = "DefaultClause" -> Put(<<"default", ":", "\n">>) \o Lines(Within(n), "statements", ";")
      [] n.kind = "Labeled"  -> Child(n, "label") \o Put(<<":", " ">>) \o Child(n, "statement")
      [] n.kind = "Throw"    -> Put(<<"throw", " ">>) \o Child(n, "expression")
      [] n.kind = "Debugger" -> Put(<<"debugger">>)
      [] n.kind = "Try" ->
           Put(<<"try">>) \o Child(n, "tryBlock") \o Child(n, "catchClause")
           \o Opt(n, Indent(n) \o <<"finally">>, "finallyBlock")
      [] n.kind = "CatchClause" ->
           Put(Indent(n) \o <<"catch">>)
           \o (IF Has(n, "variableDeclaration") THEN Put(<<" ", "(">>) \o Child(n, "variableDeclaration") \o Put(<<")">>)
               ELSE <<>>)
           \o Child(n, "block")
      [] OTHER -> PrintDeclarations(n)

PrintIf(n) ==
    LET thenIsBlock == WithBlock(n.declaring, n.kids.thenStatement)
    IN Put(<<"if", " ", "(">>) \o Child(n, "expression") \o Put(<<")">> \o (IF thenIsBlock THEN <<>> ELSE <<" ">>))
       \o Child(n, "thenStatement")
       \o (IF ~Has(n, "elseStatement") THEN <<>>
           ELSE Put((IF thenIsBlock THEN Indent(n) ELSE <<";", " ">>) \o <<"else">>
                    \o (IF isBlock(n.kids.elseStatement) THEN <<>> ELSE <<" ">>))
                \o Child(n, "elseStatement"))

PrintDo(n) ==
    LET isBodyBlock == WithBlock(n.declaring, n.kids.statement)
    IN Put(<<"do">> \o (IF isBodyBlock THEN <<>> ELSE <<" ">>)) \o Child(n, "statement")
       \o Put((IF isBodyBlock THEN Indent(n) ELSE <<" ">>) \o <<"while", " ", "(">>) \o Child(n, "expression")
       \o Put(<<")">>)

PrintStatements(n) ==
    CASE n.kind \in {"Block", "ModuleBlock"} -> MembersBlock(n, n.parent, "statements", ";")
      [] n.kind = "SourceFile"        -> Lines(n, "statements", ";") \o Child(n, "endOfFileToken")
      [] n.kind = "VariableStatement" -> printModifiers(n) \o Child(n, "declarationList")
      [] n.kind = "VariableDeclarationList" ->
           Put(<<n.text, " ">>) \o Several(n, "declarations", <<>>, <<",">>, <<>>, FALSE)
      [] n.kind = "ExpressionStatement" -> Child(n, "expression")
      [] n.kind = "If" -> PrintIf(n)
      [] n.kind = "Do" -> PrintDo(n)
      [] n.kind = "While" ->
           Put(<<"while", " ", "(">>) \o Child(n, "expression") \o Put(<<")">>) \o Child(n, "statement")
      [] n.kind = "For" ->
           Put(<<"for", " ", "(">>) \o Child(n, "initializer") \o Put(<<";", " ">>) \o Child(n, "condition")
           \o Put(<<";", " ">>) \o Child(n, "incrementor") \o Put(<<")", " ">>) \o Child(n, "statement")
      [] n.kind \in {"ForIn", "ForOf"} ->
           Put(<<"for", " ">>) \o Child(n, "awaitModifier") \o Put(<<"(">>) \o Child(n, "initializer")
           \o Put(<<" ", IF n.kind = "ForIn" THEN "in" ELSE "of", " ">>) \o Child(n, "expression") \o Put(<<")", " ">>)
           \o Child(n, "statement")
      [] OTHER -> PrintJumpsAndClauses(n)

\* Nothing keeps '-' and '--' apart but the blank before the inner one.
PrintOperations(n) ==
    CASE n.kind = "Parenthesized" -> Put(<<"(">>) \o Child(n, "expression") \o Put(<<")">>)
      [] n.kind = "Delete" -> Put(<<"delete", " ">>) \o Child(n, "expression")
      [] n.kind = "TypeOf" -> Put(<<"typeof", " ">>) \o Child(n, "expression")
      [] n.kind = "Void"   -> Put(<<"void", " ">>) \o Child(n, "expression")
      [] n.kind = "PrefixUnary" ->
           Put((IF n.parent = "PrefixUnary" THEN <<" ">> ELSE <<>>) \o <<n.text>>) \o Child(n, "operand")
      [] n.kind = "Yield" -> Put(<<"yield", " ">>) \o Child(n, "asteriskToken") \o Child(n, "expression")
      [] n.kind = "Await" -> Put(<<"await", " ">>) \o Child(n, "expression")
      [] n.kind = "PostfixUnary" -> Child(n, "operand") \o Put(<<n.text>>)
      [] n.kind = "Binary" -> Child(n, "left") \o Child(n, "operatorToken") \o Child(n, "right")
      [] n.kind = "As" -> Child(n, "expression") \o Put(<<" ", "as", " ">>) \o Child(n, "type")
      [] n.kind = "NonNullExpression" -> Child(n, "expression") \o Put(<<"!">>)
      [] n.kind = "MetaProperty" -> Put(<<n.text, ".">>) \o Child(n, "name")
      [] n.kind = "Conditional" ->
           Child(n, "condition") \o Put(<<" ">>) \o Child(n, "questionToken") \o Put(<<" ">>) \o Child(n, "whenTrue")
           \o Child(n, "colonToken") \o Child(n, "whenFalse")
      [] n.kind = "SpreadElement" -> Put(<<"...">>) \o Child(n, "expression")
      [] OTHER -> PrintStatements(n)

PrintAccesses(n) ==
    CASE n.kind = "ObjectBindingPattern" -> Braced(n, "elements")
      [] n.kind \in {"ArrayBindingPattern", "ArrayLiteral"} -> Bracketed(n, "elements")
      [] n.kind = "ObjectLiteral" -> MembersBlock(n, "ObjectLiteral", "properties", ",")
      [] n.kind = "PropertyAccess" ->
           Child(n, "expression") \o (IF Has(n, "questionDotToken") THEN Child(n, "questionDotToken") ELSE Put(<<".">>))
           \o Child(n, "name")
      [] n.kind = "ElementAccess" ->
           Child(n, "expression") \o Child(n, "questionDotToken") \o Put(<<"[">>) \o Child(n, "argumentExpression")
           \o Put(<<"]">>)
      [] n.kind = "Call" ->
           Child(n, "expression") \o Child(n, "questionDotToken") \o TypeArgumentsOf(n) \o Put(<<"(">>)
           \o Listed(n, "arguments") \o Put(<<")">>)
      [] n.kind = "New" ->
           Put(<<"new", " ">>) \o Child(n, "expression") \o TypeArgumentsOf(n)
           \o Several(n, "arguments", <<"(">>, <<",", " ">>, <<")">>, FALSE)
      [] n.kind = "TaggedTemplate" ->
           Child(n, "tag") \o Child(n, "questionDotToken") \o TypeArgumentsOf(n) \o Child(n, "_template")
      [] n.kind = "TypeAssertion" ->
           Put(<<"<">>)
           \o (IF n.kids.type.kind = "FunctionType" /\ Under(n.kids.type, "typeParameters") # <<>> THEN Put(<<" ">>)
               ELSE <<>>)
           \o Child(n, "type") \o Put(<<">">>) \o Child(n, "expression")
      [] OTHER -> PrintOperations(n)

PrintTypeOperators(n) ==
    CASE n.kind = "ParenthesizedType" -> Put(<<"(">>) \o Child(n, "type") \o Put(<<")">>)
      [] n.kind = "TypeOperator"      -> Put(<<n.text, " ">>) \o Child(n, "type")
      [] n.kind = "IndexedAccessType" -> Child(n, "objectType") \o Put(<<"[">>) \o Child(n, "indexType") \o Put(<<"]">>)
      [] n.kind = "MappedType" ->
           Put(<<"{">>) \o Child(n, "readonlyToken") \o Put(<<"[">>) \o Child(n, "typeParameter")
           \o Opt(n, <<" ", "as", " ">>, "nameType") \o Put(<<"]">>) \o Child(n, "questionToken")
           \o Opt(n, <<":", " ">>, "type") \o Put(<<"}">>)
      [] n.kind = "LiteralType" -> Child(n, "literal")
      [] n.kind = "NamedTupleMember" ->
           Child(n, "dotDotDotToken") \o Child(n, "name") \o Child(n, "questionToken") \o Put(<<":", " ">>)
           \o Child(n, "type")
      [] OTHER -> PrintAccesses(n)

PrintTypes(n) ==
    CASE n.kind = "TypeReference" -> Child(n, "typeName") \o TypeArgumentsOf(n)
      [] n.kind = "TypePredicate" ->
           (IF Has(n, "assertsModifier") THEN Child(n, "assertsModifier") \o Put(<<" ">>) ELSE <<>>)
           \o Child(n, "parameterName") \o Put(<<" ", "is", " ">>) \o Child(n, "type")
      [] n.kind = "TypeQuery"     -> Put(<<"typeof", " ">>) \o Child(n, "exprName")
      [] n.kind = "TypeLiteral"   -> Braced(n, "members")
      [] n.kind = "ArrayType"     -> Child(n, "elementType") \o Put(<<"[", "]">>)
      [] n.kind = "TupleType"     -> Put(<<"[">>) \o Listed(n, "elements") \o Put(<<"]">>)
      [] n.kind = "UnionType"        -> Several(n, "types", <<>>, <<" ", "|", " ">>, <<>>, FALSE)
      [] n.kind = "IntersectionType" -> Several(n, "types", <<>>, <<" ", "&", " ">>, <<>>, FALSE)
      [] n.kind = "ConditionalType" ->
           Child(n, "checkType") \o Put(<<" ", "extends", " ">>) \o Child(n, "extendsType") \o Put(<<" ", "?", " ">>)
           \o Child(n, "trueType") \o Put(<<" ", ":", " ">>) \o Child(n, "falseType")
      [] n.kind = "InferType" -> Put(<<"infer", " ">>) \o Child(n, "typeParameter")
      [] n.kind = "ImportType" ->
           Put(<<"import", "(">>) \o Child(n, "argument") \o Put(<<")">>)
           \o (IF Has(n, "qualifier") THEN Put(<<".">>) \o Child(n, "qualifier") \o TypeArgumentsOf(n) ELSE <<>>)
      [] OTHER -> PrintTypeOperators(n)

\* The words before the name of a function and its like.
WordsOf(kind) ==
    CASE kind \in {"FunctionExpression", "FunctionDeclaration"} -> <<"function", " ">>
      [] kind = "Constructor" -> <<"constructor">>
      [] kind = "GetAccessor" -> <<"get", " ">>
      [] kind = "SetAccessor" -> <<"set", " ">>
      [] kind \in {"ConstructorType", "ConstructSignature"} -> <<"new", " ">>
      [] OTHER -> <<>>

PrintSignatures(n) ==
    CASE n.kind \in {"FunctionType", "ConstructorType"} ->
           printModifiers(n) \o Put(WordsOf(n.kind)) \o TypeParametersOf(n) \o ParametersOf(n) \o Put(<<" ", "=>", " ">>)
           \o Child(n, "type")
      [] n.kind \in {"CallSignature", "MethodSignature", "ConstructSignature"} ->
           printModifiers(n) \o Put(WordsOf(n.kind)) \o Child(n, "name") \o Child(n, "questionToken")
           \o TypeParametersOf(n) \o ParametersOf(n) \o Opt(n, <<":", " ">>, "type")
      [] n.kind = "IndexSignature" ->
           printModifiers(n) \o TypeParametersOf(n) \o Several(n, "parameters", <<"[">>, <<",", " ">>, <<"]">>, FALSE)
           \o Opt(n, <<":", " ">>, "type")
      [] n.kind \in FunctionLikes \cup {"ArrowFunction"} ->
           (IF n.kind \in ClassMembers THEN printModifiers(n) ELSE printModifiersWithMode(n)) \o Put(WordsOf(n.kind))
           \o Child(n, "asteriskToken") \o Child(n, "name") \o Child(n, "questionToken") \o Child(n, "exclamationToken")
           \o TypeParametersOf(n) \o ParametersOf(n) \o Opt(n, <<" ", ":", " ">>, "type")
           \o Child(n, "equalsGreaterThanToken") \o (IF n.declaring THEN <<>> ELSE Child(n, "body"))
      [] OTHER -> PrintTypes(n)

PrintVariables(n) ==
    CASE n.kind = "Parameter" ->
           printModifiers(n) \o Child(n, "dotDotDotToken") \o Child(n, "name") \o Child(n, "questionToken")
           \o Opt(n, <<":", " ">>, "type") \o Opt(n, <<" ", "=", " ">>, "initializer")
      [] n.kind \in {"PropertyDeclaration", "PropertySignature"} ->
           printModifiers(n) \o Child(n, "name") \o Child(n, "questionToken") \o Child(n, "exclamationToken")
           \o Opt(n, <<":", " ">>, "type") \o Opt(n, <<" ", "=", " ">>, "initializer")
      [] n.kind = "PropertyAssignment" ->
           printModifiers(n) \o Child(n, "name") \o Child(n, "questionToken") \o Opt(n, <<":", " ">>, "initializer")
      [] n.kind = "VariableDeclaration" ->
           printModifiers(n) \o Child(n, "name") \o Child(n, "exclamationToken") \o Opt(n, <<" ", ":", " ">>, "type")
           \o Opt(n, <<" ", "=", " ">>, "initializer")
      [] n.kind = "BindingElement" ->
           printModifiers(n) \o Child(n, "dotDotDotToken")
           \o (IF Has(n, "propertyName") THEN Child(n, "propertyName") \o Put(<<":", " ">>) ELSE <<>>)
           \o Child(n, "name") \o Opt(n, <<" ", "=", " ">>, "initializer")
      [] OTHER -> PrintSignatures(n)

PrintNode(n) ==
    CASE n.kind \in {"Identifier", "1", "'s'"} -> Put(<<n.text>>)
      [] n.kind = "regex"         -> Put(<<"/", "x", "/">>)
      [] n.kind = "QualifiedName" -> Child(n, "left") \o Put(<<".">>) \o Child(n, "right")
      [] n.kind = "TypeParameter" ->
           Child(n, "name") \o Opt(n, <<" ", IF n.parent = "MappedType" THEN "in" ELSE "extends", " ">>, "constraint")
           \o Opt(n, <<" ", "=", " ">>, "_default") \o Child(n, "expression")
      [] n.kind = "ShorthandPropertyAssignment" ->
           printModifiers(n) \o Child(n, "name") \o Child(n, "questionToken") \o Child(n, "exclamationToken")
           \o Child(n, "equalsToken") \o Child(n, "objectAssignmentInitializer")
      [] n.kind = "SpreadAssignment" -> Put(<<"...">>) \o Child(n, "expression")
      [] OTHER -> PrintVariables(n)

\* The pieces written for a list of trees and texts.
RECURSIVE PrintFrom(_)
PrintFrom(todo) ==
    IF todo = <<>> THEN <<>>
    ELSE LET first == Head(todo) IN
         IF first.kind = "text" THEN first.pieces \o PrintFrom(Tail(todo))
         ELSE PrintFrom(PrintNode(first) \o Tail(todo))

Pieces(tree, declaring) ==
    PrintFrom(<<tree @@ [parent |-> "none", inside |-> FALSE, declaring |-> declaring]>>)

-----------------------------------------------------------------------------
(* What a scanner reads of it: blanks do nothing but keep apart what would *)
(* be one lexeme without them.                                             *)
-----------------------------------------------------------------------------
Marks == (OperatorsPrinted \ {"in", "instanceof"})
         \cup MarksPrinted \cup {"(", ")", "[", "]", "{", "}", ";", ".", "@", "'s'", "template", "head", "text", "text{"}
White == {" ", "\n"}
RunsOn(a, b) ==
    \/ a \notin Marks \cup White /\ b \notin Marks \cup White
    \/ a \in {"+", "-"} /\ b = a
    \/ a \in {"+", "-"} /\ b = a \o a
Glued(a, b) == IF a \in {"+", "-"} THEN (IF b = a THEN <<a \o a>> ELSE <<b, a>>) ELSE <<"x">>
KeptApart(a, b) == a \in {"<", ">"} /\ b \in {"<", ">", "="}

\* Reads one more piece; gap is the white space since the last lexeme.
Read(state, piece) ==
    LET read == state.read
        last == IF read = <<>> THEN "" ELSE read[Len(read)]
    IN CASE piece \in White -> [state EXCEPT !.gap = IF @ = "\n" THEN @ ELSE piece]
         [] piece \notin White /\ state.gap = "\n" /\ read # <<>> -> [read |-> read \o <<"\n", piece>>, gap |-> ""]
         [] piece \notin White /\ state.gap = "" /\ read # <<>> /\ RunsOn(last, piece) ->
              [read |-> Front(read) \o Glued(last, piece), gap |-> ""]
         [] OTHER -> [read |-> IF state.gap = " " /\ KeptApart(last, piece) THEN read \o <<" ", piece>>
                               ELSE Append(read, piece), gap |-> ""]

TextOf(pieces) == FoldLeft(Read, [read |-> <<>>, gap |-> ""], pieces).read
Text(tree, declaring) == TextOf(Pieces(tree, declaring))

-----------------------------------------------------------------------------
(* The declarations that a library exports (MLIRGen.cpp).                  *)
-----------------------------------------------------------------------------
Exportable == {"FunctionDeclaration", "ClassDeclaration", "InterfaceDeclaration", "TypeAliasDeclaration",
               "EnumDeclaration", "VariableStatement"}
FromLibrary == {"FunctionDeclaration", "ClassDeclaration", "VariableStatement"}

addDeclarationToExport(tree) ==
    TextOf((IF tree.kind \in FromLibrary THEN <<"@", "x", "\n">> ELSE <<>>) \o Pieces(tree, TRUE) \o <<";", "\n">>)
===============================================================================
