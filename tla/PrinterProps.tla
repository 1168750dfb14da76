----------------------------- MODULE PrinterProps -----------------------------
(***************************************************************************)
(* What the printer, the factory's rules and the visitor promise together: *)
(* the text of a tree is read as that tree, the text of a declaration that *)
(* a library exports is read as that declaration without its bodies, and   *)
(* the nodes of a tree are visited in the order in which they stand in its *)
(* text.                                                                   *)
(***************************************************************************)
EXTENDS ParserProps, Printer, NodeVisitor, Parenthesizer

CONSTANTS Trees       \* the trees to print
VARIABLES meant       \* what the tree is that the text was printed from, or Nothing

-----------------------------------------------------------------------------
(* What is compared: the nodes of a tree, each before those below it.      *)
-----------------------------------------------------------------------------
\* The names the parser's rules have for kinds that share a function.
Named(kind) ==
    CASE kind \in {"NamedImports", "NamedExports"} -> "NamedImportsOrExports"
      [] kind = "JSDocNullableType" -> "NullableType"
      [] kind = "ThisType"  -> "this"
      [] kind = "EndOfFile" -> "EOF"
      [] OTHER              -> kind

Below(tree) == LET roles == Roles(tree.kind) IN FlattenSeq([i \in DOMAIN roles |-> Under(tree, roles[i])])
RECURSIVE PreOrder(_)
PreOrder(trees) == IF trees = <<>> THEN <<>> ELSE <<trees[1]>> \o PreOrder(Below(trees[1]) \o Tail(trees))

\* A tree as the kinds of its nodes and how many are right below each.
Shape(tree) == LET all == PreOrder(<<tree>>) IN [i \in DOMAIN all |-> <<Named(all[i].kind), Len(Below(all[i]))>>]

\* The same of what was read: the lists are no nodes.
RECURSIVE Listless(_)
Listless(read) == IF read = <<>> THEN <<>>
                  ELSE IF Kind(Head(read)) = "List" THEN Listless(Children(Head(read)) \o Tail(read))
                  ELSE <<Head(read)>> \o Listless(Tail(read))
BelowRead(node) ==
    CASE Kind(node) = "SpreadAssignment" -> Tail(Children(node))
      [] Kind(node) = "OptionalType"     -> Children(Children(node)[1])
      [] OTHER                           -> Listless(Children(node))
RECURSIVE PreOrderRead(_)
PreOrderRead(read) == IF read = <<>> THEN <<>> ELSE <<read[1]>> \o PreOrderRead(BelowRead(read[1]) \o Tail(read))

-----------------------------------------------------------------------------
(* What the declarations of a library are to be read as.                   *)
-----------------------------------------------------------------------------
\* The declaration that is meant: without bodies, from the library, declared.
RECURSIVE Bodiless(_)
Bodiless(tree) ==
    [tree EXCEPT !.kids =
       [role \in DOMAIN tree.kids \ (IF tree.kind \in FunctionLikes THEN {"body"} ELSE {}) |->
          IF role \in ListRoles THEN [i \in DOMAIN tree.kids[role] |-> Bodiless(tree.kids[role][i])]
          ELSE Bodiless(tree.kids[role])]]
Decorated == <<Node("Decorator", [expression |-> Leaf("Identifier", "x")])>>
ModifiersDeclared(tree) ==
    (IF tree.kind \in FromLibrary THEN Decorated ELSE <<>>)
    \o (IF tree.kind = "VariableStatement" THEN Under(tree, "modifiers")
        ELSE <<Leaf("declare", "declare")>> \o SelectSeq(Under(tree, "modifiers"), LAMBDA m : m.kind # "export"))
Declared(tree) ==
    LET declared == [tree EXCEPT !.kids = [modifiers |-> ModifiersDeclared(tree)] @@ Bodiless(tree).kids]
        after == IF tree.kind \in {"ClassDeclaration", "InterfaceDeclaration", "EnumDeclaration"}
                 THEN <<Leaf("Empty", "")>> ELSE <<>>
    IN Node("SourceFile", [statements |-> <<declared>> \o after, endOfFileToken |-> Leaf("EndOfFile", "")])

-----------------------------------------------------------------------------
(* The trees whose text means something else, or nothing: the rules have   *)
(* no parentheses for them, or the printer has no ';' or no blank.         *)
-----------------------------------------------------------------------------
\* The rules of BinaryOperand look for an arrow function on the right only, take
\* every unary expression for an operand of **, and let a yield follow **.
OperandMisread(n) ==
    /\ n.kind = "Binary"
    /\ \/ n.kids.operatorToken.kind = "**" /\ n.kids.left.kind \in PrefixOperators \cup {"TypeAssertion"}
       \/ n.kids.operatorToken.kind = "**" /\ n.kids.right.kind = "Yield"
       \/ n.kids.operatorToken.kind # "," /\ n.kids.left.kind = "ArrowFunction"
\* The rule takes one grouping of an associative operator for the other.
Regrouped(n) ==
    /\ n.kind = "Binary" /\ n.kids.operatorToken.kind \in {"*", "|", "&", "^", "+"}
    /\ n.kids.right.kind = "Binary" /\ n.kids.right.kids.operatorToken.kind = n.kids.operatorToken.kind
\* createAsExpression has no rule, and that of a condition knows no arrow function.
OperandOfAsMisread(n) ==
    n.kind = "As" /\ (n.kids.expression.kind = "ArrowFunction" \/ getExpressionPrecedence(n.kids.expression) < 11)
ConditionMisread(n) == n.kind = "Conditional" /\ n.kids.condition.kind = "ArrowFunction"
\* The rule for a statement knows no class, and a called function is left as it is.
StatementMisread(n) ==
    /\ n.kind = "ExpressionStatement"
    /\ \/ getLeftmostExpression(n.kids.expression, FALSE).kind = "ClassExpression"
       \/ n.kids.expression.kind = "Call" /\ n.kids.expression.kids.expression.kind = "FunctionExpression"
\* An object literal begins on a line of its own.
ReturnedMisread(n) ==
    /\ n.kind \in {"Return", "Throw", "Yield"} /\ Has(n, "expression") /\ ~Has(n, "asteriskToken")
    /\ getLeftmostExpression(n.kids.expression, FALSE).kind = "ObjectLiteral"
InitializerMisread(n) ==
    /\ n.kind = "For" /\ Has(n, "initializer")
    /\ n.kids.initializer.kind = "Binary" /\ n.kids.initializer.kids.operatorToken.kind = "in"
TypeMisread(n) ==
    \/ n.kind = "IndexedAccessType" /\ n.kids.objectType.kind \in {"InferType", "TypeOperator"}
    \/ n.kind = "ImportType" /\ Has(n, "typeArguments") /\ ~Has(n, "qualifier")
    \/ n.kind = "ConditionalType" /\ n.kids.checkType.kind \in {"FunctionType", "ConstructorType"}
    \/ n.kind = "TypePredicate" /\ ~Has(n, "type")
\* "do" has neither a blank before a statement that ends with a block nor a ';'
\* after one that does not.
DoMisread(n) == n.kind = "Do" /\ n.kids.statement.kind # "Block"

Misread(n) ==
    \/ OperandMisread(n) \/ Regrouped(n) \/ OperandOfAsMisread(n) \/ ConditionMisread(n) \/ StatementMisread(n)
    \/ ReturnedMisread(n) \/ InitializerMisread(n) \/ TypeMisread(n) \/ DoMisread(n)
\* A function or a class inside an exported declaration is printed as if it were one.
MisreadDeclared(n) == n.kind \in {"ArrowFunction", "FunctionExpression", "ClassExpression"}

NoneOf(bad(_), tree) == LET all == PreOrder(<<tree>>) IN \A i \in DOMAIN all : ~bad(all[i])
Printable  == {tree \in Trees : NoneOf(Misread, tree)}

-----------------------------------------------------------------------------
(* The texts, and what they are to be read as.                             *)
-----------------------------------------------------------------------------
KindsVisited(tree) == LET all == <<tree>> \o Walk(tree) IN [i \in DOMAIN all |-> Named(all[i].kind)]
Meaning(tree)      == [shape |-> Shape(tree), visited |-> KindsVisited(tree)]
Nothing            == [shape |-> <<>>, visited |-> <<>>]

\* The texts of a tree: of the file, and of its first declaration for a library.
Printings(tree) ==
    LET statement == tree.kids.statements[1] IN
    {<<Text(tree, FALSE), Meaning(tree)>>}
    \cup IF statement.kind \in Exportable /\ NoneOf(MisreadDeclared, statement)
         THEN {<<addDeclarationToExport(statement), Meaning(Declared(statement))>>} ELSE {}

InitWithTexts ==
    /\ \E printing \in {<<text, Nothing>> : text \in Inputs} \cup UNION {Printings(tree) : tree \in Printable} :
         input = printing[1] /\ meant = printing[2]
    /\ Start
NextWithTexts == (Run \/ Terminating) /\ UNCHANGED meant
SpecWithTexts == InitWithTexts /\ [][NextWithTexts]_<<vars, meant>> /\ WF_<<vars, meant>>(Run /\ UNCHANGED meant)

\* The text of a tree is read without an error, as a tree of the same shape, and
\* stands for no other tree: no rule of the factory for parentheses, no blank and
\* no ';' of the printer is missing (printer-tester.cpp prints what it has read
\* and compares the kinds of the nodes of both; MLIRGen reads the declarations
\* of a library like this).
ReadsBack ==
    Done /\ meant # Nothing =>
      \A read \in {PreOrderRead(nodes)} :
        /\ diagnostics = <<>>
        /\ meant.shape = [i \in DOMAIN read |-> <<Kind(read[i]), Len(BelowRead(read[i]))>>]

\* forEachChild shows every node of a tree, in the order of the text (utilities.h:
\* "`forEachChild` must visit the children of a node in the order that they
\* appear in the source code").
VisitsInOrder ==
    Done /\ meant # Nothing =>
      \A read \in {PreOrderRead(nodes)} :
        /\ meant.visited = [i \in DOMAIN read |-> Kind(read[i])]
        /\ \A i \in 2 .. Len(read) : StartOf(read[i - 1]) <= StartOf(read[i])
==============================================================================
