------------------------------ MODULE NodeFactory ------------------------------
(***************************************************************************)
(* The create functions of node_factory.cpp, for a factory that keeps the  *)
(* rules for parentheses (the one MLIRGen makes its trees with; the        *)
(* parser's, which sees the parentheses of the text, is made with          *)
(* NodeFactoryFlags::NoParenthesizerRules).  A function stores what it is  *)
(* given, and puts some of it through a rule first: RuleOf says which.     *)
(* The transform flags, which nothing reads in the end, are left out.      *)
(***************************************************************************)
EXTENDS Parenthesizer

None == "none"

\* What createUnionTypeNode and the others do to the types they are given.
RulesOfTypes(kind, role) ==
    CASE kind \in {"TypeReference", "TypeQuery", "ImportType", "ExpressionWithTypeArguments"}
           /\ role = "typeArguments" -> "TypeArguments"
      [] kind \in {"ArrayType", "OptionalType"} -> "ElementTypeOfArrayType"
      [] kind \in {"UnionType", "IntersectionType"} -> "ConstituentTypesOfUnionOrIntersectionType"
      [] kind = "ConditionalType" /\ role \in {"checkType", "extendsType"} -> "MemberOfConditionalType"
      [] kind = "TypeOperator" -> "MemberOfElementType"
      [] kind = "IndexedAccessType" /\ role = "objectType" -> "MemberOfElementType"
      [] OTHER -> None

RulesOfAccesses(kind, role) ==
    CASE kind \in {"PropertyAccess", "ElementAccess", "Call"} /\ role = "expression" -> "LeftSideOfAccess"
      [] kind \in {"Call", "New"} /\ role = "arguments" -> "ExpressionsOfCommaDelimitedList"
      [] kind = "ArrayLiteral" -> "ExpressionsOfCommaDelimitedList"
      [] kind = "New" /\ role = "expression" -> "ExpressionOfNew"
      [] kind = "TaggedTemplate" /\ role = "tag" -> "LeftSideOfAccess"
      [] OTHER -> None

RulesOfOperations(kind, role) ==
    CASE kind \in {"TypeAssertion", "Delete", "TypeOf", "Void", "Await"} /\ role = "expression" -> "OperandOfPrefixUnary"
      [] kind = "PrefixUnary"  -> "OperandOfPrefixUnary"
      [] kind = "PostfixUnary" -> "OperandOfPostfixUnary"
      [] kind = "Binary" /\ role \in {"left", "right"} -> "BinaryOperand"
      [] kind = "Conditional" /\ role = "condition" -> "ConditionOfConditionalExpression"
      [] kind = "Conditional" /\ role \in {"whenTrue", "whenFalse"} -> "BranchOfConditionalExpression"
      [] kind = "ArrowFunction" /\ role = "body" -> "ConciseBodyOfArrowFunction"
      [] OTHER -> None

RulesOfPrimaries(kind, role) ==
    CASE kind \in {"Yield", "SpreadElement"} /\ role = "expression" -> "ExpressionForDisallowedComma"
      [] kind \in {"ExpressionWithTypeArguments", "NonNullExpression"} /\ role = "expression" -> "LeftSideOfAccess"
      [] OTHER -> None

\* Names, members and declarations: asInitializer is the rule of the list.
RulesOfDeclarations(kind, role) ==
    CASE kind = "ComputedPropertyName" -> "ExpressionOfComputedPropertyName"
      [] kind = "Decorator" -> "LeftSideOfAccess"
      [] kind \in {"Parameter", "PropertyDeclaration", "BindingElement", "VariableDeclaration"}
           /\ role = "initializer" -> "ExpressionForDisallowedComma"
      [] OTHER -> None

RulesOfStatements(kind, role) ==
    CASE kind = "ExpressionStatement" -> "ExpressionOfExpressionStatement"
      [] kind \in {"ForOf", "Switch", "CaseClause"} /\ role = "expression" -> "ExpressionForDisallowedComma"
      [] OTHER -> None

RulesOfElements(kind, role) ==
    CASE kind \in {"PropertyAssignment", "EnumMember"} /\ role = "initializer" -> "ExpressionForDisallowedComma"
      [] kind = "ShorthandPropertyAssignment" /\ role = "objectAssignmentInitializer" -> "ExpressionForDisallowedComma"
      [] kind = "SpreadAssignment" -> "ExpressionForDisallowedComma"
      [] OTHER -> None

\* export = and export default.
RulesOfModules(kind, text, role) ==
    CASE kind = "ExportAssignment" /\ role = "expression" ->
           IF text = "=" THEN "RightSideOfAssignment" ELSE "ExpressionOfExportDefault"
      [] OTHER -> None

RuleOf(kind, text, role) ==
    LET all == {RulesOfTypes(kind, role), RulesOfAccesses(kind, role), RulesOfOperations(kind, role),
                RulesOfPrimaries(kind, role), RulesOfDeclarations(kind, role), RulesOfStatements(kind, role),
                RulesOfElements(kind, role), RulesOfModules(kind, text, role)} \ {None}
    IN IF all = {} THEN None ELSE CHOOSE rule \in all : TRUE

\* What is stored under a role: the operands of a binary expression in the order
\* they are stored in, the right one seeing what became of the left one.
Stored(node, rule, role) ==
    LET given == node.kids[role]
        op    == node.kids.operatorToken.kind
        left  == BinaryOperand(op, node.kids.left, TRUE, Leaf("none", ""))
    IN CASE rule = "TypeArguments"                    -> TypeArguments(given)
         [] rule = "ElementTypeOfArrayType"           -> ElementTypeOfArrayType(given)
         [] rule = "MemberOfElementType"              -> MemberOfElementType(given)
         [] rule = "MemberOfConditionalType"          -> MemberOfConditionalType(given)
         [] rule = "ConstituentTypesOfUnionOrIntersectionType" -> ConstituentTypesOfUnionOrIntersectionType(given)
         [] rule = "LeftSideOfAccess"                 -> LeftSideOfAccess(given, node.text = "chain")
         [] rule = "ExpressionOfNew"                  -> ExpressionOfNew(given)
         [] rule = "ExpressionForDisallowedComma"     -> ExpressionForDisallowedComma(given)
         [] rule = "ExpressionsOfCommaDelimitedList" ->
              [i \in DOMAIN given |-> ExpressionForDisallowedComma(given[i])]
         [] rule = "OperandOfPrefixUnary"             -> OperandOfPrefixUnary(given)
         [] rule = "OperandOfPostfixUnary"            -> OperandOfPostfixUnary(given)
         [] rule = "BinaryOperand" -> IF role = "left" THEN left ELSE BinaryOperand(op, given, FALSE, left)
         [] rule = "ConditionOfConditionalExpression" -> ConditionOfConditionalExpression(given)
         [] rule = "BranchOfConditionalExpression"    -> BranchOfConditionalExpression(given)
         [] rule = "ConciseBodyOfArrowFunction"       -> ConciseBodyOfArrowFunction(given)
         [] rule = "ExpressionOfComputedPropertyName" -> ExpressionOfComputedPropertyName(given)
         [] rule = "ExpressionOfExpressionStatement"  -> ExpressionOfExpressionStatement(given)
         [] rule = "ExpressionOfExportDefault"        -> ExpressionOfExportDefault(given)
         [] rule = "RightSideOfAssignment"            -> BinaryOperand("=", given, FALSE, Leaf("none", ""))
         [] rule = None                               -> given

\* The tokens a create function makes when it is given none.
MadeTokens(kind) ==
    CASE kind = "ArrowFunction" -> [equalsGreaterThanToken |-> Leaf("=>", "=>")]
      [] kind = "Conditional"   -> [questionToken |-> Leaf("?", "?"), colonToken |-> Leaf(":", ":")]
      [] OTHER -> <<>>

\* createX(...): the text is the operator of a unary expression, the words of a
\* variable declaration list, the word of a type operator or a module, "=" of an
\* export assignment, "chain" of a link of an optional chain.
createAs(kind, text, kids) ==
    LET node == [kind |-> kind, text |-> text, kids |-> kids @@ MadeTokens(kind)]
    IN [node EXCEPT !.kids = [role \in DOMAIN node.kids |-> Stored(node, RuleOf(kind, text, role), role)]]
create(kind, kids) == createAs(kind, "", kids)
===============================================================================
