----------------------------- MODULE Parenthesizer -----------------------------
(***************************************************************************)
(* The rules of parenthesizer_rules.cpp: where a node factory puts         *)
(* parentheses around what it is given, so that the text of the tree means *)
(* the tree.  An access or a call of an optional chain has the text        *)
(* "chain" (NodeFlags::OptionalChain), an operator is the text of its node *)
(* or the kind of its operatorToken.                                       *)
(***************************************************************************)
EXTENDS SyntaxTree, SequencesExt

InParentheses(tree)     == Node("Parenthesized", [expression |-> tree])
TypeInParentheses(type) == Node("ParenthesizedType", [type |-> type])

-----------------------------------------------------------------------------
(* What the rules ask of an expression (utilities.h).                      *)
-----------------------------------------------------------------------------
Assignments == {"=", "+=", "-=", "**=", "*=", "/=", "%=", "<<=", ">>=", ">>>=", "&=", "^=", "|=", "||=", "&&=", "??="}
LiteralKinds == {"1", "'s'", "regex", "template"}
Constants == LiteralKinds \cup {"Identifier", "null", "true", "false", "this", "super"}
PrefixOperators == {"PrefixUnary", "TypeOf", "Void", "Delete", "Await"}

isLeftHandSideExpression(tree) ==
    tree.kind \in Constants \cup {"PropertyAccess", "ElementAccess", "New", "Call", "TaggedTemplate", "ArrayLiteral",
                                  "Parenthesized", "ObjectLiteral", "ClassExpression", "FunctionExpression",
                                  "TemplateExpression", "NonNullExpression", "ExpressionWithTypeArguments",
                                  "MetaProperty", "import", "MissingDeclaration"}

isUnaryExpression(tree) ==
    tree.kind \in PrefixOperators \cup {"PostfixUnary", "TypeAssertion"} \/ isLeftHandSideExpression(tree)

isCommaSequence(tree) ==
    tree.kind = "CommaListExpression" \/ (tree.kind = "Binary" /\ tree.kids.operatorToken.kind = ",")

isOptionalChain(tree) ==
    tree.text = "chain" /\ tree.kind \in {"PropertyAccess", "ElementAccess", "Call", "NonNullExpression"}

\* The levels of OperatorPrecedence, and what is below them all.
Invalid == -1
CommaLevel == 0
AssignmentLevel == 3
ConditionalLevel == 4

getBinaryOperatorPrecedence(op) ==
    CASE op = "??" -> ConditionalLevel [] op = "||" -> 5 [] op = "&&" -> 6 [] op = "|" -> 7 [] op = "^" -> 8
      [] op = "&"  -> 9
      [] op \in {"==", "!=", "===", "!=="} -> 10
      [] op \in {"<", ">", "<=", ">=", "instanceof", "in", "as", "satisfies"} -> 11
      [] op \in {"<<", ">>", ">>>"} -> 12
      [] op \in {"+", "-"}          -> 13
      [] op \in {"*", "/", "%"}     -> 14
      [] op = "**" -> 15
      [] OTHER     -> Invalid

getOperatorPrecedence(op) ==
    IF op = "," THEN CommaLevel ELSE IF op \in Assignments THEN AssignmentLevel ELSE getBinaryOperatorPrecedence(op)

getExpressionPrecedence(tree) ==
    CASE tree.kind = "CommaListExpression" -> CommaLevel
      [] tree.kind = "SpreadElement"       -> 1
      [] tree.kind = "Yield"               -> 2
      [] tree.kind = "Conditional"         -> ConditionalLevel
      [] tree.kind = "Binary"              -> getOperatorPrecedence(tree.kids.operatorToken.kind)
      [] tree.kind = "As"                  -> 11
      [] tree.kind \in PrefixOperators \cup {"TypeAssertion", "NonNullExpression"} -> 16
      [] tree.kind = "PostfixUnary"        -> 17
      [] tree.kind = "Call"                -> 18
      [] tree.kind = "New"                 -> IF Has(tree, "arguments") THEN 19 ELSE 18
      [] tree.kind \in {"TaggedTemplate", "PropertyAccess", "ElementAccess", "MetaProperty"} -> 19
      [] tree.kind \in Constants \cup {"ArrayLiteral", "ObjectLiteral", "FunctionExpression", "ArrowFunction",
                                       "ClassExpression", "TemplateExpression", "Parenthesized", "OmittedExpression"} -> 20
      [] OTHER -> Invalid

\* Mutant: only assignments associate to the right.
AssociatesRightIfAssigning(op) == op \in Assignments

AssociatesRight(op) == op = "**" \/ op \in Assignments

getExpressionAssociativity(tree) ==
    CASE tree.kind = "New"    -> IF Has(tree, "arguments") THEN "Left" ELSE "Right"
      [] tree.kind = "Binary" -> IF AssociatesRight(tree.kids.operatorToken.kind) THEN "Right" ELSE "Left"
      [] tree.kind \in PrefixOperators \cup {"Conditional", "Yield"} -> "Right"
      [] OTHER -> "Left"

\* The role under which an expression of a kind begins.
FirstRole(kind) ==
    CASE kind = "PostfixUnary"   -> "operand"
      [] kind = "Binary"         -> "left"
      [] kind = "Conditional"    -> "condition"
      [] kind = "TaggedTemplate" -> "tag"
      [] kind \in {"Call", "As", "ElementAccess", "PropertyAccess", "NonNullExpression",
                   "PartiallyEmittedExpression"} -> "expression"
      [] OTHER -> "none"

RECURSIVE getLeftmostExpression(_, _)
getLeftmostExpression(tree, stopAtCall) ==
    IF FirstRole(tree.kind) = "none" \/ (stopAtCall /\ tree.kind = "Call") THEN tree
    ELSE getLeftmostExpression(tree.kids[FirstRole(tree.kind)], stopAtCall)

\* What adding up literals gives: the kind they all have, or "".
RECURSIVE getLiteralKindOfBinaryPlusOperand(_)
getLiteralKindOfBinaryPlusOperand(tree) ==
    IF tree.kind \in LiteralKinds THEN tree.kind
    ELSE IF tree.kind # "Binary" \/ tree.kids.operatorToken.kind # "+" THEN ""
    ELSE LET kinds == {getLiteralKindOfBinaryPlusOperand(tree.kids[side]) : side \in {"left", "right"}}
         IN IF Cardinality(kinds) = 1 THEN CHOOSE kind \in kinds : TRUE ELSE ""

-----------------------------------------------------------------------------
(* The rules for expressions.                                              *)
-----------------------------------------------------------------------------
ExpressionOfComputedPropertyName(tree) == IF isCommaSequence(tree) THEN InParentheses(tree) ELSE tree

ExpressionForDisallowedComma(tree) ==
    IF getExpressionPrecedence(tree) > CommaLevel THEN tree ELSE InParentheses(tree)

LeftSideOfAccess(tree, optionalChain) ==
    IF /\ isLeftHandSideExpression(tree)
       /\ tree.kind = "New" => Has(tree, "arguments")
       /\ optionalChain \/ ~isOptionalChain(tree)
    THEN tree ELSE InParentheses(tree)

ExpressionOfNew(tree) ==
    LET first == getLeftmostExpression(tree, TRUE) IN
    CASE first.kind = "Call" -> InParentheses(tree)
      [] first.kind = "New"  -> IF Has(first, "arguments") THEN tree ELSE InParentheses(tree)
      [] OTHER -> LeftSideOfAccess(tree, FALSE)

OperandOfPrefixUnary(tree)  == IF isUnaryExpression(tree) THEN tree ELSE InParentheses(tree)
OperandOfPostfixUnary(tree) == IF isLeftHandSideExpression(tree) THEN tree ELSE InParentheses(tree)

ConciseBodyOfArrowFunction(tree) ==
    IF tree.kind # "Block" /\ (isCommaSequence(tree) \/ getLeftmostExpression(tree, FALSE).kind = "ObjectLiteral")
    THEN InParentheses(tree) ELSE tree

\* An operand of the operator's own level.
SameLevelNeedsParentheses(op, tree, isLeft, left) ==
    IF isLeft THEN AssociatesRight(op)
    ELSE /\ ~ /\ tree.kind = "Binary" /\ tree.kids.operatorToken.kind = op
              /\ \/ op \in {"*", "|", "&", "^"}
                 \/ /\ op = "+"
                    /\ getLiteralKindOfBinaryPlusOperand(left) \in LiteralKinds
                    /\ getLiteralKindOfBinaryPlusOperand(left) = getLiteralKindOfBinaryPlusOperand(tree)
         /\ getExpressionAssociativity(tree) = "Left"

binaryOperandNeedsParentheses(op, tree, isLeft, left) ==
    LET own == getOperatorPrecedence(op)
        its == getExpressionPrecedence(tree)
    IN CASE ~isLeft /\ tree.kind = "ArrowFunction" /\ own > AssignmentLevel -> TRUE
         [] ~(~isLeft /\ tree.kind = "ArrowFunction" /\ own > AssignmentLevel) ->
              \/ its < own /\ ~(~isLeft /\ AssociatesRight(op) /\ tree.kind = "Yield")
              \/ its = own /\ SameLevelNeedsParentheses(op, tree, isLeft, left)

BinaryOperand(op, tree, isLeft, left) ==
    IF tree.kind # "Parenthesized" /\ binaryOperandNeedsParentheses(op, tree, isLeft, left) THEN InParentheses(tree)
    ELSE tree

ConditionOfConditionalExpression(tree) ==
    IF getExpressionPrecedence(tree) > ConditionalLevel THEN tree ELSE InParentheses(tree)
BranchOfConditionalExpression(tree) == IF isCommaSequence(tree) THEN InParentheses(tree) ELSE tree

ExpressionOfExportDefault(tree) ==
    IF isCommaSequence(tree) \/ getLeftmostExpression(tree, FALSE).kind \in {"ClassExpression", "FunctionExpression"}
    THEN InParentheses(tree) ELSE tree

\* A call of a function: what the rule makes of it is dropped.
ExpressionOfExpressionStatement(tree) ==
    IF /\ ~(tree.kind = "Call" /\ tree.kids.expression.kind \in {"FunctionExpression", "ArrowFunction"})
       /\ getLeftmostExpression(tree, FALSE).kind \in {"ObjectLiteral", "FunctionExpression"}
    THEN InParentheses(tree) ELSE tree

-----------------------------------------------------------------------------
(* The rules for types.                                                    *)
-----------------------------------------------------------------------------
MemberOfConditionalType(type) == IF type.kind = "ConditionalType" THEN TypeInParentheses(type) ELSE type

MemberOfElementType(type) ==
    IF type.kind \in {"UnionType", "IntersectionType", "FunctionType", "ConstructorType"} THEN TypeInParentheses(type)
    ELSE MemberOfConditionalType(type)

ElementTypeOfArrayType(type) ==
    IF type.kind \in {"TypeQuery", "TypeOperator", "InferType"} THEN TypeInParentheses(type)
    ELSE MemberOfElementType(type)

ConstituentTypesOfUnionOrIntersectionType(types) == [i \in DOMAIN types |-> MemberOfElementType(types[i])]

TypeArguments(types) ==
    [i \in DOMAIN types |->
       IF i = 1 /\ types[i].kind \in {"FunctionType", "ConstructorType"} /\ Has(types[i], "typeParameters")
       THEN TypeInParentheses(types[i]) ELSE types[i]]
===============================================================================
