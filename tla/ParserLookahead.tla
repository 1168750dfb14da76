--------------------------- MODULE ParserLookahead ---------------------------
(***************************************************************************)
(* The functions of the parser that only look at the tokens ahead: what    *)
(* the text at the scanner s may be the start of.  A lookAhead whose       *)
(* callback calls nothing but nextToken leaves no trace, so it is a        *)
(* predicate of the tokens that follow.                                    *)
(***************************************************************************)
EXTENDS ParserState

(* The order of SyntaxKind: the words up to LastReservedWord, and the rest. *)
ReservedWords ==
    {"break", "case", "catch", "class", "const", "continue", "debugger", "default", "delete",
     "do", "else", "enum", "export", "extends", "false", "finally", "for", "function", "if",
     "import", "in", "instanceof", "new", "null", "return", "super", "switch", "this", "throw",
     "true", "try", "typeof", "var", "void", "while", "with"}
OtherKeywords ==
    {"implements", "interface", "let", "package", "private", "protected", "public", "static",
     "yield", "abstract", "accessor", "as", "asserts", "assert", "any", "async", "await",
     "boolean", "constructor", "declare", "get", "infer", "intrinsic", "is", "keyof", "module",
     "namespace", "never", "out", "readonly", "require", "number", "object", "satisfies", "set",
     "string", "symbol", "type", "undefined", "unique", "unknown", "using", "from", "global",
     "bigint", "override", "of"}
Keywords == ReservedWords \cup OtherKeywords
Literals == {"1", "'s'"}
Templates == {"template", "head"}

InYieldContext == "Yield" \in contextFlags
InAwaitContext == "Await" \in contextFlags

IsBindingIdentifier(s) == s.token \in {"x"} \cup OtherKeywords

IsIdentifier(s) ==
    /\ IsBindingIdentifier(s)
    /\ s.token = "yield" => ~InYieldContext
    /\ s.token = "await" => ~InAwaitContext

TokenIsIdentifierOrKeyword(s) == s.token \in {"x"} \cup Keywords

IsLiteralPropertyName(s) == TokenIsIdentifierOrKeyword(s) \/ s.token \in Literals

IsImportAttributeName(s) == TokenIsIdentifierOrKeyword(s) \/ s.token = "'s'"

CanParseSemicolon(s) == s.token \in {";", "}", "EOF"} \/ HasPrecedingLineBreak(s)

NextTokenIsIdentifier(s) == IsIdentifier(After(s))
NextTokenIsIdentifierOnSameLine(s) == NextTokenIsIdentifier(s) /\ ~HasPrecedingLineBreak(After(s))
NextTokenIsIdentifierOrKeywordOnSameLine(s) ==
    TokenIsIdentifierOrKeyword(After(s)) /\ ~HasPrecedingLineBreak(After(s))
NextTokenIsIdentifierOrKeywordOrLiteralOnSameLine(s) ==
    IsLiteralPropertyName(After(s)) /\ ~HasPrecedingLineBreak(After(s))
NextTokenIsIdentifierOrStringLiteralOnSameLine(s) ==
    /\ IsIdentifier(After(s)) \/ After(s).token = "'s'"
    /\ ~HasPrecedingLineBreak(After(s))
NextTokenIsOpenParenOrLessThanOrDot(s) == After(s).token \in {"(", "<", "."}
NextTokenIsKeywordOnSameLine(s, k) == After(s).token = k /\ ~HasPrecedingLineBreak(After(s))
NextTokenIsBindingIdentifierOrStartOfDestructuring(s) ==
    IsBindingIdentifier(After(s)) \/ After(s).token \in {"{", "["}
IsTemplateStartOfTaggedTemplate(s) == s.token \in Templates
NextTokenIsIdentifierOrKeywordOrOpenBracketOrTemplate(s) ==
    \/ TokenIsIdentifierOrKeyword(After(s))
    \/ After(s).token = "[" \/ IsTemplateStartOfTaggedTemplate(After(s))

-----------------------------------------------------------------------------
(* Modifiers.                                                              *)
-----------------------------------------------------------------------------
IsModifierKind(s) ==
    s.token \in {"abstract", "accessor", "async", "const", "declare", "default", "export", "in",
                 "public", "private", "protected", "readonly", "static", "out", "override"}

CanFollowModifier(s) == s.token \in {"[", "{", "*", "..."} \/ IsLiteralPropertyName(s)

CanFollowExportModifier(s) ==
    s.token = "@" \/ (s.token \notin {"*", "as", "{"} /\ CanFollowModifier(s))

NextTokenCanFollowDefaultKeyword(s) ==
    \/ After(s).token \in {"class", "function", "interface", "@"}
    \/ After(s).token = "abstract" /\ NextTokenIsKeywordOnSameLine(After(s), "class")
    \/ After(s).token = "async" /\ NextTokenIsKeywordOnSameLine(After(s), "function")

NextTokenCanFollowModifier(s) ==
    CASE s.token = "const"   -> After(s).token = "enum"
      [] s.token = "export"  ->
           CASE After(s).token = "default" -> NextTokenCanFollowDefaultKeyword(After(s))
             [] After(s).token = "type"    -> CanFollowExportModifier(After(After(s)))
             [] OTHER                      -> CanFollowExportModifier(After(s))
      [] s.token = "default" -> NextTokenCanFollowDefaultKeyword(s)
      [] s.token \in {"static", "get", "set"} -> CanFollowModifier(After(s))
      [] OTHER -> ~HasPrecedingLineBreak(After(s)) /\ CanFollowModifier(After(s))

\* parseContextualModifier, parseAnyContextualModifier: the modifier is read
\* when what follows it can follow a modifier.
IsContextualModifier(s, k) == s.token = k /\ NextTokenCanFollowModifier(s)

-----------------------------------------------------------------------------
(* Statements and declarations.                                            *)
-----------------------------------------------------------------------------
NextTokenIsBindingIdentifierOrStartOfDestructuringOnSameLine(s, disallowOf) ==
    LET n == After(s)
    IN /\ disallowOf => n.token # "of"
       /\ IsBindingIdentifier(n) \/ n.token = "{"
       /\ ~HasPrecedingLineBreak(n)

IsUsingDeclaration(s) == NextTokenIsBindingIdentifierOrStartOfDestructuringOnSameLine(s, FALSE)

NextTokenIsUsingKeywordThenBinding(s, disallowOf) ==
    /\ After(s).token = "using"
    /\ NextTokenIsBindingIdentifierOrStartOfDestructuringOnSameLine(After(s), disallowOf)

IsAwaitUsingDeclaration(s) == NextTokenIsUsingKeywordThenBinding(s, FALSE)

IsLetDeclaration(s) == NextTokenIsBindingIdentifierOrStartOfDestructuring(s)

ModifiersOfDeclaration ==
    {"abstract", "accessor", "async", "declare", "private", "protected", "public", "readonly"}

\* One turn of the loop of isDeclaration: does it go on with the next token?
SkipsModifier(s) ==
    CASE s.token \in ModifiersOfDeclaration ->
           /\ ~HasPrecedingLineBreak(After(s))
           /\ ~(s.token = "declare" /\ After(s).token = "type")
      [] s.token = "export" ->
           LET n == IF After(s).token = "type" THEN After(After(s)) ELSE After(s)
           IN n.token \notin {"=", "*", "{", "default", "as", "@"}
      [] OTHER -> s.token = "static"

\* ... and what does it answer when it does not?
StartsDeclaration(s) ==
    CASE s.token \in {"var", "let", "const", "function", "class", "enum"} -> TRUE
      [] s.token = "using" -> IsUsingDeclaration(s)
      [] s.token = "await" -> IsAwaitUsingDeclaration(s)
      [] s.token \in {"interface", "type"} -> NextTokenIsIdentifierOnSameLine(s)
      [] s.token \in {"module", "namespace"} -> NextTokenIsIdentifierOrStringLiteralOnSameLine(s)
      [] s.token \in ModifiersOfDeclaration -> ~HasPrecedingLineBreak(After(s))
      [] s.token = "global" -> After(s).token \in {"{", "x", "export"}
      [] s.token = "import" ->
           After(s).token \in {"'s'", "*", "{"} \/ TokenIsIdentifierOrKeyword(After(s))
      [] OTHER -> s.token = "export"

\* The scanner at the token where the loop of isDeclaration ends.
ModifierRun(s) ==
    LET at[p \in s.start .. Len(input) + 1] ==
          LET t == IF p = s.start THEN s ELSE ScanFrom(p)
          IN IF SkipsModifier(t) THEN at[After(t).start] ELSE t
    IN at[s.start]

IsDeclaration(s) == StartsDeclaration(ModifierRun(s))

IsStartOfLeftHandSideExpression(s) ==
    \/ s.token \in {"this", "super", "null", "true", "false", "(", "[", "{", "function", "class",
                    "new", "/", "/=", "x"} \cup Literals \cup Templates
    \/ s.token = "import" /\ NextTokenIsOpenParenOrLessThanOrDot(s)
    \/ IsIdentifier(s)

BinaryPrecedence(t) ==
    CASE t = "??" -> 4  [] t = "||" -> 5  [] t = "&&" -> 6
      [] t = "|"  -> 7  [] t = "^"  -> 8  [] t = "&"  -> 9
      [] t \in {"==", "!=", "===", "!=="} -> 10
      [] t \in {"<", ">", "<=", ">=", "instanceof", "in", "as", "satisfies"} -> 11
      [] t \in {"<<", ">>", ">>>"} -> 12
      [] t \in {"+", "-"} -> 13  [] t \in {"*", "/", "%"} -> 14  [] t = "**" -> 15
      [] OTHER -> -1

IsBinaryOperator(s) ==
    /\ s.token = "in" => "DisallowIn" \notin contextFlags
    /\ BinaryPrecedence(s.token) > 0

IsStartOfExpression(s) ==
    \/ IsStartOfLeftHandSideExpression(s)
    \/ s.token \in {"+", "-", "~", "!", "delete", "typeof", "void", "++", "--", "<", "await",
                    "yield", "@"}
    \/ IsBinaryOperator(s)

IsStartOfExpressionStatement(s) ==
    s.token \notin {"{", "function", "class", "@"} /\ IsStartOfExpression(s)

IsStartOfStatement(s) ==
    \/ s.token \in {"@", ";", "{", "var", "let", "using", "function", "class", "enum", "if", "do",
                    "while", "for", "continue", "break", "return", "with", "switch", "throw",
                    "try", "debugger", "catch", "finally", "async", "declare", "interface",
                    "module", "namespace", "type", "global"}
    \/ s.token \in {"const", "export"} /\ IsDeclaration(s)
    \/ s.token = "import" /\ (IsDeclaration(s) \/ NextTokenIsOpenParenOrLessThanOrDot(s))
    \/ /\ s.token \in {"accessor", "public", "private", "protected", "static", "readonly"}
       /\ IsDeclaration(s) \/ ~NextTokenIsIdentifierOrKeywordOnSameLine(s)
    \/ /\ s.token \notin {"import", "const", "export", "accessor", "public", "private",
                          "protected", "static", "readonly"}
       /\ IsStartOfExpression(s)

-----------------------------------------------------------------------------
(* Types, parameters and members.                                          *)
-----------------------------------------------------------------------------
IsBindingIdentifierOrPattern(s) == s.token \in {"{", "["} \/ IsBindingIdentifier(s)

TypeStarts ==
    {"any", "unknown", "string", "number", "bigint", "boolean", "readonly", "symbol", "unique",
     "void", "undefined", "null", "this", "typeof", "never", "{", "[", "<", "|", "&", "new",
     "true", "false", "object", "*", "?", "!", "...", "infer", "import", "asserts"}
    \cup Literals \cup Templates

\* isStartOfType, inside parentheses: without the cases inStartOfParameter
\* leaves out.
IsStartOfTypeInParameter(s) == s.token \in TypeStarts \/ IsIdentifier(s)

IsStartOfParameter(s) ==
    \/ s.token \in {"...", "@", "{", "["} \/ IsBindingIdentifier(s) \/ IsModifierKind(s)
    \/ IsStartOfTypeInParameter(s)

\* isStartOfType and isStartOfParenthesizedOrFunctionType, which call each
\* other once for every open parenthesis.
IsStartOfType(s) ==
    LET inside[p \in s.start .. Len(input) + 1] ==
          LET t == IF p = s.start THEN s ELSE ScanFrom(p)
          IN \/ IsStartOfTypeInParameter(t) \/ t.token = "function"
             \/ t.token = "-" /\ After(t).token = "1"
             \/ /\ t.token = "("
                /\ \/ After(t).token = ")" \/ IsStartOfParameter(After(t))
                   \/ inside[After(t).start]
    IN inside[s.start]

\* isStartOfParameter(isJSDocParameter).
IsStartOfJSDocParameter(s) ==
    \/ s.token \in {"...", "@", "{", "["} \/ IsBindingIdentifier(s) \/ IsModifierKind(s)
    \/ IsStartOfType(s)

\* isUnambiguouslyIndexSignature: a modifier that no name follows is the name.
IsIndexSignature(s) ==
    LET n == After(s)
        m == After(n)
    IN /\ s.token = "["
       /\ \/ n.token \in {"...", "]"}
          \/ IsModifierKind(n) /\ IsIdentifier(m)
          \/ /\ IsModifierKind(n) \/ IsIdentifier(n)
             /\ \/ m.token \in {":", ","}
                \/ m.token = "?" /\ After(m).token \in {":", ",", "]"}

\* The scanner after the modifiers of a member.
AfterModifiers(s) ==
    LET at[p \in s.start .. Len(input) + 1] ==
          LET t == IF p = s.start THEN s ELSE ScanFrom(p)
          IN IF IsModifierKind(t) THEN at[After(t).start] ELSE t
    IN at[s.start]

IsClassMemberModifier(t) ==
    t \in {"public", "private", "protected", "readonly", "static"}

\* isClassMemberStart, isTypeMemberStart: m is the token after the
\* modifiers, n the one after the name.
IsClassMemberStart(s) ==
    LET m == AfterModifiers(s)
        n == IF IsLiteralPropertyName(m) THEN After(m) ELSE m
    IN \/ s.token = "@"
       \/ \E i \in s.start .. m.start - 1 : IsClassMemberModifier(Lexeme(i))
       \/ m.token = "*" \/ n.token = "["
       \/ m.token \in {"x", "get", "set"} \cup Literals
       \/ /\ n.start > s.start
          /\ n.token \in {"(", "<", "!", ":", "=", "?"} \/ CanParseSemicolon(n)

IsTypeMemberStart(s) ==
    LET m == AfterModifiers(s)
        n == IF IsLiteralPropertyName(m) THEN After(m) ELSE m
    IN \/ s.token \in {"(", "<", "get", "set"} \/ m.token = "["
       \/ /\ n.start > s.start
          /\ n.token \in {"(", "<", "?", ":", ","} \/ CanParseSemicolon(n)

IsTupleElementName(s) ==
    LET n == IF s.token = "..." THEN After(s) ELSE s
        c == After(n)
    IN /\ TokenIsIdentifierOrKeyword(n)
       /\ c.token = ":" \/ (c.token = "?" /\ After(c).token = ":")

IsHeritageClause(s) == s.token \in {"extends", "implements"}

IsHeritageClauseExtendsOrImplementsKeyword(s) ==
    IsHeritageClause(s) /\ IsStartOfExpression(After(s))

IsValidHeritageClauseObjectLiteral(s) ==
    After(s).token = "}" => After(After(s)).token \in {",", "{", "extends", "implements"}

-----------------------------------------------------------------------------
(* Lists: what may start an element of a list, and what ends one.          *)
-----------------------------------------------------------------------------
IsListElement(kind, s, inErrorRecovery) ==
    CASE kind \in {"SourceElements", "BlockStatements", "SwitchClauseStatements"} ->
           ~(s.token = ";" /\ inErrorRecovery) /\ IsStartOfStatement(s)
      [] kind = "SwitchClauses" -> s.token \in {"case", "default"}
      [] kind = "TypeMembers"   -> IsTypeMemberStart(s)
      [] kind = "ClassMembers"  -> IsClassMemberStart(s) \/ (s.token = ";" /\ ~inErrorRecovery)
      [] kind = "EnumMembers"   -> s.token = "[" \/ IsLiteralPropertyName(s)
      [] kind = "ObjectLiteralMembers" ->
           s.token \in {"[", "*", "...", "."} \/ IsLiteralPropertyName(s)
      [] kind = "ObjectBindingElements" -> s.token \in {"[", "..."} \/ IsLiteralPropertyName(s)
      [] kind = "ImportAttributes" -> IsImportAttributeName(s)
      [] kind = "HeritageClauseElement" ->
           IF s.token = "{" THEN IsValidHeritageClauseObjectLiteral(s)
           ELSE /\ IF inErrorRecovery THEN IsIdentifier(s) ELSE IsStartOfLeftHandSideExpression(s)
                /\ ~IsHeritageClauseExtendsOrImplementsKeyword(s)
      [] kind = "VariableDeclarations" -> IsBindingIdentifierOrPattern(s)
      [] kind = "ArrayBindingElements" ->
           s.token \in {",", "..."} \/ IsBindingIdentifierOrPattern(s)
      [] kind = "TypeParameters" -> s.token \in {"in", "const"} \/ IsIdentifier(s)
      [] kind = "ArrayLiteralMembers" -> s.token \in {",", ".", "..."} \/ IsStartOfExpression(s)
      [] kind = "ArgumentExpressions" -> s.token = "..." \/ IsStartOfExpression(s)
      [] kind = "Parameters"     -> IsStartOfParameter(s)
      [] kind = "JSDocParameters" -> IsStartOfJSDocParameter(s)
      [] kind \in {"TypeArguments", "TupleElementTypes"} -> s.token = "," \/ IsStartOfType(s)
      [] kind = "HeritageClauses" -> IsHeritageClause(s)
      [] kind = "ImportOrExportSpecifiers" ->
           /\ ~(s.token = "from" /\ After(s).token = "'s'")
           /\ TokenIsIdentifierOrKeyword(s)

IsListTerminator(kind, s) ==
    \/ s.token = "EOF"
    \/ CASE kind \in {"BlockStatements", "SwitchClauses", "TypeMembers", "ClassMembers",
                      "EnumMembers", "ObjectLiteralMembers", "ObjectBindingElements",
                      "ImportOrExportSpecifiers", "ImportAttributes"} -> s.token = "}"
         [] kind = "SwitchClauseStatements" -> s.token \in {"}", "case", "default"}
         [] kind = "HeritageClauseElement"  -> s.token \in {"{", "extends", "implements"}
         [] kind = "VariableDeclarations"   ->
              CanParseSemicolon(s) \/ s.token \in {"in", "of", "=>"}
         [] kind = "TypeParameters" -> s.token \in {">", "(", "{", "extends", "implements"}
         [] kind = "ArgumentExpressions" -> s.token \in {")", ";"}
         [] kind \in {"ArrayLiteralMembers", "TupleElementTypes", "ArrayBindingElements"} ->
              s.token = "]"
         [] kind \in {"JSDocParameters", "Parameters"} -> s.token \in {")", "]"}
         [] kind = "TypeArguments"   -> s.token # ","
         [] kind = "HeritageClauses" -> s.token \in {"{", "}"}
         [] OTHER -> FALSE

IsInSomeParsingContext(s) ==
    \E kind \in parsingContext : IsListElement(kind, s, TRUE) \/ IsListTerminator(kind, s)
==============================================================================
