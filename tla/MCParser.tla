------------------------------- MODULE MCParser -------------------------------
(***************************************************************************)
(* The texts TLC parses: sentences of the language, one or more for every  *)
(* rule, after the files of src/tsc/test/tester/tests; each of them with   *)
(* one lexeme left out, with one twice, and cut after each lexeme; every   *)
(* chain of three operators; and every text of at most MaxWord lexemes of  *)
(* those that arrow functions and parentheses are made of.                 *)
(***************************************************************************)
EXTENDS PrinterProps, MCSyntaxTree

CONSTANT MaxWord

MCSentences == {
    <<"x", "=", "x", "+", "1", "*", "1", "**", "1", ";">>,
    <<"x", "?", "x", ":", "x", "?", "1", ":", "1", ",", "x">>, <<"(", "x", ",", "x", ")", "=>", "x">>,
    <<"(", "x", ":", "x", ",", "x", "?", ":", "x", ")", "=>", "{", "x", "}">>, <<"x", "=>", "x", "=>", "x">>,
    <<"async", "x", "=>", "x">>, <<"async", "(", "x", ")", "=>", "x">>,
    <<"x", "?", "(", "x", ")", ":", "x", "=>", "x">>, <<"x", "?", "(", "x", ")", "=>", "x", ":", "1">>,
    <<"x", "?", "(", "x", ")", ":", "x", "=>", "x", ":", "x">>, <<"(", "(", "x", ")", ")">>,
    <<"<", "x", ">", "(", "x", ":", "x", ")", ":", "x", "=>", "x">>, <<"x", "<", "x", ">", "(", "x", ")">>,
    <<"x", "<", "x", ",", "x", ">", "x">>, <<"x", "<", "x", "<", "x", ">", ">", "(", "1", ")">>,
    <<"new", "x", ".", "x", "(", "1", ")", "[", "x", "]">>, <<"new", "x">>, <<"new", ".", "x">>,
    <<"x", "?.", "x", "?.", "[", "x", "]", "?.", "(", "x", ")">>, <<"x", "!", ".", "x", "!">>,
    <<"-", "x", "++">>, <<"typeof", "void", "!", "x">>, <<"(", "-", "x", ")", "**", "1">>,
    <<"[", "x", ",", ",", "...", "x", "]">>, <<"{", "x", "}", ";">>,
    <<"x", "=", "{", "x", ",", "x", ":", "1", ",", "[", "x", "]", ":", "x", ",", "'s'", ":", "x", ",", "...",
      "x", ",", "x", "(", ")", "{", "}", ",", "get", "x", "(", ")", "{", "}", ",", "set", "x", "(", "x", ")",
      "{", "}", ",", "async", "*", "x", "(", ")", "{", "}", "}">>,
    <<"function", "*", "x", "(", ")", "{", "yield", "x", ";", "yield", "*", "x", "}">>,
    <<"async", "function", "x", "(", ")", "{", "await", "x", "}">>,
    <<"class", "x", "<", "x", ">", "extends", "x", "<", "x", ">", "implements", "x", ",", "x", "{", "static",
      "x", "=", "1", ";", "readonly", "x", ":", "x", ";", "x", "!", ":", "x", ";", "constructor", "(",
      "public", "x", ":", "x", ")", "{", "super", "(", "x", ")", "}", ";", "get", "x", "(", ")", ":", "x", "{",
      "}", ";", "static", "{", "x", "}", ";", "[", "x", "]", "(", ")", ":", "x", "{", "}", ";", "[", "x", ":",
      "x", "]", ":", "x", ";", "*", "x", "(", ")", "{", "}", ";", "x", "?", ":", "x", "}">>,
    <<"(", "class", "{", "}", ")">>, <<"(", "function", "(", "x", ")", "{", "}", ")">>, <<"x", "template">>,
    <<"head", "x", "}", "text">>, <<"x", "=", "/", "x", "/">>, <<"x", "as", "x", "satisfies", "x">>,
    <<"<", "x", ">", "x">>, <<"import", "(", "x", ")">>, <<"import", ".", "x">>, <<"super", ".", "x">>,
    <<"x", "=", "x", "=>", "(", "{", "x", "}", ")">>,
    <<"if", "(", "x", ")", "if", "(", "x", ")", "x", ";", "else", "x", ";">>,
    <<"for", "(", ";", ";", ")", "{", "break", "}">>,
    <<"for", "(", "var", "x", "=", "1", ",", "x", "=", "1", ";", "x", "<", "1", ";", "x", "++", ")",
      "continue">>,
    <<"for", "(", "x", "in", "x", ")", "x">>, <<"for", "(", "let", "x", "of", "x", ")", "x">>,
    <<"for", "(", "const", "x", "of", "x", ")", "{", "}">>,
    <<"x", ":", "for", "(", ";", ";", ")", "continue", "x", ";">>, <<"while", "(", "x", ")", "x">>,
    <<"do", "x", ";", "while", "(", "x", ")", "x">>,
    <<"switch", "(", "x", ")", "{", "case", "x", ":", "x", ";", "break", ";", "default", ":", "x", "}">>,
    <<"try", "{", "x", "}", "catch", "(", "x", ")", "{", "x", "}", "finally", "{", "x", "}">>,
    <<"try", "{", "x", "}", "catch", "{", "x", "}">>, <<"throw", "x">>, <<"debugger">>,
    <<"with", "(", "x", ")", "x">>, <<"return">>, <<"x", "\n", "x">>, <<"x", "\n", "++", "x">>,
    <<"return", "\n", "x">>, <<"{", "x", "}">>,
    <<"var", "{", "x", ",", "x", ":", "x", "=", "1", ",", "...", "x", "}", "=", "x">>,
    <<"let", "[", "x", ",", ",", "x", "=", "1", "]", "=", "x">>, <<"using", "x", "=", "x">>,
    <<"await", "using", "x", "=", "x">>, <<"function", "x", "(", ")", ":", "void", ";">>,
    <<"function", "x", "(", "this", ":", "x", ",", "x", "?", ":", "x", ",", "...", "x", ":", "x", "[", "]",
      ")", "{", "return", "}">>,
    <<"interface", "x", "<", "x", "extends", "x", "=", "x", ">", "extends", "x", ",", "x", "<", "x", ">", "{",
      "x", ":", "x", ";", "x", "?", "(", "x", ":", "x", ")", ":", "x", ";", "(", "x", ":", "x", ")", ":", "x",
      ";", "new", "(", "x", ":", "x", ")", ":", "x", ";", "[", "x", ":", "string", "]", ":", "x", ";",
      "readonly", "x", ":", "x", ";", "get", "x", "(", ")", ":", "x", ";", "set", "x", "(", "x", ")", "}">>,
    <<"type", "x", "<", "x", ">", "=", "x", "|", "x", "&", "x">>,
    <<"type", "x", "=", "x", "extends", "infer", "x", "?", "x", ":", "x">>,
    <<"type", "x", "=", "(", "x", ":", "x", ")", "=>", "x">>, <<"type", "x", "=", "new", "(", ")", "=>", "x">>,
    <<"type", "x", "=", "abstract", "new", "(", ")", "=>", "x">>,
    <<"type", "x", "=", "{", "readonly", "[", "x", "in", "keyof", "x", "]", "?", ":", "x", "}">>,
    <<"type", "x", "=", "[", "x", ",", "...", "x", "[", "]", ",", "x", "?", "]">>,
    <<"type", "x", "=", "[", "x", ":", "x", ",", "x", "?", ":", "x", "]">>,
    <<"type", "x", "=", "typeof", "x", ".", "x">>, <<"type", "x", "=", "x", "[", "x", "]", "[", "]">>,
    <<"type", "x", "=", "head", "x", "}", "text">>,
    <<"type", "x", "=", "-", "1", "|", "'s'", "|", "null", "|", "void">>,
    <<"type", "x", "=", "import", "(", "x", ")", ".", "x", "<", "x", ">">>, <<"type", "x", "=", "intrinsic">>,
    <<"type", "x", "=", "unique", "symbol">>,
    <<"type", "x", "=", "{", "-", "readonly", "[", "x", "in", "x", "]", "-", "?", ":", "x", "}">>,
    <<"function", "x", "(", "x", ")", ":", "x", "is", "x", "{", "}">>,
    <<"function", "x", "(", "x", ")", ":", "asserts", "x", "is", "x", "{", "}">>,
    <<"type", "x", "=", "(", "x", ")", "|", "[", "x", "]">>,
    <<"type", "x", "=", "|", "x", "|", "(", "(", ")", "=>", "x", ")">>,
    <<"enum", "x", "{", "x", ",", "x", "=", "1", "}">>, <<"const", "enum", "x", "{", "x", "}">>,
    <<"declare", "const", "x", ":", "x">>, <<"declare", "module", "'s'", "{", "x", "}">>,
    <<"namespace", "x", ".", "x", "{", "x", "}">>, <<"declare", "global", "{", "x", "}">>,
    <<"abstract", "class", "x", "{", "abstract", "x", "(", ")", ":", "x", ";", "private", "static", "readonly",
      "x", "=", "1", ";", "override", "x", "(", ")", "{", "}", ";", "declare", "x", "}">>,
    <<"@", "x", "class", "x", "{", "@", "x", "(", ")", "x", ";", "@", "x", ".", "x", "x", "(", ")", "{", "}",
      "}">>,
    <<"import", "x", "from", "'s'">>, <<"import", "*", "as", "x", "from", "'s'">>,
    <<"import", "x", ",", "{", "x", "as", "x", ",", "type", "x", "}", "from", "'s'">>, <<"import", "'s'">>,
    <<"import", "type", "{", "x", "}", "from", "'s'">>, <<"import", "x", "=", "x", ".", "x">>,
    <<"import", "x", "=", "require", "(", "'s'", ")">>, <<"export", "{", "x", "as", "x", "}", "from", "'s'">>,
    <<"export", "*", "from", "'s'">>, <<"export", "*", "as", "x", "from", "'s'">>, <<"export", "default", "x">>,
    <<"export", "default", "class", "{", "}">>, <<"export", "default", "function", "(", ")", "{", "}">>,
    <<"export", "=", "x">>, <<"export", "const", "x", "=", "1">>, <<"export", "as", "namespace", "x">>,
    <<"export", "type", "{", "x", "}">>, <<"x", "=", "class", "extends", "x", "{", "}">>,
    <<"function", "x", "(", "x", ":", "x", "<", "x", "<", "x", ">", ">", ")", "{", "}">>,
    <<"if", "(", "x", ")", "{", "}", "else", "{", "}">>, <<"x", "=", "async", "function", "(", ")", "{", "}">>,
    <<"x", "=", "x", "<", "<", "1", ">", ">", "1", ">", ">", ">", "1">>, <<"x", ">", ">", "=", "1">>,
    <<"x", "=", "x", ">", "=", "1">>, <<"accessor">>, <<"class", "x", "{", "accessor", "x", "}">>,
    <<"x", "(", "function", "(", ")", "{", "}", ",", "(", ")", "=>", "{", "}", ")">>,
    <<"x", "=", "(", "x", ")", ":", "x", "=>", "x">>,
    <<"for", "await", "(", "const", "x", "of", "x", ")", "x">>,
    <<"x", "?", "?", "x", "||", "x", "&&", "x", "|", "x", "^", "x", "&", "x", "==", "x", "<", "x">>,
    <<"x", "in", "x">>, <<"for", "(", "let", "x", "=", "(", "x", "in", "x", ")", ";", ";", ")", ";">>,
    <<"type", "x", "=", "x", "extends", "x", "?", "x", ":", "x">>,
    <<"type", "x", "=", "(", "{", "x", "}", ":", "x", ")", "=>", "x">>,
    <<"type", "x", "=", "function", "(", "x", ")", ":", "x">>,
    <<"class", "x", "{", "x", "(", ")", ":", "this", "is", "x", "{", "}", "}">>,
    <<"x", "head", "x", "}", "text{", "x", "}", "text">>, <<"type", "x", "=", "string", ".", "x">>,
    <<"x", "=", "/", "x", "/", "+", "x">>,
    <<"interface", "x", "{", "[", "async", ":", "string", "]", ":", "x", "}">>,
    <<"type", "x", "=", "function", "(", "...", "x", ",", "x", "=", ")", ":", "*">>}

\* Texts no statement of which the parser reads as it is meant, some that
\* belong to no language, and one that it never reads to the end.
MCOthers == {
    <<"import", "x", "from", "'s'", "with", "{", "x", ":", "'s'", "}">>,
    <<"type", "x", "=", "import", "(", "'s'", ",", "{", "with", ":", "{", "x", ":", "'s'", "}", "}", ")">>,
    <<"super", "<", "x", ">", "template">>, <<"super", "<", "x", ">", ".", "x">>,
    <<"type", "x", "=", "function", "(", "module", "x", ")", ":", "x">>,
    <<"var", "x", ":", "*", "=", "1">>, <<"var", "x", ":", "?", "?", "x">>,
    <<"import", "x", "from", "'s'", "with", "{", "x", ":", "'s'", ";", "x", ":", "'s'", "}">>,
    <<"interface", "x", "{", "[", "public", ",", "x", "]", ":", "x", "}">>,
    <<"-", "x", "**", "1">>, <<"x", "?.", "template", "x">>, <<"x", "<", "x", ">", ".", "x">>}

Without(s, i) == SubSeq(s, 1, i - 1) \o SubSeq(s, i + 1, Len(s))
Twice(s, i)   == SubSeq(s, 1, i) \o SubSeq(s, i, Len(s))
Corrupted(s)  == UNION {{Without(s, i), Twice(s, i), SubSeq(s, 1, i)} : i \in DOMAIN s}

\* Operators of nine levels, those that associate to the right among them.
ChainOperators == {",", "=", "?", "||", "<", "+", "*", "**", "as"}
Chains == {<<"x", a, "x", b, "x", c, "x">> : a, b, c \in ChainOperators}
ArrowLexemes == {"(", ")", "x", "=>", ":", "?", ","}
Words == UNION {[1 .. n -> ArrowLexemes] : n \in 0 .. MaxWord}

MCInputs == MCSentences \cup MCOthers \cup Chains \cup Words
            \cup UNION {Corrupted(s) : s \in MCSentences}
===============================================================================
