---------------------------- MODULE LexicalGrammar ----------------------------
(***************************************************************************)
(* The lexical grammar of the language: which sequences of characters are  *)
(* tokens and what they mean.  It is the reference the scanner is checked  *)
(* against and shares nothing with it but the names of the characters: a   *)
(* text is a sequence of strings that name one character each, "tick" and *)
(* "quote" the quotes that TLA+ strings cannot hold, "LF", "CR", "LS" (a   *)
(* line separator), "NBSP" (a blank) and "eacute" (a letter), the last     *)
(* three beyond ASCII.                                                     *)
(***************************************************************************)
EXTENDS Integers, Sequences, SequencesExt

Digits      == {"0", "1", "2", "3", "4", "5", "6", "7", "8", "9"}
OctalDigits == {"0", "1", "2", "3", "4", "5", "6", "7"}
LineBreaks  == {"LF", "CR", "LS"}
Blanks      == {" ", "NBSP"}
\* In the order of their codes.
DigitSeq    == <<"0", "1", "2", "3", "4", "5", "6", "7", "8", "9">>
LowerSeq    == <<"a", "b", "c", "d", "e", "f", "g", "h", "i", "j", "k", "l", "m", "n", "o", "p", "q", "r",
                 "s", "t", "u", "v", "w", "x", "y", "z">>
Letters     == {LowerSeq[i] : i \in 1..26} \cup {"A", "B", "E", "N", "O", "X", "$", "_", "eacute"}
HexDigits   == Digits \cup {"a", "b", "c", "d", "e", "f", "A", "B", "E"}
IsIdentifierStart(c) == c \in Letters
IsIdentifierPart(c)  == c \in Letters \cup Digits

Place(s, c) == CHOOSE i \in DOMAIN s : s[i] = c

\* The code of a character, for those that escapes can name.
Code(c) ==
    CASE c \in Digits -> 47 + Place(DigitSeq, c)
      [] c \in {LowerSeq[i] : i \in 1..26} -> 96 + Place(LowerSeq, c)
      [] c = "LF" -> 10 [] c = "CR" -> 13 [] c = " " -> 32 [] c = "$" -> 36 [] c = "'" -> 39 [] c = "A" -> 65
      [] c = "B" -> 66 [] c = "E" -> 69 [] c = "N" -> 78 [] c = "O" -> 79 [] c = "X" -> 88 [] c = "_" -> 95
      [] c = "NBSP" -> 160 [] c = "eacute" -> 233 [] c = "LS" -> 8232 [] c = "quote" -> 34 [] c = "tick" -> 96
      [] c = "{" -> 123 [] c = "}" -> 125 [] c = "\\" -> 92 [] c = "/" -> 47 [] c = "#" -> 35 [] c = "*" -> 42
      [] OTHER -> 0
Codes(w) == [i \in DOMAIN w |-> Code(w[i])]
\* Of the codes, those of letters and digits.
CodeStarts(n) == n \in {Code(c) : c \in Letters}
CodeContinues(n) == n \in {Code(c) : c \in Letters \cup Digits}

DigitValue(c) ==
    CASE c \in Digits -> Place(DigitSeq, c) - 1
      [] c \in {"a", "A"} -> 10 [] c \in {"b", "B"} -> 11 [] c = "c" -> 12 [] c = "d" -> 13
      [] c \in {"e", "E"} -> 14 [] c = "f" -> 15
Integer(base, w) == FoldLeft(LAMBDA n, c : n * base + DigitValue(c), 0, w)

From(w, i) == SubSeq(w, i, Len(w))
To(w, i)   == SubSeq(w, 1, i)
AllIn(w, S) == \A i \in DOMAIN w : w[i] \in S

-------------------------------------------------------------------------------
\* Numbers.  A value is <<m, e>>: m times ten to the e, with the least |m|.
RECURSIVE Scaled(_, _)
Scaled(m, e) == IF m = 0 THEN <<0, 0>> ELSE IF m % 10 = 0 THEN Scaled(m \div 10, e + 1) ELSE <<m, e>>

\* Digits of a kind, single separators between them.
IsRun(w, S) ==
    /\ Len(w) > 0 /\ w[1] # "_" /\ w[Len(w)] # "_" /\ AllIn(w, S \cup {"_"})
    /\ \A i \in 1 .. Len(w) - 1 : w[i] # "_" \/ w[i + 1] # "_"
WithoutSeparators(w) == SelectSeq(w, LAMBDA c : c # "_")
IsDecimalInteger(w) == w = <<"0">> \/ (IsRun(w, Digits) /\ w[1] # "0")
IsSigned(w) == Len(w) > 1 /\ w[1] \in {"+", "-"} /\ IsRun(From(w, 2), Digits)
SignedValue(w) ==
    IF w[1] \in {"+", "-"} THEN (IF w[1] = "-" THEN -1 ELSE 1) * Integer(10, WithoutSeparators(From(w, 2)))
    ELSE Integer(10, WithoutSeparators(w))

\* The values of w as whole part, fraction and exponent; at most one.
Decimals(w) ==
    {Scaled(Integer(10, WithoutSeparators(To(w, i) \o SubSeq(w, i + 2, j))),
            (IF j + 1 < Len(w) THEN SignedValue(From(w, j + 2)) ELSE 0)
                - Len(WithoutSeparators(SubSeq(w, i + 2, j)))) :
        <<i, j>> \in {p \in (0 .. Len(w)) \X (0 .. Len(w)) :
            LET i == p[1]
                j == p[2]
                fraction == SubSeq(w, i + 2, j)
            IN  /\ i <= j
                /\ i = 0 \/ IsDecimalInteger(To(w, i))
                /\ i = j \/ (w[i + 1] = "." /\ (fraction = <<>> \/ IsRun(fraction, Digits)))
                /\ i > 0 \/ fraction # <<>>
                /\ j = Len(w) \/ (w[j + 1] \in {"e", "E"}
                                  /\ (IsRun(From(w, j + 2), Digits) \/ IsSigned(From(w, j + 2))))}}

Radix(c) == CASE c \in {"x", "X"} -> 16 [] c \in {"b", "B"} -> 2 [] c \in {"o", "O"} -> 8 [] OTHER -> 0
RadixDigits(base) == CASE base = 2 -> {"0", "1"} [] base = 8 -> OctalDigits [] base = 16 -> HexDigits
IsRadix(w) ==
    Len(w) > 2 /\ w[1] = "0" /\ Radix(w[2]) # 0 /\ IsRun(From(w, 3), RadixDigits(Radix(w[2])))
IsBigInt(w) ==
    Len(w) > 1 /\ w[Len(w)] = "n" /\ (IsDecimalInteger(To(w, Len(w) - 1)) \/ IsRadix(To(w, Len(w) - 1)))
WholeValue(w) == 
    IF IsRadix(w) THEN Integer(Radix(w[2]), WithoutSeparators(From(w, 3)))
    ELSE Integer(10, WithoutSeparators(w))

\* The tokens w can be, as kind and value.
Numbers(w) ==
    {[kind |-> "number", value |-> v] : v \in Decimals(w)}
    \cup (IF IsRadix(w) THEN {[kind |-> "number", value |-> Scaled(WholeValue(w), 0)]} ELSE {})
    \cup {[kind |-> "bigint", value |-> Scaled(WholeValue(v), 0)] :
               v \in IF IsBigInt(w) THEN {To(w, Len(w) - 1)} ELSE {}}

-------------------------------------------------------------------------------
\* Escapes, names and texts in quotes.

\* The escapes that name a code: u and four digits, u and digits in braces, x
\* and two digits.
IsCode(w) ==
    \/ Len(w) = 5 /\ w[1] = "u" /\ AllIn(From(w, 2), HexDigits)
    \/ Len(w) = 3 /\ w[1] = "x" /\ AllIn(From(w, 2), HexDigits)
    \/ /\ Len(w) > 3 /\ w[1] = "u" /\ w[2] = "{" /\ w[Len(w)] = "}"
       /\ AllIn(SubSeq(w, 3, Len(w) - 1), HexDigits)
       /\ Len(w) <= 9 /\ Integer(16, SubSeq(w, 3, Len(w) - 1)) <= 1114111
CodeIn(w) == Integer(16, SelectSeq(From(w, 2), LAMBDA c : c \in HexDigits))

\* A name is read in units: a character, or an escape of u.
RECURSIVE NameCodes(_)
NameCodes(w) ==
    IF w = <<>> THEN {<<>>}
    ELSE IF IsIdentifierPart(w[1]) THEN {<<Code(w[1])>> \o v : v \in NameCodes(From(w, 2))}
    ELSE IF w[1] # "\\" THEN {}
    ELSE UNION {{<<CodeIn(SubSeq(w, 2, i))>> \o v : v \in NameCodes(From(w, i + 1))} :
                    i \in {j \in 2 .. Len(w) : /\ w[2] = "u" /\ IsCode(SubSeq(w, 2, j))
                                               /\ CodeContinues(CodeIn(SubSeq(w, 2, j)))}}
Identifiers(w) == {v \in NameCodes(w) : v # <<>> /\ CodeStarts(v[1])}

Simple == [b |-> 8, t |-> 9, n |-> 10, v |-> 11, f |-> 12, r |-> 13]
\* What may follow a backslash, before what rest begins with, and what it stands for.
Escapes(w, rest) ==
    IF w = <<>> THEN {}
    ELSE IF IsCode(w) THEN {<<CodeIn(w)>>}
    ELSE IF w = <<"CR", "LF">> THEN {<<>>}
    ELSE IF Len(w) > 1 THEN {}
    ELSE IF w[1] \in LineBreaks THEN (IF w[1] = "CR" /\ rest # <<>> /\ rest[1] = "LF" THEN {} ELSE {<<>>})
    ELSE IF w[1] = "0" THEN (IF rest # <<>> /\ rest[1] \in Digits THEN {} ELSE {<<0>>})
    ELSE IF w[1] \in Digits \cup {"u", "x"} THEN {}
    ELSE IF w[1] \in DOMAIN Simple THEN {<<Simple[w[1]]>>}
    ELSE {<<Code(w[1])>>}

\* What the characters between quotes stand for, when stops may not be among them.
RECURSIVE Contents(_, _)
Contents(w, stops) ==
    IF w = <<>> THEN {<<>>}
    ELSE IF w[1] = "\\"
    THEN UNION {{e \o v : e \in Escapes(SubSeq(w, 2, i), From(w, i + 1)),
                        v \in Contents(From(w, i + 1), stops)} :
                    i \in 2 .. Len(w)}
    ELSE IF w[1] \in stops THEN {}
    ELSE {<<Code(w[1])>> \o v : v \in Contents(From(w, 2), stops)}

Strings(w) ==
    IF Len(w) < 2 \/ w[1] \notin {"'", "quote"} \/ w[Len(w)] # w[1] THEN {}
    ELSE {[kind |-> "string", value |-> v] : v \in Contents(SubSeq(w, 2, Len(w) - 1), {w[1], "LF", "CR"})}

\* In a template a line break of any kind is a line feed, and a substitution
\* begins at a dollar and a brace.
Normalised(w) ==
    LET kept == SelectSeq([i \in DOMAIN w |-> i], LAMBDA i : w[i] # "LF" \/ i = 1 \/ w[i - 1] # "CR")
    IN  [i \in DOMAIN kept |-> IF w[kept[i]] = "CR" THEN "LF" ELSE w[kept[i]]]
HasSubstitution(w) == \E i \in 1 .. Len(w) - 1 : w[i] = "$" /\ w[i + 1] = "{" /\ (i = 1 \/ w[i - 1] # "\\")
\* The text of a template from the character that opens it.
Templates(w) ==
    {t \in UNION {
        {[kind |-> k, value |-> v] : v \in Contents(Normalised(SubSeq(w, 2, Len(w) - closes)), {"tick"})} :
            <<k, closes>> \in {<<"template", 1>>, <<"head", 2>>, <<"tail", 1>>, <<"middle", 2>>}} :
        /\ Len(w) > (IF t.kind \in {"template", "tail"} THEN 1 ELSE 2)
        /\ w[1] = (IF t.kind \in {"template", "head"} THEN "tick" ELSE "}")
        /\ IF t.kind \in {"template", "tail"}
           THEN w[Len(w)] = "tick" /\ ~HasSubstitution(SubSeq(w, 2, Len(w) - 1))
           ELSE From(w, Len(w) - 1) = <<"$", "{">> /\ ~HasSubstitution(SubSeq(w, 2, Len(w) - 2))}

-------------------------------------------------------------------------------
\* A regular expression: a slash is in a class or escaped, or it ends the body.
RECURSIVE IsClass(_)
IsClass(w) == \/ w = <<>>
              \/ w[1] = "\\" /\ Len(w) > 1 /\ IsClass(From(w, 3))
              \/ w[1] \notin {"\\", "]"} /\ IsClass(From(w, 2))
RECURSIVE IsRegexBody(_)
IsRegexBody(w) ==
    \/ w = <<>>
    \/ w[1] = "\\" /\ Len(w) > 1 /\ IsRegexBody(From(w, 3))
    \/ w[1] \notin {"\\", "[", "/"} /\ IsRegexBody(From(w, 2))
    \/ /\ w[1] = "["
       /\ \E i \in 2 .. Len(w) : IsClass(SubSeq(w, 2, i - 1)) /\ w[i] = "]" /\ IsRegexBody(From(w, i + 1))
IsRegex(w) ==
    /\ Len(w) > 2 /\ w[1] = "/" /\ \A i \in DOMAIN w : w[i] \notin LineBreaks
    /\ \E i \in 3 .. Len(w) : /\ w[i] = "/" /\ IsRegexBody(SubSeq(w, 2, i - 1))
                              /\ AllIn(From(w, i + 1), Letters \cup Digits)

-------------------------------------------------------------------------------
\* Punctuation, as the parser asks for it: '>' alone, unless it asks for more.
Punctuators == {
    <<"!">>, <<"!", "=">>, <<"!", "=", "=">>, <<"%">>, <<"%", "=">>, <<"&">>, <<"&", "=">>, <<"&", "&">>,
    <<"&", "&", "=">>, <<"(">>, <<")">>, <<"*">>, <<"*", "=">>, <<"*", "*">>, <<"*", "*", "=">>, <<"+">>,
    <<"+", "+">>, <<"+", "=">>, <<",">>, <<"-">>, <<"-", "-">>, <<"-", "=">>, <<".">>, <<".", ".", ".">>,
    <<"/">>, <<"/", "=">>, <<":">>, <<";">>, <<"<">>, <<"<", "=">>, <<"<", "<">>, <<"<", "<", "=">>, <<"=">>,
    <<"=", "=">>, <<"=", "=", "=">>, <<"=", ">">>, <<">">>, <<"?">>, <<"?", ".">>, <<"?", "?">>,
    <<"?", "?", "=">>, <<"[">>, <<"]">>, <<"^">>, <<"^", "=">>, <<"{">>, <<"|">>, <<"|", "=">>, <<"|", "|">>,
    <<"|", "|", "=">>, <<"}">>, <<"~">>, <<"@">>}
Greater == {<<">", ">">>, <<">", ">", ">">>, <<">", "=">>, <<">", ">", "=">>, <<">", ">", ">", "=">>}

IsComment(w) ==
    \/ Len(w) > 1 /\ To(w, 2) = <<"/", "/">> /\ \A i \in DOMAIN w : w[i] \notin LineBreaks
    \/ /\ Len(w) > 3 /\ To(w, 2) = <<"/", "*">> /\ From(w, Len(w) - 1) = <<"*", "/">>
       /\ \A i \in 3 .. Len(w) - 2 : w[i] # "*" \/ w[i + 1] # "/"
\* Blanks, line breaks and comments; a comment to the end of a line goes on
\* until there is a line break.
RECURSIVE IsTrivia(_)
IsTrivia(w) ==
    \/ w = <<>>
    \/ w[1] \in Blanks \cup LineBreaks /\ IsTrivia(From(w, 2))
    \/ \E i \in 2 .. Len(w) : /\ IsComment(To(w, i)) /\ IsTrivia(From(w, i + 1))
                              /\ w[2] = "/" /\ i < Len(w) => w[i + 1] \in LineBreaks
===============================================================================
