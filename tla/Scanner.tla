-------------------------------- MODULE Scanner --------------------------------
(***************************************************************************)
(* The scanner of src/tsc/tsc-new-parser/scanner.cpp, character by         *)
(* character: scan() and the functions that read a token again, as the     *)
(* parser calls them (it skips trivia and reads no JSX).                   *)
(*                                                                         *)
(* Positions count from 1.  A function of the scanner takes the scanner's  *)
(* fields as a record and gives them back; what it returns besides is in   *)
(* `out'.  Texts are sequences of codes in tokenValue, and numbers what    *)
(* the text that holds them says.                                          *)
(***************************************************************************)
EXTENDS LexicalGrammar

CONSTANTS
    Texts,      \* the texts to scan
    Words,      \* the keywords, as codes
    IntBits     \* what an int holds

VARIABLES
    text,       \* the text
    scanner,    \* pos, fullStartPos, tokenStart, token, tokenValue, tokenFlags; the
                \* errors of the last call; whether it ended in an exception
    read        \* the tokens the parser has got

Char(p) == IF p \in DOMAIN text THEN text[p] ELSE "outOfBoundary"
At(p, w) == \A i \in DOMAIN w : Char(p + i - 1) = w[i]
End == Len(text) + 1
Between(p, q) == SubSeq(text, p, q - 1)

Holds(w, v) == \E i \in 0 .. Len(w) - Len(v) : SubSeq(w, i + 1, i + Len(v)) = v

\* The first position from p on that is at the end or not in S (in S).
While(p, S) == CHOOSE q \in p .. End + 2 : Char(q) \notin S /\ \A r \in p .. q - 1 : Char(r) \in S
Until(p, S) ==
    IF p >= End THEN p
    ELSE CHOOSE q \in p .. End : /\ q = End \/ Char(q) \in S
                                 /\ \A r \in p .. q - 1 : Char(r) \notin S

Moved(s, p)       == [s EXCEPT !.pos = p]
Returned(s, v)    == [s EXCEPT !.out = v]
Flagged(s, fs)    == [s EXCEPT !.tokenFlags = @ \cup fs]
Error(s, what, p) == [s EXCEPT !.errors = @ \cup {<<what, p>>}]
Token(s, kind)    == [s EXCEPT !.token = kind]
Valued(s, v)      == [s EXCEPT !.tokenValue = v]
Crash(s)          == [s EXCEPT !.crashed = TRUE]

-------------------------------------------------------------------------------
\* Digits.

\* Separators in from .. to - 1 that do not follow a digit, and the one that ends it.
Misplaced(from, to) == {r \in from .. to - 1 : Char(r) = "_" /\ (r = from \/ Char(r - 1) = "_")}
\* Mutant: a separator at the end is not reported.
SeparatedUnchecked(s, from, to, flags) ==
    [s EXCEPT !.pos = to,
              !.errors = @ \cup {<<"separator", r>> : r \in Misplaced(from, to)},
              !.tokenFlags = @ \cup (IF Holds(Between(from, to), <<"_">>) THEN {"ContainsSeparator"} ELSE {})
                               \cup (IF Misplaced(from, to) # {} THEN flags ELSE {})]
Separated(s, from, to, flags) ==
    LET wrong == Misplaced(from, to) \cup {r \in {to - 1} : Char(r) = "_"}
    IN  [s EXCEPT !.pos = to,
                  !.errors = @ \cup {<<"separator", r>> : r \in wrong},
                  !.tokenFlags = @ \cup (IF Holds(Between(from, to), <<"_">>) THEN {"ContainsSeparator"} ELSE {})
                                   \cup (IF wrong # {} THEN flags ELSE {})]

scanNumberFragment(s) ==
    LET to == While(s.pos, Digits \cup {"_"})
    IN  Returned(Separated(s, s.pos, to, {"ContainsInvalidSeparator"}), WithoutSeparators(Between(s.pos, to)))

\* scanHexDigits as far as it goes, scanBinaryOrOctalDigits: none if there is none.
scanRadixDigits(s, base, canHaveSeparators) ==
    LET to == While(s.pos, RadixDigits(base) \cup (IF canHaveSeparators THEN {"_"} ELSE {}))
    IN  Returned(Separated(s, s.pos, to, {}), WithoutSeparators(Between(s.pos, to)))
scanMinimumNumberOfHexDigits(s) == scanRadixDigits(s, 16, FALSE)

\* stod, stoull: the number that begins the text; what follows it begins with a
\* second point, and an exponent has digits.
RECURSIVE RunLength(_, _)
RunLength(w, i) == IF i <= Len(w) /\ w[i] \in Digits THEN 1 + RunLength(w, i + 1) ELSE 0
PowerAt(w, e) == IF e <= Len(w) /\ w[e] \in {"e", "E"} THEN SignedValue(From(w, e + 1)) ELSE 0
ParsedParts(w, whole, part) ==
    Scaled(Integer(10, To(w, whole) \o SubSeq(w, whole + 2, whole + 1 + part)),
           PowerAt(w, IF w = To(w, whole) \/ w[whole + 1] # "." THEN whole + 1 ELSE whole + part + 2) - part)
ParsedAfter(w, whole) ==
    ParsedParts(w, whole, IF whole < Len(w) /\ w[whole + 1] = "." THEN RunLength(w, whole + 2) ELSE 0)
Parsed(w) == ParsedAfter(w, RunLength(w, 1))
\* to_string_val of a floating point number writes six digits after the point.
Fixed(v) ==
    IF v[2] >= -6 THEN v
    ELSE IF v[2] < -15 THEN <<0, 0>>
    ELSE Scaled((2 * v[1] + 10 ^ (-6 - v[2])) \div (2 * 10 ^ (-6 - v[2])), -6)

-------------------------------------------------------------------------------
\* Escapes.

ToInt(digits) == Integer(16, digits)
\* to_number_base throws when the number is more than an int holds.
BitsOf(n) == IF n = 0 THEN 0 ELSE IF n = 1 THEN 1 ELSE IF n < 4 THEN 2 ELSE IF n < 8 THEN 3 ELSE 4
Fits(digits, bitsPerDigit) ==
    \A i \in DOMAIN digits : BitsOf(DigitValue(digits[i])) # 0 =>
        BitsOf(DigitValue(digits[i])) + bitsPerDigit * (Len(digits) - i) <= IntBits
IsCodePoint(digits) == ToInt(digits) <= 1114111

\* The escapes of an identifier at the position: the code, or -1.
peekExtendedUnicodeEscape(s) ==
    LET digits == Between(s.pos + 3, While(s.pos + 3, HexDigits))
    IN  IF ~At(s.pos, <<"\\", "u", "{">>) \/ digits = <<>> THEN Returned(s, -1)
        ELSE IF ~Fits(digits, 4) THEN Crash(Returned(s, -1))
        ELSE Returned(s, ToInt(digits))
peekUnicodeEscape(s) ==
    IF s.pos + 5 < End /\ Char(s.pos + 1) = "u" /\ AllIn(Between(s.pos + 2, s.pos + 6), HexDigits)
    THEN ToInt(Between(s.pos + 2, s.pos + 6)) ELSE -1

\* After the brace, which has digits behind it: peekExtendedUnicodeEscape has seen them.
AfterCode(d, s) ==
    IF Char(s.pos) = "}"
    THEN Returned(Moved(s, s.pos + 1), IF IsCodePoint(d.out) THEN <<ToInt(d.out)>> ELSE <<>>)
    ELSE Returned(Error(s, IF s.pos < End THEN "unterminated escape" ELSE "end", s.pos), <<>>)
ExtendedEscape(d) == AfterCode(d, IF IsCodePoint(d.out) THEN d ELSE Error(d, "code point", d.pos))
scanExtendedUnicodeEscape(s) ==
    ExtendedEscape(scanMinimumNumberOfHexDigits(Flagged(Moved(s, s.pos + 3), {"ExtendedUnicodeEscape"})))

\* An escape that is no escape: the text stands for itself when it is not reported.
Invalid(s, what, p, start, value, emit) ==
    LET f == Flagged(s, {"ContainsInvalidEscape"})
    IN  IF emit THEN Returned(Error(f, what, p), value) ELSE Returned(f, Codes(Between(start, f.pos)))
InvalidDigits(s, start, emit) ==
    Invalid(s, "hexadecimal digit", s.pos, start, Codes(Between(start, s.pos)), emit)

OctalEscape(s, start, emit) ==
    LET most == IF Char(start + 1) \in {"0", "1", "2", "3"} THEN 3 ELSE 2
        stop == While(start + 1, OctalDigits)
        to   == IF stop > start + 1 + most THEN start + 1 + most ELSE stop
    IN  Invalid(Moved(s, to), "octal escape", start, start, <<Integer(8, Between(start + 1, to))>>, emit)

BracedEscape(d, start, emit) ==
    LET raw == Codes(Between(start, d.pos))
    IN  CASE d.out = <<>>         -> InvalidDigits(d, start, emit)
          [] d.out # <<>> /\ ~Fits(d.out, 4) -> Crash(d)
          [] d.out # <<>> /\ Fits(d.out, 4) /\ ~IsCodePoint(d.out) ->
                Invalid(d, "code point", d.pos, start, raw, emit)
          [] d.out # <<>> /\ Fits(d.out, 4) /\ IsCodePoint(d.out) /\ Char(d.pos) # "}" ->
                Invalid(d, "unterminated escape", d.pos, start, raw, emit)
          [] OTHER -> Returned(Flagged(Moved(d, d.pos + 1), {"ExtendedUnicodeEscape"}), <<ToInt(d.out)>>)

\* \uDDDD and \xDD.
DigitsEscape(s, start, count, flag, emit) ==
    LET stop == While(start + 2, HexDigits)
    IN  IF stop < start + 2 + count THEN InvalidDigits(Moved(s, stop), start, emit)
        ELSE Returned(Flagged(Moved(s, start + 2 + count), {flag}),
                      <<ToInt(Between(start + 2, start + 2 + count))>>)

scanEscapeSequence(s, emit) ==
    LET start == s.pos
        c     == Char(start + 1)
        one   == Moved(s, start + 2)
    IN  CASE start + 1 >= End -> Returned(Error(Moved(s, start + 1), "end", start + 1), <<>>)
          \* S("\0") is the empty text.
          [] c = "0" /\ Char(start + 2) \notin Digits -> Returned(one, <<>>)
          [] c \in OctalDigits /\ (c # "0" \/ Char(start + 2) \in Digits) -> OctalEscape(s, start, emit)
          [] c \in {"8", "9"} -> Invalid(one, "escape", start, start, <<Code(c)>>, emit)
          [] c \in DOMAIN Simple -> Returned(one, <<Simple[c]>>)
          [] c = "u" /\ Char(start + 2) = "{" ->
                BracedEscape(scanMinimumNumberOfHexDigits(Moved(s, start + 3)), start, emit)
          [] c = "u" /\ Char(start + 2) # "{" -> DigitsEscape(s, start, 4, "UnicodeEscape", emit)
          [] c = "x" -> DigitsEscape(s, start, 2, "HexEscape", emit)
          [] c \in LineBreaks ->
                Returned(IF At(start + 1, <<"CR", "LF">>) THEN Moved(s, start + 3) ELSE one, <<>>)
          [] OTHER -> Returned(one, <<Code(c)>>)

-------------------------------------------------------------------------------
\* Names.

\* \uDDDD, which peekUnicodeEscape has seen.
unicodeEscape(s) == Returned(Flagged(Moved(s, s.pos + 6), {"UnicodeEscape"}), <<peekUnicodeEscape(s)>>)
\* The escape at the position, if it names a character that may come there.
escapeOf(s, extended, Allowed(_)) ==
    CASE Allowed(extended.out) -> scanExtendedUnicodeEscape(s)
      [] ~Allowed(extended.out) /\ Allowed(peekUnicodeEscape(s)) -> unicodeEscape(s)
      [] OTHER -> extended
escapeAt(s, Allowed(_)) == escapeOf(s, peekExtendedUnicodeEscape(s), Allowed)

\* `result' is what has been read up to `from', where the last escape ended; s is
\* behind the characters that follow it, and escape is the one that comes now.
RECURSIVE IdentifierParts(_, _, _, _)
IdentifierParts(s, from, result, escape) ==
    LET to   == While(escape.pos, Letters \cup Digits)
        rest == result \o Codes(Between(from, s.pos))
    IN  IF Char(s.pos) # "\\" THEN Returned(s, rest)
        ELSE IF escape.crashed \/ escape.pos = s.pos THEN Returned(escape, rest)
        \* Before an escape in braces the characters are not added to the result.
        ELSE IdentifierParts(Moved(escape, to), escape.pos,
                             (IF Char(s.pos + 2) = "{" THEN result ELSE rest) \o escape.out,
                             escapeAt(Moved(escape, to), CodeContinues))
IdentifierPartsFrom(s, from) == IdentifierParts(s, from, <<>>, escapeAt(s, CodeContinues))
scanIdentifierParts(s) == IdentifierPartsFrom(Moved(s, While(s.pos, Letters \cup Digits)), s.pos)

getIdentifierToken(s) == Token(s, IF s.tokenValue \in Words THEN "keyword" ELSE "identifier")

\* tokenStart may be before the first character, at a '#'.
NameRead(s, before) == getIdentifierToken(Valued(s, before \o s.out))
scanIdentifier(s) ==
    LET to   == While(s.pos, Letters \cup Digits)
        name == Codes(Between(s.tokenStart, to))
    IN  IF ~IsIdentifierStart(Char(s.pos)) THEN Token(s, "Unknown")
        ELSE NameRead(IF Char(to) = "\\" THEN scanIdentifierParts(Moved(s, to))
                      ELSE Returned(Moved(s, to), <<>>), name)

\* A backslash at the position, which begins a name or nothing.
EscapedName(s, escape, prefix, otherwise) ==
    IF escape.crashed THEN escape
    ELSE IF escape.pos = s.pos THEN otherwise
    ELSE NameRead(scanIdentifierParts(escape), prefix \o escape.out)

-------------------------------------------------------------------------------
\* Numbers.

BeforeName(s, name, start, isScientific) ==
    IF Len(name.out) = 1 /\ Char(s.pos) = "n"
    THEN Error(name, IF isScientific THEN "bigint exponent" ELSE "bigint integer", start)
    ELSE Moved(Error(name, "identifier after number", s.pos), s.pos)
checkForIdentifierStartAfterNumericLiteral(s, start, isScientific) ==
    IF IsIdentifierStart(Char(s.pos)) THEN BeforeName(s, scanIdentifierParts(s), start, isScientific) ELSE s

checkBigIntSuffix(s, digits, base) ==
    LET v == IF base = 10 THEN Parsed(digits) ELSE Scaled(Integer(base, digits), 0)
    IN  IF Char(s.pos) = "n" THEN Token(Valued(Moved(s, s.pos + 1), v), "bigint")
        ELSE Token(Valued(s, v), "number")

\* Of zero and octal digits.  The error is placed before a minus, wherever that is.
LegacyOctal(s, start, to) ==
    LET minus == IF s.token = "punctuator" /\ s.tokenValue = <<"-">> THEN 1 ELSE 0
    IN  IF ~Fits(Between(start, to), 3) THEN Crash(s)
        ELSE Token(Valued(Flagged(Error(Moved(s, to), "octal", start - minus), {"Octal"}),
                          Scaled(Integer(8, Between(start, to)), 0)), "number")

\* What has been read: the digits before the point and behind it, and the exponent
\* with its mark.
NumberRead(s, start, main, decimal, power, end) ==
    LET result == IF "ContainsSeparator" \in s.tokenFlags
                  THEN main \o (IF decimal # <<>> THEN <<".">> \o decimal ELSE <<>>) \o power
                  ELSE Between(start, end)
        valued == Token(Valued(s, Fixed(Parsed(result))), "number")
        isWhole == decimal = <<>> /\ "Scientific" \notin s.tokenFlags
    IN  IF "ContainsLeadingZero" \in s.tokenFlags THEN Error(valued, "leading zero", start)
        ELSE checkForIdentifierStartAfterNumericLiteral(
                IF isWhole THEN checkBigIntSuffix(s, result, 10) ELSE valued, start, ~isWhole /\ decimal = <<>>)
AfterExponent(e, d, start, main, digits) ==
    IF e.out = <<>> THEN NumberRead(Error(e, "digit", e.pos), start, main, d.out, <<>>, d.pos)
    ELSE NumberRead(e, start, main, d.out, Between(d.pos, digits) \o e.out, e.pos)
ExponentDigits(p) == p + (IF Char(p + 1) \in {"+", "-"} THEN 2 ELSE 1)
AfterFraction(d, start, main) ==
    IF Char(d.pos) \in {"e", "E"}
    THEN AfterExponent(scanNumberFragment(Flagged(Moved(d, ExponentDigits(d.pos)), {"Scientific"})),
                       d, start, main, ExponentDigits(d.pos))
    ELSE NumberRead(d, start, main, d.out, <<>>, d.pos)
\* The main fragment is behind; s.out is its text.
AfterMainFragment(s, start) ==
    AfterFraction(IF Char(s.pos) = "." THEN scanNumberFragment(Moved(s, s.pos + 1)) ELSE Returned(s, <<>>),
                  start, s.out)

MainFragment(s, to) ==
    IF Char(s.pos) # "0" THEN scanNumberFragment(s)
    ELSE IF Char(s.pos + 1) = "_"
    THEN scanNumberFragment(Error(Flagged(s, {"ContainsSeparator", "ContainsInvalidSeparator"}),
                                  "separator", s.pos + 1))
    ELSE IF to = s.pos + 1 THEN Returned(Moved(s, to), <<"0">>)
    ELSE Returned(Flagged(Moved(s, to), {"ContainsLeadingZero"}),
                  Between(s.pos + 1, to) \o <<".", "0", "0", "0", "0", "0", "0">>)
scanNumber(s) ==
    LET to == While(s.pos + 1, Digits)
    IN  IF Char(s.pos) = "0" /\ to > s.pos + 1 /\ AllIn(Between(s.pos, to), OctalDigits)
        THEN LegacyOctal(s, s.pos, to)
        ELSE AfterMainFragment(MainFragment(s, to), s.pos)

\* 0x, 0b, 0o: there are two characters at least behind the zero.
RadixRead(d, base) ==
    IF d.out = <<>> THEN checkBigIntSuffix(Error(d, "digit", d.pos), <<"0">>, base)
    ELSE checkBigIntSuffix(d, d.out, base)
scanRadix(s, base) == RadixRead(scanRadixDigits(Moved(s, s.pos + 2), base, TRUE), base)
StartsRadix(p) == Char(p) = "0" /\ p + 2 < End /\ Radix(Char(p + 1)) # 0

-------------------------------------------------------------------------------
\* Texts in quotes, templates, regular expressions.

RECURSIVE StringRest(_, _, _)
StringRest(s, quote, result) ==
    LET one == IF Char(s.pos) = "\\" THEN scanEscapeSequence(s, TRUE)
               ELSE Returned(Moved(s, s.pos + 1), <<Code(Char(s.pos))>>)
    IN  IF s.pos >= End \/ Char(s.pos) \in {"LF", "CR"}
        THEN Valued(Flagged(Error(s, "unterminated", s.pos), {"Unterminated"}), result)
        ELSE IF Char(s.pos) = quote THEN Valued(Moved(s, s.pos + 1), result)
        ELSE IF one.crashed THEN one
        ELSE StringRest(one, quote, result \o one.out)
scanString(s) == Token(StringRest(Moved(s, s.pos + 1), Char(s.pos), <<>>), "string")

RECURSIVE TemplateRest(_, _, _, _)
TemplateRest(s, startedWithBacktick, emit, result) ==
    LET escape == scanEscapeSequence(s, emit)
        Ends(p, kind) == Token(Valued(Moved(s, p), result), kind)
        last == IF startedWithBacktick THEN "template" ELSE "tail"
        one  == IF Char(s.pos) = "\\" THEN escape
                ELSE IF Char(s.pos) # "CR" THEN Returned(Moved(s, s.pos + 1), <<Code(Char(s.pos))>>)
                ELSE Returned(Moved(s, s.pos + (IF At(s.pos, <<"CR", "LF">>) THEN 2 ELSE 1)), <<Code("LF")>>)
    IN  IF s.pos >= End
        THEN Token(Valued(Flagged(Error(s, "unterminated", s.pos), {"Unterminated"}), result), last)
        ELSE IF Char(s.pos) = "tick" THEN Ends(s.pos + 1, last)
        ELSE IF At(s.pos, <<"$", "{">>) THEN Ends(s.pos + 2, IF startedWithBacktick THEN "head" ELSE "middle")
        ELSE IF one.crashed THEN one
        ELSE TemplateRest(one, startedWithBacktick, emit, result \o one.out)
scanTemplateAndSetTokenValue(s, emit) ==
    TemplateRest(Moved(s, s.pos + 1), Char(s.pos) = "tick", emit, <<>>)

\* Where a regular expression ends: behind the slash that is not escaped nor in
\* brackets, or at the line break before it.
RECURSIVE RegexEnd(_, _, _)
RegexEnd(p, inEscape, inCharacterClass) ==
    IF p >= End \/ Char(p) \in LineBreaks THEN [to |-> p, closed |-> FALSE]
    ELSE IF Char(p) = "/" /\ ~inEscape /\ ~inCharacterClass THEN [to |-> p + 1, closed |-> TRUE]
    ELSE RegexEnd(p + 1, ~inEscape /\ Char(p) = "\\",
                  IF inEscape THEN inCharacterClass
                  ELSE (inCharacterClass \/ Char(p) = "[") /\ Char(p) # "]")

-------------------------------------------------------------------------------
\* scan().

isConflictMarkerTrivia(p) ==
    /\ p = 1 \/ Char(p - 1) \in LineBreaks
    /\ p + 7 < End
    /\ \A i \in 1..6 : Char(p + i) = Char(p)
    /\ Char(p) = "=" \/ Char(p + 7) = " "
\* A marker of < or > is the rest of its line, one of | or = all up to the next of another kind.
scanConflictMarkerTrivia(p) ==
    IF Char(p) \in {"<", ">"} THEN Until(p, LineBreaks)
    ELSE CHOOSE q \in p .. End :
            LET Stops(r) == r = End \/ (Char(r) \in {"=", ">"} \ {Char(p)} /\ isConflictMarkerTrivia(r))
            IN  Stops(q) /\ \A r \in p .. q - 1 : ~Stops(r)

CommentEnd(p) ==
    LET closes == {q \in p + 2 .. End - 2 : At(q, <<"*", "/">>)}
    IN  IF closes = {} THEN [to |-> End, closed |-> FALSE]
        ELSE [to |-> (CHOOSE q \in closes : \A r \in closes : q <= r) + 2, closed |-> TRUE]
\* Mutant: only line feeds are line breaks in a comment.
MultiLineCommentOfFeeds(s) ==
    LET e     == CommentEnd(s.pos)
        moved == Flagged(Moved(s, e.to),
                         IF Holds(Between(s.pos, e.to), <<"LF">>) THEN {"PrecedingLineBreak"} ELSE {})
    IN  IF e.closed THEN moved ELSE Error(moved, "comment", moved.pos)
MultiLineComment(s) ==
    LET e      == CommentEnd(s.pos)
        broken == \E r \in s.pos + 2 .. e.to - 1 : Char(r) \in LineBreaks
        moved  == Flagged(Moved(s, e.to), IF broken THEN {"PrecedingLineBreak"} ELSE {})
    IN  IF e.closed THEN moved ELSE Error(moved, "comment", moved.pos)

\* The switch on one to three characters: the longest operator there is, but '>'
\* alone and no "?." before a digit.
PunctuatorsAt(p) ==
    {w \in Punctuators : At(p, w) /\ (w = <<"?", ".">> => Char(p + 2) \notin Digits)}
Punctuator(s) ==
    LET w == CHOOSE w \in PunctuatorsAt(s.pos) : \A v \in PunctuatorsAt(s.pos) : Len(v) <= Len(w)
    IN  Token(Valued(Moved(s, s.pos + Len(w)), w), "punctuator")

privateIdentifier(s) ==
    LET hash == Valued(Token(Error(Moved(s, s.pos + 1), "character", s.pos), "private"), Codes(<<"#">>))
        name == Token(scanIdentifier(Moved(s, s.pos + 1)), "private")
    IN  IF s.pos # 1 /\ Char(s.pos + 1) = "!"
        THEN Token(Error(Moved(s, s.pos + 1), "#!", s.pos), "Unknown")
        ELSE IF Char(s.pos + 1) = "\\" 
        THEN Token(EscapedName(Moved(s, s.pos + 1), escapeAt(Moved(s, s.pos + 1), CodeStarts),
                               Codes(<<"#">>), hash), "private")
        ELSE IF IsIdentifierStart(Char(s.pos + 1)) THEN name ELSE hash

\* One turn of the loop that reads no trivia.
scanToken(s) ==
    LET c == Char(s.pos)
        unknown == Token(Error(Moved(s, s.pos + 1), "character", s.pos), "Unknown")
    IN  CASE c \in {"'", "quote"} -> scanString(s)
          [] c = "tick" -> scanTemplateAndSetTokenValue(s, FALSE)
          [] c \in Digits /\ StartsRadix(s.pos) -> scanRadix(s, Radix(Char(s.pos + 1)))
          [] c \in Digits /\ ~StartsRadix(s.pos) -> scanNumber(s)
          [] c = "." /\ Char(s.pos + 1) \in Digits -> Token(scanNumber(s), "number")
          [] c = "\\" -> EscapedName(s, escapeAt(s, CodeStarts), <<>>, unknown)
          [] c = "#" -> privateIdentifier(s)
          [] IsIdentifierStart(c) -> scanIdentifier(s)
          [] PunctuatorsAt(s.pos) # {} /\ (c # "." \/ Char(s.pos + 1) \notin Digits) -> Punctuator(s)
          [] OTHER -> unknown

\* A turn that reads trivia; none is empty.
skipTrivia(s) ==
    LET c == Char(s.pos)
    IN  IF s.pos = 1 /\ At(1, <<"#", "!">>) THEN Moved(s, Until(1, LineBreaks))
        ELSE IF c \in LineBreaks THEN Flagged(Moved(s, s.pos + 1), {"PrecedingLineBreak"})
        ELSE IF c \in Blanks THEN Moved(s, s.pos + 1)
        ELSE IF At(s.pos, <<"/", "/">>) THEN Moved(s, Until(s.pos + 2, LineBreaks))
        ELSE IF At(s.pos, <<"/", "*">>) THEN MultiLineComment(s)
        ELSE IF c \in {"<", "=", ">", "|"} /\ isConflictMarkerTrivia(s.pos)
        THEN Moved(Error(s, "merge conflict", s.pos), scanConflictMarkerTrivia(s.pos))
        ELSE s

\* while (true): trivia is skipped, the flag of a line break stays.
RECURSIVE scanFrom(_)
scanFrom(t) ==
    LET s == [t EXCEPT !.tokenStart = t.pos]
        u == skipTrivia(s)
    IN  IF s.pos >= End THEN Token(s, "EOF") ELSE IF u.pos = s.pos THEN scanToken(s) ELSE scanFrom(u)
scan(s) == scanFrom([s EXCEPT !.fullStartPos = s.pos, !.tokenFlags = {}, !.errors = {}])

-------------------------------------------------------------------------------
\* The parser asks for the token to be read as something else.

AgainFrom(s, p) == [s EXCEPT !.pos = p, !.errors = {}]

\* '>' with what follows it.
reScanGreaterToken(s) ==
    LET joined == {w \in Greater : At(s.tokenStart, w)}
        w == CHOOSE w \in joined : \A v \in joined : Len(v) <= Len(w)
    IN  IF joined = {} THEN s ELSE Valued(AgainFrom(s, s.tokenStart + Len(w)), w)
\* The first character of an operator of more: reScanLessThanToken, reScanQuestionToken.
FirstOf(s, w) == Token(Valued(AgainFrom(s, s.tokenStart + 1), w), "punctuator")
reScanShorter(s) == FirstOf(s, <<Char(s.tokenStart)>>)
\* What is left of "*=" is the '*', and is called '='.
reScanAsteriskEqualsToken(s) == FirstOf(s, <<"=">>)
reScanSlashToken(s) ==
    LET e    == RegexEnd(s.tokenStart + 1, FALSE, FALSE)
        open == Flagged(Error(AgainFrom(s, s.pos), "unterminated", s.pos), {"Unterminated"})
        to   == While(e.to, Letters \cup Digits)
        re   == Moved(IF e.closed THEN AgainFrom(s, to) ELSE open, to)
    IN  Token(Valued(re, Codes(Between(s.tokenStart, to))), "regex")
reScanTemplateToken(s, isTaggedTemplate) ==
    scanTemplateAndSetTokenValue(AgainFrom(s, s.tokenStart), ~isTaggedTemplate)

-------------------------------------------------------------------------------
Reset == [pos |-> 1, fullStartPos |-> 1, tokenStart |-> 1, token |-> "Unknown", tokenValue |-> <<>>,
          tokenFlags |-> {}, errors |-> {}, out |-> <<>>, crashed |-> FALSE]

Got(s) == [kind |-> s.token, value |-> s.tokenValue, start |-> s.tokenStart, end |-> s.pos,
           before |-> s.fullStartPos, flags |-> s.tokenFlags, errors |-> s.errors]
Gets(tokens, s) == scanner' = s /\ read' = Append(tokens, Got(s)) /\ UNCHANGED text
Replaced(S) == \E s \in S : Gets(Front(read), s)
Is(ws) == scanner.token = "punctuator" /\ scanner.tokenValue \in ws

ScannerInit == text \in Texts /\ scanner = Reset /\ read = <<>>

NextToken == /\ scanner.token # "EOF" /\ ~scanner.crashed
             /\ \E s \in {scan(scanner)} : Gets(read, s)
ReScanGreater  == Is({<<">">>}) /\ Replaced({reScanGreaterToken(scanner)})
ReScanShorter  == \/ Is({<<"<", "<">>, <<"?", "?">>}) /\ Replaced({reScanShorter(scanner)})
                  \/ Is({<<"*", "=">>}) /\ Replaced({reScanAsteriskEqualsToken(scanner)})
ReScanSlash    == Is({<<"/">>, <<"/", "=">>}) /\ Replaced({reScanSlashToken(scanner)})
ReScanTemplate ==
    \/ Is({<<"}">>}) /\ Replaced({reScanTemplateToken(scanner, FALSE)})
    \* The parser has seen an invalid escape in a template that has no tag.
    \/ /\ scanner.token \in {"template", "head"} /\ ~scanner.crashed
       /\ "ContainsInvalidEscape" \in scanner.tokenFlags
       /\ \A e \in scanner.errors : e[1] = "unterminated"
       /\ Replaced({reScanTemplateToken(scanner, FALSE)})
Finished == (scanner.token = "EOF" \/ scanner.crashed) /\ UNCHANGED <<text, scanner, read>>

ScannerNext == NextToken \/ ReScanGreater \/ ReScanShorter \/ ReScanSlash \/ ReScanTemplate \/ Finished
===============================================================================
