----------------------------- MODULE ScannerProps -----------------------------
(***************************************************************************)
(* What the scanner promises, and the map from positions to lines that is  *)
(* computed beside it.                                                     *)
(***************************************************************************)
EXTENDS Scanner

-------------------------------------------------------------------------------
\* The line map: where each line starts.  CR LF is one line break.
EndsLine(p) == Char(p) \in LineBreaks /\ ~At(p, <<"CR", "LF">>)
lineStarts == SetToSortSeq({1} \cup {p + 1 : p \in {q \in DOMAIN text : EndsLine(q)}}, <)

\* binarySearch: where the key is, or else the index before where it would be.
RECURSIVE BinarySearch(_, _, _, _)
BinarySearch(array, low, high, key) ==
    LET middle == low + (high - low) \div 2
    IN  IF low > high THEN low - 1
        ELSE IF array[middle] < key THEN BinarySearch(array, middle + 1, high, key)
        ELSE IF array[middle] = key THEN middle ELSE BinarySearch(array, low, middle - 1, key)
computeLineOfPosition(p, lowerBound) == BinarySearch(lineStarts, lowerBound, Len(lineStarts), p)
getLinesBetweenPositions(p, q) ==
    LET line == computeLineOfPosition(p, 1) IN computeLineOfPosition(q, line) - line

-------------------------------------------------------------------------------
\* What the language has at a position.

\* The tokens that the characters from p on begin with, as they are read in an
\* expression; where an operand is expected; after a substitution; where the
\* parser has asked for all of a '>'.
Lexemes(p) ==
    UNION {LET w == Between(p, q)
               As(kind, values) == {[kind |-> kind, value |-> v, end |-> q] : v \in values}
               names == Identifiers(w)
           IN  UNION {As(t.kind, {t.value}) :
                        t \in Strings(w) \cup Templates(w) \cup Numbers(w)}
               \cup As("keyword", names \cap Words) \cup As("identifier", names \ Words)
               \cup (IF w[1] # "#" THEN {}
                     ELSE As("private", {Codes(<<"#">>) \o v : v \in Identifiers(From(w, 2))}))
               \cup (IF w \in Punctuators /\ (w = <<"?", ".">> => Char(q) \notin Digits)
                     THEN As("punctuator", {w}) ELSE {})
               \cup (IF IsRegex(w) THEN As("regex", {Codes(w)}) ELSE {})
               \cup (IF w \in Greater THEN As("greater", {w}) ELSE {}) :
        q \in p + 1 .. End}
Asked(kind) ==
    CASE kind = "regex" -> {"regex"}
      [] kind \in {"tail", "middle"} -> {"tail", "middle"}
      [] kind = "greater" -> {"greater"}
      [] OTHER -> {"number", "bigint", "string", "template", "head", "keyword", "identifier", "private",
                   "punctuator"}
\* The longest of them; a number may not touch a name or a digit.
LexemesFor(p, kind) ==
    LET all == {l \in Lexemes(p) : l.kind \in Asked(kind)}
    IN  {l \in all : /\ \A k \in all : k.end <= l.end
                     /\ l.kind \in {"number", "bigint"} => Char(l.end) \notin Letters \cup Digits}

\* The first character of an operator that the parser takes apart.
Shortened(t) ==
    /\ t.kind = "punctuator" /\ Len(t.value) = 1 /\ t.value \in Punctuators /\ t.end = t.start + 1
    /\ \E w \in {<<"<", "<">>, <<"?", "?">>} : At(t.start, w)
KindAsked(t) == IF t.kind = "punctuator" /\ t.value \in Greater THEN "greater" ELSE t.kind
IsLexeme(t) ==
    \/ \E l \in LexemesFor(t.start, KindAsked(t)) :
          t.end = l.end /\ (t.kind = l.kind \/ l.kind = "greater") /\ t.value = l.value
    \/ Shortened(t) /\ Char(t.start) = t.value[1]

-------------------------------------------------------------------------------
\* Where the scanner is not what the language says.

Text(t) == Between(t.start, t.end)
\* The escape of the null character is dropped from a text.
DropsNull(t) == t.kind \in {"string", "template", "head", "middle", "tail"} /\ Holds(Text(t), <<"\\", "0">>)
\* Before an escape in braces the plain characters behind an earlier escape are lost.
DropsParts(t) ==
    /\ t.kind \in {"identifier", "keyword", "private"}
    /\ \E i, j \in t.start .. t.end - 1 : i < j /\ Char(i) = "\\" /\ At(j, <<"\\", "u", "{">>)
\* More than six digits behind the point are rounded.
Rounds(t) == t.kind = "number" /\ \E l \in LexemesFor(t.start, "number") : l.value[2] < -6
\* 0b12, 0xfz and 1n1 are read as two tokens, 1.n as a whole number.
RunsOn(t) ==
    \/ (StartsRadix(t.start) \/ t.kind = "bigint") /\ Char(t.end) \in Letters \cup Digits
    \/ t.kind = "bigint" /\ Holds(Text(t), <<".", "n">>)
\* A separator is seen before a number that begins with a point.
AfterSeparator(t) == t.kind = "number" /\ Char(t.start) = "." /\ Char(t.start - 1) = "_"
\* A template with an invalid escape is a token if it has a tag.
Tagged(t) == t.kind \in {"template", "head", "middle", "tail"} /\ "ContainsInvalidEscape" \in t.flags
\* The '*' of "*=" is the token '='.
CalledEquals(t) ==
    /\ t.kind = "punctuator" /\ t.value = <<"=">> /\ t.end = t.start + 1
    /\ At(t.start, <<"*", "=">>)
Known(t) == CalledEquals(t) \/ DropsNull(t) \/ DropsParts(t) \/ Rounds(t) \/ RunsOn(t) \/ AfterSeparator(t) \/ Tagged(t)

-------------------------------------------------------------------------------
\* Properties

InTrivia == {"comment", "merge conflict"}
Shebang == IF At(1, <<"#", "!">>) THEN Until(1, LineBreaks) ELSE 1

\* The tokens of a text lie one behind the other with nothing but trivia between
\* them, which holds a comment that does not end or a conflict marker only if that
\* is reported; each is the longest token of the language that is there, of its
\* kind and with its value, if no error is reported for it, and there is no token
\* at all if one is.  The steps are those of scan() and of every function that
\* reads a token again, and the errors are those for which compilation ends.
TokensOfTheLanguage ==
    read # <<>> /\ ~scanner.crashed =>
        LET t        == Last(read)
            previous == IF Len(read) = 1 THEN 1 ELSE read[Len(read) - 1].end
            gap      == Between(IF Len(read) = 1 THEN Shebang ELSE previous, t.start)
        IN  /\ t.before = previous /\ t.start >= t.before /\ t.end <= End
            /\ IsTrivia(gap) <=> \A e \in t.errors : e[1] \notin InTrivia
            /\ IF t.kind = "EOF" THEN t.end = End
               ELSE /\ t.end > t.start
                    /\ Known(t) \/ IF \A e \in t.errors : e[1] \in InTrivia
                                    THEN IsLexeme(t) ELSE LexemesFor(t.start, t.kind) = {}

\* A token is marked as the first of a line exactly when the line map has it on
\* another line than the token before it: semicolons are inserted, and positions
\* reported, for the same lines.  A conflict marker hides the line breaks it covers.
LineBreaksSeen ==
    read # <<>> =>
        LET t == Last(read)
        IN  \/ ("PrecedingLineBreak" \in t.flags) = (getLinesBetweenPositions(t.before, t.start) > 0)
            \/ \E e \in t.errors : e[1] = "merge conflict"
===============================================================================
