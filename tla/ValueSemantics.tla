---------------------------- MODULE ValueSemantics ----------------------------
(***************************************************************************)
(* What the language says of primitive values: what they are, how they are *)
(* converted, added and compared, and what typeof tells of them.  Numbers  *)
(* are counted in halves, so that there are fractions to lose; NaN is a    *)
(* number of its own.  Unknown stands for a value nothing is said about.   *)
(***************************************************************************)
EXTENDS Integers, Sequences, FiniteSetsExt, TLC

CONSTANTS
    Numbers,    \* the numbers in use, in halves, as a set of integers
    NaN         \* an integer that is not one of them
ASSUME NumbersAssumption == Numbers \subseteq Int /\ NaN \in Int \ Numbers /\ 0 \in Numbers

Value(kind, n, s) == [kind |-> kind, n |-> n, s |-> s]
Undefined  == Value("undefined", 0, "")
Unknown    == Value("unknown", 0, "")
Boolean(b) == Value("boolean", IF b THEN 1 ELSE 0, "")
Num(h)     == Value("number", h, "")
Str(s)     == Value("string", 0, s)

Digits(h) ==
    LET whole == (IF h < 0 THEN -h ELSE h) \div 2
    IN  (IF h < 0 THEN "-" ELSE "") \o ToString(whole) \o (IF h % 2 = 1 THEN ".5" ELSE "")
NumberText  == [h \in Numbers |-> Digits(h)]
IsNumeral(s) == \E h \in Numbers : NumberText[h] = s
Numeral(s)   == CHOOSE h \in Numbers : NumberText[h] = s

Truthy(v) ==
    CASE v.kind = "boolean" -> v.n = 1
      [] v.kind = "number"  -> v.n \notin {0, NaN}
      [] v.kind = "string"  -> v.s # ""
      [] OTHER              -> FALSE

ToNumber(v) ==
    CASE v.kind = "boolean" -> 2 * v.n
      [] v.kind = "number"  -> v.n
      [] v.kind = "string"  -> IF v.s = "" THEN 0 ELSE IF IsNumeral(v.s) THEN Numeral(v.s) ELSE NaN
      [] OTHER              -> NaN

ToText(v) ==
    CASE v.kind = "boolean" -> IF v.n = 1 THEN "true" ELSE "false"
      [] v.kind = "number"  -> IF v.n = NaN THEN "NaN" ELSE NumberText[v.n]
      [] v.kind = "string"  -> v.s
      [] OTHER              -> "undefined"

\* Boolean(v), Number(v) and String(v).
Converted(v, kind) ==
    CASE v.kind \in {kind, "unknown"} -> v
      [] kind = "boolean" /\ v.kind \notin {"boolean", "unknown"} -> Boolean(Truthy(v))
      [] kind = "number" /\ v.kind \notin {"number", "unknown"}   -> Num(ToNumber(v))
      [] kind = "string" /\ v.kind \notin {"string", "unknown"}   -> Str(ToText(v))
      [] OTHER -> Unknown

Sum(a, b)        == IF NaN \in {a, b} THEN NaN ELSE a + b
Difference(a, b) == IF NaN \in {a, b} THEN NaN ELSE a - b

Added(v, w) ==
    IF "string" \in {v.kind, w.kind} THEN Str(ToText(v) \o ToText(w)) ELSE Num(Sum(ToNumber(v), ToNumber(w)))

\* v === w.
Identical(v, w) == v = w /\ v # Num(NaN)
================================================================================
