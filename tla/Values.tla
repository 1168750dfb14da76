-------------------------------- MODULE Values ---------------------------------
(***************************************************************************)
(* Primitive values as the compiler lays them out: the static type of an   *)
(* expression, the machine word that holds it, the flag of an optional and *)
(* the tag of a union or a boxed value; the casts between them, in the     *)
(* generator (MLIRGen), as an operation of the dialect (verification and   *)
(* canonicalization) and in the lowering to LLVM; and the operators.  An   *)
(* expression grows by one operation at a time, its operand always a       *)
(* variable; beside it is kept the value the language gives it.            *)
(***************************************************************************)
EXTENDS ValueSemantics

CONSTANTS
    Variables,   \* the variables an expression may use: see Load
    Targets,     \* the types a program may cast to
    Texts,       \* bounds the strings that may be made
    MaxInt       \* an i32 goes from -MaxInt-1 to MaxInt
ASSUME MaxIntAssumption == MaxInt \in Nat \ {0}

VARIABLE
    x    \* val: what the expression is compiled to; js: the value the language gives it
vars == <<x>>

Scalars == {"boolean", "i32", "number", "string"}
Type(shape, of) == [shape |-> shape, of |-> of]
Plain(p)    == Type("plain", {p})
Optional(p) == Type("optional", {p})
Union(S)    == Type("union", S)
AnyType     == Type("any", {})
Outside     == Type("outside", {})
Elem(T)     == CHOOSE p \in T.of : TRUE
UndefinedType == Plain("undefined")
StripOptional(T) == IF T.shape = "optional" THEN Plain(Elem(T)) ELSE T

Rep(p) ==
    CASE p = "boolean" -> "i1" [] p = "i32" -> "i32" [] p = "number" -> "f64"
      [] p = "string" -> "ptr" [] OTHER -> "struct"
Word(rep, n, s) == [rep |-> rep, n |-> n, s |-> s]
Bit(b)   == Word("i1", IF b THEN 1 ELSE 0, "")
Ptr(s)   == Word("ptr", 1, s)
Garbage  == Word("garbage", 0, "")
\* DefaultLogic: zero, or the null pointer.
Default(p) == Word(Rep(p), 0, "")

CompiledAs(T, has, tag, word) == [type |-> T, has |-> has, tag |-> tag, word |-> word]
PlainValue(p, word) == CompiledAs(Plain(p), TRUE, "", word)
Missing(p)          == CompiledAs(Optional(p), FALSE, "", Default(p))
Some(p, word)       == CompiledAs(Optional(p), TRUE, "", word)

\* The types of a program's values. A union has no undefined, an optional has
\* it; one that merges into a single type is that type.
Tags    == Scalars \cup {"undefined"}
Members == {S \in (SUBSET Scalars) \ {{}} : ~({"i32", "number"} \subseteq S) /\ \A p \in S : S # {p}}
Types   == {Plain(p) : p \in Tags} \cup {Optional(p) : p \in Scalars}
           \cup {Union(S) : S \in Members} \cup {AnyType}

\* A word has the representation of a p, or nothing was written to it.
Holds(p, w) == w.rep \in {Rep(p), "garbage"}
WellFormed(v) ==
    /\ v.type \in Types
    /\ v.type.shape \in {"plain", "optional"} => Holds(Elem(v.type), v.word)
    /\ v.type.shape \in {"union", "any"} =>
          v.tag \in Tags /\ (v.tag # "undefined" => Holds(v.tag, v.word))
ASSUME TypesAssumption == Targets \subseteq Types /\ \A v \in Variables : WellFormed(v)

\* The values of words, and the numbers and strings a model has room for.
AllTexts == Texts \cup {"true", "false", "undefined", "nan"} \cup {NumberText[h] : h \in Numbers}
InRange(n) == n \in -(MaxInt + 1)..MaxInt
ProperWord(w) ==
    /\ w = Word(w.rep, w.n, w.s)
    /\ w.rep = "i1" => w.n \in {0, 1} /\ w.s = ""
    /\ w.rep = "i32" => InRange(w.n) /\ w.s = ""
    /\ w.rep = "ptr" => w.n \in {0, 1}
Proper(v) == v.has \in BOOLEAN /\ ProperWord(v.word)
Fits(v) ==
    /\ v.word.rep = "f64" => v.word.n \in Numbers \cup {NaN}
    /\ v.word.rep = "ptr" => v.word.s \in AllTexts
\* A double holds every i32, and a string is the sequence of its characters.
ASSUME NumbersSuffice == \A n \in -(MaxInt + 1)..MaxInt : 2 * n \in Numbers
ASSUME TextsAssumption ==
    "" \in Texts /\ \A s \in AllTexts : Len(s) \in Nat /\ SubSeq(s, 1, Len(s)) = s /\ (Len(s) = 0 <=> s = "")

\* What a word means when it is read as a p, and what a compiled value means.
Read(p, w) ==
    CASE p = "undefined" -> Undefined
      [] p = "boolean" /\ w.rep = "i1" -> Boolean(w.n = 1)
      [] p = "i32" /\ w.rep = "i32"    -> Num(2 * w.n)
      [] p = "number" /\ w.rep = "f64" -> Num(w.n)
      [] p = "string" /\ w.rep = "ptr" /\ w.n = 1 -> Str(w.s)
      [] OTHER -> Value("garbage", 0, "")
Meaning(v) ==
    CASE v.type.shape = "plain"    -> Read(Elem(v.type), v.word)
      [] v.type.shape = "optional" -> IF v.has THEN Read(Elem(v.type), v.word) ELSE Undefined
      [] OTHER                     -> Read(v.tag, v.word)

\* An expression with the value the language gives it.
Made(v, js) == [val |-> v, js |-> js]
Load(v)     == Made(v, Meaning(v))
\* The variables have been given values.
ASSUME VariablesAssumption == \A v \in Variables : Proper(v) /\ Fits(v) /\ Meaning(v).kind # "garbage"

-------------------------------------------------------------------------------
\* Types

CanWiden(S, T) ==
    \/ S = T
    \/ S = Plain("i32") /\ T = Plain("number")
    \/ S = UndefinedType /\ T.shape = "optional"
    \/ /\ S.shape \in {"plain", "optional"} /\ T.shape = "optional"
       /\ S.of = T.of \/ (S.of = {"i32"} /\ T.of = {"number"})

\* Mutant: the left type, where neither converts.
UnionTypeOfLeft(S, T) == IF CanWiden(S, T) THEN T ELSE S

\* getUnionType: of types that do not convert, the merged members.
UnionType(S, T) ==
    LET of     == S.of \cup T.of
        merged == IF "number" \in of THEN of \ {"i32"} ELSE of
        rest   == merged \ {"undefined"}
    IN  CASE CanWiden(S, T) -> T
          [] CanWiden(T, S) /\ ~CanWiden(S, T) -> S
          [] OTHER ->
             IF AnyType \in {S, T} THEN AnyType
             ELSE IF "optional" \in {S.shape, T.shape} THEN Outside
             ELSE IF "undefined" \in of THEN IF Cardinality(rest) = 1 THEN Optional(Elem(Type("", rest))) ELSE Outside
             ELSE IF Cardinality(merged) = 1 THEN Plain(Elem(Type("", merged))) ELSE Union(merged)

-------------------------------------------------------------------------------
\* Casts of plain values

Truncated(h) == IF h < 0 THEN -((-h) \div 2) ELSE h \div 2
Wrapped(n)   == ((n + MaxInt + 1) % (2 * (MaxInt + 1))) - (MaxInt + 1)

\* atof and atoi read the longest numeral the text starts with.
LeadingNumber(s) ==
    LET ends == {k \in 1..Len(s) : IsNumeral(SubSeq(s, 1, k))}
    IN  IF ends = {} THEN 0 ELSE Numeral(SubSeq(s, 1, Max(ends)))
ToI32(h) == IF h # NaN /\ InRange(Truncated(h)) THEN Word("i32", Truncated(h), "") ELSE Garbage

ToStringWord(p, w) ==
    CASE p = "boolean" -> Ptr(IF w.n = 1 THEN "true" ELSE "false")
      [] p = "i32"     -> Ptr(NumberText[2 * w.n])
      [] p = "number"  -> Ptr(IF w.n = NaN THEN "nan" ELSE NumberText[w.n])
      [] OTHER         -> w
ToNumberWord(p, w) ==
    CASE p \in {"boolean", "i32"} -> Word("f64", 2 * w.n, "")
      [] p = "string" -> IF w.n = 0 THEN Garbage ELSE Word("f64", LeadingNumber(w.s), "")
      [] OTHER        -> w
ToI32Word(p, w) ==
    CASE p = "boolean" -> Word("i32", w.n, "")
      [] p = "number"  -> ToI32(w.n)
      [] p = "string"  -> IF w.n = 0 THEN Garbage ELSE ToI32(LeadingNumber(w.s))
      [] OTHER         -> w
\* A number is compared with zero ordered, a string is a pointer that is not null.
ToBooleanWord(p, w) ==
    CASE p = "number" -> Bit(w.n \notin {0, NaN})
      [] p \in {"i32", "string"} -> Bit(w.n # 0)
      [] OTHER -> w

\* castTypeScriptTypes and castLLVMTypes, of a value of type p to type q.
CastWord(p, q, w) ==
    CASE p = q -> w
      [] p = "undefined" /\ q # p -> IF q = "string" THEN Ptr("undefined") ELSE Garbage
      [] p \notin {q, "undefined"} ->
         IF w.rep # Rep(p) THEN Garbage
         ELSE CASE q = "string" -> ToStringWord(p, w) [] q = "number" -> ToNumberWord(p, w)
                [] q = "i32" -> ToI32Word(p, w) [] q = "boolean" -> ToBooleanWord(p, w)
                [] OTHER -> Garbage

-------------------------------------------------------------------------------
\* Casts

\* typeof at run time, and of the static type alone.
StaticTypeOf(T) == Elem(T)
RuntimeTypeOf(v) ==
    CASE v.type.shape = "plain"    -> StaticTypeOf(v.type)
      [] v.type.shape = "optional" -> IF v.has THEN StaticTypeOf(v.type) ELSE "undefined"
      [] OTHER                     -> v.tag

\* CastOp::verify.
Verifies(S, T) ==
    \/ T.shape = "any"
    \/ S.shape = "union" /\ T.shape # "union" /\ \E p \in S.of : CanWiden(Plain(p), T)
    \/ /\ S.shape # "union" /\ T.shape = "union"
       /\ S = UndefinedType \/ (\E p \in T.of : CanWiden(StripOptional(S), Plain(p)))
    \/ S.shape = "union" /\ T.shape = "union" /\ \E p \in S.of, q \in T.of : CanWiden(Plain(p), Plain(q))
    \/ S.shape # "union" /\ T.shape # "union"

\* The value of an optional, or the default of its type.
ValueOrDefault(v) == PlainValue(Elem(v.type), IF v.has THEN v.word ELSE Default(Elem(v.type)))

\* The words of a union are read as if they were of the type asked for.
ReadAs(p, w) == IF w.rep = Rep(p) THEN w ELSE Garbage
Box(v) ==
    CompiledAs(AnyType, TRUE, IF v.type.shape = "union" THEN v.tag ELSE StaticTypeOf(v.type), v.word)
Unbox(v, p) == PlainValue(p, ReadAs(p, v.word))
\* Mutants: the tag of the static type; of the member the value converts to.
CreateUnionInstanceStatic(v, T) ==
    CompiledAs(T, TRUE, IF v.type.shape = "union" THEN v.tag ELSE StaticTypeOf(v.type), v.word)
CreateUnionInstanceOfMember(v, T) ==
    LET tag == RuntimeTypeOf(v)
    IN  CompiledAs(T, TRUE, IF tag = "i32" /\ "number" \in T.of THEN "number" ELSE tag, v.word)

CreateUnionInstance(v, T) == CompiledAs(T, TRUE, RuntimeTypeOf(v), v.word)

\* A cast to boolean asks an optional for its flag as well.
OptionalToBoolean(v) ==
    LET w == CastWord(Elem(v.type), "boolean", v.word)
    IN  PlainValue("boolean", IF ~v.has THEN Bit(FALSE) ELSE w)

\* What a CastOp is lowered to.
Lower(v, T) ==
    CASE T.shape = "any"                              -> Box(v)
      [] T.shape = "union"                            -> CreateUnionInstance(v, T)
      [] T.shape = "plain" /\ v.type.shape = "union"  -> PlainValue(Elem(T), ReadAs(Elem(T), v.word))
      [] T = Plain("boolean") /\ v.type.shape = "optional" -> OptionalToBoolean(v)
      [] T.shape = "plain" /\ T # Plain("boolean") /\ v.type.shape = "optional" ->
         PlainValue(Elem(T), CastWord(Elem(v.type), Elem(T), ValueOrDefault(v).word))
      [] T.shape = "plain" /\ v.type.shape = "plain" -> PlainValue(Elem(T), CastWord(Elem(v.type), Elem(T), v.word))

-------------------------------------------------------------------------------
\* Where a cast does not keep what the language says; elsewhere KeepsMeaning
\* holds it to that.

Kind(p) == IF p = "i32" THEN "number" ELSE p
Coerce(js, T) ==
    CASE T.shape \in {"any", "union"} -> js
      [] T.shape = "plain"            -> Converted(js, Kind(Elem(T)))
      [] T.shape = "optional"         -> IF js = Undefined THEN js ELSE Converted(js, Kind(Elem(T)))

WholeI32(h) == h # NaN /\ h % 2 = 0 /\ InRange(Truncated(h))
KeepsPlain(p, q, w) ==
    /\ ~(p = "undefined" /\ q \in {"boolean", "i32", "number"})      \* any value
    /\ ~(p = "string" /\ q = "boolean" /\ w.s = "")                  \* the pointer is not null
    /\ ~(p = "string" /\ q \in {"i32", "number"} /\ w.s # "" /\ ~IsNumeral(w.s))  \* its first digits, not NaN
    /\ ~(p = "string" /\ q = "i32" /\ ~WholeI32(LeadingNumber(w.s)))
    /\ ~(p = "number" /\ q = "i32" /\ ~WholeI32(w.n))                \* the fraction is lost
    /\ ~(p = "number" /\ q = "string" /\ w.n = NaN)                  \* "nan"
Keeps(v, T) ==
    LET missing == v.type.shape = "optional" /\ ~v.has
    IN  CASE T.shape = "union" -> TRUE
          [] T.shape = "any"   -> ~missing                            \* the box has no flag
          [] T.shape = "plain" /\ v.type.shape = "union" -> v.tag \in T.of   \* another representation
          [] T.shape = "plain" /\ missing -> T = Plain("boolean")     \* the default
          [] T.shape = "plain" /\ v.type.shape \in {"plain", "optional"} /\ ~missing ->
             KeepsPlain(Elem(v.type), Elem(T), v.word)

-------------------------------------------------------------------------------
\* The generator's cast

\* A CastOp.
CastOp(e, T) ==
    IF ~Verifies(e.val.type, T) THEN {}
    ELSE {Made(Lower(e.val, T), IF Keeps(e.val, T) THEN Coerce(e.js, T) ELSE Unknown)}

\* castFromAny: the function __as, which knows three tags.
As(e, p) ==
    LET v == e.val
    IN  IF v.tag \in {"number", "string", "i32"}
        THEN {Made(PlainValue(p, CastWord(v.tag, p, v.word)),
                   IF KeepsPlain(v.tag, p, v.word) THEN Coerce(e.js, Plain(p)) ELSE Unknown)}
        ELSE {Made(PlainValue(p, Default(p)), Unknown)}

CastPlain(e, p) == IF e.val.type = Plain(p) THEN {e} ELSE IF e.val.type = AnyType THEN As(e, p) ELSE CastOp(e, Plain(p))

\* What is stored in a union that has no member of the type of the value: the
\* value as the first member it can be cast to (they are sorted by address).
AsMember(e, T) ==
    LET members == {p \in T.of : CanWiden(e.val.type, Plain(p))}
    IN  IF members = {} \/ e.val.type \in {Plain(p) : p \in T.of} THEN {e}
        ELSE UNION {CastPlain(e, p) : p \in members}

Cast(e, T) ==
    CASE e.val.type = T -> {e}
      [] T.shape = "optional" /\ e.val.type # T ->
         IF e.val.type = UndefinedType THEN {Made(Missing(Elem(T)), e.js)}
         ELSE {Made(Some(Elem(T), c.val.word), c.js) : c \in CastPlain(e, Elem(T))}
      [] T.shape = "plain" /\ e.val.type # T -> CastPlain(e, Elem(T))
      [] T.shape = "union" /\ e.val.type # T -> UNION {CastOp(c, T) : c \in AsMember(e, T)}
      [] T.shape = "any" /\ e.val.type # T -> CastOp(e, T)
      [] T = Outside -> {}

-------------------------------------------------------------------------------
\* Operators.  Each is the set of what it may give: none if it is rejected,
\* several if a word is read that nothing was written to.

BooleanType == Plain("boolean")
Truth(w)  == IF w.rep = "garbage" THEN BOOLEAN ELSE {w.n # 0}
Known(js, others) == IF Unknown \in others THEN Unknown ELSE js
BooleanMade(b, js) == Made(PlainValue("boolean", Bit(b)), js)

\* !e
Not(e) ==
    UNION {{BooleanMade(~b, Known(Boolean(~Truthy(e.js)), {c.js})) : b \in Truth(c.val.word)} :
              c \in Cast(e, BooleanType)}

\* +e
UnaryPlus(e) ==
    IF e.val.type \in {Plain("i32"), Plain("number")} THEN {Made(e.val, e.js)}
    ELSE {Made(c.val, c.js) : c \in Cast(e, Plain("number"))}

\* typeof e == p.  An i32 says so, to the language it is a number.
TypeOfIs(e, p) ==
    LET name == RuntimeTypeOf(e.val)
    IN  {BooleanMade(name = p, IF "i32" \in {name, p} THEN Unknown ELSE Known(Boolean(e.js.kind = p), {e.js}))}

\* The variable as a p, where typeof has told that it is one (addSafeCastStatement).
Narrowed(e, p) ==
    CASE RuntimeTypeOf(e.val) # p  -> {}
      [] RuntimeTypeOf(e.val) = p /\ e.val.type = AnyType -> {Made(Unbox(e.val, p), e.js)}
      [] RuntimeTypeOf(e.val) = p /\ e.val.type = Optional(p) -> {Made(PlainValue(p, e.val.word), e.js)}
      [] RuntimeTypeOf(e.val) = p /\ e.val.type \notin {AnyType, Optional(p)} ->
         {[c EXCEPT !.js = e.js] : c \in CastPlain(e, p)}

\* unwrapForBinaryOp: arithmetic takes the value of an optional or its default.
Unwrapped(e) ==
    IF e.val.type.shape = "optional"
    THEN Made(ValueOrDefault(e.val), IF e.val.has THEN e.js ELSE Unknown)
    ELSE e

\* adjustTypesForBinaryOp, for + and for the operators that prefer numbers.
AdjustedToLeft(l, r) ==
    LET T == IF r.val.type = Plain("string") THEN r.val.type ELSE l.val.type
    IN  Cast(l, T) \X Cast(r, T)
AdjustedToNumber(l, r) ==
    LET types == {l.val.type, r.val.type}
    IN  IF UndefinedType \in types \/ l.val.type = r.val.type THEN {<<l, r>>}
        ELSE IF Plain("number") \in types THEN Cast(l, Plain("number")) \X Cast(r, Plain("number"))
        ELSE IF Plain("i32") \in types THEN Cast(l, Plain("i32")) \X Cast(r, Plain("i32"))
        ELSE {<<l, r>>}

\* ArithmeticBinaryOp, on two words of the left one's type.
Operate(op, a, b) ==
    IF "garbage" \in {a.rep, b.rep} THEN Garbage
    ELSE CASE a.rep = "i1"  -> Bit((a.n + b.n) % 2 = 1)
           [] a.rep = "i32" -> Word("i32", Wrapped(IF op = "+" THEN a.n + b.n ELSE a.n - b.n), "")
           [] a.rep = "f64" -> Word("f64", IF op = "+" THEN Sum(a.n, b.n) ELSE Difference(a.n, b.n), "")
           [] a.rep = "ptr" -> IF 0 \in {a.n, b.n} THEN Garbage ELSE Ptr(a.s \o b.s)
           [] OTHER         -> Garbage
Operates(op, T, U) == T = U /\ T.shape = "plain" /\ T.of \subseteq (Scalars \ (IF op = "+" THEN {} ELSE {"string"}))

\* What the language makes of it, where the types chosen are the language's own:
\* one bit holds no sum, a sum of i32 may not fit, and + of two values of which
\* one is a string unknown to the types is no concatenation.
ArithmeticJs(op, l, r, T) ==
    LET kinds == {l.js.kind, r.js.kind}
        js    == IF op = "+" THEN Added(l.js, r.js) ELSE Num(Difference(ToNumber(l.js), ToNumber(r.js)))
    IN  CASE "unknown" \in kinds -> Unknown
          [] "unknown" \notin kinds /\ T = BooleanType -> Unknown
          [] "unknown" \notin kinds /\ T # BooleanType ->
             IF T = Plain("i32") /\ js.kind = "number" /\ ~WholeI32(js.n) THEN Unknown
             ELSE IF op = "+" /\ (T = Plain("string")) # (js.kind = "string") THEN Unknown
             ELSE js

Arithmetic(op, l, r) ==
    LET ul == Unwrapped(l)
        ur == Unwrapped(r)
        js(pair) == IF Unknown \in {pair[1].js, pair[2].js} THEN Unknown ELSE ArithmeticJs(op, ul, ur, pair[1].val.type)
    IN  {Made(PlainValue(Elem(pair[1].val.type), Operate(op, pair[1].val.word, pair[2].val.word)), js(pair)) :
            pair \in {p \in IF op = "+" THEN AdjustedToLeft(ul, ur) ELSE AdjustedToNumber(ul, ur) :
                          Operates(op, p[1].val.type, p[2].val.type)}}

\* LogicOp for ===, on words of types p and q; a string is compared by strcmp if
\* neither pointer is null.
SameWords(p, a, q, b) ==
    IF "garbage" \in {a.rep, b.rep} THEN BOOLEAN
    ELSE CASE p \in {"i32", "boolean"} -> {a = b}
           [] p = "number" -> {a.n = CastWord(q, p, b).n /\ a.n # NaN}
           [] p = "string" -> {a = CastWord(q, p, b)}
           [] OTHER        -> {}
ComparesWith(p, q) == p \in {"number", "string"} \/ p = q

\* OptionalTypeLogicalOp, UndefTypeLogicalOp and LogicOp.  Comparisons with any and
\* unions that adjusting does not cast are left out.
SameValues(v, w) ==
    LET p == Elem(v.type)
        q == Elem(w.type)
        shapes == {v.type.shape, w.type.shape}
    IN  CASE ~(shapes \subseteq {"plain", "optional"}) -> {}
          [] shapes \subseteq {"plain", "optional"} ->
             IF UndefinedType \in {v.type, w.type}
             THEN {(v.type = UndefinedType \/ (v.type.shape = "optional" /\ ~v.has))
                   /\ (w.type = UndefinedType \/ (w.type.shape = "optional" /\ ~w.has))}
             ELSE IF shapes = {"optional"}
             THEN IF ~ComparesWith(p, q) THEN {}
                  ELSE IF v.has /\ w.has THEN SameWords(p, v.word, q, w.word) ELSE {v.has = w.has}
             ELSE IF shapes = {"plain"} /\ p = "string" /\ q # p THEN {}
             ELSE IF ~ComparesWith(p, q) THEN {}
             ELSE SameWords(p, v.word, q, w.word)

\* l === r.  The words of a missing optional are compared with those of a plain
\* value, and what the types let be compared is brought to one kind first.
StrictEqual(l, r) ==
    LET types   == {l.val.type, r.val.type}
        missing == \E e \in {l, r} : e.val.type.shape = "optional" /\ ~e.val.has
        mixed   == Cardinality({T.shape : T \in types}) = 2 /\ UndefinedType \notin types
        alike   == l.js.kind = r.js.kind \/ "undefined" \in {l.js.kind, r.js.kind}
        js(pair) == IF (missing /\ mixed) \/ ~alike \/ Unknown \in {pair[1].js, pair[2].js} THEN Unknown
                    ELSE Boolean(Identical(l.js, r.js))
    IN  UNION {{BooleanMade(b, js(pair)) : b \in SameValues(pair[1].val, pair[2].val)} :
                  pair \in AdjustedToNumber(l, r)}

\* l && r and l || r: the left operand as a boolean, either operand as what
\* merges the two types.
AndOr(isAnd, l, r) ==
    LET T == UnionType(l.val.type, r.val.type)
        Result(c, pl, pr, b) ==
            Made((IF b = isAnd THEN pr ELSE pl).val,
                 Known((IF Truthy(l.js) = isAnd THEN pr ELSE pl).js, {c.js}))
    IN  UNION {{Result(t[1], t[2], t[3], b) : b \in Truth(t[1].val.word)} :
                  t \in Cast(l, BooleanType) \X Cast(l, T) \X Cast(r, T)}

\* findBaseType, with what merges the types as its default.
BaseType(S, T) == IF CanWiden(S, T) THEN T ELSE IF CanWiden(T, S) THEN S ELSE UnionType(T, S)

\* The condition of l ?? r: the left operand, an optional's value or its
\* default, cast to a pointer, is null; or an optional is false as a boolean.
IsNull(v) ==
    LET w == IF v.type.shape = "optional" THEN ValueOrDefault(v).word ELSE v.word
    IN  CASE v.type.shape \in {"plain", "optional"} ->
             (CASE Elem(v.type) \in {"i32", "string"} -> IF w.rep = "garbage" THEN BOOLEAN ELSE {w.n = 0}
                [] Elem(v.type) = "undefined"         -> BOOLEAN
                [] OTHER                              -> {})
          [] v.type.shape \in {"any", "union"} -> IF w.rep = "ptr" THEN {w.n = 0} ELSE BOOLEAN
Coalesces(l) ==
    CASE l.val.type.shape = "union"    -> {}
      [] l.val.type.shape = "optional" ->
         UNION {{null \/ ~b : b \in Truth(c.val.word)} : c \in Cast(l, BooleanType), null \in IsNull(l.val)}
      [] l.val.type.shape \in {"plain", "any"} -> IsNull(l.val)

\* l ?? r.  Zero is taken for null, and so may be what a box holds.
Coalesce(l, r) ==
    LET T == BaseType(r.val.type, l.val.type)
        from == StripOptional(l.val.type)
        told == /\ l.js # Unknown
                /\ \/ from = Plain("string")
                   \/ from = Plain("i32") /\ l.js # Num(0)
                   \/ from = AnyType /\ l.js.kind = "string"
        Result(pl, pr, null) ==
            Made((IF null THEN pr ELSE pl).val,
                 IF told THEN (IF l.js = Undefined THEN pr ELSE pl).js ELSE Unknown)
    IN  {Result(t[1], t[2], t[3]) : t \in Cast(l, T) \X Cast(r, T) \X Coalesces(l)}

\* c ? l : r, for a condition that says nothing of either.
Conditional(c, l, r) ==
    LET T == BaseType(l.val.type, r.val.type)
    IN  {Made(t[IF c THEN 1 ELSE 2].val, t[IF c THEN 1 ELSE 2].js) : t \in Cast(l, T) \X Cast(r, T)}

-------------------------------------------------------------------------------
\* An expression grows.

Becomes(results) == \E e \in results : Fits(e.val) /\ x' = e
Operands == {Load(v) : v \in Variables}

Init == x \in Operands

CastTo    == \E T \in Targets : Becomes(Cast(x, T))
Negates   == Becomes(Not(x))
Plus      == Becomes(UnaryPlus(x))
Guard     == \E p \in Scalars : Becomes(TypeOfIs(x, p))
Narrow    == \E p \in Scalars : Becomes(Narrowed(x, p))
Calculate == \E y \in Operands, op \in {"+", "-"} : Becomes(Arithmetic(op, x, y)) \/ Becomes(Arithmetic(op, y, x))
Compare   == \E y \in Operands : Becomes(StrictEqual(x, y)) \/ Becomes(StrictEqual(y, x))
Logic     == \E y \in Operands, isAnd \in BOOLEAN : Becomes(AndOr(isAnd, x, y)) \/ Becomes(AndOr(isAnd, y, x))
Nullish  == \E y \in Operands : Becomes(Coalesce(x, y)) \/ Becomes(Coalesce(y, x))
Choose    == \E y \in Operands, c \in BOOLEAN : Becomes(Conditional(c, x, y)) \/ Becomes(Conditional(c, y, x))

Next == CastTo \/ Negates \/ Plus \/ Guard \/ Narrow \/ Calculate \/ Compare \/ Logic \/ Nullish \/ Choose
Spec == Init /\ [][Next]_vars

-------------------------------------------------------------------------------
\* Properties

\* Whatever casts and operators a value has gone through, along any path from
\* plain values through optionals, unions and boxes and back, what it is compiled
\* to means what the language says, until a step is taken of which one of the
\* exceptions above says that it does not.
KeepsMeaning == x.js # Unknown => Meaning(x.val) = x.js

\* The tag of a union or a box tells how its word is to be read, also after
\* casts between unions, casts by way of a member and boxing.
TagsTell ==
    x.val.type.shape \in {"union", "any"} /\ x.val.tag # "undefined"
    => x.val.word.rep \in {Rep(x.val.tag), "garbage"}

\* The type that two operands are merged to takes both of them: no operator is
\* rejected because of the type the compiler has chosen for it itself.
MergedTypeTakesBoth ==
    \A y \in Operands :
        LET T == UnionType(x.val.type, y.val.type)
        IN  T # Outside => Cast(x, T) # {} /\ Cast(y, T) # {}
================================================================================
