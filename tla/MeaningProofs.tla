----------------------------- MODULE MeaningProofs -----------------------------
(***************************************************************************)
(* What holds of Values for all variables, types to cast to, numbers and   *)
(* texts, and for expressions of any length: what an expression is         *)
(* compiled to means what the language says.                               *)
(***************************************************************************)
EXTENDS ValuesProofs

Initialised(v) == Meaning(v).kind # "garbage"

\* The inductive invariant: what is known of the value the language gives an
\* expression is the meaning of a word that was written.
Sound(e) ==
    /\ Expression(e) /\ Proper(e.val)
    /\ e.js # Unknown => Meaning(e.val) = e.js /\ Initialised(e.val)

-------------------------------------------------------------------------------
\* Values of the language

\* The kinds of the values, and what they are made of.
LEMMA Kinds ==
    /\ Undefined.kind = "undefined" /\ Unknown.kind = "unknown"
    /\ \A b : Boolean(b).kind = "boolean" /\ Boolean(b).n = (IF b THEN 1 ELSE 0)
    /\ \A h : Num(h).kind = "number" /\ Num(h).n = h
    /\ \A s : Str(s).kind = "string" /\ Str(s).s = s
  BY DEF Undefined, Unknown, Boolean, Num, Str, Value

\* A conversion to the kind a value has changes nothing.
LEMMA ConvertedToItself ==
    ASSUME NEW v, NEW kind, v.kind \in {kind, "unknown"}
    PROVE  Converted(v, kind) = v
  BY DEF Converted

\* What a value of another kind is converted to.
LEMMA Conversions ==
    ASSUME NEW v
    PROVE  /\ v.kind \in {"undefined", "number", "string"} => Converted(v, "boolean") = Boolean(Truthy(v))
           /\ v.kind \in {"undefined", "boolean", "string"} => Converted(v, "number") = Num(ToNumber(v))
           /\ v.kind \in {"undefined", "boolean", "number"} => Converted(v, "string") = Str(ToText(v))
           /\ v.kind \in {"boolean", "number", "string"} => Converted(v, "undefined") = Unknown
  BY DEF Converted

\* What booleans are converted to.
LEMMA BooleanConverted ==
    ASSUME NEW b \in BOOLEAN
    PROVE  /\ Converted(Boolean(b), "string") = Str(IF b THEN "true" ELSE "false")
           /\ Converted(Boolean(b), "number") = Num(2 * (IF b THEN 1 ELSE 0))
  <1>1. PICK v : v = Boolean(b)
    OBVIOUS
  <1>2. v.kind = "boolean" /\ v.n = IF b THEN 1 ELSE 0
    BY <1>1, Kinds
  <1>3. ToText(v) = (IF b THEN "true" ELSE "false") /\ ToNumber(v) = 2 * (IF b THEN 1 ELSE 0)
    BY <1>2 DEF ToText, ToNumber
  <1>. QED  BY <1>1, <1>2, <1>3, Conversions

\* What numbers are converted to.
LEMMA NumConverted ==
    ASSUME NEW h
    PROVE  /\ h # NaN => Converted(Num(h), "string") = Str(NumberText[h])
           /\ Converted(Num(h), "boolean") = Boolean(h \notin {0, NaN})
           /\ Converted(Num(h), "number") = Num(h)
  <1>1. PICK v : v = Num(h)
    OBVIOUS
  <1>2. v.kind = "number" /\ v.n = h
    BY <1>1, Kinds
  <1>3. (h # NaN => ToText(v) = NumberText[h]) /\ Truthy(v) = (h \notin {0, NaN})
    BY <1>2 DEF ToText, Truthy
  <1>. QED  BY <1>1, <1>2, <1>3, Conversions, ConvertedToItself

\* What strings are converted to, where they are numerals.
LEMMA StrConverted ==
    ASSUME NEW s
    PROVE  /\ s = "" \/ IsNumeral(s) => Converted(Str(s), "number") = Num(IF s = "" THEN 0 ELSE Numeral(s))
           /\ Converted(Str(s), "boolean") = Boolean(s # "")
  <1>1. PICK v : v = Str(s)
    OBVIOUS
  <1>2. v.kind = "string" /\ v.s = s
    BY <1>1, Kinds
  <1>3. (s = "" \/ IsNumeral(s) => ToNumber(v) = IF s = "" THEN 0 ELSE Numeral(s)) /\ Truthy(v) = (s # "")
    BY <1>2 DEF ToNumber, Truthy
  <1>. QED  BY <1>1, <1>2, <1>3, Conversions

-------------------------------------------------------------------------------
\* Words

\* What a word that is a value is read as.
LEMMA Readings ==
    ASSUME NEW w
    PROVE  /\ Read("undefined", w) = Undefined
           /\ Read("boolean", w) = IF w.rep = "i1" THEN Boolean(w.n = 1) ELSE Value("garbage", 0, "")
           /\ Read("i32", w) = IF w.rep = "i32" THEN Num(2 * w.n) ELSE Value("garbage", 0, "")
           /\ Read("number", w) = IF w.rep = "f64" THEN Num(w.n) ELSE Value("garbage", 0, "")
           /\ Read("string", w) = IF w.rep = "ptr" /\ w.n = 1 THEN Str(w.s) ELSE Value("garbage", 0, "")
  BY DEF Read

\* It has the representation and the kind of its type.
LEMMA ReadKind ==
    ASSUME NEW p \in Tags, NEW w, Read(p, w).kind # "garbage"
    PROVE  /\ Read(p, w).kind = Kind(p)
           /\ p # "undefined" => w.rep = Rep(p)
           /\ p = "string" => w.n = 1
  <1>1. PICK g : g = Value("garbage", 0, "")
    OBVIOUS
  <1>2. g.kind = "garbage"
    BY <1>1 DEF Value
  <1>3. CASE p = "undefined"
    BY <1>3, Readings, Kinds DEF Kind
  <1>4. CASE p = "boolean"
    <2>1. Read(p, w) = IF w.rep = "i1" THEN Boolean(w.n = 1) ELSE g
      BY <1>1, <1>4, Readings
    <2>2. w.rep = "i1" /\ Read(p, w) = Boolean(w.n = 1)
      BY <1>2, <2>1
    <2>. QED  BY <1>4, <2>2, Kinds DEF Kind, Rep
  <1>5. CASE p = "i32"
    <2>1. Read(p, w) = IF w.rep = "i32" THEN Num(2 * w.n) ELSE g
      BY <1>1, <1>5, Readings
    <2>. QED  BY <1>2, <1>5, <2>1, Kinds DEF Kind, Rep
  <1>6. CASE p = "number"
    <2>1. Read(p, w) = IF w.rep = "f64" THEN Num(w.n) ELSE g
      BY <1>1, <1>6, Readings
    <2>. QED  BY <1>2, <1>6, <2>1, Kinds DEF Kind, Rep
  <1>7. CASE p = "string"
    <2>1. Read(p, w) = IF w.rep = "ptr" /\ w.n = 1 THEN Str(w.s) ELSE g
      BY <1>1, <1>7, Readings
    <2>. QED  BY <1>2, <1>7, <2>1, Kinds DEF Kind, Rep
  <1>. QED  BY <1>3, <1>4, <1>5, <1>6, <1>7 DEF Tags, Scalars

\* No word is read as a value that nothing is said about.
LEMMA ReadKnown ==
    ASSUME NEW p \in Tags, NEW w
    PROVE  Read(p, w) # Unknown
  <1>1. CASE Read(p, w).kind = "garbage"
    BY <1>1, Kinds
  <1>2. CASE Read(p, w).kind # "garbage"
    BY <1>2, ReadKind, Kinds DEF Kind, Tags, Scalars
  <1>. QED  BY <1>1, <1>2

-------------------------------------------------------------------------------
\* Numbers

\* The whole part of an even number of halves is its half.
LEMMA WholeHalves ==
    ASSUME NEW h \in Int, h % 2 = 0
    PROVE  Truncated(h) \in Int /\ 2 * Truncated(h) = h
  <1>1. CASE h < 0
    BY <1>1 DEF Truncated
  <1>2. CASE h >= 0
    BY <1>2 DEF Truncated
  <1>. QED  BY <1>1, <1>2

\* Twice an integer is a whole number of halves.
LEMMA TruncatedDouble ==
    ASSUME NEW n \in Int
    PROVE  Truncated(2 * n) = n /\ (2 * n) % 2 = 0
  <1>1. CASE n < 0
    BY <1>1 DEF Truncated
  <1>2. CASE n >= 0
    BY <1>2 DEF Truncated
  <1>. QED  BY <1>1, <1>2

\* The halves of an i32 are a number, and not NaN.
LEMMA I32IsNumber ==
    ASSUME NEW n, InRange(n)
    PROVE  n \in Int /\ 2 * n \in Numbers /\ 2 * n # NaN /\ 2 * n \in Int
  BY MaxIntAssumption, NumbersSuffice, NumbersAssumption DEF InRange

\* An integer wraps to an i32, and an i32 to itself.
LEMMA WrappedInRange ==
    ASSUME NEW n \in Int
    PROVE  InRange(Wrapped(n)) /\ (InRange(n) => Wrapped(n) = n)
  <1>1. PICK m \in Nat \ {0} : m = MaxInt + 1
    BY MaxIntAssumption
  <1>2. (n + m) % (2 * m) \in 0..(2 * m - 1)
    BY <1>1
  <1>3. Wrapped(n) = ((n + m) % (2 * m)) - m
    BY <1>1, MaxIntAssumption DEF Wrapped
  <1>4. InRange(Wrapped(n))
    BY <1>1, <1>2, <1>3, MaxIntAssumption DEF InRange
  <1>5. ASSUME InRange(n)
        PROVE  Wrapped(n) = n
    <2>1. n + m \in 0..(2 * m - 1)
      BY <1>1, <1>5, MaxIntAssumption DEF InRange
    <2>2. (n + m) % (2 * m) = n + m
      BY <1>1, <2>1
    <2>. QED  BY <1>1, <1>3, <2>2
  <1>. QED  BY <1>4, <1>5

\* The text of a number is read back as that number.
LEMMA NumeralRead ==
    ASSUME NEW s, IsNumeral(s)
    PROVE  Numeral(s) \in Numbers /\ NumberText[Numeral(s)] = s
  BY DEF IsNumeral, Numeral

\* The largest of some numbers up to n is n, if n is among them.
LEMMA LargestUpTo ==
    ASSUME NEW n \in Nat, NEW S, \A k \in S : k \in 1..n
    PROVE  /\ n = 0 => S = {}
           /\ n # 0 => n \in 1..n
           /\ n \in S => Max(S) = n
  <1>1. n = 0 => S = {}
    OBVIOUS
  <1>2. ASSUME n \in S PROVE Max(S) = n
    <2>1. \E m \in S : \A k \in S : m >= k
      BY <1>2
    <2>2. PICK m : m = Max(S)
      OBVIOUS
    <2>3. m \in S /\ \A k \in S : m >= k
      BY <2>1, <2>2, Zenon DEF Max
    <2>4. m = n
      BY <1>2, <2>3
    <2>. QED  BY <2>2, <2>4
  <1>. QED  BY <1>1, <1>2

\* atof reads all of a text that is a numeral.
LEMMA LeadingNumbers ==
    ASSUME NEW s \in AllTexts
    PROVE  /\ s = "" => LeadingNumber(s) = 0
           /\ s # "" /\ IsNumeral(s) => LeadingNumber(s) = Numeral(s)
  <1>1. PICK n \in Nat : n = Len(s) /\ SubSeq(s, 1, n) = s /\ (n = 0 <=> s = "")
    BY TextsAssumption
  <1>0. n \in Nat /\ (n = 0 <=> s = "")
    BY <1>1, Zenon
  <1>2. PICK ends : ends = {k \in 1..n : IsNumeral(SubSeq(s, 1, k))}
    OBVIOUS
  <1>3. LeadingNumber(s) = IF ends = {} THEN 0 ELSE Numeral(SubSeq(s, 1, Max(ends)))
    BY <1>1, <1>2, Zenon DEF LeadingNumber
  <1>4. \A k \in ends : k \in 1..n
    BY <1>2
  <1>5. CASE s = ""
    <2>1. ends = {}
      BY <1>0, <1>4, <1>5, LargestUpTo, Zenon
    <2>. QED  BY <1>1, <1>3, <1>5, <2>1
  <1>6. ASSUME s # "", IsNumeral(s)
        PROVE  LeadingNumber(s) = Numeral(s)
    <2>1. n \in 1..n
      BY <1>0, <1>4, <1>6, LargestUpTo, Zenon
    <2>2. n \in ends
      BY <1>1, <1>2, <1>6, <2>1, Zenon
    <2>3. Max(ends) = n
      BY <1>0, <1>4, <2>2, LargestUpTo, Zenon
    <2>. QED  BY <1>1, <1>3, <2>2, <2>3, Zenon
  <1>. QED  BY <1>5, <1>6

-------------------------------------------------------------------------------
\* Casts of words

\* A word made of a representation, a number and a text.
LEMMA WordForm ==
    ASSUME NEW rep, NEW n, NEW s
    PROVE  Word(rep, n, s).rep = rep /\ Word(rep, n, s).n = n /\ Word(rep, n, s).s = s
  BY DEF Word

\* The words that casts and operators make.
LEMMA ProperForms ==
    /\ \A b : ProperWord(Bit(b))
    /\ \A s : ProperWord(Ptr(s))
    /\ \A n : InRange(n) => ProperWord(Word("i32", n, ""))
    /\ \A n : ProperWord(Word("f64", n, ""))
    /\ \A p : ProperWord(Default(p))
    /\ ProperWord(Garbage)
  <1>2. ASSUME NEW rep, NEW n, NEW s, rep \in {"i1", "i32"} => s = "", rep = "i1" => n \in {0, 1},
               rep = "i32" => InRange(n), rep = "ptr" => n \in {0, 1}
        PROVE  ProperWord(Word(rep, n, s))
    <2>1. PICK w : w = Word(rep, n, s)
      OBVIOUS
    <2>2. w.rep = rep /\ w.n = n /\ w.s = s
      BY <2>1, WordForm
    <2>3. ProperWord(w)
      BY <1>2, <2>1, <2>2 DEF ProperWord
    <2>. QED  BY <2>1, <2>3
  <1>3. \A b : ProperWord(Bit(b))
    BY <1>2 DEF Bit
  <1>4. \A s : ProperWord(Ptr(s))
    BY <1>2 DEF Ptr
  <1>5. \A n : InRange(n) => ProperWord(Word("i32", n, ""))
    BY <1>2
  <1>6. \A n : ProperWord(Word("f64", n, ""))
    BY <1>2
  <1>7. ASSUME NEW p PROVE ProperWord(Default(p))
    <2>1. InRange(0)
      BY MaxIntAssumption DEF InRange
    <2>. QED  BY <1>2, <2>1 DEF Default
  <1>8. ProperWord(Garbage)
    BY <1>2 DEF Garbage
  <1>. QED  BY <1>3, <1>4, <1>5, <1>6, <1>7, <1>8

\* What truncation gives is in range, or nothing is written.
LEMMA ToI32Proper ==
    ASSUME NEW h
    PROVE  ProperWord(ToI32(h))
  BY ProperForms DEF ToI32

\* A cast of a word makes a word.
LEMMA CastWordProper ==
    ASSUME NEW p \in Tags, NEW q \in Tags, NEW w, ProperWord(w), Holds(p, w)
    PROVE  ProperWord(CastWord(p, q, w))
  <1>1. CASE p = q
    BY <1>1 DEF CastWord
  <1>2. CASE p # q /\ p = "undefined"
    BY <1>2, ProperForms DEF CastWord
  <1>3. CASE p # q /\ p # "undefined" /\ w.rep # Rep(p)
    BY <1>3, ProperForms DEF CastWord
  <1>4. CASE p # q /\ p # "undefined" /\ w.rep = Rep(p)
    <2>1. p \in Scalars
      BY <1>4 DEF Tags
    <2>2. CASE q = "string"
      <3>1. CastWord(p, q, w) = ToStringWord(p, w)
        BY <1>4, <2>2 DEF CastWord
      <3>. QED  BY <1>4, <2>1, <2>2, <3>1, ProperForms DEF ToStringWord, Scalars
    <2>3. CASE q = "number"
      <3>1. CastWord(p, q, w) = ToNumberWord(p, w)
        BY <1>4, <2>3 DEF CastWord
      <3>. QED  BY <1>4, <2>1, <2>3, <3>1, ProperForms DEF ToNumberWord, Scalars
    <2>4. CASE q = "i32"
      <3>1. CastWord(p, q, w) = ToI32Word(p, w)
        BY <1>4, <2>4 DEF CastWord
      <3>2. CASE p = "boolean"
        <4>1. w.n \in {0, 1}
          BY <1>4, <3>2 DEF ProperWord, Rep
        <4>2. InRange(w.n)
          BY <4>1, MaxIntAssumption DEF InRange
        <4>. QED  BY <3>1, <3>2, <4>2, ProperForms DEF ToI32Word
      <3>3. CASE p \in {"number", "string"}
        BY <3>1, <3>3, ProperForms, ToI32Proper DEF ToI32Word
      <3>. QED  BY <1>4, <2>1, <2>4, <3>2, <3>3 DEF Scalars
    <2>5. CASE q = "boolean"
      <3>1. CastWord(p, q, w) = ToBooleanWord(p, w)
        BY <1>4, <2>5 DEF CastWord
      <3>. QED  BY <1>4, <2>1, <2>5, <3>1, ProperForms DEF ToBooleanWord, Scalars
    <2>6. CASE q = "undefined"
      BY <1>4, <2>1, <2>6, ProperForms DEF CastWord, Scalars
    <2>. QED  BY <2>2, <2>3, <2>4, <2>5, <2>6 DEF Tags, Scalars
  <1>. QED  BY <1>1, <1>2, <1>3, <1>4

\* What the words that casts make mean.
LEMMA PtrMeans ==
    ASSUME NEW s
    PROVE  Read("string", Ptr(s)) = Str(s)
  <1>1. PICK w : w = Ptr(s)
    OBVIOUS
  <1>2. w.rep = "ptr" /\ w.n = 1 /\ w.s = s
    BY <1>1, WordForm DEF Ptr
  <1>. QED  BY <1>1, <1>2, Readings

\* What a bit means.
LEMMA BitMeans ==
    ASSUME NEW b \in BOOLEAN
    PROVE  Read("boolean", Bit(b)) = Boolean(b)
  <1>1. PICK n : n = IF b THEN 1 ELSE 0
    OBVIOUS
  <1>2. PICK w : w = Word("i1", n, "")
    OBVIOUS
  <1>3. Bit(b) = w
    BY <1>1, <1>2 DEF Bit
  <1>4. w.rep = "i1" /\ w.n = n
    BY <1>2 DEF Word
  <1>5. Read("boolean", w) = Boolean(n = 1)
    BY <1>4, Readings
  <1>. QED  BY <1>1, <1>3, <1>5 DEF Boolean

\* What the words of numbers mean.
LEMMA NumberMeans ==
    ASSUME NEW n
    PROVE  /\ Read("number", Word("f64", n, "")) = Num(n)
           /\ Read("i32", Word("i32", n, "")) = Num(2 * n)
  <1>1. PICK v, w : v = Word("f64", n, "") /\ w = Word("i32", n, "")
    OBVIOUS
  <1>2. v.rep = "f64" /\ v.n = n /\ w.rep = "i32" /\ w.n = n
    BY <1>1 DEF Word
  <1>3. Read("number", v) = Num(n) /\ Read("i32", w) = Num(2 * n)
    BY <1>2, Readings
  <1>. QED  BY <1>1, <1>3

\* What the words of strings that are not null are cast to.
LEMMA StringWords ==
    ASSUME NEW w, w.n = 1
    PROVE  /\ ToNumberWord("string", w) = Word("f64", LeadingNumber(w.s), "")
           /\ ToI32Word("string", w) = ToI32(LeadingNumber(w.s))
           /\ ToBooleanWord("string", w) = Bit(TRUE)
  <1>1. ToNumberWord("string", w) = Word("f64", LeadingNumber(w.s), "")
    BY DEF ToNumberWord
  <1>2. ToI32Word("string", w) = ToI32(LeadingNumber(w.s))
    BY DEF ToI32Word
  <1>3. ToBooleanWord("string", w) = Bit(TRUE)
    <2>1. ToBooleanWord("string", w) = Bit(w.n # 0)
      BY DEF ToBooleanWord
    <2>. QED  BY <2>1 DEF Bit
  <1>. QED  BY <1>1, <1>2, <1>3

\* Where no exception says otherwise, a cast of a word means the conversion of
\* what the word means.
LEMMA CastWordMeans ==
    ASSUME NEW p \in Tags, NEW q \in Tags, NEW w, ProperWord(w),
           w.rep = "f64" => w.n \in Numbers \cup {NaN}, w.rep = "ptr" => w.s \in AllTexts,
           Read(p, w).kind # "garbage", KeepsPlain(p, q, w), Converted(Read(p, w), Kind(q)) # Unknown
    PROVE  Read(q, CastWord(p, q, w)) = Converted(Read(p, w), Kind(q))
  <1>1. CASE p = q
    <2>1. Read(p, w).kind = Kind(q)
      BY <1>1, ReadKind
    <2>2. CastWord(p, q, w) = w
      BY <1>1 DEF CastWord
    <2>. QED  BY <1>1, <2>1, <2>2, ConvertedToItself
  <1>2. CASE p # q /\ p = "undefined"
    <2>1. q = "string"
      BY <1>2 DEF KeepsPlain, Tags, Scalars
    <2>2. CastWord(p, q, w) = Ptr("undefined")
      BY <1>2, <2>1 DEF CastWord
    <2>3. Read(q, CastWord(p, q, w)) = Str("undefined")
      BY <2>1, <2>2, PtrMeans
    <2>4. Converted(Undefined, "string") = Str("undefined")
      BY Kinds, Conversions DEF ToText
    <2>. QED  BY <1>2, <2>1, <2>3, <2>4, Readings DEF Kind
  <1>3. CASE p # q /\ q = "undefined"
    <2>1. Read(p, w).kind \in {"boolean", "number", "string"}
      BY <1>3, ReadKind DEF Kind, Tags, Scalars
    <2>. QED  BY <1>3, <2>1, Conversions DEF Kind
  <1>4. ASSUME p # q, p # "undefined", q # "undefined"
        PROVE  Read(q, CastWord(p, q, w)) = Converted(Read(p, w), Kind(q))
    <2>1. p \in Scalars /\ q \in Scalars /\ w.rep = Rep(p)
      BY <1>4, ReadKind DEF Tags
    <2>2. CASE q = "string"
      <3>1. CastWord(p, q, w) = ToStringWord(p, w)
        BY <1>4, <2>1, <2>2 DEF CastWord
      <3>2. CASE p = "boolean"
        <4>1. Read(p, w) = Boolean(w.n = 1)
          BY <2>1, <3>2, Readings DEF Rep
        <4>2. Converted(Read(p, w), "string") = Str(IF w.n = 1 THEN "true" ELSE "false")
          BY <4>1, BooleanConverted
        <4>3. CastWord(p, q, w) = Ptr(IF w.n = 1 THEN "true" ELSE "false")
          BY <3>1, <3>2 DEF ToStringWord
        <4>. QED  BY <2>2, <4>2, <4>3, PtrMeans DEF Kind
      <3>3. CASE p = "i32"
        <4>1. Read(p, w) = Num(2 * w.n) /\ 2 * w.n # NaN
          BY <2>1, <3>3, Readings, I32IsNumber DEF Rep, ProperWord
        <4>2. Converted(Read(p, w), "string") = Str(NumberText[2 * w.n])
          BY <4>1, NumConverted
        <4>3. CastWord(p, q, w) = Ptr(NumberText[2 * w.n])
          BY <3>1, <3>3 DEF ToStringWord
        <4>. QED  BY <2>2, <4>2, <4>3, PtrMeans DEF Kind
      <3>4. CASE p = "number"
        <4>1. Read(p, w) = Num(w.n) /\ w.n # NaN
          BY <2>1, <2>2, <3>4, Readings DEF Rep, KeepsPlain
        <4>2. Converted(Read(p, w), "string") = Str(NumberText[w.n])
          BY <4>1, NumConverted
        <4>3. CastWord(p, q, w) = Ptr(NumberText[w.n])
          BY <3>1, <3>4, <4>1 DEF ToStringWord
        <4>. QED  BY <2>2, <4>2, <4>3, PtrMeans DEF Kind
      <3>. QED  BY <1>4, <2>1, <2>2, <3>2, <3>3, <3>4 DEF Scalars
    <2>3. CASE q = "number"
      <3>1. CastWord(p, q, w) = ToNumberWord(p, w)
        BY <1>4, <2>1, <2>3 DEF CastWord
      <3>2. CASE p = "boolean"
        <4>1. Read(p, w) = Boolean(w.n = 1) /\ w.n \in {0, 1}
          BY <2>1, <3>2, Readings DEF Rep, ProperWord
        <4>2. Converted(Read(p, w), "number") = Num(2 * (IF w.n = 1 THEN 1 ELSE 0))
          BY <4>1, BooleanConverted
        <4>3. CastWord(p, q, w) = Word("f64", 2 * w.n, "")
          BY <3>1, <3>2 DEF ToNumberWord
        <4>4. w.n = IF w.n = 1 THEN 1 ELSE 0
          BY <4>1
        <4>. QED  BY <2>3, <4>2, <4>3, <4>4, NumberMeans DEF Kind
      <3>3. CASE p = "i32"
        <4>1. Read(p, w) = Num(2 * w.n)
          BY <2>1, <3>3, Readings DEF Rep
        <4>2. CastWord(p, q, w) = Word("f64", 2 * w.n, "")
          BY <3>1, <3>3 DEF ToNumberWord
        <4>. QED  BY <2>3, <4>1, <4>2, NumberMeans, NumConverted DEF Kind
      <3>4. CASE p = "string"
        <4>0. w.n = 1
          BY <3>4, ReadKind
        <4>1. Read(p, w) = Str(w.s)
          BY <2>1, <3>4, <4>0, Readings DEF Rep
        <4>9. w.s \in AllTexts
          BY <2>1, <3>4 DEF Rep
        <4>2. w.s = "" \/ IsNumeral(w.s)
          BY <2>3, <3>4 DEF KeepsPlain
        <4>3. Converted(Read(p, w), "number") = Num(IF w.s = "" THEN 0 ELSE Numeral(w.s))
          BY <4>1, <4>2, StrConverted
        <4>4. CastWord(p, q, w) = Word("f64", LeadingNumber(w.s), "")
          BY <3>1, <3>4, <4>0, StringWords
        <4>5. LeadingNumber(w.s) = IF w.s = "" THEN 0 ELSE Numeral(w.s)
          BY <4>2, <4>9, LeadingNumbers
        <4>. QED  BY <2>3, <4>3, <4>4, <4>5, NumberMeans DEF Kind
      <3>. QED  BY <1>4, <2>1, <2>3, <3>2, <3>3, <3>4 DEF Scalars
    <2>4. CASE q = "i32"
      <3>1. CastWord(p, q, w) = ToI32Word(p, w)
        BY <1>4, <2>1, <2>4 DEF CastWord
      <3>2. CASE p = "boolean"
        <4>1. Read(p, w) = Boolean(w.n = 1) /\ w.n \in {0, 1}
          BY <2>1, <3>2, Readings DEF Rep, ProperWord
        <4>2. Converted(Read(p, w), "number") = Num(2 * (IF w.n = 1 THEN 1 ELSE 0))
          BY <4>1, BooleanConverted
        <4>3. CastWord(p, q, w) = Word("i32", w.n, "")
          BY <3>1, <3>2 DEF ToI32Word
        <4>4. w.n = IF w.n = 1 THEN 1 ELSE 0
          BY <4>1
        <4>. QED  BY <2>4, <4>2, <4>3, <4>4, NumberMeans DEF Kind
      <3>3. CASE p = "number"
        <4>1. Read(p, w) = Num(w.n) /\ WholeI32(w.n) /\ w.n \in Int
          BY <2>1, <2>4, <3>3, Readings, NumbersAssumption DEF Rep, KeepsPlain
        <4>2. CastWord(p, q, w) = Word("i32", Truncated(w.n), "")
          BY <3>1, <3>3, <4>1 DEF ToI32Word, ToI32, WholeI32
        <4>3. 2 * Truncated(w.n) = w.n
          BY <4>1, WholeHalves DEF WholeI32
        <4>. QED  BY <2>4, <4>1, <4>2, <4>3, NumberMeans, NumConverted DEF Kind
      <3>4. CASE p = "string"
        <4>0. w.n = 1
          BY <3>4, ReadKind
        <4>1. Read(p, w) = Str(w.s)
          BY <2>1, <3>4, <4>0, Readings DEF Rep
        <4>9. w.s \in AllTexts
          BY <2>1, <3>4 DEF Rep
        <4>2. (w.s = "" \/ IsNumeral(w.s)) /\ WholeI32(LeadingNumber(w.s))
          BY <2>4, <3>4 DEF KeepsPlain
        <4>3. Converted(Read(p, w), "number") = Num(IF w.s = "" THEN 0 ELSE Numeral(w.s))
          BY <4>1, <4>2, StrConverted
        <4>4. PICK n : n = LeadingNumber(w.s)
          OBVIOUS
        <4>5. n = (IF w.s = "" THEN 0 ELSE Numeral(w.s)) /\ n \in Int
          BY <4>2, <4>4, <4>9, LeadingNumbers, NumeralRead, NumbersAssumption
        <4>6. CastWord(p, q, w) = Word("i32", Truncated(n), "")
          <5>1. ToI32(n) = Word("i32", Truncated(n), "")
            BY <4>2, <4>4 DEF ToI32, WholeI32
          <5>. QED  BY <3>1, <3>4, <4>0, <4>4, <5>1, StringWords
        <4>7. 2 * Truncated(n) = n
          BY <4>2, <4>4, <4>5, WholeHalves DEF WholeI32
        <4>. QED  BY <2>4, <4>3, <4>5, <4>6, <4>7, NumberMeans DEF Kind
      <3>. QED  BY <1>4, <2>1, <2>4, <3>2, <3>3, <3>4 DEF Scalars
    <2>5. CASE q = "boolean"
      <3>1. CastWord(p, q, w) = ToBooleanWord(p, w)
        BY <1>4, <2>1, <2>5 DEF CastWord
      <3>2. CASE p = "i32"
        <4>1. Read(p, w) = Num(2 * w.n) /\ 2 * w.n # NaN /\ w.n \in Int
          BY <2>1, <3>2, Readings, I32IsNumber DEF Rep, ProperWord
        <4>2. Converted(Read(p, w), "boolean") = Boolean(2 * w.n \notin {0, NaN})
          BY <4>1, NumConverted
        <4>3. CastWord(p, q, w) = Bit(w.n # 0)
          BY <3>1, <3>2 DEF ToBooleanWord
        <4>4. (w.n # 0) = (2 * w.n \notin {0, NaN})
          BY <4>1
        <4>. QED  BY <2>5, <4>2, <4>3, <4>4, BitMeans DEF Kind
      <3>3. CASE p = "number"
        <4>1. Read(p, w) = Num(w.n)
          BY <2>1, <3>3, Readings DEF Rep
        <4>2. Converted(Read(p, w), "boolean") = Boolean(w.n \notin {0, NaN})
          BY <4>1, NumConverted
        <4>3. CastWord(p, q, w) = Bit(w.n \notin {0, NaN})
          BY <3>1, <3>3 DEF ToBooleanWord
        <4>. QED  BY <2>5, <4>2, <4>3, BitMeans DEF Kind
      <3>4. CASE p = "string"
        <4>0. w.n = 1 /\ w.s # ""
          BY <2>5, <3>4, ReadKind DEF KeepsPlain
        <4>1. Read(p, w) = Str(w.s)
          BY <2>1, <3>4, <4>0, Readings DEF Rep
        <4>2. Converted(Read(p, w), "boolean") = Boolean(TRUE)
          BY <4>0, <4>1, StrConverted
        <4>3. CastWord(p, q, w) = Bit(TRUE)
          BY <3>1, <3>4, <4>0, StringWords
        <4>. QED  BY <2>5, <4>2, <4>3, BitMeans DEF Kind
      <3>. QED  BY <1>4, <2>1, <2>5, <3>2, <3>3, <3>4 DEF Scalars
    <2>. QED  BY <2>1, <2>2, <2>3, <2>4, <2>5 DEF Scalars
  <1>. QED  BY <1>1, <1>2, <1>3, <1>4

-------------------------------------------------------------------------------
\* Casts

\* A value means what its word is read as by the type typeof tells.
LEMMA MeaningByTag ==
    ASSUME NEW v, WellFormed(v)
    PROVE  Meaning(v) = Read(RuntimeTypeOf(v), v.word)
  <1>1. CASE v.type.shape = "plain"
    BY <1>1 DEF Meaning, RuntimeTypeOf, StaticTypeOf
  <1>2. CASE v.type.shape = "optional"
    BY <1>2, Readings DEF Meaning, RuntimeTypeOf, StaticTypeOf
  <1>3. CASE v.type.shape \in {"union", "any"}
    BY <1>3 DEF Meaning, RuntimeTypeOf
  <1>. QED  BY <1>1, <1>2, <1>3, Shapes DEF WellFormed

\* What the values that are made mean.
LEMMA PlainMeans ==
    ASSUME NEW p, NEW w
    PROVE  /\ Meaning(PlainValue(p, w)) = Read(p, w)
           /\ PlainValue(p, w).word = w
           /\ ProperWord(w) => Proper(PlainValue(p, w))
  <1>1. PICK v : v = PlainValue(p, w)
    OBVIOUS
  <1>2. v.type = Plain(p) /\ v.word = w /\ v.has = TRUE
    BY <1>1 DEF PlainValue, CompiledAs
  <1>3. v.type.shape = "plain" /\ Elem(v.type) = p
    BY <1>2, Forms
  <1>4. Meaning(v) = Read(p, w)
    BY <1>2, <1>3 DEF Meaning
  <1>5. ProperWord(w) => Proper(v)
    BY <1>2 DEF Proper
  <1>. QED  BY <1>1, <1>2, <1>4, <1>5

\* What an optional with a value and one without mean.
LEMMA OptionalMeans ==
    ASSUME NEW p, NEW w
    PROVE  /\ Meaning(Some(p, w)) = Read(p, w) /\ (ProperWord(w) => Proper(Some(p, w)))
           /\ Meaning(Missing(p)) = Undefined /\ Proper(Missing(p))
  <1>1. PICK v, u : v = Some(p, w) /\ u = Missing(p)
    OBVIOUS
  <1>2. /\ v.type = Optional(p) /\ v.word = w /\ v.has = TRUE
        /\ u.type = Optional(p) /\ u.word = Default(p) /\ u.has = FALSE
    BY <1>1 DEF Some, Missing, CompiledAs
  <1>3. v.type.shape = "optional" /\ u.type.shape = "optional" /\ Elem(v.type) = p
    BY <1>2, Forms
  <1>4. Meaning(v) = Read(p, w) /\ Meaning(u) = Undefined
    BY <1>2, <1>3 DEF Meaning
  <1>5. (ProperWord(w) => Proper(v)) /\ Proper(u)
    BY <1>2, ProperForms DEF Proper
  <1>. QED  BY <1>1, <1>4, <1>5

\* A value u of type T with a tag and a word.
Tagged(u, T, tag, w) == u.type = T /\ u.tag = tag /\ u.word = w /\ u.has = TRUE

\* What a union or a box means.
LEMMA TaggedMeans ==
    ASSUME NEW T, T.shape \in {"union", "any"}, NEW tag, NEW w, NEW u, Tagged(u, T, tag, w)
    PROVE  Meaning(u) = Read(tag, w) /\ RuntimeTypeOf(u) = tag /\ (ProperWord(w) => Proper(u))
  BY DEF Meaning, RuntimeTypeOf, Tagged, Proper

\* A box and a union are made of the tag and the word of a value.
LEMMA LowerTagged ==
    ASSUME NEW v, NEW T \in Types, T.shape \in {"union", "any"}, v.type # T
    PROVE  Tagged(Lower(v, T), T, IF T.shape = "union" THEN RuntimeTypeOf(v)
                                 ELSE IF v.type.shape = "union" THEN v.tag ELSE Elem(v.type), v.word)
  <1>1. CASE T.shape = "any"
    <2>1. T = AnyType /\ Lower(v, T) = Box(v)
      BY <1>1, Shapes, Forms DEF Lower
    <2>. QED  BY <1>1, <2>1 DEF Box, CompiledAs, Tagged, StaticTypeOf
  <1>2. CASE T.shape = "union"
    <2>1. Lower(v, T) = CreateUnionInstance(v, T)
      BY <1>2, Forms DEF Lower
    <2>. QED  BY <1>2, <2>1 DEF CreateUnionInstance, CompiledAs, Tagged
  <1>. QED  BY <1>1, <1>2

\* The word of an optional's value.
LEMMA OptionalWord ==
    ASSUME NEW v
    PROVE  ValueOrDefault(v).word = IF v.has THEN v.word ELSE Default(Elem(v.type))
  BY PlainMeans DEF ValueOrDefault

\* The words that a cast makes are words of values.
LEMMA LowerProper ==
    ASSUME NEW v, WellFormed(v), Proper(v), NEW T \in Types, T.shape # "optional", v.type # T,
           v.type.shape = "any" => T.shape # "plain"
    PROVE  Proper(Lower(v, T))
  <1>0. v.type \in Types /\ ProperWord(v.word)
    BY DEF WellFormed, Proper
  <1>1. CASE T.shape \in {"any", "union"}
    <2>1. PICK tag : Tagged(Lower(v, T), T, tag, v.word)
      BY <1>1, LowerTagged
    <2>. QED  BY <1>0, <1>1, <2>1, TaggedMeans
  <1>3. CASE T.shape = "plain"
    <2>1. PICK q \in Tags : T = Plain(q) /\ Elem(T) = q
      BY <1>3, Shapes, Forms
    <2>2. CASE v.type.shape = "union"
      <3>1. Lower(v, T) = PlainValue(q, ReadAs(q, v.word))
        BY <1>3, <2>1, <2>2 DEF Lower
      <3>2. ProperWord(ReadAs(q, v.word))
        BY <1>0, ProperForms DEF ReadAs
      <3>. QED  BY <3>1, <3>2, PlainMeans
    <2>3. CASE v.type.shape = "plain"
      <3>1. Lower(v, T) = PlainValue(q, CastWord(Elem(v.type), q, v.word))
        BY <1>3, <2>1, <2>3 DEF Lower
      <3>2. Elem(v.type) \in Tags /\ Holds(Elem(v.type), v.word)
        BY <1>0, <2>3, ElemTag DEF WellFormed
      <3>. QED  BY <1>0, <3>1, <3>2, CastWordProper, PlainMeans
    <2>4. CASE v.type.shape = "optional" /\ T = Plain("boolean")
      <3>1. Lower(v, T) = OptionalToBoolean(v)
        BY <1>3, <2>4 DEF Lower
      <3>2. Elem(v.type) \in Tags /\ Holds(Elem(v.type), v.word) /\ "boolean" \in Tags
        BY <2>4, ValueOfOptional DEF Tags, Scalars
      <3>3. PICK w : w = IF ~v.has THEN Bit(FALSE) ELSE CastWord(Elem(v.type), "boolean", v.word)
        OBVIOUS
      <3>4. ProperWord(w)
        <4>1. ProperWord(CastWord(Elem(v.type), "boolean", v.word)) /\ ProperWord(Bit(FALSE))
          BY <1>0, <3>2, CastWordProper, ProperForms
        <4>. QED  BY <3>3, <4>1
      <3>5. Lower(v, T) = PlainValue("boolean", w)
        BY <3>1, <3>3 DEF OptionalToBoolean
      <3>. QED  BY <3>4, <3>5, PlainMeans
    <2>5. CASE v.type.shape = "optional" /\ T # Plain("boolean")
      <3>1. Lower(v, T) = PlainValue(q, CastWord(Elem(v.type), q, ValueOrDefault(v).word))
        BY <1>3, <2>1, <2>5 DEF Lower
      <3>2. Elem(v.type) \in Tags /\ Holds(Elem(v.type), ValueOrDefault(v).word)
        BY <2>5, ValueOfOptional DEF Tags
      <3>3. ProperWord(ValueOrDefault(v).word)
        BY <1>0, OptionalWord, ProperForms
      <3>4. ProperWord(CastWord(Elem(v.type), q, ValueOrDefault(v).word))
        BY <3>2, <3>3, CastWordProper
      <3>. QED  BY <3>1, <3>4, PlainMeans
    <2>. QED  BY <1>0, <1>3, <2>2, <2>3, <2>4, <2>5, Shapes
  <1>. QED  BY <1>1, <1>3, Shapes

\* A cast means what the language makes of its operand, but for the exceptions.
LEMMA LowerMeans ==
    ASSUME NEW v, WellFormed(v), Proper(v), NEW T \in Types, T.shape # "optional", v.type # T,
           v.type.shape = "any" => T.shape # "plain", T.shape = "plain" => Fits(v),
           Initialised(v), Keeps(v, T), Coerce(Meaning(v), T) # Unknown
    PROVE  Meaning(Lower(v, T)) = Coerce(Meaning(v), T)
  <1>0. v.type \in Types /\ ProperWord(v.word)
    BY DEF WellFormed, Proper
  <1>1. Meaning(v) = Read(RuntimeTypeOf(v), v.word) /\ RuntimeTypeOf(v) \in Tags
    BY MeaningByTag, RuntimeTag
  <1>2. CASE T.shape = "any"
    <2>1. T = AnyType
      BY <1>2, Shapes
    <2>2. PICK tag : tag = IF v.type.shape = "union" THEN v.tag ELSE Elem(v.type)
      OBVIOUS
    <2>3. Tagged(Lower(v, T), T, tag, v.word)
      BY <1>2, <2>2, LowerTagged
    <2>4. tag = RuntimeTypeOf(v)
      <3>1. ~(v.type.shape = "optional" /\ ~v.has)
        BY <1>2 DEF Keeps
      <3>2. v.type.shape # "any"
        BY <1>0, <2>1, Shapes
      <3>. QED  BY <1>0, <2>2, <3>1, <3>2, Shapes DEF RuntimeTypeOf, StaticTypeOf
    <2>5. Coerce(Meaning(v), T) = Meaning(v)
      BY <1>2 DEF Coerce
    <2>. QED  BY <1>1, <1>2, <2>3, <2>4, <2>5, TaggedMeans
  <1>3. CASE T.shape = "union"
    <2>1. Tagged(Lower(v, T), T, RuntimeTypeOf(v), v.word)
      BY <1>3, LowerTagged
    <2>2. Coerce(Meaning(v), T) = Meaning(v)
      BY <1>3 DEF Coerce
    <2>. QED  BY <1>1, <1>3, <2>1, <2>2, TaggedMeans
  <1>4. CASE T.shape = "plain"
    <2>1. PICK q \in Tags : T = Plain(q) /\ Elem(T) = q /\ T.of = {q}
      BY <1>4, Shapes, Forms
    <2>2. Fits(v) /\ Coerce(Meaning(v), T) = Converted(Meaning(v), Kind(q))
      BY <1>4, <2>1 DEF Coerce
    <2>3. CASE v.type.shape = "union"
      <3>1. Lower(v, T) = PlainValue(q, ReadAs(q, v.word))
        BY <1>4, <2>1, <2>3 DEF Lower
      <3>2. v.tag = q /\ RuntimeTypeOf(v) = q
        BY <1>4, <2>1, <2>3 DEF Keeps, RuntimeTypeOf
      <3>3. Meaning(v).kind = Kind(q) /\ (q # "undefined" => v.word.rep = Rep(q))
        BY <1>1, <3>2, ReadKind DEF Initialised
      <3>4. Read(q, ReadAs(q, v.word)) = Read(q, v.word)
        BY <3>3, Readings DEF ReadAs
      <3>. QED  BY <1>1, <2>2, <3>1, <3>2, <3>3, <3>4, PlainMeans, ConvertedToItself
    <2>4. CASE v.type.shape = "plain"
      <3>1. Lower(v, T) = PlainValue(q, CastWord(Elem(v.type), q, v.word))
        BY <1>4, <2>1, <2>4 DEF Lower
      <3>2. PICK p \in Tags : p = Elem(v.type) /\ RuntimeTypeOf(v) = p
        BY <1>0, <2>4, ElemTag DEF RuntimeTypeOf, StaticTypeOf
      <3>3. KeepsPlain(p, q, v.word)
        BY <1>4, <2>1, <2>4, <3>2 DEF Keeps
      <3>4. Read(q, CastWord(p, q, v.word)) = Converted(Read(p, v.word), Kind(q))
        BY <1>0, <1>1, <2>2, <3>2, <3>3, CastWordMeans DEF Initialised, Fits
      <3>. QED  BY <1>1, <2>2, <3>1, <3>2, <3>4, PlainMeans
    <2>5. CASE v.type.shape = "optional" /\ v.has
      <3>1. PICK p \in Tags : p = Elem(v.type) /\ RuntimeTypeOf(v) = p
        BY <1>0, <2>5, ElemTag DEF RuntimeTypeOf, StaticTypeOf
      <3>2. Lower(v, T) = PlainValue(q, CastWord(p, q, v.word))
        <4>1. CASE T = Plain("boolean")
          <5>1. q = "boolean"
            BY <2>1, <4>1, Forms
          <5>. QED  BY <1>4, <2>5, <3>1, <4>1, <5>1 DEF Lower, OptionalToBoolean
        <4>2. CASE T # Plain("boolean")
          <5>1. ValueOrDefault(v).word = v.word
            BY <2>5, OptionalWord
          <5>. QED  BY <1>4, <2>1, <2>5, <3>1, <4>2, <5>1 DEF Lower
        <4>. QED  BY <4>1, <4>2
      <3>3. KeepsPlain(p, q, v.word)
        BY <1>4, <2>1, <2>5, <3>1 DEF Keeps
      <3>4. Read(q, CastWord(p, q, v.word)) = Converted(Read(p, v.word), Kind(q))
        BY <1>0, <1>1, <2>2, <3>1, <3>3, CastWordMeans DEF Initialised, Fits
      <3>. QED  BY <1>1, <2>2, <3>1, <3>2, <3>4, PlainMeans
    <2>6. CASE v.type.shape = "optional" /\ ~v.has
      <3>1. T = Plain("boolean") /\ q = "boolean"
        BY <1>4, <2>1, <2>6, Forms DEF Keeps
      <3>2. Lower(v, T) = PlainValue("boolean", Bit(FALSE))
        BY <1>4, <2>6, <3>1 DEF Lower, OptionalToBoolean
      <3>3. Meaning(v) = Undefined
        BY <2>6 DEF Meaning
      <3>4. Converted(Undefined, "boolean") = Boolean(FALSE)
        BY Kinds, Conversions DEF Truthy
      <3>5. Read("boolean", Bit(FALSE)) = Boolean(FALSE)
        BY BitMeans
      <3>. QED  BY <2>2, <3>1, <3>2, <3>3, <3>4, <3>5, PlainMeans DEF Kind
    <2>. QED  BY <1>0, <1>4, <2>3, <2>4, <2>5, <2>6, Shapes
  <1>. QED  BY <1>2, <1>3, <1>4, Shapes

\* A conversion makes no value of something that is none, nor something
\* of what nothing is known of.
LEMMA ConvertedKinds ==
    ASSUME NEW v, NEW kind
    PROVE  /\ v.kind # "garbage" => Converted(v, kind).kind # "garbage"
           /\ v = Unknown => Converted(v, kind) = Unknown
  <1>1. v = Unknown => Converted(v, kind) = Unknown
    BY Kinds, ConvertedToItself
  <1>2. Converted(v, kind) \in {v, Boolean(Truthy(v)), Num(ToNumber(v)), Str(ToText(v)), Unknown}
    BY DEF Converted
  <1>3. ASSUME v.kind # "garbage"
        PROVE  Converted(v, kind).kind # "garbage"
    BY <1>2, <1>3, Kinds
  <1>. QED  BY <1>1, <1>3

\* Neither does a coercion.
LEMMA CoerceKinds ==
    ASSUME NEW v, NEW T, T.shape \in {"plain", "union", "any"}
    PROVE  /\ v.kind # "garbage" => Coerce(v, T).kind # "garbage"
           /\ v = Unknown => Coerce(v, T) = Unknown
  BY ConvertedKinds DEF Coerce

\* A value of a type is coerced to that type as it is.
LEMMA CoerceToItself ==
    ASSUME NEW v, WellFormed(v), Initialised(v), v.type.shape \in {"plain", "union", "any"}
    PROVE  Coerce(Meaning(v), v.type) = Meaning(v)
  <1>1. CASE v.type.shape \in {"union", "any"}
    BY <1>1 DEF Coerce
  <1>2. CASE v.type.shape = "plain"
    <2>1. PICK p \in Tags : p = Elem(v.type)
      BY <1>2, ElemTag DEF WellFormed
    <2>2. Meaning(v) = Read(p, v.word)
      BY <1>2, <2>1 DEF Meaning
    <2>3. Meaning(v).kind = Kind(p)
      BY <2>2, ReadKind DEF Initialised
    <2>4. Converted(Meaning(v), Kind(p)) = Meaning(v)
      BY <2>3, ConvertedToItself
    <2>. QED  BY <1>2, <2>1, <2>4 DEF Coerce
  <1>. QED  BY <1>1, <1>2

\* A value that is made an expression.
LEMMA MadeSound ==
    ASSUME NEW v, NEW js, WellFormed(v), Proper(v), js # Unknown => Meaning(v) = js /\ Initialised(v)
    PROVE  Sound(Made(v, js)) /\ Made(v, js).val = v /\ Made(v, js).js = js
  <1>1. PICK e : e = Made(v, js)
    OBVIOUS
  <1>2. e.val = v /\ e.js = js
    BY <1>1 DEF Made
  <1>3. Expression(e)
    BY <1>1, MadeExpression
  <1>4. Sound(e)
    BY <1>2, <1>3 DEF Sound
  <1>. QED  BY <1>1, <1>2, <1>4

\* What is known of a cast is what the language makes of its operand.
LEMMA CastOpSound ==
    ASSUME NEW e, Sound(e), NEW T \in Types, T.shape # "optional", e.val.type # T, T.shape = "plain" => Fits(e.val),
           e.val.type = AnyType => T.shape # "plain", NEW c \in CastOp(e, T)
    PROVE  Sound(c) /\ (c.js # Unknown => e.js # Unknown /\ c.js = Coerce(e.js, T))
  <1>1. PICK v, js : v = Lower(e.val, T) /\ js = IF Keeps(e.val, T) THEN Coerce(e.js, T) ELSE Unknown
    OBVIOUS
  <1>2. c = Made(v, js)
    BY <1>1 DEF CastOp
  <1>3. /\ WellFormed(e.val) /\ Proper(e.val) /\ T.shape \in {"plain", "union", "any"}
        /\ e.val.type.shape = "any" => T.shape # "plain"
    BY Shapes DEF Sound, Expression, WellFormed
  <1>4. WellFormed(v) /\ Proper(v)
    BY <1>1, <1>3, LowerWellFormed, LowerProper
  <1>5. ASSUME js # Unknown
        PROVE  /\ e.js # Unknown /\ js = Coerce(e.js, T)
               /\ Meaning(v) = js /\ Initialised(v)
    <2>1. js = Coerce(e.js, T) /\ Keeps(e.val, T)
      BY <1>1, <1>5
    <2>2. e.js # Unknown
      <3>1. e.js = Unknown => Coerce(e.js, T) = Unknown
        BY <1>3, CoerceKinds
      <3>. QED  BY <1>5, <2>1, <3>1
    <2>3. Meaning(e.val) = e.js /\ Initialised(e.val)
      BY <2>2 DEF Sound
    <2>4. Coerce(Meaning(e.val), T) = js
      BY <2>1, <2>3
    <2>5. Meaning(v) = js
      BY <1>1, <1>3, <1>5, <2>1, <2>3, <2>4, LowerMeans
    <2>6. js.kind # "garbage"
      BY <1>3, <2>3, <2>4, CoerceKinds DEF Initialised
    <2>. QED  BY <2>1, <2>2, <2>5, <2>6 DEF Initialised
  <1>6. Sound(c) /\ c.js = js
    BY <1>2, <1>4, <1>5, MadeSound
  <1>. QED  BY <1>5, <1>6

\* A boxed value is unboxed by the tags that __as knows.
LEMMA AsSound ==
    ASSUME NEW e, Sound(e), Fits(e.val), e.val.type = AnyType, NEW p \in Tags, NEW c \in As(e, p)
    PROVE  Sound(c) /\ (c.js # Unknown => e.js # Unknown /\ c.js = Converted(e.js, Kind(p)))
  <1>1. WellFormed(e.val) /\ Proper(e.val) /\ e.val.type.shape = "any" /\ ProperWord(e.val.word)
    BY Forms DEF Sound, Expression, Proper
  <1>2. CASE e.val.tag \in {"number", "string", "i32"}
    <2>1. PICK tag, w : tag = e.val.tag /\ w = e.val.word
      OBVIOUS
    <2>2. tag \in Tags /\ Holds(tag, w) /\ ProperWord(w)
      BY <1>1, <1>2, <2>1 DEF WellFormed
    <2>3. PICK js : js = IF KeepsPlain(tag, p, w) THEN Converted(e.js, Kind(p)) ELSE Unknown
      OBVIOUS
    <2>4. Coerce(e.js, Plain(p)) = Converted(e.js, Kind(p))
      BY Forms DEF Coerce
    <2>5. c = Made(PlainValue(p, CastWord(tag, p, w)), js)
      BY <1>2, <2>1, <2>3, <2>4 DEF As
    <2>6. ProperWord(CastWord(tag, p, w)) /\ Holds(p, CastWord(tag, p, w))
      BY <2>2, CastWordProper, CastWordHolds
    <2>7. PICK v : v = PlainValue(p, CastWord(tag, p, w))
      OBVIOUS
    <2>8. Proper(v) /\ WellFormed(v) /\ Meaning(v) = Read(p, CastWord(tag, p, w))
      BY <2>6, <2>7, PlainMeans, PlainWellFormed
    <2>9. ASSUME js # Unknown
          PROVE  e.js # Unknown /\ js = Converted(e.js, Kind(p)) /\ Meaning(v) = js /\ Initialised(v)
      <3>1. js = Converted(e.js, Kind(p)) /\ KeepsPlain(tag, p, w)
        BY <2>3, <2>9
      <3>2. e.js # Unknown
        BY <2>9, <3>1, ConvertedKinds
      <3>3. e.js = Read(tag, w) /\ e.js.kind # "garbage"
        BY <1>1, <2>1, <3>2 DEF Sound, Meaning, Initialised
      <3>4. Read(p, CastWord(tag, p, w)) = js
        BY <2>1, <2>2, <2>9, <3>1, <3>3, CastWordMeans DEF Fits
      <3>5. js.kind # "garbage"
        BY <3>1, <3>3, ConvertedKinds
      <3>. QED  BY <2>8, <3>1, <3>2, <3>4, <3>5 DEF Initialised
    <2>10. Sound(c) /\ c.js = js
      BY <2>5, <2>7, <2>8, <2>9, MadeSound
    <2>. QED  BY <2>9, <2>10
  <1>3. CASE e.val.tag \notin {"number", "string", "i32"}
    <2>1. c = Made(PlainValue(p, Default(p)), Unknown)
      BY <1>3 DEF As
    <2>2. PICK v : v = PlainValue(p, Default(p))
      OBVIOUS
    <2>3. Proper(v) /\ WellFormed(v)
      BY <2>2, PlainMeans, PlainWellFormed, ReadAsHolds, ProperForms
    <2>. QED  BY <2>1, <2>2, <2>3, MadeSound
  <1>. QED  BY <1>2, <1>3

\* A cast to a plain type.
LEMMA CastPlainSound ==
    ASSUME NEW e, Sound(e), Fits(e.val), NEW p \in Tags, NEW c \in CastPlain(e, p)
    PROVE  Sound(c) /\ (c.js # Unknown => e.js # Unknown /\ c.js = Converted(e.js, Kind(p)))
  <1>1. Plain(p) \in Types /\ Plain(p).shape = "plain" /\ Elem(Plain(p)) = p
    BY Forms DEF Types
  <1>2. \A js : Coerce(js, Plain(p)) = Converted(js, Kind(p))
    BY <1>1 DEF Coerce
  <1>3. CASE e.val.type = Plain(p)
    <2>1. c = e
      BY <1>3 DEF CastPlain
    <2>2. WellFormed(e.val)
      BY DEF Sound, Expression
    <2>3. e.js # Unknown => Coerce(e.js, Plain(p)) = e.js
      BY <1>1, <1>3, <2>2, CoerceToItself DEF Sound
    <2>. QED  BY <1>2, <2>1, <2>3
  <1>4. CASE e.val.type # Plain(p) /\ e.val.type = AnyType
    BY <1>4, AsSound DEF CastPlain
  <1>5. CASE e.val.type # Plain(p) /\ e.val.type # AnyType
    <2>1. c \in CastOp(e, Plain(p))
      BY <1>5 DEF CastPlain
    <2>. QED  BY <1>1, <1>2, <1>5, <2>1, CastOpSound
  <1>. QED  BY <1>3, <1>4, <1>5

\* A cast means what the language makes of what is cast, as far as that is known.
LEMMA CastSound ==
    ASSUME NEW e, Sound(e), Fits(e.val), NEW T \in Types \cup {Outside}, NEW c \in Cast(e, T)
    PROVE  /\ Sound(c)
           /\ T.shape = "plain" /\ c.js # Unknown => e.js # Unknown /\ c.js = Converted(e.js, Kind(Elem(T)))
  <1>0. e.val.type \in Types /\ WellFormed(e.val)
    BY DEF Sound, Expression, WellFormed
  <1>1. CASE e.val.type = T
    <2>1. c = e
      BY <1>0, <1>1, Shapes, Forms DEF Cast
    <2>2. T.shape = "plain" /\ e.js # Unknown => Coerce(e.js, T) = e.js
      BY <1>0, <1>1, CoerceToItself DEF Sound
    <2>. QED  BY <2>1, <2>2 DEF Coerce
  <1>2. CASE e.val.type # T /\ T.shape = "optional"
    <2>1. PICK p \in Scalars : T = Optional(p)
      BY <1>2, Shapes, Forms
    <2>2. Elem(T) = p /\ p \in Tags
      BY <2>1, Forms DEF Tags
    <2>3. CASE e.val.type = UndefinedType
      <3>1. c = Made(Missing(p), e.js)
        BY <1>2, <2>2, <2>3 DEF Cast
      <3>2. PICK v : v = Missing(p)
        OBVIOUS
      <3>3. WellFormed(v) /\ Proper(v) /\ Meaning(v) = Undefined
        BY <2>1, <3>2, ReadAsHolds, OptionalWellFormed, OptionalMeans
      <3>4. e.js # Unknown => Undefined = e.js
        <4>1. Meaning(e.val) = Undefined
          <5>1. e.val.type.shape = "plain" /\ Elem(e.val.type) = "undefined"
            BY <2>3, Forms DEF UndefinedType
          <5>. QED  BY <5>1, Readings DEF Meaning
        <4>. QED  BY <4>1 DEF Sound
      <3>5. Initialised(v)
        BY <3>3, Kinds DEF Initialised
      <3>6. Sound(c)
        BY <3>1, <3>2, <3>3, <3>4, <3>5, MadeSound
      <3>. QED  BY <1>2, <3>6
    <2>4. CASE e.val.type # UndefinedType
      <3>1. PICK d \in CastPlain(e, p) : c = Made(Some(p, d.val.word), d.js)
        BY <1>2, <2>2, <2>4 DEF Cast
      <3>2. PICK w, v : w = d.val.word /\ v = Some(p, w)
        OBVIOUS
      <3>3. Sound(d) /\ d.val.type = Plain(p)
        BY <2>2, CastPlainSound, CastPlainExpression DEF Sound
      <3>4. Holds(p, w) /\ ProperWord(w) /\ Meaning(d.val) = Read(p, w)
        BY <3>2, <3>3, Forms DEF Sound, Expression, WellFormed, Proper, Meaning
      <3>5. WellFormed(v) /\ Proper(v) /\ Meaning(v) = Read(p, w)
        BY <2>1, <3>2, <3>4, OptionalWellFormed, OptionalMeans
      <3>6. d.js # Unknown => Meaning(v) = d.js /\ Initialised(v)
        BY <3>3, <3>4, <3>5 DEF Sound, Initialised
      <3>7. Sound(c)
        BY <3>1, <3>2, <3>5, <3>6, MadeSound
      <3>. QED  BY <1>2, <3>7
    <2>. QED  BY <2>3, <2>4
  <1>3. CASE e.val.type # T /\ T.shape = "plain"
    <2>1. PICK p \in Tags : T = Plain(p) /\ Elem(T) = p
      BY <1>3, Shapes, Forms
    <2>2. c \in CastPlain(e, p)
      BY <1>3, <2>1 DEF Cast
    <2>. QED  BY <2>1, <2>2, CastPlainSound
  <1>4. CASE e.val.type # T /\ T.shape = "any"
    <2>1. c \in CastOp(e, T) /\ T \in Types
      BY <1>4, Forms DEF Cast
    <2>. QED  BY <1>4, <2>1, CastOpSound
  <1>5. CASE e.val.type # T /\ T.shape = "union"
    <2>1. PICK d \in AsMember(e, T) : c \in CastOp(d, T)
      BY <1>5, Forms DEF Cast
    <2>2. T \in Types
      BY <1>5, Forms
    <2>3. Expression(e)
      BY DEF Sound
    <2>4. d.val.type # T
      <3>1. d = e \/ \E p : d.val.type = Plain(p)
        BY <1>5, <2>1, <2>2, <2>3, AsMemberExpression
      <3>. QED  BY <1>5, <3>1, Forms
    <2>5. Sound(d)
      <3>1. CASE d = e
        BY <3>1
      <3>2. CASE d # e
        <4>1. PICK p \in T.of : d \in CastPlain(e, p)
          BY <2>1, <3>2 DEF AsMember
        <4>2. p \in Tags
          BY <1>5, <2>2, <4>1, Shapes DEF Tags
        <4>. QED  BY <4>1, <4>2, CastPlainSound
      <3>. QED  BY <3>1, <3>2
    <2>. QED  BY <1>5, <2>1, <2>2, <2>4, <2>5, CastOpSound
  <1>6. CASE T = Outside
    BY <1>0, <1>6, Shapes, Forms DEF Cast
  <1>. QED  BY <1>1, <1>2, <1>3, <1>4, <1>5, <1>6, Shapes

-------------------------------------------------------------------------------
\* Operators

\* A boolean that is made of a bit.
LEMMA BooleanSound ==
    ASSUME NEW b \in BOOLEAN, NEW js, js # Unknown => js = Boolean(b)
    PROVE  Sound(BooleanMade(b, js))
  <1>1. PICK v : v = PlainValue("boolean", Bit(b))
    OBVIOUS
  <1>2. Meaning(v) = Boolean(b) /\ Proper(v)
    BY <1>1, PlainMeans, BitMeans, ProperForms
  <1>3. WellFormed(v)
    <2>1. Holds("boolean", Bit(b)) /\ "boolean" \in Tags
      BY DEF Holds, Bit, Word, Rep, Tags, Scalars
    <2>. QED  BY <1>1, <2>1, PlainWellFormed
  <1>4. Initialised(v)
    BY <1>2, Kinds DEF Initialised
  <1>5. Sound(Made(v, js))
    BY <1>2, <1>3, <1>4, MadeSound
  <1>. QED  BY <1>1, <1>5 DEF BooleanMade

\* The bit an expression is cast to is whether the language takes it for true.
LEMMA TruthSound ==
    ASSUME NEW e, Sound(e), Fits(e.val), NEW c \in Cast(e, BooleanType), c.js # Unknown,
           NEW b \in Truth(c.val.word)
    PROVE  e.js # Unknown /\ b = Truthy(e.js)
  <1>1. BooleanType \in Types /\ BooleanType.shape = "plain" /\ Elem(BooleanType) = "boolean"
    BY Forms DEF BooleanType, Types, Tags, Scalars
  <1>2. Sound(c) /\ e.js # Unknown /\ c.js = Converted(e.js, "boolean")
    BY <1>1, CastSound DEF Kind
  <1>3. c.val.type = BooleanType
    BY <1>1, CastExpression DEF Sound
  <1>4. PICK w : w = c.val.word
    OBVIOUS
  <1>5. c.js = Read("boolean", w) /\ Read("boolean", w).kind # "garbage" /\ ProperWord(w)
    BY <1>1, <1>2, <1>3, <1>4 DEF Sound, Meaning, Initialised, Proper
  <1>6. w.rep = "i1" /\ c.js = Boolean(w.n = 1)
    <2>1. w.rep = "i1"
      BY <1>5, ReadKind DEF Rep, Tags, Scalars
    <2>. QED  BY <1>5, <2>1, Readings
  <1>7. Truth(w) = {w.n = 1}
    <2>1. w.n \in {0, 1}
      BY <1>5, <1>6 DEF ProperWord
    <2>2. Truth(w) = {w.n # 0}
      BY <1>6 DEF Truth
    <2>. QED  BY <2>1, <2>2
  <1>8. PICK t \in BOOLEAN : t = (w.n = 1)
    OBVIOUS
  <1>9. Converted(e.js, "boolean") = Boolean(t)
    BY <1>2, <1>6, <1>8
  <1>10. Truthy(e.js) = t
    <2>1. CASE e.js.kind \in {"boolean", "unknown"}
      <3>1. e.js = Boolean(t)
        BY <1>9, <2>1, ConvertedToItself
      <3>2. e.js.kind = "boolean" /\ e.js.n = IF t THEN 1 ELSE 0
        BY <3>1, Kinds
      <3>. QED  BY <3>2 DEF Truthy
    <2>2. CASE e.js.kind \notin {"boolean", "unknown"}
      <3>1. Converted(e.js, "boolean") = Boolean(Truthy(e.js))
        BY <2>2 DEF Converted
      <3>2. Truthy(e.js) \in BOOLEAN
        BY DEF Truthy
      <3>3. Boolean(Truthy(e.js)).n = Boolean(t).n
        BY <1>9, <3>1
      <3>. QED  BY <3>2, <3>3, Kinds
    <2>. QED  BY <2>1, <2>2
  <1>. QED  BY <1>2, <1>4, <1>7, <1>8, <1>10

\* What is known in spite of others.
LEMMA KnownOf ==
    ASSUME NEW js, NEW S, Known(js, S) # Unknown
    PROVE  Known(js, S) = js /\ Unknown \notin S
  BY DEF Known

\* !e
LEMMA NotSound ==
    ASSUME NEW e, Sound(e), Fits(e.val), NEW z \in Not(e)
    PROVE  Sound(z)
  <1>1. PICK c, b : /\ c \in Cast(e, BooleanType) /\ b \in Truth(c.val.word)
                    /\ z = BooleanMade(~b, Known(Boolean(~Truthy(e.js)), {c.js}))
    BY DEF Not
  <1>2. PICK js : js = Known(Boolean(~Truthy(e.js)), {c.js})
    OBVIOUS
  <1>3. PICK d \in BOOLEAN : d = ~b
    OBVIOUS
  <1>4. ASSUME js # Unknown PROVE js = Boolean(d)
    <2>1. js = Boolean(~Truthy(e.js)) /\ c.js # Unknown
      BY <1>2, <1>4, KnownOf
    <2>2. b = Truthy(e.js)
      BY <1>1, <2>1, TruthSound
    <2>. QED  BY <1>3, <2>1, <2>2
  <1>5. z = BooleanMade(d, js)
    BY <1>1, <1>2, <1>3
  <1>. QED  BY <1>4, <1>5, BooleanSound

\* typeof e == p
LEMMA TypeOfSound ==
    ASSUME NEW e, Sound(e), NEW p \in Scalars, NEW z \in TypeOfIs(e, p)
    PROVE  Sound(z)
  <1>1. PICK name : name = RuntimeTypeOf(e.val)
    OBVIOUS
  <1>2. PICK js : js = IF "i32" \in {name, p} THEN Unknown ELSE Known(Boolean(e.js.kind = p), {e.js})
    OBVIOUS
  <1>3. PICK b \in BOOLEAN : b = (name = p)
    OBVIOUS
  <1>4. ASSUME js # Unknown PROVE js = Boolean(b)
    <2>1. name # "i32" /\ js = Boolean(e.js.kind = p) /\ e.js # Unknown
      BY <1>2, <1>4, KnownOf
    <2>2. WellFormed(e.val) /\ Meaning(e.val) = e.js /\ Initialised(e.val)
      BY <2>1 DEF Sound, Expression
    <2>3. name \in Tags /\ e.js = Read(name, e.val.word) /\ e.js.kind # "garbage"
      BY <1>1, <2>2, MeaningByTag, RuntimeTag DEF Initialised
    <2>4. e.js.kind = name
      BY <2>1, <2>3, ReadKind DEF Kind
    <2>. QED  BY <1>3, <2>1, <2>4
  <1>5. z = BooleanMade(b, js)
    BY <1>1, <1>2, <1>3 DEF TypeOfIs
  <1>. QED  BY <1>4, <1>5, BooleanSound

\* One of two operands that were cast to one type.
LEMMA EitherSound ==
    ASSUME NEW c, Sound(c), NEW js, js # Unknown => js = c.js
    PROVE  Sound(Made(c.val, js))
  BY MadeSound DEF Sound, Expression

\* +e
LEMMA PlusSound ==
    ASSUME NEW e, Sound(e), Fits(e.val), NEW z \in UnaryPlus(e)
    PROVE  Sound(z)
  <1>1. CASE e.val.type \in {Plain("i32"), Plain("number")}
    BY <1>1, EitherSound DEF UnaryPlus
  <1>2. CASE e.val.type \notin {Plain("i32"), Plain("number")}
    <2>1. PICK c \in Cast(e, Plain("number")) : z = Made(c.val, c.js)
      BY <1>2 DEF UnaryPlus
    <2>2. Plain("number") \in Types
      BY DEF Types, Tags, Scalars
    <2>. QED  BY <2>1, <2>2, CastSound, EitherSound
  <1>. QED  BY <1>1, <1>2

\* What is cast to its own tag keeps its meaning.
LEMMA SameTagKept ==
    ASSUME NEW v, WellFormed(v), Proper(v), Fits(v), Initialised(v), NEW p \in Scalars,
           RuntimeTypeOf(v) = p, v.type # Plain(p), v.type # AnyType
    PROVE  Meaning(Lower(v, Plain(p))) = Meaning(v)
  <1>1. Plain(p) \in Types /\ Plain(p).shape = "plain" /\ Elem(Plain(p)) = p /\ Plain(p).of = {p} /\ p \in Tags
    BY Forms DEF Types, Tags
  <1>2. v.type \in Types /\ v.type.shape # "any"
    BY Shapes DEF WellFormed
  <1>3. Meaning(v) = Read(p, v.word) /\ Meaning(v).kind # "garbage"
    BY MeaningByTag DEF Initialised
  <1>4. Coerce(Meaning(v), Plain(p)) = Meaning(v)
    <2>1. Meaning(v).kind = Kind(p)
      BY <1>1, <1>3, ReadKind
    <2>. QED  BY <1>1, <2>1, ConvertedToItself DEF Coerce
  <1>5. Meaning(v) # Unknown
    BY <1>1, <1>3, ReadKnown
  <1>6. Keeps(v, Plain(p))
    <2>1. CASE v.type.shape = "union"
      BY <1>1, <2>1 DEF Keeps, RuntimeTypeOf
    <2>2. CASE v.type.shape \in {"plain", "optional"}
      <3>1. Elem(v.type) = p /\ ~(v.type.shape = "optional" /\ ~v.has)
        BY <1>1, <2>2 DEF RuntimeTypeOf, StaticTypeOf, Scalars
      <3>2. KeepsPlain(p, p, v.word)
        BY DEF KeepsPlain, Scalars
      <3>. QED  BY <1>1, <2>2, <3>1, <3>2 DEF Keeps
    <2>. QED  BY <1>2, <2>1, <2>2, Shapes
  <1>. QED  BY <1>1, <1>2, <1>4, <1>5, <1>6, LowerMeans

\* A variable where typeof has told its type.
LEMMA NarrowSound ==
    ASSUME NEW e, Sound(e), Fits(e.val), NEW p \in Scalars, NEW z \in Narrowed(e, p)
    PROVE  Sound(z)
  <1>0. p \in Tags /\ RuntimeTypeOf(e.val) = p /\ WellFormed(e.val) /\ Proper(e.val) /\ e.val.type \in Types
    BY DEF Tags, Narrowed, Sound, Expression, WellFormed
  <1>1. Meaning(e.val) = Read(p, e.val.word) /\ ProperWord(e.val.word)
    BY <1>0, MeaningByTag DEF Proper
  <1>2. CASE e.val.type = AnyType
    <2>1. AnyType # Optional(p)
      BY Forms
    <2>2. PICK v : v = PlainValue(p, ReadAs(p, e.val.word))
      OBVIOUS
    <2>3. z = Made(v, e.js)
      BY <1>0, <1>2, <2>1, <2>2 DEF Narrowed, Unbox
    <2>4. ProperWord(ReadAs(p, e.val.word))
      BY <1>1, ProperForms DEF ReadAs
    <2>5. WellFormed(v) /\ Proper(v) /\ Meaning(v) = Read(p, ReadAs(p, e.val.word))
      BY <1>0, <2>2, <2>4, PlainMeans, PlainWellFormed, ReadAsHolds
    <2>6. ASSUME e.js # Unknown PROVE Meaning(v) = e.js /\ Initialised(v)
      <3>1. Read(p, e.val.word) = e.js /\ e.js.kind # "garbage"
        BY <1>1, <2>6 DEF Sound, Initialised
      <3>2. e.val.word.rep = Rep(p)
        BY <1>0, <3>1, ReadKind DEF Scalars
      <3>3. ReadAs(p, e.val.word) = e.val.word
        BY <3>2 DEF ReadAs
      <3>. QED  BY <2>5, <3>1, <3>3 DEF Initialised
    <2>. QED  BY <2>3, <2>5, <2>6, MadeSound
  <1>3. CASE e.val.type = Optional(p) /\ e.val.type # AnyType
    <2>1. PICK v : v = PlainValue(p, e.val.word)
      OBVIOUS
    <2>2. z = Made(v, e.js)
      BY <1>0, <1>3, <2>1 DEF Narrowed
    <2>3. Holds(p, e.val.word)
      BY <1>0, <1>3, Forms DEF WellFormed
    <2>4. WellFormed(v) /\ Proper(v) /\ Meaning(v) = Meaning(e.val)
      BY <1>0, <1>1, <2>1, <2>3, PlainMeans, PlainWellFormed
    <2>5. e.js # Unknown => Meaning(v) = e.js /\ Initialised(v)
      BY <2>4 DEF Sound, Initialised
    <2>. QED  BY <2>2, <2>4, <2>5, MadeSound
  <1>4. CASE e.val.type \notin {AnyType, Optional(p)}
    <2>1. PICK c \in CastPlain(e, p) : z = [c EXCEPT !.js = e.js]
      BY <1>0, <1>4 DEF Narrowed
    <2>2. Sound(c) /\ Expression(c)
      BY <1>0, <2>1, CastPlainSound DEF Sound
    <2>3. z = [val |-> c.val, js |-> e.js]
      BY <2>1, <2>2 DEF Expression
    <2>4. z.val = c.val /\ z.js = e.js
      BY <2>3
    <2>5. Expression(z)
      BY <2>2, <2>3, <2>4 DEF Expression
    <2>6. ASSUME e.js # Unknown
          PROVE  Meaning(c.val) = e.js /\ Initialised(c.val)
      <3>0. Meaning(e.val) = e.js /\ e.js.kind # "garbage" /\ Initialised(e.val)
        BY <2>6 DEF Sound, Initialised
      <3>1. CASE e.val.type = Plain(p)
        <4>1. c = e
          BY <2>1, <3>1 DEF CastPlain
        <4>. QED  BY <3>0, <4>1 DEF Initialised
      <3>2. CASE e.val.type # Plain(p)
        <4>1. c \in CastOp(e, Plain(p))
          BY <1>4, <2>1, <3>2 DEF CastPlain
        <4>2. c.val = Lower(e.val, Plain(p))
          BY <4>1 DEF CastOp, Made
        <4>3. Meaning(c.val) = Meaning(e.val)
          BY <1>0, <1>4, <3>0, <3>2, <4>2, SameTagKept
        <4>. QED  BY <3>0, <4>3 DEF Initialised
      <3>. QED  BY <3>1, <3>2
    <2>. QED  BY <2>2, <2>4, <2>5, <2>6 DEF Sound
  <1>. QED  BY <1>2, <1>3, <1>4

\* l && r and l || r
LEMMA LogicSound ==
    ASSUME NEW isAnd \in BOOLEAN, NEW l, NEW r, Sound(l), Sound(r), Fits(l.val), Fits(r.val),
           NEW z \in AndOr(isAnd, l, r)
    PROVE  Sound(z)
  <1>1. PICK T : T = UnionType(l.val.type, r.val.type)
    OBVIOUS
  <1>2. PICK t, b : /\ t \in Cast(l, BooleanType) \X Cast(l, T) \X Cast(r, T) /\ b \in Truth(t[1].val.word)
                    /\ z = Made((IF b = isAnd THEN t[3] ELSE t[2]).val,
                                Known((IF Truthy(l.js) = isAnd THEN t[3] ELSE t[2]).js, {t[1].js}))
    BY <1>1 DEF AndOr
  <1>3. t[1] \in Cast(l, BooleanType) /\ t[2] \in Cast(l, T) /\ t[3] \in Cast(r, T)
    BY <1>2
  <1>4. T \in Types \cup {Outside}
    BY <1>1, UnionTypeTakes DEF Sound, Expression, WellFormed
  <1>5. Sound(t[2]) /\ Sound(t[3])
    BY <1>3, <1>4, CastSound
  <1>6. PICK c, js : /\ c = IF b = isAnd THEN t[3] ELSE t[2]
                     /\ js = Known((IF Truthy(l.js) = isAnd THEN t[3] ELSE t[2]).js, {t[1].js})
    OBVIOUS
  <1>7. ASSUME js # Unknown PROVE js = c.js
    <2>1. js = (IF Truthy(l.js) = isAnd THEN t[3] ELSE t[2]).js /\ t[1].js # Unknown
      BY <1>6, <1>7, KnownOf
    <2>2. b = Truthy(l.js)
      BY <1>2, <1>3, <2>1, TruthSound
    <2>. QED  BY <1>6, <2>1, <2>2
  <1>8. Sound(c)
    BY <1>5, <1>6
  <1>9. z = Made(c.val, js)
    BY <1>2, <1>6
  <1>. QED  BY <1>7, <1>8, <1>9, EitherSound

\* c ? l : r
LEMMA ConditionalSound ==
    ASSUME NEW c \in BOOLEAN, NEW l, NEW r, Sound(l), Sound(r), Fits(l.val), Fits(r.val),
           NEW z \in Conditional(c, l, r)
    PROVE  Sound(z)
  <1>1. PICK T : T = BaseType(l.val.type, r.val.type)
    OBVIOUS
  <1>2. PICK t \in Cast(l, T) \X Cast(r, T) : z = Made(t[IF c THEN 1 ELSE 2].val, t[IF c THEN 1 ELSE 2].js)
    BY <1>1 DEF Conditional
  <1>3. t[1] \in Cast(l, T) /\ t[2] \in Cast(r, T)
    BY <1>2
  <1>4. T \in Types \cup {Outside}
    BY <1>1, BaseTypes DEF Sound, Expression, WellFormed
  <1>5. Sound(t[1]) /\ Sound(t[2])
    BY <1>3, <1>4, CastSound
  <1>6. PICK d : d \in {t[1], t[2]} /\ z = Made(d.val, d.js)
    BY <1>2
  <1>. QED  BY <1>5, <1>6, EitherSound

\* Undefined is what an undefined and a missing value mean, and no other.
LEMMA UndefinedMeans ==
    ASSUME NEW v, WellFormed(v), Initialised(v), v.type.shape \in {"plain", "optional"}
    PROVE  Meaning(v) = Undefined <=> v.type = UndefinedType \/ (v.type.shape = "optional" /\ ~v.has)
  <1>0. v.type \in Types
    BY DEF WellFormed
  <1>1. CASE v.type = UndefinedType
    <2>1. v.type.shape = "plain" /\ Elem(v.type) = "undefined"
      BY <1>1, Forms DEF UndefinedType
    <2>. QED  BY <1>1, <2>1, Readings DEF Meaning
  <1>2. CASE v.type.shape = "optional" /\ ~v.has
    BY <1>2 DEF Meaning
  <1>3. CASE v.type # UndefinedType /\ (v.type.shape = "optional" => v.has)
    <2>1. PICK p \in Scalars : p = Elem(v.type)
      <3>1. CASE v.type.shape = "plain"
        <4>1. PICK p \in Tags : v.type = Plain(p) /\ Elem(v.type) = p
          BY <1>0, <3>1, Shapes, Forms
        <4>2. p # "undefined"
          BY <1>3, <4>1 DEF UndefinedType
        <4>. QED  BY <4>1, <4>2 DEF Tags
      <3>2. CASE v.type.shape = "optional"
        BY <1>0, <3>2, Shapes, Forms
      <3>. QED  BY <3>1, <3>2
    <2>2. Meaning(v) = Read(p, v.word) /\ p \in Tags
      BY <1>3, <2>1 DEF Meaning, Tags
    <2>3. Meaning(v).kind = Kind(p) /\ Kind(p) # "undefined"
      BY <2>2, ReadKind DEF Initialised, Kind, Scalars
    <2>. QED  BY <1>3, <2>3, Kinds
  <1>. QED  BY <1>1, <1>2, <1>3

\* The types of which the test for null is the test for undefined.
Tells(v) ==
    \/ StripOptional(v.type) = Plain("string")
    \/ StripOptional(v.type) = Plain("i32") /\ Meaning(v) # Num(0)
    \/ v.type = AnyType /\ Meaning(v).kind = "string"

\* Such a plain value or optional is a string, or a number that is not zero.
LEMMA TellsElem ==
    ASSUME NEW v, WellFormed(v), Tells(v), v.type.shape \in {"plain", "optional"}
    PROVE  \/ Elem(v.type) = "string"
           \/ Elem(v.type) = "i32" /\ Meaning(v) # Num(0)
  <1>0. v.type \in Types
    BY DEF WellFormed
  <1>1. PICK p \in Tags : p = Elem(v.type) /\ StripOptional(v.type) = Plain(p)
    BY <1>0, Shapes, Forms, ElemTag DEF StripOptional
  <1>2. \A q : Plain(p) = Plain(q) => p = q
    BY Forms
  <1>3. v.type # AnyType
    BY Forms
  <1>. QED  BY <1>1, <1>2, <1>3 DEF Tells

\* For them the test for null is true exactly where the value is undefined.
LEMMA IsNullTells ==
    ASSUME NEW v, WellFormed(v), Proper(v), Initialised(v), Tells(v), NEW n \in IsNull(v)
    PROVE  n = (Meaning(v) = Undefined)
  <1>0. v.type \in Types
    BY DEF WellFormed
  <1>1. CASE v.type.shape \in {"plain", "optional"}
    <2>1. PICK p : p = Elem(v.type)
      OBVIOUS
    <2>2. p \in {"i32", "string"} /\ (p = "i32" => Meaning(v) # Num(0)) /\ p \in Tags
      BY <1>1, <2>1, TellsElem DEF Tags, Scalars
    <2>3. PICK w : w = IF v.type.shape = "optional" THEN ValueOrDefault(v).word ELSE v.word
      OBVIOUS
    <2>4. n \in IF w.rep = "garbage" THEN BOOLEAN ELSE {w.n = 0}
      BY <1>1, <2>1, <2>2, <2>3 DEF IsNull
    <2>5. CASE v.type.shape = "optional" /\ ~v.has
      <3>1. Meaning(v) = Undefined
        BY <2>5 DEF Meaning
      <3>2. w = Default(p)
        BY <2>1, <2>3, <2>5, OptionalWord
      <3>3. w.rep # "garbage" /\ w.n = 0
        BY <2>2, <3>2 DEF Default, Word, Rep
      <3>. QED  BY <2>4, <3>1, <3>3
    <2>6. CASE v.type.shape = "optional" => v.has
      <3>1. w = v.word /\ Meaning(v) = Read(p, w)
        BY <1>1, <2>1, <2>3, <2>6, OptionalWord DEF Meaning
      <3>2. Read(p, w).kind # "garbage" /\ ProperWord(w)
        BY <3>1 DEF Initialised, Proper
      <3>3. w.rep = Rep(p) /\ Read(p, w).kind = Kind(p) /\ (p = "string" => w.n = 1)
        BY <2>2, <3>2, ReadKind
      <3>4. w.rep # "garbage"
        BY <2>2, <3>3 DEF Rep
      <3>5. w.n # 0
        <4>1. CASE p = "string"
          BY <3>3, <4>1
        <4>2. CASE p = "i32"
          <5>1. Num(2 * w.n) # Num(0)
            BY <2>2, <3>1, <3>3, <4>2, Readings DEF Rep
          <5>2. 2 * w.n # 0
            BY <5>1
          <5>. QED  BY <5>2
        <4>. QED  BY <2>2, <4>1, <4>2
      <3>6. Meaning(v) # Undefined
        BY <2>2, <3>1, <3>3, Kinds DEF Kind
      <3>. QED  BY <2>4, <3>4, <3>5, <3>6
    <2>. QED  BY <2>5, <2>6
  <1>2. CASE v.type.shape \in {"union", "any"}
    <2>1. Meaning(v).kind = "string"
      <3>1. StripOptional(v.type) = v.type /\ v.type # Plain("string") /\ v.type # Plain("i32")
        BY <1>2, Forms DEF StripOptional
      <3>. QED  BY <3>1 DEF Tells
    <2>2. v.tag \in Tags /\ Meaning(v) = Read(v.tag, v.word)
      BY <1>2 DEF WellFormed, Meaning
    <2>3. v.tag = "string"
      BY <2>1, <2>2, ReadKind DEF Kind
    <2>4. v.word.rep = "ptr" /\ v.word.n = 1
      BY <2>1, <2>2, <2>3, ReadKind DEF Rep
    <2>5. n \in {v.word.n = 0}
      BY <1>2, <2>4 DEF IsNull
    <2>6. Meaning(v) # Undefined
      BY <2>1, Kinds
    <2>. QED  BY <2>4, <2>5, <2>6
  <1>. QED  BY <1>0, <1>1, <1>2, Shapes

\* An optional is false as a boolean only where it is missing, if its value is a
\* string, or an i32 that is not zero.
LEMMA OptionalTruth ==
    ASSUME NEW v, WellFormed(v), Proper(v), Initialised(v), Tells(v), v.type.shape = "optional"
    PROVE  Truth(Lower(v, BooleanType).word) = {v.has}
  <1>1. PICK p : p = Elem(v.type)
    OBVIOUS
  <1>2. p \in {"i32", "string"} /\ (p = "i32" => Meaning(v) # Num(0)) /\ p \in Tags
    BY <1>1, TellsElem DEF Tags, Scalars
  <1>3. Lower(v, BooleanType) = OptionalToBoolean(v)
    BY Forms DEF Lower, BooleanType
  <1>4. CASE ~v.has
    <2>1. Lower(v, BooleanType).word = Bit(FALSE)
      BY <1>3, <1>4, PlainMeans DEF OptionalToBoolean
    <2>2. Truth(Bit(FALSE)) = {FALSE}
      BY DEF Truth, Bit, Word
    <2>. QED  BY <1>4, <2>1, <2>2 DEF Proper
  <1>5. CASE v.has
    <2>1. Lower(v, BooleanType).word = CastWord(p, "boolean", v.word)
      BY <1>1, <1>3, <1>5, PlainMeans DEF OptionalToBoolean
    <2>2. Meaning(v) = Read(p, v.word) /\ Meaning(v).kind # "garbage"
      BY <1>1, <1>5 DEF Meaning, Initialised
    <2>3. v.word.rep = Rep(p) /\ (p = "string" => v.word.n = 1)
      BY <1>2, <2>2, ReadKind
    <2>4. v.word.n # 0
      <3>1. CASE p = "string"
        BY <2>3, <3>1
      <3>2. CASE p = "i32"
        <4>1. Num(2 * v.word.n) # Num(0)
          BY <1>2, <2>2, <2>3, <3>2, Readings DEF Rep
        <4>2. 2 * v.word.n # 0
          BY <4>1
        <4>. QED  BY <4>2
      <3>. QED  BY <1>2, <3>1, <3>2
    <2>5. CastWord(p, "boolean", v.word) = Bit(v.word.n # 0)
      BY <1>2, <2>3 DEF CastWord, ToBooleanWord
    <2>6. Bit(v.word.n # 0) = Word("i1", 1, "")
      BY <2>4 DEF Bit
    <2>7. Truth(Word("i1", 1, "")) = {TRUE}
      <3>1. PICK w : w = Word("i1", 1, "")
        OBVIOUS
      <3>5. w.rep = "i1"
        BY <3>1 DEF Word
      <3>6. w.n = 1
        BY <3>1 DEF Word
      <3>2. w.rep # "garbage" /\ w.n # 0
        BY <3>5, <3>6
      <3>3. Truth(w) = {w.n # 0}
        BY <3>2 DEF Truth
      <3>4. {w.n # 0} = {TRUE}
        BY <3>2
      <3>. QED  BY <3>1, <3>3, <3>4
    <2>. QED  BY <1>5, <2>1, <2>5, <2>6, <2>7 DEF Proper
  <1>. QED  BY <1>4, <1>5

\* The test of l ?? r.
LEMMA CoalescesTells ==
    ASSUME NEW l, Sound(l), Fits(l.val), Tells(l.val), l.js # Unknown, NEW null \in Coalesces(l)
    PROVE  null = (l.js = Undefined)
  <1>1. /\ WellFormed(l.val) /\ Proper(l.val) /\ l.val.type \in Types
        /\ Initialised(l.val) /\ Meaning(l.val) = l.js
    BY DEF Sound, Expression, WellFormed
  <1>2. CASE l.val.type.shape = "optional"
    <2>1. PICK c, b, n : /\ c \in Cast(l, BooleanType) /\ b \in Truth(c.val.word)
                         /\ n \in IsNull(l.val) /\ null = (n \/ ~b)
      BY <1>2 DEF Coalesces
    <2>2. l.val.type # BooleanType /\ l.val.type # AnyType /\ Elem(BooleanType) = "boolean" /\ BooleanType.shape = "plain"
      BY <1>2, Forms DEF BooleanType
    <2>3. c \in CastOp(l, BooleanType)
      <3>1. c \in CastPlain(l, "boolean")
        BY <2>1, <2>2 DEF Cast
      <3>. QED  BY <2>2, <3>1 DEF CastPlain, BooleanType
    <2>4. c.val = Lower(l.val, BooleanType)
      BY <2>2, <2>3 DEF CastOp, Made
    <2>5. b = l.val.has
      BY <1>1, <1>2, <2>1, <2>4, OptionalTruth
    <2>6. n = (l.js = Undefined)
      BY <1>1, <2>1, IsNullTells
    <2>7. (l.js = Undefined) = ~l.val.has
      <3>1. l.val.type # UndefinedType
        BY <1>2, Forms DEF UndefinedType
      <3>. QED  BY <1>1, <1>2, <3>1, UndefinedMeans
    <2>. QED  BY <2>1, <2>5, <2>6, <2>7
  <1>3. CASE l.val.type.shape \in {"plain", "any"}
    <2>1. null \in IsNull(l.val)
      BY <1>3 DEF Coalesces
    <2>. QED  BY <1>1, <2>1, IsNullTells
  <1>4. l.val.type.shape # "union"
    BY DEF Coalesces
  <1>. QED  BY <1>1, <1>2, <1>3, <1>4, Shapes

\* l ?? r
LEMMA CoalesceSound ==
    ASSUME NEW l, NEW r, Sound(l), Sound(r), Fits(l.val), Fits(r.val), NEW z \in Coalesce(l, r)
    PROVE  Sound(z)
  <1>1. PICK T : T = BaseType(r.val.type, l.val.type)
    OBVIOUS
  <1>2. PICK from, told :
            /\ from = StripOptional(l.val.type)
            /\ told = (/\ l.js # Unknown
                       /\ \/ from = Plain("string")
                          \/ from = Plain("i32") /\ l.js # Num(0)
                          \/ from = AnyType /\ l.js.kind = "string")
    OBVIOUS
  <1>3. PICK t \in Cast(l, T) \X Cast(r, T) \X Coalesces(l) :
            z = Made((IF t[3] THEN t[2] ELSE t[1]).val,
                     IF told THEN (IF l.js = Undefined THEN t[2] ELSE t[1]).js ELSE Unknown)
    BY <1>1, <1>2 DEF Coalesce
  <1>4. t[1] \in Cast(l, T) /\ t[2] \in Cast(r, T) /\ t[3] \in Coalesces(l)
    BY <1>3
  <1>5. T \in Types \cup {Outside}
    BY <1>1, BaseTypes DEF Sound, Expression, WellFormed
  <1>6. Sound(t[1]) /\ Sound(t[2])
    BY <1>4, <1>5, CastSound
  <1>7. PICK c, js : /\ c = IF t[3] THEN t[2] ELSE t[1]
                     /\ js = IF told
                             THEN (IF l.js = Undefined THEN t[2] ELSE t[1]).js ELSE Unknown
    OBVIOUS
  <1>8. ASSUME js # Unknown PROVE js = c.js
    <2>1. told /\ js = (IF l.js = Undefined THEN t[2] ELSE t[1]).js
      BY <1>7, <1>8
    <2>2. Tells(l.val) /\ l.js # Unknown
      <3>1. from = AnyType => l.val.type = AnyType
        BY <1>2, Forms DEF StripOptional
      <3>2. l.js # Unknown /\ Meaning(l.val) = l.js
        BY <1>2, <2>1 DEF Sound
      <3>. QED  BY <1>2, <2>1, <3>1, <3>2 DEF Tells
    <2>3. t[3] = (l.js = Undefined)
      BY <1>4, <2>1, <2>2, CoalescesTells
    <2>. QED  BY <1>7, <2>1, <2>3
  <1>9. Sound(c) /\ z = Made(c.val, js)
    BY <1>3, <1>6, <1>7
  <1>. QED  BY <1>8, <1>9, EitherSound

-------------------------------------------------------------------------------
\* Arithmetic

\* A value's number and text, as its conversion shows them.
LEMMA ShownBy ==
    ASSUME NEW u, u.kind # "unknown"
    PROVE  /\ \A n : Converted(u, "number") = Num(n) => ToNumber(u) = n
           /\ \A s : Converted(u, "string") = Str(s) => ToText(u) = s
  <1>1. ASSUME NEW n, Converted(u, "number") = Num(n)
        PROVE  ToNumber(u) = n
    <2>1. CASE u.kind = "number"
      <3>1. u = Num(n)
        BY <1>1, <2>1, ConvertedToItself
      <3>2. u.n = n
        BY <3>1, Kinds
      <3>. QED  BY <2>1, <3>2 DEF ToNumber
    <2>2. CASE u.kind # "number"
      <3>1. Converted(u, "number") = Num(ToNumber(u))
        BY <2>2 DEF Converted
      <3>2. PICK m : m = ToNumber(u)
        OBVIOUS
      <3>3. Num(m).n = m /\ Num(n).n = n /\ Num(m) = Num(n)
        BY <1>1, <3>1, <3>2, Kinds
      <3>. QED  BY <3>2, <3>3
    <2>. QED  BY <2>1, <2>2
  <1>2. ASSUME NEW s, Converted(u, "string") = Str(s)
        PROVE  ToText(u) = s
    <2>1. CASE u.kind = "string"
      <3>1. u = Str(s)
        BY <1>2, <2>1, ConvertedToItself
      <3>2. u.s = s
        BY <3>1, Kinds
      <3>. QED  BY <2>1, <3>2 DEF ToText
    <2>2. CASE u.kind # "string"
      <3>1. Converted(u, "string") = Str(ToText(u))
        BY <2>2 DEF Converted
      <3>. QED  BY <1>2, <3>1 DEF Str, Value
    <2>. QED  BY <2>1, <2>2
  <1>. QED  BY <1>1, <1>2

\* The value of an optional is the optional's, if it has one.
LEMMA UnwrappedSound ==
    ASSUME NEW e, Sound(e), Fits(e.val)
    PROVE  Sound(Unwrapped(e)) /\ Fits(Unwrapped(e).val)
  <1>1. CASE e.val.type.shape # "optional"
    BY <1>1 DEF Unwrapped
  <1>2. CASE e.val.type.shape = "optional"
    <2>0. WellFormed(e.val) /\ Proper(e.val)
      BY DEF Sound, Expression
    <2>1. PICK p \in Scalars : p = Elem(e.val.type)
      BY <1>2, <2>0, ValueOfOptional
    <2>2. PICK w : w = IF e.val.has THEN e.val.word ELSE Default(p)
      OBVIOUS
    <2>3. PICK v : v = PlainValue(p, w)
      OBVIOUS
    <2>4. ValueOrDefault(e.val) = v
      BY <2>1, <2>2, <2>3 DEF ValueOrDefault
    <2>5. v.word = w /\ Meaning(v) = Read(p, w)
      BY <2>3, PlainMeans
    <2>6. Holds(p, w)
      BY <1>2, <2>0, <2>1, <2>4, <2>5, ValueOfOptional
    <2>7. ProperWord(w)
      BY <2>0, <2>2, ProperForms DEF Proper
    <2>8. WellFormed(v) /\ Proper(v)
      BY <2>3, <2>6, <2>7, PlainWellFormed, PlainMeans DEF Tags
    <2>9. PICK js : js = IF e.val.has THEN e.js ELSE Unknown
      OBVIOUS
    <2>10. js # Unknown => Meaning(v) = js /\ Initialised(v)
      <3>1. ASSUME js # Unknown
            PROVE  Meaning(v) = js /\ Initialised(v)
        <4>1. e.val.has /\ js = e.js /\ w = e.val.word
          BY <2>2, <2>9, <3>1
        <4>2. Meaning(e.val) = e.js /\ Initialised(e.val)
          BY <3>1, <4>1 DEF Sound
        <4>3. Meaning(e.val) = Read(p, w)
          BY <1>2, <2>1, <4>1 DEF Meaning
        <4>. QED  BY <2>5, <4>1, <4>2, <4>3 DEF Initialised
      <3>. QED  BY <3>1
    <2>11. Fits(v)
      <3>1. CASE e.val.has
        BY <2>2, <2>5, <3>1 DEF Fits
      <3>2. CASE ~e.val.has
        <4>0. w = Word(Rep(p), 0, "")
          BY <2>2, <3>2 DEF Default
        <4>1. w.n = 0
          BY <4>0 DEF Word
        <4>2. w.s = ""
          BY <4>0 DEF Word
        <4>. QED  BY <2>5, <4>1, <4>2, NumbersAssumption, TextsAssumption DEF Fits, AllTexts
      <3>. QED  BY <3>1, <3>2
    <2>12. Unwrapped(e) = Made(v, js)
      BY <1>2, <2>4, <2>9 DEF Unwrapped
    <2>. QED  BY <2>8, <2>10, <2>11, <2>12, MadeSound
  <1>. QED  BY <1>1, <1>2

\* Both operands are cast to the type that they have then, or are of that type.
LEMMA AdjustedSound ==
    ASSUME NEW l, NEW r, Sound(l), Sound(r), Fits(l.val), Fits(r.val),
           NEW pair \in AdjustedToLeft(l, r) \cup AdjustedToNumber(l, r)
    PROVE  /\ Sound(pair[1]) /\ Sound(pair[2])
           /\ pair[1].val.type.shape = "plain" /\ pair[1].js # Unknown =>
                 l.js # Unknown /\ pair[1].js = Converted(l.js, Kind(Elem(pair[1].val.type)))
           /\ pair[2].val.type.shape = "plain" /\ pair[2].js # Unknown =>
                 r.js # Unknown /\ pair[2].js = Converted(r.js, Kind(Elem(pair[2].val.type)))
  <1>1. \/ pair = <<l, r>>
        \/ \E T \in {l.val.type, r.val.type, Plain("number"), Plain("i32")} : pair \in Cast(l, T) \X Cast(r, T)
    BY DEF AdjustedToLeft, AdjustedToNumber
  <1>2. {l.val.type, r.val.type, Plain("number"), Plain("i32")} \subseteq Types
    BY DEF Sound, Expression, WellFormed, Types, Tags, Scalars
  <1>3. ASSUME NEW e, Sound(e), e.js # Unknown, e.val.type.shape = "plain"
        PROVE  e.js = Converted(e.js, Kind(Elem(e.val.type)))
    <2>1. Coerce(Meaning(e.val), e.val.type) = Meaning(e.val) /\ Meaning(e.val) = e.js
      BY <1>3, CoerceToItself DEF Sound, Expression
    <2>. QED  BY <1>3, <2>1 DEF Coerce
  <1>4. CASE pair = <<l, r>>
    BY <1>3, <1>4
  <1>5. ASSUME NEW T \in Types, pair \in Cast(l, T) \X Cast(r, T)
        PROVE  /\ Sound(pair[1]) /\ Sound(pair[2])
               /\ pair[1].val.type.shape = "plain" /\ pair[1].js # Unknown =>
                     l.js # Unknown /\ pair[1].js = Converted(l.js, Kind(Elem(pair[1].val.type)))
               /\ pair[2].val.type.shape = "plain" /\ pair[2].js # Unknown =>
                     r.js # Unknown /\ pair[2].js = Converted(r.js, Kind(Elem(pair[2].val.type)))
    <2>1. pair[1] \in Cast(l, T) /\ pair[2] \in Cast(r, T)
      BY <1>5
    <2>2. pair[1].val.type = T /\ pair[2].val.type = T
      BY <2>1, CastExpression DEF Sound
    <2>3. ASSUME NEW e, Sound(e), Fits(e.val), NEW c \in Cast(e, T)
          PROVE  Sound(c) /\ (T.shape = "plain" /\ c.js # Unknown => e.js # Unknown /\ c.js = Converted(e.js, Kind(Elem(T))))
      BY <2>3, CastSound
    <2>. QED  BY <2>1, <2>2, <2>3
  <1>. QED  BY <1>1, <1>2, <1>4, <1>5

\* The word that is computed is the word of a value.
LEMMA OperateProper ==
    ASSUME NEW op, NEW a, NEW b, ProperWord(a), ProperWord(b), a.rep = "i32" => b.rep \in {"i32", "garbage"}
    PROVE  ProperWord(Operate(op, a, b))
  <1>1. CASE "garbage" \in {a.rep, b.rep}
    BY <1>1, ProperForms DEF Operate
  <1>2. CASE "garbage" \notin {a.rep, b.rep} /\ a.rep = "i1"
    BY <1>2, ProperForms DEF Operate
  <1>3. CASE "garbage" \notin {a.rep, b.rep} /\ a.rep = "i32"
    <2>1. a.n \in Int /\ b.n \in Int
      BY <1>3, I32IsNumber DEF ProperWord
    <2>2. PICK n \in Int : n = IF op = "+" THEN a.n + b.n ELSE a.n - b.n
      BY <2>1
    <2>3. Operate(op, a, b) = Word("i32", Wrapped(n), "")
      BY <1>3, <2>2 DEF Operate
    <2>4. PICK m : m = Wrapped(n)
      OBVIOUS
    <2>5. InRange(m)
      BY <2>2, <2>4, WrappedInRange
    <2>6. ProperWord(Word("i32", m, ""))
      BY <2>5, ProperForms
    <2>. QED  BY <2>3, <2>4, <2>6
  <1>4. CASE "garbage" \notin {a.rep, b.rep} /\ a.rep = "f64"
    BY <1>4, ProperForms DEF Operate
  <1>5. CASE "garbage" \notin {a.rep, b.rep} /\ a.rep = "ptr"
    BY <1>5, ProperForms DEF Operate
  <1>6. CASE a.rep \notin {"i1", "i32", "f64", "ptr"}
    BY <1>6, ProperForms DEF Operate
  <1>. QED  BY <1>1, <1>2, <1>3, <1>4, <1>5, <1>6

\* What the language makes of two operands.
Result(op, u, v) == IF op = "+" THEN Added(u, v) ELSE Num(Difference(ToNumber(u), ToNumber(v)))

\* A result that is no string is a sum or a difference of numbers.
LEMMA NumberResult ==
    ASSUME NEW op, NEW u, NEW v, op = "+" => Result(op, u, v).kind # "string"
    PROVE  Result(op, u, v) = Num(IF op = "+" THEN Sum(ToNumber(u), ToNumber(v))
                                              ELSE Difference(ToNumber(u), ToNumber(v)))
  <1>1. CASE op = "+"
    <2>1. Result(op, u, v) = Added(u, v)
      BY <1>1 DEF Result
    <2>2. CASE "string" \in {u.kind, v.kind}
      <3>1. Added(u, v) = Str(ToText(u) \o ToText(v))
        BY <2>2 DEF Added
      <3>. QED  BY <1>1, <2>1, <3>1, Kinds
    <2>3. CASE "string" \notin {u.kind, v.kind}
      BY <1>1, <2>1, <2>3 DEF Added
    <2>. QED  BY <2>2, <2>3
  <1>2. CASE op # "+"
    BY <1>2 DEF Result
  <1>. QED  BY <1>1, <1>2

\* A result that is a string is made of both texts.
LEMMA TextResult ==
    ASSUME NEW u, NEW v, Result("+", u, v).kind = "string"
    PROVE  Result("+", u, v) = Str(ToText(u) \o ToText(v))
  <1>1. Result("+", u, v) = Added(u, v)
    BY DEF Result
  <1>2. CASE "string" \in {u.kind, v.kind}
    BY <1>1, <1>2 DEF Added
  <1>3. CASE "string" \notin {u.kind, v.kind}
    <2>1. Added(u, v) = Num(Sum(ToNumber(u), ToNumber(v)))
      BY <1>3 DEF Added
    <2>. QED  BY <1>1, <2>1, Kinds
  <1>. QED  BY <1>2, <1>3

\* The word that is computed means it, if the operands mean what they are
\* converted to and the result is one of the type.
LEMMA OperateMeans ==
    ASSUME NEW p \in {"i32", "number", "string"}, NEW op \in {"+", "-"}, p = "string" => op = "+",
           NEW a, NEW b, ProperWord(a), ProperWord(b),
           Read(p, a).kind # "garbage", Read(p, b).kind # "garbage",
           NEW u, NEW v, u.kind # "unknown", v.kind # "unknown",
           Read(p, a) = Converted(u, Kind(p)), Read(p, b) = Converted(v, Kind(p)),
           NEW js, js = Result(op, u, v),
           p = "i32" /\ js.kind = "number" => WholeI32(js.n),
           op = "+" => (p = "string") = (js.kind = "string")
    PROVE  Read(p, Operate(op, a, b)) = js
  <1>0. p \in Tags
    BY DEF Tags, Scalars
  <1>1. a.rep = Rep(p) /\ b.rep = Rep(p) /\ (p = "string" => a.n = 1 /\ b.n = 1)
    BY <1>0, ReadKind DEF Rep
  <1>2. CASE p = "string"
    <2>1. a.rep = "ptr" /\ b.rep = "ptr" /\ a.n = 1 /\ b.n = 1
      BY <1>1, <1>2 DEF Rep
    <2>2. Read(p, a) = Str(a.s) /\ Read(p, b) = Str(b.s)
      BY <1>2, <2>1, Readings
    <2>3. ToText(u) = a.s /\ ToText(v) = b.s
      BY <1>2, <2>2, ShownBy DEF Kind
    <2>4. js = Str(a.s \o b.s)
      BY <1>2, <2>3, TextResult
    <2>5. Operate(op, a, b) = Ptr(a.s \o b.s)
      BY <2>1 DEF Operate
    <2>. QED  BY <1>2, <2>4, <2>5, PtrMeans
  <1>3. CASE p # "string"
    <2>1. Kind(p) = "number"
      BY <1>3 DEF Kind
    <2>2. PICK m, n : m = ToNumber(u) /\ n = ToNumber(v)
      OBVIOUS
    <2>3. PICK k : k = IF op = "+" THEN Sum(m, n) ELSE Difference(m, n)
      OBVIOUS
    <2>4. js = Num(k)
      BY <1>3, <2>2, <2>3, NumberResult
    <2>5. CASE p = "number"
      <3>1. a.rep = "f64" /\ b.rep = "f64"
        BY <1>1, <2>5 DEF Rep
      <3>2. Read(p, a) = Num(a.n) /\ Read(p, b) = Num(b.n)
        BY <2>5, <3>1, Readings
      <3>3. m = a.n /\ n = b.n
        BY <2>1, <2>2, <3>2, ShownBy
      <3>4. Operate(op, a, b) = Word("f64", k, "")
        BY <2>3, <3>1, <3>3 DEF Operate
      <3>. QED  BY <2>4, <2>5, <3>4, NumberMeans
    <2>6. CASE p = "i32"
      <3>1. a.rep = "i32" /\ b.rep = "i32"
        BY <1>1, <2>6 DEF Rep
      <3>2. Read(p, a) = Num(2 * a.n) /\ Read(p, b) = Num(2 * b.n)
        BY <2>6, <3>1, Readings
      <3>3. m = 2 * a.n /\ n = 2 * b.n
        BY <2>1, <2>2, <3>2, ShownBy
      <3>4. a.n \in Int /\ b.n \in Int /\ m # NaN /\ n # NaN
        BY <3>1, <3>3, I32IsNumber DEF ProperWord
      <3>5. PICK d \in Int : d = IF op = "+" THEN a.n + b.n ELSE a.n - b.n
        BY <3>4
      <3>6. k = 2 * d
        BY <2>3, <3>3, <3>4, <3>5 DEF Sum, Difference
      <3>7. js.kind = "number" /\ js.n = 2 * d
        BY <2>4, <3>6, Kinds
      <3>8. InRange(d)
        BY <2>6, <3>5, <3>7, TruncatedDouble DEF WholeI32
      <3>9. Operate(op, a, b) = Word("i32", Wrapped(d), "")
        BY <3>1, <3>5 DEF Operate
      <3>10. Wrapped(d) = d
        BY <3>5, <3>8, WrappedInRange
      <3>. QED  BY <2>4, <2>6, <3>6, <3>9, <3>10, NumberMeans
    <2>. QED  BY <1>3, <2>5, <2>6
  <1>. QED  BY <1>2, <1>3

\* What is known of a result, and of which types.
LEMMA ArithmeticKnown ==
    ASSUME NEW op, NEW l, NEW r, NEW T, NEW js, js = ArithmeticJs(op, l, r, T), js # Unknown
    PROVE  /\ l.js.kind # "unknown" /\ r.js.kind # "unknown" /\ T # BooleanType /\ js = Result(op, l.js, r.js)
           /\ T = Plain("i32") /\ js.kind = "number" => WholeI32(js.n)
           /\ op = "+" => (T = Plain("string")) = (js.kind = "string")
  <1>1. PICK rs : rs = Result(op, l.js, r.js)
    OBVIOUS
  <1>2. "unknown" \notin {l.js.kind, r.js.kind}
    BY DEF ArithmeticJs
  <1>3. T # BooleanType
    BY <1>2 DEF ArithmeticJs
  <1>4. js = IF T = Plain("i32") /\ rs.kind = "number" /\ ~WholeI32(rs.n) THEN Unknown
             ELSE IF op = "+" /\ (T = Plain("string")) # (rs.kind = "string") THEN Unknown
             ELSE rs
    BY <1>1, <1>2, <1>3 DEF ArithmeticJs, Result
  <1>. QED  BY <1>1, <1>2, <1>3, <1>4

\* l + r and l - r
LEMMA ArithmeticSound ==
    ASSUME NEW op \in {"+", "-"}, NEW l, NEW r, Sound(l), Sound(r), Fits(l.val), Fits(r.val),
           NEW z \in Arithmetic(op, l, r)
    PROVE  Sound(z)
  <1>1. PICK ul, ur : ul = Unwrapped(l) /\ ur = Unwrapped(r)
    OBVIOUS
  <1>2. Sound(ul) /\ Sound(ur) /\ Fits(ul.val) /\ Fits(ur.val)
    BY <1>1, UnwrappedSound
  <1>3. PICK pair :
            /\ pair \in AdjustedToLeft(ul, ur) \cup AdjustedToNumber(ul, ur)
            /\ Operates(op, pair[1].val.type, pair[2].val.type)
            /\ z = Made(PlainValue(Elem(pair[1].val.type), Operate(op, pair[1].val.word, pair[2].val.word)),
                        IF Unknown \in {pair[1].js, pair[2].js} THEN Unknown
                        ELSE ArithmeticJs(op, ul, ur, pair[1].val.type))
    BY <1>1 DEF Arithmetic
  <1>4. PICK c, d, T : c = pair[1] /\ d = pair[2] /\ T = c.val.type
    OBVIOUS
  <1>5. Sound(c) /\ Sound(d) /\ d.val.type = T /\ T.shape = "plain"
    BY <1>2, <1>3, <1>4, AdjustedSound DEF Operates
  <1>6. PICK p \in Tags : T = Plain(p) /\ Elem(T) = p
    BY <1>4, <1>5, Shapes, Forms DEF Sound, Expression, WellFormed
  <1>7. PICK a, b : a = c.val.word /\ b = d.val.word
    OBVIOUS
  <1>8. p \in Scalars /\ (p = "string" => op = "+")
    <2>1. {p} \subseteq Scalars \ (IF op = "+" THEN {} ELSE {"string"})
      BY <1>3, <1>4, <1>6, Forms DEF Operates
    <2>. QED  BY <2>1
  <1>9. /\ ProperWord(a) /\ ProperWord(b) /\ Holds(p, a) /\ Holds(p, b)
        /\ Meaning(c.val) = Read(p, a) /\ Meaning(d.val) = Read(p, b)
    BY <1>4, <1>5, <1>6, <1>7 DEF Sound, Expression, WellFormed, Proper, Meaning
  <1>10. PICK w : w = Operate(op, a, b)
    OBVIOUS
  <1>11. Holds(p, w)
    BY <1>8, <1>9, <1>10 DEF Holds, Operate, Garbage, Bit, Ptr, Word, Rep, Scalars
  <1>12. ProperWord(w)
    <2>1. a.rep = "i32" => b.rep \in {"i32", "garbage"}
      BY <1>8, <1>9 DEF Holds, Rep, Scalars
    <2>. QED  BY <1>9, <1>10, <2>1, OperateProper
  <1>13. PICK v, js : /\ v = PlainValue(p, w)
                      /\ js = IF Unknown \in {c.js, d.js} THEN Unknown ELSE ArithmeticJs(op, ul, ur, T)
    OBVIOUS
  <1>14. z = Made(v, js)
    BY <1>3, <1>4, <1>6, <1>7, <1>10, <1>13
  <1>15. WellFormed(v) /\ Proper(v) /\ Meaning(v) = Read(p, w)
    BY <1>11, <1>12, <1>13, PlainWellFormed, PlainMeans
  <1>16. ASSUME js # Unknown
         PROVE  Meaning(v) = js /\ Initialised(v)
    <2>1. c.js # Unknown /\ d.js # Unknown /\ js = ArithmeticJs(op, ul, ur, T)
      BY <1>13, <1>16
    <2>2. /\ ul.js.kind # "unknown" /\ ur.js.kind # "unknown" /\ T # BooleanType /\ js = Result(op, ul.js, ur.js)
          /\ T = Plain("i32") /\ js.kind = "number" => WholeI32(js.n)
          /\ op = "+" => (T = Plain("string")) = (js.kind = "string")
      BY <1>16, <2>1, ArithmeticKnown
    <2>3. c.js = Converted(ul.js, Kind(p)) /\ d.js = Converted(ur.js, Kind(p))
      <3>1. c.val.type.shape = "plain" /\ c.js # Unknown => c.js = Converted(ul.js, Kind(Elem(c.val.type)))
        BY <1>2, <1>3, <1>4, AdjustedSound
      <3>2. d.val.type.shape = "plain" /\ d.js # Unknown => d.js = Converted(ur.js, Kind(Elem(d.val.type)))
        BY <1>2, <1>3, <1>4, AdjustedSound
      <3>. QED  BY <1>4, <1>5, <1>6, <2>1, <3>1, <3>2
    <2>4. /\ Read(p, a) = c.js /\ Read(p, b) = d.js
          /\ Read(p, a).kind # "garbage" /\ Read(p, b).kind # "garbage"
      BY <1>5, <1>9, <2>1 DEF Sound, Initialised
    <2>5. p \in {"i32", "number", "string"}
      BY <1>6, <1>8, <2>2 DEF BooleanType, Scalars
    <2>6. p = "i32" /\ js.kind = "number" => WholeI32(js.n)
      BY <1>6, <2>2
    <2>7. op = "+" => (p = "string") = (js.kind = "string")
      <3>1. (T = Plain("string")) = (p = "string")
        BY <1>6, Forms
      <3>. QED  BY <2>2, <3>1
    <2>8. Read(p, w) = js
      BY <1>8, <1>9, <1>10, <2>2, <2>3, <2>4, <2>5, <2>6, <2>7, OperateMeans
    <2>9. js.kind # "garbage"
      <3>1. Result(op, ul.js, ur.js) \in {Str(ToText(ul.js) \o ToText(ur.js)), Num(Sum(ToNumber(ul.js), ToNumber(ur.js))),
                                          Num(Difference(ToNumber(ul.js), ToNumber(ur.js)))}
        BY DEF Result, Added
      <3>. QED  BY <2>2, <3>1, Kinds
    <2>. QED  BY <1>15, <2>8, <2>9 DEF Initialised
  <1>. QED  BY <1>14, <1>15, <1>16, MadeSound

-------------------------------------------------------------------------------
\* Equality

\* Words are equal where the values are.
LEMMA ProperWords ==
    ASSUME NEW a, NEW b, ProperWord(a), ProperWord(b), a.rep = b.rep, a.s = b.s
    PROVE  (a = b) = (a.n = b.n)
  BY DEF ProperWord

\* Numbers are identical where they are equal and not NaN.
LEMMA NumIdentical ==
    ASSUME NEW m, NEW n
    PROVE  Identical(Num(m), Num(n)) = (m = n /\ m # NaN)
  <1>1. PICK u, v, w : u = Num(m) /\ v = Num(n) /\ w = Num(NaN)
    OBVIOUS
  <1>2. u.n = m /\ v.n = n /\ w.n = NaN
    BY <1>1, Kinds
  <1>3. (u = v) = (m = n)
    BY <1>1, <1>2
  <1>4. (u = w) = (m = NaN)
    BY <1>1, <1>2
  <1>. QED  BY <1>1, <1>3, <1>4 DEF Identical

\* Words of one kind are found equal where the values they mean are.
LEMMA SameWordsMeans ==
    ASSUME NEW p \in Scalars, NEW q \in Scalars, NEW a, NEW b, ProperWord(a), ProperWord(b),
           Read(p, a).kind # "garbage", Read(q, b).kind # "garbage", ComparesWith(p, q),
           LET ka == Read(p, a).kind kb == Read(q, b).kind IN ka = kb \/ "undefined" \in {ka, kb},
           NEW s \in SameWords(p, a, q, b)
    PROVE  s = Identical(Read(p, a), Read(q, b))
  <1>0. p \in Tags /\ q \in Tags
    BY DEF Tags
  <1>1. /\ a.rep = Rep(p) /\ (p = "string" => a.n = 1) /\ Read(p, a).kind = Kind(p)
        /\ b.rep = Rep(q) /\ (q = "string" => b.n = 1) /\ Read(q, b).kind = Kind(q)
    <2>1. p # "undefined" /\ q # "undefined"
      BY DEF Scalars
    <2>. QED  BY <1>0, <2>1, ReadKind
  <1>2. Kind(p) = Kind(q)
    BY <1>1 DEF Kind, Scalars
  <1>3. a.rep # "garbage" /\ b.rep # "garbage"
    BY <1>1 DEF Rep, Scalars
  <1>4. CASE p = "boolean"
    <2>1. q = "boolean"
      BY <1>2, <1>4 DEF Kind, Scalars
    <2>2. s = (a = b)
      BY <1>3, <1>4 DEF SameWords
    <2>3. a.rep = "i1" /\ b.rep = "i1"
      BY <1>1, <1>4, <2>1 DEF Rep
    <2>4. a.n \in {0, 1} /\ b.n \in {0, 1} /\ a.s = b.s
      BY <2>3 DEF ProperWord
    <2>5. PICK u, v : u = Boolean(a.n = 1) /\ v = Boolean(b.n = 1)
      OBVIOUS
    <2>6. Read(p, a) = u /\ Read(q, b) = v
      BY <1>4, <2>1, <2>3, <2>5, Readings
    <2>7. u.n = a.n /\ v.n = b.n /\ u.kind = "boolean"
      BY <2>4, <2>5, Kinds
    <2>8. u # Num(NaN)
      BY <2>7, Kinds
    <2>9. (u = v) = (a.n = b.n)
      BY <2>5, <2>7
    <2>10. s = (a.n = b.n)
      BY <2>2, <2>3, <2>4, ProperWords
    <2>. QED  BY <2>6, <2>8, <2>9, <2>10 DEF Identical
  <1>5. CASE p = "i32"
    <2>1. q = "i32"
      BY <1>5 DEF ComparesWith
    <2>2. s = (a = b)
      BY <1>3, <1>5 DEF SameWords
    <2>3. a.rep = "i32" /\ b.rep = "i32"
      BY <1>1, <1>5, <2>1 DEF Rep
    <2>4. a.s = b.s
      BY <2>3 DEF ProperWord
    <2>5. a.n \in Int /\ b.n \in Int /\ 2 * a.n # NaN
      BY <2>3, I32IsNumber DEF ProperWord
    <2>6. Read(p, a) = Num(2 * a.n) /\ Read(q, b) = Num(2 * b.n)
      BY <1>5, <2>1, <2>3, Readings
    <2>7. PICK m, n : m = 2 * a.n /\ n = 2 * b.n
      OBVIOUS
    <2>8. Identical(Read(p, a), Read(q, b)) = (m = n /\ m # NaN)
      BY <2>6, <2>7, NumIdentical
    <2>9. (m = n) = (a.n = b.n) /\ m # NaN
      BY <2>5, <2>7
    <2>10. s = (a.n = b.n)
      BY <2>2, <2>3, <2>4, ProperWords
    <2>. QED  BY <2>8, <2>9, <2>10
  <1>6. CASE p = "number"
    <2>1. q \in {"number", "i32"}
      BY <1>2, <1>6 DEF Kind, Scalars
    <2>2. PICK n : n = CastWord(q, p, b).n
      OBVIOUS
    <2>3. s = (a.n = n /\ a.n # NaN)
      BY <1>3, <1>6, <2>2 DEF SameWords
    <2>4. a.rep = "f64"
      BY <1>1, <1>6 DEF Rep
    <2>5. Read(p, a) = Num(a.n)
      BY <1>6, <2>4, Readings
    <2>6. Read(q, b) = Num(n)
      <3>1. CASE q = "number"
        <4>1. b.rep = "f64"
          BY <1>1, <3>1 DEF Rep
        <4>2. n = b.n
          BY <1>6, <2>2, <3>1 DEF CastWord
        <4>. QED  BY <3>1, <4>1, <4>2, Readings
      <3>2. CASE q = "i32"
        <4>1. b.rep = "i32"
          BY <1>1, <3>2 DEF Rep
        <4>2. CastWord(q, p, b) = ToNumberWord(q, b)
          BY <1>1, <1>6, <3>2 DEF CastWord
        <4>3. ToNumberWord(q, b) = Word("f64", 2 * b.n, "")
          BY <3>2 DEF ToNumberWord
        <4>4. n = 2 * b.n
          <5>1. PICK w : w = Word("f64", 2 * b.n, "")
            OBVIOUS
          <5>2. w.n = 2 * b.n
            BY <5>1 DEF Word
          <5>. QED  BY <2>2, <4>2, <4>3, <5>1, <5>2
        <4>. QED  BY <3>2, <4>1, <4>4, Readings
      <3>. QED  BY <2>1, <3>1, <3>2
    <2>. QED  BY <2>3, <2>5, <2>6, NumIdentical
  <1>7. CASE p = "string"
    <2>1. q = "string"
      BY <1>2, <1>7 DEF Kind, Scalars
    <2>2. s = (a = b)
      BY <1>3, <1>7, <2>1 DEF SameWords, CastWord
    <2>3. a.rep = "ptr" /\ b.rep = "ptr" /\ a.n = 1 /\ b.n = 1
      BY <1>1, <1>7, <2>1 DEF Rep
    <2>4. (a = b) = (a.s = b.s)
      BY <2>3 DEF ProperWord
    <2>5. PICK u, v : u = Str(a.s) /\ v = Str(b.s)
      OBVIOUS
    <2>6. Read(p, a) = u /\ Read(q, b) = v
      BY <1>7, <2>1, <2>3, <2>5, Readings
    <2>7. u.s = a.s /\ v.s = b.s /\ u.kind = "string"
      BY <2>5, Kinds
    <2>8. u # Num(NaN)
      BY <2>7, Kinds
    <2>9. (u = v) = (a.s = b.s)
      BY <2>5, <2>7
    <2>. QED  BY <2>2, <2>4, <2>6, <2>8, <2>9 DEF Identical
  <1>. QED  BY <1>4, <1>5, <1>6, <1>7 DEF Scalars

\* Values are equal where the language says so, unless the words of a missing
\* value are looked at.
LEMMA SameValuesMeans ==
    ASSUME NEW v, NEW w, WellFormed(v), WellFormed(w), Proper(v), Proper(w), Initialised(v), Initialised(w),
           \/ v.type.shape = w.type.shape
           \/ UndefinedType \in {v.type, w.type}
           \/ \A u \in {v, w} : u.type.shape = "optional" => u.has,
           LET kv == Meaning(v).kind kw == Meaning(w).kind IN kv = kw \/ "undefined" \in {kv, kw},
           NEW b \in SameValues(v, w)
    PROVE  b = Identical(Meaning(v), Meaning(w))
  <1>1. PICK p, q, shapes : p = Elem(v.type) /\ q = Elem(w.type) /\ shapes = {v.type.shape, w.type.shape}
    OBVIOUS
  <1>2. shapes \subseteq {"plain", "optional"}
    BY <1>1 DEF SameValues
  <1>3. v.type.shape \in {"plain", "optional"} /\ w.type.shape \in {"plain", "optional"}
    BY <1>1, <1>2
  <1>4. Undefined # Num(NaN)
    BY Kinds
  <1>5. PICK mv, mw : mv = Meaning(v) /\ mw = Meaning(w)
    OBVIOUS
  <1>6. /\ (mv = Undefined) = (v.type = UndefinedType \/ (v.type.shape = "optional" /\ ~v.has))
        /\ (mw = Undefined) = (w.type = UndefinedType \/ (w.type.shape = "optional" /\ ~w.has))
    BY <1>3, <1>5, UndefinedMeans
  <1>7. CASE UndefinedType \in {v.type, w.type}
    <2>1. b = ((v.type = UndefinedType \/ (v.type.shape = "optional" /\ ~v.has))
               /\ (w.type = UndefinedType \/ (w.type.shape = "optional" /\ ~w.has)))
      BY <1>1, <1>2, <1>7 DEF SameValues
    <2>2. b = (mv = Undefined /\ mw = Undefined)
      BY <1>6, <2>1
    <2>3. mv = Undefined \/ mw = Undefined
      BY <1>6, <1>7
    <2>. QED  BY <1>4, <1>5, <2>2, <2>3 DEF Identical
  <1>8. CASE UndefinedType \notin {v.type, w.type}
    <2>1. p \in Scalars /\ q \in Scalars
      <3>1. ASSUME NEW u, WellFormed(u), u.type # UndefinedType, u.type.shape \in {"plain", "optional"}
            PROVE  Elem(u.type) \in Scalars
        BY <3>1, Shapes, Forms DEF WellFormed, UndefinedType, Tags
      <3>. QED  BY <1>1, <1>3, <1>8, <3>1
    <2>2. ASSUME v.type.shape = "optional" => v.has, w.type.shape = "optional" => w.has,
                 ComparesWith(p, q), b \in SameWords(p, v.word, q, w.word)
          PROVE  b = Identical(mv, mw)
      <3>1. PICK aw, bw : aw = v.word /\ bw = w.word
        OBVIOUS
      <3>2. mv = Read(p, aw) /\ mw = Read(q, bw)
        BY <1>1, <1>3, <1>5, <2>2, <3>1 DEF Meaning
      <3>3. Read(p, aw).kind # "garbage" /\ Read(q, bw).kind # "garbage"
        BY <1>5, <3>2 DEF Initialised
      <3>4. ProperWord(aw) /\ ProperWord(bw)
        BY <3>1 DEF Proper
      <3>5. Read(p, aw).kind = Read(q, bw).kind \/ "undefined" \in {Read(p, aw).kind, Read(q, bw).kind}
        BY <1>5, <3>2
      <3>. QED  BY <2>1, <2>2, <3>1, <3>2, <3>3, <3>4, <3>5, SameWordsMeans
    <2>3. CASE shapes = {"optional"}
      <3>1. v.type.shape = "optional" /\ w.type.shape = "optional"
        BY <1>1, <2>3
      <3>2. b \in IF ~ComparesWith(p, q) THEN {}
                  ELSE IF v.has /\ w.has THEN SameWords(p, v.word, q, w.word) ELSE {v.has = w.has}
        BY <1>1, <1>2, <1>8, <2>3 DEF SameValues
      <3>3. CASE v.has /\ w.has
        BY <1>5, <2>2, <3>2, <3>3
      <3>4. CASE ~(v.has /\ w.has)
        <4>1. b = (v.has = w.has) /\ v.has \in BOOLEAN /\ w.has \in BOOLEAN
          BY <3>2, <3>4 DEF Proper
        <4>2. (mv = Undefined) = ~v.has /\ (mw = Undefined) = ~w.has
          BY <1>6, <1>8, <3>1, <4>1
        <4>3. b = (mv = Undefined /\ mw = Undefined)
          BY <3>4, <4>1, <4>2
        <4>4. mv = Undefined \/ mw = Undefined
          BY <3>4, <4>2
        <4>. QED  BY <1>4, <1>5, <4>3, <4>4 DEF Identical
      <3>. QED  BY <3>3, <3>4
    <2>4. CASE shapes # {"optional"}
      <3>1. ComparesWith(p, q) /\ b \in SameWords(p, v.word, q, w.word)
        BY <1>1, <1>2, <1>8, <2>4 DEF SameValues
      <3>2. (v.type.shape = "optional" => v.has) /\ (w.type.shape = "optional" => w.has)
        BY <1>1, <1>3, <1>8, <2>4
      <3>. QED  BY <1>5, <2>2, <3>1, <3>2
    <2>. QED  BY <2>3, <2>4
  <1>. QED  BY <1>7, <1>8

\* What casts of both to a number bring to one kind.
LEMMA CastsIdentical ==
    ASSUME NEW u, NEW v, u.kind = "number", v.kind \in {"number", "undefined"}, v.kind = "undefined" => v = Undefined
    PROVE  /\ Identical(Converted(u, "number"), Converted(v, "number")) = Identical(u, v)
           /\ Identical(Converted(v, "number"), Converted(u, "number")) = Identical(v, u)
  <1>1. Converted(u, "number") = u
    BY ConvertedToItself
  <1>2. CASE v.kind = "number"
    <2>1. Converted(v, "number") = v
      BY <1>2, ConvertedToItself
    <2>. QED  BY <1>1, <2>1
  <1>3. CASE v.kind = "undefined"
    <2>1. Converted(v, "number") = Num(NaN)
      <3>1. ToNumber(v) = NaN
        BY <1>3 DEF ToNumber
      <3>2. Converted(v, "number") = Num(ToNumber(v))
        BY <1>3 DEF Converted
      <3>. QED  BY <3>1, <3>2
    <2>2. u # v
      BY <1>3
    <2>. QED  BY <1>1, <2>1, <2>2 DEF Identical
  <1>. QED  BY <1>2, <1>3

\* Only undefined is of the kind undefined.
LEMMA UndefinedKind ==
    ASSUME NEW v, WellFormed(v), Initialised(v), Meaning(v).kind = "undefined"
    PROVE  Meaning(v) = Undefined
  <1>1. PICK p \in Tags : p = RuntimeTypeOf(v)
    BY RuntimeTag
  <1>2. Meaning(v) = Read(p, v.word)
    BY <1>1, MeaningByTag
  <1>3. Kind(p) = "undefined"
    BY <1>2, ReadKind DEF Initialised
  <1>4. p = "undefined"
    BY <1>3 DEF Kind
  <1>. QED  BY <1>2, <1>4, Readings

\* Operands that are not cast are compared as they are.
LEMMA UncastEqual ==
    ASSUME NEW l, NEW r, Sound(l), Sound(r), l.js # Unknown, r.js # Unknown,
           l.js.kind = r.js.kind \/ "undefined" \in {l.js.kind, r.js.kind},
           \/ l.val.type.shape = r.val.type.shape
           \/ UndefinedType \in {l.val.type, r.val.type}
           \/ \A e \in {l, r} : e.val.type.shape = "optional" => e.val.has,
           NEW b \in SameValues(l.val, r.val)
    PROVE  b = Identical(l.js, r.js)
  <1>1. PICK v, w : v = l.val /\ w = r.val
    OBVIOUS
  <1>2. WellFormed(v) /\ WellFormed(w) /\ Proper(v) /\ Proper(w) /\ Initialised(v) /\ Initialised(w)
    BY <1>1 DEF Sound, Expression
  <1>3. Meaning(v) = l.js /\ Meaning(w) = r.js
    BY <1>1 DEF Sound
  <1>4. \/ v.type.shape = w.type.shape
        \/ UndefinedType \in {v.type, w.type}
        \/ \A u \in {v, w} : u.type.shape = "optional" => u.has
    BY <1>1
  <1>5. Meaning(v).kind = Meaning(w).kind \/ "undefined" \in {Meaning(v).kind, Meaning(w).kind}
    BY <1>3
  <1>6. b \in SameValues(v, w)
    BY <1>1
  <1>. QED  BY <1>2, <1>3, <1>4, <1>5, <1>6, SameValuesMeans

\* Operands of which one is a number, and that are cast to its type, are
\* compared as numbers.
LEMMA CastEqual ==
    ASSUME NEW l, NEW r, Sound(l), Sound(r), Fits(l.val), Fits(r.val), NEW p \in {"i32", "number"},
           Plain(p) \in {l.val.type, r.val.type}, NEW c \in Cast(l, Plain(p)), NEW d \in Cast(r, Plain(p)),
           c.js # Unknown, d.js # Unknown,
           l.js.kind = r.js.kind \/ "undefined" \in {l.js.kind, r.js.kind}, NEW b \in SameValues(c.val, d.val)
    PROVE  b = Identical(l.js, r.js)
  <1>1. PICK T : T = Plain(p)
    OBVIOUS
  <1>2. T \in Types /\ T.shape = "plain" /\ Elem(T) = p /\ p \in Tags /\ Kind(p) = "number"
    BY <1>1, Forms DEF Types, Tags, Scalars, Kind
  <1>3. /\ Sound(c) /\ c.val.type = T /\ l.js # Unknown /\ c.js = Converted(l.js, "number")
        /\ Sound(d) /\ d.val.type = T /\ r.js # Unknown /\ d.js = Converted(r.js, "number")
    <2>1. ASSUME NEW e, Sound(e), Fits(e.val), NEW f \in Cast(e, T), f.js # Unknown
          PROVE  Sound(f) /\ f.val.type = T /\ e.js # Unknown /\ f.js = Converted(e.js, "number")
      <3>1. Sound(f) /\ e.js # Unknown /\ f.js = Converted(e.js, Kind(Elem(T)))
        BY <1>2, <2>1, CastSound
      <3>2. f.val.type = T
        BY <1>2, <2>1, CastExpression DEF Sound
      <3>. QED  BY <1>2, <3>1, <3>2
    <2>. QED  BY <1>1, <2>1
  <1>4. ASSUME NEW e, Sound(e), e.js # Unknown
        PROVE  (e.val.type = T => e.js.kind = "number") /\ (e.js.kind = "undefined" => e.js = Undefined)
    <2>1. Meaning(e.val) = e.js /\ Initialised(e.val) /\ WellFormed(e.val)
      BY <1>4 DEF Sound, Expression
    <2>2. ASSUME e.val.type = T PROVE e.js.kind = "number"
      <3>1. e.js = Read(p, e.val.word)
        BY <1>2, <2>1, <2>2 DEF Meaning
      <3>. QED  BY <1>2, <2>1, <3>1, ReadKind DEF Initialised
    <2>. QED  BY <2>1, <2>2, UndefinedKind
  <1>5. c.js.kind = "number" /\ d.js.kind = "number"
    BY <1>3, <1>4
  <1>6. b = Identical(c.js, d.js)
    BY <1>3, <1>5, UncastEqual
  <1>7. CASE l.val.type = T
    <2>1. l.js.kind = "number" /\ r.js.kind \in {"number", "undefined"} /\ (r.js.kind = "undefined" => r.js = Undefined)
      BY <1>3, <1>4, <1>7
    <2>. QED  BY <1>3, <1>6, <2>1, CastsIdentical
  <1>8. CASE r.val.type = T
    <2>1. r.js.kind = "number" /\ l.js.kind \in {"number", "undefined"} /\ (l.js.kind = "undefined" => l.js = Undefined)
      BY <1>3, <1>4, <1>8
    <2>. QED  BY <1>3, <1>6, <2>1, CastsIdentical
  <1>. QED  BY <1>1, <1>7, <1>8

\* l === r
LEMMA EqualSound ==
    ASSUME NEW l, NEW r, Sound(l), Sound(r), Fits(l.val), Fits(r.val), NEW z \in StrictEqual(l, r)
    PROVE  Sound(z)
  <1>1. PICK missing, mixed, alike :
            /\ missing = \E e \in {l, r} : e.val.type.shape = "optional" /\ ~e.val.has
            /\ mixed = (Cardinality({T.shape : T \in {l.val.type, r.val.type}}) = 2
                        /\ UndefinedType \notin {l.val.type, r.val.type})
            /\ alike = (l.js.kind = r.js.kind \/ "undefined" \in {l.js.kind, r.js.kind})
    OBVIOUS
  <1>2. PICK pair, b :
            /\ pair \in AdjustedToNumber(l, r) /\ b \in SameValues(pair[1].val, pair[2].val)
            /\ z = BooleanMade(b, IF (missing /\ mixed) \/ ~alike \/ Unknown \in {pair[1].js, pair[2].js} THEN Unknown
                                  ELSE Boolean(Identical(l.js, r.js)))
    BY <1>1 DEF StrictEqual
  <1>3. PICK js : js = IF (missing /\ mixed) \/ ~alike \/ Unknown \in {pair[1].js, pair[2].js} THEN Unknown
                       ELSE Boolean(Identical(l.js, r.js))
    OBVIOUS
  <1>4. b \in BOOLEAN
    BY <1>2 DEF SameValues, SameWords
  <1>5. ASSUME js # Unknown PROVE js = Boolean(b)
    <2>1. ~(missing /\ mixed) /\ alike /\ pair[1].js # Unknown /\ pair[2].js # Unknown /\ js = Boolean(Identical(l.js, r.js))
      BY <1>3, <1>5
    <2>2. CASE pair = <<l, r>>
      <3>1. \/ l.val.type.shape = r.val.type.shape
            \/ UndefinedType \in {l.val.type, r.val.type}
            \/ \A e \in {l, r} : e.val.type.shape = "optional" => e.val.has
        <4>1. CASE missing
          <5>1. PICK s, t : s = l.val.type.shape /\ t = r.val.type.shape
            OBVIOUS
          <5>2. ASSUME s # t PROVE Cardinality({s, t}) = 2
            <6>1. IsFiniteSet({s}) /\ Cardinality({s}) = 1
              BY FS_Singleton
            <6>2. PICK S : S = {s}
              OBVIOUS
            <6>3. Cardinality(S \cup {t}) = IF t \in S THEN Cardinality(S) ELSE Cardinality(S) + 1
              BY <6>1, <6>2, FS_AddElement
            <6>4. t \notin S /\ S \cup {t} = {s, t}
              BY <5>2, <6>2
            <6>5. Cardinality(S) = 1
              BY <6>1, <6>2
            <6>. QED  BY <6>3, <6>4, <6>5
          <5>3. {T.shape : T \in {l.val.type, r.val.type}} = {s, t}
            BY <5>1
          <5>. QED  BY <1>1, <2>1, <4>1, <5>1, <5>2, <5>3
        <4>2. CASE ~missing
          BY <1>1, <4>2
        <4>. QED  BY <4>1, <4>2
      <3>2. pair[1] = l /\ pair[2] = r
        BY <2>2
      <3>3. b = Identical(l.js, r.js)
        BY <1>1, <1>2, <2>1, <3>1, <3>2, UncastEqual
      <3>. QED  BY <2>1, <3>3
    <2>3. CASE pair # <<l, r>>
      <3>1. PICK p \in {"i32", "number"} :
                /\ Plain(p) \in {l.val.type, r.val.type}
                /\ pair \in Cast(l, Plain(p)) \X Cast(r, Plain(p))
        BY <1>2, <2>3 DEF AdjustedToNumber
      <3>2. pair[1] \in Cast(l, Plain(p)) /\ pair[2] \in Cast(r, Plain(p))
        BY <3>1
      <3>3. b = Identical(l.js, r.js)
        BY <1>1, <1>2, <2>1, <3>1, <3>2, CastEqual
      <3>. QED  BY <2>1, <3>3
    <2>. QED  BY <2>2, <2>3
  <1>6. z = BooleanMade(b, js)
    BY <1>2, <1>3
  <1>. QED  BY <1>4, <1>5, <1>6, BooleanSound

-------------------------------------------------------------------------------
\* An expression grows.

\* The variables have values, of the types that they are declared with.
LEMMA OperandSound ==
    ASSUME NEW y \in Operands
    PROVE  Sound(y) /\ Fits(y.val)
  <1>1. PICK v \in Variables : y = Made(v, Meaning(v))
    BY DEF Operands, Load
  <1>2. WellFormed(v) /\ Proper(v) /\ Fits(v) /\ Initialised(v)
    BY TypesAssumption, VariablesAssumption DEF Initialised
  <1>3. Sound(y) /\ y.val = v
    BY <1>1, <1>2, MadeSound
  <1>. QED  BY <1>2, <1>3

\* Every step keeps the meaning.
LEMMA SoundStep ==
    ASSUME Sound(x), Fits(x.val), [Next]_vars
    PROVE  Sound(x') /\ Fits(x'.val)
  <1>1. CASE CastTo
    <2>1. PICK T \in Targets : x' \in Cast(x, T) /\ Fits(x'.val)
      BY <1>1 DEF CastTo, Becomes
    <2>. QED  BY <2>1, TypesAssumption, CastSound
  <1>2. CASE Negates
    <2>1. x' \in Not(x) /\ Fits(x'.val)
      BY <1>2 DEF Negates, Becomes
    <2>. QED  BY <2>1, NotSound
  <1>3. CASE Plus
    <2>1. x' \in UnaryPlus(x) /\ Fits(x'.val)
      BY <1>3 DEF Plus, Becomes
    <2>. QED  BY <2>1, PlusSound
  <1>4. CASE Guard
    <2>1. PICK p \in Scalars : x' \in TypeOfIs(x, p) /\ Fits(x'.val)
      BY <1>4 DEF Guard, Becomes
    <2>. QED  BY <2>1, TypeOfSound
  <1>5. CASE Narrow
    <2>1. PICK p \in Scalars : x' \in Narrowed(x, p) /\ Fits(x'.val)
      BY <1>5 DEF Narrow, Becomes
    <2>. QED  BY <2>1, NarrowSound
  <1>6. CASE Calculate
    <2>1. PICK y \in Operands, op \in {"+", "-"} :
              (x' \in Arithmetic(op, x, y) \/ x' \in Arithmetic(op, y, x)) /\ Fits(x'.val)
      BY <1>6 DEF Calculate, Becomes
    <2>. QED  BY <2>1, OperandSound, ArithmeticSound
  <1>7. CASE Compare
    <2>1. PICK y \in Operands : (x' \in StrictEqual(x, y) \/ x' \in StrictEqual(y, x)) /\ Fits(x'.val)
      BY <1>7 DEF Compare, Becomes
    <2>. QED  BY <2>1, OperandSound, EqualSound
  <1>8. CASE Logic
    <2>1. PICK y \in Operands, isAnd \in BOOLEAN :
              (x' \in AndOr(isAnd, x, y) \/ x' \in AndOr(isAnd, y, x)) /\ Fits(x'.val)
      BY <1>8 DEF Logic, Becomes
    <2>2. Sound(y) /\ Fits(y.val)
      BY OperandSound
    <2>. QED  BY <2>1, <2>2, LogicSound, Zenon
  <1>9. CASE Nullish
    <2>1. PICK y \in Operands : (x' \in Coalesce(x, y) \/ x' \in Coalesce(y, x)) /\ Fits(x'.val)
      BY <1>9 DEF Nullish, Becomes
    <2>. QED  BY <2>1, OperandSound, CoalesceSound
  <1>10. CASE Choose
    <2>1. PICK y \in Operands, c \in BOOLEAN :
              (x' \in Conditional(c, x, y) \/ x' \in Conditional(c, y, x)) /\ Fits(x'.val)
      BY <1>10 DEF Choose, Becomes
    <2>2. Sound(y) /\ Fits(y.val)
      BY OperandSound
    <2>. QED  BY <2>1, <2>2, ConditionalSound, Zenon
  <1>11. CASE UNCHANGED vars
    BY <1>11 DEF vars
  <1>. QED  BY <1>1, <1>2, <1>3, <1>4, <1>5, <1>6, <1>7, <1>8, <1>9, <1>10, <1>11 DEF Next

\* Along any path of casts and operators, what a value is compiled to means what
\* the language says it is, but for the steps that Keeps and the operators name
\* as exceptions (cast, CastOp, the operators and the lowering of each;
\* KeepsMeaning).
THEOREM MeaningIsKept == Spec => []KeepsMeaning
  <1>1. Init => Sound(x) /\ Fits(x.val)
    BY OperandSound DEF Init
  <1>2. (Sound(x) /\ Fits(x.val)) /\ [Next]_vars => (Sound(x) /\ Fits(x.val))'
    BY SoundStep
  <1>3. Sound(x) => KeepsMeaning
    BY DEF Sound, KeepsMeaning
  <1>. QED  BY <1>1, <1>2, <1>3, PTL DEF Spec

=============================================================================
