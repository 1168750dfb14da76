----------------------------- MODULE ValuesProofs ------------------------------
(***************************************************************************)
(* What holds of Values for all variables, types to cast to, numbers and   *)
(* texts, and for expressions of any length: words are never read as what  *)
(* they are not, and the compiler's choice of a common type is accepted by *)
(* its own verifier.                                                       *)
(***************************************************************************)
EXTENDS Values, FiniteSetTheorems, TLAPS

\* An expression that is compiled to a value of one of the program's types.
Expression(e) == e = [val |-> e.val, js |-> e.js] /\ WellFormed(e.val)

-------------------------------------------------------------------------------
\* Types

\* What the type constructors make.
LEMMA Forms ==
    /\ \A p : Plain(p).shape = "plain" /\ Plain(p).of = {p} /\ Elem(Plain(p)) = p
    /\ \A p : Optional(p).shape = "optional" /\ Optional(p).of = {p} /\ Elem(Optional(p)) = p
    /\ \A S : Union(S).shape = "union" /\ Union(S).of = S
    /\ AnyType.shape = "any" /\ AnyType.of = {} /\ Outside.shape = "outside"
  BY DEF Plain, Optional, Union, AnyType, Outside, Type, Elem

\* The types by their shapes.
LEMMA Shapes ==
    ASSUME NEW T \in Types
    PROVE  /\ T.shape \in {"plain", "optional", "union", "any"}
           /\ T.shape = "plain" => \E p \in Tags : T = Plain(p)
           /\ T.shape = "optional" => \E p \in Scalars : T = Optional(p)
           /\ T.shape = "union" => T = Union(T.of) /\ T.of \in (SUBSET Scalars) \ {{}} /\ T.of \in Members
           /\ T.shape = "any" => T = AnyType
           /\ T # Outside
  BY Forms DEF Types, Members

\* The one type a plain type or an optional is of.
LEMMA ElemTag ==
    ASSUME NEW T \in Types, T.shape \in {"plain", "optional"}
    PROVE  Elem(T) \in Tags /\ T.of = {Elem(T)}
  BY Shapes, Forms DEF Tags

-------------------------------------------------------------------------------
\* Words

\* What is cast to q has the representation of a q.
LEMMA CastWordHolds ==
    ASSUME NEW p \in Tags, NEW q \in Tags, NEW w, Holds(p, w)
    PROVE  Holds(q, CastWord(p, q, w))
  <1>1. CASE p = q
    BY <1>1 DEF CastWord
  <1>2. CASE p # q /\ p = "undefined"
    BY <1>2 DEF CastWord, Holds, Ptr, Garbage, Word, Rep
  <1>3. CASE p # q /\ p # "undefined" /\ w.rep # Rep(p)
    BY <1>3 DEF CastWord, Holds, Garbage, Word
  <1>4. CASE p # q /\ p # "undefined" /\ w.rep = Rep(p)
    <2>1. p \in Scalars
      BY <1>4 DEF Tags
    <2>2. CASE q = "string"
      BY <1>4, <2>1, <2>2 DEF CastWord, Holds, ToStringWord, Ptr, Word, Rep, Scalars
    <2>3. CASE q = "number"
      BY <1>4, <2>1, <2>3 DEF CastWord, Holds, ToNumberWord, Garbage, Word, Rep, Scalars
    <2>4. CASE q = "i32"
      BY <1>4, <2>1, <2>4 DEF CastWord, Holds, ToI32Word, ToI32, Garbage, Word, Rep, Scalars
    <2>5. CASE q = "boolean"
      BY <1>4, <2>1, <2>5 DEF CastWord, Holds, ToBooleanWord, Bit, Word, Rep, Scalars
    <2>6. CASE q = "undefined"
      BY <1>4, <2>1, <2>6 DEF CastWord, Holds, Garbage, Word, Rep, Scalars
    <2>. QED  BY <2>2, <2>3, <2>4, <2>5, <2>6 DEF Tags, Scalars
  <1>. QED  BY <1>1, <1>2, <1>3, <1>4

\* A default, and what is read as a p, have its representation.
LEMMA ReadAsHolds ==
    ASSUME NEW p, NEW w
    PROVE  Holds(p, ReadAs(p, w)) /\ Holds(p, Default(p))
  BY DEF Holds, ReadAs, Garbage, Default, Word

\* The values that are made are well formed.
LEMMA PlainWellFormed ==
    ASSUME NEW p \in Tags, NEW w, Holds(p, w)
    PROVE  WellFormed(PlainValue(p, w)) /\ PlainValue(p, w).type = Plain(p)
  <1>1. PlainValue(p, w).type = Plain(p) /\ PlainValue(p, w).word = w
    BY DEF PlainValue, CompiledAs
  <1>2. Plain(p) \in Types
    BY DEF Types
  <1>. QED  BY <1>1, <1>2, Forms DEF WellFormed

\* An optional with a value, and one without.
LEMMA OptionalWellFormed ==
    ASSUME NEW p \in Scalars, NEW w, Holds(p, w)
    PROVE  /\ WellFormed(Some(p, w)) /\ Some(p, w).type = Optional(p)
           /\ WellFormed(Missing(p)) /\ Missing(p).type = Optional(p)
  <1>1. /\ Some(p, w).type = Optional(p) /\ Some(p, w).word = w
        /\ Missing(p).type = Optional(p) /\ Missing(p).word = Default(p)
    BY DEF Some, Missing, CompiledAs
  <1>2. Optional(p) \in Types
    BY DEF Types
  <1>. QED  BY <1>1, <1>2, Forms, ReadAsHolds DEF WellFormed

\* A union and a box, made of a tag and a word that go together.
LEMMA TaggedWellFormed ==
    ASSUME NEW T \in Types, T.shape \in {"union", "any"}, NEW has, NEW tag \in Tags, NEW w,
           tag # "undefined" => Holds(tag, w)
    PROVE  /\ WellFormed(CompiledAs(T, has, tag, w))
           /\ CompiledAs(T, has, tag, w).type = T
  <1>1. /\ CompiledAs(T, has, tag, w).type = T
        /\ CompiledAs(T, has, tag, w).tag = tag
        /\ CompiledAs(T, has, tag, w).word = w
    BY DEF CompiledAs
  <1>. QED  BY <1>1 DEF WellFormed

-------------------------------------------------------------------------------
\* Casts

\* The value of an optional, or its default, fits the type of what it holds.
LEMMA ValueOfOptional ==
    ASSUME NEW v, WellFormed(v), v.type.shape = "optional"
    PROVE  /\ Elem(v.type) \in Scalars /\ Holds(Elem(v.type), v.word)
           /\ ValueOrDefault(v).type = Plain(Elem(v.type))
           /\ Holds(Elem(v.type), ValueOrDefault(v).word)
  <1>1. PICK p \in Scalars : v.type = Optional(p)
    BY Shapes DEF WellFormed
  <1>2. Elem(v.type) = p
    BY <1>1, Forms
  <1>3. Holds(p, v.word) /\ Holds(p, Default(p))
    BY <1>2, ReadAsHolds DEF WellFormed
  <1>4. /\ ValueOrDefault(v).type = Plain(p)
        /\ ValueOrDefault(v).word = IF v.has THEN v.word ELSE Default(p)
    BY <1>2 DEF ValueOrDefault, PlainValue, CompiledAs
  <1>. QED  BY <1>2, <1>3, <1>4

\* typeof tells a type, and the word has its representation.
LEMMA RuntimeTag ==
    ASSUME NEW v, WellFormed(v)
    PROVE  /\ RuntimeTypeOf(v) \in Tags
           /\ RuntimeTypeOf(v) # "undefined" => Holds(RuntimeTypeOf(v), v.word)
  <1>1. CASE v.type.shape = "plain"
    BY <1>1, ElemTag DEF WellFormed, RuntimeTypeOf, StaticTypeOf
  <1>2. CASE v.type.shape = "optional"
    BY <1>2, ValueOfOptional DEF RuntimeTypeOf, StaticTypeOf, Tags
  <1>3. CASE v.type.shape \in {"union", "any"}
    BY <1>3 DEF WellFormed, RuntimeTypeOf
  <1>. QED  BY <1>1, <1>2, <1>3, Shapes DEF WellFormed

\* What a CastOp is lowered to is of the type that was asked for.
LEMMA LowerWellFormed ==
    ASSUME NEW v, WellFormed(v), NEW T \in Types, T.shape # "optional", v.type # T,
           v.type.shape = "any" => T.shape # "plain"
    PROVE  WellFormed(Lower(v, T)) /\ Lower(v, T).type = T
  <1>0. v.type \in Types
    BY DEF WellFormed
  <1>1. CASE T.shape = "any"
    <2>1. T = AnyType /\ Lower(v, T) = Box(v)
      BY <1>1, Shapes, Forms DEF Lower
    <2>2. PICK tag : tag = IF v.type.shape = "union" THEN v.tag ELSE Elem(v.type)
      OBVIOUS
    <2>3. Box(v) = CompiledAs(T, TRUE, tag, v.word)
      BY <2>1, <2>2 DEF Box, StaticTypeOf
    <2>4. CASE v.type.shape = "union"
      <3>1. tag \in Tags /\ (tag # "undefined" => Holds(tag, v.word))
        BY <2>2, <2>4 DEF WellFormed
      <3>2. T.shape \in {"union", "any"}
        BY <1>1
      <3>3. WellFormed(CompiledAs(T, TRUE, tag, v.word)) /\ CompiledAs(T, TRUE, tag, v.word).type = T
        BY <3>1, <3>2, TaggedWellFormed, Zenon
      <3>. QED  BY <2>1, <2>3, <3>3, Zenon
    <2>5. CASE v.type.shape \in {"plain", "optional"}
      <3>1. tag \in Tags /\ Holds(tag, v.word)
        BY <1>0, <2>2, <2>5, ElemTag DEF WellFormed
      <3>2. T.shape \in {"union", "any"}
        BY <1>1
      <3>3. WellFormed(CompiledAs(T, TRUE, tag, v.word)) /\ CompiledAs(T, TRUE, tag, v.word).type = T
        BY <3>1, <3>2, TaggedWellFormed, Zenon
      <3>. QED  BY <2>1, <2>3, <3>3, Zenon
    <2>6. v.type.shape # "any"
      BY <1>0, <2>1, Shapes
    <2>. QED  BY <1>0, <2>4, <2>5, <2>6, Shapes
  <1>2. CASE T.shape = "union"
    <2>1. Lower(v, T) = CompiledAs(T, TRUE, RuntimeTypeOf(v), v.word)
      BY <1>2, Forms DEF Lower, CreateUnionInstance
    <2>2. PICK tag : tag = RuntimeTypeOf(v)
      OBVIOUS
    <2>3. tag \in Tags /\ (tag # "undefined" => Holds(tag, v.word)) /\ T.shape \in {"union", "any"}
      BY <1>2, <2>2, RuntimeTag
    <2>4. WellFormed(CompiledAs(T, TRUE, tag, v.word)) /\ CompiledAs(T, TRUE, tag, v.word).type = T
      BY <2>3, TaggedWellFormed, Zenon
    <2>. QED  BY <2>1, <2>2, <2>4, Zenon
  <1>3. CASE T.shape = "plain"
    <2>1. PICK q \in Tags : T = Plain(q) /\ Elem(T) = q
      BY <1>3, Shapes, Forms
    <2>2. CASE v.type.shape = "union"
      <3>1. Lower(v, T) = PlainValue(q, ReadAs(q, v.word))
        BY <1>3, <2>1, <2>2 DEF Lower
      <3>. QED  BY <2>1, <3>1, ReadAsHolds, PlainWellFormed
    <2>3. CASE v.type.shape = "plain"
      <3>1. Lower(v, T) = PlainValue(q, CastWord(Elem(v.type), q, v.word))
        BY <1>3, <2>1, <2>3 DEF Lower
      <3>2. Elem(v.type) \in Tags /\ Holds(Elem(v.type), v.word)
        BY <1>0, <2>3, ElemTag DEF WellFormed
      <3>. QED  BY <2>1, <3>1, <3>2, CastWordHolds, PlainWellFormed
    <2>4. CASE v.type.shape = "optional" /\ T = Plain("boolean")
      <3>1. Lower(v, T) = OptionalToBoolean(v)
        BY <1>3, <2>4 DEF Lower
      <3>2. Elem(v.type) \in Tags /\ Holds(Elem(v.type), v.word) /\ "boolean" \in Tags
        BY <2>4, ValueOfOptional DEF Tags, Scalars
      <3>3. PICK w : w = IF ~v.has THEN Bit(FALSE) ELSE CastWord(Elem(v.type), "boolean", v.word)
        OBVIOUS
      <3>4. Holds("boolean", w)
        <4>1. Holds("boolean", Bit(FALSE))
          BY DEF Holds, Bit, Word, Rep
        <4>2. Holds("boolean", CastWord(Elem(v.type), "boolean", v.word))
          BY <3>2, CastWordHolds
        <4>. QED  BY <3>3, <4>1, <4>2
      <3>5. Lower(v, T) = PlainValue("boolean", w)
        BY <3>1, <3>3 DEF OptionalToBoolean
      <3>. QED  BY <2>4, <3>2, <3>4, <3>5, PlainWellFormed
    <2>5. CASE v.type.shape = "optional" /\ T # Plain("boolean")
      <3>1. Lower(v, T) = PlainValue(q, CastWord(Elem(v.type), q, ValueOrDefault(v).word))
        BY <1>3, <2>1, <2>5 DEF Lower
      <3>2. Elem(v.type) \in Tags /\ Holds(Elem(v.type), ValueOrDefault(v).word)
        BY <2>5, ValueOfOptional DEF Tags
      <3>. QED  BY <2>1, <3>1, <3>2, CastWordHolds, PlainWellFormed
    <2>. QED  BY <1>0, <1>3, <2>2, <2>3, <2>4, <2>5, Shapes
  <1>. QED  BY <1>1, <1>2, <1>3, Shapes

\* A value that is made an expression.
LEMMA MadeExpression ==
    ASSUME NEW v, NEW js, WellFormed(v)
    PROVE  Expression(Made(v, js)) /\ Made(v, js).val = v
  BY DEF Expression, Made

\* A CastOp gives a value of the type it names.
LEMMA CastOpExpression ==
    ASSUME NEW e, Expression(e), NEW T \in Types, T.shape # "optional", e.val.type # T,
           e.val.type = AnyType => T.shape # "plain", NEW c \in CastOp(e, T)
    PROVE  Expression(c) /\ c.val.type = T
  <1>1. PICK js : c = Made(Lower(e.val, T), js)
    BY DEF CastOp
  <1>2. WellFormed(e.val) /\ (e.val.type.shape = "any" => T.shape # "plain")
    BY Shapes DEF Expression, WellFormed
  <1>3. PICK v : v = Lower(e.val, T)
    OBVIOUS
  <1>4. WellFormed(v) /\ v.type = T
    BY <1>2, <1>3, LowerWellFormed
  <1>. QED  BY <1>1, <1>3, <1>4, MadeExpression

\* What a box is unboxed to.
LEMMA AsExpression ==
    ASSUME NEW e, Expression(e), e.val.type = AnyType, NEW p \in Tags, NEW c \in As(e, p)
    PROVE  Expression(c) /\ c.val.type = Plain(p)
  <1>1. CASE e.val.tag \in {"number", "string", "i32"}
    <2>1. PICK js : c = Made(PlainValue(p, CastWord(e.val.tag, p, e.val.word)), js)
      BY <1>1 DEF As
    <2>2. e.val.tag \in Tags /\ Holds(e.val.tag, e.val.word)
      BY <1>1, Forms DEF Expression, WellFormed
    <2>. QED  BY <2>1, <2>2, CastWordHolds, PlainWellFormed, MadeExpression
  <1>2. CASE e.val.tag \notin {"number", "string", "i32"}
    <2>1. c = Made(PlainValue(p, Default(p)), Unknown)
      BY <1>2 DEF As
    <2>. QED  BY <2>1, ReadAsHolds, PlainWellFormed, MadeExpression
  <1>. QED  BY <1>1, <1>2

\* A cast to a plain type.
LEMMA CastPlainExpression ==
    ASSUME NEW e, Expression(e), NEW p \in Tags, NEW c \in CastPlain(e, p)
    PROVE  Expression(c) /\ c.val.type = Plain(p)
  <1>1. Plain(p) \in Types /\ Plain(p).shape = "plain"
    BY Forms DEF Types
  <1>2. CASE e.val.type = Plain(p)
    BY <1>2 DEF CastPlain
  <1>3. CASE e.val.type # Plain(p) /\ e.val.type = AnyType
    BY <1>3, AsExpression DEF CastPlain
  <1>4. CASE e.val.type # Plain(p) /\ e.val.type # AnyType
    BY <1>1, <1>4, CastOpExpression DEF CastPlain
  <1>. QED  BY <1>2, <1>3, <1>4

\* What is stored in a union is the value, or the value as a member of the union.
LEMMA AsMemberExpression ==
    ASSUME NEW e, Expression(e), NEW T \in Types, T.shape = "union", NEW d \in AsMember(e, T)
    PROVE  /\ Expression(d)
           /\ d = e \/ \E p \in T.of : CanWiden(e.val.type, Plain(p)) /\ d.val.type = Plain(p)
  <1>1. CASE d = e
    BY <1>1
  <1>2. CASE d # e
    <2>1. PICK p \in T.of : CanWiden(e.val.type, Plain(p)) /\ d \in CastPlain(e, p)
      BY <1>2 DEF AsMember
    <2>2. p \in Tags
      BY <2>1, Shapes DEF Tags
    <2>. QED  BY <2>1, <2>2, CastPlainExpression
  <1>. QED  BY <1>1, <1>2

\* A cast gives an expression of the type it names.
LEMMA CastExpression ==
    ASSUME NEW e, Expression(e), NEW T \in Types \cup {Outside}, NEW c \in Cast(e, T)
    PROVE  Expression(c) /\ c.val.type = T
  <1>0. e.val.type \in Types
    BY DEF Expression, WellFormed
  <1>1. CASE e.val.type = T
    BY <1>1 DEF Cast
  <1>2. CASE e.val.type # T /\ T.shape = "optional"
    <2>1. PICK p \in Scalars : T = Optional(p)
      BY <1>2, Shapes, Forms
    <2>2. Elem(T) = p /\ p \in Tags
      BY <2>1, Forms DEF Tags
    <2>3. CASE e.val.type = UndefinedType
      <3>1. c = Made(Missing(p), e.js)
        BY <1>2, <2>2, <2>3 DEF Cast
      <3>. QED  BY <2>1, <2>2, <3>1, ReadAsHolds, OptionalWellFormed, MadeExpression
    <2>4. CASE e.val.type # UndefinedType
      <3>1. PICK d \in CastPlain(e, p) : c = Made(Some(p, d.val.word), d.js)
        BY <1>2, <2>2, <2>4 DEF Cast
      <3>2. WellFormed(d.val) /\ d.val.type = Plain(p)
        BY <2>2, CastPlainExpression DEF Expression
      <3>3. Holds(p, d.val.word)
        BY <3>2, Forms DEF WellFormed
      <3>. QED  BY <2>1, <3>1, <3>3, OptionalWellFormed, MadeExpression
    <2>. QED  BY <2>3, <2>4
  <1>3. CASE e.val.type # T /\ T.shape = "plain"
    <2>1. PICK p \in Tags : T = Plain(p) /\ Elem(T) = p
      BY <1>3, Shapes, Forms
    <2>2. c \in CastPlain(e, p)
      BY <1>3, <2>1 DEF Cast
    <2>. QED  BY <2>1, <2>2, CastPlainExpression
  <1>4. CASE e.val.type # T /\ T.shape = "any"
    <2>1. c \in CastOp(e, T) /\ T \in Types
      BY <1>4, Forms DEF Cast
    <2>. QED  BY <1>4, <2>1, CastOpExpression
  <1>5. CASE e.val.type # T /\ T.shape = "union"
    <2>1. PICK d \in AsMember(e, T) : c \in CastOp(d, T)
      BY <1>5, Forms DEF Cast
    <2>2. T \in Types
      BY <1>5, Forms
    <2>3. Expression(d) /\ d.val.type # T
      <3>1. Expression(d) /\ (d = e \/ \E p : d.val.type = Plain(p))
        BY <1>5, <2>1, <2>2, AsMemberExpression
      <3>. QED  BY <1>5, <3>1, Forms
    <2>. QED  BY <1>5, <2>1, <2>2, <2>3, CastOpExpression
  <1>6. CASE T = Outside
    BY <1>0, <1>6, Shapes, Forms DEF Cast
  <1>. QED  BY <1>1, <1>2, <1>3, <1>4, <1>5, <1>6, Shapes

-------------------------------------------------------------------------------
\* The type two operands are merged to

\* The verifier accepts a cast from S to T, or none is needed.
Takes(S, T) ==
    \/ S = T
    \/ T.shape \in {"any", "union"} /\ Verifies(S, T)
    \/ /\ T.shape \in {"plain", "optional"}
       /\ \/ S \in {AnyType, Plain(Elem(T))}
          \/ S = UndefinedType /\ T.shape = "optional"
          \/ Verifies(S, Plain(Elem(T)))

\* Casts between types that are no unions are always accepted.
LEMMA NoUnionVerifies ==
    ASSUME NEW S, NEW T, S.shape # "union", T.shape # "union"
    PROVE  Verifies(S, T)
  BY DEF Verifies

\* Such a cast gives something.
LEMMA TakesCasts ==
    ASSUME NEW e, Expression(e), NEW T \in Types, Takes(e.val.type, T)
    PROVE  Cast(e, T) # {}
  <1>0. e.val.type \in Types
    BY DEF Expression, WellFormed
  <1>1. \A U : Verifies(e.val.type, U) => CastOp(e, U) # {}
    BY DEF CastOp
  <1>2. \A p : As(e, p) # {}
    BY DEF As
  <1>3. ASSUME NEW p, e.val.type \in {AnyType, Plain(p)} \/ Verifies(e.val.type, Plain(p))
        PROVE  CastPlain(e, p) # {}
    BY <1>1, <1>2, <1>3 DEF CastPlain
  <1>9. T # Outside
    BY Shapes
  <1>4. CASE e.val.type = T
    <2>1. Cast(e, T) = {e}
      BY <1>4, <1>9 DEF Cast
    <2>. QED  BY <2>1
  <1>5. CASE e.val.type # T /\ T.shape = "any"
    <2>1. Cast(e, T) = CastOp(e, T)
      BY <1>5, <1>9 DEF Cast
    <2>. QED  BY <1>1, <1>5, <2>1 DEF Takes
  <1>8. CASE e.val.type # T /\ T.shape = "union"
    <2>1. SUFFICES \E d \in AsMember(e, T) : CastOp(d, T) # {}
      BY <1>8, <1>9 DEF Cast
    <2>2. CASE AsMember(e, T) = {e}
      BY <1>1, <1>8, <2>2 DEF Takes
    <2>3. CASE AsMember(e, T) # {e}
      <3>1. PICK p \in T.of : CanWiden(e.val.type, Plain(p)) /\ CastPlain(e, p) \subseteq AsMember(e, T)
        BY <2>3 DEF AsMember
      <3>2. e.val.type.shape # "union" /\ Plain(p).shape # "union"
        BY <3>1, Forms DEF CanWiden, UndefinedType
      <3>3. PICK d : d \in CastPlain(e, p)
        BY <1>3, <3>2, NoUnionVerifies
      <3>4. p \in Tags
        BY <1>8, <3>1, Shapes DEF Tags
      <3>5. d.val.type = Plain(p)
        BY <3>3, <3>4, CastPlainExpression
      <3>6. Verifies(Plain(p), T)
        <4>1. StripOptional(Plain(p)) = Plain(p) /\ CanWiden(Plain(p), Plain(p))
          BY Forms DEF StripOptional, CanWiden
        <4>. QED  BY <1>8, <3>1, <3>2, <4>1 DEF Verifies
      <3>. QED  BY <1>1, <3>1, <3>3, <3>5, <3>6 DEF CastOp
    <2>. QED  BY <2>2, <2>3
  <1>6. CASE e.val.type # T /\ T.shape = "plain"
    <2>1. Cast(e, T) = CastPlain(e, Elem(T))
      BY <1>6, <1>9 DEF Cast
    <2>. QED  BY <1>3, <1>6, <2>1 DEF Takes
  <1>7. CASE e.val.type # T /\ T.shape = "optional"
    <2>1. CASE e.val.type = UndefinedType
      <3>1. Cast(e, T) = {Made(Missing(Elem(T)), e.js)}
        BY <1>7, <1>9, <2>1 DEF Cast
      <3>. QED  BY <3>1
    <2>2. CASE e.val.type # UndefinedType
      <3>1. Cast(e, T) = {Made(Some(Elem(T), c.val.word), c.js) : c \in CastPlain(e, Elem(T))}
        BY <1>7, <1>9, <2>2 DEF Cast
      <3>2. CastPlain(e, Elem(T)) # {}
        BY <1>3, <1>7, <2>2 DEF Takes
      <3>. QED  BY <3>1, <3>2
    <2>. QED  BY <2>1, <2>2
  <1>. QED  BY <1>4, <1>5, <1>6, <1>7, <1>8, Shapes

\* A type takes what widens to it.
LEMMA WidenedTakes ==
    ASSUME NEW S \in Types, NEW T \in Types, CanWiden(S, T)
    PROVE  Takes(S, T)
  <1>1. CASE S = T
    BY <1>1 DEF Takes
  <1>2. CASE S = Plain("i32") /\ T = Plain("number")
    BY <1>2, NoUnionVerifies, Forms DEF Takes
  <1>3. CASE S = UndefinedType /\ T.shape = "optional"
    BY <1>3 DEF Takes
  <1>4. CASE S.shape \in {"plain", "optional"} /\ T.shape = "optional"
    BY <1>4, NoUnionVerifies, Forms DEF Takes
  <1>. QED  BY <1>1, <1>2, <1>3, <1>4 DEF CanWiden

\* Where neither of two types widens to the other, and neither is boxed or an
\* optional: the members of both, without i32 if there is number.
Merged(of) == IF "number" \in of THEN of \ {"i32"} ELSE of

\* The members that the merged type has.
\* The members that remain are some of those merged.
LEMMA MergedMembers ==
    ASSUME NEW of \in SUBSET Tags, of # {}
    PROVE  /\ Merged(of) # {} /\ Merged(of) \subseteq of
           /\ IsFiniteSet(Merged(of)) /\ IsFiniteSet(Merged(of) \ {"undefined"})
           /\ \A p \in of : \E q \in Merged(of) : CanWiden(Plain(p), Plain(q)) /\ (p # q => p = "i32" /\ q = "number")
  <1>1. Merged(of) # {} /\ Merged(of) \subseteq of
    BY DEF Merged
  <1>2. ASSUME NEW p \in of
        PROVE  \E q \in Merged(of) : CanWiden(Plain(p), Plain(q)) /\ (p # q => p = "i32" /\ q = "number")
    <2>1. CASE p \in Merged(of)
      BY <2>1 DEF CanWiden
    <2>2. CASE p \notin Merged(of)
      <3>1. p = "i32" /\ "number" \in Merged(of)
        BY <1>2, <2>2 DEF Merged
      <3>. QED  BY <3>1 DEF CanWiden
    <2>. QED  BY <2>1, <2>2
  <1>3. IsFiniteSet(Tags)
    <2>1. \A X, p : IsFiniteSet(X) => IsFiniteSet(X \cup {p})
      BY FS_AddElement
    <2>2. IsFiniteSet({"boolean"})
      BY FS_Singleton
    <2>3. IsFiniteSet(({"boolean"} \cup {"i32"}) \cup {"number"})
      BY <2>1, <2>2
    <2>4. IsFiniteSet(((({"boolean"} \cup {"i32"}) \cup {"number"}) \cup {"string"}) \cup {"undefined"})
      BY <2>1, <2>3
    <2>5. Tags = ((({"boolean"} \cup {"i32"}) \cup {"number"}) \cup {"string"}) \cup {"undefined"}
      BY DEF Tags, Scalars
    <2>. QED  BY <2>4, <2>5
  <1>4. Merged(of) \in SUBSET Tags /\ Merged(of) \ {"undefined"} \in SUBSET Tags
    BY <1>1
  <1>. QED  BY <1>1, <1>2, <1>3, <1>4, FS_Subset

\* A member of a set of one is what the set holds.
LEMMA OnlyMember ==
    ASSUME NEW R, IsFiniteSet(R), Cardinality(R) = 1
    PROVE  R = {Elem(Type("", R))} /\ Elem(Type("", R)) \in R
  <1>1. PICK q : R = {q}
    BY FS_Singleton
  <1>2. Elem(Type("", R)) = q
    BY <1>1 DEF Elem, Type
  <1>. QED  BY <1>1, <1>2

\* What merging two types gives, where neither widens to the other.
MergedType(S, T) ==
    LET of     == S.of \cup T.of
        rest   == Merged(of) \ {"undefined"}
    IN  IF AnyType \in {S, T} THEN AnyType
        ELSE IF "optional" \in {S.shape, T.shape} THEN Outside
        ELSE IF "undefined" \in of THEN IF Cardinality(rest) = 1 THEN Optional(Elem(Type("", rest))) ELSE Outside
        ELSE IF Cardinality(Merged(of)) = 1 THEN Plain(Elem(Type("", Merged(of)))) ELSE Union(Merged(of))

\* Two types are merged to a type of the program, or are rejected.
\* Which of the two types, or their merge, is chosen.
LEMMA UnionTypes ==
    ASSUME NEW S, NEW T
    PROVE  /\ CanWiden(S, T) => UnionType(S, T) = T
           /\ ~CanWiden(S, T) /\ CanWiden(T, S) => UnionType(S, T) = S
           /\ ~CanWiden(S, T) /\ ~CanWiden(T, S) => UnionType(S, T) = MergedType(S, T)
  BY DEF UnionType, MergedType, Merged

\* A plain type or union of which every member widens to a q is taken by types
\* that hold a q.
LEMMA MembersTake ==
    ASSUME NEW S \in Types, S.shape \in {"plain", "union"}, NEW p \in S.of, NEW q \in Tags,
           CanWiden(Plain(p), Plain(q))
    PROVE  /\ Takes(S, Plain(q))
           /\ Takes(S, Optional(q))
           /\ \A R : q \in R => Takes(S, Union(R))
  <1>1. CASE S.shape = "plain"
    <2>1. S = Plain(p)
      BY <1>1, Shapes, Forms
    <2>2. Verifies(S, Plain(q))
      BY <1>1, NoUnionVerifies, Forms
    <2>3. ASSUME NEW R, q \in R PROVE Verifies(S, Union(R))
      <3>1. StripOptional(S) = Plain(p)
        BY <1>1, <2>1 DEF StripOptional
      <3>2. S.shape # "union" /\ Union(R).shape = "union" /\ \E t \in Union(R).of : CanWiden(StripOptional(S), Plain(t))
        BY <1>1, <2>3, <3>1, Forms
      <3>. QED  BY <3>2 DEF Verifies
    <2>. QED  BY <2>2, <2>3, Forms DEF Takes
  <1>2. CASE S.shape = "union"
    <2>1. Verifies(S, Plain(q))
      BY <1>2, Forms DEF Verifies
    <2>2. ASSUME NEW R, q \in R PROVE Verifies(S, Union(R))
      BY <1>2, <2>2, Forms DEF Verifies
    <2>. QED  BY <2>1, <2>2, Forms DEF Takes
  <1>. QED  BY <1>1, <1>2

\* A type that is neither boxed nor an optional has members.
LEMMA MemberSets ==
    ASSUME NEW V \in Types, V # AnyType, V.shape # "optional"
    PROVE  V.shape \in {"plain", "union"} /\ V.of \in SUBSET Tags /\ V.of # {}
  <1>1. CASE V.shape = "plain"
    <2>1. PICK p \in Tags : V = Plain(p)
      BY <1>1, Shapes
    <2>2. V.of = {p}
      BY <2>1, Forms
    <2>. QED  BY <1>1, <2>2
  <1>2. CASE V.shape = "union"
    <2>1. V.of \subseteq Scalars /\ V.of # {}
      BY <1>2, Shapes
    <2>. QED  BY <1>2, <2>1 DEF Tags
  <1>. QED  BY <1>1, <1>2, Shapes

\* What merging gives is a type that takes both.
LEMMA MergedTakes ==
    ASSUME NEW S \in Types, NEW U \in Types
    PROVE  LET T == MergedType(S, U) IN
           /\ T \in Types \cup {Outside}
           /\ T # Outside => Takes(S, T) /\ Takes(U, T)
  <1> DEFINE T == MergedType(S, U)
             of == S.of \cup U.of
             M  == Merged(of)
             R  == M \ {"undefined"}
  <1>1. CASE AnyType \in {S, U}
    <2>1. T = AnyType
      BY <1>1 DEF MergedType
    <2>2. \A V : Verifies(V, AnyType)
      BY Forms DEF Verifies
    <2>3. AnyType \in Types /\ AnyType.shape = "any"
      BY Forms DEF Types
    <2>. QED  BY <2>1, <2>2, <2>3 DEF Takes
  <1>2. CASE AnyType \notin {S, U} /\ "optional" \in {S.shape, U.shape}
    <2>1. T = Outside
      BY <1>2 DEF MergedType
    <2>. QED  BY <2>1
  <1>3. CASE AnyType \notin {S, U} /\ "optional" \notin {S.shape, U.shape}
    <2>1. /\ S.shape \in {"plain", "union"} /\ S.of \in SUBSET Tags /\ S.of # {}
          /\ U.shape \in {"plain", "union"} /\ U.of \in SUBSET Tags /\ U.of # {}
      BY <1>3, MemberSets
    <2>2. of \in SUBSET Tags /\ of # {}
      BY <2>1
    <2>3. /\ M # {} /\ M \subseteq of /\ IsFiniteSet(M) /\ IsFiniteSet(R)
          /\ \A p \in of : \E q \in M : CanWiden(Plain(p), Plain(q)) /\ (p # q => p = "i32" /\ q = "number")
      BY <2>2, MergedMembers
    <2> HIDE DEF T, of, M, R
    <2>4. CASE "undefined" \in of
      <3>1. T = IF Cardinality(R) = 1 THEN Optional(Elem(Type("", R))) ELSE Outside
        BY <1>3, <2>4 DEF MergedType, T, of, M, R
      <3>2. ASSUME Cardinality(R) = 1
            PROVE  T \in Types /\ Takes(S, T) /\ Takes(U, T)
        <4>1. PICK q : R = {q} /\ q \in R /\ T = Optional(q)
          BY <2>3, <3>1, <3>2, OnlyMember
        <4>2. q \in Scalars /\ q \in Tags
          BY <2>2, <2>3, <4>1 DEF R, Tags
        <4>3. ASSUME NEW V \in Types, V.shape \in {"plain", "union"}, V.of # {}, V.of \subseteq of
              PROVE  Takes(V, T)
          <5>1. CASE V = UndefinedType
            BY <4>1, <5>1, Forms DEF Takes
          <5>2. CASE V # UndefinedType
            <6>1. PICK p \in V.of : p # "undefined"
              BY <4>3, <5>2, Shapes, Forms DEF UndefinedType, Scalars
            <6>2. PICK z \in M : CanWiden(Plain(p), Plain(z)) /\ (p # z => p = "i32" /\ z = "number")
              BY <2>3, <4>3, <6>1
            <6>3. z = q
              BY <4>1, <6>1, <6>2 DEF R
            <6>. QED  BY <4>1, <4>2, <4>3, <6>1, <6>2, <6>3, MembersTake
          <5>. QED  BY <5>1, <5>2
        <4>4. T \in Types
          BY <4>1, <4>2 DEF Types
        <4>. QED  BY <2>1, <4>3, <4>4 DEF of
      <3>. QED  BY <3>1, <3>2 DEF T
    <2>5. CASE "undefined" \notin of
      <3>1. T = IF Cardinality(M) = 1 THEN Plain(Elem(Type("", M))) ELSE Union(M)
        BY <1>3, <2>5 DEF MergedType, T, of, M
      <3>2. M \in (SUBSET Scalars) \ {{}}
        <4>1. M \subseteq Tags /\ "undefined" \notin M
          BY <2>2, <2>3, <2>5
        <4>2. M \subseteq Scalars
          BY <4>1 DEF Tags
        <4>3. M # {}
          BY <2>3
        <4>. QED  BY <4>2, <4>3
      <3>3. CASE Cardinality(M) = 1
        <4>1. PICK q : M = {q} /\ q \in M /\ T = Plain(q)
          BY <2>3, <3>1, <3>3, OnlyMember
        <4>2. q \in Tags /\ T \in Types
          BY <3>2, <4>1 DEF Tags, Types
        <4>3. ASSUME NEW V \in Types, V.shape \in {"plain", "union"}, V.of # {}, V.of \subseteq of
              PROVE  Takes(V, T)
          <5>1. PICK p : p \in V.of
            BY <4>3
          <5>2. CanWiden(Plain(p), Plain(q))
            BY <2>3, <4>1, <4>3, <5>1
          <5>. QED  BY <4>1, <4>2, <4>3, <5>1, <5>2, MembersTake
        <4>. QED  BY <2>1, <4>2, <4>3 DEF of, T
      <3>4. CASE Cardinality(M) # 1
        <4>0. M \in Members
          <5>1. \A p \in M : M # {p}
            BY <3>4, FS_Singleton
          <5>2. ~({"i32", "number"} \subseteq M)
            BY DEF M, Merged
          <5>3. \A p \in Scalars : M # {p}
            BY <5>1
          <5>. QED  BY <3>2, <5>1, <5>2, <5>3 DEF Members
        <4>1. T = Union(M) /\ T \in Types
          BY <3>1, <3>4, <4>0 DEF Types
        <4>2. ASSUME NEW V \in Types, V.shape \in {"plain", "union"}, V.of # {}, V.of \subseteq of
              PROVE  Takes(V, T)
          <5>1. PICK p : p \in V.of
            BY <4>2
          <5>2. PICK q \in M : CanWiden(Plain(p), Plain(q))
            BY <2>3, <4>2, <5>1
          <5>3. q \in Tags
            BY <2>2, <2>3
          <5>. QED  BY <4>1, <4>2, <5>1, <5>2, <5>3, MembersTake
        <4>. QED  BY <2>1, <4>1, <4>2 DEF of, T
      <3>. QED  BY <3>3, <3>4
    <2>. QED  BY <2>4, <2>5
  <1>. QED  BY <1>1, <1>2, <1>3

\* So does what the generator merges two types to, where it merges them at all.
LEMMA UnionTypeTakes ==
    ASSUME NEW S \in Types, NEW U \in Types
    PROVE  /\ UnionType(S, U) \in Types \cup {Outside}
           /\ UnionType(S, U) # Outside => Takes(S, UnionType(S, U)) /\ Takes(U, UnionType(S, U))
  <1>1. \A T : Takes(T, T)
    BY DEF Takes
  <1>2. CASE CanWiden(S, U)
    BY <1>1, <1>2, UnionTypes, WidenedTakes
  <1>3. CASE ~CanWiden(S, U) /\ CanWiden(U, S)
    BY <1>1, <1>3, UnionTypes, WidenedTakes
  <1>4. CASE ~CanWiden(S, U) /\ ~CanWiden(U, S)
    <2>1. UnionType(S, U) = MergedType(S, U)
      BY <1>4, UnionTypes
    <2>. QED  BY <2>1, MergedTakes
  <1>. QED  BY <1>2, <1>3, <1>4

\* The base type of two types is one of the program's.
LEMMA BaseTypes ==
    ASSUME NEW S \in Types, NEW U \in Types
    PROVE  BaseType(S, U) \in Types \cup {Outside}
  BY UnionTypeTakes DEF BaseType

-------------------------------------------------------------------------------
\* Operators

\* A boolean that is made has one bit.
LEMMA BooleanExpression ==
    ASSUME NEW b, NEW js
    PROVE  Expression(BooleanMade(b, js))
  <1>1. Holds("boolean", Bit(b))
    BY DEF Holds, Bit, Word, Rep
  <1>2. "boolean" \in Tags
    BY DEF Tags, Scalars
  <1>3. WellFormed(PlainValue("boolean", Bit(b)))
    <2>1. PICK w : w = Bit(b)
      OBVIOUS
    <2>2. WellFormed(PlainValue("boolean", w))
      BY <1>1, <1>2, <2>1, PlainWellFormed
    <2>. QED  BY <2>1, <2>2
  <1>4. PICK v : v = PlainValue("boolean", Bit(b))
    OBVIOUS
  <1>5. Expression(Made(v, js))
    BY <1>3, <1>4, MadeExpression
  <1>. QED  BY <1>4, <1>5 DEF BooleanMade

\* !e
LEMMA NotExpression ==
    ASSUME NEW e, NEW z \in Not(e)
    PROVE  Expression(z)
  <1>1. PICK b, js : z = BooleanMade(b, js)
    BY DEF Not
  <1>. QED  BY <1>1, BooleanExpression

\* typeof e == p
LEMMA TypeOfExpression ==
    ASSUME NEW e, NEW p, NEW z \in TypeOfIs(e, p)
    PROVE  Expression(z)
  <1>1. PICK b, js : z = BooleanMade(b, js)
    BY DEF TypeOfIs
  <1>. QED  BY <1>1, BooleanExpression

\* l === r
LEMMA EqualExpression ==
    ASSUME NEW l, NEW r, NEW z \in StrictEqual(l, r)
    PROVE  Expression(z)
  <1>1. PICK b, js : z = BooleanMade(b, js)
    BY DEF StrictEqual
  <1>. QED  BY <1>1, BooleanExpression

\* +e
LEMMA PlusExpression ==
    ASSUME NEW e, Expression(e), NEW z \in UnaryPlus(e)
    PROVE  Expression(z)
  <1>1. CASE e.val.type \in {Plain("i32"), Plain("number")}
    <2>1. z = Made(e.val, e.js)
      BY <1>1 DEF UnaryPlus
    <2>. QED  BY <2>1, MadeExpression DEF Expression
  <1>2. CASE e.val.type \notin {Plain("i32"), Plain("number")}
    <2>1. PICK c \in Cast(e, Plain("number")) : z = Made(c.val, c.js)
      BY <1>2 DEF UnaryPlus
    <2>2. Plain("number") \in Types
      BY DEF Types, Tags, Scalars
    <2>. QED  BY <2>1, <2>2, CastExpression, MadeExpression DEF Expression
  <1>. QED  BY <1>1, <1>2

\* What typeof guards is read as what typeof told.
LEMMA NarrowExpression ==
    ASSUME NEW e, Expression(e), NEW p \in Scalars, NEW z \in Narrowed(e, p)
    PROVE  Expression(z)
  <1>0. p \in Tags /\ RuntimeTypeOf(e.val) = p
    BY DEF Tags, Narrowed
  <1>1. CASE e.val.type = AnyType
    <2>1. AnyType # Optional(p)
      BY Forms
    <2>2. z = Made(PlainValue(p, ReadAs(p, e.val.word)), e.js)
      BY <1>0, <1>1, <2>1 DEF Narrowed, Unbox
    <2>. QED  BY <1>0, <2>2, ReadAsHolds, PlainWellFormed, MadeExpression
  <1>2. CASE e.val.type = Optional(p) /\ e.val.type # AnyType
    <2>1. z = Made(PlainValue(p, e.val.word), e.js)
      BY <1>0, <1>2 DEF Narrowed
    <2>2. Holds(p, e.val.word)
      BY <1>2, Forms DEF Expression, WellFormed
    <2>. QED  BY <1>0, <2>1, <2>2, PlainWellFormed, MadeExpression
  <1>3. CASE e.val.type \notin {AnyType, Optional(p)}
    <2>1. PICK c \in CastPlain(e, p) : z = [c EXCEPT !.js = e.js]
      BY <1>0, <1>3 DEF Narrowed
    <2>2. Expression(c)
      BY <1>0, <2>1, CastPlainExpression
    <2>3. z = [val |-> c.val, js |-> e.js]
      BY <2>1, <2>2 DEF Expression
    <2>. QED  BY <2>2, <2>3 DEF Expression
  <1>. QED  BY <1>1, <1>2, <1>3

\* An operand of arithmetic is no optional.
LEMMA UnwrappedExpression ==
    ASSUME NEW e, Expression(e)
    PROVE  Expression(Unwrapped(e))
  <1>1. CASE e.val.type.shape = "optional"
    <2>1. PICK js : Unwrapped(e) = Made(ValueOrDefault(e.val), js)
      BY <1>1 DEF Unwrapped
    <2>2. WellFormed(e.val)
      BY DEF Expression
    <2>3. WellFormed(ValueOrDefault(e.val))
      <3>1. /\ Elem(e.val.type) \in Tags
            /\ Holds(Elem(e.val.type), ValueOrDefault(e.val).word)
        BY <1>1, <2>2, ValueOfOptional DEF Tags
      <3>2. ValueOrDefault(e.val) = PlainValue(Elem(e.val.type), ValueOrDefault(e.val).word)
        BY DEF ValueOrDefault, PlainValue, CompiledAs
      <3>. QED  BY <3>1, <3>2, PlainWellFormed
    <2>. QED  BY <2>1, <2>3, MadeExpression
  <1>2. CASE e.val.type.shape # "optional"
    BY <1>2 DEF Unwrapped
  <1>. QED  BY <1>1, <1>2

\* Both operands are cast to a type of the program.
LEMMA AdjustedExpressions ==
    ASSUME NEW l, NEW r, Expression(l), Expression(r),
           NEW pair \in AdjustedToLeft(l, r) \cup AdjustedToNumber(l, r)
    PROVE  Expression(pair[1]) /\ Expression(pair[2])
  <1>1. \/ pair = <<l, r>>
        \/ \E T \in {l.val.type, r.val.type, Plain("number"), Plain("i32")} : pair \in Cast(l, T) \X Cast(r, T)
    BY DEF AdjustedToLeft, AdjustedToNumber
  <1>2. {l.val.type, r.val.type, Plain("number"), Plain("i32")} \subseteq Types
    BY DEF Expression, WellFormed, Types, Tags, Scalars
  <1>3. CASE pair = <<l, r>>
    BY <1>3
  <1>4. ASSUME NEW T \in Types, pair \in Cast(l, T) \X Cast(r, T)
        PROVE  Expression(pair[1]) /\ Expression(pair[2])
    <2>1. pair[1] \in Cast(l, T) /\ pair[2] \in Cast(r, T)
      BY <1>4
    <2>. QED  BY <2>1, CastExpression
  <1>. QED  BY <1>1, <1>2, <1>3, <1>4

\* l + r and l - r
LEMMA ArithmeticExpression ==
    ASSUME NEW op, NEW l, NEW r, Expression(l), Expression(r), NEW z \in Arithmetic(op, l, r)
    PROVE  Expression(z)
  <1>1. PICK ul, ur : ul = Unwrapped(l) /\ ur = Unwrapped(r)
    OBVIOUS
  <1>2. Expression(ul) /\ Expression(ur)
    BY <1>1, UnwrappedExpression
  <1>3. PICK pair, js :
            /\ pair \in AdjustedToLeft(ul, ur) \cup AdjustedToNumber(ul, ur)
            /\ Operates(op, pair[1].val.type, pair[2].val.type)
            /\ z = Made(PlainValue(Elem(pair[1].val.type), Operate(op, pair[1].val.word, pair[2].val.word)), js)
    BY <1>1 DEF Arithmetic
  <1>4. Expression(pair[1]) /\ Expression(pair[2])
    BY <1>2, <1>3, AdjustedExpressions
  <1>5. PICK p : p = Elem(pair[1].val.type)
    OBVIOUS
  <1>6. p \in Scalars /\ p \in Tags /\ Holds(p, pair[1].val.word) /\ Holds(p, pair[2].val.word)
    <2>1. pair[1].val.type = pair[2].val.type /\ pair[1].val.type.shape = "plain" /\ pair[1].val.type.of \subseteq Scalars
      BY <1>3 DEF Operates
    <2>2. p \in pair[1].val.type.of /\ p \in Tags
      BY <1>4, <1>5, <2>1, ElemTag DEF Expression, WellFormed
    <2>. QED  BY <1>4, <1>5, <2>1, <2>2 DEF Expression, WellFormed
  <1>7. ASSUME NEW a, NEW b, Holds(p, a), Holds(p, b)
        PROVE  Holds(p, Operate(op, a, b))
    BY <1>6, <1>7 DEF Holds, Operate, Garbage, Bit, Ptr, Word, Rep, Scalars
  <1>8. WellFormed(PlainValue(p, Operate(op, pair[1].val.word, pair[2].val.word)))
    BY <1>6, <1>7, PlainWellFormed
  <1>. QED  BY <1>3, <1>5, <1>8, MadeExpression

\* One of two operands that were cast to one type.
LEMMA EitherExpression ==
    ASSUME NEW l, NEW r, Expression(l), Expression(r), NEW T \in Types \cup {Outside},
           NEW pl \in Cast(l, T), NEW pr \in Cast(r, T), NEW js, NEW v \in {pl.val, pr.val}
    PROVE  Expression(Made(v, js))
  <1>1. WellFormed(pl.val) /\ WellFormed(pr.val)
    BY CastExpression DEF Expression
  <1>. QED  BY <1>1, MadeExpression

\* l && r and l || r
LEMMA LogicExpression ==
    ASSUME NEW isAnd, NEW l, NEW r, Expression(l), Expression(r), NEW z \in AndOr(isAnd, l, r)
    PROVE  Expression(z)
  <1>1. PICK T : T = UnionType(l.val.type, r.val.type)
    OBVIOUS
  <1>2. PICK t, b, js : /\ t \in Cast(l, BooleanType) \X Cast(l, T) \X Cast(r, T) /\ b \in Truth(t[1].val.word)
                        /\ z = Made((IF b = isAnd THEN t[3] ELSE t[2]).val, js)
    <2>1. PICK t, b : /\ t \in Cast(l, BooleanType) \X Cast(l, T) \X Cast(r, T) /\ b \in Truth(t[1].val.word)
                      /\ z = Made((IF b = isAnd THEN t[3] ELSE t[2]).val,
                                  Known((IF Truthy(l.js) = isAnd THEN t[3] ELSE t[2]).js, {t[1].js}))
      BY <1>1 DEF AndOr
    <2>. QED  BY <2>1
  <1>3. t[2] \in Cast(l, T) /\ t[3] \in Cast(r, T)
    BY <1>2
  <1>4. T \in Types \cup {Outside}
    BY <1>1, UnionTypeTakes DEF Expression, WellFormed
  <1>5. PICK v : v \in {t[2].val, t[3].val} /\ z = Made(v, js)
    BY <1>2
  <1>. QED  BY <1>3, <1>4, <1>5, EitherExpression

\* l ?? r
LEMMA CoalesceExpression ==
    ASSUME NEW l, NEW r, Expression(l), Expression(r), NEW z \in Coalesce(l, r)
    PROVE  Expression(z)
  <1>1. PICK T : T = BaseType(r.val.type, l.val.type)
    OBVIOUS
  <1>2. PICK t, js : /\ t \in Cast(l, T) \X Cast(r, T) \X Coalesces(l)
                     /\ z = Made((IF t[3] THEN t[2] ELSE t[1]).val, js)
    BY <1>1 DEF Coalesce
  <1>3. t[1] \in Cast(l, T) /\ t[2] \in Cast(r, T)
    BY <1>2
  <1>4. T \in Types \cup {Outside}
    BY <1>1, BaseTypes DEF Expression, WellFormed
  <1>5. PICK v : v \in {t[1].val, t[2].val} /\ z = Made(v, js)
    BY <1>2
  <1>. QED  BY <1>3, <1>4, <1>5, EitherExpression

\* c ? l : r
LEMMA ConditionalExpression ==
    ASSUME NEW c \in BOOLEAN, NEW l, NEW r, Expression(l), Expression(r), NEW z \in Conditional(c, l, r)
    PROVE  Expression(z)
  <1>1. PICK T : T = BaseType(l.val.type, r.val.type)
    OBVIOUS
  <1>2. PICK t \in Cast(l, T) \X Cast(r, T) : z = Made(t[IF c THEN 1 ELSE 2].val, t[IF c THEN 1 ELSE 2].js)
    BY <1>1 DEF Conditional
  <1>3. t[1] \in Cast(l, T) /\ t[2] \in Cast(r, T)
    BY <1>2
  <1>4. T \in Types \cup {Outside}
    BY <1>1, BaseTypes DEF Expression, WellFormed
  <1>5. PICK v, js : v \in {t[1].val, t[2].val} /\ z = Made(v, js)
    BY <1>2
  <1>. QED  BY <1>3, <1>4, <1>5, EitherExpression

-------------------------------------------------------------------------------
\* An expression grows.

\* A variable, as an operand.
LEMMA OperandExpression ==
    ASSUME NEW y \in Operands
    PROVE  Expression(y) /\ y.val.type \in Types
  <1>1. PICK v \in Variables : y = Made(v, Meaning(v))
    BY DEF Operands, Load
  <1>. QED  BY <1>1, TypesAssumption, MadeExpression DEF WellFormed

\* Every step keeps words and types together.
LEMMA ExpressionStep ==
    ASSUME Expression(x), [Next]_vars
    PROVE  Expression(x')
  <1>1. CASE CastTo
    <2>1. PICK T \in Targets : x' \in Cast(x, T)
      BY <1>1 DEF CastTo, Becomes
    <2>. QED  BY <2>1, TypesAssumption, CastExpression
  <1>2. CASE Negates
    <2>1. x' \in Not(x)
      BY <1>2 DEF Negates, Becomes
    <2>. QED  BY <2>1, NotExpression
  <1>3. CASE Plus
    <2>1. x' \in UnaryPlus(x)
      BY <1>3 DEF Plus, Becomes
    <2>. QED  BY <2>1, PlusExpression
  <1>4. CASE Guard
    <2>1. PICK p \in Scalars : x' \in TypeOfIs(x, p)
      BY <1>4 DEF Guard, Becomes
    <2>. QED  BY <2>1, TypeOfExpression
  <1>5. CASE Narrow
    <2>1. PICK p \in Scalars : x' \in Narrowed(x, p)
      BY <1>5 DEF Narrow, Becomes
    <2>. QED  BY <2>1, NarrowExpression
  <1>6. CASE Calculate
    <2>1. PICK y \in Operands, op \in {"+", "-"} : x' \in Arithmetic(op, x, y) \/ x' \in Arithmetic(op, y, x)
      BY <1>6 DEF Calculate, Becomes
    <2>. QED  BY <2>1, OperandExpression, ArithmeticExpression
  <1>7. CASE Compare
    <2>1. PICK y \in Operands : x' \in StrictEqual(x, y) \/ x' \in StrictEqual(y, x)
      BY <1>7 DEF Compare, Becomes
    <2>. QED  BY <2>1, EqualExpression
  <1>8. CASE Logic
    <2>1. PICK y \in Operands, isAnd \in BOOLEAN : x' \in AndOr(isAnd, x, y) \/ x' \in AndOr(isAnd, y, x)
      BY <1>8 DEF Logic, Becomes
    <2>2. Expression(y)
      BY OperandExpression
    <2>. QED  BY <2>1, <2>2, LogicExpression, Zenon
  <1>9. CASE Nullish
    <2>1. PICK y \in Operands : x' \in Coalesce(x, y) \/ x' \in Coalesce(y, x)
      BY <1>9 DEF Nullish, Becomes
    <2>. QED  BY <2>1, OperandExpression, CoalesceExpression
  <1>10. CASE Choose
    <2>1. PICK y \in Operands, c \in BOOLEAN : x' \in Conditional(c, x, y) \/ x' \in Conditional(c, y, x)
      BY <1>10 DEF Choose, Becomes
    <2>2. Expression(y)
      BY OperandExpression
    <2>. QED  BY <2>1, <2>2, ConditionalExpression, Zenon
  <1>11. CASE UNCHANGED vars
    BY <1>11 DEF vars
  <1>. QED  BY <1>1, <1>2, <1>3, <1>4, <1>5, <1>6, <1>7, <1>8, <1>9, <1>10, <1>11 DEF Next

\* Whatever casts and operators it went through, an expression has one of the
\* program's types, its word the representation of that type, and its tag that
\* of its word (cast, CastOp and its canonicalization, the lowering of both).
THEOREM Typed == Spec => []Expression(x)
  <1>1. Init => Expression(x)
    BY OperandExpression DEF Init
  <1>2. Expression(x) /\ [Next]_vars => Expression(x)'
    BY ExpressionStep
  <1>. QED  BY <1>1, <1>2, PTL DEF Spec

\* The tag of a union or of a box tells how its word is to be read, also where
\* the value was converted to a member before it was stored (TagsTell).
THEOREM TagsTellTheWord == Spec => []TagsTell
  <1>1. Expression(x) => TagsTell
    BY DEF Expression, WellFormed, TagsTell, Holds
  <1>. QED  BY <1>1, Typed, PTL

\* The verifier of a cast accepts both casts that getUnionType makes the
\* generator emit (MergedTypeTakesBoth).
THEOREM MergedTypeIsAccepted == Spec => []MergedTypeTakesBoth
  <1>1. ASSUME Expression(x)
        PROVE  MergedTypeTakesBoth
    <2>1. ASSUME NEW y \in Operands, UnionType(x.val.type, y.val.type) # Outside
          PROVE  /\ Cast(x, UnionType(x.val.type, y.val.type)) # {}
                 /\ Cast(y, UnionType(x.val.type, y.val.type)) # {}
      <3>1. PICK T : T = UnionType(x.val.type, y.val.type)
        OBVIOUS
      <3>2. x.val.type \in Types /\ y.val.type \in Types /\ Expression(y)
        BY <1>1, OperandExpression DEF Expression, WellFormed
      <3>3. T \in Types /\ Takes(x.val.type, T) /\ Takes(y.val.type, T)
        BY <2>1, <3>1, <3>2, UnionTypeTakes
      <3>4. Cast(x, T) # {} /\ Cast(y, T) # {}
        BY <1>1, <3>2, <3>3, TakesCasts
      <3>. QED  BY <3>1, <3>4
    <2>. QED  BY <2>1 DEF MergedTypeTakesBoth
  <1>. QED  BY <1>1, Typed, PTL

=============================================================================
