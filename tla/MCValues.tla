------------------------------- MODULE MCValues --------------------------------
(***************************************************************************)
(* Expressions over variables of every kind of type: both booleans, the    *)
(* smallest and the largest integers, a fraction and NaN, strings that are *)
(* and are not numerals, optionals with and without a value, a union and   *)
(* boxed values.                                                           *)
(***************************************************************************)
EXTENDS Values

AllVariables ==
    {PlainValue("boolean", Bit(b)) : b \in BOOLEAN}
    \cup {PlainValue("i32", Word("i32", n, "")) : n \in {0, 1, MaxInt}}
    \cup {PlainValue("number", Word("f64", h, "")) : h \in {3, NaN}}
    \cup {PlainValue("string", Ptr(s)) : s \in {"", "a", "1"}}
    \cup {PlainValue("undefined", Word("struct", 0, ""))}
    \cup {Missing("number"), Some("number", Word("f64", 2, "")), Missing("string"), Some("string", Ptr("a")),
          Some("boolean", Bit(FALSE)), Missing("i32"), Some("i32", Word("i32", 1, ""))}
    \cup {CompiledAs(Union({"number", "string"}), TRUE, "string", Ptr("a")),
          CompiledAs(AnyType, TRUE, "i32", Word("i32", 1, "")), CompiledAs(AnyType, TRUE, "string", Ptr("1"))}
MCVariables == AllVariables

MCTargets ==
    {Plain(p) : p \in Scalars} \cup {Optional(p) : p \in {"number", "string", "boolean"}}
    \cup {Union({"number", "string"}), Union({"boolean", "string"}), Union({"boolean", "number"}), AnyType}
MCNumbers == -8..7
================================================================================
