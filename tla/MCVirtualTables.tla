--------------------------- MODULE MCVirtualTables ---------------------------
(***************************************************************************)
(* Instances of VirtualTables: the declarations of a few small programs,   *)
(* in every order.                                                         *)
(***************************************************************************)
EXTENDS VirtualTables

TheClasses    == {"Base", "Derived", "Other", "Gone"}
TheInterfaces == {"I", "J"}

OnClass(c, m)  == [how |-> "method", on |-> c, member |-> m]
OnIface(i, m)  == [how |-> "interface", on |-> i, member |-> m]
Read(i, m)     == [how |-> "read", on |-> i, member |-> m]
Cast(c, i)     == [how |-> "cast", on |-> c, member |-> i]

Member(name)           == [name |-> name, kind |-> "method", needs |-> {}]
Property(name)         == [name |-> name, kind |-> "field", needs |-> {}]
Needing(m, needs)      == [m EXCEPT !.needs = needs]
Interface(name, ext, members) ==
    [kind |-> "interface", name |-> name, extends |-> ext, members |-> members]

Calling(name, calls) == [name |-> name, abstract |-> FALSE, needs |-> {}, calls |-> calls]
Plain(name)          == Calling(name, <<>>)
Abstract(name)       == [Plain(name) EXCEPT !.abstract = TRUE]
Class(name, base, implements, methods, statics, abstract) ==
    [kind |-> "class", name |-> name, base |-> base, implements |-> implements,
     fields |-> {}, methods |-> methods, statics |-> statics, abstract |-> abstract]
WithFields(c, fields) == [c EXCEPT !.fields = fields]

Function(calls) == [kind |-> "function", needs |-> {}, calls |-> calls]

Orders(seq) == {[k \in DOMAIN seq |-> seq[p[k]]] : p \in Permutations(DOMAIN seq)}

(***************************************************************************)
(* Three classes, without interfaces or static fields, in every order: a   *)
(* method is abstract, overridden, inherited and called on this and from   *)
(* outside.  Gone is declared nowhere.                                     *)
(***************************************************************************)
Chained(abstract, other, called) ==
    <<Class("Base", "none", <<>>, <<IF abstract THEN Abstract("m") ELSE Plain("m"),
                                    Calling("n", <<OnClass("Base", "m")>>)>>, <<>>, abstract),
      Class("Derived", "Base", <<>>, <<Calling("k", <<OnClass("Derived", "n")>>), Plain("m")>>,
            <<>>, FALSE),
      Class("Other", other, <<>>, <<Plain("n"), Plain("m")>>, <<>>, FALSE),
      Function(<<OnClass("Base", "m"), OnClass("Base", "n"), OnClass(called, "k")>>)>>
ClassesInAnyOrder ==
    UNION {Orders(Chained(a, o, c)) : a \in BOOLEAN, o \in {"Base", "Derived"},
                                      c \in {"Derived", "Gone"}}

(***************************************************************************)
(* Interfaces, static fields and casts: each declaration after those it    *)
(* mentions.                                                               *)
(***************************************************************************)
Sorted(p) == \A k \in DOMAIN p : Mentions(p[k]) \subseteq NamesOf({p[j] : j \in 1..(k - 1)})

Interfacing(ofBase, ofDerived, st, own) ==
    <<Interface("I", <<>>, <<Member("m"), Property("f")>>),
      Interface("J", <<"I">>, <<Member("k"), Property("g")>>),
      WithFields(Class("Base", "none", ofBase, <<Plain("n"), Plain("m")>>, st, FALSE), {"f"}),
      WithFields(Class("Derived", "Base", ofDerived, <<Calling("k", <<OnClass("Base", "n")>>)>> \o own,
                       st, FALSE), {"g"}),
      Function(<<OnClass("Base", "m"), OnIface("I", "m"), Read("I", "f")>>
               \o IF ofBase = <<>> THEN <<>> ELSE <<Cast("Base", "I")>>),
      Function(<<OnIface("J", "k"), Read("J", "f"), OnIface("J", "m"), Read("J", "g"),
                 OnClass("Derived", "k"), Cast("Derived", "J"), Cast("Derived", "I")>>)>>
InOrder(seq, p) == [k \in DOMAIN seq |-> seq[p[k]]]
SomeProgram == Interfacing(<<"I">>, <<"J">>, <<>>, <<>>)
UseOrders == {p \in Permutations(1..6) : Sorted(InOrder(SomeProgram, p))}
DeclaredBeforeUse ==
    {InOrder(Interfacing(b, d, st, own), p) :
        b \in {<<>>, <<"I">>}, d \in {<<>>, <<"J">>}, st \in {<<>>, <<"s">>},
        own \in {<<>>, <<Plain("m")>>}, p \in UseOrders}

AllPrograms == ClassesInAnyOrder \cup DeclaredBeforeUse

(***************************************************************************)
(* Programs the generation gets wrong: a class that implements an          *)
(* interface.                                                              *)
(***************************************************************************)
TheI    == Interface("I", <<>>, <<Member("m")>>)
TheBase == Class("Base", "none", <<"I">>, <<Plain("m")>>, <<>>, FALSE)
Implementing   == Orders(<<TheI, TheBase>>)
=============================================================================
