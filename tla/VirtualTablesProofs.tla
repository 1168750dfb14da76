-------------------------- MODULE VirtualTablesProofs --------------------------
(***************************************************************************)
(* Proofs about VirtualTables: for every program whose classes are         *)
(* declared before they are used, a compiled call reaches the method of    *)
(* the object's class, in the table that was laid out for it.              *)
(***************************************************************************)
EXTENDS VirtualTables, WellFoundedInduction, TLAPS

-----------------------------------------------------------------------------
(* Induction, over sets of numbers.                                        *)

LEMMA Least ==
    ASSUME NEW S, S \subseteq Nat, S # {}
    PROVE  \E x \in S : \A y \in S : x <= y
  <1>1. PICK x \in S : \A y \in S : ~(<<y, x>> \in OpToRel(<, Nat))
    BY NatLessThanWellFounded, WFMin
  <1>2. \A y \in S : ~(y < x)
    BY <1>1 DEF OpToRel
  <1>. QED  BY <1>2

LEMMA Induction ==
    ASSUME NEW S, 0 \in S, \A n \in Nat : n \in S => n + 1 \in S
    PROVE  \A n \in Nat : n \in S
  <1>. SUFFICES ASSUME Nat \ S # {} PROVE FALSE
    OBVIOUS
  <1>1. PICK x \in Nat \ S : \A y \in Nat \ S : x <= y
    BY Least
  <1>2. x # 0 /\ x - 1 \in Nat /\ x - 1 \notin Nat \ S
    BY <1>1
  <1>. QED  BY <1>1, <1>2

\* Up to a bound.
LEMMA InductionUpTo ==
    ASSUME NEW n \in Nat, NEW S, 0 \in S, \A k \in 0..(n - 1) : k \in S => k + 1 \in S
    PROVE  n \in S
  <1>. DEFINE T == {k \in Nat : k <= n => k \in S}
  <1>1. 0 \in T
    OBVIOUS
  <1>2. ASSUME NEW k \in Nat, k \in T PROVE k + 1 \in T
    <2>. SUFFICES ASSUME k + 1 <= n PROVE k + 1 \in S
      OBVIOUS
    <2>. QED  BY <1>2
  <1>. HIDE DEF T
  <1>3. n \in T
    BY <1>1, <1>2, Induction
  <1>. QED  BY <1>3 DEF T

-----------------------------------------------------------------------------
(* The first element of a sequence that passes a test.                     *)

LEMMA LeastOf ==
    ASSUME NEW S, S \subseteq Nat, S # {}
    PROVE  Min(S) \in S /\ \A y \in S : Min(S) <= y
  BY Least DEF Min

\* e is the entry of a method or interface with that name.
IsFor(e, name) == e.kind # "static" /\ e.name = name

LEMMA PlaceIs ==
    ASSUME NEW table, Len(table) \in Nat, NEW name
    PROVE  \/ /\ Place(table, name) = -1
              /\ \A i \in 1..Len(table) : ~IsFor(table[i], name)
           \/ /\ Place(table, name) \in 0..(Len(table) - 1)
              /\ IsFor(table[Place(table, name) + 1], name)
              /\ \A i \in 1..Place(table, name) : ~IsFor(table[i], name)
  <1>. DEFINE I == {i \in 1..Len(table) : IsFor(table[i], name)}
  <1>1. Place(table, name) = (IF I # {} THEN Min(I) ELSE 0) - 1
    BY DEF Place, IndexOf, SelectInSeq, IsFor
  <1>2. CASE I = {}
    BY <1>1, <1>2
  <1>3. CASE I # {}
    <2>. PICK m : m = Min(I)
      OBVIOUS
    <2>1. m \in I /\ \A y \in I : m <= y
      BY <1>3, LeastOf
    <2>2. Place(table, name) = m - 1
      BY <1>1, <1>3
    <2>3. \A i \in 1..(m - 1) : ~IsFor(table[i], name)
      BY <2>1
    <2>4. m \in 1..Len(table) /\ (m - 1) + 1 = m
      BY <2>1
    <2>. QED  BY <2>1, <2>2, <2>3, <2>4
  <1>. QED  BY <1>2, <1>3

LEMMA PlaceIsFirst ==
    ASSUME NEW table, Len(table) \in Nat, NEW name, NEW k \in 0..(Len(table) - 1),
           IsFor(table[k + 1], name), \A i \in 1..k : ~IsFor(table[i], name)
    PROVE  Place(table, name) = k
  <1>1. k + 1 \in 1..Len(table)
    OBVIOUS
  <1>. QED  BY <1>1, PlaceIs

LEMMA NamedIs ==
    ASSUME NEW seq, Len(seq) \in Nat, NEW name
    PROVE  \/ /\ Named(seq, name) = -1
              /\ \A i \in 1..Len(seq) : seq[i].name # name
           \/ /\ Named(seq, name) \in 0..(Len(seq) - 1)
              /\ seq[Named(seq, name) + 1].name = name
  <1>. DEFINE I == {i \in 1..Len(seq) : seq[i].name = name}
  <1>1. Named(seq, name) = (IF I # {} THEN Min(I) ELSE 0) - 1
    BY DEF Named, IndexOf, SelectInSeq
  <1>2. CASE I = {}
    BY <1>1, <1>2
  <1>3. CASE I # {}
    <2>1. Min(I) \in I
      BY <1>3, LeastOf
    <2>. QED  BY <1>1, <1>3, <2>1
  <1>. QED  BY <1>2, <1>3

-----------------------------------------------------------------------------
(* Sequences.                                                              *)

LEMMA SequenceIs ==
    ASSUME NEW S, NEW s \in Seq(S)
    PROVE  /\ Len(s) \in Nat /\ DOMAIN s = 1..Len(s)
           /\ \A k \in 1..Len(s) : s[k] \in S
  OBVIOUS

LEMMA SequenceOf ==
    ASSUME NEW S, NEW n \in Nat, NEW s, s = [k \in 1..n |-> s[k]], \A k \in 1..n : s[k] \in S
    PROVE  s \in Seq(S) /\ Len(s) = n
  OBVIOUS

LEMMA ConcatenationIs ==
    ASSUME NEW S, NEW s \in Seq(S), NEW t \in Seq(S)
    PROVE  /\ s \o t \in Seq(S) /\ Len(s \o t) = Len(s) + Len(t)
           /\ \A k \in 1..Len(s) : (s \o t)[k] = s[k]
           /\ \A k \in 1..Len(t) : (s \o t)[Len(s) + k] = t[k]
  OBVIOUS

LEMMA ConcatenationElement ==
    ASSUME NEW S, NEW s \in Seq(S), NEW t \in Seq(S), NEW k \in 1..Len(s \o t)
    PROVE  \/ k \in 1..Len(s) /\ (s \o t)[k] = s[k]
           \/ \E j \in 1..Len(t) : (s \o t)[k] = t[j]
  <1>1. k \in 1..Len(s) \/ k - Len(s) \in 1..Len(t)
    OBVIOUS
  <1>2. k = Len(s) + (k - Len(s))
    OBVIOUS
  <1>3. \A j \in 1..Len(t) : (s \o t)[Len(s) + j] = t[j]
    OBVIOUS
  <1>. QED  BY <1>1, <1>2, <1>3

LEMMA FirstOrRest ==
    ASSUME NEW S, NEW d \in S, NEW rest \in Seq(S), NEW c \in ToSet(<<d>> \o rest)
    PROVE  c = d \/ c \in ToSet(rest)
  <1>1. /\ <<d>> \o rest \in Seq(S) /\ Len(<<d>> \o rest) = Len(rest) + 1
        /\ (<<d>> \o rest)[1] = d /\ Len(rest) \in Nat
        /\ \A j \in 1..Len(rest) : (<<d>> \o rest)[j + 1] = rest[j]
    OBVIOUS
  <1>2. PICK k \in 1..Len(<<d>> \o rest) : c = (<<d>> \o rest)[k]
    BY <1>1 DEF ToSet
  <1>3. CASE k = 1
    BY <1>1, <1>2, <1>3
  <1>4. CASE k # 1
    <2>1. k - 1 \in 1..Len(rest) /\ (k - 1) + 1 = k
      BY <1>1, <1>4
    <2>2. c = rest[k - 1]
      BY <1>1, <1>2, <2>1
    <2>. QED  BY <2>1, <2>2 DEF ToSet
  <1>. QED  BY <1>3, <1>4

-----------------------------------------------------------------------------
(* Tables.  What has an entry keeps its place, whatever is added.          *)

\* The provers do not know that a literal is a string.
Names == STRING \cup {InstanceOf, New, Rtti}

Entries == [kind : {"interface", "method", "static"}, name : Names \cup Interfaces,
            class : Classes \cup {NoClass}, abstract : BOOLEAN]
\* What is not a static field.
Virtuals == {e \in Entries : e.kind # "static"}

\* The entries of the first table are at the same places of the second.
Grows(table, larger) ==
    /\ Len(table) <= Len(larger)
    /\ \A i \in 1..Len(table) : larger[i].kind = table[i].kind /\ larger[i].name = table[i].name

LEMMA GrowsTransitive ==
    ASSUME NEW s \in Seq(Entries), NEW t \in Seq(Entries), NEW u \in Seq(Entries),
           Grows(s, t), Grows(t, u)
    PROVE  Grows(s, u)
  <1>1. Len(s) \in Nat /\ Len(t) \in Nat /\ Len(u) \in Nat
    OBVIOUS
  <1>2. \A i \in 1..Len(s) : i \in 1..Len(t)
    BY <1>1 DEF Grows
  <1>. QED  BY <1>1, <1>2 DEF Grows

LEMMA PlaceStays ==
    ASSUME NEW table \in Seq(Entries), NEW larger \in Seq(Entries), Grows(table, larger),
           NEW name, Place(table, name) >= 0
    PROVE  Place(larger, name) = Place(table, name)
  <1>. PICK k : k = Place(table, name)
    OBVIOUS
  <1>0. Len(table) \in Nat /\ Len(larger) \in Nat
    OBVIOUS
  <1>1. k \in 0..(Len(table) - 1) /\ IsFor(table[k + 1], name)
        /\ \A i \in 1..k : ~IsFor(table[i], name)
    BY <1>0, PlaceIs
  <1>2. k \in 0..(Len(larger) - 1) /\ k + 1 \in 1..Len(table)
        /\ \A i \in 1..k : i \in 1..Len(table)
    BY <1>0, <1>1 DEF Grows
  <1>3. IsFor(larger[k + 1], name) /\ \A i \in 1..k : ~IsFor(larger[i], name)
    BY <1>1, <1>2 DEF Grows, IsFor
  <1>. QED  BY <1>0, <1>2, <1>3, PlaceIsFirst

\* What Extended does with one entry.
AddEntry(table, e) == IF e.kind = "interface" THEN AddInterface(table, e) ELSE AddMethod(table, e)

\* The new table has the old entries, but for the one of the method, or one more.
Adds(table, larger, e) ==
    /\ \A i \in 1..Len(larger) : i > Len(table) => larger[i] = e
    /\ \A i \in 1..Len(table) :
          IF e.kind = "method" /\ i = Place(table, e.name) + 1
          THEN larger[i].class = e.class
          ELSE larger[i] = table[i]

LEMMA AddEntryIs ==
    ASSUME NEW table \in Seq(Entries), NEW e \in Virtuals
    PROVE  /\ AddEntry(table, e) \in Seq(Entries)
           /\ Grows(table, AddEntry(table, e))
           /\ Place(AddEntry(table, e), e.name) >= 0
           /\ Adds(table, AddEntry(table, e), e)
  <1>. PICK k : k = Place(table, e.name)
    OBVIOUS
  <1>. PICK t : t = AddEntry(table, e)
    OBVIOUS
  <1>0. e \in Entries /\ IsFor(e, e.name) /\ Len(table) \in Nat
    BY DEF Virtuals, IsFor
  <1>4. k \in Int
    BY <1>0, PlaceIs
  <1>1. CASE k >= 0 /\ e.kind = "interface"
    <2>1. t = table
      BY <1>1 DEF AddEntry, AddInterface
    <2>. QED  BY <1>0, <1>1, <2>1 DEF Grows, Adds
  <1>2. CASE k >= 0 /\ e.kind # "interface"
    <2>1. k \in 0..(Len(table) - 1) /\ k + 1 \in 1..Len(table)
      BY <1>0, <1>2, PlaceIs
    <2>2. t = [table EXCEPT ![k + 1].class = e.class, ![k + 1].abstract = e.abstract]
      BY <1>2 DEF AddEntry, AddMethod
    <2>3. e.kind = "method" /\ e.class \in Classes \cup {NoClass} /\ e.abstract \in BOOLEAN
      BY <1>0, <1>2 DEF Entries, Virtuals
    <2>4. \A i \in 1..Len(table) : table[i] \in Entries
      OBVIOUS
    <2>. PICK f : f = [table[k + 1] EXCEPT !.class = e.class, !.abstract = e.abstract]
      OBVIOUS
    <2>5. /\ f \in Entries /\ f.class = e.class
          /\ f.kind = table[k + 1].kind /\ f.name = table[k + 1].name
      BY <2>1, <2>3, <2>4 DEF Entries
    <2>6. t = [table EXCEPT ![k + 1] = f]
      BY <2>1, <2>2
    <2>7. t \in Seq(Entries) /\ Len(t) = Len(table)
      BY <2>1, <2>5, <2>6
    <2>9. t[k + 1] = f /\ \A i \in 1..Len(table) : i # k + 1 => t[i] = table[i]
      <3>1. DOMAIN table = 1..Len(table)
        OBVIOUS
      <3>. PICK j : j = k + 1
        OBVIOUS
      <3>2. t = [table EXCEPT ![j] = f] /\ j \in DOMAIN table
        BY <2>1, <2>6, <3>1
      <3>. QED  BY <3>1, <3>2
    <2>10. \A i \in 1..Len(table) : t[i].kind = table[i].kind /\ t[i].name = table[i].name
      BY <2>1, <2>5, <2>9
    <2>8. Grows(table, t)
      BY <1>0, <2>7, <2>10 DEF Grows
    <2>11. Place(t, e.name) >= 0
      BY <1>2, <2>7, <2>8, PlaceStays
    <2>12. \A i \in 1..Len(t) : IF i = k + 1 THEN t[i].class = e.class ELSE t[i] = table[i]
      BY <2>5, <2>7, <2>9
    <2>13. \A i \in 1..Len(t) : ~(i > Len(table))
      BY <1>0, <2>7
    <2>. QED  BY <2>3, <2>7, <2>8, <2>11, <2>12, <2>13 DEF Adds
  <1>3. CASE k < 0
    <2>1. t = Append(table, e)
      BY <1>3, <1>4 DEF AddEntry, AddInterface, AddMethod
    <2>2. /\ t \in Seq(Entries) /\ Len(t) = Len(table) + 1 /\ t[Len(table) + 1] = e
          /\ \A i \in 1..Len(table) : t[i] = table[i]
      BY <1>0, <2>1
    <2>3. k = -1 /\ \A i \in 1..Len(table) : ~IsFor(t[i], e.name)
      BY <1>0, <1>3, <2>2, PlaceIs
    <2>4. Place(t, e.name) = Len(table)
      <3>1. Len(t) \in Nat /\ Len(table) \in 0..(Len(t) - 1)
        BY <1>0, <2>2
      <3>. QED  BY <1>0, <2>2, <2>3, <3>1, PlaceIsFirst
    <2>5. Grows(table, t)
      BY <1>0, <2>2 DEF Grows
    <2>. QED  BY <1>0, <2>2, <2>3, <2>4, <2>5 DEF Adds
  <1>. QED  BY <1>1, <1>2, <1>3, <1>4

\* Extended goes from entry to entry.
LEMMA ExtendedSteps ==
    ASSUME NEW table, NEW entries, Len(entries) \in Nat
    PROVE  \E t : /\ t[0] = table
                  /\ \A k \in 1..Len(entries) : t[k] = AddEntry(t[k - 1], entries[k])
                  /\ Extended(table, entries) = t[Len(entries)]
  <1>. DEFINE S == {n \in Nat : \E t : t = [k \in 0..n |->
                       IF k = 0 THEN table ELSE AddEntry(t[k - 1], entries[k])]}
  <1>1. 0 \in S
    <2>. DEFINE u == [k \in 0..0 |-> table]
    <2>1. u = [k \in 0..0 |-> IF k = 0 THEN table ELSE AddEntry(u[k - 1], entries[k])]
      OBVIOUS
    <2>. QED  BY <2>1
  <1>2. ASSUME NEW n \in Nat, n \in S PROVE n + 1 \in S
    <2>1. PICK t : t = [k \in 0..n |-> IF k = 0 THEN table ELSE AddEntry(t[k - 1], entries[k])]
      BY <1>2
    <2>. DEFINE u == [k \in 0..(n + 1) |-> IF k = n + 1 THEN AddEntry(t[n], entries[n + 1]) ELSE t[k]]
    <2>2. u = [k \in 0..(n + 1) |-> IF k = 0 THEN table ELSE AddEntry(u[k - 1], entries[k])]
      <3>1. ASSUME NEW k \in 0..(n + 1)
            PROVE  u[k] = IF k = 0 THEN table ELSE AddEntry(u[k - 1], entries[k])
        <4>1. CASE k = n + 1
          BY <4>1
        <4>2. CASE k = 0
          BY <2>1, <4>2
        <4>3. CASE k \in 1..n
          BY <2>1, <4>3
        <4>. QED  BY <4>1, <4>2, <4>3
      <3>. QED  BY <3>1
    <2>. HIDE DEF u
    <2>. QED  BY <2>2
  <1>. HIDE DEF S
  <1>3. Len(entries) \in S
    BY <1>1, <1>2, Induction
  <1>. DEFINE r == CHOOSE t : t = [k \in 0..Len(entries) |->
                       IF k = 0 THEN table ELSE AddEntry(t[k - 1], entries[k])]
  <1>4. r = [k \in 0..Len(entries) |-> IF k = 0 THEN table ELSE AddEntry(r[k - 1], entries[k])]
    BY <1>3 DEF S
  <1>5. Extended(table, entries) = r[Len(entries)]
    BY DEF Extended, AddEntry
  <1>. HIDE DEF r
  <1>. QED  BY <1>4, <1>5

LEMMA ExtendedGrows ==
    ASSUME NEW table \in Seq(Entries), NEW entries \in Seq(Virtuals)
    PROVE  Extended(table, entries) \in Seq(Entries) /\ Grows(table, Extended(table, entries))
  <1>0. Len(entries) \in Nat
    OBVIOUS
  <1>1. PICK t : /\ t[0] = table
                 /\ \A k \in 1..Len(entries) : t[k] = AddEntry(t[k - 1], entries[k])
                 /\ Extended(table, entries) = t[Len(entries)]
    BY <1>0, ExtendedSteps
  <1>. DEFINE S == {k \in 0..Len(entries) : t[k] \in Seq(Entries) /\ Grows(table, t[k])}
  <1>2. 0 \in S
    BY <1>0, <1>1 DEF Grows
  <1>3. ASSUME NEW k \in 0..(Len(entries) - 1), k \in S PROVE k + 1 \in S
    <2>1. k + 1 \in 1..Len(entries) /\ t[k + 1] = AddEntry(t[k], entries[k + 1])
      BY <1>0, <1>1
    <2>2. entries[k + 1] \in Virtuals
      BY <2>1
    <2>3. t[k + 1] \in Seq(Entries) /\ Grows(t[k], t[k + 1])
      BY <1>3, <2>1, <2>2, AddEntryIs
    <2>. QED  BY <1>0, <1>3, <2>3, GrowsTransitive
  <1>. HIDE DEF S
  <1>4. Len(entries) \in S
    BY <1>0, <1>2, <1>3, InductionUpTo
  <1>. QED  BY <1>1, <1>4 DEF S

\* No interface has that name.
NoInterfaceEntry(table, name) == \A i \in 1..Len(table) : table[i].kind = "interface" => table[i].name # name

\* A method among the entries has the slot of its name, and no other changes it.
PlacesMethod(table, entries, larger, name, class) ==
    LET k == Place(larger, name) IN
    /\ NoInterfaceEntry(larger, name)
    /\ (\E i \in 1..Len(entries) : entries[i].name = name)
          => k >= 0 /\ larger[k + 1].class = class
    /\ Place(table, name) >= 0 /\ (\A i \in 1..Len(entries) : entries[i].name # name)
          => k >= 0 /\ larger[k + 1].class = table[k + 1].class

LEMMA ExtendedMethod ==
    ASSUME NEW table \in Seq(Entries), NEW entries \in Seq(Virtuals), NEW name, NEW class,
           NoInterfaceEntry(table, name), NoInterfaceEntry(entries, name),
           \A i \in 1..Len(entries) : entries[i].name = name => entries[i].class = class
    PROVE  PlacesMethod(table, entries, Extended(table, entries), name, class)
  <1>0. Len(entries) \in Nat
    OBVIOUS
  <1>1. PICK t : /\ t[0] = table
                 /\ \A k \in 1..Len(entries) : t[k] = AddEntry(t[k - 1], entries[k])
                 /\ Extended(table, entries) = t[Len(entries)]
    BY <1>0, ExtendedSteps
  <1>. DEFINE P(k) == Place(t[k], name)
              Had(k) == \E i \in 1..k : entries[i].name = name
              S == {k \in 0..Len(entries) :
                      /\ t[k] \in Seq(Entries) /\ Grows(table, t[k])
                      /\ NoInterfaceEntry(t[k], name)
                      /\ Had(k) => P(k) >= 0 /\ t[k][P(k) + 1].class = class
                      /\ ~Had(k) /\ P(0) >= 0 => P(k) >= 0 /\ t[k][P(k) + 1].class = table[P(k) + 1].class}
  <1>2. 0 \in S
    BY <1>0, <1>1 DEF Grows
  <1>3. ASSUME NEW k \in 0..(Len(entries) - 1), k \in S PROVE k + 1 \in S
    <2>. PICK s : s = t[k]
      OBVIOUS
    <2>. PICK u : u = t[k + 1]
      OBVIOUS
    <2>. PICK e : e = entries[k + 1]
      OBVIOUS
    <2>1. k + 1 \in 1..Len(entries) /\ u = AddEntry(s, e) /\ e \in Virtuals
      BY <1>0, <1>1
    <2>2. s \in Seq(Entries) /\ Grows(table, s) /\ NoInterfaceEntry(s, name)
      BY <1>3
    <2>3. /\ u \in Seq(Entries) /\ Grows(s, u) /\ Place(u, e.name) >= 0
          /\ Adds(s, u, e)
      BY <2>1, <2>2, AddEntryIs
    <2>4. Grows(table, u)
      BY <2>2, <2>3, GrowsTransitive
    <2>5. Len(s) \in Nat /\ Len(u) \in Nat /\ Len(s) <= Len(u)
      BY <2>2, <2>3 DEF Grows
    <2>6. NoInterfaceEntry(u, name)
      <3>1. ASSUME NEW i \in 1..Len(u), u[i].kind = "interface" PROVE u[i].name # name
        <4>1. CASE i > Len(s)
          BY <2>1, <2>3, <3>1, <4>1 DEF NoInterfaceEntry, Adds
        <4>2. CASE i \in 1..Len(s)
          BY <2>2, <2>3, <3>1, <4>2 DEF NoInterfaceEntry, Grows
        <4>. QED  BY <2>5, <4>1, <4>2
      <3>. QED  BY <3>1 DEF NoInterfaceEntry
    <2>7. CASE e.name = name
      <3>1. Had(k + 1)
        BY <2>1, <2>7
      <3>2. e.class = class /\ e.kind = "method"
        <4>1. e.kind # "interface"
          BY <2>1, <2>7 DEF NoInterfaceEntry
        <4>. QED  BY <2>1, <2>7, <4>1 DEF Virtuals, Entries
      <3>. PICK p : p = Place(u, name)
        OBVIOUS
      <3>3. p \in 0..(Len(u) - 1) /\ p + 1 \in 1..Len(u)
        BY <2>3, <2>5, <2>7, PlaceIs
      <3>4. u[p + 1].class = class
        <4>1. CASE p + 1 > Len(s)
          BY <2>3, <3>2, <3>3, <4>1 DEF Adds
        <4>2. CASE p + 1 <= Len(s)
          <5>1. Place(s, name) >= 0
            <6>1. IsFor(s[p + 1], name)
              <7>1. IsFor(u[p + 1], name)
                BY <2>3, <2>5, <2>7, PlaceIs
              <7>. QED  BY <2>3, <3>3, <4>2, <7>1 DEF IsFor, Grows
            <6>2. p + 1 \in 1..Len(s)
              BY <3>3, <4>2
            <6>. QED  BY <2>5, <6>1, <6>2, PlaceIs
          <5>2. p = Place(s, name)
            BY <2>2, <2>3, <5>1, PlaceStays
          <5>. QED  BY <2>3, <2>7, <3>2, <3>3, <4>2, <5>2 DEF Adds
        <4>. QED  BY <2>5, <3>3, <4>1, <4>2
      <3>. QED  BY <1>0, <2>3, <2>4, <2>6, <3>1, <3>3, <3>4
    <2>8. CASE e.name # name
      <3>1. Had(k + 1) <=> Had(k)
        <4>1. \A i \in 1..(k + 1) : i \in 1..k \/ i = k + 1
          OBVIOUS
        <4>2. \A i \in 1..k : i \in 1..(k + 1)
          OBVIOUS
        <4>. QED  BY <2>8, <4>1, <4>2
      <3>2. ASSUME Place(s, name) >= 0
            PROVE  LET p == Place(u, name) IN p = Place(s, name) /\ u[p + 1] = s[p + 1]
        <4>. PICK p : p = Place(u, name)
          OBVIOUS
        <4>1. p = Place(s, name)
          BY <2>2, <2>3, <3>2, PlaceStays
        <4>2. p \in 0..(Len(s) - 1) /\ IsFor(s[p + 1], name)
          BY <2>5, <3>2, <4>1, PlaceIs
        <4>3. p + 1 \in 1..Len(s)
          BY <2>5, <4>2
        <4>4. p # Place(s, e.name)
          <5>1. \/ Place(s, e.name) = -1
                \/ IsFor(s[Place(s, e.name) + 1], e.name)
            BY <2>5, PlaceIs
          <5>. QED  BY <2>8, <4>2, <5>1 DEF IsFor
        <4>5. Place(s, e.name) \in Int
          BY <2>5, PlaceIs
        <4>6. p + 1 # Place(s, e.name) + 1
          BY <4>2, <4>4, <4>5
        <4>. QED  BY <2>3, <4>1, <4>3, <4>6 DEF Adds
      <3>3. Had(k) => P(k) >= 0 /\ s[P(k) + 1].class = class
        BY <1>3
      <3>4. ~Had(k) /\ P(0) >= 0 => P(k) >= 0 /\ s[P(k) + 1].class = table[P(k) + 1].class
        BY <1>3
      <3>5. /\ Had(k) => P(k + 1) >= 0 /\ u[P(k + 1) + 1].class = class
            /\ ~Had(k) /\ P(0) >= 0 =>
                  P(k + 1) >= 0 /\ u[P(k + 1) + 1].class = table[P(k + 1) + 1].class
        <4>. HIDE DEF Had
        <4>. QED  BY <3>2, <3>3, <3>4
      <3>6. k + 1 \in 0..Len(entries)
        BY <1>0
      <3>. HIDE DEF Had, P
      <3>. QED  BY <2>3, <2>4, <2>6, <3>1, <3>5, <3>6
    <2>. QED  BY <2>7, <2>8
  <1>. HIDE DEF S
  <1>4. Len(entries) \in S
    BY <1>0, <1>2, <1>3, InductionUpTo
  <1>5. P(0) = Place(table, name)
    BY <1>1
  <1>. QED  BY <1>1, <1>4, <1>5 DEF S, PlacesMethod

-----------------------------------------------------------------------------
(* The hierarchy of the classes: each has a higher rank than its base.     *)

Implements == [interface : Interfaces, index : Int, processed : BOOLEAN]
MethodInfos == [name : Names, abstract : BOOLEAN, index : Int]
StaticInfos == [name : Names, index : Int]
ClassInfos == [base : Classes \cup {NoClass}, implements : Seq(Implements),
               methods : Seq(MethodInfos), statics : Seq(StaticInfos),
               fields : SUBSET STRING, compiled : SUBSET Names]

\* Of the bases only; cls may also be the declarations.
Hierarchy(cls, rank, n) ==
    /\ n \in Nat /\ rank \in [Classes -> 0..n]
    /\ \A c \in Classes : cls[c].base \in Classes \cup {NoClass}
    /\ \A c \in Classes : cls[c].base # NoClass => rank[cls[c].base] < rank[c]

LEMMA HierarchyInduction ==
    ASSUME NEW cls, NEW rank, NEW n, Hierarchy(cls, rank, n), NEW P,
           \A c \in Classes : (cls[c].base # NoClass => cls[c].base \in P) => c \in P
    PROVE  \A c \in Classes : c \in P
  <1>. DEFINE S == {k \in Nat : \A c \in Classes : rank[c] < k => c \in P}
  <1>1. 0 \in S
    BY DEF Hierarchy
  <1>2. ASSUME NEW k \in Nat, k \in S PROVE k + 1 \in S
    <2>1. ASSUME NEW c \in Classes, rank[c] < k + 1 PROVE c \in P
      <3>1. ASSUME cls[c].base # NoClass PROVE cls[c].base \in P
        <4>1. cls[c].base \in Classes /\ rank[cls[c].base] < rank[c]
          BY <3>1 DEF Hierarchy
        <4>2. rank[cls[c].base] \in Nat /\ rank[c] \in Nat
          BY <4>1 DEF Hierarchy
        <4>. QED  BY <1>2, <2>1, <4>1, <4>2
      <3>. QED  BY <3>1
    <2>. QED  BY <2>1
  <1>. HIDE DEF S
  <1>3. n + 1 \in S
    BY <1>1, <1>2, Induction DEF Hierarchy
  <1>. QED  BY <1>3 DEF S, Hierarchy

LEMMA ChainIs ==
    ASSUME NEW cls, NEW rank, NEW n, Hierarchy(cls, rank, n), NEW c \in Classes
    PROVE  Chain(cls)[c] = <<c>> \o (IF cls[c].base = NoClass THEN <<>> ELSE Chain(cls)[cls[c].base])
  <1>. DEFINE Of(S, g) == [d \in S |-> <<d>> \o (IF cls[d].base = NoClass THEN <<>> ELSE g[cls[d].base])]
              Low(k) == {d \in Classes : rank[d] < k}
              S == {k \in Nat : \E g : g = Of(Low(k), g)}
  <1>1. 0 \in S
    <2>1. Low(0) = {}
      BY DEF Hierarchy
    <2>. DEFINE u == [d \in {} |-> 0]
    <2>2. u = Of({}, u)
      OBVIOUS
    <2>. HIDE DEF u
    <2>. QED  BY <2>1, <2>2
  <1>2. ASSUME NEW k \in Nat, k \in S PROVE k + 1 \in S
    <2>1. PICK g : g = Of(Low(k), g)
      BY <1>2
    <2>. DEFINE u == [d \in Low(k + 1) |-> <<d>> \o (IF cls[d].base = NoClass THEN <<>> ELSE g[cls[d].base])]
    <2>2. \A d \in Low(k + 1) : cls[d].base # NoClass =>
             cls[d].base \in Low(k) /\ cls[d].base \in Low(k + 1)
      BY DEF Hierarchy
    <2>3. \A d \in Low(k) : d \in Low(k + 1) /\ u[d] = g[d]
      <3>1. \A d \in Low(k) : d \in Low(k + 1)
        BY DEF Hierarchy
      <3>. HIDE DEF Low
      <3>. QED  BY <2>1, <3>1
    <2>4. u = Of(Low(k + 1), u)
      <3>. HIDE DEF Low
      <3>. QED  BY <2>2, <2>3
    <2>5. \E h : h = Of(Low(k + 1), h)
      <3>. HIDE DEF u, Of
      <3>. QED  BY <2>4
    <2>. HIDE DEF Of, Low
    <2>. QED  BY <2>5
  <1>. HIDE DEF S
  <1>3. n + 1 \in S
    BY <1>1, <1>2, Induction DEF Hierarchy
  <1>4. Low(n + 1) = Classes
    BY DEF Hierarchy
  <1>5. \E g : g = Of(Classes, g)
    BY <1>3, <1>4 DEF S
  <1>6. Chain(cls) = CHOOSE g : g = Of(Classes, g)
    BY DEF Chain
  <1>7. Chain(cls) = Of(Classes, Chain(cls))
    BY <1>5, <1>6
  <1>. QED  BY <1>7

Inherited(cls, c) == IF cls[c].base = NoClass THEN <<>> ELSE Layout(cls)[cls[c].base]

LEMMA LayoutIs ==
    ASSUME NEW cls, NEW rank, NEW n, Hierarchy(cls, rank, n), NEW c \in Classes
    PROVE  Layout(cls)[c] = Extended(Inherited(cls, c), VirtualEntries(cls, c)) \o StaticEntries(cls, c)
  <1>. DEFINE Of(S, g) == [d \in S |->
                 Extended(IF cls[d].base = NoClass THEN <<>> ELSE g[cls[d].base], VirtualEntries(cls, d))
                 \o StaticEntries(cls, d)]
              Low(k) == {d \in Classes : rank[d] < k}
              S == {k \in Nat : \E g : g = Of(Low(k), g)}
  <1>1. 0 \in S
    <2>1. Low(0) = {}
      BY DEF Hierarchy
    <2>. DEFINE u == [d \in {} |-> 0]
    <2>2. u = Of({}, u)
      OBVIOUS
    <2>. HIDE DEF u
    <2>. QED  BY <2>1, <2>2
  <1>2. ASSUME NEW k \in Nat, k \in S PROVE k + 1 \in S
    <2>1. PICK g : g = Of(Low(k), g)
      BY <1>2
    <2>. DEFINE u == Of(Low(k + 1), g)
    <2>2. \A d \in Low(k + 1) : cls[d].base # NoClass =>
             cls[d].base \in Low(k) /\ cls[d].base \in Low(k + 1)
      BY DEF Hierarchy
    <2>3. \A d \in Low(k) : d \in Low(k + 1) /\ u[d] = g[d]
      <3>1. \A d \in Low(k) : d \in Low(k + 1)
        BY DEF Hierarchy
      <3>. HIDE DEF Low
      <3>. QED  BY <2>1, <3>1
    <2>4. u = Of(Low(k + 1), u)
      <3>. HIDE DEF Low
      <3>. QED  BY <2>2, <2>3
    <2>5. \E h : h = Of(Low(k + 1), h)
      <3>. HIDE DEF u, Of
      <3>. QED  BY <2>4
    <2>. HIDE DEF Of, Low
    <2>. QED  BY <2>5
  <1>. HIDE DEF S
  <1>3. n + 1 \in S
    BY <1>1, <1>2, Induction DEF Hierarchy
  <1>4. Low(n + 1) = Classes
    BY DEF Hierarchy
  <1>5. \E g : g = Of(Classes, g)
    BY <1>3, <1>4 DEF S
  <1>6. Layout(cls) = CHOOSE g : g = Of(Classes, g)
    BY DEF Layout
  <1>7. Layout(cls) = Of(Classes, Layout(cls))
    BY <1>5, <1>6
  <1>. QED  BY <1>7 DEF Inherited

\* The entries of a class.
LEMMA EntriesOf ==
    ASSUME NEW cls \in [Classes -> ClassInfos], NEW c \in Classes
    PROVE  /\ VirtualEntries(cls, c) \in Seq(Virtuals)
           /\ StaticEntries(cls, c) \in Seq(Entries)
           /\ \A i \in 1..Len(StaticEntries(cls, c)) : StaticEntries(cls, c)[i].kind = "static"
           /\ \A name : name \notin Interfaces => NoInterfaceEntry(VirtualEntries(cls, c), name)
           /\ \A i \in 1..Len(VirtualEntries(cls, c)) :
                 VirtualEntries(cls, c)[i].kind # "interface" => VirtualEntries(cls, c)[i].class = c
           /\ \A name : name \notin Interfaces =>
                 ((\E i \in 1..Len(VirtualEntries(cls, c)) : VirtualEntries(cls, c)[i].name = name)
                  <=> (\E i \in 1..Len(cls[c].methods) : cls[c].methods[i].name = name))
  <1>. PICK I, M, F : I = cls[c].implements /\ M = cls[c].methods /\ F = cls[c].statics
    OBVIOUS
  <1>. DEFINE A == [k \in DOMAIN I |->
                      [kind |-> "interface", name |-> I[k].interface,
                       class |-> NoClass, abstract |-> FALSE]]
              B == [k \in DOMAIN M |->
                      [kind |-> "method", name |-> M[k].name,
                       class |-> c, abstract |-> M[k].abstract]]
              E == VirtualEntries(cls, c)
              T == StaticEntries(cls, c)
  <1>0. I \in Seq(Implements) /\ M \in Seq(MethodInfos) /\ F \in Seq(StaticInfos)
    BY DEF ClassInfos
  <1>1. A \in Seq(Virtuals) /\ Len(A) = Len(I)
    <2>1. Len(I) \in Nat /\ DOMAIN I = 1..Len(I) /\ \A k \in 1..Len(I) : I[k] \in Implements
      BY <1>0, SequenceIs
    <2>2. \A k \in 1..Len(I) : A[k] \in Virtuals
      BY <2>1 DEF Virtuals, Entries, Implements
    <2>3. A = [k \in 1..Len(I) |-> A[k]]
      BY <2>1
    <2>. HIDE DEF A
    <2>. QED  BY <2>1, <2>2, <2>3, SequenceOf
  <1>2. B \in Seq(Virtuals) /\ Len(B) = Len(M)
    <2>1. Len(M) \in Nat /\ DOMAIN M = 1..Len(M) /\ \A k \in 1..Len(M) : M[k] \in MethodInfos
      BY <1>0, SequenceIs
    <2>2. \A k \in 1..Len(M) : B[k] \in Virtuals
      BY <2>1 DEF Virtuals, Entries, MethodInfos
    <2>3. B = [k \in 1..Len(M) |-> B[k]]
      BY <2>1
    <2>. HIDE DEF B
    <2>. QED  BY <2>1, <2>2, <2>3, SequenceOf
  <1>3. T \in Seq(Entries) /\ \A i \in 1..Len(T) : T[i].kind = "static"
    <2>1. Len(F) \in Nat /\ DOMAIN F = 1..Len(F) /\ \A k \in 1..Len(F) : F[k] \in StaticInfos
      BY <1>0, SequenceIs
    <2>2. \A k \in 1..Len(F) : T[k] \in Entries /\ T[k].kind = "static"
      BY <2>1 DEF StaticEntries, Entries, StaticInfos
    <2>3. T = [k \in 1..Len(F) |-> T[k]]
      BY <2>1 DEF StaticEntries
    <2>. HIDE DEF T
    <2>4. T \in Seq(Entries) /\ Len(T) = Len(F)
      BY <2>1, <2>2, <2>3, SequenceOf
    <2>. QED  BY <2>2, <2>4
  <1>4. \A i \in 1..Len(A) : A[i].kind = "interface" /\ A[i].name \in Interfaces
    <2>1. DOMAIN I = 1..Len(I) /\ \A k \in 1..Len(I) : I[k] \in Implements
      BY <1>0, SequenceIs
    <2>. QED  BY <1>1, <2>1 DEF Implements
  <1>5. \A i \in 1..Len(B) : B[i].kind = "method" /\ B[i].class = c /\ B[i].name = M[i].name
    <2>1. DOMAIN M = 1..Len(M)
      BY <1>0, SequenceIs
    <2>. QED  BY <1>2, <2>1
  <1>6. E = A \o B
    BY DEF VirtualEntries
  <1>. HIDE DEF A, B, E, T
  <1>7. /\ E \in Seq(Virtuals) /\ Len(E) = Len(A) + Len(B)
        /\ \A i \in 1..Len(A) : E[i] = A[i]
        /\ \A i \in 1..Len(B) : E[Len(A) + i] = B[i]
        /\ \A i \in 1..Len(E) : \/ i \in 1..Len(A) /\ E[i] = A[i]
                                \/ \E j \in 1..Len(B) : E[i] = B[j]
    <2>. PICK S : S = Virtuals
      OBVIOUS
    <2>1. A \in Seq(S) /\ B \in Seq(S)
      BY <1>1, <1>2
    <2>2. /\ E \in Seq(S) /\ Len(E) = Len(A) + Len(B)
          /\ \A i \in 1..Len(A) : E[i] = A[i]
          /\ \A i \in 1..Len(B) : E[Len(A) + i] = B[i]
      BY <1>6, <2>1, ConcatenationIs
    <2>3. ASSUME NEW i \in 1..Len(E)
          PROVE  \/ i \in 1..Len(A) /\ E[i] = A[i]
                 \/ \E j \in 1..Len(B) : E[i] = B[j]
      BY <1>6, <2>1, ConcatenationElement
    <2>. QED  BY <2>2, <2>3
  <1>9. \A name : name \notin Interfaces => NoInterfaceEntry(E, name)
    <2>1. \A i \in 1..Len(E) : E[i].kind = "interface" => E[i].name \in Interfaces
      BY <1>4, <1>5, <1>7
    <2>. QED  BY <2>1 DEF NoInterfaceEntry

  <1>10. ASSUME NEW i \in 1..Len(E), E[i].kind # "interface" PROVE E[i].class = c
    <2>1. PICK j \in 1..Len(B) : E[i] = B[j]
      BY <1>4, <1>7, <1>10
    <2>. QED  BY <1>5, <2>1
  <1>11. ASSUME NEW name, name \notin Interfaces
         PROVE  (\E i \in 1..Len(E) : E[i].name = name)
                <=> (\E i \in 1..Len(cls[c].methods) : cls[c].methods[i].name = name)
    <2>1. ASSUME NEW i \in 1..Len(E), E[i].name = name
          PROVE  \E j \in 1..Len(cls[c].methods) : cls[c].methods[j].name = name
      <3>1. i \notin 1..Len(A)
        BY <1>4, <1>7, <1>11, <2>1
      <3>2. PICK j \in 1..Len(B) : E[i] = B[j]
        BY <1>7, <3>1
      <3>. QED  BY <1>2, <1>5, <2>1, <3>2
    <2>2. ASSUME NEW j \in 1..Len(cls[c].methods), cls[c].methods[j].name = name
          PROVE  \E i \in 1..Len(E) : E[i].name = name
      <3>1. Len(A) + j \in 1..Len(E)
        <4>1. Len(A) \in Nat /\ Len(B) \in Nat /\ Len(M) = Len(B)
          BY <1>1, <1>2, SequenceIs
        <4>. QED  BY <1>7, <4>1
      <3>. QED  BY <1>2, <1>5, <1>7, <2>2, <3>1
    <2>. QED  BY <2>1, <2>2
  <1>. QED  BY <1>3, <1>7, <1>9, <1>10, <1>11 DEF E, T

LEMMA ChainTypes ==
    ASSUME NEW cls, NEW rank, NEW n, Hierarchy(cls, rank, n)
    PROVE  \A c \in Classes : Chain(cls)[c] \in Seq(Classes)
  <1>. DEFINE P == {c \in Classes : Chain(cls)[c] \in Seq(Classes)}
  <1>1. ASSUME NEW c \in Classes, cls[c].base # NoClass => cls[c].base \in P
        PROVE  c \in P
    <2>1. Chain(cls)[c] = <<c>> \o (IF cls[c].base = NoClass THEN <<>> ELSE Chain(cls)[cls[c].base])
      BY ChainIs
    <2>2. (IF cls[c].base = NoClass THEN <<>> ELSE Chain(cls)[cls[c].base]) \in Seq(Classes)
      BY <1>1
    <2>. HIDE DEF P
    <2>3. Chain(cls)[c] \in Seq(Classes)
      BY <2>1, <2>2
    <2>. QED  BY <2>3 DEF P
  <1>. HIDE DEF P
  <1>2. \A c \in Classes : c \in P
    BY <1>1, HierarchyInduction
  <1>. QED  BY <1>2 DEF P

\* The provider is the first class of the chain that is a holder.
LEMMA ProviderFirst ==
    ASSUME NEW cls, NEW c, Chain(cls)[c] \in Seq(Classes), NEW H
    PROVE  \/ /\ Provider(cls, c, H) = NoClass
              /\ \A i \in 1..Len(Chain(cls)[c]) : Chain(cls)[c][i] \notin H
           \/ \E k \in 1..Len(Chain(cls)[c]) :
                 /\ Provider(cls, c, H) = Chain(cls)[c][k] /\ Chain(cls)[c][k] \in H
                 /\ \A i \in 1..(k - 1) : Chain(cls)[c][i] \notin H
  <1>. PICK chain : chain = Chain(cls)[c]
    OBVIOUS
  <1>. DEFINE I == {i \in 1..Len(chain) : chain[i] \in H}
  <1>0. Len(chain) \in Nat
    OBVIOUS
  <1>1. IndexOf(chain, LAMBDA e : e \in H) = (IF I # {} THEN Min(I) ELSE 0) - 1
    BY DEF IndexOf, SelectInSeq
  <1>2. CASE I = {}
    <2>1. IndexOf(chain, LAMBDA e : e \in H) = 0 - 1
      BY <1>1, <1>2
    <2>2. Provider(cls, c, H) = NoClass
      BY <2>1 DEF Provider
    <2>. QED  BY <1>2, <2>2
  <1>3. CASE I # {}
    <2>. PICK k : k = Min(I)
      OBVIOUS
    <2>1. k \in I /\ \A y \in I : k <= y
      <3>1. I \subseteq Nat
        BY <1>0
      <3>. HIDE DEF I
      <3>. QED  BY <1>3, <3>1, LeastOf
    <2>2. IndexOf(chain, LAMBDA e : e \in H) = k - 1
      BY <1>1, <1>3
    <2>3. Provider(cls, c, H) = chain[k]
      <3>1. k \in 1..Len(chain)
        BY <2>1
      <3>2. ~(k - 1 < 0) /\ (k - 1) + 1 = k
        BY <1>0, <3>1
      <3>. QED  BY <2>2, <3>2 DEF Provider, At
    <2>4. \A i \in 1..(k - 1) : chain[i] \notin H
      BY <1>0, <2>1
    <2>. QED  BY <2>1, <2>3, <2>4
  <1>. QED  BY <1>2, <1>3

LEMMA ProviderIs ==
    ASSUME NEW cls, NEW rank, NEW n, Hierarchy(cls, rank, n), NEW c \in Classes, NEW H
    PROVE  Provider(cls, c, H) = IF c \in H THEN c
                                 ELSE IF cls[c].base = NoClass THEN NoClass
                                 ELSE Provider(cls, cls[c].base, H)
  <1>. PICK chain : chain = Chain(cls)[c]
    OBVIOUS
  <1>. PICK rest : rest = IF cls[c].base = NoClass THEN <<>> ELSE Chain(cls)[cls[c].base]
    OBVIOUS
  <1>0. cls[c].base # NoClass => cls[c].base \in Classes
    BY DEF Hierarchy
  <1>1. chain \in Seq(Classes) /\ rest \in Seq(Classes)
    BY <1>0, ChainTypes
  <1>2. chain = <<c>> \o rest
    BY ChainIs
  <1>3. /\ Len(chain) = Len(rest) + 1 /\ chain[1] = c /\ Len(rest) \in Nat
        /\ \A i \in 1..Len(rest) : chain[i + 1] = rest[i]
    BY <1>1, <1>2
  <1>4. CASE c \in H
    <2>1. PICK k \in 1..Len(chain) : /\ Provider(cls, c, H) = chain[k] /\ chain[k] \in H
                                     /\ \A i \in 1..(k - 1) : chain[i] \notin H
      <3>1. 1 \in 1..Len(chain)
        BY <1>3
      <3>. QED  BY <1>1, <1>3, <1>4, <3>1, ProviderFirst
    <2>2. k = 1
      <3>1. 1 \notin 1..(k - 1)
        BY <1>3, <1>4, <2>1
      <3>. QED  BY <1>3, <3>1
    <2>. QED  BY <1>3, <1>4, <2>1, <2>2
  <1>5. CASE c \notin H /\ cls[c].base = NoClass
    <2>1. \A k \in 1..Len(chain) : chain[k] \notin H
      <3>1. Len(rest) = 0
        BY <1>5
      <3>. QED  BY <1>3, <1>5, <3>1
    <2>. QED  BY <1>1, <1>5, <2>1, ProviderFirst
  <1>6. CASE c \notin H /\ cls[c].base # NoClass
    <2>1. rest = Chain(cls)[cls[c].base]
      BY <1>6
    <2>2. CASE /\ Provider(cls, c, H) = NoClass
               /\ \A i \in 1..Len(chain) : chain[i] \notin H
      <3>1. \A i \in 1..Len(rest) : rest[i] \notin H
        BY <1>3, <2>2
      <3>2. Provider(cls, cls[c].base, H) = NoClass
        <4>. PICK b : b = cls[c].base
          OBVIOUS
        <4>1. Chain(cls)[b] \in Seq(Classes) /\ \A i \in 1..Len(Chain(cls)[b]) : Chain(cls)[b][i] \notin H
          BY <1>1, <2>1, <3>1
        <4>. QED  BY <4>1, ProviderFirst
      <3>. QED  BY <1>6, <2>2, <3>2
    <2>3. ASSUME NEW k \in 1..Len(chain), Provider(cls, c, H) = chain[k], chain[k] \in H,
                 \A i \in 1..(k - 1) : chain[i] \notin H
          PROVE  Provider(cls, c, H) = Provider(cls, cls[c].base, H)
      <3>1. k # 1 /\ k \in Nat
        BY <1>3, <1>6, <2>3
      <3>. PICK j : j = k - 1
        OBVIOUS
      <3>2. j \in 1..Len(rest) /\ k = j + 1
        BY <1>3, <3>1
      <3>3. rest[j] = chain[k] /\ rest[j] \in H
        BY <1>3, <2>3, <3>2
      <3>4. PICK l \in 1..Len(rest) : /\ Provider(cls, cls[c].base, H) = rest[l] /\ rest[l] \in H
                                      /\ \A i \in 1..(l - 1) : rest[i] \notin H
        BY <1>1, <2>1, <3>2, <3>3, ProviderFirst
      <3>5. chain[l + 1] = rest[l]
        BY <1>3
      <3>6. ~(l + 1 \in 1..(k - 1))
        BY <2>3, <3>4, <3>5
      <3>7. ~(j \in 1..(l - 1))
        BY <3>3, <3>4
      <3>8. l = j
        BY <1>3, <3>1, <3>2, <3>6, <3>7
      <3>. QED  BY <2>3, <3>3, <3>4, <3>8
    <2>. QED  BY <1>1, <1>6, <2>2, <2>3, ProviderFirst
  <1>. QED  BY <1>4, <1>5, <1>6

-----------------------------------------------------------------------------
(* Layouts.                                                                *)

VirtualPart(cls, c) == Extended(Inherited(cls, c), VirtualEntries(cls, c))

LEMMA LayoutTypes ==
    ASSUME NEW cls \in [Classes -> ClassInfos], NEW rank, NEW n, Hierarchy(cls, rank, n)
    PROVE  \A c \in Classes : /\ Layout(cls)[c] \in Seq(Entries)
                              /\ VirtualPart(cls, c) \in Seq(Entries)
                              /\ Inherited(cls, c) \in Seq(Entries)
                              /\ Grows(Inherited(cls, c), VirtualPart(cls, c))
                              /\ Grows(VirtualPart(cls, c), Layout(cls)[c])
                              /\ Layout(cls)[c] = VirtualPart(cls, c) \o StaticEntries(cls, c)
  <1>1. ASSUME NEW c \in Classes, Inherited(cls, c) \in Seq(Entries)
        PROVE  /\ Layout(cls)[c] \in Seq(Entries)
               /\ VirtualPart(cls, c) \in Seq(Entries)
               /\ Grows(Inherited(cls, c), VirtualPart(cls, c))
               /\ Grows(VirtualPart(cls, c), Layout(cls)[c])
               /\ Layout(cls)[c] = VirtualPart(cls, c) \o StaticEntries(cls, c)
    <2>. PICK v, s : v = VirtualPart(cls, c) /\ s = StaticEntries(cls, c)
      OBVIOUS
    <2>1. v \in Seq(Entries) /\ Grows(Inherited(cls, c), v) /\ s \in Seq(Entries)
      BY <1>1, EntriesOf, ExtendedGrows DEF VirtualPart
    <2>2. Layout(cls)[c] = v \o s
      BY LayoutIs DEF VirtualPart
    <2>3. Len(v) \in Nat /\ Len(s) \in Nat
      BY <2>1
    <2>4. v \o s \in Seq(Entries) /\ Grows(v, v \o s)
      BY <2>1, <2>3, ConcatenationIs DEF Grows
    <2>. QED  BY <2>1, <2>2, <2>4
  <1>. DEFINE P == {c \in Classes : Layout(cls)[c] \in Seq(Entries)}
  <1>2. ASSUME NEW c \in Classes, cls[c].base # NoClass => cls[c].base \in P
        PROVE  c \in P /\ Inherited(cls, c) \in Seq(Entries)
    <2>1. Inherited(cls, c) \in Seq(Entries)
      BY <1>2 DEF Inherited
    <2>. QED  BY <1>1, <2>1
  <1>. HIDE DEF P
  <1>3. \A c \in Classes : c \in P
    BY <1>2, HierarchyInduction
  <1>4. \A c \in Classes : Inherited(cls, c) \in Seq(Entries)
    <2>1. \A c \in Classes : cls[c].base # NoClass => cls[c].base \in Classes
      BY DEF Hierarchy
    <2>. QED  BY <1>2, <1>3, <2>1
  <1>. QED  BY <1>1, <1>4

HasMethod(cls, c, name) == \E i \in 1..Len(cls[c].methods) : cls[c].methods[i].name = name

LEMMA MethodProviderIs ==
    ASSUME NEW cls \in [Classes -> ClassInfos], NEW rank, NEW n, Hierarchy(cls, rank, n),
           NEW c \in Classes, NEW name
    PROVE  MethodProvider(cls, c, name) =
              IF HasMethod(cls, c, name) THEN c
              ELSE IF cls[c].base = NoClass THEN NoClass
              ELSE MethodProvider(cls, cls[c].base, name)
  <1>. PICK H : H = {e \in Classes : Named(cls[e].methods, name) >= 0}
    OBVIOUS
  <1>1. c \in H <=> HasMethod(cls, c, name)
    <2>. PICK methods : methods = cls[c].methods
      OBVIOUS
    <2>1. Len(methods) \in Nat
      BY DEF ClassInfos
    <2>2. \/ Named(methods, name) = -1 /\ \A i \in 1..Len(methods) : methods[i].name # name
          \/ /\ Named(methods, name) \in 0..(Len(methods) - 1)
             /\ methods[Named(methods, name) + 1].name = name
      BY <2>1, NamedIs
    <2>3. Named(methods, name) >= 0 <=> \E i \in 1..Len(methods) : methods[i].name = name
      <3>1. CASE Named(methods, name) = -1 /\ \A i \in 1..Len(methods) : methods[i].name # name
        BY <3>1
      <3>2. CASE /\ Named(methods, name) \in 0..(Len(methods) - 1)
                 /\ methods[Named(methods, name) + 1].name = name
        BY <2>1, <3>2
      <3>. QED  BY <2>2, <3>1, <3>2
    <2>. QED  BY <2>3 DEF HasMethod
  <1>2. Provider(cls, c, H) = IF c \in H THEN c
                              ELSE IF cls[c].base = NoClass THEN NoClass
                              ELSE Provider(cls, cls[c].base, H)
    BY ProviderIs
  <1>. QED  BY <1>1, <1>2 DEF MethodProvider

\* A method has a slot in the layout of each class that has the method, and the
\* entry is the method of the class's provider.
LEMMA SlotOfMethod ==
    ASSUME NEW cls \in [Classes -> ClassInfos], NEW rank, NEW n, Hierarchy(cls, rank, n),
           NEW name, name \notin Interfaces
    PROVE  \A c \in Classes :
              /\ NoInterfaceEntry(Layout(cls)[c], name)
              /\ MethodProvider(cls, c, name) # NoClass =>
                    LET k == Place(Layout(cls)[c], name) IN
                    /\ k \in 0..(Len(Layout(cls)[c]) - 1)
                    /\ IsFor(Layout(cls)[c][k + 1], name)
                    /\ Layout(cls)[c][k + 1].class = MethodProvider(cls, c, name)
                    /\ Place(VirtualPart(cls, c), name) = k
  <1>. DEFINE Good(c) ==
                /\ NoInterfaceEntry(Layout(cls)[c], name)
                /\ MethodProvider(cls, c, name) # NoClass =>
                      LET k == Place(Layout(cls)[c], name) IN
                      /\ k \in 0..(Len(Layout(cls)[c]) - 1)
                      /\ IsFor(Layout(cls)[c][k + 1], name)
                      /\ Layout(cls)[c][k + 1].class = MethodProvider(cls, c, name)
                      /\ Place(VirtualPart(cls, c), name) = k
              P == {c \in Classes : Good(c)}
  <1>1. ASSUME NEW c \in Classes, cls[c].base # NoClass => cls[c].base \in P
        PROVE  c \in P
    <2>. PICK i, e, v, s, l : /\ i = Inherited(cls, c) /\ e = VirtualEntries(cls, c)
                              /\ v = VirtualPart(cls, c) /\ s = StaticEntries(cls, c)
                              /\ l = Layout(cls)[c]
      OBVIOUS
    <2>. PICK p : p = MethodProvider(cls, c, name)
      OBVIOUS
    <2>1. /\ i \in Seq(Entries) /\ v \in Seq(Entries) /\ l \in Seq(Entries)
          /\ Grows(i, v) /\ Grows(v, l) /\ l = v \o s /\ v = Extended(i, e)
      BY LayoutTypes DEF VirtualPart
    <2>2. /\ e \in Seq(Virtuals) /\ s \in Seq(Entries)
          /\ \A k \in 1..Len(s) : s[k].kind = "static"
          /\ NoInterfaceEntry(e, name)
          /\ \A k \in 1..Len(e) : e[k].kind # "interface" => e[k].class = c
          /\ (\E k \in 1..Len(e) : e[k].name = name) <=> HasMethod(cls, c, name)
      BY EntriesOf DEF HasMethod
    <2>3. \A k \in 1..Len(e) : e[k].name = name => e[k].class = c
      BY <2>2 DEF NoInterfaceEntry
    <2>4. NoInterfaceEntry(i, name)
      <3>1. CASE cls[c].base = NoClass
        BY <3>1 DEF Inherited, NoInterfaceEntry
      <3>2. CASE cls[c].base # NoClass
        BY <1>1, <3>2 DEF Inherited
      <3>. QED  BY <3>1, <3>2
    <2>5. /\ NoInterfaceEntry(v, name)
          /\ HasMethod(cls, c, name) =>
                Place(v, name) >= 0 /\ v[Place(v, name) + 1].class = c
          /\ Place(i, name) >= 0 /\ ~HasMethod(cls, c, name) =>
                Place(v, name) >= 0 /\ v[Place(v, name) + 1].class = i[Place(v, name) + 1].class
      <3>1. PlacesMethod(i, e, v, name, c)
        BY <2>1, <2>2, <2>3, <2>4, ExtendedMethod
      <3>2. (\A j \in 1..Len(e) : e[j].name # name) <=> ~HasMethod(cls, c, name)
        BY <2>2
      <3>. QED  BY <2>2, <3>1, <3>2 DEF PlacesMethod
    <2>6. NoInterfaceEntry(l, name)
      <3>1. ASSUME NEW k \in 1..Len(l), l[k].kind = "interface" PROVE l[k].name # name
        <4>1. \/ k \in 1..Len(v) /\ l[k] = v[k]
              \/ \E j \in 1..Len(s) : l[k] = s[j]
          <5>. PICK S : S = Entries
            OBVIOUS
          <5>1. v \in Seq(S) /\ s \in Seq(S) /\ k \in 1..Len(v \o s)
            BY <2>1, <2>2
          <5>2. \/ k \in 1..Len(v) /\ (v \o s)[k] = v[k]
                \/ \E j \in 1..Len(s) : (v \o s)[k] = s[j]
            BY <5>1, ConcatenationElement
          <5>. QED  BY <2>1, <5>2
        <4>2. ~\E j \in 1..Len(s) : l[k] = s[j]
          BY <2>2, <3>1
        <4>. QED  BY <2>5, <3>1, <4>1, <4>2 DEF NoInterfaceEntry
      <3>. QED  BY <3>1 DEF NoInterfaceEntry
    <2>7. p = IF HasMethod(cls, c, name) THEN c
              ELSE IF cls[c].base = NoClass THEN NoClass
              ELSE MethodProvider(cls, cls[c].base, name)
      BY MethodProviderIs
    <2>8. ASSUME p # NoClass
          PROVE  Place(v, name) >= 0 /\ v[Place(v, name) + 1].class = p
      <3>1. CASE HasMethod(cls, c, name)
        BY <2>5, <2>7, <3>1
      <3>2. CASE ~HasMethod(cls, c, name)
        <4>1. cls[c].base # NoClass /\ p = MethodProvider(cls, cls[c].base, name)
          BY <2>7, <2>8, <3>2
        <4>2. i = Layout(cls)[cls[c].base]
          BY <4>1 DEF Inherited
        <4>3. Place(i, name) >= 0 /\ i[Place(i, name) + 1].class = p
          BY <1>1, <2>8, <4>1, <4>2
        <4>4. Place(v, name) = Place(i, name)
          BY <2>1, <4>3, PlaceStays
        <4>. QED  BY <2>5, <3>2, <4>3, <4>4
      <3>. QED  BY <3>1, <3>2
    <2>9. ASSUME p # NoClass
          PROVE  LET k == Place(l, name) IN
                 /\ k \in 0..(Len(l) - 1) /\ IsFor(l[k + 1], name)
                 /\ l[k + 1].class = p /\ Place(v, name) = k
      <3>. PICK k : k = Place(l, name)
        OBVIOUS
      <3>1. Place(v, name) = k /\ k >= 0
        BY <2>1, <2>8, <2>9, PlaceStays
      <3>2. Len(l) \in Nat /\ Len(v) \in Nat
        BY <2>1
      <3>3. k \in 0..(Len(l) - 1) /\ IsFor(l[k + 1], name)
        BY <3>1, <3>2, PlaceIs
      <3>4. k \in 0..(Len(v) - 1)
        BY <3>1, <3>2, PlaceIs
      <3>5. k + 1 \in 1..Len(v)
        BY <3>2, <3>4
      <3>6. l[k + 1] = v[k + 1]
        BY <2>1, <2>2, <3>5, ConcatenationIs
      <3>. QED  BY <2>8, <2>9, <3>1, <3>3, <3>6
    <2>. QED  BY <2>6, <2>9
  <1>. HIDE DEF P
  <1>2. \A c \in Classes : c \in P
    BY <1>1, HierarchyInduction
  <1>. QED  BY <1>2 DEF P

\* In the layout of an heir every entry of the class keeps its slot.
LEMMA HeirsKeepSlots ==
    ASSUME NEW cls \in [Classes -> ClassInfos], NEW rank, NEW n, Hierarchy(cls, rank, n),
           NoClass \notin Classes, NEW c \in Classes, NEW name
    PROVE  \A d \in Classes : c \in ToSet(Chain(cls)[d]) =>
              /\ Grows(Layout(cls)[c], Layout(cls)[d])
              /\ MethodProvider(cls, c, name) # NoClass => MethodProvider(cls, d, name) # NoClass
  <1>. DEFINE P == {d \in Classes : c \in ToSet(Chain(cls)[d]) =>
                      /\ Grows(Layout(cls)[c], Layout(cls)[d])
                      /\ MethodProvider(cls, c, name) # NoClass => MethodProvider(cls, d, name) # NoClass}
  <1>1. ASSUME NEW d \in Classes, cls[d].base # NoClass => cls[d].base \in P
        PROVE  d \in P
    <2>. SUFFICES ASSUME c \in ToSet(Chain(cls)[d])
                  PROVE  /\ Grows(Layout(cls)[c], Layout(cls)[d])
                         /\ MethodProvider(cls, c, name) # NoClass => MethodProvider(cls, d, name) # NoClass
      OBVIOUS
    <2>. PICK b : b = cls[d].base
      OBVIOUS
    <2>0. b # NoClass => b \in Classes
      BY DEF Hierarchy
    <2>1. CASE c = d
      <3>1. Layout(cls)[d] \in Seq(Entries)
        BY LayoutTypes
      <3>2. Len(Layout(cls)[d]) \in Nat
        BY <3>1
      <3>. QED  BY <2>1, <3>2 DEF Grows
    <2>2. CASE c # d
      <3>. PICK rest : rest = IF b = NoClass THEN <<>> ELSE Chain(cls)[b]
        OBVIOUS
      <3>1. Chain(cls)[d] = <<d>> \o rest /\ rest \in Seq(Classes)
        BY <2>0, ChainIs, ChainTypes
      <3>2. c \in ToSet(rest)
        <4>1. c \in ToSet(<<d>> \o rest)
          BY <3>1
        <4>. QED  BY <2>2, <3>1, <4>1, FirstOrRest
      <3>3. b # NoClass /\ c \in ToSet(Chain(cls)[b])
        <4>1. ToSet(<<>>) = {}
          BY DEF ToSet
        <4>. QED  BY <3>2, <4>1
      <3>4. /\ Grows(Layout(cls)[c], Layout(cls)[b])
            /\ MethodProvider(cls, c, name) # NoClass => MethodProvider(cls, b, name) # NoClass
        BY <1>1, <3>3
      <3>5. Inherited(cls, d) = Layout(cls)[b]
        BY <3>3 DEF Inherited
      <3>6. Grows(Layout(cls)[b], Layout(cls)[d])
        BY <2>0, <3>3, <3>5, LayoutTypes, GrowsTransitive
      <3>7. Grows(Layout(cls)[c], Layout(cls)[d])
        BY <2>0, <3>3, <3>4, <3>6, LayoutTypes, GrowsTransitive
      <3>8. MethodProvider(cls, b, name) # NoClass => MethodProvider(cls, d, name) # NoClass
        BY <3>3, MethodProviderIs
      <3>. QED  BY <3>4, <3>7, <3>8
    <2>. QED  BY <2>1, <2>2
  <1>. HIDE DEF P
  <1>2. \A d \in Classes : d \in P
    BY <1>1, HierarchyInduction
  <1>. QED  BY <1>2 DEF P

\* The layout of a class depends on its chain only.
LEMMA LayoutLocal ==
    ASSUME NEW cls, NEW new, NEW rank, NEW n, Hierarchy(cls, rank, n), Hierarchy(new, rank, n),
           NEW D, \A c \in D : c \in Classes /\ (cls[c].base # NoClass => cls[c].base \in D),
           \A c \in D : /\ new[c].base = cls[c].base
                        /\ VirtualEntries(new, c) = VirtualEntries(cls, c)
                        /\ StaticEntries(new, c) = StaticEntries(cls, c)
    PROVE  \A c \in D : Layout(new)[c] = Layout(cls)[c]
  <1>. DEFINE P == {c \in Classes : c \in D => Layout(new)[c] = Layout(cls)[c]}
  <1>1. ASSUME NEW c \in Classes, cls[c].base # NoClass => cls[c].base \in P
        PROVE  c \in P
    <2>. SUFFICES ASSUME c \in D PROVE Layout(new)[c] = Layout(cls)[c]
      OBVIOUS
    <2>1. Inherited(new, c) = Inherited(cls, c)
      BY <1>1 DEF Inherited
    <2>2. /\ VirtualEntries(new, c) = VirtualEntries(cls, c)
          /\ StaticEntries(new, c) = StaticEntries(cls, c)
      OBVIOUS
    <2>3. Layout(new)[c] = Extended(Inherited(new, c), VirtualEntries(new, c)) \o StaticEntries(new, c)
      BY LayoutIs
    <2>4. Layout(cls)[c] = Extended(Inherited(cls, c), VirtualEntries(cls, c)) \o StaticEntries(cls, c)
      BY LayoutIs
    <2>. QED  BY <2>1, <2>2, <2>3, <2>4
  <1>. HIDE DEF P
  <1>2. \A c \in Classes : c \in P
    BY <1>1, HierarchyInduction
  <1>. QED  BY <1>2 DEF P

-----------------------------------------------------------------------------
(* The programs the theorem is about.                                      *)

\* The classes declared before the k-th declaration.
DeclaredBefore(k) == {program[j].name : j \in {i \in Declared : i < k}}

CallsIn(d) ==
    CASE d.kind = "class" -> UNION {ToSet(d.methods[k].calls) : k \in DOMAIN d.methods}
      [] d.kind = "function" -> ToSet(d.calls)
      [] OTHER -> {}

\* A class is declared once, after its base, and before its methods are called
\* from outside: a call compiled before the class is generated again reads the
\* slot of an older layout, and every attempt adds the static fields again.
DeclaresFirst ==
    /\ \A j, k \in Declared : program[j].name = program[k].name => j = k
    /\ \A k \in Declared : program[k].base \in DeclaredBefore(k) \cup {NoClass}
    /\ \A k \in DOMAIN program : \A e \in CallsIn(program[k]) :
          e.how = "method" => e.on \in DeclaredBefore(k + 1)

MethodNames(d) == {AllMethods(d)[k].name : k \in DOMAIN AllMethods(d)}

\* No method has the name of a field, which the language forbids in a hierarchy,
\* or of an interface, whose entry the tables would find in its place.
NamesApart ==
    \A c, d \in ClassesOf : MethodNames(ClassOf(c)) \cap (ClassOf(d).fields \cup Interfaces) = {}

Orderly == DeclaresFirst /\ NamesApart

DeclaredBase(c) == IF c \in ClassesOf THEN ClassOf(c).base ELSE NoClass
DeclaredMethods(c) == IF c \in ClassesOf THEN MethodNames(ClassOf(c)) ELSE {}

\* The rank of a class is the place of its declaration.
Rank == [c \in Classes |-> IF c \in ClassesOf THEN CHOOSE k \in Declared : program[k].name = c ELSE 0]

-----------------------------------------------------------------------------
(* The inductive invariant, as conditions on a store.                      *)

IsStore(s) ==
    /\ s = [types |-> s.types, interfaces |-> s.interfaces, classes |-> s.classes,
            tables |-> s.tables, emitted |-> s.emitted, redefined |-> s.redefined,
            calls |-> s.calls]
    /\ s.classes \in [Classes -> ClassInfos]

\* What the store knows of a class is what the program declares.
ClassesOK(cls) ==
    \A c \in Classes :
        /\ cls[c].base \in {NoClass, DeclaredBase(c)}
        /\ \A i \in 1..Len(cls[c].methods) : cls[c].methods[i].name \in DeclaredMethods(c)
        /\ \A name \in cls[c].compiled : HasMethod(cls, c, name)

\* It knows all of the class.
Whole(cls, c) ==
    /\ cls[c].base = DeclaredBase(c)
    /\ \A name \in DeclaredMethods(c) : HasMethod(cls, c, name)

\* The classes W are known.
Sound(s, W) == IsStore(s) /\ ClassesOK(s.classes) /\ \A c \in W : Whole(s.classes, c)

\* The classes whose generation the discovery run has ended.
Discovered ==
    {program[k].name : k \in {j \in Declared :
        run \in {"generate", "done"} \/ (run = "discover" /\ j \in processed)}}

\* The methods of the class have their slots.
IndicesOK(cls, c) ==
    \A i \in 1..Len(cls[c].methods) :
        cls[c].methods[i].index = Place(VirtualPart(cls, c), cls[c].methods[i].name)

\* The call will read the slot of a method that its class has.
GoodCall(cls, e) ==
    /\ MethodProvider(cls, e.call.on, e.call.member) # NoClass
    /\ e.slot = Place(VirtualPart(cls, e.call.on), e.call.member)

\* For the classes declared before the n-th declaration.
AllIndicesOK(s, n) == \A c \in DeclaredBefore(n) : IndicesOK(s.classes, c)
CallsOK(s, n) ==
    \A e \in s.calls : e.call.how = "method" =>
        e.call.on \in DeclaredBefore(n) /\ GoodCall(s.classes, e)
TablesOK(s, n) ==
    \A c \in ClassesOf :
        IF c \in DeclaredBefore(n)
        THEN ~ClassOf(c).abstract =>
                <<c>> \in DOMAIN s.tables /\ s.tables[<<c>>] = OwnTable(s.classes, c)
        ELSE <<c>> \notin DOMAIN s.tables

\* Nothing had to be tried again in the run that is kept.
FirstPass == run \in {"generate", "done"} /\ lastTime = 0 /\ notResolved = 0

StateTypes ==
    /\ program \in Programs /\ run \in {"discover", "generate", "done", "failed"}
    /\ next \in 1..(Len(program) + 1) /\ processed \subseteq DOMAIN program
    /\ notResolved \in Nat /\ lastTime \in Nat

Passes ==
    /\ run # "failed" /\ notResolved = 0 => 1..(next - 1) \subseteq processed
    /\ lastTime = 0 => \A k \in processed : k < next
    /\ run = "done" => notResolved = 0 /\ next = Len(program) + 1

VInv ==
    StateTypes /\ (Orderly =>
        /\ Sound(store, Discovered) /\ Passes
        /\ FirstPass => AllIndicesOK(store, next) /\ TablesOK(store, next) /\ CallsOK(store, next))

-----------------------------------------------------------------------------
(* What an orderly program is like.                                        *)

LEMMA ProgramIs ==
    ASSUME program \in Programs
    PROVE  /\ Len(program) \in Nat /\ DOMAIN program = 1..Len(program)
           /\ \A k \in 1..Len(program) : program[k] \in ClassDeclarations \cup InterfaceDeclarations
                                                        \cup FunctionDeclarations
           /\ \A k \in Declared : k \in 1..Len(program) /\ program[k] \in ClassDeclarations
  <1>1. program \in Seq(ClassDeclarations \cup InterfaceDeclarations \cup FunctionDeclarations)
    BY ProgramsAssumption
  <1>2. /\ Len(program) \in Nat /\ DOMAIN program = 1..Len(program)
        /\ \A k \in 1..Len(program) : program[k] \in ClassDeclarations \cup InterfaceDeclarations
                                                     \cup FunctionDeclarations
    BY <1>1, SequenceIs
  <1>3. ASSUME NEW k \in Declared PROVE k \in 1..Len(program) /\ program[k] \in ClassDeclarations
    <2>1. k \in 1..Len(program) /\ program[k].kind = "class"
      BY <1>2, <1>3 DEF Declared
    <2>2. program[k] \notin InterfaceDeclarations /\ program[k] \notin FunctionDeclarations
      BY <2>1 DEF InterfaceDeclarations, FunctionDeclarations
    <2>. QED  BY <1>2, <2>1, <2>2
  <1>. QED  BY <1>2, <1>3

LEMMA ClassOfIs ==
    ASSUME program \in Programs, DeclaresFirst, NEW k \in Declared
    PROVE  /\ ClassOf(program[k].name) = program[k] /\ Rank[program[k].name] = k
           /\ program[k].name \in Classes /\ program[k].name \in ClassesOf
  <1>1. \A j \in Declared : program[j].name = program[k].name => j = k
    BY DEF DeclaresFirst
  <1>2. (CHOOSE j \in Declared : program[j].name = program[k].name) = k
    BY <1>1
  <1>3. program[k].name \in Classes /\ program[k].name \in ClassesOf
    <2>1. program[k] \in ClassDeclarations
      BY ProgramIs
    <2>. QED  BY <2>1 DEF ClassesOf, ClassDeclarations
  <1>. QED  BY <1>2, <1>3 DEF ClassOf, Rank

\* The bases of the classes declared before a declaration are declared before it.
LEMMA BasesBefore ==
    ASSUME program \in Programs, DeclaresFirst, NEW n \in Int, NEW c \in DeclaredBefore(n)
    PROVE  /\ c \in Classes /\ c \in ClassesOf
           /\ DeclaredBase(c) \in DeclaredBefore(n) \cup {NoClass}
  <1>1. PICK k \in Declared : k < n /\ c = program[k].name
    BY DEF DeclaredBefore
  <1>2. DeclaredBase(c) = program[k].base /\ c \in Classes /\ c \in ClassesOf
    BY <1>1, ClassOfIs DEF DeclaredBase
  <1>3. program[k].base \in DeclaredBefore(k) \cup {NoClass}
    BY DEF DeclaresFirst
  <1>4. DeclaredBefore(k) \subseteq DeclaredBefore(n)
    <2>1. \A j \in Declared : j \in Int /\ k \in Int
      BY ProgramIs
    <2>. QED  BY <1>1, <2>1 DEF DeclaredBefore
  <1>. QED  BY <1>2, <1>3, <1>4

LEMMA NextDeclared ==
    ASSUME program \in Programs, NEW n \in 1..Len(program)
    PROVE  DeclaredBefore(n + 1) =
              DeclaredBefore(n) \cup (IF program[n].kind = "class" THEN {program[n].name} ELSE {})
  <1>1. \A j \in Declared : j \in Int /\ (j < n + 1 <=> j < n \/ j = n)
    BY ProgramIs
  <1>2. n \in Declared <=> program[n].kind = "class"
    BY ProgramIs DEF Declared
  <1>3. {i \in Declared : i < n + 1} =
           {i \in Declared : i < n} \cup (IF program[n].kind = "class" THEN {n} ELSE {})
    BY <1>1, <1>2
  <1>. QED  BY <1>3 DEF DeclaredBefore

\* A class is not declared before its own declaration.
LEMMA NotYetDeclared ==
    ASSUME program \in Programs, DeclaresFirst, NEW k \in Declared, NEW n \in Int, n <= k
    PROVE  program[k].name \notin DeclaredBefore(n)
  <1>1. ASSUME NEW j \in Declared, j < n PROVE program[j].name # program[k].name
    <2>1. j \in Int /\ k \in Int
      BY ProgramIs
    <2>2. j # k
      BY <1>1, <2>1
    <2>. QED  BY <2>2 DEF DeclaresFirst
  <1>. QED  BY <1>1 DEF DeclaredBefore

LEMMA AllDeclared ==
    ASSUME program \in Programs, NEW n \in Int, Len(program) < n
    PROVE  DeclaredBefore(n) = ClassesOf
  <1>1. \A j \in Declared : j < n
    BY ProgramIs
  <1>. QED  BY <1>1 DEF DeclaredBefore, ClassesOf

LEMMA HierarchyOf ==
    ASSUME program \in Programs, DeclaresFirst, NEW cls,
           \A c \in Classes : cls[c].base \in {NoClass, DeclaredBase(c)}
    PROVE  Hierarchy(cls, Rank, Len(program))
  <1>1. \A k \in Declared : k \in 1..Len(program) /\ k \in Nat
    BY ProgramIs
  <1>2. Rank \in [Classes -> 0..Len(program)]
    <2>1. ASSUME NEW c \in ClassesOf PROVE (CHOOSE k \in Declared : program[k].name = c) \in Declared
      BY <2>1 DEF ClassesOf
    <2>2. \A c \in Classes : Rank[c] \in 0..Len(program)
      BY <1>1, <2>1, ProgramIs DEF Rank
    <2>3. Rank = [c \in Classes |-> Rank[c]]
      BY DEF Rank
    <2>. QED  BY <2>2, <2>3
  <1>3. ASSUME NEW c \in Classes, cls[c].base # NoClass
        PROVE  cls[c].base \in Classes /\ Rank[cls[c].base] < Rank[c]
    <2>1. c \in ClassesOf /\ cls[c].base = DeclaredBase(c)
      BY <1>3 DEF DeclaredBase
    <2>2. PICK k \in Declared : program[k].name = c
      BY <2>1 DEF ClassesOf
    <2>3. Rank[c] = k /\ DeclaredBase(c) = program[k].base
      BY <2>1, <2>2, ClassOfIs DEF DeclaredBase
    <2>4. cls[c].base \in DeclaredBefore(k)
      BY <1>3, <2>1, <2>3 DEF DeclaresFirst
    <2>5. PICK j \in Declared : j < k /\ program[j].name = cls[c].base
      BY <2>4 DEF DeclaredBefore
    <2>. QED  BY <2>3, <2>5, ClassOfIs
  <1>. QED  BY <1>2, <1>3, ProgramIs DEF Hierarchy

-----------------------------------------------------------------------------
(* What does not change layouts, slots and providers.                      *)

SameBody(cls, new, c) ==
    /\ new[c].base = cls[c].base
    /\ VirtualEntries(new, c) = VirtualEntries(cls, c)
    /\ \A name : HasMethod(new, c, name) <=> HasMethod(cls, c, name)

\* The classes E, with their bases D, are the same; the static fields of a class
\* have no part in its own virtual part.
Undisturbed(cls, new, D, E) ==
    /\ D \subseteq E
    /\ \A c \in E : /\ c \in Classes /\ (cls[c].base # NoClass => cls[c].base \in D)
                    /\ SameBody(cls, new, c)
    /\ \A c \in D : StaticEntries(new, c) = StaticEntries(cls, c)

LEMMA LayoutsStay ==
    ASSUME NEW cls \in [Classes -> ClassInfos], NEW new \in [Classes -> ClassInfos],
           NEW rank, NEW n, Hierarchy(cls, rank, n), Hierarchy(new, rank, n),
           NEW D, NEW E, Undisturbed(cls, new, D, E)
    PROVE  /\ \A c \in D : OwnTable(new, c) = OwnTable(cls, c)
           /\ \A c \in E : /\ VirtualPart(new, c) = VirtualPart(cls, c)
                           /\ \A name : MethodProvider(new, c, name) = MethodProvider(cls, c, name)
  <1>0. /\ D \subseteq E
        /\ \A c \in E : /\ c \in Classes /\ (cls[c].base # NoClass => cls[c].base \in D)
                        /\ SameBody(cls, new, c)
        /\ \A c \in D : StaticEntries(new, c) = StaticEntries(cls, c)
    BY DEF Undisturbed
  <1>1. \A c \in D : Layout(new)[c] = Layout(cls)[c]
    <2>1. \A c \in D : /\ c \in Classes /\ (cls[c].base # NoClass => cls[c].base \in D)
                       /\ new[c].base = cls[c].base
                       /\ VirtualEntries(new, c) = VirtualEntries(cls, c)
                       /\ StaticEntries(new, c) = StaticEntries(cls, c)
      BY <1>0 DEF SameBody
    <2>. QED  BY <2>1, LayoutLocal
  <1>2. \A c \in D : OwnTable(new, c) = OwnTable(cls, c)
    BY <1>1 DEF OwnTable
  <1>3. ASSUME NEW c \in E PROVE VirtualPart(new, c) = VirtualPart(cls, c)
    <2>1. new[c].base = cls[c].base /\ VirtualEntries(new, c) = VirtualEntries(cls, c)
      BY <1>0 DEF SameBody
    <2>2. Inherited(new, c) = Inherited(cls, c)
      BY <1>0, <1>1, <2>1 DEF Inherited
    <2>. QED  BY <2>1, <2>2 DEF VirtualPart
  <1>. DEFINE P == {c \in Classes : c \in E =>
                      \A name : MethodProvider(new, c, name) = MethodProvider(cls, c, name)}
  <1>4. ASSUME NEW c \in Classes, cls[c].base # NoClass => cls[c].base \in P
        PROVE  c \in P
    <2>. SUFFICES ASSUME c \in E, NEW name
                  PROVE  MethodProvider(new, c, name) = MethodProvider(cls, c, name)
      OBVIOUS
    <2>1. new[c].base = cls[c].base /\ (HasMethod(new, c, name) <=> HasMethod(cls, c, name))
      BY <1>0 DEF SameBody
    <2>2. cls[c].base # NoClass =>
             MethodProvider(new, cls[c].base, name) = MethodProvider(cls, cls[c].base, name)
      BY <1>0, <1>4
    <2>3. MethodProvider(cls, c, name) =
             IF HasMethod(cls, c, name) THEN c
             ELSE IF cls[c].base = NoClass THEN NoClass
             ELSE MethodProvider(cls, cls[c].base, name)
      BY MethodProviderIs
    <2>4. MethodProvider(new, c, name) =
             IF HasMethod(new, c, name) THEN c
             ELSE IF new[c].base = NoClass THEN NoClass
             ELSE MethodProvider(new, new[c].base, name)
      BY MethodProviderIs
    <2>. QED  BY <2>1, <2>2, <2>3, <2>4
  <1>. HIDE DEF P
  <1>5. \A c \in Classes : c \in P
    BY <1>4, HierarchyInduction
  <1>. QED  BY <1>0, <1>2, <1>3, <1>5 DEF P

\* The tables of classes, not those for interfaces, are the same.
SameTables(s, t) ==
    \A c : /\ <<c>> \in DOMAIN t.tables <=> <<c>> \in DOMAIN s.tables
           /\ <<c>> \in DOMAIN s.tables => t.tables[<<c>>] = s.tables[<<c>>]

\* The second store has no other calls of methods.
NoMoreCalls(s, t) == \A e \in t.calls : e.call.how = "method" => e \in s.calls

\* For the classes declared before n, whose bases are declared before m.
StoresAlike(s, t, m, n) ==
    /\ \A c \in DeclaredBefore(n) : DeclaredBase(c) \in DeclaredBefore(m) \cup {NoClass}
    /\ \A c \in DeclaredBefore(n) : SameBody(s.classes, t.classes, c)
    /\ \A c \in DeclaredBefore(m) : StaticEntries(t.classes, c) = StaticEntries(s.classes, c)

LEMMA PlacesStay ==
    ASSUME program \in Programs, DeclaresFirst, NEW m \in Int, NEW n \in Int, m <= n,
           NEW s, NEW t, IsStore(s), IsStore(t), ClassesOK(s.classes), ClassesOK(t.classes),
           StoresAlike(s, t, m, n)
    PROVE  /\ AllIndicesOK(s, n) /\ (\A c \in DeclaredBefore(n) : t.classes[c].methods = s.classes[c].methods)
                 => AllIndicesOK(t, n)
           /\ TablesOK(s, m) /\ SameTables(s, t) => TablesOK(t, m)
           /\ CallsOK(s, n) /\ NoMoreCalls(s, t) => CallsOK(t, n)
           /\ \A c \in DeclaredBefore(n) : VirtualPart(t.classes, c) = VirtualPart(s.classes, c)
  <1>. PICK cls, new : cls = s.classes /\ new = t.classes
    OBVIOUS
  <1>. PICK D, E : D = DeclaredBefore(m) /\ E = DeclaredBefore(n)
    OBVIOUS
  <1>1. Hierarchy(cls, Rank, Len(program)) /\ Hierarchy(new, Rank, Len(program))
    BY HierarchyOf DEF ClassesOK
  <1>2. D \subseteq E
    <2>1. \A j \in Declared : j \in Int
      BY ProgramIs
    <2>. QED  BY <2>1 DEF DeclaredBefore
  <1>3. \A c \in E : /\ c \in Classes /\ (cls[c].base # NoClass => cls[c].base \in D)
                     /\ SameBody(cls, new, c)
    <2>1. \A c \in E : c \in Classes
      BY BasesBefore
    <2>. QED  BY <2>1 DEF ClassesOK, StoresAlike
  <1>4. /\ cls \in [Classes -> ClassInfos] /\ new \in [Classes -> ClassInfos]
        /\ \A c \in D : StaticEntries(new, c) = StaticEntries(cls, c)
    BY DEF IsStore, StoresAlike
  <1>5. /\ \A c \in D : OwnTable(new, c) = OwnTable(cls, c)
        /\ \A c \in E : /\ VirtualPart(new, c) = VirtualPart(cls, c)
                        /\ \A name : MethodProvider(new, c, name) = MethodProvider(cls, c, name)
    <2>. PICK rank, size : rank = Rank /\ size = Len(program)
      OBVIOUS
    <2>1. Hierarchy(cls, rank, size) /\ Hierarchy(new, rank, size)
      BY <1>1
    <2>2. Undisturbed(cls, new, D, E)
      BY <1>2, <1>3, <1>4 DEF Undisturbed
    <2>. QED  BY <1>4, <2>1, <2>2, LayoutsStay
  <1>6. ASSUME AllIndicesOK(s, n), \A c \in E : new[c].methods = cls[c].methods
        PROVE  AllIndicesOK(t, n)
    BY <1>5, <1>6 DEF AllIndicesOK, IndicesOK
  <1>7. ASSUME TablesOK(s, m), SameTables(s, t)
        PROVE  TablesOK(t, m)
    <2>1. \A c \in ClassesOf : c \in D \/ c \notin D
      OBVIOUS
    <2>. QED  BY <1>5, <1>7 DEF TablesOK, SameTables
  <1>8. ASSUME CallsOK(s, n), NoMoreCalls(s, t)
        PROVE  CallsOK(t, n)
    BY <1>5, <1>8 DEF CallsOK, NoMoreCalls, GoodCall
  <1>. QED  BY <1>5, <1>6, <1>7, <1>8

-----------------------------------------------------------------------------
(* An attempt at a statement: what every one of its changes to the store   *)
(* keeps.                                                                  *)

Attempting == StateTypes /\ Orderly /\ next <= Len(program)

\* With the class being generated, once its slots are counted.
Ready(s) == AllIndicesOK(s, next + 1) /\ TablesOK(s, next) /\ CallsOK(s, next + 1)

Good(s, W) == Sound(s, W) /\ (FirstPass => Ready(s))

\* The second store has the same methods, and the first's tables and calls.
Harmless(s, t) ==
    /\ \A c \in Classes :
          /\ t.classes[c].base = s.classes[c].base
          /\ t.classes[c].methods = s.classes[c].methods
          /\ \A name \in t.classes[c].compiled : HasMethod(s.classes, c, name)
          /\ VirtualEntries(t.classes, c) = VirtualEntries(s.classes, c)
    /\ \A c \in DeclaredBefore(next) : StaticEntries(t.classes, c) = StaticEntries(s.classes, c)
    /\ SameTables(s, t) /\ NoMoreCalls(s, t)

LEMMA BasesOfDeclared ==
    ASSUME StateTypes, DeclaresFirst, next <= Len(program)
    PROVE  \A c \in DeclaredBefore(next + 1) : DeclaredBase(c) \in DeclaredBefore(next) \cup {NoClass}
  <1>1. program \in Programs /\ next \in 1..Len(program)
    BY ProgramIs DEF StateTypes
  <1>2. ASSUME NEW c \in DeclaredBefore(next + 1), c \notin DeclaredBefore(next)
        PROVE  DeclaredBase(c) \in DeclaredBefore(next) \cup {NoClass}
    <2>1. program[next].kind = "class" /\ c = program[next].name
      BY <1>1, <1>2, NextDeclared
    <2>2. next \in Declared
      BY <1>1, <2>1, ProgramIs DEF Declared
    <2>3. DeclaredBase(c) = program[next].base
      BY <1>1, <2>1, <2>2, ClassOfIs DEF DeclaredBase
    <2>. QED  BY <2>2, <2>3 DEF DeclaresFirst
  <1>3. ASSUME NEW c \in DeclaredBefore(next)
        PROVE  DeclaredBase(c) \in DeclaredBefore(next) \cup {NoClass}
    BY <1>1, <1>3, BasesBefore
  <1>. QED  BY <1>2, <1>3

LEMMA HarmlessIsGood ==
    ASSUME Attempting, NEW W, W \subseteq Classes, NEW s, NEW t, Good(s, W), IsStore(t), Harmless(s, t)
    PROVE  Good(t, W)
  <1>. PICK cls, new : cls = s.classes /\ new = t.classes
    OBVIOUS
  <1>1. program \in Programs /\ next \in 1..Len(program) /\ DeclaresFirst
    BY ProgramIs DEF StateTypes, Attempting, Orderly
  <1>2. \A c \in Classes : SameBody(cls, new, c) /\ new[c].methods = cls[c].methods
    BY DEF Harmless, SameBody, HasMethod
  <1>3. ClassesOK(new)
    <2>1. ASSUME NEW c \in Classes
          PROVE  /\ new[c].base \in {NoClass, DeclaredBase(c)}
                 /\ \A i \in 1..Len(new[c].methods) : new[c].methods[i].name \in DeclaredMethods(c)
                 /\ \A name \in new[c].compiled : HasMethod(new, c, name)
      BY <1>2 DEF Good, Sound, ClassesOK, Harmless, SameBody
    <2>. QED  BY <2>1 DEF ClassesOK
  <1>4. \A c \in W : Whole(new, c)
    BY <1>2 DEF Good, Sound, Whole, SameBody
  <1>5. ASSUME FirstPass PROVE Ready(t)
    <2>1. \A c \in DeclaredBefore(next + 1) : c \in Classes
      <3>1. next + 1 \in Int
        BY <1>1
      <3>. QED  BY <1>1, <3>1, BasesBefore
    <2>2. \A c \in DeclaredBefore(next + 1) : DeclaredBase(c) \in DeclaredBefore(next) \cup {NoClass}
      BY BasesOfDeclared DEF Attempting, Orderly
    <2>3. Ready(s) /\ IsStore(s) /\ ClassesOK(cls)
      BY <1>5 DEF Good, Sound
    <2>4. next \in Int /\ next + 1 \in Int /\ next <= next + 1
      BY <1>1
    <2>5. StoresAlike(s, t, next, next + 1)
      BY <1>2, <2>1, <2>2 DEF StoresAlike, Harmless
    <2>6. /\ AllIndicesOK(s, next + 1) /\ (\A c \in DeclaredBefore(next + 1) : t.classes[c].methods = s.classes[c].methods)
                 => AllIndicesOK(t, next + 1)
          /\ TablesOK(s, next) /\ SameTables(s, t) => TablesOK(t, next)
          /\ CallsOK(s, next + 1) /\ NoMoreCalls(s, t) => CallsOK(t, next + 1)
      <3>. PICK m, n : m = next /\ n = next + 1
        OBVIOUS
      <3>1. m \in Int /\ n \in Int /\ m <= n /\ StoresAlike(s, t, m, n)
        BY <2>4, <2>5
      <3>. QED  BY <1>1, <1>3, <2>3, <3>1, PlacesStay
    <2>. QED  BY <1>2, <2>1, <2>3, <2>6 DEF Ready, Harmless
  <1>. QED  BY <1>3, <1>4, <1>5 DEF Good, Sound

\* The entry of one class is changed.
WithClass(s, c, info) == [s EXCEPT !.classes[c] = info]

Changed(s, t, c, info) ==
    /\ IsStore(t) /\ t.tables = s.tables /\ t.calls = s.calls
    /\ t.classes[c] = info /\ \A d \in Classes : d # c => t.classes[d] = s.classes[d]

LEMMA ClassChanged ==
    ASSUME NEW s, IsStore(s), NEW c \in Classes, NEW info \in ClassInfos, NEW t,
           t = WithClass(s, c, info)
    PROVE  Changed(s, t, c, info)
  <1>1. t.classes = [s.classes EXCEPT ![c] = info]
    BY DEF IsStore, WithClass
  <1>2. t.classes \in [Classes -> ClassInfos]
    BY <1>1 DEF IsStore
  <1>3. t = [types |-> t.types, interfaces |-> t.interfaces, classes |-> t.classes,
             tables |-> t.tables, emitted |-> t.emitted, redefined |-> t.redefined,
             calls |-> t.calls]
    BY DEF IsStore, WithClass
  <1>4. t.tables = s.tables /\ t.calls = s.calls
    BY DEF IsStore, WithClass
  <1>5. t.classes[c] = info /\ \A d \in Classes : d # c => t.classes[d] = s.classes[d]
    BY <1>1 DEF IsStore
  <1>. QED  BY <1>2, <1>3, <1>4, <1>5 DEF IsStore, Changed

LEMMA ClassChangedIsGood ==
    ASSUME Attempting, NEW W, W \subseteq Classes, NEW s, Good(s, W), NEW c \in Classes, NEW info \in ClassInfos,
           NEW old, old = s.classes[c], info.base = old.base, info.methods = old.methods,
           \A name \in info.compiled : HasMethod(s.classes, c, name), Len(info.implements) = Len(old.implements),
           \A k \in 1..Len(old.implements) : info.implements[k].interface = old.implements[k].interface,
           c \in DeclaredBefore(next) => info.statics = old.statics,
           NEW t, t = WithClass(s, c, info)
    PROVE  Good(t, W)
  <1>. PICK cls, new : cls = s.classes /\ new = t.classes
    OBVIOUS
  <1>0. IsStore(s) /\ cls \in [Classes -> ClassInfos]
    BY DEF Good, Sound, IsStore
  <1>1. /\ IsStore(t) /\ t.tables = s.tables /\ t.calls = s.calls
        /\ new[c] = info /\ \A d \in Classes : d # c => new[d] = cls[d]
    <2>1. Changed(s, t, c, info)
      BY <1>0, ClassChanged
    <2>. QED  BY <2>1 DEF Changed
  <1>2. VirtualEntries(new, c) = VirtualEntries(cls, c)
    <2>. PICK I, J : I = old.implements /\ J = info.implements
      OBVIOUS
    <2>1. I \in Seq(Implements) /\ J \in Seq(Implements)
      BY <1>0 DEF ClassInfos
    <2>2. DOMAIN I = DOMAIN J /\ \A k \in DOMAIN I : J[k].interface = I[k].interface
      BY <2>1, SequenceIs
    <2>3. [k \in DOMAIN J |-> [kind |-> "interface", name |-> J[k].interface,
                               class |-> NoClass, abstract |-> FALSE]]
          = [k \in DOMAIN I |-> [kind |-> "interface", name |-> I[k].interface,
                                 class |-> NoClass, abstract |-> FALSE]]
      BY <2>2
    <2>4. new[c].implements = J /\ cls[c].implements = I /\ new[c].methods = cls[c].methods
      BY <1>1
    <2>. QED  BY <2>3, <2>4 DEF VirtualEntries
  <1>3. Harmless(s, t)
    <2>1. ASSUME NEW d \in Classes
          PROVE  /\ new[d].base = cls[d].base /\ new[d].methods = cls[d].methods
                 /\ \A name \in new[d].compiled : HasMethod(cls, d, name)
                 /\ VirtualEntries(new, d) = VirtualEntries(cls, d)
      <3>1. CASE d = c
        BY <1>1, <1>2, <3>1
      <3>2. CASE d # c
        <4>1. new[d] = cls[d]
          BY <1>1, <3>2
        <4>2. \A name \in cls[d].compiled : HasMethod(cls, d, name)
          BY DEF Good, Sound, ClassesOK
        <4>. QED  BY <4>1, <4>2 DEF VirtualEntries
      <3>. QED  BY <3>1, <3>2
    <2>2. ASSUME NEW d \in DeclaredBefore(next)
          PROVE  StaticEntries(new, d) = StaticEntries(cls, d)
      <3>1. d \in Classes
        BY BasesBefore DEF Attempting, StateTypes, Orderly
      <3>2. new[d].statics = cls[d].statics
        BY <1>1, <3>1
      <3>. QED  BY <3>2 DEF StaticEntries
    <2>. QED  BY <1>1, <2>1, <2>2 DEF Harmless, SameTables, NoMoreCalls
  <1>. QED  BY <1>1, <1>3, HarmlessIsGood

\* Nothing of the classes, their tables or the calls is changed.
LEMMA OtherwiseChanged ==
    ASSUME Attempting, NEW W, W \subseteq Classes, NEW s, Good(s, W), NEW t, IsStore(t),
           t.classes = s.classes, SameTables(s, t), NoMoreCalls(s, t)
    PROVE  Good(t, W)
  <1>1. \A c \in Classes : \A name \in s.classes[c].compiled : HasMethod(s.classes, c, name)
    BY DEF Good, Sound, ClassesOK
  <1>2. Harmless(s, t)
    BY <1>1 DEF Harmless
  <1>. QED  BY <1>2, HarmlessIsGood

-----------------------------------------------------------------------------
(* Bodies.  The calls compiled in the run that is kept are good ones.      *)

LEMMA ProviderHas ==
    ASSUME NEW cls \in [Classes -> ClassInfos], NEW rank, NEW n, Hierarchy(cls, rank, n), NEW name
    PROVE  \A c \in Classes : MethodProvider(cls, c, name) # NoClass =>
              /\ MethodProvider(cls, c, name) \in Classes
              /\ HasMethod(cls, MethodProvider(cls, c, name), name)
  <1>. DEFINE P == {c \in Classes : MethodProvider(cls, c, name) # NoClass =>
                      /\ MethodProvider(cls, c, name) \in Classes
                      /\ HasMethod(cls, MethodProvider(cls, c, name), name)}
  <1>1. ASSUME NEW c \in Classes, cls[c].base # NoClass => cls[c].base \in P
        PROVE  c \in P
    <2>1. MethodProvider(cls, c, name) =
             IF HasMethod(cls, c, name) THEN c
             ELSE IF cls[c].base = NoClass THEN NoClass
             ELSE MethodProvider(cls, cls[c].base, name)
      BY MethodProviderIs
    <2>. QED  BY <1>1, <2>1
  <1>. HIDE DEF P
  <1>2. \A c \in Classes : c \in P
    BY <1>1, HierarchyInduction
  <1>. QED  BY <1>2 DEF P

\* A method has one slot in the class that provides it and in its heirs.
LEMMA SlotOfProvider ==
    ASSUME NEW cls \in [Classes -> ClassInfos], NEW rank, NEW n, Hierarchy(cls, rank, n),
           NEW name, name \notin Interfaces,
           NEW E, \A c \in E : c \in Classes /\ (cls[c].base # NoClass => cls[c].base \in E)
    PROVE  \A c \in E : MethodProvider(cls, c, name) # NoClass =>
              LET p == MethodProvider(cls, c, name) IN
              p \in E /\ Place(VirtualPart(cls, p), name) = Place(VirtualPart(cls, c), name)
  <1>. DEFINE P == {c \in Classes : c \in E /\ MethodProvider(cls, c, name) # NoClass =>
                      LET p == MethodProvider(cls, c, name) IN
                      p \in E /\ Place(VirtualPart(cls, p), name) = Place(VirtualPart(cls, c), name)}
  <1>1. ASSUME NEW c \in Classes, cls[c].base # NoClass => cls[c].base \in P
        PROVE  c \in P
    <2>. SUFFICES ASSUME c \in E, MethodProvider(cls, c, name) # NoClass
                  PROVE  LET p == MethodProvider(cls, c, name) IN
                         p \in E /\ Place(VirtualPart(cls, p), name) = Place(VirtualPart(cls, c), name)
      OBVIOUS
    <2>. PICK b, p : b = cls[c].base /\ p = MethodProvider(cls, c, name)
      OBVIOUS
    <2>1. p = IF HasMethod(cls, c, name) THEN c
              ELSE IF b = NoClass THEN NoClass
              ELSE MethodProvider(cls, b, name)
      BY MethodProviderIs
    <2>2. CASE HasMethod(cls, c, name)
      BY <2>1, <2>2
    <2>3. CASE ~HasMethod(cls, c, name)
      <3>1. b # NoClass /\ p = MethodProvider(cls, b, name) /\ b \in E /\ b \in Classes
        BY <2>1, <2>3
      <3>2. p \in E /\ Place(VirtualPart(cls, p), name) = Place(VirtualPart(cls, b), name)
        BY <1>1, <3>1
      <3>. PICK k, l : k = Place(VirtualPart(cls, b), name) /\ l = Layout(cls)[b]
        OBVIOUS
      <3>3. k = Place(l, name) /\ k >= 0
        BY <3>1, SlotOfMethod
      <3>4. l = Inherited(cls, c)
        BY <3>1 DEF Inherited
      <3>5. l \in Seq(Entries) /\ VirtualPart(cls, c) \in Seq(Entries) /\ Grows(l, VirtualPart(cls, c))
        BY <3>4, LayoutTypes
      <3>6. Place(VirtualPart(cls, c), name) = k
        BY <3>3, <3>5, PlaceStays
      <3>. QED  BY <3>2, <3>6
    <2>. QED  BY <2>2, <2>3
  <1>. HIDE DEF P
  <1>2. \A c \in Classes : c \in P
    BY <1>1, HierarchyInduction
  <1>. QED  BY <1>2 DEF P

\* A method that a class has is not named like an interface.
LEMMA NotAnInterface ==
    ASSUME NamesApart, NEW cls, ClassesOK(cls), NEW c \in Classes, NEW name, HasMethod(cls, c, name)
    PROVE  c \in ClassesOf /\ name \notin Interfaces /\ name \in DeclaredMethods(c)
  <1>1. name \in DeclaredMethods(c)
    BY DEF ClassesOK, HasMethod
  <1>2. c \in ClassesOf /\ name \in MethodNames(ClassOf(c))
    BY <1>1 DEF DeclaredMethods
  <1>. QED  BY <1>1, <1>2 DEF NamesApart

\* The store's types and hierarchy, together.
LEMMA StoreHierarchy ==
    ASSUME program \in Programs, DeclaresFirst, NEW s, IsStore(s), ClassesOK(s.classes)
    PROVE  s.classes \in [Classes -> ClassInfos] /\ Hierarchy(s.classes, Rank, Len(program))
  BY HierarchyOf DEF IsStore, ClassesOK

\* The slot that the compilation of a call finds.
LEMMA SlotFound ==
    ASSUME program \in Programs, Orderly, NEW n \in Int, NEW W, NEW s, Sound(s, W), AllIndicesOK(s, n),
           NEW c \in DeclaredBefore(n), NEW name, NEW p, p = MethodProvider(s.classes, c, name),
           p # NoClass, NEW methods, methods = s.classes[p].methods
    PROVE  At(methods, Named(methods, name)).index = Place(VirtualPart(s.classes, c), name)
  <1>. PICK cls : cls = s.classes
    OBVIOUS
  <1>1. cls \in [Classes -> ClassInfos] /\ Hierarchy(cls, Rank, Len(program)) /\ ClassesOK(cls)
    BY StoreHierarchy DEF Orderly, Sound
  <1>. PICK E : E = DeclaredBefore(n)
    OBVIOUS
  <1>2. \A d \in E : d \in Classes /\ (cls[d].base # NoClass => cls[d].base \in E)
    <2>1. \A d \in E : d \in Classes /\ DeclaredBase(d) \in E \cup {NoClass}
      BY BasesBefore DEF Orderly
    <2>. QED  BY <1>1, <2>1 DEF ClassesOK
  <1>3. p \in Classes /\ HasMethod(cls, p, name)
    BY <1>1, <1>2, ProviderHas
  <1>4. name \notin Interfaces
    BY <1>1, <1>3, NotAnInterface DEF Orderly
  <1>5. p \in E /\ Place(VirtualPart(cls, p), name) = Place(VirtualPart(cls, c), name)
    BY <1>1, <1>2, <1>4, SlotOfProvider
  <1>. PICK k : k = Named(methods, name)
    OBVIOUS
  <1>6. Len(methods) \in Nat
    <2>1. cls[p] \in ClassInfos /\ methods = cls[p].methods
      BY <1>1, <1>3
    <2>2. methods \in Seq(MethodInfos)
      BY <2>1 DEF ClassInfos
    <2>. QED  BY <2>2
  <1>7. k \in 0..(Len(methods) - 1) /\ methods[k + 1].name = name
    BY <1>3, <1>6, NamedIs DEF HasMethod
  <1>8. k + 1 \in 1..Len(methods)
    BY <1>6, <1>7
  <1>9. methods[k + 1].index = Place(VirtualPart(cls, p), name)
    BY <1>5, <1>7, <1>8 DEF AllIndicesOK, IndicesOK
  <1>. QED  BY <1>5, <1>9 DEF At

LEMMA DefinedIsGood ==
    ASSUME Attempting, NEW W, W \subseteq Classes, NEW s, Good(s, W), NEW c, NEW i, NEW table
    PROVE  /\ Good(Defined(s, <<c, i>>, table), W)
           /\ Defined(s, <<c, i>>, table).classes = s.classes
  <1>. PICK symbol : symbol = <<c, i>>
    OBVIOUS
  <1>. PICK t : t = Defined(s, symbol, table)
    OBVIOUS
  <1>1. \A d : <<d>> # symbol
    <2>1. \A d : Len(<<d>>) = 1 /\ Len(symbol) = 2
      OBVIOUS
    <2>. QED  BY <2>1
  <1>2. IsStore(s)
    BY DEF Good, Sound
  <1>3. t.tables = [x \in DOMAIN s.tables \cup {symbol} |-> IF x = symbol THEN table ELSE s.tables[x]]
    BY <1>2 DEF Defined, Emit, IsStore
  <1>4. t.classes = s.classes /\ t.calls = s.calls /\ IsStore(t)
    BY <1>2 DEF Defined, Emit, IsStore
  <1>5. SameTables(s, t)
    BY <1>1, <1>3 DEF SameTables
  <1>6. NoMoreCalls(s, t)
    BY <1>4 DEF NoMoreCalls
  <1>. QED  BY <1>4, <1>5, <1>6, OtherwiseChanged

LEMMA DefineInterfaceIsGood ==
    ASSUME Attempting, NEW W, W \subseteq Classes, NEW s, Good(s, W), NEW c, NEW i
    PROVE  LET r == DefineInterface(s, c, i) IN
           Good(r.store, W) /\ r.store.classes = s.classes
  <1>1. \/ DefineInterface(s, c, i) = Failed(s)
        \/ DefineInterface(s, c, i) = Done(Defined(s, <<c, i>>, InterfaceTable(s, c, i)))
    BY DEF DefineInterface
  <1>. QED  BY <1>1, DefinedIsGood DEF Failed, Done

MayCompile(s, call, slot) ==
    FirstPass /\ call.how = "method" =>
        call.on \in DeclaredBefore(next + 1) /\ GoodCall(s.classes, [call |-> call, slot |-> slot])

LEMMA CompiledIsGood ==
    ASSUME Attempting, NEW W, W \subseteq Classes, NEW s, Good(s, W), NEW call, NEW slot,
           MayCompile(s, call, slot)
    PROVE  LET r == Compiled(s, call, slot) IN Good(r.store, W) /\ r.store.classes = s.classes
  <1>. PICK new : new = [call |-> call, slot |-> slot]
    OBVIOUS
  <1>. PICK t : t = [s EXCEPT !.calls = @ \cup {new}]
    OBVIOUS
  <1>1. IsStore(s)
    BY DEF Good, Sound
  <1>2. /\ IsStore(t) /\ t.classes = s.classes /\ t.tables = s.tables
        /\ t.calls = s.calls \cup {new}
    BY <1>1 DEF IsStore
  <1>3. Compiled(s, call, slot).store = t
    BY DEF Compiled, Done
  <1>4. Good(t, W)
    <2>1. Sound(t, W)
      BY <1>2 DEF Good, Sound
    <2>2. ASSUME FirstPass PROVE Ready(t)
      <3>1. AllIndicesOK(t, next + 1) /\ TablesOK(t, next)
        BY <1>2, <2>2 DEF Good, Ready, AllIndicesOK, TablesOK
      <3>2. CallsOK(s, next + 1)
        BY <2>2 DEF Good, Ready
      <3>3. ASSUME NEW e \in t.calls, e.call.how = "method"
            PROVE  e.call.on \in DeclaredBefore(next + 1) /\ GoodCall(t.classes, e)
        <4>1. CASE e = new
          <5>1. e.call = call
            BY <4>1
          <5>. QED  BY <1>2, <2>2, <3>3, <4>1, <5>1 DEF MayCompile
        <4>2. CASE e # new
          BY <1>2, <3>2, <3>3, <4>2 DEF CallsOK
        <4>. QED  BY <4>1, <4>2
      <3>4. CallsOK(t, next + 1)
        BY <3>3 DEF CallsOK
      <3>. QED  BY <3>1, <3>4 DEF Ready
    <2>. QED  BY <2>1, <2>2 DEF Good
  <1>. QED  BY <1>2, <1>3, <1>4

LEMMA CallIsGood ==
    ASSUME Attempting, NEW W, W \subseteq Classes, NEW s, Good(s, W), NEW call \in Calls,
           call.how = "method" => call.on \in DeclaredBefore(next + 1)
    PROVE  LET r == Call(s, call) IN Good(r.store, W) /\ r.store.classes = s.classes
  <1>1. CASE call.how = "method"
    <2>. PICK p : p = MethodProvider(s.classes, call.on, call.member)
      OBVIOUS
    <2>. PICK methods : methods = s.classes[p].methods
      OBVIOUS
    <2>. PICK slot : slot = At(methods, Named(methods, call.member)).index
      OBVIOUS
    <2>1. Call(s, call) = MethodCall(s, call)
      BY <1>1 DEF Call
    <2>2. CASE p = NoClass
      <3>1. Call(s, call).store = s
        BY <2>1, <2>2 DEF MethodCall, Unknown, Done, Failed
      <3>. QED  BY <3>1
    <2>3. CASE p # NoClass
      <3>1. Call(s, call) = Compiled(s, call, slot)
        BY <2>1, <2>3 DEF MethodCall
      <3>2. ASSUME FirstPass PROVE GoodCall(s.classes, [call |-> call, slot |-> slot])
        <4>1. /\ program \in Programs /\ Orderly /\ next + 1 \in Int
              /\ Sound(s, W) /\ AllIndicesOK(s, next + 1)
          BY <3>2 DEF Attempting, StateTypes, Good, Ready
        <4>. PICK c, n, name : c = call.on /\ n = next + 1 /\ name = call.member
          OBVIOUS
        <4>2. slot = Place(VirtualPart(s.classes, c), name)
          BY <1>1, <2>3, <4>1, SlotFound
        <4>. QED  BY <2>3, <4>2 DEF GoodCall
      <3>3. MayCompile(s, call, slot)
        BY <1>1, <3>2 DEF MayCompile
      <3>4. LET r == Compiled(s, call, slot) IN Good(r.store, W) /\ r.store.classes = s.classes
        BY <3>3, CompiledIsGood
      <3>. QED  BY <3>1, <3>4
    <2>. QED  BY <2>2, <2>3
  <1>2. CASE call.how \in {"interface", "read"}
    <2>. PICK slot : slot = MemberSlot(s.interfaces, call.member)[call.on]
      OBVIOUS
    <2>1. Call(s, call) = InterfaceCall(s, call)
      BY <1>2 DEF Call
    <2>2. \/ Call(s, call).store = s
          \/ Call(s, call) = Compiled(s, call, slot)
      BY <2>1 DEF InterfaceCall, Unknown, Done, Failed
    <2>3. MayCompile(s, call, slot)
      BY <1>2 DEF MayCompile
    <2>4. LET r == Compiled(s, call, slot) IN Good(r.store, W) /\ r.store.classes = s.classes
      BY <2>3, CompiledIsGood
    <2>. QED  BY <2>2, <2>4
  <1>3. CASE call.how = "cast"
    <2>. PICK own : own = s.classes[call.on].implements
      OBVIOUS
    <2>. PICK k : k = IndexOf(own, LAMBDA e : e.interface = call.member)
      OBVIOUS
    <2>. PICK slot : slot = At(own, k).index
      OBVIOUS
    <2>. PICK r : r = IF <<call.on, call.member>> \in DOMAIN s.tables THEN Done(s)
                      ELSE DefineInterface(s, call.on, call.member)
      OBVIOUS
    <2>1. Call(s, call) = CastToInterface(s, call)
      BY <1>3 DEF Call
    <2>2. Call(s, call) = IF k >= 0 THEN Compiled(s, call, slot)
                          ELSE IF r.ok THEN Compiled(r.store, call, Linked) ELSE r
      BY <2>1 DEF CastToInterface, Then
    <2>. PICK t : t = r.store
      OBVIOUS
    <2>3. Good(t, W) /\ t.classes = s.classes
      BY DefineInterfaceIsGood DEF Done
    <2>4. MayCompile(s, call, slot) /\ MayCompile(t, call, Linked)
      BY <1>3 DEF MayCompile
    <2>5. LET x == Compiled(s, call, slot) IN Good(x.store, W) /\ x.store.classes = s.classes
      BY <2>4, CompiledIsGood
    <2>6. LET x == Compiled(t, call, Linked) IN Good(x.store, W) /\ x.store.classes = t.classes
      BY <2>3, <2>4, CompiledIsGood
    <2>. QED  BY <2>2, <2>3, <2>5, <2>6
  <1>. QED  BY <1>1, <1>2, <1>3 DEF Calls

\* Body goes from call to call.
AllCalls(s, calls) == InSequence(s, calls, Call)

CallByCall(s, calls, r) ==
    /\ r[0] = Done(s)
    /\ \A k \in 1..Len(calls) :
          r[k] = IF r[k - 1].ok THEN Call(r[k - 1].store, calls[k]) ELSE r[k - 1]
    /\ AllCalls(s, calls) = r[Len(calls)]

LEMMA AllCallsSteps ==
    ASSUME NEW s, NEW calls, Len(calls) \in Nat
    PROVE  \E r : CallByCall(s, calls, r)
  <1>. DEFINE Step(x, k) == IF x.ok THEN Call(x.store, calls[k]) ELSE x
              S == {n \in Nat : \E r : r = [k \in 0..n |-> IF k = 0 THEN Done(s) ELSE Step(r[k - 1], k)]}
  <1>1. 0 \in S
    <2>. DEFINE u == [k \in 0..0 |-> Done(s)]
    <2>1. u = [k \in 0..0 |-> IF k = 0 THEN Done(s) ELSE Step(u[k - 1], k)]
      OBVIOUS
    <2>. QED  BY <2>1
  <1>2. ASSUME NEW n \in Nat, n \in S PROVE n + 1 \in S
    <2>. HIDE DEF Step
    <2>1. PICK t : t = [k \in 0..n |-> IF k = 0 THEN Done(s) ELSE Step(t[k - 1], k)]
      BY <1>2
    <2>. DEFINE u == [k \in 0..(n + 1) |-> IF k = n + 1 THEN Step(t[n], n + 1) ELSE t[k]]
    <2>2. u = [k \in 0..(n + 1) |-> IF k = 0 THEN Done(s) ELSE Step(u[k - 1], k)]
      <3>1. ASSUME NEW k \in 0..(n + 1)
            PROVE  u[k] = IF k = 0 THEN Done(s) ELSE Step(u[k - 1], k)
        <4>1. CASE k = n + 1
          BY <4>1
        <4>2. CASE k = 0
          BY <2>1, <4>2
        <4>3. CASE k \in 1..n
          BY <2>1, <4>3
        <4>. QED  BY <4>1, <4>2, <4>3
      <3>. QED  BY <3>1
    <2>. HIDE DEF u
    <2>. QED  BY <2>2
  <1>. HIDE DEF S
  <1>3. Len(calls) \in S
    BY <1>1, <1>2, Induction
  <1>. DEFINE r == CHOOSE t : t = [k \in 0..Len(calls) |-> IF k = 0 THEN Done(s) ELSE Step(t[k - 1], k)]
  <1>4. r = [k \in 0..Len(calls) |-> IF k = 0 THEN Done(s) ELSE Step(r[k - 1], k)]
    <2>. HIDE DEF Step
    <2>. QED  BY <1>3 DEF S
  <1>5. AllCalls(s, calls) = r[Len(calls)]
    BY DEF AllCalls, InSequence, Then
  <1>. HIDE DEF r
  <1>6. CallByCall(s, calls, r)
    BY <1>4, <1>5 DEF CallByCall
  <1>. QED  BY <1>6

LEMMA BodyIsGood ==
    ASSUME Attempting, NEW W, W \subseteq Classes, NEW s, Good(s, W),
           NEW b, b.calls \in Seq(Calls),
           \A e \in ToSet(b.calls) : e.how = "method" => e.on \in DeclaredBefore(next + 1)
    PROVE  LET r == Body(s, b) IN Good(r.store, W) /\ r.store.classes = s.classes
  <1>1. CASE Body(s, b) = Failed(s)
    BY <1>1 DEF Failed
  <1>2. CASE Body(s, b) = AllCalls(s, b.calls)
    <2>. PICK calls : calls = b.calls
      OBVIOUS
    <2>1. Len(calls) \in Nat /\ DOMAIN calls = 1..Len(calls) /\ \A k \in 1..Len(calls) : calls[k] \in Calls
      BY SequenceIs
    <2>. PICK r : CallByCall(s, calls, r)
      BY <2>1, AllCallsSteps
    <2>2. /\ r[0] = Done(s)
          /\ \A k \in 1..Len(calls) :
                r[k] = IF r[k - 1].ok THEN Call(r[k - 1].store, calls[k]) ELSE r[k - 1]
          /\ AllCalls(s, calls) = r[Len(calls)]
      BY DEF CallByCall
    <2>. DEFINE S == {k \in 0..Len(calls) : Good(r[k].store, W) /\ r[k].store.classes = s.classes}
    <2>3. 0 \in S
      BY <2>1, <2>2 DEF Done
    <2>4. ASSUME NEW k \in 0..(Len(calls) - 1), k \in S PROVE k + 1 \in S
      <3>. PICK t, call : t = r[k].store /\ call = calls[k + 1]
        OBVIOUS
      <3>1. k + 1 \in 1..Len(calls) /\ (k + 1) - 1 = k
        BY <2>1
      <3>2. call \in Calls /\ call \in ToSet(calls)
        BY <2>1, <3>1 DEF ToSet
      <3>3. LET x == Call(t, call) IN Good(x.store, W) /\ x.store.classes = t.classes
        BY <2>4, <3>2, CallIsGood
      <3>4. r[k + 1] = IF r[k].ok THEN Call(t, call) ELSE r[k]
        BY <2>2, <3>1
      <3>. QED  BY <2>1, <2>4, <3>1, <3>3, <3>4
    <2>. HIDE DEF S
    <2>5. Len(calls) \in S
      BY <2>1, <2>3, <2>4, InductionUpTo
    <2>. QED  BY <1>2, <2>2, <2>5 DEF S
  <1>. QED  BY <1>1, <1>2 DEF Body, AllCalls

-----------------------------------------------------------------------------
(* The members of the class being generated.                               *)

\* The class that is being generated.
Declaring(c, d) ==
    /\ Attempting /\ d = program[next] /\ d.kind = "class" /\ c = d.name

LEMMA DeclarationIs ==
    ASSUME NEW c, NEW d, Declaring(c, d)
    PROVE  /\ next \in Declared /\ d \in ClassDeclarations /\ c \in Classes /\ c \in ClassesOf
           /\ ClassOf(c) = d /\ DeclaredBase(c) = d.base /\ DeclaredMethods(c) = MethodNames(d)
           /\ c \notin DeclaredBefore(next) /\ c \in DeclaredBefore(next + 1)
           /\ DeclaredBefore(next + 1) = DeclaredBefore(next) \cup {c}
           /\ d.base \in DeclaredBefore(next) \cup {NoClass} /\ d.base \in Classes \cup {NoClass}
  <1>1. program \in Programs /\ DeclaresFirst /\ next \in 1..Len(program) /\ d = program[next]
        /\ d.kind = "class" /\ c = d.name
    BY ProgramIs DEF Declaring, Attempting, Orderly, StateTypes
  <1>2. next \in Declared
    BY <1>1, ProgramIs DEF Declared
  <1>3. d \in ClassDeclarations
    BY <1>1, <1>2, ProgramIs
  <1>4. ClassOf(c) = d /\ c \in Classes /\ c \in ClassesOf
    BY <1>1, <1>2, ClassOfIs
  <1>5. c \notin DeclaredBefore(next)
    BY <1>1, <1>2, NotYetDeclared
  <1>6. DeclaredBefore(next + 1) = DeclaredBefore(next) \cup {c}
    BY <1>1, NextDeclared
  <1>7. d.base \in DeclaredBefore(next) \cup {NoClass}
    BY <1>1, <1>2 DEF DeclaresFirst
  <1>8. d.base \in Classes \cup {NoClass}
    BY <1>3 DEF ClassDeclarations
  <1>. QED  BY <1>1, <1>2, <1>3, <1>4, <1>5, <1>6, <1>7, <1>8 DEF DeclaredBase, DeclaredMethods

\* A method of the declaration, or one the compiler adds.
NamedMethods == [name : Names, abstract : BOOLEAN, needs : SUBSET Types, calls : Seq(Calls)]
MethodOf(m, d) ==
    /\ m \in NamedMethods /\ m.name \in MethodNames(d)
    /\ \A e \in ToSet(m.calls) : e.how = "method" => e.on \in DeclaredBefore(next + 1)

LEMMA MethodsAre ==
    ASSUME NEW c, NEW d, Declaring(c, d)
    PROVE  /\ Len(AllMethods(d)) \in Nat
           /\ \A k \in 1..Len(AllMethods(d)) : MethodOf(AllMethods(d)[k], d)
           /\ \A name \in MethodNames(d) : \E k \in 1..Len(AllMethods(d)) : AllMethods(d)[k].name = name
  <1>. PICK own : own = d.methods
    OBVIOUS
  <1>0. PICK added : added = IF d.abstract THEN <<Implicit(InstanceOf)>>
                             ELSE <<Implicit(InstanceOf), Implicit(New)>>
    OBVIOUS
  <1>. PICK all : all = AllMethods(d)
    OBVIOUS
  <1>1. own \in Seq(NamedMethods)
    <2>1. own \in Seq(Methods)
      BY DeclarationIs DEF ClassDeclarations
    <2>2. Methods \subseteq NamedMethods
      BY DEF Methods, NamedMethods, Names
    <2>. QED  BY <2>1, <2>2
  <1>2. Implicit(InstanceOf) \in NamedMethods /\ Implicit(New) \in NamedMethods
    <2>1. {} \in SUBSET Types /\ <<>> \in Seq(Calls)
      OBVIOUS
    <2>2. ASSUME NEW name \in Names PROVE Implicit(name) \in NamedMethods
      BY <2>1 DEF Implicit, NamedMethods
    <2>. QED  BY <2>2 DEF Names
  <1>3. added \in Seq(NamedMethods)
    BY <1>0, <1>2
  <1>4. all = added \o own
    BY <1>0 DEF AllMethods
  <1>5. all \in Seq(NamedMethods) /\ Len(all) \in Nat /\ DOMAIN all = 1..Len(all)
    <2>1. all \in Seq(NamedMethods)
      BY <1>1, <1>3, <1>4
    <2>. QED  BY <2>1, SequenceIs
  <1>6. MethodNames(d) = {all[k].name : k \in 1..Len(all)}
    BY <1>5 DEF MethodNames
  <1>7. \A k \in 1..Len(added) : added[k].calls = <<>>
    BY <1>0 DEF Implicit
  <1>8. ASSUME NEW k \in 1..Len(own), NEW e \in ToSet(own[k].calls), e.how = "method"
        PROVE  e.on \in DeclaredBefore(next + 1)
    <2>1. k \in DOMAIN own
      BY <1>1, <1>8, SequenceIs
    <2>2. e \in CallsIn(d)
      BY <1>8, <2>1 DEF CallsIn, Declaring
    <2>3. next \in DOMAIN program /\ d = program[next] /\ DeclaresFirst
      BY DeclarationIs DEF Declared, Declaring, Attempting, Orderly
    <2>. QED  BY <1>8, <2>2, <2>3 DEF DeclaresFirst
  <1>9. ASSUME NEW k \in 1..Len(all) PROVE MethodOf(all[k], d)
    <2>1. all[k] \in NamedMethods
      BY <1>5, SequenceIs
    <2>2. \/ k \in 1..Len(added) /\ all[k] = added[k]
          \/ \E j \in 1..Len(own) : all[k] = own[j]
      <3>. PICK S : S = NamedMethods
        OBVIOUS
      <3>1. added \in Seq(S) /\ own \in Seq(S) /\ k \in 1..Len(added \o own)
        BY <1>1, <1>3, <1>4
      <3>2. \/ k \in 1..Len(added) /\ (added \o own)[k] = added[k]
            \/ \E j \in 1..Len(own) : (added \o own)[k] = own[j]
        BY <3>1, ConcatenationElement
      <3>. QED  BY <1>4, <3>2
    <2>3. \A e \in ToSet(all[k].calls) : e.how = "method" => e.on \in DeclaredBefore(next + 1)
      <3>1. ToSet(<<>>) = {}
        BY DEF ToSet
      <3>. QED  BY <1>7, <1>8, <2>2, <3>1
    <2>. QED  BY <1>6, <2>1, <2>3 DEF MethodOf
  <1>. QED  BY <1>5, <1>6, <1>9

\* No method of the class is lost, and its base stays.
Keeps(s, t, c) ==
    /\ t.classes[c].base = s.classes[c].base
    /\ \A name : HasMethod(s.classes, c, name) => HasMethod(t.classes, c, name)

LEMMA RegisterIsGood ==
    ASSUME NEW c, NEW d, Declaring(c, d), NEW W, W \subseteq Classes, FirstPass => c \in W,
           NEW s, Good(s, W), NEW m, MethodOf(m, d)
    PROVE  LET t == Register(s, c, m) IN
           Good(t, W) /\ HasMethod(t.classes, c, m.name) /\ Keeps(s, t, c)
  <1>. PICK old : old = s.classes[c]
    OBVIOUS
  <1>. PICK methods : methods = old.methods
    OBVIOUS
  <1>. PICK info : info = [name |-> m.name, abstract |-> m.abstract, index |-> -1]
    OBVIOUS
  <1>. PICK list : list = IF Named(methods, m.name) >= 0 THEN methods ELSE Append(methods, info)
    OBVIOUS
  <1>. PICK new : new = [old EXCEPT !.compiled = @ \cup {m.name}, !.methods = list]
    OBVIOUS
  <1>. PICK t : t = WithClass(s, c, new)
    OBVIOUS
  <1>0. IsStore(s) /\ c \in Classes /\ ClassesOK(s.classes) /\ Attempting
    BY DeclarationIs DEF Good, Sound, Declaring
  <1>1. old \in ClassInfos /\ methods \in Seq(MethodInfos) /\ Len(methods) \in Nat
    <2>1. old \in ClassInfos
      BY <1>0 DEF IsStore
    <2>2. methods \in Seq(MethodInfos)
      BY <2>1 DEF ClassInfos
    <2>. QED  BY <2>1, <2>2
  <1>2. info \in MethodInfos /\ m.name \in Names
    BY DEF MethodInfos, MethodOf, NamedMethods
  <1>3. /\ list \in Seq(MethodInfos) /\ Len(methods) <= Len(list)
        /\ \A i \in 1..Len(methods) : list[i] = methods[i]
        /\ \A i \in 1..Len(list) : i \in 1..Len(methods) \/ list[i].name = m.name
        /\ \E i \in 1..Len(list) : list[i].name = m.name
    <2>1. CASE Named(methods, m.name) >= 0
      <3>1. list = methods
        BY <2>1
      <3>. PICK k : k = Named(methods, m.name)
        OBVIOUS
      <3>2. k \in 0..(Len(methods) - 1) /\ methods[k + 1].name = m.name
        BY <1>1, <2>1, NamedIs
      <3>3. k + 1 \in 1..Len(methods)
        BY <1>1, <3>2
      <3>. QED  BY <1>1, <3>1, <3>2, <3>3
    <2>2. CASE ~(Named(methods, m.name) >= 0)
      <3>1. list = Append(methods, info)
        BY <2>2
      <3>2. /\ list \in Seq(MethodInfos) /\ Len(list) = Len(methods) + 1
            /\ list[Len(methods) + 1] = info /\ \A i \in 1..Len(methods) : list[i] = methods[i]
        BY <1>1, <1>2, <3>1
      <3>. PICK n : n = Len(methods) + 1
        OBVIOUS
      <3>3. /\ n \in 1..Len(list) /\ list[n].name = m.name
            /\ \A i \in 1..Len(list) : i \in 1..Len(methods) \/ i = n
        BY <1>1, <3>2
      <3>. QED  BY <1>1, <3>2, <3>3
    <2>. QED  BY <2>1, <2>2
  <1>4. /\ new \in ClassInfos /\ new.methods = list /\ new.compiled = old.compiled \cup {m.name}
        /\ new.base = old.base /\ new.implements = old.implements /\ new.statics = old.statics
    BY <1>1, <1>2, <1>3 DEF ClassInfos
  <1>5. Register(s, c, m) = t
    BY <1>0 DEF Register, WithClass, IsStore, ClassInfos
  <1>6. /\ IsStore(t) /\ t.tables = s.tables /\ t.calls = s.calls
        /\ t.classes[c] = new /\ \A e \in Classes : e # c => t.classes[e] = s.classes[e]
        /\ t.classes[c].methods = list
    <2>1. Changed(s, t, c, new)
      BY <1>0, <1>4, ClassChanged
    <2>. QED  BY <1>4, <2>1 DEF Changed
  <1>7. HasMethod(t.classes, c, m.name)
    <2>. PICK all, name : all = t.classes /\ name = m.name
      OBVIOUS
    <2>1. all[c].methods = list /\ \E i \in 1..Len(list) : list[i].name = name
      BY <1>3, <1>6
    <2>2. HasMethod(all, c, name)
      BY <2>1 DEF HasMethod
    <2>. QED  BY <2>2
  <1>8. Keeps(s, t, c)
    <2>1. ASSUME NEW name, HasMethod(s.classes, c, name) PROVE HasMethod(t.classes, c, name)
      <3>1. PICK i \in 1..Len(methods) : methods[i].name = name
        BY <2>1 DEF HasMethod
      <3>2. i \in 1..Len(list) /\ list[i].name = name
        BY <1>1, <1>3, <3>1
      <3>. PICK all : all = t.classes
        OBVIOUS
      <3>3. all[c].methods = list
        BY <1>6
      <3>4. HasMethod(all, c, name)
        BY <3>2, <3>3 DEF HasMethod
      <3>. QED  BY <3>4
    <2>. QED  BY <1>4, <1>6, <2>1 DEF Keeps
  <1>9. CASE Named(methods, m.name) >= 0
    <2>1. list = methods
      BY <1>9
    <2>2. \A name \in new.compiled : HasMethod(s.classes, c, name)
      <3>1. HasMethod(s.classes, c, m.name)
        BY <1>3, <2>1 DEF HasMethod
      <3>. QED  BY <1>0, <1>4, <3>1 DEF ClassesOK
    <2>3. Good(t, W)
      BY <1>0, <1>4, <2>1, <2>2, ClassChangedIsGood
    <2>. QED  BY <1>5, <1>7, <1>8, <2>3
  <1>10. CASE ~(Named(methods, m.name) >= 0)
    <2>1. \A i \in 1..Len(methods) : methods[i].name # m.name
      BY <1>1, <1>10, NamedIs
    <2>2. m.name \in DeclaredMethods(c)
      BY DeclarationIs DEF MethodOf
    <2>3. ~FirstPass
      <3>1. c \in W => HasMethod(s.classes, c, m.name)
        BY <2>2 DEF Good, Sound, Whole
      <3>. QED  BY <2>1, <3>1 DEF HasMethod
    <2>4. ClassesOK(t.classes)
      <3>. DEFINE OK(e) ==
             /\ t.classes[e].base \in {NoClass, DeclaredBase(e)}
             /\ \A i \in 1..Len(t.classes[e].methods) : t.classes[e].methods[i].name \in DeclaredMethods(e)
             /\ \A name \in t.classes[e].compiled : HasMethod(t.classes, e, name)
      <3>1. OK(c)
        <4>1. t.classes[c].base \in {NoClass, DeclaredBase(c)}
          BY <1>0, <1>4, <1>6 DEF ClassesOK
        <4>2. t.classes[c].compiled = new.compiled /\ t.classes[c].methods = list
          BY <1>6
        <4>3. \A i \in 1..Len(list) : list[i].name \in DeclaredMethods(c)
          BY <1>0, <1>3, <2>2 DEF ClassesOK
        <4>4. \A name \in new.compiled : HasMethod(t.classes, c, name)
          <5>1. \A name \in old.compiled : HasMethod(s.classes, c, name)
            BY <1>0 DEF ClassesOK
          <5>. QED  BY <1>4, <1>7, <1>8, <5>1 DEF Keeps
        <4>5. \A i \in 1..Len(t.classes[c].methods) : t.classes[c].methods[i].name \in DeclaredMethods(c)
          BY <4>2, <4>3
        <4>6. \A name \in t.classes[c].compiled : HasMethod(t.classes, c, name)
          BY <4>2, <4>4
        <4>. QED  BY <4>1, <4>5, <4>6
      <3>2. ASSUME NEW e \in Classes, e # c PROVE OK(e)
        <4>1. t.classes[e] = s.classes[e]
          BY <1>6, <3>2
        <4>2. \A name : HasMethod(t.classes, e, name) <=> HasMethod(s.classes, e, name)
          BY <4>1 DEF HasMethod
        <4>. QED  BY <1>0, <4>1, <4>2 DEF ClassesOK
      <3>. HIDE DEF OK
      <3>3. \A e \in Classes : OK(e)
        BY <3>1, <3>2
      <3>. QED  BY <3>3 DEF OK, ClassesOK
    <2>5. ASSUME NEW e \in W PROVE Whole(t.classes, e)
      <3>1. Whole(s.classes, e)
        BY DEF Good, Sound
      <3>2. CASE e = c
        BY <1>8, <3>1, <3>2 DEF Whole, Keeps
      <3>3. CASE e # c
        <4>1. t.classes[e] = s.classes[e]
          BY <1>6, <3>3
        <4>2. \A name : HasMethod(t.classes, e, name) <=> HasMethod(s.classes, e, name)
          BY <4>1 DEF HasMethod
        <4>. QED  BY <3>1, <4>1, <4>2 DEF Whole
      <3>. QED  BY <3>2, <3>3
    <2>6. Good(t, W)
      BY <1>6, <2>3, <2>4, <2>5 DEF Good, Sound
    <2>. QED  BY <1>5, <1>7, <1>8, <2>6
  <1>. QED  BY <1>9, <1>10

LEMMA MethodIsGood ==
    ASSUME NEW c, NEW d, Declaring(c, d), NEW W, W \subseteq Classes, FirstPass => c \in W,
           NEW s, Good(s, W), NEW m, MethodOf(m, d)
    PROVE  LET r == Method(s, c, m) IN
           /\ Good(r.store, W) /\ Keeps(s, r.store, c)
           /\ r.ok => HasMethod(r.store.classes, c, m.name)
  <1>. PICK r, b : r = Method(s, c, m) /\ b = Body(s, m)
    OBVIOUS
  <1>0. c \in Classes /\ Attempting
    BY DeclarationIs DEF Declaring
  <1>1. CASE m.name \in s.classes[c].compiled
    <2>1. r.store = s
      BY <1>1 DEF Method, Done
    <2>2. HasMethod(s.classes, c, m.name)
      BY <1>0, <1>1 DEF Good, Sound, ClassesOK
    <2>. QED  BY <2>1, <2>2 DEF Keeps
  <1>2. CASE m.name \notin s.classes[c].compiled
    <2>1. m.calls \in Seq(Calls) /\ \A e \in ToSet(m.calls) : e.how = "method" => e.on \in DeclaredBefore(next + 1)
      BY DEF MethodOf, NamedMethods
    <2>2. Good(b.store, W) /\ b.store.classes = s.classes
      BY <1>0, <2>1, BodyIsGood
    <2>3. r = IF b.ok THEN Done(Register(b.store, c, m)) ELSE b
      BY <1>2 DEF Method, Then
    <2>. PICK u : u = b.store
      OBVIOUS
    <2>4. LET t == Register(u, c, m) IN
          Good(t, W) /\ HasMethod(t.classes, c, m.name) /\ Keeps(u, t, c)
      BY <2>2, RegisterIsGood
    <2>5. CASE b.ok
      <3>1. r.store = Register(u, c, m)
        BY <2>3, <2>5 DEF Done
      <3>. QED  BY <2>2, <2>4, <3>1 DEF Keeps
    <2>6. CASE ~b.ok
      <3>1. r = b
        BY <2>3, <2>6
      <3>. QED  BY <2>2, <2>6, <3>1 DEF Keeps
    <2>. QED  BY <2>5, <2>6
  <1>. QED  BY <1>1, <1>2

\* MembersOnce goes from member to member.
WithStatics(s, d) ==
    [s EXCEPT !.classes[d.name].statics =
        @ \o [k \in DOMAIN d.statics |-> [name |-> d.statics[k], index |-> -1]]]

MemberByMember(s, d, r) ==
    /\ r[0] = Done(WithStatics(s, d))
    /\ \A k \in 1..Len(AllMethods(d)) : r[k] = NextMember(r[k - 1], d.name, AllMethods(d)[k])
    /\ MembersOnce(s, d) = r[Len(AllMethods(d))]

LEMMA MembersOnceSteps ==
    ASSUME NEW s, NEW d, Len(AllMethods(d)) \in Nat
    PROVE  \E r : MemberByMember(s, d, r)
  <1>0. PICK first, all : first = Done(WithStatics(s, d)) /\ all = AllMethods(d)
    OBVIOUS
  <1>. DEFINE Step(x, k) == NextMember(x, d.name, all[k])
              S == {n \in Nat : \E r : r = [k \in 0..n |-> IF k = 0 THEN first ELSE Step(r[k - 1], k)]}
  <1>1. 0 \in S
    <2>. DEFINE u == [k \in 0..0 |-> first]
    <2>1. u = [k \in 0..0 |-> IF k = 0 THEN first ELSE Step(u[k - 1], k)]
      OBVIOUS
    <2>. QED  BY <2>1
  <1>2. ASSUME NEW n \in Nat, n \in S PROVE n + 1 \in S
    <2>. HIDE DEF Step
    <2>1. PICK t : t = [k \in 0..n |-> IF k = 0 THEN first ELSE Step(t[k - 1], k)]
      BY <1>2
    <2>. DEFINE u == [k \in 0..(n + 1) |-> IF k = n + 1 THEN Step(t[n], n + 1) ELSE t[k]]
    <2>2. u = [k \in 0..(n + 1) |-> IF k = 0 THEN first ELSE Step(u[k - 1], k)]
      <3>1. ASSUME NEW k \in 0..(n + 1)
            PROVE  u[k] = IF k = 0 THEN first ELSE Step(u[k - 1], k)
        <4>1. CASE k = n + 1
          BY <4>1
        <4>2. CASE k = 0
          BY <2>1, <4>2
        <4>3. CASE k \in 1..n
          BY <2>1, <4>3
        <4>. QED  BY <4>1, <4>2, <4>3
      <3>. QED  BY <3>1
    <2>. HIDE DEF u
    <2>. QED  BY <2>2
  <1>. HIDE DEF S
  <1>3. Len(all) \in S
    BY <1>0, <1>1, <1>2, Induction
  <1>. DEFINE r == CHOOSE t : t = [k \in 0..Len(all) |-> IF k = 0 THEN first ELSE Step(t[k - 1], k)]
  <1>4. r = [k \in 0..Len(all) |-> IF k = 0 THEN first ELSE Step(r[k - 1], k)]
    <2>. HIDE DEF Step
    <2>. QED  BY <1>3 DEF S
  <1>5. MembersOnce(s, d) = r[Len(all)]
    BY <1>0 DEF MembersOnce, WithStatics
  <1>. HIDE DEF r
  <1>6. MemberByMember(s, d, r)
    BY <1>0, <1>4, <1>5 DEF MemberByMember
  <1>. QED  BY <1>6

LEMMA WithStaticsIsGood ==
    ASSUME NEW c, NEW d, Declaring(c, d), NEW W, W \subseteq Classes, NEW s, Good(s, W)
    PROVE  Good(WithStatics(s, d), W) /\ Keeps(s, WithStatics(s, d), c)
  <1>1. PICK statics : statics = [k \in DOMAIN d.statics |-> [name |-> d.statics[k], index |-> -1]]
    OBVIOUS
  <1>2. PICK old : old = s.classes[c]
    OBVIOUS
  <1>3. PICK new : new = [old EXCEPT !.statics = @ \o statics]
    OBVIOUS
  <1>4. PICK t : t = WithStatics(s, d)
    OBVIOUS
  <1>5. /\ c \in Classes /\ Attempting /\ c \notin DeclaredBefore(next) /\ c = d.name
        /\ d.statics \in Seq(STRING)
    BY DeclarationIs DEF Declaring, ClassDeclarations
  <1>6. IsStore(s) /\ old \in ClassInfos
    BY <1>2, <1>5 DEF Good, Sound, IsStore
  <1>7. statics \in Seq(StaticInfos)
    <2>1. Len(d.statics) \in Nat /\ DOMAIN d.statics = 1..Len(d.statics)
          /\ \A k \in 1..Len(d.statics) : d.statics[k] \in STRING
      BY <1>5, SequenceIs
    <2>2. \A k \in 1..Len(d.statics) : statics[k] \in StaticInfos
      BY <1>1, <2>1 DEF StaticInfos, Names
    <2>3. statics = [k \in 1..Len(d.statics) |-> statics[k]]
      BY <1>1, <2>1
    <2>. QED  BY <2>1, <2>2, <2>3, SequenceOf
  <1>8. /\ new \in ClassInfos /\ new.base = old.base /\ new.methods = old.methods
        /\ new.compiled = old.compiled /\ new.implements = old.implements
    <2>1. old.statics \o statics \in Seq(StaticInfos)
      BY <1>6, <1>7 DEF ClassInfos
    <2>. QED  BY <1>3, <1>6, <2>1 DEF ClassInfos
  <1>9. t = WithClass(s, c, new)
    BY <1>1, <1>2, <1>3, <1>4, <1>5, <1>6 DEF WithStatics, WithClass, IsStore, ClassInfos
  <1>10. \A name \in new.compiled : HasMethod(s.classes, c, name)
    BY <1>2, <1>5, <1>8 DEF Good, Sound, ClassesOK
  <1>11. Good(t, W)
    BY <1>2, <1>5, <1>8, <1>9, <1>10, ClassChangedIsGood
  <1>12. Changed(s, t, c, new)
    BY <1>5, <1>6, <1>8, <1>9, ClassChanged
  <1>13. Keeps(s, t, c)
    BY <1>2, <1>8, <1>12 DEF Keeps, Changed, HasMethod
  <1>. QED  BY <1>4, <1>11, <1>13

LEMMA MembersOnceIsGood ==
    ASSUME NEW c, NEW d, Declaring(c, d), NEW W, W \subseteq Classes, FirstPass => c \in W,
           NEW s, Good(s, W)
    PROVE  LET r == MembersOnce(s, d) IN
           /\ Good(r.store, W) /\ Keeps(s, r.store, c)
           /\ r.ok => \A name \in MethodNames(d) : HasMethod(r.store.classes, c, name)
  <1>0. PICK all : all = AllMethods(d)
    OBVIOUS
  <1>1. /\ Len(all) \in Nat /\ \A k \in 1..Len(all) : MethodOf(all[k], d)
        /\ \A name \in MethodNames(d) : \E k \in 1..Len(all) : all[k].name = name
    BY <1>0, MethodsAre
  <1>2. PICK r : MemberByMember(s, d, r)
    BY <1>0, <1>1, MembersOnceSteps
  <1>3. /\ r[0] = Done(WithStatics(s, d)) /\ c = d.name
        /\ \A k \in 1..Len(all) : r[k] = NextMember(r[k - 1], c, all[k])
        /\ MembersOnce(s, d) = r[Len(all)]
    BY <1>0, <1>2 DEF MemberByMember, Declaring
  <1>. DEFINE S == {k \in 0..Len(all) :
                      /\ Good(r[k].store, W) /\ Keeps(s, r[k].store, c)
                      /\ r[k].ok => \A j \in 1..k : HasMethod(r[k].store.classes, c, all[j].name)}
  <1>4. 0 \in S
    <2>1. Good(WithStatics(s, d), W) /\ Keeps(s, WithStatics(s, d), c)
      BY WithStaticsIsGood
    <2>2. r[0].store = WithStatics(s, d)
      BY <1>3 DEF Done
    <2>. QED  BY <1>1, <2>1, <2>2
  <1>5. ASSUME NEW k \in 0..(Len(all) - 1), k \in S PROVE k + 1 \in S
    <2>1. k + 1 \in 1..Len(all) /\ (k + 1) - 1 = k /\ k + 1 \in 0..Len(all)
      BY <1>1
    <2>2. PICK t, m : t = r[k].store /\ m = all[k + 1]
      OBVIOUS
    <2>3. MethodOf(m, d) /\ Good(t, W) /\ Keeps(s, t, c)
          /\ (r[k].ok => \A j \in 1..k : HasMethod(t.classes, c, all[j].name))
      BY <1>1, <1>5, <2>1, <2>2
    <2>4. PICK x : x = Method(t, c, m)
      OBVIOUS
    <2>5. /\ Good(x.store, W) /\ Keeps(t, x.store, c)
          /\ x.ok => HasMethod(x.store.classes, c, m.name)
      BY <2>3, <2>4, MethodIsGood
    <2>6. PICK ok : ok = (r[k].ok /\ x.ok)
      OBVIOUS
    <2>7. r[k + 1].store = x.store /\ (r[k + 1].ok => r[k].ok /\ x.ok)
      <3>1. r[k + 1] = [store |-> x.store, ok |-> ok]
        BY <1>3, <2>1, <2>2, <2>4, <2>6 DEF NextMember
      <3>2. r[k + 1].store = x.store /\ r[k + 1].ok = ok
        BY <3>1
      <3>. QED  BY <2>6, <3>2
    <2>8. Keeps(s, x.store, c)
      BY <2>3, <2>5 DEF Keeps
    <2>9. ASSUME r[k + 1].ok, NEW j \in 1..(k + 1)
          PROVE  HasMethod(x.store.classes, c, all[j].name)
      <3>1. CASE j = k + 1
        BY <2>2, <2>5, <2>7, <2>9, <3>1
      <3>2. CASE j \in 1..k
        <4>1. HasMethod(t.classes, c, all[j].name)
          BY <2>3, <2>7, <2>9, <3>2
        <4>. QED  BY <2>5, <4>1 DEF Keeps
      <3>. QED  BY <3>1, <3>2
    <2>. QED  BY <2>1, <2>5, <2>7, <2>8, <2>9
  <1>. HIDE DEF S
  <1>6. Len(all) \in S
    BY <1>1, <1>4, <1>5, InductionUpTo
  <1>7. PICK x : x = r[Len(all)]
    OBVIOUS
  <1>8. /\ Good(x.store, W) /\ Keeps(s, x.store, c)
        /\ x.ok => \A j \in 1..Len(all) : HasMethod(x.store.classes, c, all[j].name)
    BY <1>6, <1>7 DEF S
  <1>9. ASSUME x.ok, NEW name \in MethodNames(d) PROVE HasMethod(x.store.classes, c, name)
    <2>1. PICK k \in 1..Len(all) : all[k].name = name
      BY <1>1
    <2>. QED  BY <1>8, <1>9, <2>1
  <1>. QED  BY <1>3, <1>7, <1>8, <1>9

\* The members that have been generated are no more noted as compiled.
Forgotten(s, c) == [s EXCEPT !.classes[c].compiled = {}]

LEMMA ForgottenIsGood ==
    ASSUME NEW c, NEW d, Declaring(c, d), NEW W, W \subseteq Classes, NEW s, Good(s, W)
    PROVE  Good(Forgotten(s, c), W) /\ Keeps(s, Forgotten(s, c), c)
  <1>1. PICK old : old = s.classes[c]
    OBVIOUS
  <1>2. PICK new : new = [old EXCEPT !.compiled = {}]
    OBVIOUS
  <1>3. PICK t : t = Forgotten(s, c)
    OBVIOUS
  <1>4. c \in Classes /\ Attempting
    BY DeclarationIs DEF Declaring
  <1>5. IsStore(s) /\ old \in ClassInfos
    BY <1>1, <1>4 DEF Good, Sound, IsStore
  <1>6. /\ new \in ClassInfos /\ new.base = old.base /\ new.methods = old.methods
        /\ new.compiled = {} /\ new.implements = old.implements /\ new.statics = old.statics
    BY <1>2, <1>5 DEF ClassInfos
  <1>7. t = WithClass(s, c, new)
    BY <1>1, <1>2, <1>3, <1>5 DEF Forgotten, WithClass, IsStore, ClassInfos
  <1>8. Good(t, W)
    BY <1>1, <1>4, <1>6, <1>7, ClassChangedIsGood
  <1>9. Changed(s, t, c, new)
    BY <1>4, <1>5, <1>6, <1>7, ClassChanged
  <1>10. Keeps(s, t, c)
    BY <1>1, <1>6, <1>9 DEF Keeps, Changed, HasMethod
  <1>. QED  BY <1>3, <1>8, <1>10

LEMMA MembersIsGood ==
    ASSUME NEW c, NEW d, Declaring(c, d), NEW W, W \subseteq Classes, FirstPass => c \in W,
           NEW s, Good(s, W), s.classes[c].base = d.base
    PROVE  LET r == Members(s, d) IN
           /\ Good(r.store, W)
           /\ r.ok => Good(r.store, W \cup {c})
  <1>1. PICK first : first = MembersOnce(s, d)
    OBVIOUS
  <1>2. PICK second : second = SecondIteration(first, d)
    OBVIOUS
  <1>3. /\ Good(first.store, W) /\ Keeps(s, first.store, c)
        /\ first.ok => \A name \in MethodNames(d) : HasMethod(first.store.classes, c, name)
    BY <1>1, MembersOnceIsGood
  <1>4. /\ Good(second.store, W) /\ Keeps(first.store, second.store, c)
        /\ second.ok => \A name \in MethodNames(d) : HasMethod(second.store.classes, c, name)
    <2>1. CASE first.ok
      <3>1. second = first
        BY <1>2, <2>1 DEF SecondIteration
      <3>. QED  BY <1>3, <3>1 DEF Keeps
    <2>2. CASE ~first.ok
      <3>1. second = MembersOnce(first.store, d)
        BY <1>2, <2>2 DEF SecondIteration
      <3>2. PICK t : t = first.store
        OBVIOUS
      <3>. QED  BY <1>3, <3>1, <3>2, MembersOnceIsGood
    <2>. QED  BY <2>1, <2>2
  <1>5. Members(s, d) = IF second.ok THEN Done(Forgotten(second.store, c)) ELSE second
    BY <1>1, <1>2 DEF Members, Then, Forgotten, Declaring
  <1>6. PICK t, u : t = second.store /\ u = Forgotten(second.store, c)
    OBVIOUS
  <1>7. Good(u, W) /\ Keeps(t, u, c)
    BY <1>4, <1>6, ForgottenIsGood
  <1>8. CASE ~second.ok
    BY <1>4, <1>5, <1>8
  <1>9. CASE second.ok
    <2>1. Members(s, d).store = u
      BY <1>5, <1>6, <1>9 DEF Done
    <2>2. Whole(u.classes, c)
      <3>1. DeclaredBase(c) = d.base /\ DeclaredMethods(c) = MethodNames(d)
        BY DeclarationIs
      <3>2. u.classes[c].base = d.base
        BY <1>3, <1>4, <1>6, <1>7 DEF Keeps
      <3>3. \A name \in MethodNames(d) : HasMethod(u.classes, c, name)
        BY <1>4, <1>6, <1>7, <1>9 DEF Keeps
      <3>. QED  BY <3>1, <3>2, <3>3 DEF Whole
    <2>3. Good(u, W \cup {c})
      BY <1>7, <2>2 DEF Good, Sound
    <2>. QED  BY <1>7, <2>1, <2>3
  <1>. QED  BY <1>8, <1>9

-----------------------------------------------------------------------------
(* Preparing the table of a class counts its slots, and changes no more.   *)

Renumbered(old, new) ==
    /\ new.base = old.base /\ new.compiled = old.compiled
    /\ Len(new.implements) = Len(old.implements)
    /\ \A k \in 1..Len(old.implements) : new.implements[k].interface = old.implements[k].interface
    /\ Len(new.methods) = Len(old.methods)
    /\ \A k \in 1..Len(old.methods) : /\ new.methods[k].name = old.methods[k].name
                                      /\ new.methods[k].abstract = old.methods[k].abstract
    /\ Len(new.statics) = Len(old.statics)
    /\ \A k \in 1..Len(old.statics) : new.statics[k].name = old.statics[k].name

LEMMA IndexedIs ==
    ASSUME NEW cls \in [Classes -> ClassInfos], NEW rank, NEW n, Hierarchy(cls, rank, n),
           NEW c \in Classes
    PROVE  /\ Indexed(cls, c) \in ClassInfos /\ Renumbered(cls[c], Indexed(cls, c))
           /\ \A k \in 1..Len(cls[c].methods) :
                 Indexed(cls, c).methods[k].index = Place(Layout(cls)[c], cls[c].methods[k].name)
  <1>1. PICK info, table, inherited, new : /\ info = cls[c] /\ table = Layout(cls)[c]
                                           /\ inherited = Inherited(cls, c) /\ new = Indexed(cls, c)
    OBVIOUS
  <1>2. PICK I, M, F : I = info.implements /\ M = info.methods /\ F = info.statics
    OBVIOUS
  <1>3. info \in ClassInfos /\ I \in Seq(Implements) /\ M \in Seq(MethodInfos) /\ F \in Seq(StaticInfos)
    BY <1>1, <1>2 DEF ClassInfos
  <1>4. /\ Len(I) \in Nat /\ DOMAIN I = 1..Len(I) /\ \A k \in 1..Len(I) : I[k] \in Implements
        /\ Len(M) \in Nat /\ DOMAIN M = 1..Len(M) /\ \A k \in 1..Len(M) : M[k] \in MethodInfos
        /\ Len(F) \in Nat /\ DOMAIN F = 1..Len(F) /\ \A k \in 1..Len(F) : F[k] \in StaticInfos
    BY <1>3, SequenceIs
  <1>5. Len(table) \in Nat /\ \A name : Place(table, name) \in Int
    <2>1. table \in Seq(Entries)
      BY <1>1, LayoutTypes
    <2>2. Len(table) \in Nat
      BY <2>1
    <2>. QED  BY <2>2, PlaceIs
  <1>. DEFINE First(k) == /\ Place(inherited, I[k].interface) < 0
                          /\ \A j \in 1..(k - 1) : I[j].interface # I[k].interface
              from == Len(table) - Len(F)
  <1>6. PICK J : J = [k \in DOMAIN I |-> IF First(k) THEN [I[k] EXCEPT !.index = Place(table, I[k].interface)]
                                         ELSE I[k]]
    OBVIOUS
  <1>7. PICK N : N = [k \in DOMAIN M |-> [M[k] EXCEPT !.index = Place(table, M[k].name)]]
    OBVIOUS
  <1>8. PICK G : G = [k \in DOMAIN F |-> [F[k] EXCEPT !.index = from + k - 1]]
    OBVIOUS
  <1>9. new = [info EXCEPT !.implements = J, !.methods = N, !.statics = G]
    <2>1. new = [cls[c] EXCEPT
                   !.implements = [k \in DOMAIN cls[c].implements |->
                        IF /\ Place(inherited, cls[c].implements[k].interface) < 0
                           /\ \A j \in 1..(k - 1) : cls[c].implements[j].interface # cls[c].implements[k].interface
                        THEN [cls[c].implements[k] EXCEPT !.index = Place(table, cls[c].implements[k].interface)]
                        ELSE cls[c].implements[k]],
                   !.methods = [k \in DOMAIN cls[c].methods |->
                        [cls[c].methods[k] EXCEPT !.index = Place(table, cls[c].methods[k].name)]],
                   !.statics = [k \in DOMAIN cls[c].statics |->
                        [cls[c].statics[k] EXCEPT !.index = Len(table) - Len(cls[c].statics) + k - 1]]]
      BY <1>1, <1>3 DEF Indexed, Inherited, ClassInfos
    <2>. QED  BY <1>1, <1>2, <1>6, <1>7, <1>8, <2>1
  <1>10. /\ J \in Seq(Implements) /\ Len(J) = Len(I)
         /\ \A k \in 1..Len(I) : J[k].interface = I[k].interface
    <2>1. ASSUME NEW k \in 1..Len(I)
          PROVE  J[k] \in Implements /\ J[k].interface = I[k].interface
      <3>. HIDE DEF First
      <3>1. J[k] = I[k] \/ J[k] = [I[k] EXCEPT !.index = Place(table, I[k].interface)]
        BY <1>4, <1>6
      <3>2. I[k] \in Implements
        BY <1>4
      <3>. QED  BY <1>5, <3>1, <3>2 DEF Implements
    <2>2. J = [k \in 1..Len(I) |-> J[k]]
      BY <1>4, <1>6
    <2>. QED  BY <1>4, <2>1, <2>2, SequenceOf
  <1>11. /\ N \in Seq(MethodInfos) /\ Len(N) = Len(M)
         /\ \A k \in 1..Len(M) : N[k].name = M[k].name /\ N[k].abstract = M[k].abstract
                                 /\ N[k].index = Place(table, M[k].name)
    <2>1. ASSUME NEW k \in 1..Len(M)
          PROVE  N[k] \in MethodInfos /\ N[k].name = M[k].name /\ N[k].abstract = M[k].abstract
                 /\ N[k].index = Place(table, M[k].name)
      <3>1. N[k] = [M[k] EXCEPT !.index = Place(table, M[k].name)]
        BY <1>4, <1>7
      <3>2. M[k] \in MethodInfos
        BY <1>4
      <3>. QED  BY <1>5, <3>1, <3>2 DEF MethodInfos
    <2>2. N = [k \in 1..Len(M) |-> N[k]]
      BY <1>4, <1>7
    <2>. QED  BY <1>4, <2>1, <2>2, SequenceOf
  <1>12. /\ G \in Seq(StaticInfos) /\ Len(G) = Len(F)
         /\ \A k \in 1..Len(F) : G[k].name = F[k].name
    <2>1. ASSUME NEW k \in 1..Len(F)
          PROVE  G[k] \in StaticInfos /\ G[k].name = F[k].name
      <3>1. G[k] = [F[k] EXCEPT !.index = from + k - 1] /\ from + k - 1 \in Int
        BY <1>4, <1>5, <1>8
      <3>2. F[k] \in StaticInfos
        BY <1>4
      <3>. HIDE DEF from
      <3>. QED  BY <3>1, <3>2 DEF StaticInfos
    <2>2. G = [k \in 1..Len(F) |-> G[k]]
      BY <1>4, <1>8
    <2>. QED  BY <1>4, <2>1, <2>2, SequenceOf
  <1>13. /\ new \in ClassInfos /\ new.base = info.base /\ new.compiled = info.compiled
         /\ new.implements = J /\ new.methods = N /\ new.statics = G
    BY <1>3, <1>9, <1>10, <1>11, <1>12 DEF ClassInfos
  <1>. QED  BY <1>1, <1>2, <1>10, <1>11, <1>12, <1>13 DEF Renumbered

LEMMA RenumberedSame ==
    ASSUME NEW cls \in [Classes -> ClassInfos], NEW new \in [Classes -> ClassInfos],
           NEW c \in Classes, Renumbered(cls[c], new[c])
    PROVE  SameBody(cls, new, c) /\ StaticEntries(new, c) = StaticEntries(cls, c)
  <1>1. PICK a, b : a = cls[c] /\ b = new[c]
    OBVIOUS
  <1>2. a \in ClassInfos /\ b \in ClassInfos /\ Renumbered(a, b)
    BY <1>1
  <1>3. PICK I, J, M, N, F, G : /\ I = a.implements /\ J = b.implements /\ M = a.methods
                                /\ N = b.methods /\ F = a.statics /\ G = b.statics
    OBVIOUS
  <1>4. /\ I \in Seq(Implements) /\ J \in Seq(Implements) /\ M \in Seq(MethodInfos)
        /\ N \in Seq(MethodInfos) /\ F \in Seq(StaticInfos) /\ G \in Seq(StaticInfos)
    BY <1>2, <1>3 DEF ClassInfos
  <1>5. /\ DOMAIN J = DOMAIN I /\ \A k \in DOMAIN I : J[k].interface = I[k].interface
        /\ DOMAIN N = DOMAIN M /\ \A k \in DOMAIN M : N[k].name = M[k].name /\ N[k].abstract = M[k].abstract
        /\ DOMAIN G = DOMAIN F /\ \A k \in DOMAIN F : G[k].name = F[k].name
        /\ Len(M) = Len(N) /\ \A k \in 1..Len(M) : N[k].name = M[k].name
    BY <1>2, <1>3, <1>4, SequenceIs DEF Renumbered
  <1>6. VirtualEntries(new, c) = VirtualEntries(cls, c)
    <2>1. [k \in DOMAIN J |-> [kind |-> "interface", name |-> J[k].interface,
                               class |-> NoClass, abstract |-> FALSE]]
          = [k \in DOMAIN I |-> [kind |-> "interface", name |-> I[k].interface,
                                 class |-> NoClass, abstract |-> FALSE]]
      BY <1>5
    <2>2. [k \in DOMAIN N |-> [kind |-> "method", name |-> N[k].name,
                               class |-> c, abstract |-> N[k].abstract]]
          = [k \in DOMAIN M |-> [kind |-> "method", name |-> M[k].name,
                                 class |-> c, abstract |-> M[k].abstract]]
      BY <1>5
    <2>3. /\ new[c].implements = J /\ cls[c].implements = I
          /\ new[c].methods = N /\ cls[c].methods = M
      BY <1>1, <1>3
    <2>. QED  BY <2>1, <2>2, <2>3 DEF VirtualEntries
  <1>7. StaticEntries(new, c) = StaticEntries(cls, c)
    <2>1. new[c].statics = G /\ cls[c].statics = F
      BY <1>1, <1>3
    <2>. QED  BY <1>5, <2>1 DEF StaticEntries
  <1>8. ASSUME NEW name PROVE HasMethod(new, c, name) <=> HasMethod(cls, c, name)
    <2>1. new[c].methods = N /\ cls[c].methods = M
      BY <1>1, <1>3
    <2>. QED  BY <1>5, <2>1 DEF HasMethod
  <1>9. new[c].base = cls[c].base
    BY <1>1, <1>2 DEF Renumbered
  <1>. QED  BY <1>6, <1>7, <1>8, <1>9 DEF SameBody

\* Before the slots of the class being generated are counted.
Nearly(s, W) ==
    /\ Sound(s, W)
    /\ FirstPass => AllIndicesOK(s, next) /\ TablesOK(s, next) /\ CallsOK(s, next + 1)

LEMMA GoodIsNearly ==
    ASSUME Attempting, NEW W, NEW s, Good(s, W)
    PROVE  Nearly(s, W)
  <1>1. DeclaredBefore(next) \subseteq DeclaredBefore(next + 1)
    <2>1. program \in Programs /\ next \in 1..Len(program)
      BY ProgramIs DEF Attempting, StateTypes
    <2>. QED  BY <2>1, NextDeclared
  <1>. QED  BY <1>1 DEF Good, Ready, Nearly, AllIndicesOK

LEMMA ChainHasClass ==
    ASSUME NEW cls, NEW rank, NEW n, Hierarchy(cls, rank, n), NEW c \in Classes
    PROVE  c \in ToSet(Chain(cls)[c])
  <1>1. PICK rest : rest = IF cls[c].base = NoClass THEN <<>> ELSE Chain(cls)[cls[c].base]
    OBVIOUS
  <1>2. Chain(cls)[c] = <<c>> \o rest
    BY <1>1, ChainIs
  <1>3. rest \in Seq(Classes)
    <2>1. cls[c].base # NoClass => cls[c].base \in Classes
      BY DEF Hierarchy
    <2>. QED  BY <1>1, <2>1, ChainTypes
  <1>4. (<<c>> \o rest)[1] = c /\ 1 \in DOMAIN (<<c>> \o rest)
    BY <1>3
  <1>5. c \in {(<<c>> \o rest)[i] : i \in DOMAIN (<<c>> \o rest)}
    BY <1>4
  <1>. QED  BY <1>2, <1>5 DEF ToSet

Prepared(s, t, c) ==
    /\ IsStore(t) /\ t.tables = s.tables /\ t.calls = s.calls
    /\ \A d \in Classes : t.classes[d] = IF d \in ToSet(Chain(s.classes)[c])
                                         THEN Indexed(s.classes, d) ELSE s.classes[d]
    /\ \A d \in Classes : Renumbered(s.classes[d], t.classes[d])

LEMMA PreparedIs ==
    ASSUME NEW s, IsStore(s), NEW rank, NEW n, Hierarchy(s.classes, rank, n), NEW c, NEW t,
           t = PrepareTable(s, c)
    PROVE  Prepared(s, t, c)
  <1>1. PICK cls, chain : cls = s.classes /\ chain = ToSet(Chain(s.classes)[c])
    OBVIOUS
  <1>2. PICK new : new = [d \in Classes |-> IF d \in chain THEN Indexed(cls, d) ELSE cls[d]]
    OBVIOUS
  <1>3. t = [s EXCEPT !.classes = new]
    BY <1>1, <1>2 DEF PrepareTable
  <1>4. cls \in [Classes -> ClassInfos]
    BY <1>1 DEF IsStore
  <1>5. \A d \in Classes : Indexed(cls, d) \in ClassInfos /\ Renumbered(cls[d], Indexed(cls, d))
    BY <1>1, <1>4, IndexedIs
  <1>6. \A d \in Classes : new[d] \in ClassInfos /\ Renumbered(cls[d], new[d])
    BY <1>2, <1>4, <1>5 DEF Renumbered
  <1>7. new \in [Classes -> ClassInfos]
    BY <1>2, <1>6
  <1>8. t.classes = new /\ t.tables = s.tables /\ t.calls = s.calls
    BY <1>3 DEF IsStore
  <1>9. t = [types |-> t.types, interfaces |-> t.interfaces, classes |-> t.classes,
             tables |-> t.tables, emitted |-> t.emitted, redefined |-> t.redefined,
             calls |-> t.calls]
    BY <1>3 DEF IsStore
  <1>. QED  BY <1>1, <1>2, <1>6, <1>7, <1>8, <1>9 DEF IsStore, Prepared

LEMMA PrepareIsGood ==
    ASSUME NEW c, NEW d, Declaring(c, d), NEW W, W \subseteq Classes, NEW s, Nearly(s, W)
    PROVE  Good(PrepareTable(s, c), W) /\ PrepareTable(s, c).classes[c].base = s.classes[c].base
           /\ PrepareTable(s, c).tables = s.tables
  <1>1. PICK t, cls, new : t = PrepareTable(s, c) /\ cls = s.classes /\ new = t.classes
    OBVIOUS
  <1>2. /\ program \in Programs /\ next \in 1..Len(program) /\ DeclaresFirst /\ NamesApart
        /\ c \in Classes /\ Attempting
    BY DeclarationIs, ProgramIs DEF StateTypes, Declaring, Attempting, Orderly
  <1>3. IsStore(s) /\ ClassesOK(cls) /\ cls \in [Classes -> ClassInfos]
        /\ Hierarchy(cls, Rank, Len(program))
    BY <1>1, <1>2, StoreHierarchy DEF Nearly, Sound
  <1>4. PICK rank, size : rank = Rank /\ size = Len(program)
    OBVIOUS
  <1>5. Hierarchy(cls, rank, size)
    BY <1>3, <1>4
  <1>6. /\ IsStore(t) /\ t.tables = s.tables /\ t.calls = s.calls
        /\ \A e \in Classes : new[e] = IF e \in ToSet(Chain(cls)[c]) THEN Indexed(cls, e) ELSE cls[e]
        /\ \A e \in Classes : Renumbered(cls[e], new[e])
    <2>1. Prepared(s, t, c)
      <3>1. Hierarchy(s.classes, rank, size) /\ IsStore(s) /\ t = PrepareTable(s, c)
        BY <1>1, <1>3, <1>5
      <3>. QED  BY <3>1, PreparedIs
    <2>. QED  BY <1>1, <2>1 DEF Prepared
  <1>7. new \in [Classes -> ClassInfos]
    BY <1>1, <1>6 DEF IsStore
  <1>8. \A e \in Classes : SameBody(cls, new, e) /\ StaticEntries(new, e) = StaticEntries(cls, e)
    BY <1>3, <1>6, <1>7, RenumberedSame
  <1>9. ClassesOK(new)
    <2>1. ASSUME NEW e \in Classes
          PROVE  /\ new[e].base \in {NoClass, DeclaredBase(e)}
                 /\ \A i \in 1..Len(new[e].methods) : new[e].methods[i].name \in DeclaredMethods(e)
                 /\ \A name \in new[e].compiled : HasMethod(new, e, name)
      <3>1. Renumbered(cls[e], new[e]) /\ SameBody(cls, new, e)
        BY <1>6, <1>8
      <3>2. new[e].base \in {NoClass, DeclaredBase(e)}
        BY <1>3, <3>1 DEF ClassesOK, SameBody
      <3>3. \A i \in 1..Len(new[e].methods) : new[e].methods[i].name \in DeclaredMethods(e)
        BY <1>3, <3>1 DEF ClassesOK, Renumbered
      <3>4. \A name \in new[e].compiled : HasMethod(new, e, name)
        BY <1>3, <3>1 DEF ClassesOK, Renumbered, SameBody
      <3>. QED  BY <3>2, <3>3, <3>4
    <2>. QED  BY <2>1 DEF ClassesOK
  <1>10. Sound(t, W)
    <2>1. \A e \in W : Whole(new, e)
      BY <1>1, <1>8 DEF Nearly, Sound, Whole, SameBody
    <2>. QED  BY <1>1, <1>6, <1>9, <2>1 DEF Sound
  <1>11. PICK D, E : D = DeclaredBefore(next) /\ E = DeclaredBefore(next + 1)
    OBVIOUS
  <1>12. \A e \in E : e \in Classes
    <2>1. next + 1 \in Int
      BY <1>2
    <2>. QED  BY <1>2, <1>11, <2>1, BasesBefore
  <1>13. /\ TablesOK(s, next) /\ SameTables(s, t) => TablesOK(t, next)
         /\ CallsOK(s, next + 1) /\ NoMoreCalls(s, t) => CallsOK(t, next + 1)
         /\ \A e \in E : VirtualPart(new, e) = VirtualPart(cls, e)
    <2>1. \A e \in DeclaredBefore(next + 1) : DeclaredBase(e) \in DeclaredBefore(next) \cup {NoClass}
      BY <1>2, BasesOfDeclared DEF Attempting, Orderly
    <2>2. next \in Int /\ next + 1 \in Int /\ next <= next + 1
      BY <1>2
    <2>3. \A e \in DeclaredBefore(next + 1) : SameBody(s.classes, t.classes, e)
      BY <1>1, <1>8, <1>11, <1>12
    <2>4. \A e \in DeclaredBefore(next) : StaticEntries(t.classes, e) = StaticEntries(s.classes, e)
      <3>1. \A e \in DeclaredBefore(next) : e \in Classes
        BY <1>2, <2>2, BasesBefore
      <3>. QED  BY <1>1, <1>8, <3>1
    <2>5. ClassesOK(s.classes) /\ ClassesOK(t.classes) /\ IsStore(s) /\ IsStore(t)
      BY <1>1, <1>3, <1>6, <1>9
    <2>6. PICK m, n : m = next /\ n = next + 1
      OBVIOUS
    <2>7. StoresAlike(s, t, m, n)
      BY <2>1, <2>3, <2>4, <2>6 DEF StoresAlike
    <2>8. m \in Int /\ n \in Int /\ m <= n
      BY <2>2, <2>6
    <2>9. /\ TablesOK(s, m) /\ SameTables(s, t) => TablesOK(t, m)
          /\ CallsOK(s, n) /\ NoMoreCalls(s, t) => CallsOK(t, n)
          /\ \A e \in DeclaredBefore(n) : VirtualPart(t.classes, e) = VirtualPart(s.classes, e)
      BY <1>2, <2>5, <2>7, <2>8, PlacesStay
    <2>. QED  BY <1>1, <1>11, <2>6, <2>9
  <1>14. ASSUME FirstPass PROVE AllIndicesOK(t, next + 1)
    <2>1. ASSUME NEW e \in E, NEW i \in 1..Len(new[e].methods)
          PROVE  new[e].methods[i].index = Place(VirtualPart(new, e), new[e].methods[i].name)
      <3>1. PICK name : name = cls[e].methods[i].name
        OBVIOUS
      <3>2. i \in 1..Len(cls[e].methods) /\ new[e].methods[i].name = name
        BY <1>6, <1>12, <2>1, <3>1 DEF Renumbered
      <3>3. CASE e \in ToSet(Chain(cls)[c])
        <4>1. new[e].methods[i].index = Place(Layout(cls)[e], name)
          BY <1>3, <1>5, <1>6, <1>12, <3>1, <3>2, <3>3, IndexedIs
        <4>2. HasMethod(cls, e, name)
          BY <3>1, <3>2 DEF HasMethod
        <4>3. name \notin Interfaces
          BY <1>2, <1>3, <1>12, <4>2, NotAnInterface
        <4>4. MethodProvider(cls, e, name) # NoClass
          <5>1. MethodProvider(cls, e, name) = e
            BY <1>3, <1>5, <1>12, <4>2, MethodProviderIs
          <5>. QED  BY <1>12, <5>1, ProgramsAssumption
        <4>5. Place(VirtualPart(cls, e), name) = Place(Layout(cls)[e], name)
          BY <1>3, <1>5, <1>12, <4>3, <4>4, SlotOfMethod
        <4>. QED  BY <1>13, <3>2, <4>1, <4>5
      <3>4. CASE e \notin ToSet(Chain(cls)[c])
        <4>1. e \in D
          <5>1. e # c
            BY <1>2, <1>5, <3>4, ChainHasClass
          <5>. QED  BY <1>11, <5>1, DeclarationIs
        <4>2. new[e] = cls[e]
          BY <1>6, <1>12, <3>4
        <4>3. IndicesOK(cls, e)
          BY <1>1, <1>11, <1>14, <4>1 DEF Nearly, AllIndicesOK
        <4>4. cls[e].methods[i].index = Place(VirtualPart(cls, e), name)
          BY <3>1, <3>2, <4>3 DEF IndicesOK
        <4>. QED  BY <1>13, <3>2, <4>2, <4>4
      <3>. QED  BY <3>3, <3>4
    <2>. QED  BY <1>1, <1>11, <2>1 DEF AllIndicesOK, IndicesOK
  <1>15. ASSUME FirstPass PROVE Ready(t)
    <2>1. SameTables(s, t) /\ NoMoreCalls(s, t)
      BY <1>6 DEF SameTables, NoMoreCalls
    <2>. QED  BY <1>13, <1>14, <1>15, <2>1 DEF Ready, Nearly
  <1>16. new[c].base = cls[c].base
    BY <1>2, <1>8 DEF SameBody
  <1>. QED  BY <1>1, <1>6, <1>10, <1>15, <1>16 DEF Good

-----------------------------------------------------------------------------
(* The heritage of the class being generated.                              *)

LEMMA KnownPrefixIs ==
    ASSUME NEW S, NEW seq \in Seq(S), NEW known
    PROVE  KnownPrefix(seq, known) \in Seq(S)
  <1>1. PICK k : k = IndexOf(seq, LAMBDA e : e \notin known)
    OBVIOUS
  <1>2. Len(seq) \in Nat
    OBVIOUS
  <1>. DEFINE I == {i \in 1..Len(seq) : seq[i] \notin known}
  <1>3. k = (IF I # {} THEN Min(I) ELSE 0) - 1
    BY <1>1 DEF IndexOf, SelectInSeq
  <1>4. k < 0 \/ k \in 0..Len(seq)
    <2>1. CASE I = {}
      BY <1>3, <2>1
    <2>2. CASE I # {}
      <3>1. I \subseteq Nat
        BY <1>2
      <3>2. PICK m : m = Min(I)
        OBVIOUS
      <3>3. m \in I
        BY <2>2, <3>1, <3>2, LeastOf
      <3>. QED  BY <1>2, <1>3, <2>2, <3>2, <3>3
    <2>. QED  BY <2>1, <2>2
  <1>5. KnownPrefix(seq, known) = IF k < 0 THEN seq ELSE SubSeq(seq, 1, k)
    BY <1>1 DEF KnownPrefix
  <1>6. CASE k \in 0..Len(seq)
    <2>1. SubSeq(seq, 1, k) \in Seq(S)
      BY <1>2, <1>6
    <2>. QED  BY <1>5, <2>1
  <1>. QED  BY <1>4, <1>5, <1>6

\* The methods of the class are untouched.
Inheriting(s, t, c, d) ==
    \E info \in ClassInfos :
        /\ Changed(s, t, c, info)
        /\ info.base \in {s.classes[c].base, d.base}
        /\ info.methods = s.classes[c].methods /\ info.compiled = s.classes[c].compiled

LEMMA HeritageIs ==
    ASSUME NEW c, NEW d, Declaring(c, d), NEW s, IsStore(s), NEW r, r = Heritage(s, d)
    PROVE  /\ Inheriting(s, r.store, c, d)
           /\ r.ok => r.store.classes[c].base = d.base
  <1>1. PICK types : types = s.types \cup {d.name}
    OBVIOUS
  <1>2. PICK known : known = KnownPrefix(d.implements, types)
    OBVIOUS
  <1>3. PICK old : old = s.classes[c]
    OBVIOUS
  <1>4. PICK added : added = [k \in DOMAIN known |-> [interface |-> known[k], index |-> -1, processed |-> FALSE]]
    OBVIOUS
  <1>5. PICK statics : statics = IF old.statics = <<>> THEN <<[name |-> Rtti, index |-> -1]>> ELSE old.statics
    OBVIOUS
  <1>6. /\ c = d.name /\ c \in Classes /\ d.base \in Classes \cup {NoClass}
        /\ d.implements \in Seq(Interfaces) /\ d.fields \subseteq STRING
    BY DeclarationIs DEF Declaring, ClassDeclarations
  <1>7. old \in ClassInfos /\ s.classes \in [Classes -> ClassInfos]
    BY <1>3, <1>6 DEF IsStore
  <1>8. added \in Seq(Implements)
    <2>1. known \in Seq(Interfaces)
      BY <1>2, <1>6, KnownPrefixIs
    <2>2. Len(known) \in Nat /\ DOMAIN known = 1..Len(known) /\ \A k \in 1..Len(known) : known[k] \in Interfaces
      BY <2>1, SequenceIs
    <2>3. \A k \in 1..Len(known) : added[k] \in Implements
      BY <1>4, <2>2 DEF Implements
    <2>4. added = [k \in 1..Len(known) |-> added[k]]
      BY <1>4, <2>2
    <2>. QED  BY <2>2, <2>3, <2>4, SequenceOf
  <1>9. statics \in Seq(StaticInfos)
    <2>1. [name |-> Rtti, index |-> -1] \in StaticInfos
      BY DEF StaticInfos, Names
    <2>2. old.statics \in Seq(StaticInfos)
      BY <1>7 DEF ClassInfos
    <2>. QED  BY <1>5, <2>1, <2>2
  <1>10. PICK a : a = [old EXCEPT !.base = d.base, !.implements = @ \o added]
    OBVIOUS
  <1>11. PICK b : b = [a EXCEPT !.statics = statics, !.fields = d.fields]
    OBVIOUS
  <1>12. /\ a \in ClassInfos /\ a.base = d.base /\ a.methods = old.methods /\ a.compiled = old.compiled
         /\ a.statics = old.statics
    <2>1. old.implements \o added \in Seq(Implements)
      BY <1>7, <1>8 DEF ClassInfos
    <2>. QED  BY <1>6, <1>7, <1>10, <2>1 DEF ClassInfos
  <1>13. b \in ClassInfos /\ b.base = d.base /\ b.methods = old.methods /\ b.compiled = old.compiled
    BY <1>6, <1>9, <1>11, <1>12 DEF ClassInfos
  <1>14. PICK u : u = [s EXCEPT !.types = types]
    OBVIOUS
  <1>15. IsStore(u) /\ u.tables = s.tables /\ u.calls = s.calls /\ u.classes = s.classes
    BY <1>14 DEF IsStore
  <1>16. PICK v, w : v = WithClass(u, c, a) /\ w = WithClass(u, c, b)
    OBVIOUS
  <1>17. \/ r = Failed(u)
         \/ r = Failed(v)
         \/ r = Done(w)
    <2>1. r = IF d.base \notin types \cup {NoClass} THEN Failed(u)
              ELSE IF known # d.implements THEN Failed(v)
              ELSE Done(w)
      <3>1. v = [[s EXCEPT !.types = types, !.classes[c].base = d.base]
                   EXCEPT !.classes[c].implements = @ \o added]
        BY <1>3, <1>6, <1>7, <1>10, <1>14, <1>16 DEF WithClass, IsStore, ClassInfos
      <3>2. w = [v EXCEPT !.classes[c] = b]
        BY <1>6, <1>15, <1>16 DEF WithClass, IsStore
      <3>3. v.classes[c] = a
        BY <1>6, <1>15, <1>16 DEF WithClass, IsStore
      <3>4. b = [v.classes[c] EXCEPT
                   !.statics = IF v.classes[c].statics = <<>>
                               THEN <<[name |-> Rtti, index |-> -1]>> ELSE v.classes[c].statics,
                   !.fields = d.fields]
        BY <1>5, <1>11, <1>12, <3>3
      <3>5. w = [v EXCEPT !.classes[c] = [v.classes[c] EXCEPT
                   !.statics = IF v.classes[c].statics = <<>>
                               THEN <<[name |-> Rtti, index |-> -1]>> ELSE v.classes[c].statics,
                   !.fields = d.fields]]
        BY <3>2, <3>4
      <3>. QED  BY <1>1, <1>2, <1>4, <1>6, <1>14, <3>1, <3>5 DEF Heritage
    <2>. QED  BY <2>1
  <1>18. CASE r = Failed(u)
    <2>1. Changed(s, u, c, old)
      BY <1>3, <1>15 DEF Changed
    <2>2. Inheriting(s, u, c, d)
      BY <1>3, <1>7, <2>1 DEF Inheriting
    <2>. QED  BY <1>18, <2>2 DEF Failed
  <1>19. CASE r = Failed(v)
    <2>1. Changed(u, v, c, a)
      BY <1>6, <1>12, <1>15, <1>16, ClassChanged
    <2>2. Changed(s, v, c, a)
      BY <1>15, <2>1 DEF Changed
    <2>3. Inheriting(s, v, c, d)
      BY <1>3, <1>12, <2>2 DEF Inheriting
    <2>. QED  BY <1>19, <2>3 DEF Failed
  <1>20. CASE r = Done(w)
    <2>1. Changed(u, w, c, b)
      BY <1>6, <1>13, <1>15, <1>16, ClassChanged
    <2>2. Changed(s, w, c, b)
      BY <1>15, <2>1 DEF Changed
    <2>3. Inheriting(s, w, c, d)
      BY <1>3, <1>13, <2>2 DEF Inheriting
    <2>4. w.classes[c].base = d.base
      BY <1>13, <2>2 DEF Changed
    <2>. QED  BY <1>20, <2>3, <2>4 DEF Done
  <1>. QED  BY <1>17, <1>18, <1>19, <1>20

\* The state of the run, before the attempt.
Started(s, W) ==
    /\ Sound(s, W)
    /\ FirstPass => AllIndicesOK(s, next) /\ TablesOK(s, next) /\ CallsOK(s, next)

LEMMA HeritageIsNearly ==
    ASSUME NEW c, NEW d, Declaring(c, d), NEW W, W \subseteq Classes, NEW s, Started(s, W),
           NEW r, r = Heritage(s, d)
    PROVE  Nearly(r.store, W) /\ (r.ok => r.store.classes[c].base = d.base)
  <1>1. PICK t, cls, new : t = r.store /\ cls = s.classes /\ new = t.classes
    OBVIOUS
  <1>2. IsStore(s) /\ ClassesOK(cls)
    BY <1>1 DEF Started, Sound
  <1>3. Inheriting(s, t, c, d) /\ (r.ok => t.classes[c].base = d.base)
    BY <1>1, <1>2, HeritageIs
  <1>4. PICK info \in ClassInfos :
           /\ Changed(s, t, c, info)
           /\ info.base \in {cls[c].base, d.base}
           /\ info.methods = cls[c].methods /\ info.compiled = cls[c].compiled
    BY <1>1, <1>3 DEF Inheriting
  <1>5. /\ IsStore(t) /\ t.tables = s.tables /\ t.calls = s.calls
        /\ new[c] = info /\ \A e \in Classes : e # c => new[e] = cls[e]
    BY <1>1, <1>4 DEF Changed
  <1>6. /\ program \in Programs /\ next \in 1..Len(program) /\ DeclaresFirst
        /\ c \in Classes /\ c \notin DeclaredBefore(next) /\ DeclaredBase(c) = d.base
        /\ DeclaredBefore(next) \subseteq DeclaredBefore(next + 1)
    BY DeclarationIs, ProgramIs DEF StateTypes, Declaring, Attempting, Orderly
  <1>7. \A e \in Classes : new[e].methods = cls[e].methods /\ new[e].compiled = cls[e].compiled
    BY <1>4, <1>5
  <1>8. \A e \in Classes : \A name : HasMethod(new, e, name) <=> HasMethod(cls, e, name)
    BY <1>7 DEF HasMethod
  <1>9. ClassesOK(new)
    <2>1. ASSUME NEW e \in Classes PROVE new[e].base \in {NoClass, DeclaredBase(e)}
      BY <1>2, <1>4, <1>5, <1>6 DEF ClassesOK
    <2>. QED  BY <1>2, <1>7, <1>8, <2>1 DEF ClassesOK
  <1>10. ASSUME NEW e \in W PROVE Whole(new, e)
    <2>1. Whole(cls, e)
      BY <1>1 DEF Started, Sound
    <2>2. new[e].base = DeclaredBase(e)
      <3>1. CASE e = c
        BY <1>4, <1>5, <1>6, <2>1, <3>1 DEF Whole
      <3>2. CASE e # c
        BY <1>5, <2>1, <3>2 DEF Whole
      <3>. QED  BY <3>1, <3>2
    <2>. QED  BY <1>8, <2>1, <2>2 DEF Whole
  <1>11. ASSUME FirstPass
         PROVE  AllIndicesOK(t, next) /\ TablesOK(t, next) /\ CallsOK(t, next + 1)
    <2>1. \A e \in DeclaredBefore(next) : e \in Classes /\ DeclaredBase(e) \in DeclaredBefore(next) \cup {NoClass}
      <3>1. next \in Int
        BY <1>6
      <3>. QED  BY <1>6, <3>1, BasesBefore
    <2>2. \A e \in DeclaredBefore(next) : new[e] = cls[e]
      BY <1>5, <1>6, <2>1
    <2>3. StoresAlike(s, t, next, next)
      BY <1>1, <2>1, <2>2 DEF StoresAlike, SameBody, VirtualEntries, StaticEntries, HasMethod
    <2>4. SameTables(s, t) /\ NoMoreCalls(s, t)
      BY <1>5 DEF SameTables, NoMoreCalls
    <2>5. next \in Int /\ next <= next /\ ClassesOK(s.classes) /\ ClassesOK(t.classes)
      BY <1>1, <1>2, <1>6, <1>9
    <2>6. /\ AllIndicesOK(s, next) /\ (\A e \in DeclaredBefore(next) : t.classes[e].methods = s.classes[e].methods)
                 => AllIndicesOK(t, next)
          /\ TablesOK(s, next) /\ SameTables(s, t) => TablesOK(t, next)
          /\ CallsOK(s, next) /\ NoMoreCalls(s, t) => CallsOK(t, next)
      BY <1>2, <1>5, <1>6, <2>3, <2>5, PlacesStay
    <2>7. CallsOK(t, next) => CallsOK(t, next + 1)
      BY <1>6 DEF CallsOK
    <2>. QED  BY <1>1, <1>11, <2>2, <2>4, <2>6, <2>7 DEF Started
  <1>. QED  BY <1>1, <1>3, <1>5, <1>9, <1>10, <1>11 DEF Nearly, Sound

-----------------------------------------------------------------------------
(* The interfaces of the base and of the class.                            *)

LEMMA TakeInterfaceIsGood ==
    ASSUME NEW c, NEW d, Declaring(c, d), d.base # NoClass, NEW W, W \subseteq Classes,
           NEW s, Good(s, W), NEW k \in 1..Len(s.classes[d.base].implements)
    PROVE  LET r == TakeInterface(s, d, k) IN
           Good(r.store, W) /\ Len(r.store.classes[d.base].implements) = Len(s.classes[d.base].implements)
  <1>1. PICK base : base = d.base
    OBVIOUS
  <1>2. PICK e : e = s.classes[base].implements[k]
    OBVIOUS
  <1>3. PICK r : r = DefineInterface(s, d.name, e.interface)
    OBVIOUS
  <1>4. PICK t : t = r.store
    OBVIOUS
  <1>5. PICK u : u = [t EXCEPT !.classes[base].implements[k].processed = TRUE]
    OBVIOUS
  <1>6. PICK old : old = s.classes[base]
    OBVIOUS
  <1>7. Attempting /\ base \in Classes /\ base \in DeclaredBefore(next)
    <2>1. next \in Int
      BY DEF Declaring, Attempting, StateTypes
    <2>. QED  BY <1>1, <2>1, DeclarationIs DEF Declaring
  <1>8. Good(t, W) /\ t.classes = s.classes
    BY <1>3, <1>4, <1>7, DefineInterfaceIsGood
  <1>9. IsStore(s) /\ IsStore(t)
    BY <1>8 DEF Good, Sound
  <1>10. old \in ClassInfos /\ k \in 1..Len(old.implements)
    BY <1>1, <1>6, <1>7, <1>9 DEF IsStore
  <1>11. PICK implements : implements = [old.implements EXCEPT ![k].processed = TRUE]
    OBVIOUS
  <1>12. /\ implements \in Seq(Implements) /\ Len(implements) = Len(old.implements)
         /\ \A j \in 1..Len(old.implements) : implements[j].interface = old.implements[j].interface
    <2>1. old.implements \in Seq(Implements)
      BY <1>10 DEF ClassInfos
    <2>2. /\ Len(old.implements) \in Nat /\ DOMAIN old.implements = 1..Len(old.implements)
          /\ \A j \in 1..Len(old.implements) : old.implements[j] \in Implements
      BY <2>1, SequenceIs
    <2>3. \A j \in 1..Len(old.implements) :
             implements[j] = IF j = k THEN [old.implements[j] EXCEPT !.processed = TRUE]
                             ELSE old.implements[j]
      BY <1>10, <1>11, <2>1, <2>2
    <2>4. \A j \in 1..Len(old.implements) :
             implements[j] \in Implements /\ implements[j].interface = old.implements[j].interface
      BY <2>2, <2>3 DEF Implements
    <2>5. implements = [j \in 1..Len(old.implements) |-> implements[j]]
      BY <1>11, <2>1, <2>2
    <2>6. implements \in Seq(Implements) /\ Len(implements) = Len(old.implements)
      BY <2>2, <2>4, <2>5, SequenceOf
    <2>. QED  BY <2>4, <2>6
  <1>13. PICK info : info = [old EXCEPT !.implements = implements]
    OBVIOUS
  <1>14. /\ info \in ClassInfos /\ info.base = old.base /\ info.methods = old.methods
         /\ info.compiled = old.compiled /\ info.statics = old.statics /\ info.implements = implements
    BY <1>10, <1>12, <1>13 DEF ClassInfos
  <1>15. u = WithClass(t, base, info)
    BY <1>5, <1>6, <1>7, <1>8, <1>9, <1>11, <1>13 DEF WithClass, IsStore, ClassInfos
  <1>16. \A name \in info.compiled : HasMethod(t.classes, base, name)
    BY <1>6, <1>7, <1>8, <1>14 DEF Good, Sound, ClassesOK
  <1>17. Good(u, W)
    BY <1>6, <1>7, <1>8, <1>12, <1>14, <1>15, <1>16, ClassChangedIsGood
  <1>18. u.classes[base] = info
    BY <1>7, <1>9, <1>14, <1>15, ClassChanged DEF Changed
  <1>19. TakeInterface(s, d, k) = IF e.processed THEN Done(s) ELSE IF r.ok THEN Done(u) ELSE r
    BY <1>1, <1>2, <1>3, <1>4, <1>5 DEF TakeInterface, Then
  <1>20. \/ TakeInterface(s, d, k).store = s
         \/ TakeInterface(s, d, k).store = t
         \/ TakeInterface(s, d, k).store = u
    BY <1>4, <1>19 DEF Done
  <1>. QED  BY <1>1, <1>6, <1>8, <1>12, <1>14, <1>17, <1>18, <1>20

\* BaseInterfaces goes from entry to entry of the base.
TakeAll(s, d, seq) == InSequence(s, seq, LAMBDA t, k : TakeInterface(t, d, k))

OneByOne(s, d, seq, r) ==
    /\ r[0] = Done(s)
    /\ \A k \in 1..Len(seq) :
          r[k] = IF r[k - 1].ok THEN TakeInterface(r[k - 1].store, d, seq[k]) ELSE r[k - 1]
    /\ TakeAll(s, d, seq) = r[Len(seq)]

LEMMA TakeAllSteps ==
    ASSUME NEW s, NEW d, NEW seq, Len(seq) \in Nat
    PROVE  \E r : OneByOne(s, d, seq, r)
  <1>. DEFINE Step(x, k) == IF x.ok THEN TakeInterface(x.store, d, seq[k]) ELSE x
              S == {n \in Nat : \E r : r = [k \in 0..n |-> IF k = 0 THEN Done(s) ELSE Step(r[k - 1], k)]}
  <1>1. 0 \in S
    <2>. DEFINE u == [k \in 0..0 |-> Done(s)]
    <2>1. u = [k \in 0..0 |-> IF k = 0 THEN Done(s) ELSE Step(u[k - 1], k)]
      OBVIOUS
    <2>. QED  BY <2>1
  <1>2. ASSUME NEW n \in Nat, n \in S PROVE n + 1 \in S
    <2>. HIDE DEF Step
    <2>1. PICK t : t = [k \in 0..n |-> IF k = 0 THEN Done(s) ELSE Step(t[k - 1], k)]
      BY <1>2
    <2>. DEFINE u == [k \in 0..(n + 1) |-> IF k = n + 1 THEN Step(t[n], n + 1) ELSE t[k]]
    <2>2. u = [k \in 0..(n + 1) |-> IF k = 0 THEN Done(s) ELSE Step(u[k - 1], k)]
      <3>1. ASSUME NEW k \in 0..(n + 1)
            PROVE  u[k] = IF k = 0 THEN Done(s) ELSE Step(u[k - 1], k)
        <4>1. CASE k = n + 1
          BY <4>1
        <4>2. CASE k = 0
          BY <2>1, <4>2
        <4>3. CASE k \in 1..n
          BY <2>1, <4>3
        <4>. QED  BY <4>1, <4>2, <4>3
      <3>. QED  BY <3>1
    <2>. HIDE DEF u
    <2>. QED  BY <2>2
  <1>. HIDE DEF S
  <1>3. Len(seq) \in S
    BY <1>1, <1>2, Induction
  <1>. DEFINE r == CHOOSE t : t = [k \in 0..Len(seq) |-> IF k = 0 THEN Done(s) ELSE Step(t[k - 1], k)]
  <1>4. r = [k \in 0..Len(seq) |-> IF k = 0 THEN Done(s) ELSE Step(r[k - 1], k)]
    <2>. HIDE DEF Step
    <2>. QED  BY <1>3 DEF S
  <1>5. TakeAll(s, d, seq) = r[Len(seq)]
    BY DEF TakeAll, InSequence, Then
  <1>. HIDE DEF r
  <1>6. OneByOne(s, d, seq, r)
    BY <1>4, <1>5 DEF OneByOne
  <1>. QED  BY <1>6

\* OwnInterfaces goes from interface to interface of the declaration.
InterfaceByInterface(s, d, r) ==
    /\ r[0] = Done(s)
    /\ \A k \in 1..Len(d.implements) :
          r[k] = IF r[k - 1].ok THEN DefineInterface(r[k - 1].store, d.name, d.implements[k])
                 ELSE r[k - 1]
    /\ OwnInterfaces(s, d) = r[Len(d.implements)]

LEMMA OwnInterfacesSteps ==
    ASSUME NEW s, NEW d, Len(d.implements) \in Nat
    PROVE  \E r : InterfaceByInterface(s, d, r)
  <1>. DEFINE Step(x, k) == IF x.ok THEN DefineInterface(x.store, d.name, d.implements[k]) ELSE x
              S == {n \in Nat : \E r : r = [k \in 0..n |-> IF k = 0 THEN Done(s) ELSE Step(r[k - 1], k)]}
  <1>1. 0 \in S
    <2>. DEFINE u == [k \in 0..0 |-> Done(s)]
    <2>1. u = [k \in 0..0 |-> IF k = 0 THEN Done(s) ELSE Step(u[k - 1], k)]
      OBVIOUS
    <2>. QED  BY <2>1
  <1>2. ASSUME NEW n \in Nat, n \in S PROVE n + 1 \in S
    <2>. HIDE DEF Step
    <2>1. PICK t : t = [k \in 0..n |-> IF k = 0 THEN Done(s) ELSE Step(t[k - 1], k)]
      BY <1>2
    <2>. DEFINE u == [k \in 0..(n + 1) |-> IF k = n + 1 THEN Step(t[n], n + 1) ELSE t[k]]
    <2>2. u = [k \in 0..(n + 1) |-> IF k = 0 THEN Done(s) ELSE Step(u[k - 1], k)]
      <3>1. ASSUME NEW k \in 0..(n + 1)
            PROVE  u[k] = IF k = 0 THEN Done(s) ELSE Step(u[k - 1], k)
        <4>1. CASE k = n + 1
          BY <4>1
        <4>2. CASE k = 0
          BY <2>1, <4>2
        <4>3. CASE k \in 1..n
          BY <2>1, <4>3
        <4>. QED  BY <4>1, <4>2, <4>3
      <3>. QED  BY <3>1
    <2>. HIDE DEF u
    <2>. QED  BY <2>2
  <1>. HIDE DEF S
  <1>3. Len(d.implements) \in S
    BY <1>1, <1>2, Induction
  <1>. DEFINE r == CHOOSE t : t = [k \in 0..Len(d.implements) |-> IF k = 0 THEN Done(s) ELSE Step(t[k - 1], k)]
  <1>4. r = [k \in 0..Len(d.implements) |-> IF k = 0 THEN Done(s) ELSE Step(r[k - 1], k)]
    <2>. HIDE DEF Step
    <2>. QED  BY <1>3 DEF S
  <1>5. OwnInterfaces(s, d) = r[Len(d.implements)]
    BY DEF OwnInterfaces, InSequence, Then
  <1>. HIDE DEF r
  <1>6. InterfaceByInterface(s, d, r)
    BY <1>4, <1>5 DEF InterfaceByInterface
  <1>. QED  BY <1>6

LEMMA BaseInterfacesIsGood ==
    ASSUME NEW c, NEW d, Declaring(c, d), NEW W, W \subseteq Classes, NEW s, Good(s, W)
    PROVE  Good(BaseInterfaces(s, d).store, W)
  <1>1. PICK entries : entries = IF d.base = NoClass THEN <<>> ELSE s.classes[d.base].implements
    OBVIOUS
  <1>2. Len(entries) \in Nat /\ DOMAIN entries = 1..Len(entries)
    <2>1. CASE d.base = NoClass
      BY <1>1, <2>1
    <2>2. CASE d.base # NoClass
      <3>1. d.base \in Classes
        BY <2>2, DeclarationIs
      <3>2. entries \in Seq(Implements)
        BY <1>1, <2>2, <3>1 DEF Good, Sound, IsStore, ClassInfos
      <3>. QED  BY <3>2
    <2>. QED  BY <2>1, <2>2
  <1>3. PICK seq : seq = [k \in DOMAIN entries |-> k]
    OBVIOUS
  <1>4. Len(seq) = Len(entries) /\ \A k \in 1..Len(seq) : seq[k] = k
    BY <1>2, <1>3
  <1>5. PICK r : OneByOne(s, d, seq, r)
    BY <1>2, <1>4, TakeAllSteps
  <1>6. /\ r[0] = Done(s)
        /\ \A k \in 1..Len(seq) :
              r[k] = IF r[k - 1].ok THEN TakeInterface(r[k - 1].store, d, k) ELSE r[k - 1]
        /\ TakeAll(s, d, seq) = r[Len(seq)]
    BY <1>4, <1>5 DEF OneByOne
  <1>. DEFINE S == {k \in 0..Len(seq) :
                 /\ Good(r[k].store, W)
                 /\ d.base # NoClass => Len(r[k].store.classes[d.base].implements) = Len(seq)}
  <1>7. 0 \in S
    BY <1>1, <1>2, <1>4, <1>6 DEF Done
  <1>8. ASSUME NEW k \in 0..(Len(seq) - 1), k \in S PROVE k + 1 \in S
    <2>1. k + 1 \in 1..Len(seq) /\ (k + 1) - 1 = k
      BY <1>2, <1>4
    <2>2. d.base # NoClass
      BY <1>1, <1>4, <2>1
    <2>3. PICK t : t = r[k].store
      OBVIOUS
    <2>4. Good(t, W) /\ k + 1 \in 1..Len(t.classes[d.base].implements)
      BY <1>8, <2>1, <2>2, <2>3
    <2>5. LET x == TakeInterface(t, d, k + 1) IN
          Good(x.store, W) /\ Len(x.store.classes[d.base].implements) = Len(t.classes[d.base].implements)
      BY <2>2, <2>4, TakeInterfaceIsGood
    <2>6. PICK x : x = TakeInterface(t, d, k + 1)
      OBVIOUS
    <2>7. r[k + 1] = x \/ r[k + 1] = r[k]
      BY <1>6, <2>1, <2>3, <2>6
    <2>8. Good(x.store, W) /\ Len(x.store.classes[d.base].implements) = Len(seq)
      BY <1>8, <2>2, <2>3, <2>5, <2>6
    <2>. QED  BY <1>8, <2>1, <2>7, <2>8
  <1>. HIDE DEF S
  <1>9. Len(seq) \in S
    BY <1>2, <1>4, <1>7, <1>8, InductionUpTo
  <1>10. BaseInterfaces(s, d) = TakeAll(s, d, seq)
    BY <1>1, <1>3 DEF BaseInterfaces, TakeAll
  <1>. QED  BY <1>6, <1>9, <1>10 DEF S

LEMMA OwnInterfacesIsGood ==
    ASSUME NEW c, NEW d, Declaring(c, d), NEW W, W \subseteq Classes, NEW s, Good(s, W)
    PROVE  Good(OwnInterfaces(s, d).store, W)
  <1>1. Attempting /\ Len(d.implements) \in Nat
    BY DeclarationIs DEF Declaring, ClassDeclarations
  <1>2. PICK r : InterfaceByInterface(s, d, r)
    BY <1>1, OwnInterfacesSteps
  <1>3. /\ r[0] = Done(s)
        /\ \A k \in 1..Len(d.implements) :
              r[k] = IF r[k - 1].ok THEN DefineInterface(r[k - 1].store, d.name, d.implements[k])
                     ELSE r[k - 1]
        /\ OwnInterfaces(s, d) = r[Len(d.implements)]
    BY <1>2 DEF InterfaceByInterface
  <1>. DEFINE S == {k \in 0..Len(d.implements) : Good(r[k].store, W)}
  <1>4. 0 \in S
    BY <1>1, <1>3 DEF Done
  <1>5. ASSUME NEW k \in 0..(Len(d.implements) - 1), k \in S PROVE k + 1 \in S
    <2>1. k + 1 \in 1..Len(d.implements) /\ (k + 1) - 1 = k
      BY <1>1
    <2>2. PICK t, i : t = r[k].store /\ i = d.implements[k + 1]
      OBVIOUS
    <2>3. LET x == DefineInterface(t, d.name, i) IN Good(x.store, W)
      BY <1>1, <1>5, <2>2, DefineInterfaceIsGood
    <2>4. r[k + 1] = IF r[k].ok THEN DefineInterface(t, d.name, i) ELSE r[k]
      BY <1>3, <2>1, <2>2
    <2>. QED  BY <1>1, <1>5, <2>1, <2>3, <2>4
  <1>. HIDE DEF S
  <1>6. Len(d.implements) \in S
    BY <1>1, <1>4, <1>5, InductionUpTo
  <1>. QED  BY <1>3, <1>6 DEF S

-----------------------------------------------------------------------------
(* The table of the class being generated.                                 *)

\* The state of the run, after the attempt.
Ended(s, W) ==
    /\ Sound(s, W)
    /\ FirstPass => AllIndicesOK(s, next + 1) /\ TablesOK(s, next + 1) /\ CallsOK(s, next + 1)

\* The table of the class is defined, and the classes and the calls stay.
TableDefined(s, t, c) ==
    /\ IsStore(t) /\ t.classes = s.classes /\ t.calls = s.calls
    /\ DOMAIN t.tables = DOMAIN s.tables \cup {<<c>>}
    /\ \A x \in DOMAIN t.tables : t.tables[x] = IF x = <<c>> THEN OwnTable(s.classes, c) ELSE s.tables[x]

LEMMA DefinedEnded ==
    ASSUME NEW c, NEW d, Declaring(c, d), ~d.abstract, NEW W, W \subseteq Classes,
           NEW s, Good(s, W), NEW t, TableDefined(s, t, c)
    PROVE  Ended(t, W)
  <1>1. IsStore(t) /\ t.classes = s.classes /\ t.calls = s.calls
    BY DEF TableDefined
  <1>2. Sound(t, W)
    BY <1>1 DEF Good, Sound
  <1>3. ASSUME FirstPass
        PROVE  AllIndicesOK(t, next + 1) /\ TablesOK(t, next + 1) /\ CallsOK(t, next + 1)
    <2>1. AllIndicesOK(s, next + 1) /\ TablesOK(s, next) /\ CallsOK(s, next + 1)
      BY <1>3 DEF Good, Ready
    <2>2. AllIndicesOK(t, next + 1) /\ CallsOK(t, next + 1)
      BY <1>1, <2>1 DEF AllIndicesOK, CallsOK
    <2>3. DeclaredBefore(next + 1) = DeclaredBefore(next) \cup {c} /\ c \notin DeclaredBefore(next)
          /\ ClassOf(c) = d
      BY DeclarationIs
    <2>4. \A x, y : <<x>> = <<y>> => x = y
      OBVIOUS
    <2>5. ASSUME NEW e \in ClassesOf
          PROVE  IF e \in DeclaredBefore(next + 1)
                 THEN ~ClassOf(e).abstract =>
                         <<e>> \in DOMAIN t.tables /\ t.tables[<<e>>] = OwnTable(t.classes, e)
                 ELSE <<e>> \notin DOMAIN t.tables
      <3>1. CASE e = c
        BY <1>1, <2>3, <3>1 DEF TableDefined
      <3>2. CASE e # c
        <4>1. <<e>> # <<c>>
          BY <2>4, <3>2
        <4>2. e \in DeclaredBefore(next + 1) <=> e \in DeclaredBefore(next)
          BY <2>3, <3>2
        <4>3. <<e>> \in DOMAIN t.tables <=> <<e>> \in DOMAIN s.tables
          BY <4>1 DEF TableDefined
        <4>4. <<e>> \in DOMAIN s.tables => t.tables[<<e>>] = s.tables[<<e>>]
          BY <4>1, <4>3 DEF TableDefined
        <4>. QED  BY <1>1, <2>1, <4>2, <4>3, <4>4 DEF TablesOK
      <3>. QED  BY <3>1, <3>2
    <2>. QED  BY <2>2, <2>5 DEF TablesOK
  <1>. QED  BY <1>2, <1>3 DEF Ended

LEMMA AbstractEnded ==
    ASSUME NEW c, NEW d, Declaring(c, d), d.abstract, NEW W, NEW s, Good(s, W)
    PROVE  Ended(s, W)
  <1>1. DeclaredBefore(next + 1) = DeclaredBefore(next) \cup {c} /\ ClassOf(c) = d
    BY DeclarationIs
  <1>2. FirstPass => TablesOK(s, next + 1)
    BY <1>1 DEF Good, Ready, TablesOK
  <1>. QED  BY <1>2 DEF Good, Ready, Ended

LEMMA ClassTableIs ==
    ASSUME NEW c, NEW d, Declaring(c, d), NEW W, W \subseteq Classes, NEW s, Good(s, W),
           NEW r, r = ClassTable(s, d)
    PROVE  Sound(r.store, W) /\ (r.ok => Ended(r.store, W))
  <1>1. CASE d.abstract
    <2>1. r = Done(s)
      BY <1>1 DEF ClassTable
    <2>2. Ended(s, W)
      BY <1>1, AbstractEnded
    <2>. QED  BY <2>1, <2>2 DEF Done, Good
  <1>2. CASE ~d.abstract
    <2>1. PICK t, table : t = PrepareTable(s, c) /\ table = OwnTable(t.classes, c)
      OBVIOUS
    <2>2. PICK u, v : u = Emit(t, <<c>>) /\ v = Defined(t, <<c>>, table)
      OBVIOUS
    <2>3. Attempting /\ c = d.name
      BY DEF Declaring
    <2>4. Good(t, W)
      BY <2>1, <2>3, GoodIsNearly, PrepareIsGood
    <2>5. IsStore(t)
      BY <2>4 DEF Good, Sound
    <2>6. /\ r = IF <<c>> \in DOMAIN t.tables THEN Done(t) ELSE DefineTable(t, c, table)
          /\ DefineTable(t, c, table) = Failed(u) \/ DefineTable(t, c, table) = Done(v)
      BY <1>2, <2>1, <2>2, <2>3 DEF ClassTable, LayOut, DefineTable
    <2>7. Sound(u, W)
      <3>1. IsStore(u) /\ u.classes = t.classes
        BY <2>2, <2>5 DEF Emit, IsStore
      <3>. QED  BY <2>4, <3>1 DEF Good, Sound
    <2>8. Ended(v, W)
      <3>1. v.tables = [x \in DOMAIN t.tables \cup {<<c>>} |-> IF x = <<c>> THEN table ELSE t.tables[x]]
        BY <2>2, <2>5 DEF Defined, Emit, IsStore
      <3>2. IsStore(v) /\ v.classes = t.classes /\ v.calls = t.calls
        BY <2>2, <2>5 DEF Defined, Emit, IsStore
      <3>3. TableDefined(t, v, c)
        BY <2>1, <3>1, <3>2 DEF TableDefined
      <3>. QED  BY <1>2, <2>4, <3>3, DefinedEnded
    <2>9. CASE <<c>> \in DOMAIN t.tables
      <3>1. ~FirstPass
        <4>1. c \in ClassesOf /\ c \notin DeclaredBefore(next)
          BY DeclarationIs
        <4>. QED  BY <2>4, <2>9, <4>1 DEF Good, Ready, TablesOK
      <3>2. Ended(t, W)
        BY <2>4, <3>1 DEF Good, Ended
      <3>. QED  BY <2>6, <2>9, <3>2 DEF Done, Ended
    <2>10. CASE <<c>> \notin DOMAIN t.tables
      BY <2>6, <2>7, <2>8, <2>10 DEF Done, Failed, Ended
    <2>. QED  BY <2>9, <2>10
  <1>. QED  BY <1>1, <1>2

LEMMA ClassGeneratedIs ==
    ASSUME NEW c, NEW d, Declaring(c, d), NEW W, W \subseteq Classes, FirstPass => c \in W,
           NEW s, Started(s, W), NEW r, r = ClassGenerated(s, d)
    PROVE  Sound(r.store, W) /\ (r.ok => Ended(r.store, W \cup {c}))
  <1>1. PICK r1 : r1 = Heritage(s, d)
    OBVIOUS
  <1>2. PICK t1 : t1 = PrepareTable(r1.store, d.name)
    OBVIOUS
  <1>3. PICK r2 : r2 = IF r1.ok THEN Members(t1, d) ELSE r1
    OBVIOUS
  <1>4. PICK r3 : r3 = IF r2.ok THEN BaseInterfaces(r2.store, d) ELSE r2
    OBVIOUS
  <1>5. PICK r4 : r4 = IF r3.ok THEN OwnInterfaces(r3.store, d) ELSE r3
    OBVIOUS
  <1>6. r = IF r4.ok THEN ClassTable(r4.store, d) ELSE r4
    BY <1>1, <1>2, <1>3, <1>4, <1>5 DEF ClassGenerated, Then
  <1>7. PICK V : V = W \cup {c}
    OBVIOUS
  <1>8. c = d.name /\ V \subseteq Classes /\ W \subseteq V /\ (\A t : Sound(t, V) => Sound(t, W))
    BY <1>7, DeclarationIs DEF Declaring, Sound
  <1>9. Nearly(r1.store, W) /\ (r1.ok => r1.store.classes[c].base = d.base)
    BY <1>1, HeritageIsNearly
  <1>10. CASE ~r1.ok
    <2>1. r = r1
      BY <1>3, <1>4, <1>5, <1>6, <1>10
    <2>. QED  BY <1>9, <1>10, <2>1 DEF Nearly
  <1>11. CASE r1.ok
    <2>1. Good(t1, W) /\ t1.classes[c].base = d.base
      <3>1. PICK t : t = r1.store
        OBVIOUS
      <3>. QED  BY <1>2, <1>8, <1>9, <1>11, <3>1, PrepareIsGood
    <2>2. r2 = Members(t1, d)
      BY <1>3, <1>11
    <2>3. Good(r2.store, W) /\ (r2.ok => Good(r2.store, V))
      BY <1>7, <2>1, <2>2, MembersIsGood
    <2>4. CASE ~r2.ok
      <3>1. r = r2
        BY <1>4, <1>5, <1>6, <2>4
      <3>. QED  BY <2>3, <2>4, <3>1 DEF Good
    <2>5. CASE r2.ok
      <3>1. PICK t2, t3, t4 : t2 = r2.store /\ t3 = r3.store /\ t4 = r4.store
        OBVIOUS
      <3>2. Good(t3, V)
        BY <1>4, <1>8, <2>3, <2>5, <3>1, BaseInterfacesIsGood
      <3>3. Good(t4, V)
        BY <1>5, <1>8, <3>1, <3>2, OwnInterfacesIsGood
      <3>4. CASE ~r4.ok
        BY <1>6, <1>8, <3>1, <3>3, <3>4 DEF Good
      <3>5. CASE r4.ok
        <4>1. r = ClassTable(t4, d)
          BY <1>6, <3>1, <3>5
        <4>2. Sound(r.store, V) /\ (r.ok => Ended(r.store, V))
          BY <1>8, <3>3, <4>1, ClassTableIs
        <4>. QED  BY <1>7, <1>8, <4>2
      <3>. QED  BY <3>4, <3>5
    <2>. QED  BY <2>4, <2>5
  <1>. QED  BY <1>10, <1>11

-----------------------------------------------------------------------------
(* The invariant is inductive.                                             *)

\* The conditions speak of the program, which no step changes.
LEMMA SameProgram ==
    ASSUME program' = program
    PROVE  /\ Declared' = Declared /\ ClassesOf' = ClassesOf
           /\ \A c : ClassOf(c)' = ClassOf(c)
           /\ \A k : DeclaredBefore(k)' = DeclaredBefore(k)
           /\ Orderly' <=> Orderly
  <1>1. Declared' = Declared
    BY DEF Declared
  <1>2. ClassesOf' = ClassesOf
    BY <1>1 DEF ClassesOf
  <1>3. \A c : ClassOf(c)' = ClassOf(c)
    BY <1>1 DEF ClassOf
  <1>4. \A k : DeclaredBefore(k)' = DeclaredBefore(k)
    BY <1>1 DEF DeclaredBefore
  <1>5. DeclaresFirst' <=> DeclaresFirst
    BY <1>1, <1>4 DEF DeclaresFirst
  <1>6. NamesApart' <=> NamesApart
    BY <1>2, <1>3 DEF NamesApart
  <1>. QED  BY <1>1, <1>2, <1>3, <1>4, <1>5, <1>6 DEF Orderly

LEMMA SameConditions ==
    ASSUME program' = program
    PROVE  /\ \A s, W : Sound(s, W) => Sound(s, W)'
           /\ \A s, n : AllIndicesOK(s, n) => AllIndicesOK(s, n)'
           /\ \A s, n : TablesOK(s, n) => TablesOK(s, n)'
           /\ \A s, n : CallsOK(s, n) => CallsOK(s, n)'
  <1>1. \A c : DeclaredBase(c)' = DeclaredBase(c) /\ DeclaredMethods(c)' = DeclaredMethods(c)
    BY SameProgram DEF DeclaredBase, DeclaredMethods
  <1>2. \A s, W : Sound(s, W) => Sound(s, W)'
    BY <1>1 DEF Sound, ClassesOK, Whole
  <1>3. \A s, n : AllIndicesOK(s, n) => AllIndicesOK(s, n)'
    BY SameProgram DEF AllIndicesOK
  <1>4. \A s, n : TablesOK(s, n) => TablesOK(s, n)'
    <2>1. ASSUME NEW s, NEW n, TablesOK(s, n), NEW c \in ClassesOf'
          PROVE  IF c \in DeclaredBefore(n)'
                 THEN ~ClassOf(c)'.abstract =>
                         <<c>> \in DOMAIN s.tables /\ s.tables[<<c>>] = OwnTable(s.classes, c)
                 ELSE <<c>> \notin DOMAIN s.tables
      <3>1. c \in ClassesOf /\ ClassOf(c)' = ClassOf(c) /\ DeclaredBefore(n)' = DeclaredBefore(n)
        BY <2>1, SameProgram
      <3>. QED  BY <2>1, <3>1 DEF TablesOK
    <2>. QED  BY <2>1 DEF TablesOK
  <1>5. \A s, n : CallsOK(s, n) => CallsOK(s, n)'
    BY SameProgram DEF CallsOK
  <1>. QED  BY <1>2, <1>3, <1>4, <1>5

\* The state a step leads to.
LEMMA VInvPrimed ==
    ASSUME program' = program, StateTypes', Orderly => Passes',
           NEW s, s = store', NEW n, n = next', NEW W, W = Discovered',
           Orderly => Sound(s, W),
           Orderly /\ FirstPass' => AllIndicesOK(s, n) /\ TablesOK(s, n) /\ CallsOK(s, n)
    PROVE  VInv'
  <1>1. Orderly' <=> Orderly
    BY SameProgram
  <1>2. Orderly => Sound(store, Discovered)'
    <2>1. Orderly => Sound(s, W)'
      BY SameConditions
    <2>. QED  BY <2>1 DEF Sound
  <1>3. Orderly /\ FirstPass' => AllIndicesOK(store, next)' /\ TablesOK(store, next)' /\ CallsOK(store, next)'
    <2>1. Orderly /\ FirstPass' => AllIndicesOK(s, n)' /\ TablesOK(s, n)' /\ CallsOK(s, n)'
      BY SameConditions
    <2>. QED  BY <2>1 DEF AllIndicesOK, TablesOK, CallsOK
  <1>. QED  BY <1>1, <1>2, <1>3 DEF VInv

LEMMA InitVInv == Init => VInv
  <1>. SUFFICES ASSUME Init PROVE VInv
    OBVIOUS
  <1>1. StateTypes
    <2>1. program \in Programs /\ Len(program) \in Nat
      BY ProgramIs DEF Init
    <2>. QED  BY <2>1 DEF Init, StateTypes
  <1>2. Passes
    BY DEF Init, Passes
  <1>3. ~FirstPass /\ Discovered = {}
    BY DEF Init, FirstPass, Discovered
  <1>4. NoInfo \in ClassInfos /\ NoInfo.base = NoClass /\ NoInfo.methods = <<>> /\ NoInfo.compiled = {}
    BY DEF NoInfo, ClassInfos
  <1>5. store.classes = [c \in Classes |-> NoInfo] /\ IsStore(store)
    BY <1>4 DEF Init, EmptyStore, IsStore
  <1>6. ClassesOK(store.classes)
    BY <1>4, <1>5 DEF ClassesOK
  <1>. QED  BY <1>1, <1>2, <1>3, <1>5, <1>6 DEF VInv, Sound

LEMMA DiscoveredIs ==
    ASSUME StateTypes
    PROVE  /\ Discovered \subseteq ClassesOf /\ Discovered \subseteq Classes
           /\ run \in {"generate", "done"} => Discovered = ClassesOf
  <1>1. \A k \in Declared : program[k].name \in Classes
    BY ProgramIs DEF StateTypes, ClassDeclarations
  <1>. QED  BY <1>1 DEF Discovered, ClassesOf

\* The class that an attempt adds to those the discovery run has ended.
NewClass(ok) == IF ok /\ next \in Declared THEN {program[next].name} ELSE {}

LEMMA AttemptIs ==
    ASSUME VInv, Trying, NEW result, Attempt(result)
    PROVE  /\ program' = program /\ store' = result.store /\ next' = next + 1
           /\ StateTypes' /\ (Orderly => Passes')
           /\ FirstPass' => FirstPass /\ result.ok
           /\ Discovered' \subseteq Discovered \cup NewClass(result.ok)
  <1>1. /\ StateTypes /\ (Orderly => Passes) /\ Len(program) \in Nat /\ DOMAIN program = 1..Len(program)
        /\ next \in 1..Len(program) /\ run \in {"discover", "generate"}
    BY ProgramIs DEF VInv, Trying, Generating, StateTypes
  <1>2. /\ program' = program /\ run' = run /\ lastTime' = lastTime
        /\ store' = result.store /\ next' = next + 1
        /\ \/ result.ok /\ processed' = processed \cup {next} /\ notResolved' = notResolved
           \/ ~result.ok /\ processed' = processed /\ notResolved' = notResolved + 1
    BY DEF Attempt
  <1>3. StateTypes'
    BY <1>1, <1>2 DEF StateTypes
  <1>4. Orderly => Passes'
    <2>1. processed \subseteq processed' /\ processed' \subseteq processed \cup {next}
      BY <1>2
    <2>2. notResolved' = 0 => notResolved = 0 /\ processed' = processed \cup {next}
      BY <1>1, <1>2 DEF StateTypes
    <2>3. \A k \in processed : k \in Nat
      BY <1>1 DEF StateTypes
    <2>. QED  BY <1>1, <1>2, <2>1, <2>2, <2>3 DEF Passes
  <1>5. FirstPass' => FirstPass /\ result.ok
    BY <1>1, <1>2 DEF FirstPass, StateTypes
  <1>6. Discovered' \subseteq Discovered \cup NewClass(result.ok)
    <2>1. CASE run = "generate"
      <3>1. Discovered' = Discovered
        BY <1>2, <2>1 DEF Discovered, Declared
      <3>. QED  BY <3>1
    <2>2. CASE run = "discover"
      <3>1. Declared' = Declared
        BY <1>2, SameProgram
      <3>2. ASSUME NEW k \in Declared, k \in processed'
            PROVE  program[k].name \in Discovered \cup NewClass(result.ok)
        <4>1. CASE k \in processed
          BY <2>2, <3>2, <4>1 DEF Discovered
        <4>2. CASE k \notin processed
          BY <1>2, <3>2, <4>2 DEF NewClass
        <4>. QED  BY <4>1, <4>2
      <3>3. Discovered' = {program[k].name : k \in {j \in Declared : j \in processed'}}
        BY <1>2, <2>2, <3>1 DEF Discovered
      <3>. QED  BY <3>2, <3>3
    <2>. QED  BY <1>1, <2>1, <2>2
  <1>. QED  BY <1>2, <1>3, <1>4, <1>5, <1>6

\* What is left to show of an attempt.
LEMMA AttemptKeeps ==
    ASSUME VInv, Trying, NEW result, Attempt(result),
           Orderly => Sound(result.store, Discovered),
           Orderly /\ result.ok => Ended(result.store, Discovered \cup NewClass(result.ok))
    PROVE  VInv'
  <1>1. PICK s, n, W : s = store' /\ n = next' /\ W = Discovered'
    OBVIOUS
  <1>2. /\ program' = program /\ s = result.store /\ n = next + 1
        /\ StateTypes' /\ (Orderly => Passes')
        /\ FirstPass' => FirstPass /\ result.ok
        /\ W \subseteq Discovered \cup NewClass(result.ok)
    BY <1>1, AttemptIs
  <1>3. Orderly => Sound(s, W)
    <2>1. CASE result.ok
      BY <1>2, <2>1 DEF Ended, Sound
    <2>2. CASE ~result.ok
      <3>1. NewClass(result.ok) = {}
        BY <2>2 DEF NewClass
      <3>. QED  BY <1>2, <3>1 DEF Sound
    <2>. QED  BY <2>1, <2>2
  <1>4. Orderly /\ FirstPass' => AllIndicesOK(s, n) /\ TablesOK(s, n) /\ CallsOK(s, n)
    BY <1>2 DEF Ended
  <1>. QED  BY <1>1, <1>2, <1>3, <1>4, VInvPrimed

LEMMA TryingIs ==
    ASSUME VInv, Orderly, Trying
    PROVE  /\ Attempting /\ Started(store, Discovered) /\ Discovered \subseteq Classes
           /\ program[next].kind # "class" => next \notin Declared
                 /\ DeclaredBefore(next + 1) = DeclaredBefore(next)
           /\ FirstPass => Discovered = ClassesOf
  <1>1. StateTypes /\ program \in Programs /\ next \in 1..Len(program)
    BY DEF VInv, StateTypes, Trying
  <1>2. Attempting
    BY <1>1 DEF Attempting
  <1>3. Started(store, Discovered)
    BY DEF VInv, Started
  <1>4. program[next].kind # "class" => next \notin Declared
                                         /\ DeclaredBefore(next + 1) = DeclaredBefore(next)
    BY <1>1, NextDeclared DEF Declared
  <1>. QED  BY <1>1, <1>2, <1>3, <1>4, DiscoveredIs DEF FirstPass

LEMMA GenerateInterfaceKeeps == VInv /\ GenerateInterface => VInv'
  <1>. SUFFICES ASSUME VInv, GenerateInterface PROVE VInv'
    OBVIOUS
  <1>1. PICK result, d : result = InterfaceGenerated(store, d) /\ d = program[next]
    OBVIOUS
  <1>2. Trying /\ d.kind = "interface" /\ Attempt(result)
    BY <1>1 DEF GenerateInterface, Statement
  <1>3. PICK t, W : t = result.store /\ W = Discovered
    OBVIOUS
  <1>4. ASSUME Orderly PROVE Sound(t, W) /\ Ended(t, W) /\ NewClass(result.ok) = {}
    <2>1. /\ Started(store, W) /\ next \notin Declared
          /\ DeclaredBefore(next + 1) = DeclaredBefore(next)
      BY <1>1, <1>2, <1>3, <1>4, TryingIs
    <2>2. IsStore(store)
      BY <2>1 DEF Started, Sound
    <2>3. \E types, ifs : t = [store EXCEPT !.types = types, !.interfaces = ifs]
      BY <1>1, <1>3 DEF InterfaceGenerated
    <2>4. IsStore(t) /\ t.classes = store.classes /\ t.tables = store.tables /\ t.calls = store.calls
      BY <2>2, <2>3 DEF IsStore
    <2>5. Sound(t, W)
      BY <2>1, <2>4 DEF Started, Sound
    <2>6. FirstPass => AllIndicesOK(t, next + 1) /\ TablesOK(t, next + 1) /\ CallsOK(t, next + 1)
      BY <2>1, <2>4 DEF Started, AllIndicesOK, TablesOK, CallsOK
    <2>. QED  BY <2>1, <2>5, <2>6 DEF Ended, NewClass
  <1>. QED  BY <1>2, <1>3, <1>4, AttemptKeeps

LEMMA GenerateFunctionKeeps == VInv /\ GenerateFunction => VInv'
  <1>. SUFFICES ASSUME VInv, GenerateFunction PROVE VInv'
    OBVIOUS
  <1>1. PICK result, b : result = Body(store, b) /\ b = program[next]
    OBVIOUS
  <1>2. Trying /\ b.kind = "function" /\ Attempt(result)
    BY <1>1 DEF GenerateFunction, Statement
  <1>3. PICK s, t, W : s = store /\ t = result.store /\ W = Discovered
    OBVIOUS
  <1>4. ASSUME Orderly PROVE Sound(t, W) /\ Ended(t, W) /\ NewClass(result.ok) = {}
    <2>1. /\ Attempting /\ Started(s, W) /\ W \subseteq Classes /\ next \notin Declared
          /\ DeclaredBefore(next + 1) = DeclaredBefore(next)
      BY <1>1, <1>2, <1>3, <1>4, TryingIs
    <2>2. Good(s, W)
      BY <2>1 DEF Started, Good, Ready, AllIndicesOK, CallsOK
    <2>3. next \in DOMAIN program /\ b \in FunctionDeclarations
      <3>1. next \in 1..Len(program) /\ DOMAIN program = 1..Len(program)
            /\ program[next] \in ClassDeclarations \cup InterfaceDeclarations \cup FunctionDeclarations
        BY <2>1, ProgramIs DEF Attempting, StateTypes
      <3>. QED  BY <1>1, <1>2, <3>1 DEF ClassDeclarations, InterfaceDeclarations
    <2>4. b.calls \in Seq(Calls)
      BY <2>3 DEF FunctionDeclarations
    <2>5. \A e \in ToSet(b.calls) : e.how = "method" => e.on \in DeclaredBefore(next + 1)
      BY <1>1, <1>2, <2>1, <2>3 DEF Attempting, Orderly, DeclaresFirst, CallsIn
    <2>6. Good(t, W)
      BY <1>1, <1>3, <2>1, <2>2, <2>4, <2>5, BodyIsGood
    <2>7. Ended(t, W)
      BY <2>1, <2>6 DEF Good, Ready, Ended, TablesOK
    <2>. QED  BY <2>1, <2>6, <2>7 DEF Good, NewClass
  <1>. QED  BY <1>2, <1>3, <1>4, AttemptKeeps

LEMMA GenerateClassKeeps == VInv /\ GenerateClass => VInv'
  <1>. SUFFICES ASSUME VInv, GenerateClass PROVE VInv'
    OBVIOUS
  <1>1. PICK result, d : result = ClassGenerated(store, d) /\ d = program[next]
    OBVIOUS
  <1>2. Trying /\ d.kind = "class" /\ Attempt(result)
    BY <1>1 DEF GenerateClass, Statement
  <1>3. PICK s, t, W, c : s = store /\ t = result.store /\ W = Discovered /\ c = d.name
    OBVIOUS
  <1>4. ASSUME Orderly
        PROVE  Sound(t, W) /\ (result.ok => Ended(t, W \cup NewClass(result.ok)))
    <2>1. Attempting /\ Started(s, W) /\ W \subseteq Classes /\ (FirstPass => W = ClassesOf)
      BY <1>2, <1>3, <1>4, TryingIs
    <2>2. Declaring(c, d)
      BY <1>1, <1>2, <1>3, <2>1 DEF Declaring
    <2>3. next \in Declared /\ c \in ClassesOf
      BY <2>2, DeclarationIs
    <2>4. Sound(t, W) /\ (result.ok => Ended(t, W \cup {c}))
      BY <1>1, <1>3, <2>1, <2>2, <2>3, ClassGeneratedIs
    <2>. QED  BY <1>1, <1>3, <2>3, <2>4 DEF NewClass
  <1>. QED  BY <1>2, <1>3, <1>4, AttemptKeeps

\* A step that leaves the store, and what is known to be in it.
LEMMA StoreKeeps ==
    ASSUME VInv, program' = program, store' = store, StateTypes', Orderly => Passes',
           Discovered' \subseteq Discovered, Orderly /\ FirstPass' => FirstPass /\ next' = next
    PROVE  VInv'
  <1>1. PICK s, n, W : s = store' /\ n = next' /\ W = Discovered'
    OBVIOUS
  <1>2. Orderly => Sound(s, W)
    BY <1>1 DEF VInv, Sound
  <1>3. Orderly /\ FirstPass' => AllIndicesOK(s, n) /\ TablesOK(s, n) /\ CallsOK(s, n)
    BY <1>1 DEF VInv
  <1>. QED  BY <1>1, <1>2, <1>3, VInvPrimed

LEMMA PassesKeep ==
    VInv /\ (SkipProcessed \/ RepeatPass \/ GiveUp \/ EndGeneration \/ UNCHANGED vars) => VInv'
  <1>. SUFFICES ASSUME VInv, SkipProcessed \/ RepeatPass \/ GiveUp \/ EndGeneration \/ UNCHANGED vars
                PROVE  VInv'
    OBVIOUS
  <1>1. /\ StateTypes /\ (Orderly => Passes) /\ Len(program) \in Nat /\ DOMAIN program = 1..Len(program)
    BY ProgramIs DEF VInv, StateTypes
  <1>2. program' = program /\ store' = store
    BY DEF SkipProcessed, RepeatPass, GiveUp, EndGeneration, vars, passVars
  <1>3. CASE SkipProcessed
    <2>1. StateTypes'
      BY <1>1, <1>3 DEF SkipProcessed, StateTypes
    <2>2. Orderly => Passes' /\ ~FirstPass'
      BY <1>1, <1>3 DEF SkipProcessed, StateTypes, Passes, FirstPass, Generating
    <2>3. Discovered' = Discovered
      BY <1>3, SameProgram DEF SkipProcessed, Discovered
    <2>. QED  BY <1>2, <2>1, <2>2, <2>3, StoreKeeps
  <1>4. CASE RepeatPass
    <2>1. StateTypes'
      BY <1>1, <1>4 DEF RepeatPass, NewPass, StateTypes
    <2>2. Passes' /\ ~FirstPass'
      BY <1>1, <1>4 DEF RepeatPass, NewPass, StateTypes, Passes, FirstPass, PassEnded, Generating
    <2>3. Discovered' = Discovered
      BY <1>4, SameProgram DEF RepeatPass, Discovered
    <2>. QED  BY <1>2, <2>1, <2>2, <2>3, StoreKeeps
  <1>5. CASE GiveUp
    <2>1. StateTypes'
      BY <1>1, <1>5 DEF GiveUp, passVars, StateTypes
    <2>2. (Orderly => Passes') /\ ~FirstPass'
      BY <1>1, <1>5 DEF GiveUp, passVars, StateTypes, Passes, FirstPass, Stuck
    <2>3. Discovered' = {}
      BY <1>5 DEF GiveUp, Discovered
    <2>. QED  BY <1>2, <2>1, <2>2, <2>3, StoreKeeps
  <1>6. CASE EndGeneration
    <2>1. StateTypes'
      BY <1>1, <1>6 DEF EndGeneration, passVars, StateTypes
    <2>2. Orderly => Passes'
      BY <1>1, <1>6 DEF EndGeneration, passVars, StateTypes, Passes, PassEnded
    <2>3. FirstPass' => FirstPass /\ next' = next
      BY <1>6 DEF EndGeneration, passVars, FirstPass
    <2>4. Discovered' \subseteq Discovered
      <3>1. Discovered' \subseteq {program[k].name : k \in Declared}
        BY <1>2, SameProgram DEF Discovered
      <3>2. Discovered = ClassesOf
        BY <1>1, <1>6, DiscoveredIs DEF EndGeneration
      <3>. QED  BY <3>1, <3>2 DEF ClassesOf
    <2>. QED  BY <1>2, <2>1, <2>2, <2>3, <2>4, StoreKeeps
  <1>7. CASE UNCHANGED vars
    <2>1. StateTypes' /\ (Orderly => Passes')
      BY <1>1, <1>7 DEF vars, StateTypes, Passes
    <2>2. FirstPass' => FirstPass /\ next' = next
      BY <1>7 DEF vars, FirstPass
    <2>3. Discovered' = Discovered
      BY <1>7, SameProgram DEF vars, Discovered
    <2>. QED  BY <1>2, <2>1, <2>2, <2>3, StoreKeeps
  <1>. QED  BY <1>3, <1>4, <1>5, <1>6, <1>7

LEMMA EndDiscoveryKeeps == VInv /\ EndDiscovery => VInv'
  <1>. SUFFICES ASSUME VInv, EndDiscovery PROVE VInv'
    OBVIOUS
  <1>1. PICK s, n, W : s = store' /\ n = next' /\ W = Discovered'
    OBVIOUS
  <1>2. /\ StateTypes /\ Len(program) \in Nat /\ DOMAIN program = 1..Len(program)
        /\ (\A k \in Declared : k \in 1..Len(program))
    BY ProgramIs DEF VInv, StateTypes
  <1>3. /\ program' = program /\ n = 1 /\ run = "discover" /\ notResolved = 0
        /\ next > Len(program)
        /\ s = [store EXCEPT !.tables = <<>>, !.emitted = {}, !.redefined = {}, !.calls = {}]
    BY <1>1 DEF EndDiscovery, NewPass, PassEnded
  <1>4. StateTypes' /\ Passes'
    BY <1>2 DEF EndDiscovery, NewPass, StateTypes, Passes
  <1>5. W \subseteq ClassesOf
    <2>1. W \subseteq {program[k].name : k \in Declared}
      BY <1>1, <1>3, SameProgram DEF Discovered
    <2>. QED  BY <2>1 DEF ClassesOf
  <1>6. ASSUME Orderly
        PROVE  Sound(s, W) /\ AllIndicesOK(s, n) /\ TablesOK(s, n) /\ CallsOK(s, n)
    <2>1. Sound(store, Discovered) /\ Passes
      BY <1>6 DEF VInv
    <2>2. Discovered = ClassesOf
      <3>1. \A k \in Declared : k \in processed
        BY <1>2, <1>3, <2>1 DEF Passes, StateTypes
      <3>. QED  BY <1>3, <3>1 DEF Discovered, ClassesOf
    <2>3. IsStore(s) /\ s.classes = store.classes /\ s.tables = <<>> /\ s.calls = {}
      BY <1>3, <2>1 DEF Sound, IsStore
    <2>4. Sound(s, W)
      BY <1>5, <2>1, <2>2, <2>3 DEF Sound
    <2>5. DeclaredBefore(n) = {}
      BY <1>2, <1>3 DEF DeclaredBefore
    <2>6. AllIndicesOK(s, n) /\ CallsOK(s, n)
      BY <2>3, <2>5 DEF AllIndicesOK, CallsOK
    <2>7. TablesOK(s, n)
      BY <2>3, <2>5 DEF TablesOK
    <2>. QED  BY <2>4, <2>6, <2>7
  <1>. QED  BY <1>1, <1>3, <1>4, <1>6, VInvPrimed

LEMMA VInvInductive == VInv /\ [Next]_vars => VInv'
  BY GenerateInterfaceKeeps, GenerateFunctionKeeps, GenerateClassKeeps, PassesKeep, EndDiscoveryKeeps
     DEF Next, Terminated

-----------------------------------------------------------------------------
(* When the run is done, the store has what the program declares.          *)

DeclaredInfo == [c \in Classes |-> IF c \in ClassesOf THEN ClassOf(c) ELSE NoInfo]

LEMMA SameChains ==
    ASSUME NEW cls, NEW new, NEW rank, NEW n, Hierarchy(cls, rank, n), Hierarchy(new, rank, n),
           \A c \in Classes : new[c].base = cls[c].base
    PROVE  \A c \in Classes : Chain(new)[c] = Chain(cls)[c]
  <1>. DEFINE P == {c \in Classes : Chain(new)[c] = Chain(cls)[c]}
  <1>1. ASSUME NEW c \in Classes, cls[c].base # NoClass => cls[c].base \in P
        PROVE  c \in P
    <2>1. Chain(cls)[c] = <<c>> \o (IF cls[c].base = NoClass THEN <<>> ELSE Chain(cls)[cls[c].base])
      BY ChainIs
    <2>2. Chain(new)[c] = <<c>> \o (IF new[c].base = NoClass THEN <<>> ELSE Chain(new)[new[c].base])
      BY ChainIs
    <2>. QED  BY <1>1, <2>1, <2>2
  <1>. HIDE DEF P
  <1>2. \A c \in Classes : c \in P
    BY <1>1, HierarchyInduction
  <1>. QED  BY <1>2 DEF P

\* The classes of a chain are all declared.
LEMMA ChainDeclared ==
    ASSUME program \in Programs, DeclaresFirst, NEW cls, NEW n, Hierarchy(cls, Rank, n),
           \A c \in Classes : cls[c].base \in {NoClass, DeclaredBase(c)}
    PROVE  \A c \in Classes : c \in ClassesOf =>
              \A i \in 1..Len(Chain(cls)[c]) : Chain(cls)[c][i] \in ClassesOf
  <1>. DEFINE P == {c \in Classes : c \in ClassesOf =>
                       \A i \in 1..Len(Chain(cls)[c]) : Chain(cls)[c][i] \in ClassesOf}
  <1>1. ASSUME NEW c \in Classes, cls[c].base # NoClass => cls[c].base \in P
        PROVE  c \in P
    <2>. SUFFICES ASSUME c \in ClassesOf
                  PROVE  \A i \in 1..Len(Chain(cls)[c]) : Chain(cls)[c][i] \in ClassesOf
      OBVIOUS
    <2>1. PICK rest : rest = IF cls[c].base = NoClass THEN <<>> ELSE Chain(cls)[cls[c].base]
      OBVIOUS
    <2>2. Chain(cls)[c] = <<c>> \o rest
      BY <2>1, ChainIs
    <2>3. cls[c].base # NoClass => cls[c].base \in Classes /\ cls[c].base \in ClassesOf
      <3>1. Len(program) \in Nat /\ c \in DeclaredBefore(Len(program) + 1)
            /\ DeclaredBefore(Len(program) + 1) = ClassesOf
        BY ProgramIs, AllDeclared
      <3>2. Len(program) + 1 \in Int
        BY <3>1
      <3>3. DeclaredBase(c) \in ClassesOf \cup {NoClass}
        BY <3>1, <3>2, BasesBefore
      <3>. QED  BY <3>3 DEF Hierarchy
    <2>4. rest \in Seq(Classes)
      BY <2>1, <2>3, ChainTypes
    <2>5. \A i \in 1..Len(rest) : rest[i] \in ClassesOf
      BY <1>1, <2>1, <2>3
    <2>6. ASSUME NEW i \in 1..Len(<<c>> \o rest) PROVE (<<c>> \o rest)[i] \in ClassesOf
      <3>1. <<c>> \in Seq(Classes) /\ Len(<<c>>) = 1 /\ <<c>>[1] = c
        OBVIOUS
      <3>2. PICK head : head = <<c>>
        OBVIOUS
      <3>3. \/ i \in 1..Len(head) /\ (head \o rest)[i] = head[i]
            \/ \E j \in 1..Len(rest) : (head \o rest)[i] = rest[j]
        BY <2>4, <2>6, <3>1, <3>2, ConcatenationElement
      <3>. QED  BY <2>5, <3>1, <3>2, <3>3
    <2>. QED  BY <2>2, <2>6
  <1>. HIDE DEF P
  <1>2. \A c \in Classes : c \in P
    BY <1>1, HierarchyInduction
  <1>. QED  BY <1>2 DEF P

\* The search for a method's name.
LEMMA SearchIs ==
    ASSUME NEW seq, Len(seq) \in Nat, NEW name
    PROVE  Named(seq, name) >= 0 <=> \E i \in 1..Len(seq) : seq[i].name = name
  BY NamedIs

LEMMA AllMethodsLength ==
    ASSUME NEW d \in ClassDeclarations
    PROVE  Len(AllMethods(d)) \in Nat /\ DOMAIN AllMethods(d) = 1..Len(AllMethods(d))
  <1>1. PICK S : S = Methods \cup {Implicit(InstanceOf), Implicit(New)}
    OBVIOUS
  <1>2. PICK added : added = IF d.abstract THEN <<Implicit(InstanceOf)>>
                             ELSE <<Implicit(InstanceOf), Implicit(New)>>
    OBVIOUS
  <1>3. added \in Seq(S) /\ d.methods \in Seq(S)
    <2>1. d.methods \in Seq(Methods)
      BY DEF ClassDeclarations
    <2>2. Methods \subseteq S /\ Implicit(InstanceOf) \in S /\ Implicit(New) \in S
      BY <1>1
    <2>3. added \in Seq(S)
      BY <1>2, <2>2
    <2>. QED  BY <2>1, <2>2, <2>3
  <1>4. AllMethods(d) = added \o d.methods
    BY <1>2 DEF AllMethods
  <1>5. AllMethods(d) \in Seq(S)
    BY <1>3, <1>4
  <1>. QED  BY <1>5, SequenceIs

LEMMA DeclaredChainIs ==
    ASSUME program \in Programs, Orderly, NEW s, Sound(s, ClassesOf)
    PROVE  \A c \in ClassesOf : c \in Classes /\ Chain(s.classes)[c] = DeclaredChain[c]
  <1>1. PICK cls, n : cls = s.classes /\ n = Len(program)
    OBVIOUS
  <1>2. DeclaresFirst /\ ClassesOK(cls) /\ IsStore(s)
    BY <1>1 DEF Orderly, Sound
  <1>3. Hierarchy(cls, Rank, n)
    BY <1>1, <1>2, StoreHierarchy
  <1>4. \A c \in ClassesOf : c \in Classes
    BY <1>2, ClassOfIs DEF ClassesOf
  <1>5. \A c \in Classes : DeclaredInfo[c].base = DeclaredBase(c)
    BY DEF DeclaredInfo, DeclaredBase, NoInfo
  <1>6. \A c \in Classes : cls[c].base = DeclaredBase(c)
    BY <1>1, <1>2 DEF Sound, Whole, ClassesOK, DeclaredBase
  <1>7. Hierarchy(DeclaredInfo, Rank, n)
    BY <1>1, <1>2, <1>5, HierarchyOf
  <1>8. \A c \in Classes : Chain(DeclaredInfo)[c] = Chain(cls)[c]
    BY <1>3, <1>5, <1>6, <1>7, SameChains
  <1>. QED  BY <1>1, <1>4, <1>8 DEF DeclaredChain, DeclaredInfo

\* The most derived class that declares a method is the provider that the store finds.
LEMMA MostDerivedIs ==
    ASSUME program \in Programs, Orderly, NEW s, Sound(s, ClassesOf), NEW c \in ClassesOf,
           NEW name, MethodProvider(s.classes, c, name) # NoClass
    PROVE  MostDerived(c, name) = MethodProvider(s.classes, c, name)
           /\ name \notin Interfaces
  <1>1. PICK cls, n : cls = s.classes /\ n = Len(program)
    OBVIOUS
  <1>2. DeclaresFirst /\ NamesApart /\ ClassesOK(cls) /\ IsStore(s)
    BY <1>1 DEF Orderly, Sound
  <1>3. cls \in [Classes -> ClassInfos] /\ Hierarchy(cls, Rank, n)
    BY <1>1, <1>2, StoreHierarchy
  <1>4. \A e \in ClassesOf : e \in Classes /\ ClassOf(e) \in ClassDeclarations
    BY <1>2, ProgramIs, ClassOfIs DEF ClassesOf
  <1>6. \A e \in Classes : cls[e].base = DeclaredBase(e)
    BY <1>1, <1>2 DEF Sound, Whole, ClassesOK, DeclaredBase
  <1>8. PICK chain : chain = Chain(cls)[c]
    OBVIOUS
  <1>9. DeclaredChain[c] = chain
    BY <1>1, <1>8, DeclaredChainIs
  <1>10. \A i \in 1..Len(chain) : chain[i] \in ClassesOf
    BY <1>2, <1>3, <1>4, <1>6, <1>8, ChainDeclared
  <1>11. PICK p : p = MethodProvider(cls, c, name)
    OBVIOUS
  <1>12. /\ p \in ClassesOf /\ name \notin Interfaces /\ name \in DeclaredMethods(p)
    <2>1. p \in Classes /\ HasMethod(cls, p, name)
      BY <1>1, <1>3, <1>4, <1>11, ProviderHas
    <2>. QED  BY <1>2, <2>1, NotAnInterface
  <1>. DEFINE H == {e \in Classes : Named(cls[e].methods, name) >= 0}
              has(e) == name \in ClassOf(e).fields \/ Named(AllMethods(ClassOf(e)), name) >= 0
  <1>13. ASSUME NEW e \in ClassesOf PROVE has(e) <=> e \in H
    <2>1. PICK d : d = ClassOf(e)
      OBVIOUS
    <2>2. d \in ClassDeclarations /\ DeclaredMethods(e) = MethodNames(d) /\ e \in Classes
      BY <1>4, <2>1 DEF DeclaredMethods
    <2>3. name \notin d.fields
      BY <1>2, <1>12, <2>1 DEF NamesApart, DeclaredMethods
    <2>4. Named(AllMethods(d), name) >= 0 <=> name \in MethodNames(d)
      <3>1. PICK all : all = AllMethods(d)
        OBVIOUS
      <3>2. Len(all) \in Nat /\ DOMAIN all = 1..Len(all)
        BY <2>2, <3>1, AllMethodsLength
      <3>3. Named(all, name) >= 0 <=> \E i \in 1..Len(all) : all[i].name = name
        BY <3>2, SearchIs
      <3>. QED  BY <3>1, <3>2, <3>3 DEF MethodNames
    <2>5. Named(cls[e].methods, name) >= 0 <=> HasMethod(cls, e, name)
      <3>1. PICK own : own = cls[e].methods
        OBVIOUS
      <3>2. Len(own) \in Nat
        BY <1>3, <2>2, <3>1 DEF ClassInfos
      <3>3. Named(own, name) >= 0 <=> \E i \in 1..Len(own) : own[i].name = name
        BY <3>2, SearchIs
      <3>. QED  BY <3>1, <3>3 DEF HasMethod
    <2>6. HasMethod(cls, e, name) <=> name \in DeclaredMethods(e)
      BY <1>1, <1>2, <2>2 DEF Sound, Whole, ClassesOK, HasMethod
    <2>. QED  BY <2>1, <2>2, <2>3, <2>4, <2>5, <2>6
  <1>14. PICK k : k = IndexOf(chain, LAMBDA e : e \in H)
    OBVIOUS
  <1>15. IndexOf(chain, has) = k
    <2>. HIDE DEF H
    <2>1. {i \in 1..Len(chain) : has(chain[i])} = {i \in 1..Len(chain) : chain[i] \in H}
      BY <1>10, <1>13
    <2>. HIDE DEF has
    <2>. QED  BY <1>14, <2>1 DEF IndexOf, SelectInSeq
  <1>16. p = IF k < 0 THEN NoClass ELSE At(chain, k)
    BY <1>8, <1>11, <1>14 DEF MethodProvider, Provider
  <1>17. MostDerived(c, name) = At(chain, k)
    BY <1>9, <1>15 DEF MostDerived
  <1>. QED  BY <1>1, <1>11, <1>12, <1>16, <1>17

-----------------------------------------------------------------------------
(* The entry that a compiled call reads.                                   *)

LEMMA EntryRead ==
    ASSUME NEW cls \in [Classes -> ClassInfos], NEW rank, NEW n, Hierarchy(cls, rank, n),
           NEW c \in Classes, NEW d \in Classes, c \in ToSet(Chain(cls)[d]),
           NEW name, name \notin Interfaces, MethodProvider(cls, c, name) # NoClass,
           NEW slot, slot = Place(VirtualPart(cls, c), name), NEW table, table = OwnTable(cls, d)
    PROVE  /\ MethodProvider(cls, d, name) # NoClass
           /\ slot \in 0..(Len(table) - 1)
           /\ table[slot + 1].name = name /\ table[slot + 1].class = MethodProvider(cls, d, name)
  <1>1. PICK small, large : small = Layout(cls)[c] /\ large = Layout(cls)[d]
    OBVIOUS
  <1>2. small \in Seq(Entries) /\ large \in Seq(Entries)
    BY <1>1, LayoutTypes
  <1>3. slot = Place(small, name) /\ slot >= 0
    <2>1. PICK k : k = Place(small, name)
      OBVIOUS
    <2>2. k \in 0..(Len(small) - 1) /\ slot = k
      BY <1>1, <2>1, SlotOfMethod
    <2>. QED  BY <1>2, <2>1, <2>2
  <1>4. Grows(small, large) /\ MethodProvider(cls, d, name) # NoClass
    BY <1>1, HeirsKeepSlots, ProgramsAssumption
  <1>5. Place(large, name) = slot
    BY <1>2, <1>3, <1>4, PlaceStays
  <1>6. /\ slot \in 0..(Len(large) - 1) /\ IsFor(large[slot + 1], name)
        /\ large[slot + 1].class = MethodProvider(cls, d, name)
        /\ NoInterfaceEntry(large, name)
    BY <1>1, <1>4, <1>5, SlotOfMethod
  <1>7. Len(table) = Len(large) /\ \A i \in 1..Len(large) : table[i] = OwnEntry(large[i], d)
    <2>1. table = [i \in 1..Len(large) |-> OwnEntry(large[i], d)] /\ Len(large) \in Nat
      BY <1>1, <1>2 DEF OwnTable
    <2>. QED  BY <2>1
  <1>8. slot + 1 \in 1..Len(large)
    BY <1>2, <1>6
  <1>9. large[slot + 1].kind # "interface"
    BY <1>6, <1>8 DEF NoInterfaceEntry, IsFor
  <1>10. table[slot + 1] = large[slot + 1]
    BY <1>7, <1>8, <1>9 DEF OwnEntry
  <1>. QED  BY <1>4, <1>6, <1>7, <1>10 DEF IsFor

LEMMA DispatchOfVInv == VInv => (Orderly /\ lastTime = 0 => MethodCallsDispatch)
  <1>. SUFFICES ASSUME VInv, Orderly, lastTime = 0, run = "done",
                       NEW e \in CallsOf({"method"}), NEW d \in Concrete(e.call.on)
                PROVE  Holds(<<d>>, e.slot, e.call.member, MostDerived(d, e.call.member))
    BY DEF MethodCallsDispatch
  <1>1. PICK s, cls, n : s = store /\ cls = s.classes /\ n = next
    OBVIOUS
  <1>2. PICK c, name, slot : c = e.call.on /\ name = e.call.member /\ slot = e.slot
    OBVIOUS
  <1>3. /\ program \in Programs /\ Sound(s, ClassesOf) /\ notResolved = 0 /\ n = Len(program) + 1
    BY <1>1, DiscoveredIs DEF VInv, Passes, StateTypes
  <1>4. TablesOK(s, n) /\ CallsOK(s, n) /\ DeclaredBefore(n) = ClassesOf
    <2>1. Len(program) \in Nat /\ n \in Int /\ Len(program) < n
      BY <1>3, ProgramIs
    <2>. QED  BY <1>1, <1>3, <2>1, AllDeclared DEF VInv, FirstPass
  <1>5. /\ c \in ClassesOf /\ MethodProvider(cls, c, name) # NoClass
        /\ slot = Place(VirtualPart(cls, c), name)
    BY <1>1, <1>2, <1>4 DEF CallsOf, CallsOK, GoodCall
  <1>6. d \in ClassesOf /\ c \in ToSet(DeclaredChain[d]) /\ ~ClassOf(d).abstract
    BY <1>2 DEF Concrete
  <1>7. cls \in [Classes -> ClassInfos] /\ Hierarchy(cls, Rank, Len(program))
    BY <1>1, <1>3, StoreHierarchy DEF Sound, Orderly
  <1>8. name \notin Interfaces
    BY <1>1, <1>3, <1>5, MostDerivedIs
  <1>10. c \in Classes /\ d \in Classes /\ c \in ToSet(Chain(cls)[d])
    BY <1>1, <1>3, <1>5, <1>6, DeclaredChainIs
  <1>11. PICK table : table = OwnTable(cls, d)
    OBVIOUS
  <1>12. /\ MethodProvider(cls, d, name) # NoClass /\ slot \in 0..(Len(table) - 1)
         /\ table[slot + 1].name = name /\ table[slot + 1].class = MethodProvider(cls, d, name)
    BY <1>5, <1>7, <1>8, <1>10, <1>11, EntryRead
  <1>13. MostDerived(d, name) = MethodProvider(cls, d, name)
    BY <1>1, <1>3, <1>6, <1>12, MostDerivedIs
  <1>14. <<d>> \in DOMAIN store.tables /\ store.tables[<<d>>] = table
    BY <1>1, <1>4, <1>6, <1>11 DEF TablesOK
  <1>. QED  BY <1>2, <1>12, <1>13, <1>14 DEF Holds, At

-----------------------------------------------------------------------------
(* A virtual call compiled against a class reaches, in the table of every  *)
(* class an object of it may have, the method of the most derived class:   *)
(* for every program that declares a class before its heirs and before the *)
(* calls of its methods, and has no method named like a field or an        *)
(* interface, when nothing had to be tried again in the run that is kept.  *)
(* The slot a call reads was counted from the store when the call was      *)
(* compiled, the table laid out from the store when the class was ended.   *)

THEOREM DispatchTheorem == Spec => [](Orderly /\ lastTime = 0 => MethodCallsDispatch)
  <1>1. Spec => []VInv
    BY InitVInv, VInvInductive, PTL DEF Spec
  <1>. QED  BY <1>1, DispatchOfVInv, PTL

=============================================================================
