---------------------------- MODULE VirtualTables ----------------------------
(***************************************************************************)
(* Virtual tables of classes and interfaces (MLIRGenStore.h and the class  *)
(* and interface parts of MLIRGen.cpp).                                    *)
(*                                                                         *)
(* A compiled call reaches a virtual method, a member of an interface or   *)
(* the table of an interface through a number, the slot, read from the     *)
(* symbol store when the call is generated; the tables are laid out from   *)
(* the same store when the classes are.  Declarations are generated in     *)
(* passes, in the discovery run and once more in the run that is kept, and *)
(* an attempt that fails leaves in the store what it had registered: so a  *)
(* slot may be read before, and a table laid out after, the store changes. *)
(*                                                                         *)
(* A program is a sequence of declarations.  Bodies are abstracted to the  *)
(* type names they need and the calls they make; fields to their names.    *)
(* Every method is virtual (ALL_METHODS_VIRTUAL), every class has its type *)
(* information (ENABLE_RTTI), and static fields are in the tables          *)
(* (ADD_STATIC_MEMBERS_TO_VTABLE), as Config.h defines them.               *)
(***************************************************************************)
EXTENDS Integers, Sequences, FiniteSets, SequencesExt

CONSTANTS Classes,    \* names of classes
          Interfaces, \* names of interfaces
          NoClass,    \* the base of a class without one
          Programs    \* sequences of declarations

\* A call names what it is made on and the member; in a cast, the interface.
Calls == [how : {"method"}, on : Classes, member : STRING]
         \cup [how : {"interface", "read"}, on : Interfaces, member : STRING]
         \cup [how : {"cast"}, on : Classes, member : Interfaces]
Types == Classes \cup Interfaces
Methods == [name : STRING, abstract : BOOLEAN, needs : SUBSET Types, calls : Seq(Calls)]
ClassDeclarations ==
    [kind : {"class"}, name : Classes, base : Classes \cup {NoClass},
     implements : Seq(Interfaces), fields : SUBSET STRING, methods : Seq(Methods),
     statics : Seq(STRING), abstract : BOOLEAN]
InterfaceMembers == [name : STRING, kind : {"method", "field"}, needs : SUBSET Types]
InterfaceDeclarations ==
    [kind : {"interface"}, name : Interfaces, extends : Seq(Interfaces),
     members : Seq(InterfaceMembers)]
FunctionDeclarations == [kind : {"function"}, needs : SUBSET Types, calls : Seq(Calls)]

ASSUME ProgramsAssumption ==
    /\ NoClass \notin Classes
    /\ Programs \subseteq
          Seq(ClassDeclarations \cup InterfaceDeclarations \cup FunctionDeclarations)

InstanceOf == ".instanceOf"
New        == ".new"
Rtti       == ".rtti"

VARIABLES program,     \* the declarations, in the order of the source
          run,         \* "discover", "generate", "done" or "failed"
          next,        \* the next declaration of the pass
          processed,   \* those generated in this run
          notResolved, \* how many the pass has failed to
          lastTime,    \* lastTimeNotResolved
          store        \* the symbol store, and the module under construction

vars     == <<program, run, next, processed, notResolved, lastTime, store>>
passVars == <<next, processed, notResolved, lastTime>>

-----------------------------------------------------------------------------
(***************************************************************************)
(* The symbol store.  types: the classes and interfaces registered;        *)
(* interfaces: InterfaceInfo; classes: ClassInfo; tables: the virtual      *)
(* tables in fullNameGlobalsMap, <<c>> that of class c and <<c, i>> that   *)
(* of c for interface i; emitted and redefined: the symbols defined in the *)
(* module and those defined twice; calls: the slots compiled so far.       *)
(***************************************************************************)
NoInterface == [extends |-> <<>>, members |-> <<>>]
NoInfo == [base |-> NoClass, implements |-> <<>>, methods |-> <<>>, statics |-> <<>>,
           fields |-> {}, compiled |-> {}]
EmptyStore ==
    [types |-> {}, interfaces |-> [i \in Interfaces |-> NoInterface],
     classes |-> [c \in Classes |-> NoInfo], tables |-> <<>>,
     emitted |-> {}, redefined |-> {}, calls |-> {}]

\* The position, from 0, of the first element that passes Test; -1 if none does.
IndexOf(seq, Test(_)) == SelectInSeq(seq, Test) - 1

Named(seq, name) == IndexOf(seq, LAMBDA e : e.name = name)
At(seq, index)   == seq[index + 1]

-----------------------------------------------------------------------------
(***************************************************************************)
(* Interfaces.                                                             *)
(***************************************************************************)
\* InterfaceInfo::getVirtualTable: the members of the extended interfaces, then
\* the methods, then the fields.
Slots(ifs) ==
    LET S[i \in Interfaces] ==
          FlattenSeq([k \in DOMAIN ifs[i].extends |-> S[ifs[i].extends[k].interface]])
          \o SelectSeq(ifs[i].members, LAMBDA m : m.kind = "method")
          \o SelectSeq(ifs[i].members, LAMBDA m : m.kind = "field")
    IN  S

VTableSize(ifs, i) == Len(Slots(ifs)[i])

\* Mutant: the offsets stay as they were pushed.
OffsetsNotCalculated(ifs, i) == ifs

RecalcOffsets(ifs, i) ==
    LET ext == ifs[i].extends
        before(k) == FlattenSeq([j \in 1..(k - 1) |-> Slots(ifs)[ext[j].interface]])
    IN  [ifs EXCEPT ![i].extends =
            [k \in DOMAIN ext |-> [ext[k] EXCEPT !.offset = Len(before(k))]]]

\* InterfaceMembers, findField and findMethod: the slot a member is accessed at.
MemberSlot(ifs, name) ==
    LET has(i) == Named(Slots(ifs)[i], name) >= 0
        P[i \in Interfaces] ==
          LET own == Named(ifs[i].members, name)
              k   == IndexOf(ifs[i].extends, LAMBDA e : has(e.interface))
              ext == At(ifs[i].extends, k)
          IN  IF own >= 0 THEN At(ifs[i].members, own).position
                          ELSE ext.offset + P[ext.interface]
    IN  P

\* An interface's own size is its members' and those of the ones it extends.
AddMember(ifs, i, m) ==
    IF Named(ifs[i].members, m.name) >= 0 THEN ifs
    ELSE [ifs EXCEPT ![i].members =
             Append(@, [name |-> m.name, kind |-> m.kind, position |-> VTableSize(ifs, i)])]

\* The elements of the sequence before the first that is not in the set.
KnownPrefix(seq, known) ==
    LET k == IndexOf(seq, LAMBDA e : e \notin known)
    IN  IF k < 0 THEN seq ELSE SubSeq(seq, 1, k)

\* mlirGen(InterfaceDeclaration): the extended interfaces not processed yet are
\* added up to the first unknown one; then the offsets, and the members whose
\* types are known.
InterfaceGenerated(s, d) ==
    LET types == s.types \cup {d.name}
        known == KnownPrefix(d.extends, types)
        ifs   == [s.interfaces EXCEPT ![d.name].extends =
                     @ \o [k \in 1..(Len(known) - Len(@)) |->
                              [offset |-> -1, interface |-> known[Len(@) + k]]]]
        typed == SelectSeq(d.members, LAMBDA m : m.needs \subseteq types)
        all   == FoldLeft(LAMBDA t, m : AddMember(t, d.name, m),
                          RecalcOffsets(ifs, d.name), typed)
    IN  IF known = d.extends
        THEN [store |-> [s EXCEPT !.types = types, !.interfaces = all],
              ok    |-> typed = d.members]
        ELSE [store |-> [s EXCEPT !.types = types, !.interfaces = ifs], ok |-> FALSE]

-----------------------------------------------------------------------------
(***************************************************************************)
(* Classes.  The generation of a declaration is a sequence of stages, each *)
(* of which may fail and leaves what it had stored.                        *)
(***************************************************************************)
Done(s)   == [store |-> s, ok |-> TRUE]
Failed(s) == [store |-> s, ok |-> FALSE]

Then(r, Stage(_)) == IF r.ok THEN Stage(r.store) ELSE r

InSequence(s, seq, Stage(_, _)) ==
    LET r[k \in 0..Len(seq)] ==
          IF k = 0 THEN Done(s) ELSE Then(r[k - 1], LAMBDA t : Stage(t, seq[k]))
    IN  r[Len(seq)]

\* A class and its bases, the class first.
Chain(cls) ==
    LET C[c \in Classes] ==
          <<c>> \o (IF cls[c].base = NoClass THEN <<>> ELSE C[cls[c].base])
    IN  C

\* ClassInfo::findMethod and findField: the first class of the chain that has it.
Provider(cls, c, holders) ==
    LET k == IndexOf(Chain(cls)[c], LAMBDA e : e \in holders)
    IN  IF k < 0 THEN NoClass ELSE At(Chain(cls)[c], k)

MethodProvider(cls, c, name) == Provider(cls, c, {e \in Classes : Named(cls[e].methods, name) >= 0})
FieldProvider(cls, c, name)  == Provider(cls, c, {e \in Classes : name \in cls[e].fields})

\* The entry of a method or of an interface; that of a static field has no such name.
Place(table, name) == IndexOf(table, LAMBDA e : e.kind # "static" /\ e.name = name)

\* An interface gets one entry, in the table of the first class that implements it.
AddInterface(table, e) == IF Place(table, e.name) >= 0 THEN table ELSE Append(table, e)

\* Mutant: a method always gets an entry of its own.
AddMethodOnly(table, e) == Append(table, e)

\* processMethod: a method replaces the one of its name.
AddMethod(table, e) ==
    LET k == Place(table, e.name)
    IN  IF k >= 0 THEN [table EXCEPT ![k + 1].class = e.class, ![k + 1].abstract = e.abstract]
        ELSE Append(table, e)

\* The interfaces the class implements, then its methods.
VirtualEntries(cls, c) ==
    [k \in DOMAIN cls[c].implements |->
        [kind |-> "interface", name |-> cls[c].implements[k].interface,
         class |-> NoClass, abstract |-> FALSE]]
    \o [k \in DOMAIN cls[c].methods |->
           [kind |-> "method", name |-> cls[c].methods[k].name,
            class |-> c, abstract |-> cls[c].methods[k].abstract]]

StaticEntries(cls, c) ==
    [k \in DOMAIN cls[c].statics |->
        [kind |-> "static", name |-> cls[c].statics[k].name, class |-> c, abstract |-> FALSE]]

Extended(table, entries) ==
    LET t[k \in 0..Len(entries)] ==
          IF k = 0 THEN table
          ELSE IF entries[k].kind = "interface" THEN AddInterface(t[k - 1], entries[k])
          ELSE AddMethod(t[k - 1], entries[k])
    IN  t[Len(entries)]

\* ClassInfo::getVirtualTable: the base's entries, extended by those of the class,
\* and its static fields.
Layout(cls) ==
    LET T[c \in Classes] ==
          Extended(IF cls[c].base = NoClass THEN <<>> ELSE T[cls[c].base], VirtualEntries(cls, c))
          \o StaticEntries(cls, c)
    IN  T

\* Its side effect on class c: the entries get their positions.  Only the first
\* mention of an interface that no base has an entry for does.
Indexed(cls, c) ==
    LET info == cls[c]
        table == Layout(cls)[c]
        inherited == IF info.base = NoClass THEN <<>> ELSE Layout(cls)[info.base]
        first(k) == /\ Place(inherited, info.implements[k].interface) < 0
                    /\ \A j \in 1..(k - 1) : info.implements[j].interface # info.implements[k].interface
        implement(k) == info.implements[k]
        method(k)    == info.methods[k]
        static(k)    == info.statics[k]
        from == Len(table) - Len(info.statics)
    IN  [info EXCEPT
           !.implements = [k \in DOMAIN @ |->
               IF first(k) THEN [implement(k) EXCEPT !.index = Place(table, implement(k).interface)]
                           ELSE implement(k)],
           !.methods = [k \in DOMAIN @ |-> [method(k) EXCEPT !.index = Place(table, method(k).name)]],
           !.statics = [k \in DOMAIN @ |-> [static(k) EXCEPT !.index = from + k - 1]]]

\* The table of a class is prepared with those of all its bases.
PrepareTable(s, c) ==
    [s EXCEPT !.classes = [d \in Classes |->
        IF d \in ToSet(Chain(s.classes)[c]) THEN Indexed(s.classes, d) ELSE s.classes[d]]]

-----------------------------------------------------------------------------
(***************************************************************************)
(* Bodies.  A call that is compiled leaves the slot it will read: a method *)
(* of a class, a method or a field ("read") of an interface, or the place  *)
(* where a cast to an interface finds its table.  In the discovery run an  *)
(* unknown callee is let pass.                                             *)
(***************************************************************************)
Linked == -2   \* a cast that refers to the table of the static type itself

Compiled(s, call, slot) == Done([s EXCEPT !.calls = @ \cup {[call |-> call, slot |-> slot]}])

Unknown(s, call) == IF run = "discover" /\ call.how # "read" THEN Done(s) ELSE Failed(s)

\* ClassMembers, for the first class of the chain that has the method.
MethodCall(s, call) ==
    LET p == MethodProvider(s.classes, call.on, call.member)
    IN  IF p = NoClass THEN Unknown(s, call)
        ELSE LET methods == s.classes[p].methods
             IN  Compiled(s, call, At(methods, Named(methods, call.member)).index)

InterfaceCall(s, call) ==
    IF Named(Slots(s.interfaces)[call.on], call.member) < 0 THEN Unknown(s, call)
    ELSE Compiled(s, call, MemberSlot(s.interfaces, call.member)[call.on])

\* The class's member for each slot of the interface.
InterfaceTable(s, c, i) ==
    LET entry(m) == [kind |-> m.kind, name |-> m.name,
                     class |-> IF m.kind = "field" THEN FieldProvider(s.classes, c, m.name)
                               ELSE MethodProvider(s.classes, c, m.name)]
        slots == Slots(s.interfaces)[i]
    IN  [k \in DOMAIN slots |-> entry(slots[k])]

\* registerVariable: the global is in the module even when its value fails.
Emit(s, symbol) == [s EXCEPT !.emitted = @ \cup {symbol},
                             !.redefined = @ \cup ({symbol} \cap s.emitted)]
Defined(s, symbol, table) ==
    [Emit(s, symbol) EXCEPT !.tables =
        [t \in DOMAIN @ \cup {symbol} |-> IF t = symbol THEN table ELSE @[t]]]

\* mlirGenClassVirtualTableDefinitionForInterface.
DefineInterface(s, c, i) ==
    LET table == InterfaceTable(s, c, i)
    IN  IF \E k \in DOMAIN table : table[k].class = NoClass THEN Failed(s)
        ELSE Done(Defined(s, <<c, i>>, table))

\* A class that does not list the interface gets a table of its own for it.
CastToInterface(s, call) ==
    LET own == s.classes[call.on].implements
        k   == IndexOf(own, LAMBDA e : e.interface = call.member)
        r   == IF <<call.on, call.member>> \in DOMAIN s.tables THEN Done(s)
               ELSE DefineInterface(s, call.on, call.member)
    IN  IF k >= 0 THEN Compiled(s, call, At(own, k).index)
        ELSE Then(r, LAMBDA t : Compiled(t, call, Linked))

Call(s, call) ==
    CASE call.how = "method" -> MethodCall(s, call)
      [] call.how \in {"interface", "read"} -> InterfaceCall(s, call)
      [] call.how = "cast" -> CastToInterface(s, call)

TypesOf(call) == IF call.how = "cast" THEN {call.on, call.member} ELSE {call.on}

\* The types a body mentions must be known, then its calls are compiled.
Body(s, b) ==
    IF b.needs \cup UNION {TypesOf(b.calls[k]) : k \in DOMAIN b.calls} \subseteq s.types
    THEN InSequence(s, b.calls, Call)
    ELSE Failed(s)

-----------------------------------------------------------------------------
(***************************************************************************)
(* The stages of mlirGen(ClassLikeDeclaration).                            *)
(***************************************************************************)
\* mlirGenClassStorageType: the base and the interfaces, which are pushed at
\* every attempt; the type information, once; the fields.
Heritage(s, d) ==
    LET types  == s.types \cup {d.name}
        known  == KnownPrefix(d.implements, types)
        based  == [s EXCEPT !.types = types, !.classes[d.name].base = d.base]
        listed == [based EXCEPT !.classes[d.name].implements = @ \o
                      [k \in DOMAIN known |-> [interface |-> known[k], index |-> -1,
                                               processed |-> FALSE]]]
        rtti(statics) == IF statics = <<>> THEN <<[name |-> Rtti, index |-> -1]>> ELSE statics
        typed(info) == [info EXCEPT !.statics = rtti(info.statics), !.fields = d.fields]
    IN  IF d.base \notin types \cup {NoClass} THEN Failed([s EXCEPT !.types = types])
        ELSE IF known # d.implements THEN Failed(listed)
        ELSE Done([listed EXCEPT !.classes[d.name] = typed(@)])

\* The generated methods come first (extraMembers).
Implicit(name) == [name |-> name, abstract |-> FALSE, needs |-> {}, calls |-> <<>>]
AllMethods(d) ==
    (IF d.abstract THEN <<Implicit(InstanceOf)>> ELSE <<Implicit(InstanceOf), Implicit(New)>>)
    \o d.methods

\* The method is registered, unless an earlier run did.
Register(s, c, m) ==
    LET info == [name |-> m.name, abstract |-> m.abstract, index |-> -1]
    IN  [s EXCEPT !.classes[c].compiled = @ \cup {m.name},
                  !.classes[c].methods = IF Named(@, m.name) >= 0 THEN @ ELSE Append(@, info)]

\* mlirGenClassMethodMember: a method already compiled is passed over.
Method(s, c, m) ==
    IF m.name \in s.classes[c].compiled THEN Done(s)
    ELSE Then(Body(s, m), LAMBDA t : Done(Register(t, c, m)))

\* A member that fails does not stop the iteration.
NextMember(r, c, m) ==
    LET attempt == Method(r.store, c, m)
    IN  [store |-> attempt.store, ok |-> r.ok /\ attempt.ok]

\* One iteration over the members: a static field is registered every time.
MembersOnce(s, d) ==
    LET statics == [k \in DOMAIN d.statics |-> [name |-> d.statics[k], index |-> -1]]
        r[k \in 0..Len(AllMethods(d))] ==
          IF k = 0 THEN Done([s EXCEPT !.classes[d.name].statics = @ \o statics])
          ELSE NextMember(r[k - 1], d.name, AllMethods(d)[k])
    IN  r[Len(AllMethods(d))]

\* mlirGenClassMembers: as no attempt at a member lets another succeed, the
\* second iteration leaves what the first left, and ends the stage.
SecondIteration(first, d) == IF first.ok THEN first ELSE MembersOnce(first.store, d)

Members(s, d) ==
    Then(SecondIteration(MembersOnce(s, d), d),
         LAMBDA t : Done([t EXCEPT !.classes[d.name].compiled = {}]))

\* The class takes an interface of its base that no class derived from it has.
TakeInterface(s, d, k) ==
    LET e == s.classes[d.base].implements[k]
    IN  IF e.processed THEN Done(s)
        ELSE Then(DefineInterface(s, d.name, e.interface),
                  LAMBDA t : Done([t EXCEPT !.classes[d.base].implements[k].processed = TRUE]))

\* Mutant: the interfaces of the base get no tables.
BaseInterfacesNone(s, d) == Done(s)

\* mlirGenClassBaseInterfaces.
BaseInterfaces(s, d) ==
    LET entries == IF d.base = NoClass THEN <<>> ELSE s.classes[d.base].implements
    IN  InSequence(s, [k \in DOMAIN entries |-> k], LAMBDA t, k : TakeInterface(t, d, k))

\* mlirGenClassHeritageClauseImplements.
OwnInterfaces(s, d) == InSequence(s, d.implements, LAMBDA t, i : DefineInterface(t, d.name, i))

\* A class has its own table for an interface.
OwnEntry(e, c) == IF e.kind = "interface" THEN [e EXCEPT !.class = c] ELSE e

\* An abstract method has no code, and an interface must have a table.
Missing(s, e) == e.abstract \/ (e.kind = "interface" /\ <<e.class, e.name>> \notin DOMAIN s.tables)

DefineTable(s, c, table) ==
    IF \E k \in DOMAIN table : Missing(s, table[k]) THEN Failed(Emit(s, <<c>>))
    ELSE Done(Defined(s, <<c>>, table))

OwnTable(cls, c) == LET table == Layout(cls)[c] IN [k \in DOMAIN table |-> OwnEntry(table[k], c)]

\* mlirGenClassVirtualTableDefinition: a table is laid out and defined once.
LayOut(s, c) ==
    IF <<c>> \in DOMAIN s.tables THEN Done(s) ELSE DefineTable(s, c, OwnTable(s.classes, c))

ClassTable(s, d) == IF d.abstract THEN Done(s) ELSE LayOut(PrepareTable(s, d.name), d.name)

ClassGenerated(s, d) ==
    LET r1 == Heritage(s, d)
        r2 == Then(r1, LAMBDA t : Members(PrepareTable(t, d.name), d))
        r3 == Then(r2, LAMBDA t : BaseInterfaces(t, d))
        r4 == Then(r3, LAMBDA t : OwnInterfaces(t, d))
    IN  Then(r4, LAMBDA t : ClassTable(t, d))

-----------------------------------------------------------------------------
(***************************************************************************)
(* The runs (see Frontend): passes over the declarations until all are     *)
(* generated, in the discovery run and then in the run that is kept.       *)
(***************************************************************************)
Init ==
    /\ program \in Programs
    /\ run = "discover"
    /\ next = 1 /\ processed = {} /\ notResolved = 0 /\ lastTime = 0
    /\ store = EmptyStore

Generating == run \in {"discover", "generate"}
Trying     == Generating /\ next <= Len(program) /\ next \notin processed
Statement  == program[next]

\* A statement that succeeds is processed; one that fails is left for the next pass.
Attempt(result) ==
    /\ next' = next + 1
    /\ store' = result.store
    /\ IF result.ok THEN processed' = processed \cup {next} /\ notResolved' = notResolved
                    ELSE processed' = processed /\ notResolved' = notResolved + 1
    /\ UNCHANGED <<program, run, lastTime>>

GenerateInterface == Trying /\ Statement.kind = "interface" /\ Attempt(InterfaceGenerated(store, Statement))
GenerateClass     == Trying /\ Statement.kind = "class" /\ Attempt(ClassGenerated(store, Statement))
GenerateFunction  == Trying /\ Statement.kind = "function" /\ Attempt(Body(store, Statement))

SkipProcessed ==
    /\ Generating /\ next \in processed
    /\ next' = next + 1
    /\ UNCHANGED <<program, run, processed, notResolved, lastTime, store>>

PassEnded == Generating /\ next > Len(program)
NewPass   == next' = 1 /\ notResolved' = 0

Stuck == lastTime > 0 /\ lastTime = notResolved

RepeatPass ==
    /\ PassEnded /\ notResolved > 0 /\ ~Stuck
    /\ NewPass /\ lastTime' = notResolved
    /\ UNCHANGED <<program, run, processed, store>>

GiveUp ==
    /\ PassEnded /\ Stuck
    /\ run' = "failed"
    /\ UNCHANGED <<program, passVars, store>>

\* The module is cleared, and the globals with the scope of fullNameGlobalsMap:
\* the classes and the interfaces stay as discovery left them.
EndDiscovery ==
    /\ run = "discover" /\ PassEnded /\ notResolved = 0
    /\ run' = "generate"
    /\ NewPass /\ lastTime' = 0 /\ processed' = {}
    /\ store' = [store EXCEPT !.tables = <<>>, !.emitted = {}, !.redefined = {}, !.calls = {}]
    /\ UNCHANGED program

\* mlir::verify refuses a module that defines a symbol twice.
EndGeneration ==
    /\ run = "generate" /\ PassEnded /\ notResolved = 0
    /\ run' = IF store.redefined = {} THEN "done" ELSE "failed"
    /\ UNCHANGED <<program, passVars, store>>

Terminated == run \in {"done", "failed"} /\ UNCHANGED vars

Next == \/ GenerateInterface \/ GenerateClass \/ GenerateFunction \/ SkipProcessed
        \/ RepeatPass \/ GiveUp \/ EndDiscovery \/ EndGeneration \/ Terminated

Spec == Init /\ [][Next]_vars

-----------------------------------------------------------------------------
(***************************************************************************)
(* Properties.  What the program declares, whatever the store holds.       *)
(***************************************************************************)
Declared  == {k \in DOMAIN program : program[k].kind = "class"}
ClassOf(c) == program[CHOOSE k \in Declared : program[k].name = c]
ClassesOf == {program[k].name : k \in Declared}
DeclaredChain == Chain([c \in Classes |-> IF c \in ClassesOf THEN ClassOf(c) ELSE NoInfo])

\* The class whose method or field an object of class c has under a name.
MostDerived(c, name) ==
    LET has(e) == name \in ClassOf(e).fields \/ Named(AllMethods(ClassOf(e)), name) >= 0
        chain  == DeclaredChain[c]
    IN  At(chain, IndexOf(chain, has))

\* The classes an object may have where c is its static type.
Concrete(c) == {d \in ClassesOf : c \in ToSet(DeclaredChain[d]) /\ ~ClassOf(d).abstract}

\* The slot of the table holds that member of that class.
Holds(symbol, slot, name, class) ==
    /\ symbol \in DOMAIN store.tables
    /\ slot \in 0..(Len(store.tables[symbol]) - 1)
    /\ LET e == At(store.tables[symbol], slot) IN e.name = name /\ e.class = class

CallsOf(hows) == {e \in store.calls : e.call.how \in hows}

\* A virtual call compiled against a class reaches, in the table of every
\* class an object of it may have, the method of the most derived class.
\* Slot numbers and tables come from the store at different moments.
MethodCallsDispatch ==
    run = "done" => \A e \in CallsOf({"method"}) : \A d \in Concrete(e.call.on) :
        Holds(<<d>>, e.slot, e.call.member, MostDerived(d, e.call.member))

\* A call or a read through an interface reaches the member of that name in
\* the interface's table of every class that has one. A cast from a class to an
\* interface finds in the table of every class the object may have that class's
\* table for the interface; a cast linked to the table of the static type is right
\* if that table is as good.
InterfacesReached ==
    run = "done" =>
      /\ \A e \in CallsOf({"interface", "read"}) : \A c \in ClassesOf :
           <<c, e.call.on>> \in DOMAIN store.tables =>
               Holds(<<c, e.call.on>>, e.slot, e.call.member, MostDerived(c, e.call.member))
      /\ \A e \in CallsOf({"cast"}) : \A d \in Concrete(e.call.on) :
           LET i == e.call.member IN
           IF e.slot = Linked
           THEN \A k \in DOMAIN store.tables[<<e.call.on, i>>] :
                   LET m == store.tables[<<e.call.on, i>>][k] IN m.class = MostDerived(d, m.name)
           ELSE Holds(<<d>>, e.slot, i, d)

\* The names a declaration mentions, and whether the program declares them all.
BodyMentions(b) == b.needs \cup UNION {TypesOf(b.calls[k]) : k \in DOMAIN b.calls}
Mentions(d) ==
    CASE d.kind = "interface" -> ToSet(d.extends) \cup UNION {d.members[k].needs : k \in DOMAIN d.members}
      [] d.kind = "class" -> ({d.base} \ {NoClass}) \cup ToSet(d.implements)
                             \cup UNION {BodyMentions(d.methods[k]) : k \in DOMAIN d.methods}
      [] d.kind = "function" -> BodyMentions(d)
NamesOf(ds) == {d.name : d \in {e \in ds : e.kind # "function"}}
Complete == \A d \in ToSet(program) : Mentions(d) \subseteq NamesOf(ToSet(program))

\* A program compiles if and only if it declares what it mentions: no pass
\* gives up on it, and no symbol is defined twice in the module.
Compiles == /\ run = "failed" => ~Complete
            /\ run = "done" => Complete

\* ".instanceOf must be first element in VTable for Cast Any" (MLIRGen.cpp).
InstanceOfFirst ==
    \A c \in Classes : <<c>> \in DOMAIN store.tables => store.tables[<<c>>][1].name = InstanceOf

=============================================================================
