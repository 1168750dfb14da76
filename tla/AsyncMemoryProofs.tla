--------------------------- MODULE AsyncMemoryProofs ---------------------------
(***************************************************************************)
(* What holds of the memory of AsyncRuntime's objects, for every program   *)
(* that AsyncLowering emits: a reference count is the number of holders,   *)
(* and no call touches an object whose last reference was dropped.         *)
(***************************************************************************)
EXTENDS AsyncGroupProofs

-----------------------------------------------------------------------------
(* The inductive invariant.                                                *)

\* The call that creates o has been made.
Created(o) ==
    \E r \in Routines : \E i \in DOMAIN Code[r] : Creates(Code[r][i], o) /\ i < pc[r]

\* An object lives from its creation until its count comes to zero.
LifeOK ==
    \A o \in Objects :
        life[o] = IF ~Created(o) THEN "none" ELSE IF refs[o] = 0 THEN "deleted" ELSE "live"

StartedOK == \A k \in Tasks : step[k] # "new" => Created(Token(k))

CellRefsOK ==
    \A k \in Tasks : \A n \in 1..Len(Emplaced(k)) : Created(Emplaced(k)[n]) =>
        refs[Emplaced(k)[n]] = (IF ProgramHolds(Emplaced(k)[n]) THEN 1 ELSE 0)
                               + (IF TaskHolds(k, n) THEN 1 ELSE 0)

\* The callbacks that will still update group g.
Callbacks(g) == UNION {{k} \X CallbacksAt(k, g) : k \in Tasks}

GroupRefsOK ==
    \A g \in Groups :
        /\ IsFiniteSet(Callbacks(g))
        /\ refs[g] = (IF Created(g) /\ ProgramHolds(g) THEN 1 ELSE 0) + Cardinality(Callbacks(g))

MInv == LifeOK /\ StartedOK /\ CellRefsOK /\ GroupRefsOK

-----------------------------------------------------------------------------
(* Who holds an object.                                                    *)

\* A routine that is in a call about o, other than the one that creates it, has
\* made o and not dropped it.
LEMMA InUse ==
    ASSUME TypeOK, NEW o \in Objects, NEW r \in Routines, NEW i \in DOMAIN Code[r],
           i <= pc[r],
           Adds(Code[r][i], o) \/ (i = pc[r] /\ Awaits(Code[r][i], o))
             \/ (i = pc[r] /\ Drops(Code[r][i], o))
    PROVE  Created(o) /\ (i = pc[r] => ProgramHolds(o))
  <1>1. PICK q \in Routines : \E n, m \in DOMAIN Code[q] : n < m /\ OwnedBy(o, q, n, m)
    BY ProgramAssumption DEF Mentions
  <1>2. PICK n, m \in DOMAIN Code[q] : n < m /\ OwnedBy(o, q, n, m)
    BY <1>1
  <1>3. /\ Creates(Code[q][n], o) /\ Drops(Code[q][m], o) /\ r = q
        /\ n < i /\ i <= m
    <2>1. m \in Nat /\ n \in Nat /\ i \in Nat
      BY CallType
    <2>. QED  BY <1>2, <2>1 DEF OwnedBy
  <1>4. m \in 1..Len(Code[q]) /\ m \in Nat /\ n \in Nat /\ i \in Nat /\ pc[r] \in Nat
    BY CallType DEF TypeOK
  <1>5. Created(o)
    BY <1>3, <1>4 DEF Created
  <1>6. ASSUME i = pc[r] PROVE ProgramHolds(o)
    <2>1. m \in pc[q]..Len(Code[q])
      BY <1>3, <1>4, <1>6, CallType DEF TypeOK
    <2>. QED  BY <1>3, <2>1 DEF ProgramHolds, Drops
  <1>. QED  BY <1>5, <1>6

\* When a call creates o, its drop is still to come.
LEMMA DropToCome ==
    ASSUME TypeOK, NEW o \in Objects, NEW r \in Routines, NEW i \in DOMAIN Code[r],
           Creates(Code[r][i], o)
    PROVE  \E m \in DOMAIN Code[r] : i < m /\ m \in 1..Len(Code[r]) /\ Drops(Code[r][m], o)
  <1>1. PICK q \in Routines : \E n, m \in DOMAIN Code[q] : n < m /\ OwnedBy(o, q, n, m)
    BY ProgramAssumption DEF Mentions
  <1>2. PICK n, m \in DOMAIN Code[q] : n < m /\ OwnedBy(o, q, n, m)
    BY <1>1
  <1>3. r = q /\ i = n /\ Drops(Code[q][m], o)
    BY <1>2 DEF OwnedBy
  <1>. QED  BY <1>2, <1>3, CallType

\* The two cells of a task are created by the same call.
LEMMA CellCreation ==
    ASSUME NEW k \in Tasks, NEW n \in 1..Len(Emplaced(k)), NEW r \in Routines,
           NEW i \in DOMAIN Code[r]
    PROVE  /\ Creates(Code[r][i], Emplaced(k)[n]) <=>
                  Code[r][i].op = "execute" /\ Code[r][i].task = k
           /\ Creates(Code[r][i], Token(k)) <=>
                  Code[r][i].op = "execute" /\ Code[r][i].task = k
  <1>1. Token(k) \in Cells /\ Emplaced(k)[n] \in Cells
    BY CellOwner DEF Cells
  <1>2. Code[r][i].op = "createGroup" => Code[r][i].obj \in Groups
    BY CallType
  <1>3. Emplaced(k)[n] = Token(k) \/ Emplaced(k)[n] = Value(k)
    <2>1. CASE k \in HasValue
      <3>1. Emplaced(k) = <<Value(k), Token(k)>>
        BY <2>1 DEF Emplaced
      <3>. QED  BY <3>1
    <2>2. CASE k \notin HasValue
      <3>1. Emplaced(k) = <<Token(k)>>
        BY <2>2 DEF Emplaced
      <3>. QED  BY <3>1
    <2>. QED  BY <2>1, <2>2
  <1>4. \A j : /\ Token(k) = Token(j) <=> k = j
               /\ Value(k) = Value(j) <=> k = j
               /\ Token(k) # Value(j) /\ Value(k) # Token(j)
    BY DEF Token, Value
  <1>. QED  BY <1>1, <1>2, <1>3, <1>4, CodeAssumption DEF Creates

\* A started task's cells have been created.
LEMMA StartedCells ==
    ASSUME StartedOK, NEW k \in Tasks, step[k] # "new", NEW n \in 1..Len(Emplaced(k))
    PROVE  Created(Emplaced(k)[n])
  BY CellCreation DEF StartedOK, Created

\* A group that a token calls back has been created.
LEMMA CalledBackCreated ==
    ASSUME IInv, AwaitersOK, NEW k \in Tasks, NEW g \in Groups,
           NEW i \in DOMAIN awaiters[Token(k)], awaiters[Token(k)][i] = g
    PROVE  Created(g)
  <1>1. Token(k) \in Objects /\ g \in Objects
    BY CurrentToken DEF IInv, Objects
  <1>2. PICK j \in AddedTo(g) : TRUE
    BY <1>1 DEF AwaitersOK
  <1>3. PICK r \in Routines : \E p \in 1..Len(Code[r]) :
            /\ Code[r][p].op = "add" /\ Code[r][p].obj = g
            /\ p < pc[r] \/ (p = pc[r] /\ step[r] = "adding")
    BY <1>2 DEF AddedTo
  <1>4. PICK p \in 1..Len(Code[r]) :
            /\ Code[r][p].op = "add" /\ Code[r][p].obj = g
            /\ p < pc[r] \/ (p = pc[r] /\ step[r] = "adding")
    BY <1>3
  <1>5. p \in DOMAIN Code[r]
    <2>1. Code[r] \in Seq(Instructions)
      BY CodeAssumption
    <2>. QED  BY <2>1
  <1>6. Adds(Code[r][p], g)
    BY <1>4 DEF Adds
  <1>7. p <= pc[r]
    BY <1>4 DEF IInv, TypeOK
  <1>. QED  BY <1>1, <1>5, <1>6, <1>7, InUse DEF IInv

-----------------------------------------------------------------------------
(* Callbacks.                                                              *)

\* Position i of the awaiters of token k has not been dealt with.
Called(k, i) == step[k] \in Past /\ Current(k) = Token(k) => i >= next[k]

LEMMA CallbacksSet ==
    ASSUME NEW g \in Groups
    PROVE  Callbacks(g) = {x \in Tasks \X Nat :
              /\ x[2] \in 1..Len(awaiters[Token(x[1])])
              /\ awaiters[Token(x[1])][x[2]] = g /\ Called(x[1], x[2])}
  <1>1. \A k \in Tasks : CallbacksAt(k, g) =
           {i \in 1..Len(awaiters[Token(k)]) : awaiters[Token(k)][i] = g /\ Called(k, i)}
    BY DEF CallbacksAt, Called, Past
  <1>. QED  BY <1>1 DEF Callbacks

\* The same in the next state.
LEMMA CallbacksSetNext ==
    ASSUME NEW g \in Groups
    PROVE  Callbacks(g)' = {x \in Tasks \X Nat :
              /\ x[2] \in 1..Len(awaiters'[Token(x[1])])
              /\ awaiters'[Token(x[1])][x[2]] = g /\ Called(x[1], x[2])'}
  <1>1. \A k \in Tasks : CallbacksAt(k, g)' =
           {i \in 1..Len(awaiters'[Token(k)]) : awaiters'[Token(k)][i] = g /\ Called(k, i)'}
    BY DEF CallbacksAt, Called, Past
  <1>. QED  BY <1>1 DEF Callbacks

\* A step that leaves no callback and comes past none keeps those of g.
LEMMA CallbacksFrame ==
    ASSUME NEW g \in Groups,
           \A k \in Tasks : \A i \in Nat :
              /\ i \in 1..Len(awaiters'[Token(k)]) /\ awaiters'[Token(k)][i] = g
                    <=> i \in 1..Len(awaiters[Token(k)]) /\ awaiters[Token(k)][i] = g
              /\ i \in 1..Len(awaiters[Token(k)]) /\ awaiters[Token(k)][i] = g
                    => (Called(k, i)' <=> Called(k, i))
    PROVE  Callbacks(g)' = Callbacks(g)
  <1>1. \A x \in Tasks \X Nat :
           /\ x[2] \in 1..Len(awaiters'[Token(x[1])])
           /\ awaiters'[Token(x[1])][x[2]] = g /\ Called(x[1], x[2])'
           <=> /\ x[2] \in 1..Len(awaiters[Token(x[1])])
               /\ awaiters[Token(x[1])][x[2]] = g /\ Called(x[1], x[2])
    <2>1. SUFFICES ASSUME NEW k \in Tasks, NEW i \in Nat
                   PROVE  /\ i \in 1..Len(awaiters'[Token(k)])
                          /\ awaiters'[Token(k)][i] = g /\ Called(k, i)'
                          <=> /\ i \in 1..Len(awaiters[Token(k)])
                              /\ awaiters[Token(k)][i] = g /\ Called(k, i)
      OBVIOUS
    <2>. QED  OBVIOUS
  <1>. QED  BY <1>1, CallbacksSet, CallbacksSetNext

\* So does one that only moves routines that are not emplacing.
LEMMA CallbacksCalm ==
    ASSUME NEW g \in Groups, awaiters' = awaiters,
           \A k \in Tasks : SameControl(k) \/ EarlyMove(k)
    PROVE  Callbacks(g)' = Callbacks(g)
  <1>1. ASSUME NEW k \in Tasks, NEW i \in Nat
        PROVE  Called(k, i)' <=> Called(k, i)
    <2>1. CASE SameControl(k)
      BY <2>1 DEF SameControl, Called, Current
    <2>2. CASE EarlyMove(k)
      BY <2>2 DEF EarlyMove, Called, Before, Past
    <2>. QED  BY <2>1, <2>2
  <1>. QED  BY <1>1, CallbacksFrame

-----------------------------------------------------------------------------
(* What a step leaves alone.                                               *)

\* Routine s makes no call that creates or drops an object.
Holding(s) ==
    \/ pc'[s] = pc[s]
    \/ pc'[s] = pc[s] + 1 /\ ~AtEnd(s) /\ Instr(s).op \notin {"execute", "createGroup", "drop"}

LEMMA CreatedFrame ==
    ASSUME TypeOK, NEW o,
           \A s \in Routines :
              \/ pc'[s] = pc[s]
              \/ pc'[s] = pc[s] + 1 /\ ~Creates(Instr(s), o)
    PROVE  Created(o)' <=> Created(o)
  <1>1. ASSUME NEW s \in Routines, NEW i \in DOMAIN Code[s], Creates(Code[s][i], o)
        PROVE  i < pc'[s] <=> i < pc[s]
    <2>1. i \in Nat /\ pc[s] \in Nat
      BY CallType DEF TypeOK
    <2>. QED  BY <1>1, <2>1 DEF Instr
  <1>. QED  BY <1>1 DEF Created

LEMMA ProgramHoldsFrame ==
    ASSUME TypeOK, NEW o,
           \A s \in Routines :
              \/ pc'[s] = pc[s]
              \/ pc'[s] = pc[s] + 1 /\ ~Drops(Instr(s), o)
    PROVE  ProgramHolds(o)' <=> ProgramHolds(o)
  <1>1. ASSUME NEW s \in Routines, NEW i \in Int, Drops(Code[s][i], o)
        PROVE  i \in pc'[s]..Len(Code[s]) <=> i \in pc[s]..Len(Code[s])
    <2>1. pc[s] \in Nat /\ Code[s] \in Seq(Instructions)
      BY CodeAssumption DEF TypeOK
    <2>2. Len(Code[s]) \in Nat
      BY <2>1
    <2>. QED  BY <1>1, <2>1, <2>2 DEF Instr
  <1>2. ProgramHolds(o) <=> \E s \in Routines : \E i \in Int :
           i \in pc[s]..Len(Code[s]) /\ Drops(Code[s][i], o)
    BY DEF ProgramHolds, Drops
  <1>3. ProgramHolds(o)' <=> \E s \in Routines : \E i \in Int :
           i \in pc'[s]..Len(Code[s]) /\ Drops(Code[s][i], o)
    BY DEF ProgramHolds, Drops
  <1>. QED  BY <1>1, <1>2, <1>3

\* The holders that a step does not change keep the counts right.
LEMMA MemoryStep ==
    ASSUME TypeOK, MInv, UNCHANGED <<refs, life>>,
           \A s \in Routines : Holding(s),
           \A k \in Tasks :
              /\ step'[k] = "new" <=> step[k] = "new"
              /\ step'[k] = "done" <=> step[k] = "done"
              /\ cell'[k] = cell[k],
           \A g \in Groups : Callbacks(g)' = Callbacks(g)
    PROVE  MInv'
  <1>1. \A o : Created(o)' <=> Created(o)
    BY CreatedFrame DEF Holding, Creates
  <1>2. \A o : ProgramHolds(o)' <=> ProgramHolds(o)
    BY ProgramHoldsFrame DEF Holding, Drops
  <1>3. \A k \in Tasks : \A n : TaskHolds(k, n)' <=> TaskHolds(k, n)
    BY DEF TaskHolds
  <1>4. LifeOK' /\ StartedOK'
    BY <1>1 DEF MInv, LifeOK, StartedOK
  <1>5. CellRefsOK'
    BY <1>1, <1>2, <1>3 DEF MInv, CellRefsOK
  <1>6. GroupRefsOK'
    BY <1>1, <1>2 DEF MInv, GroupRefsOK
  <1>. QED  BY <1>4, <1>5, <1>6 DEF MInv

-----------------------------------------------------------------------------
(* Steps that neither take nor give up a reference.                        *)

\* No task is at its end before or after the step, or it stays there.
LEMMA EarlyMemory ==
    ASSUME TypeOK, MInv, UNCHANGED <<refs, life, awaiters, cell>>,
           \A s \in Routines : Holding(s),
           \A k \in Tasks : step'[k] = "new" <=> step[k] = "new",
           \A k \in Tasks : SameControl(k) \/ EarlyMove(k)
    PROVE  MInv'
  <1>1. \A k \in Tasks : step'[k] = "done" <=> step[k] = "done"
    BY DEF SameControl, EarlyMove, Before
  <1>2. \A g \in Groups : Callbacks(g)' = Callbacks(g)
    BY CallbacksCalm
  <1>. QED  BY <1>1, <1>2, MemoryStep

LEMMA TakeTaskMInv ==
    ASSUME IInv, GInv, MInv, NEW w \in Workers, TakeTask(w)
    PROVE  MInv'
  <1>. DEFINE k == Head(queue)
  <1>1. /\ queue # <<>> /\ step' = [step EXCEPT ![k] = "run"]
        /\ UNCHANGED <<pc, cell, next, refs, life, awaiters>>
    BY DEF TakeTask, objects
  <1>2. k \in Routines /\ step[k] = "queued"
    BY <1>1 DEF IInv, TypeOK, GInv, StartsOK, Routines
  <1>. HIDE DEF k
  <1>3. \A s \in Routines : SameControl(s) \/ EarlyMove(s)
    BY <1>1, <1>2 DEF IInv, TypeOK, SameControl, EarlyMove, Before
  <1>4. \A s \in Routines : step'[s] = "new" <=> step[s] = "new"
    BY <1>1, <1>2 DEF IInv, TypeOK
  <1>. QED  BY <1>1, <1>3, <1>4, EarlyMemory DEF Holding, Routines, IInv

LEMMA EarlyActionsMInv ==
    ASSUME IInv, GInv, MInv, NEW t \in Threads, NEW r \in Routines,
           \/ AddLockToken(t, r) \/ AddUnlock(t, r)
           \/ AwaitPass(t, r) \/ AwaitBlock(t, r) \/ SpuriousWakeup(t, r)
           \/ MainReturn(t, r) \/ EndTask(t, r) \/ Load(t, r) \/ Store(t, r)
    PROVE  MInv'
  <1>1. /\ step[r] = "wait" => ~AtEnd(r) /\ Instr(r).op = "await"
        /\ step[r] = "adding" => ~AtEnd(r) /\ Instr(r).op = "add"
    BY DEF IInv, ControlOK, RoutineOK
  <1>2. UNCHANGED <<refs, life, awaiters, cell, next>>
    BY DEF AddLockToken, AddUnlock, AwaitPass, AwaitBlock, SpuriousWakeup, MainReturn,
           EndTask, Load, Store, control, objects
  <1>3. /\ \/ pc' = pc
           \/ /\ pc' = [pc EXCEPT ![r] = @ + 1]
              /\ ~AtEnd(r) /\ Instr(r).op \notin {"execute", "createGroup", "drop"}
        /\ step[r] \in {"run", "wait", "adding"}
        /\ \/ step' = step
           \/ \E x \in {"run", "wait", "addLocked", "emplace"} : step' = [step EXCEPT ![r] = x]
           \/ r = Main /\ step' = [step EXCEPT ![r] = "done"]
    BY <1>1 DEF AddLockToken, AddUnlock, AwaitPass, AwaitBlock, SpuriousWakeup, MainReturn,
           EndTask, Load, Store, AtCall, control
  <1>4. \A s \in Routines : Holding(s)
    BY <1>3 DEF Holding, IInv, TypeOK
  <1>5. ASSUME NEW k \in Tasks
        PROVE  SameControl(k) \/ EarlyMove(k)
    <2>1. k \in Routines /\ k # Main
      BY CodeAssumption DEF Routines
    <2>2. CASE k # r
      BY <1>2, <1>3, <2>1, <2>2 DEF IInv, TypeOK, SameControl
    <2>3. CASE k = r
      BY <1>2, <1>3, <2>1, <2>3 DEF IInv, TypeOK, EarlyMove, Before
    <2>. QED  BY <2>2, <2>3
  <1>6. \A k \in Tasks : step'[k] = "new" <=> step[k] = "new"
    BY <1>3 DEF IInv, TypeOK, Routines
  <1>. QED  BY <1>2, <1>4, <1>5, <1>6, EarlyMemory DEF IInv

\* Resuming a coroutine neither takes nor gives up a reference.
LEMMA ResumeMemory ==
    ASSUME IInv, NEW t \in Threads, NEW r \in Routines, NEW s \in Routines, NEW o,
           Suspended(s, o), Resume(t, r, s)
    PROVE  /\ \A q \in Routines : Holding(q)
           /\ step[s] = "suspended" /\ step'[s] = "run"
           /\ \A q \in Routines \ {s} : pc'[q] = pc[q] /\ step'[q] = step[q]
  BY DEF Suspended, Awaits, Resume, Holding, IInv, TypeOK

LEMMA RunGroupAwaiterMInv ==
    ASSUME IInv, GInv, MInv, NEW t \in Threads, NEW r \in Routines, RunGroupAwaiter(t, r)
    PROVE  MInv'
  <1>1. /\ step[r] \in {"adding", "callback"} /\ gnext[r] <= Len(awaiters[GroupOf(r)])
        /\ Resume(t, r, awaiters[GroupOf(r)][gnext[r]])
        /\ UNCHANGED <<refs, life, awaiters, cell, next>>
    BY DEF RunGroupAwaiter, objects
  <1>. PICK s \in Routines : s = awaiters[GroupOf(r)][gnext[r]]
    BY <1>1, NextGroupAwaiter
  <1>2. Suspended(s, GroupOf(r)) /\ Resume(t, r, s)
    BY <1>1, NextGroupAwaiter
  <1>3. /\ \A q \in Routines : Holding(q)
        /\ step[s] = "suspended" /\ step'[s] = "run"
        /\ \A q \in Routines \ {s} : pc'[q] = pc[q] /\ step'[q] = step[q]
    BY <1>2, ResumeMemory
  <1>4. \A q \in Routines : SameControl(q) \/ EarlyMove(q)
    BY <1>1, <1>3 DEF SameControl, EarlyMove, Before
  <1>. QED  BY <1>1, <1>3, <1>4, EarlyMemory DEF IInv, Routines

LEMMA AwaitSuspendMInv ==
    ASSUME IInv, GInv, MInv, NEW t \in Threads, NEW r \in Routines, AwaitSuspend(t, r)
    PROVE  MInv'
  <1>. PICK o : o = Instr(r).obj
    OBVIOUS
  <1>1. /\ step[r] = "run" /\ ~AtEnd(r) /\ Instr(r).op = "await"
        /\ awaiters' = [awaiters EXCEPT ![o] = Append(@, r)]
        /\ step' = [step EXCEPT ![r] = "suspended"]
        /\ UNCHANGED <<pc, cell, next, refs, life>>
    BY DEF AwaitSuspend, AtCall
  <1>2. o \in Objects /\ r \notin Groups
    <2>1. Instr(r) \in Instructions
      BY <1>1, InstrType DEF IInv
    <2>. QED  BY <1>1, <2>1, CodeAssumption DEF Instructions
  <1>3. /\ \A p \in Objects : \A i \in DOMAIN awaiters[p] :
              i \in DOMAIN awaiters'[p] /\ awaiters'[p][i] = awaiters[p][i]
        /\ \A p \in Objects : \A i \in DOMAIN awaiters'[p] :
              \/ i \in DOMAIN awaiters[p] /\ awaiters'[p][i] = awaiters[p][i]
              \/ p = o /\ i = Len(awaiters[o]) + 1 /\ awaiters'[p][i] = r
        /\ \A p \in Objects : DOMAIN awaiters[p] = 1..Len(awaiters[p])
        /\ \A p \in Objects : DOMAIN awaiters'[p] = 1..Len(awaiters'[p])
    <2>1. TypeOK /\ r \in Routines \cup Groups
      BY DEF IInv
    <2>. QED  BY <1>1, <1>2, <2>1, LeftInAwaiters
  <1>4. \A q \in Routines : SameControl(q) \/ EarlyMove(q)
    BY <1>1 DEF IInv, TypeOK, SameControl, EarlyMove, Before
  <1>5. ASSUME NEW g \in Groups
        PROVE  Callbacks(g)' = Callbacks(g)
    <2>1. \A k \in Tasks : Token(k) \in Objects
      BY CurrentToken DEF IInv
    <2>2. \A k \in Tasks : \A i \in Nat :
             i \in 1..Len(awaiters'[Token(k)]) /\ awaiters'[Token(k)][i] = g
                <=> i \in 1..Len(awaiters[Token(k)]) /\ awaiters[Token(k)][i] = g
      BY <1>2, <1>3, <2>1
    <2>3. ASSUME NEW k \in Tasks, NEW i \in Nat
          PROVE  Called(k, i)' <=> Called(k, i)
      <3>1. CASE SameControl(k)
        BY <3>1 DEF SameControl, Called, Current
      <3>2. CASE EarlyMove(k)
        BY <3>2 DEF EarlyMove, Called, Before, Past
      <3>. QED  BY <1>4, <3>1, <3>2 DEF Routines
    <2>. QED  BY <2>2, <2>3, CallbacksFrame
  <1>6. /\ \A s \in Routines : Holding(s)
        /\ \A k \in Tasks :
              /\ step'[k] = "new" <=> step[k] = "new"
              /\ step'[k] = "done" <=> step[k] = "done"
              /\ cell'[k] = cell[k]
    BY <1>1 DEF Holding, IInv, TypeOK, Routines
  <1>. QED  BY <1>1, <1>5, <1>6, MemoryStep DEF IInv

\* Emplacing a cell moves no reference until a callback or the cell is dropped.
LEMMA LateMemory ==
    ASSUME IInv, MInv, NEW r \in Tasks, UNCHANGED <<refs, life, awaiters, cell, pc>>,
           step[r] \notin {"new", "done"}, step'[r] \notin {"new", "done"},
           \A s \in Routines \ {r} : SameControl(s),
           \A i \in DOMAIN awaiters[Token(r)] : Called(r, i)' <=> Called(r, i)
    PROVE  MInv'
  <1>1. r \in Routines /\ Token(r) \in Objects
    BY CurrentToken DEF Routines, IInv
  <1>2. \A k \in Tasks : step'[k] = "new" <=> step[k] = "new"
    BY <1>1 DEF SameControl, Routines
  <1>3. \A k \in Tasks : step'[k] = "done" <=> step[k] = "done"
    BY <1>1 DEF SameControl, Routines
  <1>4. ASSUME NEW g \in Groups
        PROVE  Callbacks(g)' = Callbacks(g)
    <2>1. ASSUME NEW k \in Tasks, NEW i \in Nat, i \in 1..Len(awaiters[Token(k)])
          PROVE  Called(k, i)' <=> Called(k, i)
      <3>1. CASE k = r
        <4>1. awaiters[Token(r)] \in Seq(Routines \cup Groups)
          BY <1>1 DEF IInv, TypeOK
        <4>. QED  BY <2>1, <3>1, <4>1
      <3>2. CASE k # r
        <4>1. SameControl(k)
          BY <3>2 DEF Routines
        <4>. QED  BY <4>1 DEF SameControl, Called, Current
      <3>. QED  BY <3>1, <3>2
    <2>. QED  BY <2>1, CallbacksFrame
  <1>. QED  BY <1>2, <1>3, <1>4, MemoryStep DEF Holding, IInv

LEMMA LateActionsMInv ==
    ASSUME IInv, MInv, NEW t \in Threads, NEW r \in Routines,
           \/ EmplaceLock(t, r) \/ RunGroupCallback(t, r)
           \/ CallbackUnlock(t, r) \/ EmplaceUnlock(t, r)
    PROVE  MInv'
  <1>1. UNCHANGED <<refs, life, awaiters, cell, pc>>
    BY DEF EmplaceLock, RunGroupCallback, CallbackUnlock, EmplaceUnlock
  <1>2. \/ /\ step[r] = "emplace" /\ step' = [step EXCEPT ![r] = "awaiters"]
           /\ next' = [next EXCEPT ![r] = 1]
        \/ /\ step[r] \in {"awaiters", "callback"} /\ next' = next
           /\ \E x \in {"callback", "callbackDrop", "emplaceDrop"} :
                 step' = [step EXCEPT ![r] = x]
    BY DEF EmplaceLock, RunGroupCallback, CallbackUnlock, EmplaceUnlock, HasAwaiter
  <1>3. r \in Tasks
    BY <1>2 DEF IInv, ControlOK, RoutineOK
  <1>4. \A s \in Routines \ {r} : SameControl(s)
    BY <1>1, <1>2 DEF IInv, TypeOK, SameControl
  <1>5. step[r] \notin {"new", "done"} /\ step'[r] \notin {"new", "done"}
    BY <1>2 DEF IInv, TypeOK
  <1>6. ASSUME NEW i \in DOMAIN awaiters[Token(r)]
        PROVE  Called(r, i)' <=> Called(r, i)
    <2>1. i \in Nat /\ i >= 1
      <3>1. Token(r) \in Objects
        BY <1>3, CurrentToken DEF IInv
      <3>2. awaiters[Token(r)] \in Seq(Routines \cup Groups)
        BY <3>1 DEF IInv, TypeOK
      <3>. QED  BY <3>2
    <2>2. Current(r)' = Current(r)
      BY <1>1 DEF Current
    <2>3. CASE step[r] = "emplace"
      <3>1. next'[r] = 1
        BY <1>2, <2>3 DEF IInv, TypeOK
      <3>. QED  BY <2>1, <2>3, <3>1 DEF Called, Past
    <2>4. CASE step[r] # "emplace"
      <3>1. next' = next /\ step[r] \in Past /\ step'[r] \in Past
        BY <1>2, <2>4 DEF IInv, TypeOK, Past
      <3>. QED  BY <2>2, <3>1 DEF Called
    <2>. QED  BY <2>3, <2>4
  <1>. QED  BY <1>1, <1>3, <1>4, <1>5, <1>6, LateMemory

\* Running an awaiter that is a coroutine is not calling a group back.
LEMMA RunResumeAwaiterMInv ==
    ASSUME IInv, GInv, MInv, NEW t \in Threads, NEW r \in Routines, RunResumeAwaiter(t, r)
    PROVE  MInv'
  <1>1. /\ HasAwaiter(r) /\ step[r] = "awaiters"
        /\ awaiters[Current(r)][next[r]] \in Routines
        /\ Resume(t, r, awaiters[Current(r)][next[r]])
        /\ next' = [next EXCEPT ![r] = @ + 1]
        /\ UNCHANGED <<refs, life, awaiters, cell>>
    BY DEF RunResumeAwaiter, HasAwaiter, objects
  <1>. PICK s \in Routines : s = awaiters[Current(r)][next[r]]
    BY <1>1
  <1>2. Suspended(s, Current(r)) /\ Resume(t, r, s)
    BY <1>1, NextAwaiter
  <1>3. /\ \A q \in Routines : Holding(q)
        /\ step[s] = "suspended" /\ step'[s] = "run"
        /\ \A q \in Routines \ {s} : pc'[q] = pc[q] /\ step'[q] = step[q]
    BY <1>2, ResumeMemory
  <1>4. r \in Tasks
    BY <1>1 DEF IInv, ControlOK, RoutineOK
  <1>5. ASSUME NEW g \in Groups
        PROVE  Callbacks(g)' = Callbacks(g)
    <2>1. ASSUME NEW k \in Tasks, NEW i \in Nat,
                 i \in 1..Len(awaiters[Token(k)]), awaiters[Token(k)][i] = g
          PROVE  Called(k, i)' <=> Called(k, i)
      <3>1. Current(k)' = Current(k) /\ k \in Routines
        BY <1>1 DEF Current, Routines
      <3>2. CASE k = s
        BY <1>3, <3>2 DEF Called, Past
      <3>3. CASE k # s /\ k # r
        <4>1. step'[k] = step[k] /\ next'[k] = next[k]
          BY <1>1, <1>3, <3>1, <3>3 DEF IInv, TypeOK
        <4>. QED  BY <3>1, <4>1 DEF Called
      <3>4. CASE k = r /\ k # s
        <4>1. step'[k] = step[k] /\ next'[k] = next[k] + 1 /\ next[k] \in Nat
          BY <1>1, <1>3, <3>1, <3>4 DEF IInv, TypeOK
        <4>2. Current(k) = Token(k) => i # next[k]
          BY <1>1, <2>1, <3>4, CodeAssumption
        <4>. QED  BY <3>1, <4>1, <4>2 DEF Called
      <3>. QED  BY <3>2, <3>3, <3>4
    <2>. QED  BY <1>1, <2>1, CallbacksFrame
  <1>6. \A k \in Tasks : /\ step'[k] = "new" <=> step[k] = "new"
                         /\ step'[k] = "done" <=> step[k] = "done"
                         /\ cell'[k] = cell[k]
    BY <1>1, <1>3 DEF Routines
  <1>. QED  BY <1>1, <1>3, <1>5, <1>6, MemoryStep DEF IInv

-----------------------------------------------------------------------------
(* Steps that create objects or drop references.                           *)

\* Call i of r is the one that r makes and no call about o; or the one about it.
LEMMA CallMade ==
    ASSUME TypeOK, NEW r \in Routines, ~AtEnd(r), pc' = [pc EXCEPT ![r] = @ + 1]
    PROVE  /\ pc[r] \in DOMAIN Code[r] /\ Instr(r) = Code[r][pc[r]] /\ pc[r] \in Nat
           /\ \A o : ~Creates(Instr(r), o) => (Created(o)' <=> Created(o))
           /\ \A o : Creates(Instr(r), o) => Created(o)'
           /\ \A o : ~Drops(Instr(r), o) => (ProgramHolds(o)' <=> ProgramHolds(o))
  <1>1. pc[r] \in DOMAIN Code[r] /\ Instr(r) = Code[r][pc[r]] /\ pc[r] \in Nat
    BY CodeAssumption DEF TypeOK, AtEnd, Instr
  <1>2. pc'[r] = pc[r] + 1 /\ \A s \in Routines \ {r} : pc'[s] = pc[s]
    BY DEF TypeOK
  <1>3. \A o : ~Creates(Instr(r), o) => (Created(o)' <=> Created(o))
    BY <1>2, CreatedFrame
  <1>4. \A o : ~Drops(Instr(r), o) => (ProgramHolds(o)' <=> ProgramHolds(o))
    BY <1>2, ProgramHoldsFrame
  <1>5. \A o : Creates(Instr(r), o) => Created(o)'
    BY <1>1, <1>2 DEF Created
  <1>. QED  BY <1>1, <1>3, <1>4, <1>5

\* The call that creates an object finds it not created, and leaves its drop.
LEMMA CreatingCall ==
    ASSUME TypeOK, NEW r \in Routines, ~AtEnd(r), pc' = [pc EXCEPT ![r] = @ + 1],
           NEW o \in Objects, Creates(Instr(r), o)
    PROVE  ~Created(o) /\ Created(o)' /\ ProgramHolds(o)'
  <1>1. pc[r] \in DOMAIN Code[r] /\ Instr(r) = Code[r][pc[r]] /\ pc[r] \in Nat
    BY CallMade
  <1>2. ~Created(o)
    <2>1. SUFFICES ASSUME NEW s \in Routines, NEW i \in DOMAIN Code[s],
                          Creates(Code[s][i], o), i < pc[s]
                   PROVE  FALSE
      BY DEF Created
    <2>2. s = r /\ i = pc[r]
      BY <1>1, <2>1, CallOrder
    <2>. QED  BY <1>1, <2>1, <2>2
  <1>3. PICK m \in DOMAIN Code[r] :
           pc[r] < m /\ m \in 1..Len(Code[r]) /\ Drops(Code[r][m], o)
    BY <1>1, DropToCome
  <1>4. Len(Code[r]) \in Nat
    BY CodeAssumption
  <1>5. m \in pc'[r]..Len(Code[r])
    BY <1>1, <1>3, <1>4 DEF TypeOK
  <1>6. ProgramHolds(o)'
    BY <1>3, <1>5 DEF ProgramHolds, Drops
  <1>. QED  BY <1>2, <1>6, CallMade

\* The call that drops an object is the program's last hold on it.
LEMMA DroppingCall ==
    ASSUME TypeOK, NEW r \in Routines, ~AtEnd(r), pc' = [pc EXCEPT ![r] = @ + 1],
           NEW o \in Objects, Drops(Instr(r), o)
    PROVE  Created(o) /\ ProgramHolds(o) /\ Created(o)' /\ ~ProgramHolds(o)'
  <1>1. pc[r] \in DOMAIN Code[r] /\ Instr(r) = Code[r][pc[r]] /\ pc[r] \in Nat
    BY CallMade
  <1>2. Created(o) /\ ProgramHolds(o)
    BY <1>1, InUse
  <1>3. Created(o)'
    <2>1. ~Creates(Instr(r), o)
      BY DEF Creates, Drops
    <2>. QED  BY <1>2, <2>1, CallMade
  <1>4. ~ProgramHolds(o)'
    <2>1. SUFFICES ASSUME NEW s \in Routines, NEW i \in pc'[s]..Len(Code[s]),
                          Drops(Code[s][i], o)
                   PROVE  FALSE
      BY DEF ProgramHolds, Drops
    <2>2. Code[s] \in Seq(Instructions) /\ pc'[s] \in Nat \ {0}
      <3>1. pc'[s] = pc[s] \/ pc'[s] = pc[s] + 1
        BY DEF TypeOK
      <3>2. pc[s] \in Nat \ {0}
        BY DEF TypeOK
      <3>. QED  BY <3>1, <3>2, CodeAssumption
    <2>3. i \in DOMAIN Code[s] /\ i \in Nat /\ i >= pc'[s]
      <3>1. Len(Code[s]) \in Nat /\ DOMAIN Code[s] = 1..Len(Code[s])
        BY <2>2
      <3>. QED  BY <2>2, <3>1
    <2>4. s = r /\ i = pc[r]
      BY <1>1, <2>1, <2>3, CallOrder
    <2>. QED  BY <1>1, <2>3, <2>4 DEF TypeOK
  <1>. QED  BY <1>2, <1>3, <1>4

LEMMA ExecuteMInv ==
    ASSUME IInv, GInv, MInv, NEW t \in Threads, NEW r \in Routines, Execute(t, r)
    PROVE  MInv'
  <1>. PICK k : k = Instr(r).task
    OBVIOUS
  <1>. PICK O : O = {c \in Cells : c \in {Token(k), Value(k)}}
    OBVIOUS
  <1>1. /\ ~AtEnd(r) /\ step[r] = "run" /\ Instr(r).op = "execute"
        /\ Create(O, 2)
        /\ step' = [step EXCEPT ![k] = "queued"]
        /\ pc' = [pc EXCEPT ![r] = @ + 1]
        /\ UNCHANGED <<cell, next, awaiters>>
    BY DEF Execute, AtCall
  <1>2. pc[r] \in DOMAIN Code[r] /\ Instr(r) = Code[r][pc[r]] /\ pc[r] \in Nat
    BY <1>1, CallMade DEF IInv
  <1>3. k \in Tasks /\ k \in Routines /\ Token(k) \in Objects
    BY <1>1, <1>2, CallType, CurrentToken DEF IInv, Routines
  <1>4. \A o : Creates(Instr(r), o) <=> o \in O
    BY <1>1 DEF Creates
  <1>5. step[k] = "new" /\ cell[k] = 1
    <2>1. Creates(Code[r][pc[r]], Token(k))
      BY <1>1, <1>2, <1>3 DEF Creates, Cells
    <2>2. step[k] = "new"
      BY <1>2, <1>3, <2>1 DEF GInv, StartsOK
    <2>. QED  BY <1>3, <2>2 DEF GInv, SettlesOK, Before
  <1>6. \A o \in O : ~Created(o) /\ Created(o)' /\ ProgramHolds(o)'
    BY <1>1, <1>4, CreatingCall DEF IInv, Objects
  <1>7. /\ \A o : o \notin O => (Created(o)' <=> Created(o))
        /\ \A o : ProgramHolds(o)' <=> ProgramHolds(o)
    <2>1. \A o : ~Drops(Instr(r), o)
      BY <1>1 DEF Drops
    <2>. QED  BY <1>1, <1>4, <2>1, CallMade DEF IInv
  <1>8. \A o \in Objects :
           /\ o \in O => refs'[o] = 2 /\ life'[o] = "live"
           /\ o \notin O => refs'[o] = refs[o] /\ life'[o] = life[o]
    BY <1>1 DEF Create
  <1>9. step'[k] = "queued" /\ \A j \in Tasks \ {k} : step'[j] = step[j]
    BY <1>1, <1>3 DEF IInv, TypeOK, Routines
  <1>10. LifeOK'
    BY <1>6, <1>7, <1>8 DEF MInv, LifeOK
  <1>11. StartedOK'
    <2>1. Token(k) \in O
      BY <1>3 DEF Cells
    <2>. QED  BY <1>6, <1>7, <1>9, <2>1 DEF MInv, StartedOK
  <1>12. CellRefsOK'
    <2>1. SUFFICES ASSUME NEW j \in Tasks, NEW n \in 1..Len(Emplaced(j)),
                          NEW c, c = Emplaced(j)[n], Created(c)'
                   PROVE  refs'[c] = (IF ProgramHolds(c)' THEN 1 ELSE 0)
                                     + (IF TaskHolds(j, n)' THEN 1 ELSE 0)
      BY DEF CellRefsOK
    <2>2. c \in Cells /\ c \in Objects
      BY <2>1, CellOwner
    <2>3. c \in O <=> j = k
      BY <1>1, <1>2, <1>4, <2>1, CellCreation
    <2>4. CASE j = k
      <3>1. TaskHolds(j, n)'
        BY <1>1, <1>5, <1>9, <2>4 DEF TaskHolds
      <3>. QED  BY <1>6, <1>8, <2>2, <2>3, <2>4, <3>1
    <2>5. CASE j # k
      <3>1. TaskHolds(j, n)' <=> TaskHolds(j, n)
        BY <1>1, <1>9, <2>5 DEF TaskHolds
      <3>. QED  BY <1>7, <1>8, <2>1, <2>2, <2>3, <2>5, <3>1 DEF MInv, CellRefsOK
    <2>. QED  BY <2>4, <2>5
  <1>13. GroupRefsOK'
    <2>1. \A g \in Groups : g \notin O /\ g \in Objects
      BY CodeAssumption DEF Objects
    <2>2. \A g \in Groups : Callbacks(g)' = Callbacks(g)
      <3>1. \A j \in Tasks : SameControl(j) \/ EarlyMove(j)
        BY <1>1, <1>5, <1>7, <1>9 DEF SameControl, EarlyMove, Before
      <3>. QED  BY <1>1, <3>1, CallbacksCalm
    <2>. QED  BY <1>7, <1>8, <2>1, <2>2 DEF MInv, GroupRefsOK
  <1>. QED  BY <1>10, <1>11, <1>12, <1>13 DEF MInv

\* Nothing calls a group back before it is created.
LEMMA NoCallbackYet ==
    ASSUME IInv, AwaitersOK, NEW g \in Groups, ~Created(g)
    PROVE  Callbacks(g) = {}
  <1>1. SUFFICES ASSUME NEW x \in Callbacks(g) PROVE FALSE
    OBVIOUS
  <1>2. /\ x \in Tasks \X Nat /\ x[2] \in 1..Len(awaiters[Token(x[1])])
        /\ awaiters[Token(x[1])][x[2]] = g
    BY <1>1, CallbacksSet
  <1>. PICK k \in Tasks, i \in Nat : k = x[1] /\ i = x[2]
    BY <1>2
  <1>3. i \in DOMAIN awaiters[Token(k)] /\ awaiters[Token(k)][i] = g
    <2>1. Token(k) \in Objects
      BY CurrentToken DEF IInv
    <2>2. awaiters[Token(k)] \in Seq(Routines \cup Groups)
      BY <2>1 DEF IInv, TypeOK
    <2>. QED  BY <1>2, <2>2
  <1>. QED  BY <1>3, CalledBackCreated

LEMMA CreateGroupMInv ==
    ASSUME IInv, GInv, MInv, NEW t \in Threads, NEW r \in Routines, CreateGroup(t, r)
    PROVE  MInv'
  <1>. PICK g : g = Instr(r).obj
    OBVIOUS
  <1>1. /\ ~AtEnd(r) /\ step[r] = "run" /\ Instr(r).op = "createGroup"
        /\ Create({g}, 1)
        /\ pc' = [pc EXCEPT ![r] = @ + 1]
        /\ UNCHANGED <<cell, next, awaiters, step>>
    BY DEF CreateGroup, AtCall
  <1>2. g \in Groups /\ g \in Objects /\ g \notin Cells
    BY <1>1, CallMade, CallType, CodeAssumption DEF IInv, Objects
  <1>3. \A o : Creates(Instr(r), o) <=> o = g
    BY <1>1 DEF Creates
  <1>4. ~Created(g) /\ Created(g)' /\ ProgramHolds(g)'
    BY <1>1, <1>2, <1>3, CreatingCall DEF IInv
  <1>5. /\ \A o : o # g => (Created(o)' <=> Created(o))
        /\ \A o : ProgramHolds(o)' <=> ProgramHolds(o)
    <2>1. \A o : ~Drops(Instr(r), o)
      BY <1>1 DEF Drops
    <2>. QED  BY <1>1, <1>3, <2>1, CallMade DEF IInv
  <1>6. /\ refs'[g] = 1 /\ life'[g] = "live"
        /\ \A o \in Objects : o # g => refs'[o] = refs[o] /\ life'[o] = life[o]
    BY <1>1, <1>2 DEF Create
  <1>7. \A j \in Tasks : Token(j) # g
    BY <1>2 DEF Cells
  <1>8. LifeOK' /\ StartedOK'
    BY <1>1, <1>2, <1>4, <1>5, <1>6, <1>7 DEF MInv, LifeOK, StartedOK
  <1>9. CellRefsOK'
    <2>1. SUFFICES ASSUME NEW j \in Tasks, NEW n \in 1..Len(Emplaced(j)),
                          NEW c, c = Emplaced(j)[n], Created(c)'
                   PROVE  refs'[c] = (IF ProgramHolds(c)' THEN 1 ELSE 0)
                                     + (IF TaskHolds(j, n)' THEN 1 ELSE 0)
      BY DEF CellRefsOK
    <2>2. c \in Objects /\ c # g
      BY <1>2, <2>1, CellOwner
    <2>3. TaskHolds(j, n)' <=> TaskHolds(j, n)
      BY <1>1 DEF TaskHolds
    <2>. QED  BY <1>5, <1>6, <2>1, <2>2, <2>3 DEF MInv, CellRefsOK
  <1>10. GroupRefsOK'
    <2>1. \A h \in Groups : Callbacks(h)' = Callbacks(h) /\ h \in Objects
      <3>1. \A k \in Tasks : \A i \in Nat : Called(k, i)' <=> Called(k, i)
        BY <1>1 DEF Called, Current
      <3>. QED  BY <1>1, <3>1, CallbacksFrame DEF Objects
    <2>2. Callbacks(g)' = {} /\ IsFiniteSet({}) /\ Cardinality({}) = 0
      BY <1>2, <1>4, <2>1, NoCallbackYet, FS_EmptySet DEF GInv
    <2>3. IsFiniteSet(Callbacks(g)') /\ refs'[g] = 1 + Cardinality(Callbacks(g)')
      BY <1>6, <2>2
    <2>. QED  BY <1>4, <1>5, <1>6, <2>1, <2>3 DEF MInv, GroupRefsOK
  <1>. QED  BY <1>8, <1>9, <1>10 DEF MInv

\* What dropping a reference to o leaves behind, if o has a count of n more.
LEMMA DropRefLife ==
    ASSUME TypeOK, LifeOK, NEW o \in Objects, DropRef(o), Created(o),
           \A p \in Objects : Created(p)' <=> Created(p), refs[o] # 0
    PROVE  /\ LifeOK' /\ refs'[o] = refs[o] - 1
           /\ \A p \in Objects : p # o => refs'[p] = refs[p]
  <1>1. refs'[o] = refs[o] - 1 /\ \A p \in Objects : p # o => refs'[p] = refs[p]
    BY DEF DropRef, TypeOK
  <1>2. /\ life'[o] = IF refs[o] = 1 THEN "deleted" ELSE life[o]
        /\ \A p \in Objects : p # o => life'[p] = life[p]
    BY DEF DropRef, TypeOK
  <1>3. refs[o] \in Int /\ refs'[o] \in Int
    BY <1>1 DEF TypeOK
  <1>4. life[o] = "live" /\ (refs[o] = 1 <=> refs'[o] = 0)
    BY <1>1, <1>3 DEF LifeOK
  <1>5. LifeOK'
    BY <1>1, <1>2, <1>4 DEF LifeOK
  <1>. QED  BY <1>1, <1>5

LEMMA DropMInv ==
    ASSUME IInv, GInv, MInv, NEW t \in Threads, NEW r \in Routines, Drop(t, r)
    PROVE  MInv'
  <1>. PICK o : o = Instr(r).obj
    OBVIOUS
  <1>1. /\ ~AtEnd(r) /\ step[r] = "run" /\ Instr(r).op = "drop"
        /\ DropRef(o)
        /\ pc' = [pc EXCEPT ![r] = @ + 1]
        /\ UNCHANGED <<cell, next, awaiters, step>>
    BY DEF Drop, AtCall
  <1>2. o \in Objects
    BY <1>1, CallMade, CallType DEF IInv
  <1>3. \A p : Drops(Instr(r), p) <=> p = o
    BY <1>1 DEF Drops
  <1>4. Created(o) /\ ProgramHolds(o) /\ ~ProgramHolds(o)'
    BY <1>1, <1>2, <1>3, DroppingCall DEF IInv
  <1>5. /\ \A p : Created(p)' <=> Created(p)
        /\ \A p : p # o => (ProgramHolds(p)' <=> ProgramHolds(p))
    <2>1. \A p : ~Creates(Instr(r), p)
      BY <1>1 DEF Creates
    <2>. QED  BY <1>1, <1>3, <2>1, CallMade DEF IInv
  <1>6. \A g \in Groups : /\ Callbacks(g)' = Callbacks(g) /\ g \in Objects
                          /\ Cardinality(Callbacks(g)) \in Nat
    <2>1. \A k \in Tasks : \A i \in Nat : Called(k, i)' <=> Called(k, i)
      BY <1>1 DEF Called, Current
    <2>. QED  BY <1>1, <2>1, CallbacksFrame, FS_CardinalityType DEF MInv, GroupRefsOK, Objects
  <1>7. \A k \in Tasks : \A n : TaskHolds(k, n)' <=> TaskHolds(k, n)
    BY <1>1 DEF TaskHolds
  <1>8. refs[o] # 0
    <2>1. CASE o \in Groups
      <3>1. refs[o] = 1 + Cardinality(Callbacks(o))
        BY <1>4, <2>1 DEF MInv, GroupRefsOK
      <3>. QED  BY <1>6, <2>1, <3>1
    <2>2. CASE o \in Cells
      <3>1. PICK k \in Tasks : \E n \in 1..Len(Emplaced(k)) : o = Emplaced(k)[n]
        BY <2>2, CellOwner
      <3>. QED  BY <1>4, <3>1 DEF MInv, CellRefsOK
    <2>. QED  BY <1>2, <2>1, <2>2 DEF Objects
  <1>9. /\ LifeOK' /\ refs'[o] = refs[o] - 1
        /\ \A p \in Objects : p # o => refs'[p] = refs[p]
    BY <1>1, <1>2, <1>4, <1>5, <1>8, DropRefLife DEF IInv, MInv
  <1>10. StartedOK'
    BY <1>1, <1>5 DEF MInv, StartedOK
  <1>11. CellRefsOK'
    <2>1. SUFFICES ASSUME NEW j \in Tasks, NEW n \in 1..Len(Emplaced(j)),
                          NEW c, c = Emplaced(j)[n], Created(c)'
                   PROVE  refs'[c] = (IF ProgramHolds(c)' THEN 1 ELSE 0)
                                     + (IF TaskHolds(j, n)' THEN 1 ELSE 0)
      BY DEF CellRefsOK
    <2>2. c \in Objects
      BY <2>1, CellOwner
    <2>3. refs[c] = (IF ProgramHolds(c) THEN 1 ELSE 0) + (IF TaskHolds(j, n) THEN 1 ELSE 0)
      BY <1>5, <2>1 DEF MInv, CellRefsOK
    <2>. QED  BY <1>4, <1>5, <1>7, <1>9, <2>2, <2>3
  <1>12. GroupRefsOK'
    <2>1. SUFFICES ASSUME NEW g \in Groups
                   PROVE  /\ IsFiniteSet(Callbacks(g))
                          /\ refs'[g] = (IF Created(g)' /\ ProgramHolds(g)' THEN 1 ELSE 0)
                                        + Cardinality(Callbacks(g))
      BY <1>6 DEF GroupRefsOK
    <2>2. /\ IsFiniteSet(Callbacks(g))
          /\ refs[g] = (IF Created(g) /\ ProgramHolds(g) THEN 1 ELSE 0)
                       + Cardinality(Callbacks(g))
      BY DEF MInv, GroupRefsOK
    <2>. QED  BY <1>4, <1>5, <1>6, <1>9, <2>2
  <1>. QED  BY <1>9, <1>10, <1>11, <1>12 DEF MInv

\* An add call works on a group and a token that the program holds.
LEMMA AddInUse ==
    ASSUME IInv, NEW r \in Routines, step[r] \in {"addLocked", "adding"}
    PROVE  LET k == Instr(r).task
               g == Instr(r).obj
           IN  /\ Created(g) /\ ProgramHolds(g)
               /\ Created(Token(k)) /\ ProgramHolds(Token(k))
  <1>. PICK k, g : k = Instr(r).task /\ g = Instr(r).obj
    OBVIOUS
  <1>1. ~AtEnd(r) /\ Instr(r).op = "add"
    BY DEF IInv, ControlOK, RoutineOK
  <1>2. pc[r] \in DOMAIN Code[r] /\ Instr(r) = Code[r][pc[r]] /\ pc[r] \in Nat
    BY <1>1, CodeAssumption DEF IInv, TypeOK, AtEnd, Instr
  <1>3. k \in Tasks /\ g \in Groups /\ g \in Objects /\ Token(k) \in Objects
    BY <1>1, <1>2, CallType DEF Objects, Cells
  <1>4. Adds(Code[r][pc[r]], g) /\ Adds(Code[r][pc[r]], Token(k))
    BY <1>1, <1>2 DEF Adds
  <1>5. Created(g) /\ ProgramHolds(g)
    BY <1>2, <1>3, <1>4, InUse DEF IInv
  <1>6. Created(Token(k)) /\ ProgramHolds(Token(k))
    BY <1>2, <1>3, <1>4, InUse DEF IInv
  <1>. QED  BY <1>5, <1>6

LEMMA AddReadyMInv ==
    ASSUME IInv, GInv, MInv, NEW t \in Threads, NEW r \in Routines, AddLockGroup(t, r),
           AddReady(r, Token(Instr(r).task), Instr(r).obj)
    PROVE  MInv'
  <1>1. /\ step[r] = "addLocked" /\ step' = [step EXCEPT ![r] = "adding"]
        /\ UNCHANGED <<refs, life, awaiters, cell, pc>>
    BY DEF AddLockGroup, AddReady
  <1>2. \A j \in Tasks : SameControl(j) \/ EarlyMove(j)
    BY AddStep
  <1>3. \A j \in Tasks : step'[j] = "new" <=> step[j] = "new"
    BY <1>1 DEF IInv, TypeOK, Routines
  <1>. QED  BY <1>1, <1>2, <1>3, EarlyMemory DEF Holding, IInv

LEMMA AddPendingMInv ==
    ASSUME IInv, GInv, MInv, NEW t \in Threads, NEW r \in Routines, AddLockGroup(t, r),
           AddPending(r, Token(Instr(r).task), Instr(r).obj)
    PROVE  MInv'
  <1>. PICK k, g : k = Instr(r).task /\ g = Instr(r).obj
    OBVIOUS
  <1>1. /\ step[r] = "addLocked" /\ step' = [step EXCEPT ![r] = "adding"]
        /\ ~Settled(Token(k))
        /\ refs' = [refs EXCEPT ![g] = @ + 1]
        /\ awaiters' = [awaiters EXCEPT ![Token(k)] = Append(@, g)]
        /\ UNCHANGED <<life, cell, pc>>
    BY DEF AddLockGroup, AddPending
  <1>2. /\ k \in Tasks /\ g \in Groups /\ g \in Objects /\ Token(k) \in Cells
        /\ \A j \in Tasks : SameControl(j) \/ EarlyMove(j)
    BY AddStep
  <1>3. Token(k) \in Objects
    BY <1>2 DEF Objects
  <1>. PICK l : l = Len(awaiters[Token(k)]) + 1
    OBVIOUS
  <1>4. /\ \A p \in Objects : p # Token(k) => awaiters'[p] = awaiters[p]
        /\ \A p \in Objects : \A i \in DOMAIN awaiters[p] :
              i \in DOMAIN awaiters'[p] /\ awaiters'[p][i] = awaiters[p][i]
        /\ \A p \in Objects : \A i \in DOMAIN awaiters'[p] :
              \/ i \in DOMAIN awaiters[p] /\ awaiters'[p][i] = awaiters[p][i]
              \/ p = Token(k) /\ i = l /\ awaiters'[p][i] = g
        /\ l \in DOMAIN awaiters'[Token(k)] /\ l \notin DOMAIN awaiters[Token(k)]
    <2>1. TypeOK /\ g \in Routines \cup Groups
      BY <1>2 DEF IInv
    <2>. PICK c : c = Token(k)
      OBVIOUS
    <2>2. c \in Objects /\ awaiters' = [awaiters EXCEPT ![c] = Append(@, g)]
      BY <1>1, <1>3
    <2>3. /\ \A p \in Objects : p # c => awaiters'[p] = awaiters[p]
          /\ \A p \in Objects : \A i \in DOMAIN awaiters[p] :
                i \in DOMAIN awaiters'[p] /\ awaiters'[p][i] = awaiters[p][i]
          /\ \A p \in Objects : \A i \in DOMAIN awaiters'[p] :
                \/ i \in DOMAIN awaiters[p] /\ awaiters'[p][i] = awaiters[p][i]
                \/ p = c /\ i = Len(awaiters[c]) + 1 /\ awaiters'[p][i] = g
          /\ Len(awaiters[c]) + 1 \in DOMAIN awaiters'[c]
          /\ Len(awaiters[c]) + 1 \notin DOMAIN awaiters[c]
      BY ONLY <2>1, <2>2, LeftInAwaiters
    <2>. QED  BY <2>3
  <1>5. \A p \in Objects : /\ DOMAIN awaiters[p] = 1..Len(awaiters[p])
                           /\ DOMAIN awaiters'[p] = 1..Len(awaiters'[p])
    BY <1>1, <1>2, <1>3, LeftInAwaiters DEF IInv, TypeOK
  <1>6. l \in Nat /\ awaiters'[Token(k)][l] = g
    BY <1>3, <1>4, <1>5
  <1>7. \A j \in Tasks : \A i \in Nat : Called(j, i)' <=> Called(j, i)
    <2>1. SUFFICES ASSUME NEW j \in Tasks, NEW i \in Nat PROVE Called(j, i)' <=> Called(j, i)
      OBVIOUS
    <2>2. CASE SameControl(j)
      BY <2>2 DEF SameControl, Called, Current
    <2>3. CASE EarlyMove(j)
      BY <2>3 DEF EarlyMove, Called, Before, Past
    <2>. QED  BY <1>2, <2>2, <2>3
  <1>8. Called(k, l)
    <2>1. ~(step[k] \in Past /\ Current(k) = Token(k))
      <3>1. /\ cell[k] \in 1..Len(Emplaced(k)) /\ Current(k) = Emplaced(k)[cell[k]]
            /\ cell[k] \in Nat
        BY <1>2, CurrentToken, EmplacedCells DEF IInv, TypeOK, Current
      <3>2. step[k] \in Past => Settled(Current(k))
        BY <1>2, <3>1 DEF GInv, SettlesOK
      <3>. QED  BY <1>1, <3>2
    <2>. QED  BY <2>1 DEF Called
  <1>9. Callbacks(g)' = Callbacks(g) \cup {<<k, l>>}
    <2>1. ASSUME NEW j \in Tasks, NEW i \in Nat
          PROVE  <<j, i>> \in Callbacks(g)' <=> <<j, i>> \in Callbacks(g) \/ (j = k /\ i = l)
      <3>1. Token(j) \in Objects /\ (Token(j) = Token(k) <=> j = k)
        BY <2>1 DEF Token, Objects, Cells
      <3>2. <<j, i>> \in Callbacks(g) <=>
               i \in 1..Len(awaiters[Token(j)]) /\ awaiters[Token(j)][i] = g /\ Called(j, i)
        BY <1>2, <2>1, CallbacksSet
      <3>3. <<j, i>> \in Callbacks(g)' <=>
               i \in 1..Len(awaiters'[Token(j)]) /\ awaiters'[Token(j)][i] = g /\ Called(j, i)'
        BY <1>2, <2>1, CallbacksSetNext
      <3>4. Called(j, i)' <=> Called(j, i)
        BY <1>7, <2>1
      <3>5. i \in 1..Len(awaiters'[Token(j)]) /\ awaiters'[Token(j)][i] = g <=>
               \/ i \in 1..Len(awaiters[Token(j)]) /\ awaiters[Token(j)][i] = g
               \/ j = k /\ i = l
        BY <1>4, <1>5, <1>6, <3>1
      <3>. QED  BY <1>8, <3>2, <3>3, <3>4, <3>5
    <2>2. Callbacks(g) \subseteq Tasks \X Nat /\ Callbacks(g)' \subseteq Tasks \X Nat
      BY <1>2, CallbacksSet, CallbacksSetNext
    <2>. QED  BY <1>2, <1>6, <2>1, <2>2
  <1>10. <<k, l>> \notin Callbacks(g)
    BY <1>2, <1>3, <1>4, <1>5, CallbacksSet
  <1>11. \A h \in Groups : h # g => Callbacks(h)' = Callbacks(h)
    <2>1. SUFFICES ASSUME NEW h \in Groups, h # g PROVE Callbacks(h)' = Callbacks(h)
      OBVIOUS
    <2>2. ASSUME NEW j \in Tasks, NEW i \in Nat
          PROVE  i \in 1..Len(awaiters'[Token(j)]) /\ awaiters'[Token(j)][i] = h
                    <=> i \in 1..Len(awaiters[Token(j)]) /\ awaiters[Token(j)][i] = h
      <3>1. Token(j) \in Objects
        BY <2>2 DEF Objects, Cells
      <3>. QED  BY <1>4, <1>5, <2>1, <3>1
    <2>. QED  BY <1>7, <2>1, <2>2, CallbacksFrame
  <1>12. Created(g) /\ ProgramHolds(g)
    BY <1>1, AddInUse
  <1>13. \A o : /\ Created(o)' <=> Created(o)
                /\ ProgramHolds(o)' <=> ProgramHolds(o)
    BY <1>1, CreatedFrame, ProgramHoldsFrame DEF IInv
  <1>14. refs'[g] = refs[g] + 1 /\ \A o \in Objects : o # g => refs'[o] = refs[o]
    BY <1>1, <1>2 DEF IInv, TypeOK
  <1>15. /\ IsFiniteSet(Callbacks(g)) /\ Cardinality(Callbacks(g)) \in Nat
         /\ refs[g] = 1 + Cardinality(Callbacks(g))
    BY <1>2, <1>12, FS_CardinalityType DEF MInv, GroupRefsOK
  <1>16. /\ IsFiniteSet(Callbacks(g)')
         /\ Cardinality(Callbacks(g)') = Cardinality(Callbacks(g)) + 1
    <2>. PICK C, D : C = Callbacks(g) /\ D = Callbacks(g)'
      OBVIOUS
    <2>1. D = C \cup {<<k, l>>} /\ <<k, l>> \notin C /\ IsFiniteSet(C)
      BY <1>9, <1>10, <1>15
    <2>2. IsFiniteSet(D) /\ Cardinality(D) = Cardinality(C) + 1
      <3>1. /\ IsFiniteSet(C \cup {<<k, l>>})
            /\ Cardinality(C \cup {<<k, l>>}) = Cardinality(C) + 1
        BY <2>1, FS_AddElement
      <3>. QED  BY <2>1, <3>1
    <2>. QED  BY <2>2
  <1>17. LifeOK'
    BY <1>1, <1>2, <1>12, <1>13, <1>14, <1>15 DEF MInv, LifeOK
  <1>18. StartedOK'
    BY <1>1, <1>13 DEF MInv, StartedOK, IInv, TypeOK, Routines
  <1>19. CellRefsOK'
    <2>1. SUFFICES ASSUME NEW j \in Tasks, NEW n \in 1..Len(Emplaced(j)),
                          NEW c, c = Emplaced(j)[n], Created(c)'
                   PROVE  refs'[c] = (IF ProgramHolds(c)' THEN 1 ELSE 0)
                                     + (IF TaskHolds(j, n)' THEN 1 ELSE 0)
      BY DEF CellRefsOK
    <2>2. c \in Objects /\ c # g
      BY <1>2, <2>1, CellOwner, CodeAssumption
    <2>3. TaskHolds(j, n)' <=> TaskHolds(j, n)
      BY <1>1 DEF TaskHolds, IInv, TypeOK, Routines
    <2>. QED  BY <1>13, <1>14, <2>1, <2>2, <2>3 DEF MInv, CellRefsOK
  <1>20. GroupRefsOK'
    <2>1. \A h \in Groups : h \in Objects
      BY DEF Objects
    <2>. QED  BY <1>11, <1>12, <1>13, <1>14, <1>15, <1>16, <2>1 DEF MInv, GroupRefsOK
  <1>. QED  BY <1>17, <1>18, <1>19, <1>20 DEF MInv

\* The callback that r is about to give up is still counted.
LEMMA CallbackHeld ==
    ASSUME IInv, GInv, MInv, NEW r \in Routines, step[r] \in {"callback", "callbackDrop"}
    PROVE  /\ r \in Tasks /\ Current(r) = Token(r) /\ Token(r) \in Objects
           /\ GroupOf(r) \in Groups /\ GroupOf(r) = awaiters[Token(r)][next[r]]
           /\ next[r] \in Nat /\ next[r] \in DOMAIN awaiters[Token(r)]
           /\ <<r, next[r]>> \in Callbacks(GroupOf(r)) /\ Created(GroupOf(r))
           /\ refs[GroupOf(r)] # 0
  <1>1. r \in Tasks /\ Current(r) = Token(r) /\ Token(r) \in Objects
    BY CallbackOnToken, CurrentToken DEF IInv, GInv
  <1>2. /\ GroupOf(r) \in Groups /\ GroupOf(r) = awaiters[Token(r)][next[r]]
        /\ next[r] <= Len(awaiters[Token(r)]) /\ next[r] \in Nat \ {0}
    BY <1>1, GroupOfType DEF IInv, GroupOf, ControlOK, RoutineOK, TypeOK
  <1>3. next[r] \in DOMAIN awaiters[Token(r)] /\ next[r] \in 1..Len(awaiters[Token(r)])
    <2>1. awaiters[Token(r)] \in Seq(Routines \cup Groups)
      BY <1>1 DEF IInv, TypeOK
    <2>. QED  BY <1>2, <2>1
  <1>. PICK g \in Groups : g = GroupOf(r)
    BY <1>2
  <1>4. <<r, next[r]>> \in Callbacks(g)
    <2>1. Called(r, next[r])
      BY <1>2 DEF Called
    <2>. QED  BY <1>1, <1>2, <1>3, <2>1, CallbacksSet
  <1>5. Created(g)
    BY <1>1, <1>2, <1>3, CalledBackCreated DEF GInv
  <1>6. refs[g] # 0
    <2>1. IsFiniteSet(Callbacks(g))
      BY DEF MInv, GroupRefsOK
    <2>2. Cardinality(Callbacks(g)) \in Nat /\ Cardinality(Callbacks(g)) # 0
      BY <1>4, <2>1, FS_EmptySet, FS_CardinalityType
    <2>. QED  BY <2>2 DEF MInv, GroupRefsOK
  <1>. QED  BY <1>1, <1>2, <1>3, <1>4, <1>5, <1>6

LEMMA CallbackDropMInv ==
    ASSUME IInv, GInv, MInv, NEW t \in Threads, NEW r \in Routines, CallbackDrop(t, r)
    PROVE  MInv'
  <1>. PICK g, n : g = GroupOf(r) /\ n = next[r]
    OBVIOUS
  <1>1. /\ step[r] = "callbackDrop" /\ step' = [step EXCEPT ![r] = "awaiters"]
        /\ DropRef(g) /\ next' = [next EXCEPT ![r] = @ + 1]
        /\ UNCHANGED <<pc, cell, awaiters>>
    BY DEF CallbackDrop
  <1>2. /\ r \in Tasks /\ Current(r) = Token(r) /\ Token(r) \in Objects
        /\ g \in Groups /\ g = awaiters[Token(r)][n]
        /\ n \in Nat /\ n \in DOMAIN awaiters[Token(r)]
        /\ <<r, n>> \in Callbacks(g) /\ Created(g) /\ refs[g] # 0
    BY <1>1, CallbackHeld
  <1>3. g \in Objects /\ step'[r] = "awaiters" /\ next'[r] = n + 1
    BY <1>1, <1>2 DEF IInv, TypeOK, Objects
  <1>4. \A s \in Routines \ {r} : step'[s] = step[s] /\ next'[s] = next[s]
    BY <1>1 DEF IInv, TypeOK
  <1>5. \A o : /\ Created(o)' <=> Created(o)
               /\ ProgramHolds(o)' <=> ProgramHolds(o)
    BY <1>1, CreatedFrame, ProgramHoldsFrame DEF IInv
  <1>6. /\ LifeOK' /\ refs'[g] = refs[g] - 1
        /\ \A p \in Objects : p # g => refs'[p] = refs[p]
    BY <1>1, <1>2, <1>3, <1>5, DropRefLife DEF IInv, MInv
  <1>7. ASSUME NEW j \in Tasks, NEW i \in Nat
        PROVE  Called(j, i)' <=> Called(j, i) /\ ~(j = r /\ i = n)
    <2>1. Current(j)' = Current(j) /\ j \in Routines
      BY <1>1 DEF Current, Routines
    <2>2. CASE j = r
      BY <1>1, <1>2, <1>3, <2>1, <2>2 DEF Called, Past
    <2>3. CASE j # r
      BY <1>4, <2>1, <2>3 DEF Called
    <2>. QED  BY <2>2, <2>3
  <1>8. ASSUME NEW h \in Groups
        PROVE  Callbacks(h)' = Callbacks(h) \ {<<r, n>>}
    <2>1. ASSUME NEW j \in Tasks, NEW i \in Nat
          PROVE  <<j, i>> \in Callbacks(h)' <=> <<j, i>> \in Callbacks(h) /\ ~(j = r /\ i = n)
      <3>1. <<j, i>> \in Callbacks(h) <=>
               i \in 1..Len(awaiters[Token(j)]) /\ awaiters[Token(j)][i] = h /\ Called(j, i)
        BY <1>8, <2>1, CallbacksSet
      <3>2. <<j, i>> \in Callbacks(h)' <=>
               i \in 1..Len(awaiters'[Token(j)]) /\ awaiters'[Token(j)][i] = h /\ Called(j, i)'
        BY <1>8, <2>1, CallbacksSetNext
      <3>. QED  BY <1>1, <1>7, <3>1, <3>2
    <2>2. Callbacks(h) \subseteq Tasks \X Nat /\ Callbacks(h)' \subseteq Tasks \X Nat
      BY <1>8, CallbacksSet, CallbacksSetNext
    <2>. QED  BY <2>1, <2>2
  <1>9. \A h \in Groups : h # g => Callbacks(h)' = Callbacks(h)
    <2>1. \A h \in Groups : h # g => <<r, n>> \notin Callbacks(h)
      BY <1>2, CallbacksSet
    <2>. QED  BY <1>8, <2>1
  <1>10. /\ IsFiniteSet(Callbacks(g)) /\ Cardinality(Callbacks(g)) \in Nat
         /\ IsFiniteSet(Callbacks(g)')
         /\ Cardinality(Callbacks(g)') = Cardinality(Callbacks(g)) - 1
    <2>. PICK C, D : C = Callbacks(g) /\ D = Callbacks(g)'
      OBVIOUS
    <2>1. D = C \ {<<r, n>>} /\ <<r, n>> \in C /\ IsFiniteSet(C)
      BY <1>2, <1>8 DEF MInv, GroupRefsOK
    <2>2. /\ IsFiniteSet(C \ {<<r, n>>}) /\ Cardinality(C) \in Nat
          /\ Cardinality(C \ {<<r, n>>}) = Cardinality(C) - 1
      BY <2>1, FS_RemoveElement, FS_CardinalityType
    <2>. QED  BY <2>1, <2>2
  <1>11. StartedOK'
    BY <1>1, <1>3, <1>4, <1>5 DEF MInv, StartedOK, Routines
  <1>12. CellRefsOK'
    <2>1. SUFFICES ASSUME NEW j \in Tasks, NEW m \in 1..Len(Emplaced(j)),
                          NEW c, c = Emplaced(j)[m], Created(c)'
                   PROVE  refs'[c] = (IF ProgramHolds(c)' THEN 1 ELSE 0)
                                     + (IF TaskHolds(j, m)' THEN 1 ELSE 0)
      BY DEF CellRefsOK
    <2>2. c \in Objects /\ c # g
      BY <1>2, <2>1, CellOwner, CodeAssumption
    <2>3. TaskHolds(j, m)' <=> TaskHolds(j, m)
      BY <1>1, <1>3, <1>4 DEF TaskHolds, Routines
    <2>. QED  BY <1>5, <1>6, <2>1, <2>2, <2>3 DEF MInv, CellRefsOK
  <1>13. GroupRefsOK'
    <2>1. ASSUME NEW h \in Groups, h # g
          PROVE  /\ IsFiniteSet(Callbacks(h)')
                 /\ refs'[h] = (IF Created(h)' /\ ProgramHolds(h)' THEN 1 ELSE 0)
                               + Cardinality(Callbacks(h)')
      <3>1. h \in Objects /\ Callbacks(h)' = Callbacks(h)
        BY <1>9, <2>1 DEF Objects
      <3>. QED  BY <1>5, <1>6, <2>1, <3>1 DEF MInv, GroupRefsOK
    <2>2. /\ IsFiniteSet(Callbacks(g)')
          /\ refs'[g] = (IF Created(g)' /\ ProgramHolds(g)' THEN 1 ELSE 0)
                        + Cardinality(Callbacks(g)')
      <3>1. refs[g] = (IF Created(g) /\ ProgramHolds(g) THEN 1 ELSE 0)
                      + Cardinality(Callbacks(g))
        BY <1>2 DEF MInv, GroupRefsOK
      <3>. QED  BY <1>5, <1>6, <1>10, <3>1
    <2>. QED  BY <2>1, <2>2 DEF GroupRefsOK
  <1>. QED  BY <1>6, <1>11, <1>12, <1>13 DEF MInv

LEMMA EmplaceDropMInv ==
    ASSUME IInv, GInv, MInv, NEW t \in Threads, NEW r \in Routines, EmplaceDrop(t, r)
    PROVE  MInv'
  <1>. PICK c, n : c = Current(r) /\ n = cell[r]
    OBVIOUS
  <1>1. /\ step[r] = "emplaceDrop" /\ DropRef(c) /\ UNCHANGED <<pc, next, awaiters>>
        /\ \/ /\ n < Len(Emplaced(r)) /\ cell' = [cell EXCEPT ![r] = @ + 1]
              /\ step' = [step EXCEPT ![r] = "emplace"]
           \/ /\ ~(n < Len(Emplaced(r))) /\ cell' = cell
              /\ step' = [step EXCEPT ![r] = "done"]
    BY DEF EmplaceDrop
  <1>2. r \in Tasks
    BY <1>1 DEF IInv, ControlOK, RoutineOK
  <1>3. /\ n \in 1..Len(Emplaced(r)) /\ n \in Nat /\ Len(Emplaced(r)) \in Nat
        /\ c = Emplaced(r)[n] /\ c \in Cells /\ c \in Objects
        /\ c = Token(r) <=> n = Len(Emplaced(r))
    BY <1>2, CurrentToken, EmplacedCells DEF IInv, Current
  <1>4. \A s \in Routines \ {r} : step'[s] = step[s] /\ cell'[s] = cell[s]
    BY <1>1 DEF IInv, TypeOK
  <1>5. \/ n < Len(Emplaced(r)) /\ cell'[r] = n + 1 /\ step'[r] = "emplace"
        \/ n = Len(Emplaced(r)) /\ cell'[r] = n /\ step'[r] = "done"
    BY <1>1, <1>3 DEF IInv, TypeOK
  <1>6. \A o : /\ Created(o)' <=> Created(o)
               /\ ProgramHolds(o)' <=> ProgramHolds(o)
    BY <1>1, CreatedFrame, ProgramHoldsFrame DEF IInv
  <1>7. \A m \in 1..Len(Emplaced(r)) : /\ TaskHolds(r, m) <=> m >= n
                                       /\ TaskHolds(r, m)' <=> m >= n /\ m # n
    BY <1>1, <1>3, <1>5 DEF TaskHolds
  <1>8. Created(c)
    BY <1>1, <1>2, <1>3, StartedCells DEF MInv
  <1>9. refs[c] # 0
    BY <1>2, <1>3, <1>7, <1>8 DEF MInv, CellRefsOK
  <1>10. /\ LifeOK' /\ refs'[c] = refs[c] - 1
         /\ \A p \in Objects : p # c => refs'[p] = refs[p]
    BY <1>1, <1>3, <1>6, <1>8, <1>9, DropRefLife DEF IInv, MInv
  <1>11. StartedOK'
    BY <1>1, <1>4, <1>5, <1>6 DEF MInv, StartedOK, Routines
  <1>12. CellRefsOK'
    <2>1. SUFFICES ASSUME NEW j \in Tasks, NEW m \in 1..Len(Emplaced(j)),
                          NEW d, d = Emplaced(j)[m], Created(d)'
                   PROVE  refs'[d] = (IF ProgramHolds(d)' THEN 1 ELSE 0)
                                     + (IF TaskHolds(j, m)' THEN 1 ELSE 0)
      BY DEF CellRefsOK
    <2>2. d \in Objects /\ (d = c <=> j = r /\ m = n)
      BY <1>2, <1>3, <2>1, CellOwner
    <2>3. refs[d] = (IF ProgramHolds(d) THEN 1 ELSE 0) + (IF TaskHolds(j, m) THEN 1 ELSE 0)
      BY <1>6, <2>1 DEF MInv, CellRefsOK
    <2>4. CASE d = c
      <3>1. TaskHolds(j, m) /\ ~TaskHolds(j, m)'
        BY <1>3, <1>7, <2>2, <2>4
      <3>. QED  BY <1>6, <1>10, <2>3, <2>4, <3>1
    <2>5. CASE d # c
      <3>1. TaskHolds(j, m)' <=> TaskHolds(j, m)
        <4>1. CASE j = r
          BY <1>7, <2>2, <2>5, <4>1
        <4>2. CASE j # r
          BY <1>4, <4>2 DEF TaskHolds, Routines
        <4>. QED  BY <4>1, <4>2
      <3>. QED  BY <1>6, <1>10, <2>2, <2>3, <2>5, <3>1
    <2>. QED  BY <2>4, <2>5
  <1>13. GroupRefsOK'
    <2>1. ASSUME NEW j \in Tasks, NEW i \in Nat
          PROVE  Called(j, i)' <=> Called(j, i)
      <3>1. CASE j = r
        <4>1. CASE n < Len(Emplaced(r))
          <5>1. step'[r] = "emplace" /\ Current(r) # Token(r)
            BY <1>3, <1>5, <4>1
          <5>. QED  BY <3>1, <5>1 DEF Called, Past
        <4>2. CASE n = Len(Emplaced(r))
          <5>1. step'[r] = "done" /\ Current(r)' = Current(r)
            BY <1>5, <1>3, <4>2 DEF Current
          <5>. QED  BY <1>1, <3>1, <5>1 DEF Called, Past
        <4>. QED  BY <1>5, <4>1, <4>2
      <3>2. CASE j # r
        <4>1. step'[j] = step[j] /\ Current(j)' = Current(j)
          BY <1>4, <3>2 DEF Current, Routines
        <4>. QED  BY <1>1, <4>1 DEF Called
      <3>. QED  BY <3>1, <3>2
    <2>2. \A g \in Groups : Callbacks(g)' = Callbacks(g) /\ g \in Objects /\ g # c
      BY <1>1, <1>3, <2>1, CallbacksFrame, CodeAssumption DEF Objects
    <2>. QED  BY <1>6, <1>10, <2>2 DEF MInv, GroupRefsOK
  <1>. QED  BY <1>10, <1>11, <1>12, <1>13 DEF MInv

-----------------------------------------------------------------------------
(* The invariant holds.                                                    *)

LEMMA InitMInv == Init => MInv
  <1>. SUFFICES ASSUME Init PROVE MInv
    OBVIOUS
  <1>1. IInv /\ AwaitersOK
    BY InitIInv, InitGInv DEF GInv
  <1>2. \A o : ~Created(o)
    <2>1. ASSUME NEW r \in Routines, NEW i \in DOMAIN Code[r]
          PROVE  ~(i < pc[r])
      BY <2>1, CallType DEF Init
    <2>. QED  BY <2>1 DEF Created
  <1>3. LifeOK /\ CellRefsOK
    BY <1>2 DEF Init, LifeOK, CellRefsOK
  <1>4. StartedOK
    BY <1>2, CodeAssumption DEF Init, StartedOK, Routines
  <1>5. GroupRefsOK
    <2>1. \A g \in Groups : Callbacks(g) = {} /\ refs[g] = 0
      BY <1>1, <1>2, NoCallbackYet DEF Init, Objects
    <2>2. IsFiniteSet({}) /\ Cardinality({}) = 0
      BY FS_EmptySet
    <2>. QED  BY <1>2, <2>1, <2>2 DEF GroupRefsOK
  <1>. QED  BY <1>3, <1>4, <1>5 DEF MInv

LEMMA StutterMInv ==
    ASSUME IInv, MInv, UNCHANGED <<control, objects>>
    PROVE  MInv'
  <1>1. UNCHANGED <<pc, step, cell, next, refs, life, awaiters>>
    BY DEF control, objects
  <1>2. \A g \in Groups : Callbacks(g)' = Callbacks(g)
    <2>1. \A k \in Tasks : \A i \in Nat : Called(k, i)' <=> Called(k, i)
      BY <1>1 DEF Called, Current
    <2>. QED  BY <1>1, <2>1, CallbacksFrame
  <1>. QED  BY <1>1, <1>2, MemoryStep DEF Holding, IInv

LEMMA NextMInv == IInv /\ GInv /\ MInv /\ [Next]_vars => MInv'
  <1>. SUFFICES ASSUME IInv, GInv, MInv, [Next]_vars PROVE MInv'
    OBVIOUS
  <1>1. ASSUME NEW t \in Threads, NEW r \in Routines, RoutineStep(t, r)
        PROVE  MInv'
    <2>1. CASE AddLockGroup(t, r)
      BY <2>1, AddReadyMInv, AddPendingMInv DEF AddLockGroup
    <2>. QED  BY <1>1, <2>1, ExecuteMInv, CreateGroupMInv, DropMInv, EarlyActionsMInv,
                 RunGroupAwaiterMInv, AwaitSuspendMInv, LateActionsMInv, RunResumeAwaiterMInv,
                 CallbackDropMInv, EmplaceDropMInv DEF RoutineStep
  <1>2. CASE Shutdown \/ UNCHANGED vars
    BY <1>2, StutterMInv DEF Shutdown, vars
  <1>. QED  BY <1>1, <1>2, TakeTaskMInv DEF Next, ThreadStep, Ended

\* The memory invariant holds in every run of every program.
THEOREM MemoryInv == Spec => [](IInv /\ GInv /\ MInv)
  <1>1. Spec => []IInv
    BY InitIInv, NextIInv, PTL DEF Spec
  <1>2. Spec => []MInv
    BY <1>1, GroupsInv, InitMInv, NextMInv, PTL DEF Spec
  <1>. QED  BY <1>1, <1>2, GroupsInv, PTL

\* Every reference count is the number of holders of its object.
THEOREM RefsCounted == Spec => []RefsAccounted
  <1>1. IInv /\ MInv => RefsAccounted
    <2>. SUFFICES ASSUME IInv, MInv PROVE RefsAccounted
      OBVIOUS
    <2>1. \A o \in Objects : life[o] = "live" => Created(o)
      BY DEF MInv, LifeOK
    <2>2. ASSUME NEW k \in Tasks, NEW n \in 1..Len(Emplaced(k)), life[Emplaced(k)[n]] = "live"
          PROVE  refs[Emplaced(k)[n]] = (IF ProgramHolds(Emplaced(k)[n]) THEN 1 ELSE 0)
                                        + (IF TaskHolds(k, n) THEN 1 ELSE 0)
      BY <2>1, <2>2, CellOwner DEF MInv, CellRefsOK
    <2>3. ASSUME NEW g \in Groups, life[g] = "live"
          PROVE  refs[g] = (IF ProgramHolds(g) THEN 1 ELSE 0) + Cardinality(Callbacks(g))
      BY <2>1, <2>3 DEF MInv, GroupRefsOK, Objects
    <2>. QED  BY <2>2, <2>3 DEF RefsAccounted, Callbacks
  <1>. QED  BY <1>1, MemoryInv, PTL

-----------------------------------------------------------------------------
(* Uses of an object.                                                      *)

\* What the program holds lives, and so does the cell that a task emplaces.
LEMMA HeldLives ==
    ASSUME IInv, MInv, NEW o \in Objects, Created(o), ProgramHolds(o)
    PROVE  life[o] = "live"
  <1>1. refs[o] # 0
    <2>1. CASE o \in Groups
      <3>1. IsFiniteSet(Callbacks(o)) /\ refs[o] = 1 + Cardinality(Callbacks(o))
        BY <2>1 DEF MInv, GroupRefsOK
      <3>2. Cardinality(Callbacks(o)) \in Nat
        BY <3>1, FS_CardinalityType
      <3>. QED  BY <3>1, <3>2
    <2>2. CASE o \in Cells
      <3>1. PICK k \in Tasks : \E n \in 1..Len(Emplaced(k)) : o = Emplaced(k)[n]
        BY <2>2, CellOwner
      <3>. QED  BY <3>1 DEF MInv, CellRefsOK
    <2>. QED  BY <2>1, <2>2 DEF Objects
  <1>. QED  BY <1>1 DEF MInv, LifeOK

LEMMA EmplacedLives ==
    ASSUME IInv, MInv, NEW k \in Tasks, step[k] \notin {"new", "done"}
    PROVE  life[Current(k)] = "live" /\ Current(k) \in Objects
  <1>1. /\ cell[k] \in 1..Len(Emplaced(k)) /\ cell[k] \in Nat
        /\ Current(k) = Emplaced(k)[cell[k]] /\ Current(k) \in Objects
    BY CurrentToken, EmplacedCells DEF IInv, Current
  <1>2. Created(Current(k))
    BY <1>1, StartedCells DEF MInv
  <1>3. TaskHolds(k, cell[k])
    BY <1>1 DEF TaskHolds
  <1>4. refs[Current(k)] # 0
    BY <1>1, <1>2, <1>3 DEF MInv, CellRefsOK
  <1>. QED  BY <1>1, <1>2, <1>4 DEF MInv, LifeOK

\* The group that an emplacing task calls back next lives.
LEMMA NextCallbackLives ==
    ASSUME IInv, GInv, MInv, NEW k \in Tasks, HasAwaiter(k), GroupOf(k) \in Groups
    PROVE  life[GroupOf(k)] = "live"
  <1>1. /\ step[k] = "awaiters" /\ GroupOf(k) = awaiters[Current(k)][next[k]]
        /\ next[k] <= Len(awaiters[Current(k)]) /\ next[k] \in Nat \ {0}
        /\ Current(k) \in Objects /\ Token(k) \in Objects
    <2>1. step[k] = "awaiters" /\ next[k] <= Len(awaiters[Current(k)])
      BY DEF HasAwaiter
    <2>2. next[k] \in Nat \ {0} /\ Current(k) \in Objects /\ Token(k) \in Objects
      BY CurrentToken DEF IInv, TypeOK, Routines
    <2>. QED  BY <2>1, <2>2 DEF GroupOf
  <1>2. next[k] \in DOMAIN awaiters[Current(k)] /\ next[k] \in 1..Len(awaiters[Current(k)])
    <2>1. awaiters[Current(k)] \in Seq(Routines \cup Groups)
      BY <1>1 DEF IInv, TypeOK
    <2>. QED  BY <1>1, <2>1
  <1>3. Current(k) = Token(k)
    <2>1. PICK j \in Tasks : Current(k) = Token(j)
      BY <1>1, <1>2 DEF GInv, AwaitersOK, AddedTo
    <2>2. Token(j) = Emplaced(j)[Len(Emplaced(j))] /\ Len(Emplaced(j)) \in 1..Len(Emplaced(j))
      BY CellOwner, EmplacedCells
    <2>3. Current(k) = Emplaced(k)[cell[k]] /\ cell[k] \in 1..Len(Emplaced(k))
      BY CurrentToken DEF Current, IInv
    <2>. QED  BY <2>1, <2>2, <2>3, CellOwner
  <1>. PICK g \in Groups : g = GroupOf(k)
    OBVIOUS
  <1>4. <<k, next[k]>> \in Callbacks(g)
    <2>1. Called(k, next[k])
      BY <1>1 DEF Called
    <2>. QED  BY <1>1, <1>2, <1>3, <2>1, CallbacksSet
  <1>5. Created(g)
    BY <1>1, <1>2, <1>3, CalledBackCreated DEF GInv
  <1>6. refs[g] # 0
    <2>1. IsFiniteSet(Callbacks(g))
      BY DEF MInv, GroupRefsOK
    <2>2. Cardinality(Callbacks(g)) \in Nat /\ Cardinality(Callbacks(g)) # 0
      BY <1>4, <2>1, FS_EmptySet, FS_CardinalityType
    <2>. QED  BY <2>2 DEF MInv, GroupRefsOK
  <1>. QED  BY <1>5, <1>6 DEF MInv, LifeOK, Objects

\* No step of a routine reads or writes an object that was deleted, or that
\* was never made.
THEOREM NoCallOnDeleted == Spec => []NoUseAfterFree
  <1>1. ASSUME IInv, GInv, MInv, NEW r \in Routines, NEW o \in Touched(r)
        PROVE  life[o] = "live"
    <2>1. CASE step[r] \in {"run", "wait"} /\ InCall(r, {"await", "drop"})
      <3>1. o = Instr(r).obj /\ ~AtEnd(r) /\ Instr(r).op \in {"await", "drop"}
        BY <1>1, <2>1 DEF Touched, InCall
      <3>2. pc[r] \in DOMAIN Code[r] /\ Instr(r) = Code[r][pc[r]] /\ pc[r] \in Nat
        BY <1>1, <3>1, CodeAssumption DEF IInv, TypeOK, AtEnd, Instr
      <3>3. o \in Objects /\ (Awaits(Code[r][pc[r]], o) \/ Drops(Code[r][pc[r]], o))
        BY <3>1, <3>2, CallType DEF Awaits, Drops
      <3>. QED  BY <1>1, <3>2, <3>3, InUse, HeldLives DEF IInv
    <2>2. CASE step[r] \in {"run", "addLocked", "adding"} /\ InCall(r, {"add"})
      <3>1. /\ o \in {Instr(r).obj, Token(Instr(r).task)}
            /\ ~AtEnd(r) /\ Instr(r).op = "add"
        <4>1. ~(step[r] \in {"run", "wait"} /\ InCall(r, {"await", "drop"}))
          BY <2>2 DEF InCall
        <4>. QED  BY <1>1, <2>2, <4>1 DEF Touched, InCall
      <3>2. pc[r] \in DOMAIN Code[r] /\ Instr(r) = Code[r][pc[r]] /\ pc[r] \in Nat
        BY <1>1, <3>1, CodeAssumption DEF IInv, TypeOK, AtEnd, Instr
      <3>3. o \in Objects /\ Adds(Code[r][pc[r]], o)
        BY <3>1, <3>2, CallType DEF Adds, Objects, Cells
      <3>. QED  BY <1>1, <3>2, <3>3, InUse, HeldLives DEF IInv
    <2>3. CASE step[r] \in {"emplace", "emplaceDrop", "awaiters", "callback", "callbackDrop"}
      <3>1. r \in Tasks
        BY <1>1, <2>3 DEF IInv, ControlOK, RoutineOK
      <3>2. life[Current(r)] = "live"
        BY <1>1, <2>3, <3>1, EmplacedLives
      <3>3. CASE step[r] \in {"emplace", "emplaceDrop"}
        BY <1>1, <3>2, <3>3 DEF Touched
      <3>4. CASE step[r] = "awaiters"
        <4>1. o = Current(r) \/ (HasAwaiter(r) /\ o = GroupOf(r) /\ GroupOf(r) \in Groups)
          BY <1>1, <3>4 DEF Touched
        <4>. QED  BY <1>1, <3>1, <3>2, <4>1, NextCallbackLives
      <3>5. CASE step[r] \in {"callback", "callbackDrop"}
        <4>1. o = Current(r) \/ o = GroupOf(r)
          BY <1>1, <3>5 DEF Touched
        <4>2. GroupOf(r) \in Objects /\ Created(GroupOf(r)) /\ refs[GroupOf(r)] # 0
          BY <1>1, <3>5, CallbackHeld DEF Objects
        <4>. QED  BY <1>1, <3>2, <4>1, <4>2 DEF MInv, LifeOK
      <3>. QED  BY <2>3, <3>3, <3>4, <3>5
    <2>4. \/ step[r] \in {"run", "wait"} /\ InCall(r, {"await", "drop"})
          \/ step[r] \in {"run", "addLocked", "adding"} /\ InCall(r, {"add"})
          \/ step[r] \in {"emplace", "emplaceDrop", "awaiters", "callback", "callbackDrop"}
      BY <1>1 DEF Touched
    <2>. QED  BY <2>1, <2>2, <2>3, <2>4
  <1>2. IInv /\ GInv /\ MInv => NoUseAfterFree
    BY <1>1 DEF NoUseAfterFree
  <1>. QED  BY <1>2, MemoryInv, PTL

=============================================================================
