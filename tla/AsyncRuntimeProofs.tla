--------------------------- MODULE AsyncRuntimeProofs ---------------------------
(***************************************************************************)
(* What holds of AsyncRuntime for every program, pool size and group: the  *)
(* shape of its state, and that no thread sleeps on a settled cell.        *)
(***************************************************************************)
EXTENDS AsyncRuntimeProps, TLAPS

\* The inductive invariant: the types, the call every routine is in, and the
\* wait sets of the cells.
IInv == TypeOK /\ ControlOK /\ NoSleeperOnSettledCell

-----------------------------------------------------------------------------

\* A task has one or two cells, all of them tokens or values of its own.
LEMMA EmplacedCells ==
    ASSUME NEW k \in Tasks
    PROVE  /\ Len(Emplaced(k)) \in 1..2
           /\ \A i \in 1..Len(Emplaced(k)) : Emplaced(k)[i] \in Cells
  <1>1. CASE k \in HasValue
    <2>1. Emplaced(k) = <<Value(k), Token(k)>>
      BY <1>1 DEF Emplaced
    <2>2. Value(k) \in Cells /\ Token(k) \in Cells
      BY <1>1 DEF Cells
    <2>. QED  BY <2>1, <2>2
  <1>2. CASE k \notin HasValue
    <2>1. Emplaced(k) = <<Token(k)>>
      BY <1>2 DEF Emplaced
    <2>2. Token(k) \in Cells
      BY DEF Cells
    <2>. QED  BY <2>1, <2>2
  <1>. QED  BY <1>1, <1>2

\* The cell a task is emplacing is one of its cells.
LEMMA CurrentCell ==
    ASSUME TypeOK, NEW k \in Tasks
    PROVE  Current(k) \in Cells
  BY EmplacedCells DEF Current, TypeOK

\* The call a routine is about to make is an instruction.
LEMMA InstrType ==
    ASSUME TypeOK, NEW r \in Routines, ~AtEnd(r)
    PROVE  Instr(r) \in Instructions
  <1>1. Code[r] \in Seq(Instructions)
    BY CodeAssumption
  <1>2. pc[r] \in Nat \ {0} /\ pc[r] <= Len(Code[r])
    BY <1>1 DEF TypeOK, AtEnd
  <1>. QED  BY <1>1, <1>2 DEF Instr

\* The group a routine updates, and the coroutine that comes next in it.
LEMMA GroupOfType ==
    ASSUME TypeOK, ControlOK, NEW r \in Routines,
           step[r] \in {"addLocked", "adding", "callback", "callbackDrop"}
    PROVE  GroupOf(r) \in Groups
  <1>1. CASE step[r] \in {"addLocked", "adding"}
    <2>1. ~AtEnd(r) /\ Instr(r).op = "add"
      BY <1>1 DEF ControlOK, RoutineOK
    <2>2. Instr(r) \in Instructions
      BY <2>1, InstrType
    <2>. QED  BY <1>1, <2>1, <2>2 DEF GroupOf, Instructions
  <1>2. CASE step[r] \in {"callback", "callbackDrop"}
    BY <1>2 DEF ControlOK, RoutineOK, GroupOf
  <1>. QED  BY <1>1, <1>2

\* Dropping a reference keeps the types of the counts and the lifetimes.
LEMMA DropRefType ==
    ASSUME TypeOK, NEW o \in Objects, DropRef(o)
    PROVE  /\ refs' \in [Objects -> Int]
           /\ life' \in [Objects -> {"none", "live", "deleted"}]
  BY DEF TypeOK, DropRef

\* So does creating objects.
LEMMA CreateType ==
    ASSUME TypeOK, NEW O, NEW n \in Nat, Create(O, n)
    PROVE  /\ refs' \in [Objects -> Int]
           /\ life' \in [Objects -> {"none", "live", "deleted"}]
  BY DEF TypeOK, Create

\* Resuming a coroutine keeps the types of the control state.
LEMMA ResumeType ==
    ASSUME TypeOK, NEW t \in Threads, NEW r \in Routines, NEW c \in Routines,
           Resume(t, r, c)
    PROVE  /\ top' \in [Threads -> Routines \cup {Nobody}]
           /\ caller' \in [Routines -> Routines \cup {Nobody}]
           /\ pc' \in [Routines -> Nat \ {0}]
           /\ step' \in [Routines -> Steps]
  BY DEF TypeOK, Resume, Steps

\* Leaving a thread keeps them too.
LEMMA LeaveType ==
    ASSUME TypeOK, NEW t \in Threads, NEW r \in Routines, Leave(t, r)
    PROVE  /\ top' \in [Threads -> Routines \cup {Nobody}]
           /\ caller' \in [Routines -> Routines \cup {Nobody}]
  BY DEF TypeOK, Leave

\* Accounting for a token keeps the types of a group's counters.
LEMMA OnTokenReadyType ==
    ASSUME TypeOK, NEW r \in Routines, NEW c, NEW g \in Groups, NEW was \in Int,
           OnTokenReady(r, c, g, was)
    PROVE  /\ pending' \in [Groups -> Int]
           /\ errors' \in [Groups -> Nat]
           /\ waiters' \in [Objects -> SUBSET Routines]
           /\ gnext' \in [Routines -> Nat \ {0}]
           /\ \A d \in Cells : waiters'[d] = waiters[d]
  <1>1. awaiters[g] \in Seq(Routines)
    BY DEF TypeOK
  <1>2. Len(awaiters[g]) \in Nat
    BY <1>1
  <1>3. g \notin Cells
    BY CodeAssumption
  <1>4. \A d \in Cells : d \in Objects
    BY DEF Objects
  <1>5. pending' \in [Groups -> Int]
    BY DEF TypeOK, OnTokenReady
  <1>6. errors' \in [Groups -> Nat]
    BY DEF TypeOK, OnTokenReady
  <1>7. waiters' \in [Objects -> SUBSET Routines]
    BY DEF TypeOK, OnTokenReady
  <1>8. gnext' \in [Routines -> Nat \ {0}]
    BY <1>2 DEF TypeOK, OnTokenReady
  <1>9. \A d \in Cells : waiters'[d] = waiters[d]
    BY <1>3, <1>4 DEF TypeOK, OnTokenReady
  <1>. QED  BY <1>5, <1>6, <1>7, <1>8, <1>9

\* The token named by an add call is a cell.
LEMMA AddToken ==
    ASSUME TypeOK, ControlOK, NEW r \in Routines, step[r] = "addLocked"
    PROVE  Token(Instr(r).task) \in Cells
  <1>1. ~AtEnd(r) /\ Instr(r).op = "add"
    BY DEF ControlOK, RoutineOK
  <1>2. Instr(r) \in Instructions
    BY <1>1, InstrType
  <1>3. Instr(r).task \in Tasks
    BY <1>1, <1>2 DEF Instructions
  <1>. QED  BY <1>3 DEF Cells

\* A step only appends to the awaiters of o.
AwaitersGrow(o) ==
    /\ Len(awaiters'[o]) \in Nat
    /\ Len(awaiters[o]) <= Len(awaiters'[o])
    /\ \A i \in 1..Len(awaiters[o]) : awaiters'[o][i] = awaiters[o][i]

\* The control state of routine s is untouched.
SameControl(s) ==
    pc'[s] = pc[s] /\ step'[s] = step[s] /\ next'[s] = next[s] /\ cell'[s] = cell[s]

\* A step of r that only appends to awaiters leaves the other routines in order.
LEMMA ControlFrame ==
    ASSUME IInv, NEW r \in Routines,
           \A s \in Routines \ {r} : SameControl(s),
           \A o \in Objects : AwaitersGrow(o),
           RoutineOK(r)'
    PROVE  ControlOK'
  <1>1. SUFFICES ASSUME NEW s \in Routines \ {r} PROVE RoutineOK(s)'
    BY DEF ControlOK
  <1>2. SameControl(s) /\ RoutineOK(s)
    BY DEF IInv, ControlOK
  <1>3. ASSUME step[s] \in {"callback", "callbackDrop"}
        PROVE  /\ next[s] <= Len(awaiters'[Current(s)])
               /\ awaiters'[Current(s)][next[s]] \in Groups
    <2>1. s \in Tasks /\ next[s] <= Len(awaiters[Current(s)])
      BY <1>2, <1>3 DEF RoutineOK
    <2>2. Current(s) \in Objects
      BY <2>1, CurrentCell DEF IInv, Objects
    <2>3. awaiters[Current(s)] \in Seq(Routines \cup Groups) /\ next[s] \in Nat \ {0}
      BY <2>2 DEF IInv, TypeOK
    <2>4. next[s] \in 1..Len(awaiters[Current(s)])
      BY <2>1, <2>3
    <2>5. AwaitersGrow(Current(s))
      BY <2>2
    <2>6. Len(awaiters'[Current(s)]) >= next[s]
      BY <2>1, <2>3, <2>5 DEF AwaitersGrow
    <2>. QED  BY <1>2, <1>3, <2>4, <2>5, <2>6 DEF RoutineOK, AwaitersGrow
  <1>4. Current(s)' = Current(s)
    BY <1>2 DEF Current, SameControl
  <1>. QED  BY <1>2, <1>3, <1>4 DEF RoutineOK, SameControl, AtEnd, Instr

-----------------------------------------------------------------------------
(* The initial state.                                                      *)

LEMMA InitIInv == Init => IInv
  <1>. SUFFICES ASSUME Init PROVE IInv
    OBVIOUS
  <1>1. TypeOK
    <2>1. \A k \in Tasks : cell[k] \in 1..Len(Emplaced(k))
      BY EmplacedCells DEF Init, Routines
    <2>2. <<>> \in Seq(Routines) /\ <<>> \in Seq(Routines \cup Groups)
      OBVIOUS
    <2>3. awaiters \in [Objects -> Seq(Routines \cup Groups)]
      BY <2>2 DEF Init
    <2>4. \A g \in Groups : awaiters[g] \in Seq(Routines)
      BY <2>2 DEF Init, Objects
    <2>5. top \in [Threads -> Routines \cup {Nobody}]
      BY DEF Init, Threads, Routines
    <2>6. step \in [Routines -> Steps]
      BY DEF Init, Steps
    <2>7. down \in BOOLEAN
      BY DEF Init
    <2>8. queue \in Seq(Tasks)
      BY DEF Init
    <2>. QED  BY <2>1, <2>3, <2>4, <2>5, <2>6, <2>7, <2>8 DEF Init, TypeOK
  <1>2. ControlOK
    BY DEF Init, ControlOK, RoutineOK
  <1>3. NoSleeperOnSettledCell
    BY DEF Init, NoSleeperOnSettledCell, Objects
  <1>. QED  BY <1>1, <1>2, <1>3 DEF IInv

-----------------------------------------------------------------------------

LEMMA TakeTaskIInv ==
    ASSUME IInv, NEW w \in Workers, TakeTask(w)
    PROVE  IInv'
  <1>. USE DEF IInv, TakeTask, control, objects, data
  <1>1. TypeOK'
    <2>1. Head(queue) \in Tasks /\ Tail(queue) \in Seq(Tasks)
      BY DEF TypeOK
    <2>2. Head(queue) \in Routines
      BY <2>1 DEF Routines
    <2>3. step' \in [Routines -> Steps]
      BY DEF TypeOK, Steps
    <2>4. top' \in [Threads -> Routines \cup {Nobody}]
      BY <2>2 DEF TypeOK
    <2>. QED  BY <2>1, <2>3, <2>4 DEF TypeOK
  <1>2. ControlOK'
    BY DEF TypeOK, ControlOK, RoutineOK, AtEnd, Instr, Current
  <1>3. NoSleeperOnSettledCell'
    BY DEF TypeOK, NoSleeperOnSettledCell, Settled
  <1>. QED  BY <1>1, <1>2, <1>3

LEMMA ExecuteIInv ==
    ASSUME IInv, NEW t \in Threads, NEW r \in Routines, top[t] = r, Execute(t, r)
    PROVE  IInv'
  <1>. USE DEF IInv, Execute, Create, AtCall, control, objects, data
  <1>1. TypeOK'
    <2>1. Instr(r) \in Instructions /\ Instr(r).op = "execute"
      BY InstrType
    <2>2. Instr(r).task \in Tasks
      BY <2>1 DEF Instructions
    <2>3. queue' \in Seq(Tasks)
      BY <2>2 DEF TypeOK
    <2>4. step' \in [Routines -> Steps]
      BY DEF TypeOK, Steps
    <2>5. /\ refs' \in [Objects -> Int]
          /\ life' \in [Objects -> {"none", "live", "deleted"}]
      BY DEF TypeOK
    <2>6. pc' \in [Routines -> Nat \ {0}]
      BY DEF TypeOK
    <2>. QED  BY <2>3, <2>4, <2>5, <2>6 DEF TypeOK
  <1>2. ControlOK'
    BY DEF TypeOK, ControlOK, RoutineOK, AtEnd, Instr, Current
  <1>3. NoSleeperOnSettledCell'
    BY DEF TypeOK, NoSleeperOnSettledCell, Settled
  <1>. QED  BY <1>1, <1>2, <1>3

LEMMA CreateGroupIInv ==
    ASSUME IInv, NEW t \in Threads, NEW r \in Routines, top[t] = r, CreateGroup(t, r)
    PROVE  IInv'
  <1>. USE DEF IInv, CreateGroup, Create, AtCall, control, objects, data
  <1>1. TypeOK'
    BY DEF TypeOK, Steps
  <1>2. ControlOK'
    BY DEF TypeOK, ControlOK, RoutineOK, AtEnd, Instr, Current
  <1>3. NoSleeperOnSettledCell'
    BY DEF TypeOK, NoSleeperOnSettledCell, Settled
  <1>. QED  BY <1>1, <1>2, <1>3

LEMMA DropIInv ==
    ASSUME IInv, NEW t \in Threads, NEW r \in Routines, top[t] = r, Drop(t, r)
    PROVE  IInv'
  <1>. USE DEF IInv, Drop, DropRef, AtCall, control, objects, data
  <1>1. TypeOK'
    <2>1. Instr(r) \in Instructions /\ Instr(r).op = "drop"
      BY InstrType
    <2>2. Instr(r).obj \in Objects
      BY <2>1 DEF Instructions
    <2>3. /\ refs' \in [Objects -> Int]
          /\ life' \in [Objects -> {"none", "live", "deleted"}]
      BY <2>2, DropRefType
    <2>4. pc' \in [Routines -> Nat \ {0}]
      BY DEF TypeOK
    <2>. QED  BY <2>3, <2>4 DEF TypeOK
  <1>2. ControlOK'
    BY DEF TypeOK, ControlOK, RoutineOK, AtEnd, Instr, Current
  <1>3. NoSleeperOnSettledCell'
    BY DEF TypeOK, NoSleeperOnSettledCell, Settled
  <1>. QED  BY <1>1, <1>2, <1>3

LEMMA AddLockTokenIInv ==
    ASSUME IInv, NEW t \in Threads, NEW r \in Routines, top[t] = r, AddLockToken(t, r)
    PROVE  IInv'
  <1>. USE DEF IInv, AddLockToken, AtCall, control, objects, data
  <1>1. TypeOK'
    BY DEF TypeOK, Steps
  <1>2. ControlOK'
    BY DEF TypeOK, ControlOK, RoutineOK, AtEnd, Instr, Current
  <1>3. NoSleeperOnSettledCell'
    BY DEF TypeOK, NoSleeperOnSettledCell, Settled
  <1>. QED  BY <1>1, <1>2, <1>3

LEMMA AddLockGroupIInv ==
    ASSUME IInv, NEW t \in Threads, NEW r \in Routines, top[t] = r, AddLockGroup(t, r)
    PROVE  IInv'
  <1>. DEFINE g == Instr(r).obj
              c == Token(Instr(r).task)
  <1>1. /\ step[r] = "addLocked"
        /\ mu' = [mu EXCEPT ![g] = t]
        /\ rank' = [rank EXCEPT ![g] = @ + 1]
        /\ AddReady(r, c, g) \/ AddPending(r, c, g)
        /\ step' = [step EXCEPT ![r] = "adding"]
        /\ UNCHANGED <<queue, top, caller, pc, cell, next, state, life, data, down>>
    BY DEF AddLockGroup
  <1>2. g \in Groups /\ c \in Cells
    <2>1. GroupOf(r) \in Groups /\ GroupOf(r) = g
      BY <1>1, GroupOfType DEF IInv, GroupOf
    <2>. QED  BY <1>1, <2>1, AddToken DEF IInv
  <1>3. c \in Objects /\ c \notin Groups
    BY <1>2, CodeAssumption DEF Objects
  <1>. HIDE DEF g, c
  <1>4. /\ step' \in [Routines -> Steps]
        /\ mu' \in [Objects -> Threads \cup {Nobody}]
        /\ rank' \in [Groups -> Nat]
    <2>1. step' \in [Routines -> Steps]
      BY <1>1 DEF IInv, TypeOK, Steps
    <2>2. mu' \in [Objects -> Threads \cup {Nobody}]
      BY <1>1 DEF IInv, TypeOK
    <2>3. rank \in [Groups -> Nat]
      BY DEF IInv, TypeOK
    <2>4. rank' \in [Groups -> Nat]
      BY <1>1, <1>2, <2>3
    <2>. QED  BY <2>1, <2>2, <2>4
  <1>5. /\ pending' \in [Groups -> Int]
        /\ errors' \in [Groups -> Nat]
        /\ waiters' \in [Objects -> SUBSET Routines]
        /\ gnext' \in [Routines -> Nat \ {0}]
        /\ refs' \in [Objects -> Int]
        /\ \A d \in Cells : waiters'[d] = waiters[d]
        /\ awaiters' = awaiters \/ awaiters' = [awaiters EXCEPT ![c] = Append(@, g)]
    <2>1. CASE AddReady(r, c, g)
      <3>1. OnTokenReady(r, c, g, pending[g] + 1) /\ refs' = refs /\ awaiters' = awaiters
        BY <2>1 DEF AddReady
      <3>2. pending[g] + 1 \in Int
        BY <1>2 DEF IInv, TypeOK
      <3>. QED  BY <1>2, <3>1, <3>2, OnTokenReadyType DEF IInv, TypeOK
    <2>2. CASE AddPending(r, c, g)
      <3>1. Len(awaiters[g]) \in Nat
        BY <1>2 DEF IInv, TypeOK
      <3>2. pending' \in [Groups -> Int]
        BY <1>2, <2>2 DEF IInv, TypeOK, AddPending
      <3>3. gnext' \in [Routines -> Nat \ {0}]
        BY <2>2, <3>1 DEF IInv, TypeOK, AddPending
      <3>4. refs' \in [Objects -> Int]
        BY <1>2, <2>2 DEF IInv, TypeOK, AddPending, Objects
      <3>. QED  BY <2>2, <3>2, <3>3, <3>4 DEF IInv, TypeOK, AddPending
    <2>. QED  BY <1>1, <2>1, <2>2
  <1>6. /\ awaiters' \in [Objects -> Seq(Routines \cup Groups)]
        /\ \A h \in Groups : awaiters'[h] \in Seq(Routines)
        /\ \A o \in Objects : AwaitersGrow(o)
    <2>1. CASE awaiters' = awaiters
      BY <2>1 DEF IInv, TypeOK, AwaitersGrow
    <2>2. CASE awaiters' = [awaiters EXCEPT ![c] = Append(@, g)]
      <3>1. awaiters[c] \in Seq(Routines \cup Groups)
        BY <1>3 DEF IInv, TypeOK
      <3>2. Append(awaiters[c], g) \in Seq(Routines \cup Groups)
        BY <1>2, <3>1
      <3>3. awaiters' \in [Objects -> Seq(Routines \cup Groups)]
        BY <2>2, <3>2 DEF IInv, TypeOK
      <3>4. \A h \in Groups : awaiters'[h] \in Seq(Routines)
        BY <1>3, <2>2 DEF IInv, TypeOK, Objects
      <3>5. \A o \in Objects : AwaitersGrow(o)
        BY <1>3, <2>2, <3>1 DEF IInv, TypeOK, AwaitersGrow
      <3>. QED  BY <3>3, <3>4, <3>5
    <2>. QED  BY <1>5, <2>1, <2>2
  <1>7. TypeOK'
    BY <1>1, <1>4, <1>5, <1>6 DEF IInv, TypeOK, data
  <1>8. ControlOK'
    <2>1. \A s \in Routines \ {r} : SameControl(s)
      BY <1>1 DEF IInv, TypeOK, SameControl
    <2>2. RoutineOK(r)'
      <3>1. RoutineOK(r)
        BY DEF IInv, ControlOK
      <3>2. step'[r] = "adding" /\ pc' = pc
        BY <1>1 DEF IInv, TypeOK
      <3>. QED  BY <1>1, <3>1, <3>2 DEF RoutineOK, AtEnd, Instr
    <2>. QED  BY <1>6, <2>1, <2>2, ControlFrame
  <1>9. NoSleeperOnSettledCell'
    BY <1>1, <1>5 DEF IInv, NoSleeperOnSettledCell, Settled
  <1>. QED  BY <1>7, <1>8, <1>9 DEF IInv

LEMMA AddUnlockIInv ==
    ASSUME IInv, NEW t \in Threads, NEW r \in Routines, top[t] = r, AddUnlock(t, r)
    PROVE  IInv'
  <1>. USE DEF IInv, AddUnlock, control, objects, data
  <1>1. TypeOK'
    <2>1. mu' \in [Objects -> Threads \cup {Nobody}]
      BY DEF TypeOK
    <2>2. step' \in [Routines -> Steps]
      BY DEF TypeOK, Steps
    <2>3. pc' \in [Routines -> Nat \ {0}]
      BY DEF TypeOK
    <2>. QED  BY <2>1, <2>2, <2>3 DEF TypeOK
  <1>2. ControlOK'
    BY DEF TypeOK, ControlOK, RoutineOK, AtEnd, Instr, Current
  <1>3. NoSleeperOnSettledCell'
    BY DEF TypeOK, NoSleeperOnSettledCell, Settled
  <1>. QED  BY <1>1, <1>2, <1>3

LEMMA RunGroupAwaiterIInv ==
    ASSUME IInv, NEW t \in Threads, NEW r \in Routines, top[t] = r, RunGroupAwaiter(t, r)
    PROVE  IInv'
  <1>. USE DEF IInv, RunGroupAwaiter, Resume, control, objects, data
  <1>1. TypeOK'
    <2>1. GroupOf(r) \in Groups
      BY GroupOfType
    <2>2. awaiters[GroupOf(r)] \in Seq(Routines)
      BY <2>1 DEF TypeOK
    <2>3. awaiters[GroupOf(r)][gnext[r]] \in Routines
      BY <2>2 DEF TypeOK
    <2>4. /\ top' \in [Threads -> Routines \cup {Nobody}]
          /\ caller' \in [Routines -> Routines \cup {Nobody}]
          /\ pc' \in [Routines -> Nat \ {0}]
          /\ step' \in [Routines -> Steps]
      BY <2>3, ResumeType
    <2>5. gnext' \in [Routines -> Nat \ {0}]
      BY DEF TypeOK
    <2>. QED  BY <2>4, <2>5 DEF TypeOK
  <1>2. ControlOK'
    BY DEF TypeOK, ControlOK, RoutineOK, AtEnd, Instr, Current
  <1>3. NoSleeperOnSettledCell'
    BY DEF TypeOK, NoSleeperOnSettledCell, Settled
  <1>. QED  BY <1>1, <1>2, <1>3

LEMMA AwaitPassIInv ==
    ASSUME IInv, NEW t \in Threads, NEW r \in Routines, top[t] = r, AwaitPass(t, r)
    PROVE  IInv'
  <1>. USE DEF IInv, AwaitPass, AtCall, control, objects, data
  <1>1. TypeOK'
    BY DEF TypeOK, Steps
  <1>2. ControlOK'
    BY DEF TypeOK, ControlOK, RoutineOK, AtEnd, Instr, Current
  <1>3. NoSleeperOnSettledCell'
    BY DEF TypeOK, NoSleeperOnSettledCell, Settled
  <1>. QED  BY <1>1, <1>2, <1>3

LEMMA AwaitBlockIInv ==
    ASSUME IInv, NEW t \in Threads, NEW r \in Routines, top[t] = r, AwaitBlock(t, r)
    PROVE  IInv'
  <1>. USE DEF IInv, AwaitBlock, AtCall, control, objects, data
  <1>1. TypeOK'
    BY DEF TypeOK, Steps
  <1>2. ControlOK'
    BY DEF TypeOK, ControlOK, RoutineOK, AtEnd, Instr, Current
  <1>3. NoSleeperOnSettledCell'
    <2>1. SUFFICES ASSUME NEW c \in Cells, waiters'[c] # {}
                   PROVE  ~Settled(c)
      BY DEF NoSleeperOnSettledCell, Settled
    <2>2. c \in Objects
      BY DEF Objects
    <2>3. CASE c = Instr(r).obj
      BY <2>3 DEF Ready
    <2>4. CASE c # Instr(r).obj
      BY <2>1, <2>2, <2>4 DEF TypeOK, NoSleeperOnSettledCell
    <2>. QED  BY <2>3, <2>4
  <1>. QED  BY <1>1, <1>2, <1>3

LEMMA SpuriousWakeupIInv ==
    ASSUME IInv, NEW t \in Threads, NEW r \in Routines, top[t] = r, SpuriousWakeup(t, r)
    PROVE  IInv'
  <1>. USE DEF IInv, SpuriousWakeup, control, objects, data
  <1>1. TypeOK'
    BY DEF TypeOK, Steps
  <1>2. ControlOK'
    BY DEF TypeOK, ControlOK, RoutineOK, AtEnd, Instr, Current
  <1>3. NoSleeperOnSettledCell'
    BY DEF TypeOK, NoSleeperOnSettledCell, Settled
  <1>. QED  BY <1>1, <1>2, <1>3

LEMMA AwaitSuspendIInv ==
    ASSUME IInv, NEW t \in Threads, NEW r \in Routines, top[t] = r, AwaitSuspend(t, r)
    PROVE  IInv'
  <1>. USE DEF IInv, AwaitSuspend, AtCall, Leave, control, objects, data
  <1>1. TypeOK'
    <2>1. Instr(r) \in Instructions /\ Instr(r).op = "await"
      BY InstrType
    <2>2. Instr(r).obj \in Objects
      BY <2>1 DEF Instructions
    <2>3. awaiters' \in [Objects -> Seq(Routines \cup Groups)]
      BY <2>2 DEF TypeOK
    <2>4. \A g \in Groups : awaiters'[g] \in Seq(Routines)
      BY <2>2 DEF TypeOK, Objects
    <2>5. step' \in [Routines -> Steps]
      BY DEF TypeOK, Steps
    <2>6. /\ top' \in [Threads -> Routines \cup {Nobody}]
          /\ caller' \in [Routines -> Routines \cup {Nobody}]
      BY LeaveType
    <2>. QED  BY <2>3, <2>4, <2>5, <2>6 DEF TypeOK
  <1>2. ControlOK'
    <2>1. \A o \in Objects : AwaitersGrow(o)
      BY DEF TypeOK, AwaitersGrow
    <2>2. \A s \in Routines \ {r} : SameControl(s)
      BY DEF TypeOK, SameControl
    <2>3. RoutineOK(r)'
      BY DEF TypeOK, RoutineOK
    <2>. QED  BY <2>1, <2>2, <2>3, ControlFrame
  <1>3. NoSleeperOnSettledCell'
    BY DEF TypeOK, NoSleeperOnSettledCell, Settled
  <1>. QED  BY <1>1, <1>2, <1>3

LEMMA MainReturnIInv ==
    ASSUME IInv, NEW t \in Threads, NEW r \in Routines, top[t] = r, MainReturn(t, r)
    PROVE  IInv'
  <1>. USE DEF IInv, MainReturn, Leave, control, objects, data
  <1>1. TypeOK'
    BY DEF TypeOK, Steps
  <1>2. ControlOK'
    BY DEF TypeOK, ControlOK, RoutineOK, AtEnd, Instr, Current
  <1>3. NoSleeperOnSettledCell'
    BY DEF TypeOK, NoSleeperOnSettledCell, Settled
  <1>. QED  BY <1>1, <1>2, <1>3

LEMMA EndTaskIInv ==
    ASSUME IInv, NEW t \in Threads, NEW r \in Routines, top[t] = r, EndTask(t, r)
    PROVE  IInv'
  <1>. USE DEF IInv, EndTask, control, objects, data
  <1>1. TypeOK'
    BY DEF TypeOK, Steps
  <1>2. ControlOK'
    BY DEF TypeOK, ControlOK, RoutineOK, AtEnd, Instr, Current
  <1>3. NoSleeperOnSettledCell'
    BY DEF TypeOK, NoSleeperOnSettledCell, Settled
  <1>. QED  BY <1>1, <1>2, <1>3

LEMMA EmplaceLockIInv ==
    ASSUME IInv, NEW t \in Threads, NEW r \in Routines, top[t] = r, EmplaceLock(t, r)
    PROVE  IInv'
  <1>. USE DEF IInv, EmplaceLock, control, objects, data
  <1>1. TypeOK'
    <2>1. state' \in [Cells -> {"unavailable", "available", "error"}]
      BY DEF TypeOK
    <2>2. step' \in [Routines -> Steps]
      BY DEF TypeOK, Steps
    <2>3. waiters' \in [Objects -> SUBSET Routines]
      BY DEF TypeOK
    <2>4. mu' \in [Objects -> Threads \cup {Nobody}]
      BY DEF TypeOK
    <2>5. next' \in [Routines -> Nat \ {0}]
      BY DEF TypeOK
    <2>. QED  BY <2>1, <2>2, <2>3, <2>4, <2>5 DEF TypeOK
  <1>2. ControlOK'
    BY DEF TypeOK, ControlOK, RoutineOK, AtEnd, Instr, Current
  <1>3. NoSleeperOnSettledCell'
    <2>1. SUFFICES ASSUME NEW c \in Cells, waiters'[c] # {}
                   PROVE  ~Settled(c)'
      BY DEF NoSleeperOnSettledCell
    <2>2. c \in Objects
      BY DEF Objects
    <2>3. c # Current(r) /\ waiters[c] # {}
      BY <2>1, <2>2 DEF TypeOK
    <2>4. ~Settled(c)
      BY <2>3 DEF NoSleeperOnSettledCell
    <2>. QED  BY <2>3, <2>4 DEF TypeOK, Settled
  <1>. QED  BY <1>1, <1>2, <1>3

LEMMA RunResumeAwaiterIInv ==
    ASSUME IInv, NEW t \in Threads, NEW r \in Routines, top[t] = r, RunResumeAwaiter(t, r)
    PROVE  IInv'
  <1>. USE DEF IInv, RunResumeAwaiter, Resume, HasAwaiter, control, objects, data
  <1>1. TypeOK'
    <2>1. /\ top' \in [Threads -> Routines \cup {Nobody}]
          /\ caller' \in [Routines -> Routines \cup {Nobody}]
          /\ pc' \in [Routines -> Nat \ {0}]
          /\ step' \in [Routines -> Steps]
      BY ResumeType
    <2>2. next' \in [Routines -> Nat \ {0}]
      BY DEF TypeOK
    <2>. QED  BY <2>1, <2>2 DEF TypeOK
  <1>2. ControlOK'
    BY DEF TypeOK, ControlOK, RoutineOK, AtEnd, Instr, Current
  <1>3. NoSleeperOnSettledCell'
    BY DEF TypeOK, NoSleeperOnSettledCell, Settled
  <1>. QED  BY <1>1, <1>2, <1>3

LEMMA RunGroupCallbackIInv ==
    ASSUME IInv, NEW t \in Threads, NEW r \in Routines, top[t] = r, RunGroupCallback(t, r)
    PROVE  IInv'
  <1>. USE DEF IInv, RunGroupCallback, HasAwaiter, control, objects, data
  <1>1. TypeOK'
    <2>1. /\ pending' \in [Groups -> Int]
          /\ errors' \in [Groups -> Nat]
          /\ waiters' \in [Objects -> SUBSET Routines]
          /\ gnext' \in [Routines -> Nat \ {0}]
      BY OnTokenReadyType DEF TypeOK
    <2>2. step' \in [Routines -> Steps]
      BY DEF TypeOK, Steps
    <2>3. mu' \in [Objects -> Threads \cup {Nobody}]
      BY DEF TypeOK
    <2>. QED  BY <2>1, <2>2, <2>3 DEF TypeOK
  <1>2. ControlOK'
    <2>1. GroupOf(r) = awaiters[Current(r)][next[r]]
      BY DEF GroupOf
    <2>2. r \in Tasks
      BY DEF ControlOK, RoutineOK
    <2>. QED  BY <2>1, <2>2 DEF TypeOK, ControlOK, RoutineOK, AtEnd, Instr, Current
  <1>3. NoSleeperOnSettledCell'
    <2>1. \A c \in Cells : waiters'[c] = waiters[c]
      BY OnTokenReadyType DEF TypeOK
    <2>. QED  BY <2>1 DEF NoSleeperOnSettledCell, Settled
  <1>. QED  BY <1>1, <1>2, <1>3

LEMMA CallbackUnlockIInv ==
    ASSUME IInv, NEW t \in Threads, NEW r \in Routines, top[t] = r, CallbackUnlock(t, r)
    PROVE  IInv'
  <1>. USE DEF IInv, CallbackUnlock, control, objects, data
  <1>1. TypeOK'
    BY DEF TypeOK, Steps
  <1>2. ControlOK'
    BY DEF TypeOK, ControlOK, RoutineOK, AtEnd, Instr, Current
  <1>3. NoSleeperOnSettledCell'
    BY DEF TypeOK, NoSleeperOnSettledCell, Settled
  <1>. QED  BY <1>1, <1>2, <1>3

LEMMA CallbackDropIInv ==
    ASSUME IInv, NEW t \in Threads, NEW r \in Routines, top[t] = r, CallbackDrop(t, r)
    PROVE  IInv'
  <1>. USE DEF IInv, CallbackDrop, DropRef, control, objects, data
  <1>1. TypeOK'
    <2>1. GroupOf(r) \in Objects
      BY GroupOfType DEF Objects
    <2>2. /\ refs' \in [Objects -> Int]
          /\ life' \in [Objects -> {"none", "live", "deleted"}]
      BY <2>1, DropRefType
    <2>3. step' \in [Routines -> Steps]
      BY DEF TypeOK, Steps
    <2>4. next' \in [Routines -> Nat \ {0}]
      BY DEF TypeOK
    <2>. QED  BY <2>2, <2>3, <2>4 DEF TypeOK
  <1>2. ControlOK'
    BY DEF TypeOK, ControlOK, RoutineOK, AtEnd, Instr, Current
  <1>3. NoSleeperOnSettledCell'
    BY DEF TypeOK, NoSleeperOnSettledCell, Settled
  <1>. QED  BY <1>1, <1>2, <1>3

LEMMA EmplaceUnlockIInv ==
    ASSUME IInv, NEW t \in Threads, NEW r \in Routines, top[t] = r, EmplaceUnlock(t, r)
    PROVE  IInv'
  <1>. USE DEF IInv, EmplaceUnlock, control, objects, data
  <1>1. TypeOK'
    BY DEF TypeOK, Steps
  <1>2. ControlOK'
    BY DEF TypeOK, ControlOK, RoutineOK, AtEnd, Instr, Current
  <1>3. NoSleeperOnSettledCell'
    BY DEF TypeOK, NoSleeperOnSettledCell, Settled
  <1>. QED  BY <1>1, <1>2, <1>3

LEMMA EmplaceDropIInv ==
    ASSUME IInv, NEW t \in Threads, NEW r \in Routines, top[t] = r, EmplaceDrop(t, r)
    PROVE  IInv'
  <1>1. /\ step[r] = "emplaceDrop"
        /\ DropRef(Current(r))
        /\ UNCHANGED <<queue, pc, next, gnext, state, mu, waiters, awaiters,
                       pending, errors, rank, data, down>>
    BY DEF EmplaceDrop
  <1>2. r \in Tasks
    BY <1>1 DEF IInv, ControlOK, RoutineOK
  <1>3. /\ refs' \in [Objects -> Int]
        /\ life' \in [Objects -> {"none", "live", "deleted"}]
    <2>1. Current(r) \in Objects
      BY <1>2, CurrentCell DEF IInv, Objects
    <2>. QED  BY <1>1, <2>1, DropRefType DEF IInv
  <1>4. CASE cell[r] < Len(Emplaced(r))
    <2>1. /\ cell' = [cell EXCEPT ![r] = @ + 1]
          /\ step' = [step EXCEPT ![r] = "emplace"]
          /\ top' = top /\ caller' = caller
      BY <1>4 DEF EmplaceDrop
    <2>2. step' \in [Routines -> Steps]
      BY <2>1 DEF IInv, TypeOK, Steps
    <2>3. /\ cell' \in [Routines -> Nat]
          /\ \A k \in Tasks : cell'[k] \in 1..Len(Emplaced(k))
      BY <1>2, <1>4, <2>1, EmplacedCells DEF IInv, TypeOK
    <2>4. TypeOK'
      BY <1>1, <1>3, <2>1, <2>2, <2>3 DEF IInv, TypeOK, data
    <2>5. ControlOK'
      BY <1>1, <1>2, <2>1 DEF IInv, TypeOK, ControlOK, RoutineOK, AtEnd, Instr, Current
    <2>. QED  BY <1>1, <2>4, <2>5 DEF IInv, NoSleeperOnSettledCell, Settled
  <1>5. CASE ~(cell[r] < Len(Emplaced(r)))
    <2>1. /\ step' = [step EXCEPT ![r] = "done"]
          /\ Leave(t, r)
          /\ cell' = cell
      BY <1>5 DEF EmplaceDrop
    <2>2. step' \in [Routines -> Steps]
      BY <2>1 DEF IInv, TypeOK, Steps
    <2>3. /\ top' \in [Threads -> Routines \cup {Nobody}]
          /\ caller' \in [Routines -> Routines \cup {Nobody}]
      BY <2>1, LeaveType DEF IInv
    <2>4. TypeOK'
      BY <1>1, <1>3, <2>1, <2>2, <2>3 DEF IInv, TypeOK, data
    <2>5. ControlOK'
      BY <1>1, <1>2, <2>1 DEF IInv, TypeOK, ControlOK, RoutineOK, AtEnd, Instr, Current
    <2>. QED  BY <1>1, <2>4, <2>5 DEF IInv, NoSleeperOnSettledCell, Settled
  <1>. QED  BY <1>4, <1>5

LEMMA LoadIInv ==
    ASSUME IInv, NEW t \in Threads, NEW r \in Routines, top[t] = r, Load(t, r)
    PROVE  IInv'
  <1>. USE DEF IInv, Load, AtCall, control, objects, data
  <1>1. TypeOK'
    BY DEF TypeOK, Steps
  <1>2. ControlOK'
    BY DEF TypeOK, ControlOK, RoutineOK, AtEnd, Instr, Current
  <1>3. NoSleeperOnSettledCell'
    BY DEF TypeOK, NoSleeperOnSettledCell, Settled
  <1>. QED  BY <1>1, <1>2, <1>3

LEMMA StoreIInv ==
    ASSUME IInv, NEW t \in Threads, NEW r \in Routines, top[t] = r, Store(t, r)
    PROVE  IInv'
  <1>. USE DEF IInv, Store, AtCall, control, objects, data
  <1>1. TypeOK'
    BY DEF TypeOK, Steps
  <1>2. ControlOK'
    BY DEF TypeOK, ControlOK, RoutineOK, AtEnd, Instr, Current
  <1>3. NoSleeperOnSettledCell'
    BY DEF TypeOK, NoSleeperOnSettledCell, Settled
  <1>. QED  BY <1>1, <1>2, <1>3

-----------------------------------------------------------------------------
(* The theorem.                                                            *)

LEMMA NextIInv == IInv /\ [Next]_vars => IInv'
  <1>. SUFFICES ASSUME IInv, [Next]_vars PROVE IInv'
    OBVIOUS
  <1>1. ASSUME NEW t \in Threads, NEW r \in Routines, top[t] = r, RoutineStep(t, r)
        PROVE  IInv'
    <2>1. CASE Execute(t, r)
      BY <1>1, <2>1, ExecuteIInv
    <2>2. CASE CreateGroup(t, r)
      BY <1>1, <2>2, CreateGroupIInv
    <2>3. CASE Drop(t, r)
      BY <1>1, <2>3, DropIInv
    <2>4. CASE AddLockToken(t, r)
      BY <1>1, <2>4, AddLockTokenIInv
    <2>5. CASE AddLockGroup(t, r)
      BY <1>1, <2>5, AddLockGroupIInv
    <2>6. CASE AddUnlock(t, r)
      BY <1>1, <2>6, AddUnlockIInv
    <2>7. CASE RunGroupAwaiter(t, r)
      BY <1>1, <2>7, RunGroupAwaiterIInv
    <2>8. CASE AwaitPass(t, r)
      BY <1>1, <2>8, AwaitPassIInv
    <2>9. CASE AwaitBlock(t, r)
      BY <1>1, <2>9, AwaitBlockIInv
    <2>10. CASE SpuriousWakeup(t, r)
      BY <1>1, <2>10, SpuriousWakeupIInv
    <2>11. CASE AwaitSuspend(t, r)
      BY <1>1, <2>11, AwaitSuspendIInv
    <2>12. CASE MainReturn(t, r)
      BY <1>1, <2>12, MainReturnIInv
    <2>13. CASE EndTask(t, r)
      BY <1>1, <2>13, EndTaskIInv
    <2>14. CASE EmplaceLock(t, r)
      BY <1>1, <2>14, EmplaceLockIInv
    <2>15. CASE RunResumeAwaiter(t, r)
      BY <1>1, <2>15, RunResumeAwaiterIInv
    <2>16. CASE RunGroupCallback(t, r)
      BY <1>1, <2>16, RunGroupCallbackIInv
    <2>17. CASE CallbackUnlock(t, r)
      BY <1>1, <2>17, CallbackUnlockIInv
    <2>18. CASE CallbackDrop(t, r)
      BY <1>1, <2>18, CallbackDropIInv
    <2>19. CASE EmplaceUnlock(t, r)
      BY <1>1, <2>19, EmplaceUnlockIInv
    <2>20. CASE EmplaceDrop(t, r)
      BY <1>1, <2>20, EmplaceDropIInv
    <2>21. CASE Load(t, r)
      BY <1>1, <2>21, LoadIInv
    <2>22. CASE Store(t, r)
      BY <1>1, <2>22, StoreIInv
    <2>. QED
      BY <1>1, <2>1, <2>2, <2>3, <2>4, <2>5, <2>6, <2>7, <2>8, <2>9, <2>10, <2>11,
         <2>12, <2>13, <2>14, <2>15, <2>16, <2>17, <2>18, <2>19, <2>20, <2>21, <2>22
         DEF RoutineStep
  <1>2. ASSUME NEW w \in Workers, TakeTask(w)
        PROVE  IInv'
    BY <1>2, TakeTaskIInv
  <1>3. CASE Shutdown
    <2>1. TypeOK'
      BY <1>3 DEF IInv, TypeOK, Shutdown, control, objects, data
    <2>2. ControlOK'
      BY <1>3 DEF IInv, ControlOK, RoutineOK, AtEnd, Instr, Current, Shutdown,
                  control, objects
    <2>3. NoSleeperOnSettledCell'
      BY <1>3 DEF IInv, NoSleeperOnSettledCell, Settled, Shutdown, objects
    <2>. QED  BY <2>1, <2>2, <2>3 DEF IInv
  <1>4. CASE UNCHANGED vars
    <2>1. TypeOK'
      BY <1>4 DEF IInv, TypeOK, vars, control, objects, data
    <2>2. ControlOK'
      BY <1>4 DEF IInv, ControlOK, RoutineOK, AtEnd, Instr, Current, vars,
                  control, objects
    <2>3. NoSleeperOnSettledCell'
      BY <1>4 DEF IInv, NoSleeperOnSettledCell, Settled, vars, objects
    <2>. QED  BY <2>1, <2>2, <2>3 DEF IInv
  <1>. QED  BY <1>1, <1>2, <1>3, <1>4 DEF Next, ThreadStep, Ended

\* Whatever the program, the pool size and the interleaving, the invariant holds.
THEOREM Invariant == Spec => []IInv
  <1>1. Init => IInv
    BY InitIInv
  <1>2. IInv /\ [Next]_vars => IInv'
    BY NextIInv
  <1>. QED  BY <1>1, <1>2, PTL DEF Spec

\* The state of the runtime keeps its types: AsyncRuntime.cpp never mixes up a
\* cell, a group and a coroutine in its awaiters.
THEOREM TypeCorrect == Spec => []TypeOK
  <1>1. IInv => TypeOK
    BY DEF IInv
  <1>. QED  BY <1>1, Invariant, PTL

\* A routine inside a runtime call is inside the call that its program names.
THEOREM ControlCorrect == Spec => []ControlOK
  <1>1. IInv => ControlOK
    BY DEF IInv
  <1>. QED  BY <1>1, Invariant, PTL

\* AwaitToken and AwaitValue lose no wakeup: no thread is in cv.wait on a cell
\* that setTokenState or setValueState has settled.
THEOREM NoLostCellWakeup == Spec => []NoSleeperOnSettledCell
  <1>1. IInv => NoSleeperOnSettledCell
    BY DEF IInv
  <1>. QED  BY <1>1, Invariant, PTL

=============================================================================
