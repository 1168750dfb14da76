--------------------------- MODULE AsyncGroupProofs ---------------------------
(***************************************************************************)
(* What holds of AsyncRuntime for every program that AsyncLowering emits:  *)
(* the runtime's mutexes exclude, a group's counters agree with its        *)
(* tokens, only suspended coroutines are resumed, no wake-up is lost, and  *)
(* the steps are those of Futures.                                         *)
(***************************************************************************)
EXTENDS AsyncRuntimeProofs, FiniteSetTheorems

-----------------------------------------------------------------------------
(* The inductive invariant.                                                *)

Before == {"new", "queued", "run", "wait", "suspended", "addLocked", "adding"}
Past   == {"awaiters", "callback", "callbackDrop", "emplaceDrop", "done"}

\* A task has been started exactly if its routine has passed the async.execute,
\* and it is in the queue at most once.
StartsOK ==
    /\ \A k \in Tasks : step[k] = "new" => pc[k] = 1
    /\ \A k \in Tasks : \A r \in Routines : \A i \in DOMAIN Code[r] :
          Creates(Code[r][i], Token(k)) => (i < pc[r] <=> step[k] # "new")
    /\ \A i, j \in DOMAIN queue :
          step[queue[i]] = "queued" /\ (queue[i] = queue[j] => i = j)

\* A cell is settled exactly if its task has got that far in emplacing.
SettlesOK ==
    \A k \in Tasks :
        /\ step[k] \in Before => cell[k] = 1
        /\ step[k] = "done" => cell[k] = Len(Emplaced(k))
        /\ \A n \in 1..Len(Emplaced(k)) :
              /\ Settled(Emplaced(k)[n]) <=>
                    n < cell[k] \/ (n = cell[k] /\ step[k] \in Past)
              /\ Settled(Emplaced(k)[n]) =>
                    (state[Emplaced(k)[n]] = "error" <=> k \in Fails)

\* The call that routine r is in holds the mutex of o.
Holds(r, o) ==
    \/ step[r] \in {"addLocked", "adding"} /\ o = Token(Instr(r).task)
    \/ step[r] = "adding" /\ o = Instr(r).obj
    \/ step[r] \in {"awaiters", "callback", "callbackDrop"} /\ o = Current(r)
    \/ step[r] = "callback" /\ o = GroupOf(r)

MutualExclusion ==
    \A r \in Routines : \A o \in Objects :
        Holds(r, o) => mu[o] # Nobody /\ \A s \in Routines : Holds(s, o) => s = r

\* Routine s has suspended itself in its await of o.
Suspended(s, o) == step[s] = "suspended" /\ ~AtEnd(s) /\ Awaits(Instr(s), o)

\* s has at least reached an await of o.
Reached(s, o) ==
    \E j \in DOMAIN Code[s] :
        /\ Awaits(Code[s][j], o)
        /\ j < pc[s] \/ (j = pc[s] /\ step[s] = "suspended")

\* What is in the awaiters of o was left there once, by an await of o or by the
\* add of the token o to a group.
AwaitersOK ==
    \A o \in Objects :
        /\ \A i, j \in DOMAIN awaiters[o] : awaiters[o][i] = awaiters[o][j] => i = j
        /\ \A i \in DOMAIN awaiters[o] :
              /\ awaiters[o][i] \in Routines => Reached(awaiters[o][i], o)
              /\ awaiters[o][i] \in Groups =>
                    \E k \in AddedTo(awaiters[o][i]) : o = Token(k)

\* Position i of the awaiters of k's cell number n is still to be run.
ToRun(k, n, i) ==
    \/ ~Settled(Emplaced(k)[n])
    \/ n = cell[k] /\ step[k] \in {"awaiters", "callback", "callbackDrop"} /\ i >= next[k]

\* The coroutines still to be resumed are suspended.
CellResumesOK ==
    \A k \in Tasks : \A n \in 1..Len(Emplaced(k)) :
        \A i \in DOMAIN awaiters[Emplaced(k)[n]] :
            awaiters[Emplaced(k)[n]][i] \in Routines /\ ToRun(k, n, i)
                => Suspended(awaiters[Emplaced(k)[n]][i], Emplaced(k)[n])
GroupResumesOK ==
    /\ \A g \in Groups : \A i \in DOMAIN awaiters[g] :
          pending[g] # 0 => Suspended(awaiters[g][i], g)
    /\ \A r \in Routines : step[r] \in {"adding", "callback"} =>
          \A i \in DOMAIN awaiters[GroupOf(r)] : i >= gnext[r] =>
             pending[GroupOf(r)] = 0 /\ Suspended(awaiters[GroupOf(r)][i], GroupOf(r))

\* A token that was added and has not settled is one the group still waits for.
PendingKept ==
    \A g \in Groups : \A k \in AddedTo(g) : ~Settled(Token(k)) => k \in Unaccounted(g)

GInv ==
    /\ StartsOK /\ SettlesOK /\ MutualExclusion /\ AwaitersOK
    /\ CellResumesOK /\ GroupResumesOK /\ PendingKept /\ GroupAccounting

-----------------------------------------------------------------------------
(* Programs.                                                               *)

\* The parts of a call have the types that its operation calls for.
LEMMA CallType ==
    ASSUME NEW r \in Routines, NEW i \in DOMAIN Code[r]
    PROVE  /\ Code[r][i] \in Instructions
           /\ Code[r] \in Seq(Instructions)
           /\ i \in 1..Len(Code[r]) /\ i \in Nat
           /\ Code[r][i].op = "execute" => Code[r][i].task \in Tasks
           /\ Code[r][i].op = "add" => Code[r][i].task \in Tasks /\ Code[r][i].obj \in Groups
           /\ Code[r][i].op = "await" => Code[r][i].obj \in Objects
           /\ Code[r][i].op = "drop" => Code[r][i].obj \in Objects
           /\ Code[r][i].op = "createGroup" => Code[r][i].obj \in Groups
  <1>1. Code[r] \in Seq(Instructions)
    BY CodeAssumption
  <1>2. i \in 1..Len(Code[r]) /\ i \in Nat
    BY <1>1
  <1>3. Code[r][i] \in Instructions
    BY <1>1, <1>2
  <1>. QED  BY <1>1, <1>2, <1>3 DEF Instructions

\* The calls about an object are made by one routine, in order.
LEMMA CallOrder ==
    ASSUME NEW o \in Objects, NEW r \in Routines, NEW s \in Routines,
           NEW i \in DOMAIN Code[r], NEW j \in DOMAIN Code[s]
    PROVE  /\ Creates(Code[r][i], o) /\ Creates(Code[s][j], o) => r = s /\ i = j
           /\ Drops(Code[r][i], o) /\ Drops(Code[s][j], o) => r = s /\ i = j
           /\ Awaits(Code[r][i], o) /\ Awaits(Code[s][j], o) => r = s /\ i = j
           /\ Adds(Code[r][i], o) /\ Awaits(Code[s][j], o) => r = s /\ i < j
           /\ Adds(Code[r][i], o) /\ Adds(Code[s][j], o) => r = s
  <1>1. CASE \E q \in Routines : \E n, m \in DOMAIN Code[q] : n < m /\ OwnedBy(o, q, n, m)
    <2>1. PICK q \in Routines : \E n, m \in DOMAIN Code[q] : n < m /\ OwnedBy(o, q, n, m)
      BY <1>1
    <2>2. PICK n, m \in DOMAIN Code[q] : n < m /\ OwnedBy(o, q, n, m)
      BY <2>1
    <2>. QED  BY <2>2 DEF OwnedBy
  <1>2. CASE \A q \in Routines : \A n \in DOMAIN Code[q] : ~Mentions(Code[q][n], o)
    BY <1>2 DEF Mentions
  <1>. QED  BY <1>1, <1>2, ProgramAssumption

\* A token is added to a group by one call.
LEMMA OneAdd ==
    ASSUME NEW k \in Tasks, NEW r \in Routines, NEW s \in Routines,
           NEW i \in DOMAIN Code[r], NEW j \in DOMAIN Code[s],
           Code[r][i].op = "add", Code[r][i].task = k,
           Code[s][j].op = "add", Code[s][j].task = k
    PROVE  r = s /\ i = j
  <1>1. Adds(Code[r][i], Token(k)) /\ Adds(Code[s][j], Token(k)) /\ Token(k) \in Objects
    BY DEF Adds, Objects, Cells
  <1>2. r = s
    BY <1>1, CallOrder
  <1>. QED  BY <1>1, <1>2, ProgramAssumption

-----------------------------------------------------------------------------
(* Cells.                                                                  *)

\* Every cell is emplaced by one task, at one place, the token at the end.
LEMMA CellOwner ==
    /\ \A k \in Tasks : \A n \in 1..Len(Emplaced(k)) :
          Emplaced(k)[n] \in Cells /\ Emplaced(k)[n] \in Objects
    /\ \A k \in Tasks :
          /\ Len(Emplaced(k)) \in 1..2
          /\ Emplaced(k)[Len(Emplaced(k))] = Token(k)
    /\ \A k, j \in Tasks : \A n \in 1..Len(Emplaced(k)), m \in 1..Len(Emplaced(j)) :
          Emplaced(k)[n] = Emplaced(j)[m] => k = j /\ n = m
    /\ \A c \in Cells : \E k \in Tasks : \E n \in 1..Len(Emplaced(k)) : c = Emplaced(k)[n]
  <1>1. \A k \in Tasks :
          \/ k \in HasValue /\ Emplaced(k) = <<Value(k), Token(k)>>
          \/ k \notin HasValue /\ Emplaced(k) = <<Token(k)>>
    BY DEF Emplaced
  <1>2. \A k, j \in Tasks : /\ Token(k) = Token(j) => k = j
                            /\ Value(k) = Value(j) => k = j
                            /\ Token(k) # Value(j)
    BY DEF Token, Value
  <1>3. \A k \in Tasks : /\ Token(k) \in Cells /\ (k \in HasValue => Value(k) \in Cells)
    BY DEF Cells
  <1>4. \A k \in Tasks : Len(Emplaced(k)) \in 1..2
    BY EmplacedCells
  <1>5. \A k \in Tasks : \A n \in 1..Len(Emplaced(k)) :
          \/ n = Len(Emplaced(k)) /\ Emplaced(k)[n] = Token(k)
          \/ n = 1 /\ k \in HasValue /\ Len(Emplaced(k)) = 2 /\ Emplaced(k)[n] = Value(k)
    <2>1. SUFFICES ASSUME NEW k \in Tasks, NEW n \in 1..Len(Emplaced(k))
          PROVE \/ n = Len(Emplaced(k)) /\ Emplaced(k)[n] = Token(k)
                \/ n = 1 /\ k \in HasValue /\ Len(Emplaced(k)) = 2 /\ Emplaced(k)[n] = Value(k)
      OBVIOUS
    <2>2. CASE k \in HasValue
      <3>1. Emplaced(k) = <<Value(k), Token(k)>>
        BY <1>1, <2>2
      <3>. QED  BY <2>2, <3>1
    <2>3. CASE k \notin HasValue
      <3>1. Emplaced(k) = <<Token(k)>>
        BY <1>1, <2>3
      <3>. QED  BY <3>1
    <2>. QED  BY <2>2, <2>3
  <1>6. \A c \in Cells : \E k \in Tasks : \E n \in 1..Len(Emplaced(k)) : c = Emplaced(k)[n]
    <2>1. SUFFICES ASSUME NEW c \in Cells
                   PROVE  \E k \in Tasks : \E n \in 1..Len(Emplaced(k)) : c = Emplaced(k)[n]
      OBVIOUS
    <2>2. CASE \E k \in Tasks : c = Token(k)
      BY <2>2, <1>4, <1>5
    <2>3. CASE \E k \in HasValue : c = Value(k)
      <3>1. PICK k \in HasValue : c = Value(k)
        BY <2>3
      <3>2. k \in Tasks /\ Emplaced(k) = <<Value(k), Token(k)>>
        BY CodeAssumption, <1>1
      <3>. QED  BY <3>1, <3>2
    <2>. QED  BY <2>2, <2>3 DEF Cells
  <1>7. \A k \in Tasks : \A n \in 1..Len(Emplaced(k)) :
          Emplaced(k)[n] \in Cells /\ Emplaced(k)[n] \in Objects
    BY EmplacedCells DEF Objects
  <1>8. \A k, j \in Tasks : \A n \in 1..Len(Emplaced(k)), m \in 1..Len(Emplaced(j)) :
          Emplaced(k)[n] = Emplaced(j)[m] => k = j /\ n = m
    BY <1>2, <1>4, <1>5
  <1>. QED  BY <1>4, <1>5, <1>6, <1>7, <1>8

\* A task is emplacing its token, once it has come to its last cell.
LEMMA CurrentToken ==
    ASSUME TypeOK, NEW k \in Tasks
    PROVE  /\ Current(k) \in Cells /\ Current(k) \in Objects
           /\ Token(k) \in Cells /\ Token(k) \in Objects
           /\ Current(k) = Token(k) <=> cell[k] = Len(Emplaced(k))
           /\ cell[k] \in 1..Len(Emplaced(k))
  <1>1. cell[k] \in 1..Len(Emplaced(k))
    BY DEF TypeOK
  <1>2. Len(Emplaced(k)) \in 1..Len(Emplaced(k))
    BY EmplacedCells
  <1>3. Token(k) \in Cells /\ Token(k) \in Objects
    BY DEF Cells, Objects
  <1>. QED  BY <1>1, <1>2, <1>3, CellOwner DEF Current

-----------------------------------------------------------------------------
(* Groups.                                                                 *)

\* Position i of the awaiters of token k, if it is a group's, is one that the
\* group's counters do not show yet.
Owed(k, i) ==
    /\ step[k] \in Past /\ Current(k) = Token(k) => i >= next[k]
    /\ ~(step[k] \in {"callback", "callbackDrop"} /\ i = next[k])

LEMMA UnaccountedOwed ==
    ASSUME NEW k \in Tasks, NEW g \in Groups
    PROVE  k \in Unaccounted(g) <=>
             \E i \in 1..Len(awaiters[Token(k)]) : awaiters[Token(k)][i] = g /\ Owed(k, i)
  BY DEF Unaccounted, CallbacksAt, Owed, Past

\* The same in the next state.
LEMMA UnaccountedOwedNext ==
    ASSUME NEW k \in Tasks, NEW g \in Groups
    PROVE  (k \in Unaccounted(g))' <=>
             \E i \in 1..Len(awaiters'[Token(k)]) : awaiters'[Token(k)][i] = g /\ Owed(k, i)'
  BY DEF Unaccounted, CallbacksAt, Owed, Past

\* There are finitely many tokens to count.
LEMMA TokensFinite ==
    ASSUME NEW g \in Groups
    PROVE  /\ Unaccounted(g) \subseteq Tasks /\ IsFiniteSet(Unaccounted(g))
           /\ AddedTo(g) \subseteq Tasks /\ IsFiniteSet(AddedTo(g))
           /\ IsFiniteSet((AddedTo(g) \ Unaccounted(g)) \cap Fails)
  <1>1. Unaccounted(g) \subseteq Tasks /\ AddedTo(g) \subseteq Tasks
    BY DEF Unaccounted, AddedTo
  <1>2. IsFiniteSet(Tasks)
    BY CodeAssumption
  <1>. QED  BY <1>1, <1>2, FS_Subset

-----------------------------------------------------------------------------
(* What a step leaves alone.                                               *)

\* The group that another routine is updating is still the same.
LEMMA GroupOfSame ==
    ASSUME IInv, NEW s \in Routines, SameControl(s),
           \A o \in Objects : AwaitersGrow(o),
           step[s] \in {"addLocked", "adding", "callback", "callbackDrop"}
    PROVE  GroupOf(s)' = GroupOf(s)
  <1>1. CASE step[s] \in {"addLocked", "adding"}
    BY <1>1 DEF SameControl, GroupOf, Instr
  <1>2. CASE step[s] \in {"callback", "callbackDrop"}
    <2>1. /\ s \in Tasks /\ next[s] <= Len(awaiters[Current(s)])
      BY <1>2 DEF IInv, ControlOK, RoutineOK
    <2>2. Current(s) \in Objects
      BY <2>1, CurrentToken DEF IInv
    <2>3. next[s] \in 1..Len(awaiters[Current(s)])
      BY <2>1, <2>2 DEF IInv, TypeOK
    <2>4. AwaitersGrow(Current(s)) /\ Current(s)' = Current(s)
      BY <2>2 DEF SameControl, Current
    <2>. QED  BY <1>2, <2>3, <2>4 DEF SameControl, GroupOf, AwaitersGrow
  <1>. QED  BY <1>1, <1>2

\* A routine that is left alone keeps its mutexes and takes no others.
LEMMA HoldsSame ==
    ASSUME IInv, NEW s \in Routines, SameControl(s),
           \A o \in Objects : AwaitersGrow(o), NEW o \in Objects
    PROVE  Holds(s, o)' <=> Holds(s, o)
  <1>1. step'[s] = step[s] /\ Instr(s)' = Instr(s) /\ Current(s)' = Current(s)
    BY DEF SameControl, Instr, Current
  <1>2. step[s] = "callback" => GroupOf(s)' = GroupOf(s)
    BY GroupOfSame
  <1>. QED  BY <1>1, <1>2 DEF Holds

\* A step of r keeps the mutexes exclusive if r only takes free ones and the
\* others keep theirs.
LEMMA MutexFrame ==
    ASSUME MutualExclusion, NEW r \in Routines,
           \A s \in Routines \ {r} : \A o \in Objects :
              /\ Holds(s, o)' => Holds(s, o)
              /\ Holds(s, o) => mu'[o] = mu[o],
           \A o \in Objects :
              Holds(r, o)' => mu'[o] # Nobody /\ (Holds(r, o) \/ mu[o] = Nobody)
    PROVE  MutualExclusion'
  <1>1. SUFFICES ASSUME NEW s \in Routines, NEW o \in Objects, Holds(s, o)'
                 PROVE  mu'[o] # Nobody /\ \A q \in Routines : Holds(q, o)' => q = s
    BY DEF MutualExclusion
  <1>. QED  BY <1>1 DEF MutualExclusion

LEMMA StartsFrame ==
    ASSUME IInv, StartsOK, queue' = queue,
           \A s \in Routines :
              /\ \/ pc'[s] = pc[s]
                 \/ /\ pc'[s] = pc[s] + 1 /\ step[s] # "new"
                    /\ ~AtEnd(s) /\ Instr(s).op # "execute"
              /\ step'[s] = "new" <=> step[s] = "new"
              /\ step'[s] = "queued" <=> step[s] = "queued"
    PROVE  StartsOK'
  <1>1. \A k \in Tasks : k \in Routines
    BY DEF Routines
  <1>2. \A k \in Tasks : step'[k] = "new" => pc'[k] = 1
    BY <1>1 DEF StartsOK
  <1>3. ASSUME NEW k \in Tasks, NEW r \in Routines, NEW i \in DOMAIN Code[r],
               Creates(Code[r][i], Token(k))
        PROVE  i < pc'[r] <=> step'[k] # "new"
    <2>1. i < pc[r] <=> step[k] # "new"
      BY <1>3 DEF StartsOK
    <2>2. Code[r][i].op = "execute"
      <3>1. CASE Code[r][i].op = "createGroup"
        BY <1>3, <3>1, CallType, CurrentToken, CodeAssumption DEF Creates, IInv
      <3>. QED  BY <1>3, <3>1 DEF Creates
    <2>3. pc[r] \in Nat /\ i \in Nat
      BY CallType DEF IInv, TypeOK
    <2>4. i < pc'[r] <=> i < pc[r]
      BY <2>2, <2>3 DEF Instr
    <2>. QED  BY <1>1, <2>1, <2>4
  <1>4. \A i, j \in DOMAIN queue' :
          step'[queue'[i]] = "queued" /\ (queue'[i] = queue'[j] => i = j)
    <2>1. \A i \in DOMAIN queue : queue[i] \in Routines
      BY <1>1 DEF IInv, TypeOK
    <2>. QED  BY <2>1 DEF StartsOK
  <1>. QED  BY <1>2, <1>3, <1>4 DEF StartsOK

\* A task that has not come to its end settles nothing.
EarlyMove(s) ==
    step[s] \in Before /\ step'[s] \in Before \cup {"emplace"} /\ cell'[s] = cell[s]

LEMMA SettlesFrame ==
    ASSUME SettlesOK, state' = state,
           \A k \in Tasks : SameControl(k) \/ EarlyMove(k)
    PROVE  SettlesOK'
  <1>1. SUFFICES ASSUME NEW k \in Tasks
        PROVE  /\ step'[k] \in Before => cell'[k] = 1
               /\ step'[k] = "done" => cell'[k] = Len(Emplaced(k))
               /\ \A n \in 1..Len(Emplaced(k)) :
                     /\ Settled(Emplaced(k)[n])' <=>
                           n < cell'[k] \/ (n = cell'[k] /\ step'[k] \in Past)
                     /\ Settled(Emplaced(k)[n])' =>
                           (state'[Emplaced(k)[n]] = "error" <=> k \in Fails)
    BY DEF SettlesOK
  <1>2. \A c : Settled(c)' <=> Settled(c)
    BY DEF Settled
  <1>3. CASE SameControl(k)
    BY <1>2, <1>3 DEF SettlesOK, SameControl
  <1>4. CASE EarlyMove(k)
    <2>1. step[k] \notin Past /\ step'[k] \notin Past /\ step'[k] # "done"
      BY <1>4 DEF EarlyMove, Before, Past
    <2>. QED  BY <1>2, <1>4, <2>1 DEF SettlesOK, EarlyMove
  <1>. QED  BY <1>3, <1>4

\* A routine that goes on from an await leaves a trace of it in its counter.
Going(s) ==
    \/ pc'[s] = pc[s] /\ (step[s] = "suspended" => step'[s] = "suspended")
    \/ pc'[s] = pc[s] + 1

LEMMA ReachedStays ==
    ASSUME TypeOK, NEW s \in Routines, NEW o, Going(s), Reached(s, o)
    PROVE  Reached(s, o)'
  <1>1. PICK j \in DOMAIN Code[s] :
          Awaits(Code[s][j], o) /\ (j < pc[s] \/ (j = pc[s] /\ step[s] = "suspended"))
    BY DEF Reached
  <1>2. pc[s] \in Nat /\ j \in Nat
    BY CallType DEF TypeOK
  <1>3. j < pc'[s] \/ (j = pc'[s] /\ step'[s] = "suspended")
    BY <1>1, <1>2 DEF Going
  <1>. QED  BY <1>1, <1>3 DEF Reached

\* Only an add call changes what has been added.
KeepsAdds(s) ==
    \/ pc'[s] = pc[s] /\ (step'[s] = "adding" <=> step[s] = "adding")
    \/ /\ pc'[s] = pc[s] + 1 /\ ~AtEnd(s)
       /\ step'[s] # "adding"
       /\ step[s] = "adding" \/ Instr(s).op # "add"

LEMMA AddedToFrame ==
    ASSUME IInv, \A s \in Routines : KeepsAdds(s)
    PROVE  \A g : AddedTo(g)' = AddedTo(g)
  <1>1. SUFFICES ASSUME NEW g, NEW k \in Tasks, NEW s \in Routines, NEW i \in 1..Len(Code[s]),
                        Code[s][i].op = "add"
        PROVE  (i < pc'[s] \/ (i = pc'[s] /\ step'[s] = "adding"))
                  <=> (i < pc[s] \/ (i = pc[s] /\ step[s] = "adding"))
    BY DEF AddedTo
  <1>2. pc[s] \in Nat /\ i \in Nat
    BY DEF IInv, TypeOK
  <1>3. step[s] = "adding" => ~AtEnd(s) /\ Instr(s).op = "add"
    BY DEF IInv, ControlOK, RoutineOK
  <1>. QED  BY <1>1, <1>2, <1>3 DEF KeepsAdds, Instr

LEMMA AwaitersFrame ==
    ASSUME IInv, AwaitersOK, awaiters' = awaiters,
           \A s \in Routines : Going(s),
           \A g \in Groups : AddedTo(g) \subseteq AddedTo(g)'
    PROVE  AwaitersOK'
  <1>1. \A s \in Routines : \A o : Reached(s, o) => Reached(s, o)'
    BY ReachedStays DEF IInv
  <1>. QED  BY <1>1 DEF AwaitersOK

LEMMA CellResumesFrame ==
    ASSUME CellResumesOK, awaiters' = awaiters, state' = state,
           \A k \in Tasks : SameControl(k) \/ EarlyMove(k),
           \A s \in Routines : \A o \in Objects : Suspended(s, o) => Suspended(s, o)'
    PROVE  CellResumesOK'
  <1>1. SUFFICES ASSUME NEW k \in Tasks, NEW n \in 1..Len(Emplaced(k)),
                        NEW i \in DOMAIN awaiters[Emplaced(k)[n]],
                        awaiters[Emplaced(k)[n]][i] \in Routines, ToRun(k, n, i)'
                 PROVE  Suspended(awaiters[Emplaced(k)[n]][i], Emplaced(k)[n])'
    BY DEF CellResumesOK
  <1>2. ToRun(k, n, i)
    <2>1. Settled(Emplaced(k)[n])' <=> Settled(Emplaced(k)[n])
      BY DEF Settled
    <2>2. CASE SameControl(k)
      BY <1>1, <2>1, <2>2 DEF ToRun, SameControl
    <2>3. CASE EarlyMove(k)
      BY <1>1, <2>1, <2>3 DEF ToRun, EarlyMove, Before
    <2>. QED  BY <2>2, <2>3
  <1>3. Emplaced(k)[n] \in Objects
    BY CellOwner
  <1>. QED  BY <1>1, <1>2, <1>3 DEF CellResumesOK

LEMMA GroupResumesFrame ==
    ASSUME IInv, GroupResumesOK, awaiters' = awaiters, pending' = pending,
           \A s \in Routines : \A g \in Groups : Suspended(s, g) => Suspended(s, g)',
           \A s \in Routines : step'[s] \in {"adding", "callback"} =>
              /\ step[s] \in {"adding", "callback"}
              /\ GroupOf(s)' = GroupOf(s) /\ gnext'[s] = gnext[s]
    PROVE  GroupResumesOK'
  <1>1. \A g \in Groups : \A i \in DOMAIN awaiters[g] : awaiters[g][i] \in Routines
    BY DEF IInv, TypeOK
  <1>2. \A s \in Routines : step[s] \in {"adding", "callback"} => GroupOf(s) \in Groups
    BY GroupOfType DEF IInv
  <1>. QED  BY <1>1, <1>2 DEF GroupResumesOK

\* The callbacks still owed are the same if no routine comes past one.
LEMMA UnaccountedFrame ==
    ASSUME TypeOK, AwaitersOK, awaiters' = awaiters,
           \A k \in Tasks : SameControl(k) \/ EarlyMove(k)
    PROVE  \A g \in Groups : Unaccounted(g)' = Unaccounted(g)
  <1>1. SUFFICES ASSUME NEW g \in Groups, NEW k \in Tasks,
                        NEW i \in 1..Len(awaiters[Token(k)])
                 PROVE  Owed(k, i)' <=> Owed(k, i)
    <2>1. \A g \in Groups : Unaccounted(g) \subseteq Tasks /\ Unaccounted(g)' \subseteq Tasks
      BY DEF Unaccounted
    <2>. QED  BY <2>1, UnaccountedOwed, UnaccountedOwedNext
  <1>2. CASE SameControl(k)
    BY <1>2 DEF SameControl, Owed, Current
  <1>3. CASE EarlyMove(k)
    BY <1>3 DEF EarlyMove, Owed, Before, Past
  <1>. QED  BY <1>2, <1>3

LEMMA AccountsFrame ==
    ASSUME GroupAccounting, PendingKept, pending' = pending, errors' = errors, rank' = rank,
           \A g \in Groups : AddedTo(g)' = AddedTo(g) /\ Unaccounted(g)' = Unaccounted(g),
           \A k \in Tasks : Settled(Token(k)) => Settled(Token(k))'
    PROVE  GroupAccounting' /\ PendingKept'
  <1>1. GroupAccounting'
    BY DEF GroupAccounting
  <1>2. PendingKept'
    <2>1. \A g \in Groups : AddedTo(g) \subseteq Tasks
      BY DEF AddedTo
    <2>. QED  BY <2>1 DEF PendingKept
  <1>. QED  BY <1>1, <1>2

\* A routine moves without touching a mutex, a group or a cell.
Calm(s) ==
    /\ cell'[s] = cell[s] /\ next'[s] = next[s] /\ gnext'[s] = gnext[s]
    /\ \/ pc'[s] = pc[s] /\ step'[s] = step[s]
       \/ /\ pc'[s] = pc[s]
          /\ step[s] \in {"new", "queued", "run", "wait"}
          /\ step'[s] \in {"queued", "run", "wait", "emplace"}
       \/ pc'[s] = pc[s] /\ s = Main /\ step[s] = "run" /\ step'[s] = "done"
       \/ /\ pc'[s] = pc[s] + 1
          /\ step[s] \in {"run", "wait"} /\ step'[s] = "run"
          /\ ~AtEnd(s) /\ Instr(s).op # "add"

LEMMA CalmStep ==
    ASSUME IInv, GInv, StartsOK', \A s \in Routines : Calm(s),
           UNCHANGED <<state, mu, awaiters, pending, errors, rank>>
    PROVE  GInv'
  <1>1. \A k \in Tasks : SameControl(k) \/ EarlyMove(k)
    <2>1. \A k \in Tasks : k \in Routines /\ k # Main
      BY CodeAssumption DEF Routines
    <2>. QED  BY <2>1 DEF Calm, SameControl, EarlyMove, Before
  <1>2. \A s \in Routines : \A o : Suspended(s, o) => Suspended(s, o)'
    BY DEF Calm, Suspended, AtEnd, Instr
  <1>3. \A g : AddedTo(g)' = AddedTo(g)
    <2>1. \A s \in Routines : KeepsAdds(s)
      BY DEF Calm, KeepsAdds
    <2>. QED  BY <2>1, AddedToFrame
  <1>4. \A o \in Objects : AwaitersGrow(o)
    BY DEF IInv, TypeOK, AwaitersGrow
  <1>5. \A s \in Routines : step'[s] \in {"addLocked", "adding", "awaiters", "callback", "callbackDrop"}
                            => SameControl(s) /\ gnext'[s] = gnext[s]
    BY DEF Calm, SameControl
  <1>6. SettlesOK'
    BY <1>1, SettlesFrame DEF GInv
  <1>7. MutualExclusion'
    <2>1. \A s \in Routines : \A o \in Objects : Holds(s, o)' => Holds(s, o)
      <3>1. SUFFICES ASSUME NEW s \in Routines, NEW o \in Objects, Holds(s, o)'
                     PROVE  Holds(s, o)
        OBVIOUS
      <3>2. SameControl(s)
        BY <1>5, <3>1 DEF Holds
      <3>. QED  BY <1>4, <3>1, <3>2, HoldsSame
    <2>. QED  BY <2>1 DEF GInv, MutualExclusion
  <1>8. AwaitersOK'
    <2>1. \A s \in Routines : Going(s)
      BY DEF Calm, Going
    <2>. QED  BY <1>3, <2>1, AwaitersFrame DEF GInv
  <1>9. CellResumesOK'
    BY <1>1, <1>2, CellResumesFrame DEF GInv
  <1>10. GroupResumesOK'
    <2>1. \A s \in Routines : step'[s] \in {"adding", "callback"} =>
              /\ step[s] \in {"adding", "callback"}
              /\ GroupOf(s)' = GroupOf(s) /\ gnext'[s] = gnext[s]
      BY <1>4, <1>5, GroupOfSame DEF SameControl
    <2>. QED  BY <1>2, <2>1, GroupResumesFrame DEF GInv
  <1>11. GroupAccounting' /\ PendingKept'
    <2>1. \A g \in Groups : Unaccounted(g)' = Unaccounted(g)
      BY <1>1, UnaccountedFrame DEF IInv, GInv
    <2>2. \A c : Settled(c)' <=> Settled(c)
      BY DEF Settled
    <2>. QED  BY <1>3, <2>1, <2>2, AccountsFrame DEF GInv
  <1>. QED  BY <1>6, <1>7, <1>8, <1>9, <1>10, <1>11 DEF GInv

-----------------------------------------------------------------------------
(* The initial state.                                                      *)

LEMMA InitGInv == Init => GInv
  <1>. SUFFICES ASSUME Init PROVE GInv
    OBVIOUS
  <1>1. IInv
    BY InitIInv
  <1>2. \A k \in Tasks : k \in Routines /\ k # Main /\ step[k] = "new" /\ pc[k] = 1 /\ cell[k] = 1
    BY CodeAssumption DEF Init, Routines
  <1>3. StartsOK
    <2>1. ASSUME NEW r \in Routines, NEW i \in DOMAIN Code[r]
          PROVE  ~(i < pc[r])
      BY <2>1, CallType DEF Init
    <2>. QED  BY <1>2, <2>1 DEF Init, StartsOK
  <1>4. SettlesOK
    <2>1. \A c \in Cells : ~Settled(c)
      BY DEF Init, Settled
    <2>2. \A k \in Tasks : \A n \in 1..Len(Emplaced(k)) : ~(n < 1)
      BY EmplacedCells
    <2>. QED  BY <1>2, <2>1, <2>2, CellOwner DEF SettlesOK, Before, Past
  <1>5. MutualExclusion
    BY DEF Init, MutualExclusion, Holds
  <1>6. \A o \in Objects : DOMAIN awaiters[o] = {}
    BY DEF Init
  <1>7. AwaitersOK /\ CellResumesOK
    BY <1>6, CellOwner DEF AwaitersOK, CellResumesOK
  <1>8. GroupResumesOK
    BY DEF Init, GroupResumesOK, Objects
  <1>9. \A g \in Groups : AddedTo(g) = {} /\ Unaccounted(g) = {}
    <2>1. \A g \in Groups : Unaccounted(g) = {}
      <3>1. SUFFICES ASSUME NEW g \in Groups, NEW k \in Tasks PROVE k \notin Unaccounted(g)
        BY DEF Unaccounted
      <3>2. awaiters[Token(k)] = <<>>
        BY <1>1, CurrentToken DEF Init, IInv
      <3>. QED  BY <3>2, UnaccountedOwed
    <2>2. \A g \in Groups : AddedTo(g) = {}
      BY DEF AddedTo, Init
    <2>. QED  BY <2>1, <2>2
  <1>10. PendingKept /\ GroupAccounting
    BY <1>9, FS_EmptySet DEF PendingKept, GroupAccounting, Init
  <1>. QED  BY <1>3, <1>4, <1>5, <1>7, <1>8, <1>10 DEF GInv

-----------------------------------------------------------------------------
(* Steps that touch no mutex, no group and no cell.                        *)

LEMMA TakeTaskGInv ==
    ASSUME IInv, GInv, NEW w \in Workers, TakeTask(w)
    PROVE  GInv'
  <1>. DEFINE k == Head(queue)
  <1>1. /\ queue # <<>> /\ queue' = Tail(queue)
        /\ step' = [step EXCEPT ![k] = "run"]
        /\ UNCHANGED <<pc, cell, next, gnext, objects>>
    BY DEF TakeTask
  <1>2. k \in Tasks /\ k \in Routines /\ k = queue[1] /\ step[k] = "queued"
    BY <1>1 DEF IInv, TypeOK, GInv, StartsOK, Routines
  <1>. HIDE DEF k
  <1>3. StartsOK'
    <2>1. \A j \in Tasks : step'[j] = "new" <=> step[j] = "new"
      BY <1>1, <1>2 DEF IInv, TypeOK, Routines
    <2>2. ASSUME NEW i \in DOMAIN queue'
          PROVE  /\ i + 1 \in DOMAIN queue /\ queue'[i] = queue[i + 1]
                 /\ i + 1 # 1 /\ i \in Nat
      BY <1>1, <2>2 DEF IInv, TypeOK
    <2>3. \A i \in DOMAIN queue' : queue'[i] \in Routines /\ queue'[i] # k /\ step[queue'[i]] = "queued"
      <3>1. 1 \in DOMAIN queue /\ \A j \in DOMAIN queue : queue[j] \in Routines
        BY <1>1 DEF IInv, TypeOK, Routines
      <3>. QED  BY <1>2, <2>2, <3>1 DEF GInv, StartsOK
    <2>4. \A i, j \in DOMAIN queue' : queue'[i] = queue'[j] => i = j
      BY <2>2 DEF GInv, StartsOK
    <2>. QED  BY <1>1, <2>1, <2>3, <2>4 DEF GInv, StartsOK, IInv, TypeOK
  <1>4. \A s \in Routines : Calm(s)
    BY <1>1, <1>2 DEF IInv, TypeOK, Calm
  <1>. QED  BY <1>1, <1>3, <1>4, CalmStep DEF objects

LEMMA ExecuteGInv ==
    ASSUME IInv, GInv, NEW t \in Threads, NEW r \in Routines, Execute(t, r)
    PROVE  GInv'
  <1>. DEFINE k == Instr(r).task
  <1>1. /\ ~AtEnd(r) /\ step[r] = "run" /\ Instr(r).op = "execute"
        /\ queue' = Append(queue, k)
        /\ step' = [step EXCEPT ![k] = "queued"]
        /\ pc' = [pc EXCEPT ![r] = @ + 1]
        /\ UNCHANGED <<cell, next, gnext, state, mu, awaiters, pending, errors, rank>>
    BY DEF Execute, AtCall
  <1>2. pc[r] \in DOMAIN Code[r] /\ Instr(r) = Code[r][pc[r]] /\ pc[r] \in Nat
    BY <1>1, CodeAssumption DEF IInv, TypeOK, AtEnd, Instr
  <1>3. k \in Tasks /\ k \in Routines /\ Token(k) \in Objects
    BY <1>1, <1>2, CallType, CurrentToken DEF IInv, Routines
  <1>4. Creates(Code[r][pc[r]], Token(k))
    BY <1>1, <1>2, <1>3 DEF Creates, Cells
  <1>5. step[k] = "new" /\ k # r
    BY <1>1, <1>2, <1>3, <1>4 DEF GInv, StartsOK
  <1>6. \A j \in Tasks : Creates(Code[r][pc[r]], Token(j)) => j = k
    BY <1>1, <1>2, <1>3 DEF Creates, Token, Value
  <1>. HIDE DEF k
  <1>7. StartsOK'
    <2>1. \A j \in Tasks : step'[j] = "new" => j # k /\ step[j] = "new"
      BY <1>1, <1>3 DEF IInv, TypeOK, Routines
    <2>2. \A j \in Tasks : step'[j] = "new" => pc'[j] = 1
      <3>1. \A j \in Tasks : step[j] = "new" => j # r /\ j \in Routines
        BY <1>1 DEF Routines
      <3>. QED  BY <1>1, <2>1, <3>1 DEF GInv, StartsOK, IInv, TypeOK
    <2>3. ASSUME NEW j \in Tasks, NEW s \in Routines, NEW i \in DOMAIN Code[s],
                 Creates(Code[s][i], Token(j))
          PROVE  i < pc'[s] <=> step'[j] # "new"
      <3>1. CASE j = k
        <4>1. s = r /\ i = pc[r]
          BY <1>2, <1>3, <1>4, <2>3, <3>1, CallOrder
        <4>2. step'[k] = "queued"
          BY <1>1, <1>3 DEF IInv, TypeOK
        <4>. QED  BY <1>1, <1>2, <3>1, <4>1, <4>2 DEF IInv, TypeOK
      <3>2. CASE j # k
        <4>1. ~(s = r /\ i = pc[r])
          BY <1>6, <2>3, <3>2
        <4>2. i < pc'[s] <=> i < pc[s]
          <5>1. i \in Nat /\ pc[s] \in Nat
            BY CallType DEF IInv, TypeOK
          <5>. QED  BY <1>1, <4>1, <5>1 DEF IInv, TypeOK
        <4>3. step'[j] = step[j]
          BY <1>1, <3>2 DEF IInv, TypeOK, Routines
        <4>. QED  BY <2>3, <4>2, <4>3 DEF GInv, StartsOK
      <3>. QED  BY <3>1, <3>2
    <2>4. \A i, j \in DOMAIN queue' :
            step'[queue'[i]] = "queued" /\ (queue'[i] = queue'[j] => i = j)
      <3>1. queue \in Seq(Tasks)
        BY DEF IInv, TypeOK
      <3>2. \A i \in DOMAIN queue : queue[i] \in Routines /\ queue[i] # k /\ step[queue[i]] = "queued"
        BY <1>5, <3>1 DEF GInv, StartsOK, Routines
      <3>3. \A i \in DOMAIN queue' : i \in DOMAIN queue \/ i = Len(queue) + 1
        BY <1>1, <1>3, <3>1
      <3>4. Len(queue) + 1 \notin DOMAIN queue /\ queue'[Len(queue) + 1] = k
        BY <1>1, <1>3, <3>1
      <3>5. \A i \in DOMAIN queue : queue'[i] = queue[i]
        BY <1>1, <1>3, <3>1
      <3>6. step'[k] = "queued" /\ \A i \in DOMAIN queue : step'[queue[i]] = "queued"
        BY <1>1, <1>3, <3>2 DEF IInv, TypeOK
      <3>. QED  BY <3>2, <3>3, <3>4, <3>5, <3>6 DEF GInv, StartsOK
    <2>. QED  BY <2>2, <2>3, <2>4 DEF StartsOK
  <1>8. \A s \in Routines : Calm(s)
    BY <1>1, <1>3, <1>5 DEF IInv, TypeOK, Calm
  <1>. QED  BY <1>1, <1>7, <1>8, CalmStep

\* A step that only advances a routine, or leaves it where it is, is calm.
LEMMA AdvanceGInv ==
    ASSUME IInv, GInv, NEW r \in Routines,
           step[r] \in {"run", "wait"}, ~AtEnd(r), Instr(r).op \notin {"execute", "add"},
           pc' = [pc EXCEPT ![r] = @ + 1],
           step' = [step EXCEPT ![r] = "run"],
           UNCHANGED <<queue, cell, next, gnext, state, mu, awaiters, pending, errors, rank>>
    PROVE  GInv'
  <1>1. StartsOK'
    <2>1. \A s \in Routines :
              /\ \/ pc'[s] = pc[s]
                 \/ /\ pc'[s] = pc[s] + 1 /\ step[s] # "new"
                    /\ ~AtEnd(s) /\ Instr(s).op # "execute"
              /\ step'[s] = "new" <=> step[s] = "new"
              /\ step'[s] = "queued" <=> step[s] = "queued"
      BY DEF IInv, TypeOK
    <2>. QED  BY <2>1, StartsFrame DEF GInv
  <1>2. \A s \in Routines : Calm(s)
    BY DEF IInv, TypeOK, Calm
  <1>. QED  BY <1>1, <1>2, CalmStep

LEMMA ShiftGInv ==
    ASSUME IInv, GInv, NEW r \in Routines, NEW x,
           \/ step[r] \in {"run", "wait"} /\ x \in {"run", "wait", "emplace"}
           \/ r = Main /\ step[r] = "run" /\ x = "done",
           step' = [step EXCEPT ![r] = x],
           UNCHANGED <<queue, pc, cell, next, gnext, state, mu, awaiters, pending, errors, rank>>
    PROVE  GInv'
  <1>1. StartsOK'
    <2>1. \A s \in Routines :
              /\ pc'[s] = pc[s]
              /\ step'[s] = "new" <=> step[s] = "new"
              /\ step'[s] = "queued" <=> step[s] = "queued"
      BY DEF IInv, TypeOK
    <2>. QED  BY <2>1, StartsFrame DEF GInv
  <1>2. \A s \in Routines : Calm(s)
    BY DEF IInv, TypeOK, Calm
  <1>. QED  BY <1>1, <1>2, CalmStep

\* So are the runtime calls that only count references or wait, and the program's
\* own loads and stores.
LEMMA CalmActionsGInv ==
    ASSUME IInv, GInv, NEW t \in Threads, NEW r \in Routines,
           \/ CreateGroup(t, r) \/ Drop(t, r) \/ Load(t, r) \/ Store(t, r)
           \/ AwaitPass(t, r) \/ AwaitBlock(t, r) \/ SpuriousWakeup(t, r)
           \/ MainReturn(t, r) \/ EndTask(t, r)
    PROVE  GInv'
  <1>1. step = [step EXCEPT ![r] = step[r]]
    BY DEF IInv, TypeOK
  <1>2. step[r] = "wait" => ~AtEnd(r) /\ Instr(r).op = "await"
    BY DEF IInv, ControlOK, RoutineOK
  <1>3. CASE CreateGroup(t, r) \/ Drop(t, r) \/ Load(t, r) \/ Store(t, r)
    <2>1. /\ step[r] = "run" /\ ~AtEnd(r) /\ Instr(r).op \notin {"execute", "add"}
          /\ pc' = [pc EXCEPT ![r] = @ + 1] /\ step' = step
          /\ UNCHANGED <<queue, cell, next, gnext, state, mu, awaiters, pending, errors, rank>>
      BY <1>3 DEF CreateGroup, Drop, Load, Store, AtCall, objects
    <2>. QED  BY <1>1, <2>1, AdvanceGInv
  <1>4. CASE AwaitPass(t, r)
    <2>1. /\ step[r] \in {"run", "wait"} /\ ~AtEnd(r) /\ Instr(r).op \notin {"execute", "add"}
          /\ pc' = [pc EXCEPT ![r] = @ + 1]
          /\ step' = [step EXCEPT ![r] = "run"]
          /\ UNCHANGED <<queue, cell, next, gnext, state, mu, awaiters, pending, errors, rank>>
      BY <1>2, <1>4 DEF AwaitPass, AtCall, objects
    <2>. QED  BY <2>1, AdvanceGInv
  <1>5. CASE AwaitBlock(t, r)
    <2>1. /\ step[r] \in {"run", "wait"}
          /\ step' = [step EXCEPT ![r] = "wait"]
          /\ UNCHANGED <<queue, pc, cell, next, gnext, state, mu, awaiters, pending, errors, rank>>
      BY <1>5 DEF AwaitBlock, AtCall
    <2>. QED  BY <2>1, ShiftGInv
  <1>6. CASE SpuriousWakeup(t, r)
    <2>1. /\ step[r] = "wait" /\ step' = step
          /\ UNCHANGED <<queue, pc, cell, next, gnext, state, mu, awaiters, pending, errors, rank>>
      BY <1>6 DEF SpuriousWakeup, control
    <2>. QED  BY <1>1, <2>1, ShiftGInv
  <1>7. CASE MainReturn(t, r) \/ EndTask(t, r)
    <2>1. /\ \/ step[r] = "run" /\ step' = [step EXCEPT ![r] = "emplace"]
             \/ r = Main /\ step[r] = "run" /\ step' = [step EXCEPT ![r] = "done"]
          /\ UNCHANGED <<queue, pc, cell, next, gnext, state, mu, awaiters, pending, errors, rank>>
      BY <1>7 DEF MainReturn, EndTask, objects
    <2>. QED  BY <2>1, ShiftGInv
  <1>. QED  BY <1>3, <1>4, <1>5, <1>6, <1>7

-----------------------------------------------------------------------------
(* Steps that take or release mutexes.                                     *)

\* What a call of r that changes no cell, group or awaiter leaves to be shown.
LEMMA EarlyStep ==
    ASSUME IInv, GInv, StartsOK', MutualExclusion', GroupResumesOK',
           \A k \in Tasks : SameControl(k) \/ EarlyMove(k),
           \A s \in Routines :
              /\ Going(s) /\ KeepsAdds(s)
              /\ \A o \in Objects : Suspended(s, o) => Suspended(s, o)',
           UNCHANGED <<state, awaiters, pending, errors, rank>>
    PROVE  GInv'
  <1>1. \A g : AddedTo(g)' = AddedTo(g)
    BY AddedToFrame
  <1>2. \A g \in Groups : Unaccounted(g)' = Unaccounted(g)
    BY UnaccountedFrame DEF IInv, GInv
  <1>3. \A c : Settled(c)' <=> Settled(c)
    BY DEF Settled
  <1>4. SettlesOK'
    BY SettlesFrame DEF GInv
  <1>5. AwaitersOK'
    BY <1>1, AwaitersFrame DEF GInv
  <1>6. CellResumesOK'
    BY CellResumesFrame DEF GInv
  <1>7. GroupAccounting' /\ PendingKept'
    BY <1>1, <1>2, <1>3, AccountsFrame DEF GInv
  <1>. QED  BY <1>4, <1>5, <1>6, <1>7 DEF GInv

\* The routines that a step leaves alone, and what r has to show for itself.
LEMMA OthersFrame ==
    ASSUME IInv, NEW r \in Routines,
           \A s \in Routines \ {r} : SameControl(s),
           \A o \in Objects : AwaitersGrow(o)
    PROVE  \A s \in Routines \ {r} :
              /\ Going(s) /\ KeepsAdds(s)
              /\ \A o \in Objects : Suspended(s, o) => Suspended(s, o)'
              /\ \A o \in Objects : Holds(s, o)' <=> Holds(s, o)
              /\ step'[s] \in {"adding", "callback"} => GroupOf(s)' = GroupOf(s)
  <1>1. SUFFICES ASSUME NEW s \in Routines \ {r}
                 PROVE  /\ Going(s) /\ KeepsAdds(s)
                        /\ \A o \in Objects : Suspended(s, o) => Suspended(s, o)'
                        /\ \A o \in Objects : Holds(s, o)' <=> Holds(s, o)
                        /\ step'[s] \in {"adding", "callback"} => GroupOf(s)' = GroupOf(s)
    OBVIOUS
  <1>2. SameControl(s)
    OBVIOUS
  <1>3. Going(s) /\ KeepsAdds(s) /\ \A o \in Objects : Suspended(s, o) => Suspended(s, o)'
    BY <1>2 DEF SameControl, Going, KeepsAdds, Suspended, AtEnd, Instr
  <1>4. \A o \in Objects : Holds(s, o)' <=> Holds(s, o)
    BY <1>2, HoldsSame
  <1>5. step'[s] \in {"adding", "callback"} => GroupOf(s)' = GroupOf(s)
    BY <1>2, GroupOfSame DEF SameControl
  <1>. QED  BY <1>3, <1>4, <1>5

LEMMA AddLockTokenGInv ==
    ASSUME IInv, GInv, NEW t \in Threads, NEW r \in Routines, AddLockToken(t, r)
    PROVE  GInv'
  <1>. DEFINE c == Token(Instr(r).task)
  <1>1. /\ step[r] = "run" /\ ~AtEnd(r) /\ Instr(r).op = "add"
        /\ mu[c] = Nobody /\ mu' = [mu EXCEPT ![c] = t]
        /\ step' = [step EXCEPT ![r] = "addLocked"]
        /\ UNCHANGED <<queue, pc, cell, next, gnext, state, awaiters, pending, errors, rank>>
    BY DEF AddLockToken, AtCall
  <1>. HIDE DEF c
  <1>2. t # Nobody
    BY CodeAssumption
  <1>3. step'[r] = "addLocked" /\ \A s \in Routines \ {r} : SameControl(s)
    BY <1>1 DEF IInv, TypeOK, SameControl
  <1>4. \A o \in Objects : AwaitersGrow(o)
    BY <1>1 DEF IInv, TypeOK, AwaitersGrow
  <1>5. \A s \in Routines \ {r} :
              /\ Going(s) /\ KeepsAdds(s)
              /\ \A o \in Objects : Suspended(s, o) => Suspended(s, o)'
              /\ \A o \in Objects : Holds(s, o)' <=> Holds(s, o)
              /\ step'[s] \in {"adding", "callback"} => GroupOf(s)' = GroupOf(s)
    BY <1>3, <1>4, OthersFrame
  <1>6. Going(r) /\ KeepsAdds(r) /\ \A o \in Objects : ~Suspended(r, o)
    BY <1>1, <1>3 DEF Going, KeepsAdds, Suspended
  <1>7. \A k \in Tasks : SameControl(k) \/ EarlyMove(k)
    BY <1>1, <1>3 DEF EarlyMove, Before, Routines
  <1>8. StartsOK'
    BY <1>1, <1>3, StartsFrame DEF GInv, SameControl
  <1>9. MutualExclusion'
    <2>1. \A o \in Objects : Holds(r, o)' => o = c
      BY <1>1, <1>3 DEF Holds, Instr, c
    <2>2. \A s \in Routines : \A o \in Objects : Holds(s, o) => o # c
      BY <1>1 DEF GInv, MutualExclusion
    <2>. QED  BY <1>1, <1>2, <1>5, <2>1, <2>2, MutexFrame DEF GInv, IInv, TypeOK
  <1>10. GroupResumesOK'
    BY <1>1, <1>3, <1>5, <1>6, GroupResumesFrame DEF GInv, SameControl, Objects
  <1>. QED  BY <1>1, <1>5, <1>6, <1>7, <1>8, <1>9, <1>10, EarlyStep

LEMMA AddUnlockGInv ==
    ASSUME IInv, GInv, NEW t \in Threads, NEW r \in Routines, AddUnlock(t, r)
    PROVE  GInv'
  <1>1. /\ step[r] = "adding" /\ ~AtEnd(r) /\ Instr(r).op = "add"
        /\ mu' = [mu EXCEPT ![GroupOf(r)] = Nobody, ![Token(Instr(r).task)] = Nobody]
        /\ step' = [step EXCEPT ![r] = "run"]
        /\ pc' = [pc EXCEPT ![r] = @ + 1]
        /\ UNCHANGED <<queue, cell, next, gnext, state, awaiters, pending, errors, rank>>
    BY DEF AddUnlock, IInv, ControlOK, RoutineOK
  <1>2. step'[r] = "run" /\ pc'[r] = pc[r] + 1 /\ \A s \in Routines \ {r} : SameControl(s)
    BY <1>1 DEF IInv, TypeOK, SameControl
  <1>3. \A o \in Objects : AwaitersGrow(o)
    BY <1>1 DEF IInv, TypeOK, AwaitersGrow
  <1>4. \A s \in Routines \ {r} :
              /\ Going(s) /\ KeepsAdds(s)
              /\ \A o \in Objects : Suspended(s, o) => Suspended(s, o)'
              /\ \A o \in Objects : Holds(s, o)' <=> Holds(s, o)
              /\ step'[s] \in {"adding", "callback"} => GroupOf(s)' = GroupOf(s)
    BY <1>2, <1>3, OthersFrame
  <1>5. Going(r) /\ KeepsAdds(r) /\ \A o \in Objects : ~Suspended(r, o)
    BY <1>1, <1>2 DEF Going, KeepsAdds, Suspended
  <1>6. \A k \in Tasks : SameControl(k) \/ EarlyMove(k)
    BY <1>1, <1>2 DEF EarlyMove, Before, Routines
  <1>7. StartsOK'
    BY <1>1, <1>2, StartsFrame DEF GInv, SameControl
  <1>8. MutualExclusion'
    <2>1. \A o \in Objects : ~Holds(r, o)'
      BY <1>2 DEF Holds
    <2>2. \A o \in Objects : o = GroupOf(r) \/ o = Token(Instr(r).task) => Holds(r, o)
      BY <1>1 DEF Holds, GroupOf
    <2>3. \A s \in Routines \ {r} : \A o \in Objects :
            Holds(s, o) => o # GroupOf(r) /\ o # Token(Instr(r).task)
      BY <2>2 DEF GInv, MutualExclusion
    <2>. QED  BY <1>1, <1>4, <2>1, <2>3, MutexFrame DEF GInv, IInv, TypeOK
  <1>9. GroupResumesOK'
    BY <1>1, <1>2, <1>4, <1>5, GroupResumesFrame DEF GInv, SameControl, Objects
  <1>. QED  BY <1>1, <1>4, <1>5, <1>6, <1>7, <1>8, <1>9, EarlyStep

\* Only a token's emplacement calls a group back.
LEMMA CallbackOnToken ==
    ASSUME IInv, AwaitersOK, NEW k \in Routines, step[k] \in {"callback", "callbackDrop"}
    PROVE  k \in Tasks /\ Current(k) = Token(k)
  <1>1. /\ k \in Tasks /\ next[k] <= Len(awaiters[Current(k)])
        /\ awaiters[Current(k)][next[k]] \in Groups
    BY DEF IInv, ControlOK, RoutineOK
  <1>2. Current(k) \in Objects /\ next[k] \in DOMAIN awaiters[Current(k)]
    <2>1. Current(k) \in Objects
      BY <1>1, CurrentToken DEF IInv
    <2>. QED  BY <1>1, <2>1 DEF IInv, TypeOK
  <1>3. PICK j \in Tasks : Current(k) = Token(j)
    BY <1>1, <1>2 DEF AwaitersOK, AddedTo
  <1>4. Token(j) = Emplaced(j)[Len(Emplaced(j))] /\ Len(Emplaced(j)) \in 1..Len(Emplaced(j))
    BY CellOwner, EmplacedCells
  <1>5. Current(k) = Emplaced(k)[cell[k]] /\ cell[k] \in 1..Len(Emplaced(k))
    BY <1>1 DEF Current, IInv, TypeOK
  <1>6. j = k
    BY <1>1, <1>3, <1>4, <1>5, CellOwner
  <1>. QED  BY <1>1, <1>3, <1>6

\* What a step of the emplacing task k leaves to be shown, if the cell, its
\* awaiters and the counters stay as they are and no group is being updated.
LEMMA LateStep ==
    ASSUME IInv, GInv, NEW k \in Tasks, MutualExclusion',
           step[k] \in Past, step'[k] \in Past \ {"callback", "done"},
           step'[k] = "callbackDrop" => step[k] = "callback",
           pc'[k] = pc[k], cell'[k] = cell[k],
           \A s \in Routines \ {k} : SameControl(s), gnext' = gnext,
           UNCHANGED <<queue, state, awaiters, pending, errors, rank>>,
           \A i \in DOMAIN awaiters[Current(k)] :
              /\ awaiters[Current(k)][i] \in Routines /\ ToRun(k, cell[k], i)'
                    => ToRun(k, cell[k], i)
              /\ awaiters[Current(k)][i] \in Groups => (Owed(k, i)' <=> Owed(k, i))
    PROVE  GInv'
  <1>1. \A o \in Objects : AwaitersGrow(o)
    BY DEF IInv, TypeOK, AwaitersGrow
  <1>2. k \in Routines
    BY DEF Routines
  <1>3. \A s \in Routines \ {k} :
              /\ Going(s) /\ KeepsAdds(s)
              /\ \A o \in Objects : Suspended(s, o) => Suspended(s, o)'
              /\ \A o \in Objects : Holds(s, o)' <=> Holds(s, o)
              /\ step'[s] \in {"adding", "callback"} => GroupOf(s)' = GroupOf(s)
    BY <1>1, <1>2, OthersFrame
  <1>4. Going(k) /\ KeepsAdds(k) /\ \A o \in Objects : ~Suspended(k, o)
    BY DEF Past, Going, KeepsAdds, Suspended
  <1>5. \A g : AddedTo(g)' = AddedTo(g)
    BY <1>2, <1>3, <1>4, AddedToFrame
  <1>6. \A c : Settled(c)' <=> Settled(c)
    BY DEF Settled
  <1>7. \A j \in Tasks \ {k} : SameControl(j)
    BY DEF Routines
  <1>8. StartsOK'
    BY <1>2, StartsFrame DEF GInv, SameControl, Past
  <1>9. SettlesOK'
    <2>1. \A j \in Tasks :
             /\ cell'[j] = cell[j]
             /\ step'[j] \in Past <=> step[j] \in Past
             /\ step'[j] \in Before <=> step[j] \in Before
             /\ step'[j] = "done" => step[j] = "done"
      BY <1>7 DEF SameControl, Past, Before
    <2>. QED  BY <1>6, <2>1 DEF GInv, SettlesOK
  <1>10. AwaitersOK'
    BY <1>3, <1>4, <1>5, AwaitersFrame DEF GInv
  <1>11. CellResumesOK'
    <2>1. SUFFICES ASSUME NEW j \in Tasks, NEW n \in 1..Len(Emplaced(j)),
                          NEW i \in DOMAIN awaiters[Emplaced(j)[n]],
                          awaiters[Emplaced(j)[n]][i] \in Routines, ToRun(j, n, i)'
                   PROVE  Suspended(awaiters[Emplaced(j)[n]][i], Emplaced(j)[n])'
      BY DEF CellResumesOK
    <2>2. ToRun(j, n, i)
      <3>1. CASE j = k /\ n = cell[k]
        BY <2>1, <3>1 DEF Current
      <3>2. CASE j = k /\ n # cell[k]
        BY <1>6, <2>1, <3>2 DEF ToRun
      <3>3. CASE j # k
        BY <1>6, <1>7, <2>1, <3>3 DEF ToRun, SameControl
      <3>. QED  BY <3>1, <3>2, <3>3
    <2>3. Emplaced(j)[n] \in Objects
      BY CellOwner
    <2>4. Suspended(awaiters[Emplaced(j)[n]][i], Emplaced(j)[n])
      BY <2>1, <2>2 DEF GInv, CellResumesOK
    <2>. QED  BY <1>3, <1>4, <2>1, <2>3, <2>4
  <1>12. GroupResumesOK'
    BY <1>3, <1>4, GroupResumesFrame DEF GInv, SameControl, Objects, Past
  <1>13. \A g \in Groups : Unaccounted(g)' = Unaccounted(g)
    <2>1. SUFFICES ASSUME NEW g \in Groups, NEW j \in Tasks,
                          NEW i \in 1..Len(awaiters[Token(j)]), awaiters[Token(j)][i] = g
                   PROVE  Owed(j, i)' <=> Owed(j, i)
      <3>1. \A g \in Groups : Unaccounted(g) \subseteq Tasks /\ Unaccounted(g)' \subseteq Tasks
        BY DEF Unaccounted
      <3>2. awaiters' = awaiters
        OBVIOUS
      <3>3. SUFFICES ASSUME NEW g \in Groups, NEW j \in Tasks
                     PROVE  (j \in Unaccounted(g))' <=> j \in Unaccounted(g)
        BY <3>1
      <3>. QED  BY <3>2, UnaccountedOwed, UnaccountedOwedNext
    <2>2. CASE j # k
      BY <1>7, <2>2 DEF SameControl, Owed, Current
    <2>3. CASE j = k /\ Current(k) = Token(k)
      BY <2>1, <2>3 DEF IInv, TypeOK
    <2>4. CASE j = k /\ Current(k) # Token(k)
      <3>1. step[k] \notin {"callback", "callbackDrop"}
        BY <1>2, <2>4, CallbackOnToken DEF GInv
      <3>2. Current(k)' = Current(k)
        BY DEF Current
      <3>3. step'[k] \notin {"callback", "callbackDrop"}
        BY <3>1
      <3>. QED  BY <2>4, <3>1, <3>2, <3>3 DEF Owed
    <2>. QED  BY <2>2, <2>3, <2>4
  <1>14. GroupAccounting' /\ PendingKept'
    BY <1>5, <1>6, <1>13, AccountsFrame DEF GInv
  <1>. QED  BY <1>8, <1>9, <1>10, <1>11, <1>12, <1>14 DEF GInv

LEMMA CallbackUnlockGInv ==
    ASSUME IInv, GInv, NEW t \in Threads, NEW r \in Routines, CallbackUnlock(t, r)
    PROVE  GInv'
  <1>1. /\ step[r] = "callback"
        /\ mu' = [mu EXCEPT ![GroupOf(r)] = Nobody]
        /\ step' = [step EXCEPT ![r] = "callbackDrop"]
        /\ UNCHANGED <<queue, pc, cell, next, gnext, state, awaiters, pending, errors, rank>>
    BY DEF CallbackUnlock
  <1>2. step'[r] = "callbackDrop" /\ \A s \in Routines \ {r} : SameControl(s)
    BY <1>1 DEF IInv, TypeOK, SameControl
  <1>3. r \in Tasks /\ Current(r) \in Cells /\ GroupOf(r) \in Groups
    BY <1>1, GroupOfType, CurrentToken DEF IInv, ControlOK, RoutineOK
  <1>4. MutualExclusion'
    <2>1. \A o \in Objects : AwaitersGrow(o)
      BY <1>1 DEF IInv, TypeOK, AwaitersGrow
    <2>2. \A s \in Routines \ {r} : \A o \in Objects : Holds(s, o)' <=> Holds(s, o)
      BY <1>2, <2>1, OthersFrame
    <2>3. \A o \in Objects : Holds(r, o)' => o = Current(r) /\ Holds(r, o)
      BY <1>1, <1>2 DEF Holds, Current
    <2>4. Current(r) # GroupOf(r)
      BY <1>3, CodeAssumption
    <2>5. Holds(r, GroupOf(r))
      BY <1>1 DEF Holds
    <2>6. \A o \in Objects : o # GroupOf(r) => mu'[o] = mu[o]
      BY <1>1 DEF IInv, TypeOK
    <2>7. \A s \in Routines \ {r} : \A o \in Objects : Holds(s, o) => o # GroupOf(r)
      BY <2>5 DEF GInv, MutualExclusion
    <2>8. \A o \in Objects : Holds(r, o) => mu[o] # Nobody
      BY DEF GInv, MutualExclusion
    <2>9. \A o \in Objects :
             Holds(r, o)' => mu'[o] # Nobody /\ (Holds(r, o) \/ mu[o] = Nobody)
      BY <2>3, <2>4, <2>6, <2>8
    <2>. QED  BY <2>2, <2>6, <2>7, <2>9, MutexFrame DEF GInv
  <1>5. \A i \in DOMAIN awaiters[Current(r)] :
          /\ ToRun(r, cell[r], i)' => ToRun(r, cell[r], i)
          /\ Owed(r, i)' <=> Owed(r, i)
    <2>1. \A c : Settled(c)' <=> Settled(c)
      BY <1>1 DEF Settled
    <2>. QED  BY <1>1, <1>2, <2>1 DEF ToRun, Owed, Past, Current
  <1>. QED  BY <1>1, <1>2, <1>3, <1>4, <1>5, LateStep DEF Past

LEMMA CallbackDropGInv ==
    ASSUME IInv, GInv, NEW t \in Threads, NEW r \in Routines, CallbackDrop(t, r)
    PROVE  GInv'
  <1>1. /\ step[r] = "callbackDrop"
        /\ next' = [next EXCEPT ![r] = @ + 1]
        /\ step' = [step EXCEPT ![r] = "awaiters"]
        /\ UNCHANGED <<queue, pc, cell, gnext, state, mu, awaiters, pending, errors, rank>>
    BY DEF CallbackDrop
  <1>2. /\ step'[r] = "awaiters" /\ next'[r] = next[r] + 1 /\ next[r] \in Nat
        /\ \A s \in Routines \ {r} : SameControl(s)
    BY <1>1 DEF IInv, TypeOK, SameControl
  <1>3. r \in Tasks /\ Current(r) \in Objects /\ Current(r) = Token(r)
    BY <1>1, CallbackOnToken, CurrentToken DEF IInv, GInv
  <1>4. MutualExclusion'
    <2>1. \A o \in Objects : AwaitersGrow(o)
      BY <1>1 DEF IInv, TypeOK, AwaitersGrow
    <2>2. \A s \in Routines \ {r} : \A o \in Objects : Holds(s, o)' <=> Holds(s, o)
      BY <1>2, <2>1, OthersFrame
    <2>3. \A o \in Objects : Holds(r, o)' => Holds(r, o)
      BY <1>1, <1>2 DEF Holds, Current
    <2>. QED  BY <1>1, <2>2, <2>3, MutexFrame DEF GInv, MutualExclusion
  <1>5. \A i \in DOMAIN awaiters[Current(r)] :
          /\ ToRun(r, cell[r], i)' => ToRun(r, cell[r], i)
          /\ Owed(r, i)' <=> Owed(r, i)
    <2>1. \A c : Settled(c)' <=> Settled(c)
      BY <1>1 DEF Settled
    <2>2. \A i \in DOMAIN awaiters[Current(r)] : i \in Nat
      BY <1>3 DEF IInv, TypeOK
    <2>3. Current(r)' = Current(r)
      BY <1>1 DEF Current
    <2>. QED  BY <1>1, <1>2, <1>3, <2>1, <2>2, <2>3 DEF ToRun, Owed, Past
  <1>. QED  BY <1>1, <1>2, <1>3, <1>4, <1>5, LateStep DEF Past

LEMMA EmplaceUnlockGInv ==
    ASSUME IInv, GInv, NEW t \in Threads, NEW r \in Routines, EmplaceUnlock(t, r)
    PROVE  GInv'
  <1>1. /\ step[r] = "awaiters" /\ next[r] > Len(awaiters[Current(r)])
        /\ mu' = [mu EXCEPT ![Current(r)] = Nobody]
        /\ step' = [step EXCEPT ![r] = "emplaceDrop"]
        /\ UNCHANGED <<queue, pc, cell, next, gnext, state, awaiters, pending, errors, rank>>
    BY DEF EmplaceUnlock
  <1>2. step'[r] = "emplaceDrop" /\ \A s \in Routines \ {r} : SameControl(s)
    BY <1>1 DEF IInv, TypeOK, SameControl
  <1>3. r \in Tasks
    BY <1>1 DEF IInv, ControlOK, RoutineOK
  <1>4. MutualExclusion'
    <2>1. \A o \in Objects : AwaitersGrow(o)
      BY <1>1 DEF IInv, TypeOK, AwaitersGrow
    <2>2. \A s \in Routines \ {r} : \A o \in Objects : Holds(s, o)' <=> Holds(s, o)
      BY <1>2, <2>1, OthersFrame
    <2>3. \A o \in Objects : ~Holds(r, o)'
      BY <1>2 DEF Holds
    <2>4. Holds(r, Current(r))
      BY <1>1 DEF Holds
    <2>5. \A s \in Routines \ {r} : \A o \in Objects : Holds(s, o) => o # Current(r)
      BY <2>4 DEF GInv, MutualExclusion
    <2>. QED  BY <1>1, <2>2, <2>3, <2>5, MutexFrame DEF GInv, IInv, TypeOK
  <1>5. \A i \in DOMAIN awaiters[Current(r)] :
          /\ ToRun(r, cell[r], i)' => ToRun(r, cell[r], i)
          /\ Owed(r, i)' <=> Owed(r, i)
    <2>1. \A c : Settled(c)' <=> Settled(c)
      BY <1>1 DEF Settled
    <2>. QED  BY <1>1, <1>2, <2>1 DEF ToRun, Owed, Past, Current
  <1>. QED  BY <1>1, <1>2, <1>3, <1>4, <1>5, LateStep DEF Past

LEMMA EmplaceDropGInv ==
    ASSUME IInv, GInv, NEW t \in Threads, NEW r \in Routines, EmplaceDrop(t, r)
    PROVE  GInv'
  <1>1. /\ step[r] = "emplaceDrop"
        /\ \/ /\ cell[r] < Len(Emplaced(r))
              /\ cell' = [cell EXCEPT ![r] = @ + 1]
              /\ step' = [step EXCEPT ![r] = "emplace"]
           \/ /\ ~(cell[r] < Len(Emplaced(r)))
              /\ cell' = cell
              /\ step' = [step EXCEPT ![r] = "done"]
        /\ UNCHANGED <<queue, pc, next, gnext, state, mu, awaiters, pending, errors, rank>>
    BY DEF EmplaceDrop
  <1>2. r \in Tasks /\ cell[r] \in 1..Len(Emplaced(r)) /\ Len(Emplaced(r)) \in Nat
    BY <1>1, EmplacedCells DEF IInv, ControlOK, RoutineOK, TypeOK
  <1>3. /\ \/ /\ cell[r] # Len(Emplaced(r))
              /\ cell'[r] = cell[r] + 1 /\ step'[r] = "emplace"
           \/ /\ cell[r] = Len(Emplaced(r))
              /\ cell'[r] = cell[r] /\ step'[r] = "done"
        /\ pc'[r] = pc[r]
        /\ \A s \in Routines \ {r} : SameControl(s)
    BY <1>1, <1>2 DEF IInv, TypeOK, SameControl
  <1>4. \A o \in Objects : AwaitersGrow(o)
    BY <1>1 DEF IInv, TypeOK, AwaitersGrow
  <1>5. \A s \in Routines \ {r} :
              /\ Going(s) /\ KeepsAdds(s)
              /\ \A o \in Objects : Suspended(s, o) => Suspended(s, o)'
              /\ \A o \in Objects : Holds(s, o)' <=> Holds(s, o)
              /\ step'[s] \in {"adding", "callback"} => GroupOf(s)' = GroupOf(s)
    BY <1>3, <1>4, OthersFrame
  <1>6. Going(r) /\ KeepsAdds(r) /\ \A o \in Objects : ~Suspended(r, o)
    BY <1>1, <1>3 DEF Going, KeepsAdds, Suspended
  <1>7. \A g : AddedTo(g)' = AddedTo(g)
    BY <1>5, <1>6, AddedToFrame
  <1>8. \A c : Settled(c)' <=> Settled(c)
    BY <1>1 DEF Settled
  <1>9. \A j \in Tasks \ {r} : SameControl(j)
    BY <1>3 DEF Routines
  <1>10. StartsOK'
    BY <1>1, <1>3, StartsFrame DEF GInv, SameControl
  <1>11. SettlesOK'
    <2>1. SUFFICES ASSUME NEW k \in Tasks
          PROVE  /\ step'[k] \in Before => cell'[k] = 1
                 /\ step'[k] = "done" => cell'[k] = Len(Emplaced(k))
                 /\ \A n \in 1..Len(Emplaced(k)) :
                       /\ Settled(Emplaced(k)[n]) <=>
                             n < cell'[k] \/ (n = cell'[k] /\ step'[k] \in Past)
                       /\ Settled(Emplaced(k)[n]) =>
                             (state[Emplaced(k)[n]] = "error" <=> k \in Fails)
      BY <1>1, <1>8 DEF SettlesOK
    <2>2. CASE k # r
      BY <1>9, <2>2 DEF GInv, SettlesOK, SameControl
    <2>3. CASE k = r
      <3>1. \A n \in 1..Len(Emplaced(r)) : n \in Nat /\ (n < cell[r] + 1 <=> n < cell[r] \/ n = cell[r])
        BY <1>2
      <3>2. \A n \in 1..Len(Emplaced(r)) : Settled(Emplaced(r)[n]) <=> n < cell[r] \/ n = cell[r]
        BY <1>1, <1>2 DEF GInv, SettlesOK, Past
      <3>. QED  BY <1>2, <1>3, <2>3, <3>1, <3>2 DEF GInv, SettlesOK, Before, Past
    <2>. QED  BY <2>2, <2>3
  <1>12. MutualExclusion'
    <2>1. \A o \in Objects : ~Holds(r, o)'
      BY <1>3 DEF Holds
    <2>. QED  BY <1>1, <1>5, <2>1, MutexFrame DEF GInv
  <1>13. AwaitersOK'
    BY <1>1, <1>5, <1>6, <1>7, AwaitersFrame DEF GInv
  <1>14. CellResumesOK'
    <2>1. SUFFICES ASSUME NEW j \in Tasks, NEW n \in 1..Len(Emplaced(j)),
                          NEW i \in DOMAIN awaiters[Emplaced(j)[n]],
                          awaiters[Emplaced(j)[n]][i] \in Routines, ToRun(j, n, i)'
                   PROVE  Suspended(awaiters[Emplaced(j)[n]][i], Emplaced(j)[n])'
      BY <1>1 DEF CellResumesOK
    <2>2. ToRun(j, n, i)
      BY <1>3, <1>8, <1>9, <2>1 DEF ToRun, SameControl
    <2>3. Emplaced(j)[n] \in Objects
      BY CellOwner
    <2>4. Suspended(awaiters[Emplaced(j)[n]][i], Emplaced(j)[n])
      BY <2>1, <2>2 DEF GInv, CellResumesOK
    <2>. QED  BY <1>1, <1>5, <1>6, <2>1, <2>3, <2>4
  <1>15. GroupResumesOK'
    BY <1>1, <1>3, <1>5, <1>6, GroupResumesFrame DEF GInv, SameControl, Objects
  <1>16. \A g \in Groups : Unaccounted(g)' = Unaccounted(g)
    <2>1. \A g \in Groups : Unaccounted(g) \subseteq Tasks /\ Unaccounted(g)' \subseteq Tasks
      BY DEF Unaccounted
    <2>2. ASSUME NEW k \in Tasks, NEW i
          PROVE  Owed(k, i)' <=> Owed(k, i)
      <3>1. CASE k # r
        BY <1>9, <3>1 DEF SameControl, Owed, Current
      <3>2. CASE k = r
        <4>1. Current(r) = Token(r) <=> cell[r] = Len(Emplaced(r))
          BY <1>2, CurrentToken DEF IInv
        <4>2. cell'[r] = cell[r] => Current(r)' = Current(r)
          BY DEF Current
        <4>3. CASE cell[r] # Len(Emplaced(r))
          BY <1>1, <1>3, <3>2, <4>1, <4>3 DEF Owed, Past
        <4>4. CASE cell[r] = Len(Emplaced(r))
          <5>1. next' = next /\ Token(r)' = Token(r) /\ step'[r] = "done"
            BY <1>1, <1>3, <4>4
          <5>2. Current(r)' = Current(r)
            BY <1>3, <4>2, <4>4
          <5>. QED  BY <1>1, <3>2, <5>1, <5>2 DEF Owed, Past
        <4>. QED  BY <4>3, <4>4
      <3>. QED  BY <3>1, <3>2
    <2>3. awaiters' = awaiters
      BY <1>1
    <2>. QED  BY <2>1, <2>2, <2>3, UnaccountedOwed, UnaccountedOwedNext
  <1>17. GroupAccounting' /\ PendingKept'
    BY <1>1, <1>7, <1>8, <1>16, AccountsFrame DEF GInv
  <1>. QED  BY <1>10, <1>11, <1>12, <1>13, <1>14, <1>15, <1>17 DEF GInv

-----------------------------------------------------------------------------
(* Settling a cell, and leaving a coroutine in its awaiters.               *)

\* An awaiter is left at the end of the awaiters of one object.
LEMMA LeftInAwaiters ==
    ASSUME TypeOK, NEW o \in Objects, NEW x \in Routines \cup Groups,
           awaiters' = [awaiters EXCEPT ![o] = Append(@, x)]
    PROVE  /\ \A p \in Objects : AwaitersGrow(p)
           /\ \A p \in Objects : p # o => awaiters'[p] = awaiters[p]
           /\ \A p \in Objects : \A i \in DOMAIN awaiters[p] :
                 i \in DOMAIN awaiters'[p] /\ awaiters'[p][i] = awaiters[p][i]
           /\ \A p \in Objects : \A i \in DOMAIN awaiters'[p] :
                 \/ i \in DOMAIN awaiters[p] /\ awaiters'[p][i] = awaiters[p][i]
                 \/ p = o /\ i = Len(awaiters[o]) + 1 /\ awaiters'[p][i] = x
           /\ Len(awaiters[o]) + 1 \in DOMAIN awaiters'[o]
           /\ Len(awaiters[o]) + 1 \notin DOMAIN awaiters[o]
           /\ awaiters'[o][Len(awaiters[o]) + 1] = x
           /\ \A p \in Objects : DOMAIN awaiters[p] = 1..Len(awaiters[p])
           /\ \A p \in Objects : DOMAIN awaiters'[p] = 1..Len(awaiters'[p])
  <1>1. /\ awaiters'[o] = Append(awaiters[o], x)
        /\ \A p \in Objects : awaiters[p] \in Seq(Routines \cup Groups)
        /\ \A p \in Objects : p # o => awaiters'[p] = awaiters[p]
    BY DEF TypeOK
  <1>2. ASSUME NEW p \in Objects, p # o
        PROVE  /\ AwaitersGrow(p)
               /\ DOMAIN awaiters[p] = 1..Len(awaiters[p]) /\ DOMAIN awaiters'[p] = 1..Len(awaiters'[p])
    BY <1>1, <1>2 DEF AwaitersGrow
  <1>3. /\ AwaitersGrow(o)
        /\ DOMAIN awaiters[o] = 1..Len(awaiters[o]) /\ DOMAIN awaiters'[o] = 1..Len(awaiters'[o])
        /\ Len(awaiters'[o]) = Len(awaiters[o]) + 1 /\ Len(awaiters[o]) \in Nat
        /\ awaiters'[o][Len(awaiters[o]) + 1] = x
    BY <1>1 DEF AwaitersGrow
  <1>4. \A i \in DOMAIN awaiters'[o] : i \in DOMAIN awaiters[o] \/ i = Len(awaiters[o]) + 1
    BY <1>3
  <1>. QED  BY <1>1, <1>2, <1>3, <1>4 DEF AwaitersGrow

LEMMA EmplaceLockGInv ==
    ASSUME IInv, GInv, NEW t \in Threads, NEW r \in Routines, EmplaceLock(t, r)
    PROVE  GInv'
  <1>0. r \in Tasks /\ Current(r) \in Cells
    <2>1. r \in Tasks
      BY DEF EmplaceLock, IInv, ControlOK, RoutineOK
    <2>. QED  BY <2>1, CurrentToken DEF IInv
  <1>. PICK c \in Cells : c = Current(r)
    BY <1>0
  <1>1. /\ step[r] = "emplace" /\ mu[c] = Nobody
        /\ mu' = [mu EXCEPT ![c] = t]
        /\ state' = [state EXCEPT ![c] = IF r \in Fails THEN "error" ELSE "available"]
        /\ next' = [next EXCEPT ![r] = 1]
        /\ step' = [step EXCEPT ![r] = "awaiters"]
        /\ UNCHANGED <<queue, pc, cell, gnext, awaiters, pending, errors, rank>>
    BY DEF EmplaceLock
  <1>2. c \in Objects /\ cell[r] \in 1..Len(Emplaced(r)) /\ c = Emplaced(r)[cell[r]]
        /\ r \in Tasks
    BY <1>0, CurrentToken DEF IInv, Current
  <1>3. /\ step'[r] = "awaiters" /\ next'[r] = 1 /\ pc'[r] = pc[r]
        /\ \A s \in Routines \ {r} : SameControl(s)
    BY <1>1 DEF IInv, TypeOK, SameControl
  <1>4. \A o \in Objects : AwaitersGrow(o)
    BY <1>1 DEF IInv, TypeOK, AwaitersGrow
  <1>5. \A s \in Routines \ {r} :
              /\ Going(s) /\ KeepsAdds(s)
              /\ \A o \in Objects : Suspended(s, o) => Suspended(s, o)'
              /\ \A o \in Objects : Holds(s, o)' <=> Holds(s, o)
              /\ step'[s] \in {"adding", "callback"} => GroupOf(s)' = GroupOf(s)
    BY <1>3, <1>4, OthersFrame
  <1>6. Going(r) /\ KeepsAdds(r) /\ \A o \in Objects : ~Suspended(r, o)
    BY <1>1, <1>3 DEF Going, KeepsAdds, Suspended
  <1>7. \A g : AddedTo(g)' = AddedTo(g)
    BY <1>5, <1>6, AddedToFrame
  <1>8. /\ \A d \in Cells : d # c => state'[d] = state[d] /\ (Settled(d)' <=> Settled(d))
        /\ Settled(c)' /\ (state'[c] = "error" <=> r \in Fails)
    BY <1>1, <1>2 DEF IInv, TypeOK, Settled
  <1>9. \A j \in Tasks \ {r} : SameControl(j)
    BY <1>3 DEF Routines
  <1>10. StartsOK'
    BY <1>1, <1>3, StartsFrame DEF GInv, SameControl
  <1>11. \A k \in Tasks : \A n \in 1..Len(Emplaced(k)) :
            Emplaced(k)[n] = c <=> k = r /\ n = cell[r]
    BY <1>2, CellOwner
  <1>12. SettlesOK'
    <2>1. SUFFICES ASSUME NEW k \in Tasks
          PROVE  /\ step'[k] \in Before => cell[k] = 1
                 /\ step'[k] = "done" => cell[k] = Len(Emplaced(k))
                 /\ \A n \in 1..Len(Emplaced(k)) :
                       /\ Settled(Emplaced(k)[n])' <=>
                             n < cell[k] \/ (n = cell[k] /\ step'[k] \in Past)
                       /\ Settled(Emplaced(k)[n])' =>
                             (state'[Emplaced(k)[n]] = "error" <=> k \in Fails)
      BY <1>1 DEF SettlesOK
    <2>2. \A n \in 1..Len(Emplaced(k)) : Emplaced(k)[n] \in Cells
      BY CellOwner
    <2>3. CASE k # r
      BY <1>8, <1>9, <1>11, <2>2, <2>3 DEF GInv, SettlesOK, SameControl
    <2>4. CASE k = r
      BY <1>1, <1>3, <1>8, <1>11, <2>2, <2>4 DEF GInv, SettlesOK, Before, Past
    <2>. QED  BY <2>3, <2>4
  <1>13. MutualExclusion'
    <2>1. \A o \in Objects : Holds(r, o)' => o = c
      BY <1>1, <1>3 DEF Holds, Current
    <2>2. \A s \in Routines : \A o \in Objects : Holds(s, o) => o # c
      BY <1>1 DEF GInv, MutualExclusion
    <2>3. t # Nobody
      BY CodeAssumption
    <2>. QED  BY <1>1, <1>5, <2>1, <2>2, <2>3, MutexFrame DEF GInv, IInv, TypeOK
  <1>14. AwaitersOK'
    BY <1>1, <1>5, <1>6, <1>7, AwaitersFrame DEF GInv
  <1>15. CellResumesOK'
    <2>1. SUFFICES ASSUME NEW j \in Tasks, NEW n \in 1..Len(Emplaced(j)),
                          NEW i \in DOMAIN awaiters[Emplaced(j)[n]],
                          awaiters[Emplaced(j)[n]][i] \in Routines, ToRun(j, n, i)'
                   PROVE  Suspended(awaiters[Emplaced(j)[n]][i], Emplaced(j)[n])'
      BY <1>1 DEF CellResumesOK
    <2>2. Emplaced(j)[n] \in Cells /\ Emplaced(j)[n] \in Objects
      BY CellOwner
    <2>3. ToRun(j, n, i)
      <3>1. CASE j = r /\ n = cell[r]
        BY <1>1, <1>2, <3>1 DEF GInv, SettlesOK, ToRun, Past
      <3>2. CASE j = r /\ n # cell[r]
        BY <1>1, <1>8, <1>11, <2>1, <2>2, <3>2 DEF ToRun
      <3>3. CASE j # r
        BY <1>8, <1>9, <1>11, <2>1, <2>2, <3>3 DEF ToRun, SameControl
      <3>. QED  BY <3>1, <3>2, <3>3
    <2>4. Suspended(awaiters[Emplaced(j)[n]][i], Emplaced(j)[n])
      BY <2>1, <2>3 DEF GInv, CellResumesOK
    <2>. QED  BY <1>1, <1>5, <1>6, <2>1, <2>2, <2>4
  <1>16. GroupResumesOK'
    BY <1>1, <1>3, <1>5, <1>6, GroupResumesFrame DEF GInv, SameControl, Objects
  <1>17. \A g \in Groups : Unaccounted(g)' = Unaccounted(g)
    <2>1. \A g \in Groups : Unaccounted(g) \subseteq Tasks /\ Unaccounted(g)' \subseteq Tasks
      BY DEF Unaccounted
    <2>2. ASSUME NEW k \in Tasks, NEW i \in 1..Len(awaiters[Token(k)])
          PROVE  Owed(k, i)' <=> Owed(k, i)
      <3>1. CASE k # r
        BY <1>9, <3>1 DEF SameControl, Owed, Current
      <3>2. CASE k = r
        BY <1>1, <1>3, <3>2 DEF Owed, Past
      <3>. QED  BY <3>1, <3>2
    <2>3. awaiters' = awaiters
      BY <1>1
    <2>. QED  BY <2>1, <2>2, <2>3, UnaccountedOwed, UnaccountedOwedNext
  <1>18. GroupAccounting' /\ PendingKept'
    <2>1. \A k \in Tasks : Settled(Token(k)) => Settled(Token(k))'
      BY <1>8 DEF Cells
    <2>. QED  BY <1>1, <1>7, <1>17, <2>1, AccountsFrame DEF GInv
  <1>. QED  BY <1>10, <1>12, <1>13, <1>14, <1>15, <1>16, <1>18 DEF GInv

LEMMA AwaitSuspendGInv ==
    ASSUME IInv, GInv, NEW t \in Threads, NEW r \in Routines, AwaitSuspend(t, r)
    PROVE  GInv'
  <1>. PICK o : o = Instr(r).obj
    OBVIOUS
  <1>1. /\ step[r] = "run" /\ ~AtEnd(r) /\ Instr(r).op = "await"
        /\ mu[o] = Nobody
        /\ awaiters' = [awaiters EXCEPT ![o] = Append(@, r)]
        /\ step' = [step EXCEPT ![r] = "suspended"]
        /\ UNCHANGED <<queue, pc, cell, next, gnext, state, mu, pending, errors, rank>>
    BY DEF AwaitSuspend, AtCall
  <1>2. /\ pc[r] \in DOMAIN Code[r] /\ Instr(r) = Code[r][pc[r]]
        /\ o \in Objects /\ Awaits(Code[r][pc[r]], o)
    <2>1. pc[r] \in DOMAIN Code[r] /\ Instr(r) = Code[r][pc[r]]
      BY <1>1, CodeAssumption DEF IInv, TypeOK, AtEnd, Instr
    <2>. QED  BY <1>1, <2>1, CallType DEF Awaits
  <1>3. /\ step'[r] = "suspended" /\ pc'[r] = pc[r]
        /\ \A s \in Routines \ {r} : SameControl(s)
    BY <1>1 DEF IInv, TypeOK, SameControl
  <1>4. \A p \in Objects : p # o => awaiters'[p] = awaiters[p]
    BY <1>1, <1>2, LeftInAwaiters DEF IInv
  <1>5. \A p \in Objects : AwaitersGrow(p)
    BY <1>1, <1>2, LeftInAwaiters DEF IInv
  <1>6. \A s \in Routines \ {r} :
              /\ Going(s) /\ KeepsAdds(s)
              /\ \A p \in Objects : Suspended(s, p) => Suspended(s, p)'
              /\ \A p \in Objects : Holds(s, p)' <=> Holds(s, p)
              /\ step'[s] \in {"adding", "callback"} => GroupOf(s)' = GroupOf(s)
    BY <1>3, <1>5, OthersFrame
  <1>7. Going(r) /\ KeepsAdds(r) /\ (\A p \in Objects : ~Suspended(r, p)) /\ Suspended(r, o)'
    BY <1>1, <1>2, <1>3 DEF Going, KeepsAdds, Suspended, AtEnd, Instr
  <1>8. \A g : AddedTo(g)' = AddedTo(g)
    BY <1>6, <1>7, AddedToFrame
  <1>9. \A c : Settled(c)' <=> Settled(c)
    BY <1>1 DEF Settled
  <1>10. \A k \in Tasks : SameControl(k) \/ EarlyMove(k)
    BY <1>1, <1>3 DEF EarlyMove, Before, Routines
  <1>11. StartsOK'
    BY <1>1, <1>3, StartsFrame DEF GInv, SameControl
  <1>12. SettlesOK'
    BY <1>1, <1>10, SettlesFrame DEF GInv
  <1>13. MutualExclusion'
    <2>1. \A p \in Objects : ~Holds(r, p)'
      BY <1>3 DEF Holds
    <2>. QED  BY <1>1, <1>6, <2>1, MutexFrame DEF GInv
  <1>14. \A i \in DOMAIN awaiters[o] : awaiters[o][i] # r
    <2>1. SUFFICES ASSUME NEW i \in DOMAIN awaiters[o], awaiters[o][i] = r PROVE FALSE
      OBVIOUS
    <2>2. Reached(r, o)
      BY <1>2, <2>1 DEF GInv, AwaitersOK
    <2>3. PICK j \in DOMAIN Code[r] : Awaits(Code[r][j], o) /\ j < pc[r]
      BY <1>1, <2>2 DEF Reached
    <2>4. j = pc[r]
      BY <1>2, <2>3, CallOrder
    <2>. QED  BY <2>3, <2>4 DEF IInv, TypeOK
  <1>15. r \notin Groups /\ \A p \in Objects : \A i \in DOMAIN awaiters'[p] :
            \/ i \in DOMAIN awaiters[p] /\ awaiters'[p][i] = awaiters[p][i]
            \/ p = o /\ i = Len(awaiters[o]) + 1 /\ awaiters'[p][i] = r
    BY <1>1, <1>2, LeftInAwaiters, CodeAssumption DEF IInv
  <1>16. AwaitersOK'
    <2>1. SUFFICES ASSUME NEW p \in Objects
          PROVE  /\ \A i, j \in DOMAIN awaiters'[p] : awaiters'[p][i] = awaiters'[p][j] => i = j
                 /\ \A i \in DOMAIN awaiters'[p] : \A s \in Routines :
                       awaiters'[p][i] = s => Reached(s, p)'
                 /\ \A i \in DOMAIN awaiters'[p] : \A g \in Groups :
                       awaiters'[p][i] = g => \E k \in AddedTo(g) : p = Token(k)
      BY <1>8 DEF AwaitersOK
    <2>2. \A i, j \in DOMAIN awaiters'[p] : awaiters'[p][i] = awaiters'[p][j] => i = j
      BY <1>14, <1>15 DEF GInv, AwaitersOK
    <2>3. Reached(r, o)'
      BY <1>2, <1>3 DEF Reached
    <2>4. \A s \in Routines : \A q : Reached(s, q) => Reached(s, q)'
      BY <1>6, <1>7, ReachedStays DEF IInv
    <2>5. ASSUME NEW i \in DOMAIN awaiters'[p], NEW s \in Routines, awaiters'[p][i] = s
          PROVE  Reached(s, p)'
      <3>1. CASE i \in DOMAIN awaiters[p] /\ awaiters'[p][i] = awaiters[p][i]
        BY <2>4, <2>5, <3>1 DEF GInv, AwaitersOK
      <3>. QED  BY <1>15, <2>3, <2>5, <3>1
    <2>. QED  BY <1>15, <2>2, <2>5 DEF GInv, AwaitersOK
  <1>17. CellResumesOK'
    <2>1. SUFFICES ASSUME NEW j \in Tasks, NEW n \in 1..Len(Emplaced(j)),
                          NEW i \in DOMAIN awaiters'[Emplaced(j)[n]],
                          awaiters'[Emplaced(j)[n]][i] \in Routines, ToRun(j, n, i)'
                   PROVE  Suspended(awaiters[Emplaced(j)[n]][i], Emplaced(j)[n])'
      BY DEF CellResumesOK
    <2>2. Emplaced(j)[n] \in Objects
      BY CellOwner
    <2>3. ToRun(j, n, i)
      <3>1. CASE SameControl(j)
        BY <1>9, <2>1, <3>1 DEF ToRun, SameControl
      <3>2. CASE EarlyMove(j)
        BY <1>9, <2>1, <3>2 DEF ToRun, EarlyMove, Before
      <3>. QED  BY <1>10, <3>1, <3>2
    <2>4. CASE i \in DOMAIN awaiters[Emplaced(j)[n]] /\ awaiters'[Emplaced(j)[n]][i] = awaiters[Emplaced(j)[n]][i]
      <3>1. Suspended(awaiters[Emplaced(j)[n]][i], Emplaced(j)[n])
        BY <2>1, <2>3, <2>4 DEF GInv, CellResumesOK
      <3>. QED  BY <1>6, <1>7, <2>1, <2>2, <2>4, <3>1
    <2>5. CASE Emplaced(j)[n] = o /\ awaiters'[Emplaced(j)[n]][i] = r
      BY <1>7, <2>5
    <2>. QED  BY <1>15, <2>2, <2>4, <2>5
  <1>18. GroupResumesOK'
    <2>1. ASSUME NEW g \in Groups, NEW i \in DOMAIN awaiters'[g], pending'[g] # 0
          PROVE  Suspended(awaiters[g][i], g)'
      <3>1. g \in Objects /\ \A j \in DOMAIN awaiters[g] : awaiters[g][j] \in Routines
        BY DEF Objects, IInv, TypeOK
      <3>2. CASE i \in DOMAIN awaiters[g] /\ awaiters'[g][i] = awaiters[g][i]
        BY <1>1, <1>6, <1>7, <2>1, <3>1, <3>2 DEF GInv, GroupResumesOK
      <3>3. CASE g = o /\ awaiters'[g][i] = r
        BY <1>7, <3>3
      <3>. QED  BY <1>15, <3>1, <3>2, <3>3
    <2>2. ASSUME NEW s \in Routines, step'[s] \in {"adding", "callback"}
          PROVE  \A i \in DOMAIN awaiters'[GroupOf(s)'] : i >= gnext'[s] =>
                    pending'[GroupOf(s)'] = 0 /\ Suspended(awaiters[GroupOf(s)][i], GroupOf(s))'
      <3>1. s # r /\ step[s] \in {"adding", "callback"} /\ GroupOf(s)' = GroupOf(s)
        BY <1>3, <1>6, <2>2 DEF SameControl
      <3>2. GroupOf(s) \in Groups /\ GroupOf(s) \in Objects
        BY <3>1, GroupOfType DEF IInv, Objects
      <3>3. Holds(s, GroupOf(s))
        BY <3>1 DEF Holds, GroupOf
      <3>4. GroupOf(s) # o
        BY <1>1, <3>2, <3>3 DEF GInv, MutualExclusion
      <3>5. awaiters'[GroupOf(s)] = awaiters[GroupOf(s)]
            /\ \A j \in DOMAIN awaiters[GroupOf(s)] : awaiters[GroupOf(s)][j] \in Routines
        BY <1>4, <3>2, <3>4 DEF IInv, TypeOK
      <3>6. \A i \in DOMAIN awaiters[GroupOf(s)] : i >= gnext[s] =>
              pending[GroupOf(s)] = 0 /\ Suspended(awaiters[GroupOf(s)][i], GroupOf(s))
        BY <3>1 DEF GInv, GroupResumesOK
      <3>7. \A i \in DOMAIN awaiters[GroupOf(s)] : i >= gnext[s] =>
              Suspended(awaiters[GroupOf(s)][i], GroupOf(s))'
        <4>. PICK g \in Groups : g = GroupOf(s)
          BY <3>2
        <4>1. ASSUME NEW i \in DOMAIN awaiters[g], i >= gnext[s]
              PROVE  Suspended(awaiters[g][i], g)'
          <5>. PICK q \in Routines : q = awaiters[g][i]
            BY <3>5, <4>1
          <5>1. Suspended(q, g)
            BY <3>6, <4>1
          <5>2. Suspended(q, g)'
            BY <1>6, <1>7, <3>2, <5>1
          <5>. QED  BY <3>5, <5>2
        <4>. QED  BY <3>1, <4>1
      <3>. QED  BY <1>1, <3>1, <3>5, <3>6, <3>7
    <2>. QED  BY <2>1, <2>2 DEF GroupResumesOK
  <1>19. \A g \in Groups : Unaccounted(g)' = Unaccounted(g)
    <2>1. \A g \in Groups : Unaccounted(g) \subseteq Tasks /\ Unaccounted(g)' \subseteq Tasks
      BY DEF Unaccounted
    <2>2. ASSUME NEW k \in Tasks, NEW i
          PROVE  Owed(k, i)' <=> Owed(k, i)
      <3>1. CASE SameControl(k)
        BY <3>1 DEF SameControl, Owed, Current
      <3>2. CASE EarlyMove(k)
        BY <3>2 DEF EarlyMove, Owed, Before, Past
      <3>. QED  BY <1>10, <3>1, <3>2
    <2>3. ASSUME NEW k \in Tasks, NEW g \in Groups, NEW i
          PROVE  i \in 1..Len(awaiters'[Token(k)]) /\ awaiters'[Token(k)][i] = g
                    <=> i \in 1..Len(awaiters[Token(k)]) /\ awaiters[Token(k)][i] = g
      <3>1. Token(k) \in Objects /\ awaiters[Token(k)] \in Seq(Routines \cup Groups)
        BY CurrentToken DEF IInv, TypeOK
      <3>2. 1..Len(awaiters[Token(k)]) = DOMAIN awaiters[Token(k)]
            /\ 1..Len(awaiters'[Token(k)]) = DOMAIN awaiters'[Token(k)]
            /\ \A j \in DOMAIN awaiters[Token(k)] :
                  j \in DOMAIN awaiters'[Token(k)] /\ awaiters'[Token(k)][j] = awaiters[Token(k)][j]
        BY <1>1, <1>2, <3>1, LeftInAwaiters DEF IInv
      <3>. QED  BY <1>15, <3>1, <3>2
    <2>4. SUFFICES ASSUME NEW g \in Groups, NEW k \in Tasks
                   PROVE  (k \in Unaccounted(g))' <=> k \in Unaccounted(g)
      BY <2>1
    <2>5. (k \in Unaccounted(g))' <=>
             \E i \in 1..Len(awaiters'[Token(k)]) : awaiters'[Token(k)][i] = g /\ Owed(k, i)'
      BY UnaccountedOwedNext
    <2>6. k \in Unaccounted(g) <=>
             \E i \in 1..Len(awaiters[Token(k)]) : awaiters[Token(k)][i] = g /\ Owed(k, i)
      BY UnaccountedOwed
    <2>. QED  BY <2>2, <2>3, <2>5, <2>6
  <1>20. GroupAccounting' /\ PendingKept'
    BY <1>1, <1>8, <1>9, <1>19, AccountsFrame DEF GInv
  <1>. QED  BY <1>11, <1>12, <1>13, <1>16, <1>17, <1>18, <1>20 DEF GInv

-----------------------------------------------------------------------------
(* Resuming a coroutine.                                                   *)

\* A coroutine is suspended in one await, of one object.
LEMMA SuspendedOnce ==
    ASSUME NEW s \in Routines, NEW o, NEW p, Suspended(s, o), Suspended(s, p)
    PROVE  o = p
  BY DEF Suspended, Awaits

\* What resuming s, which waits for o, does to the control state.
LEMMA ResumeStep ==
    ASSUME IInv, GInv, NEW t \in Threads, NEW r \in Routines, NEW s \in Routines,
           NEW o \in Objects, Suspended(s, o), Resume(t, r, s),
           step[r] \in {"awaiters", "adding", "callback"},
           \/ next' = next
           \/ step[r] = "awaiters" /\ next' = [next EXCEPT ![r] = @ + 1],
           UNCHANGED <<queue, cell, state, mu, awaiters, pending, errors, rank>>
    PROVE  /\ s # r /\ EarlyMove(s)
           /\ \A q \in Routines \ {s} : pc'[q] = pc[q] /\ step'[q] = step[q]
           /\ \A q \in Routines \ {r, s} : SameControl(q)
           /\ \A q \in Routines \ {s} : \A p \in Objects : Suspended(q, p) => Suspended(q, p)'
           /\ \A g : AddedTo(g)' = AddedTo(g)
           /\ StartsOK' /\ SettlesOK' /\ MutualExclusion' /\ AwaitersOK'
  <1>1. step[s] = "suspended" /\ ~AtEnd(s) /\ Instr(s).op = "await" /\ s # r
    BY DEF Suspended, Awaits
  <1>2. /\ step'[s] = "run" /\ pc'[s] = pc[s] + 1
        /\ \A q \in Routines \ {s} : pc'[q] = pc[q] /\ step'[q] = step[q]
    BY DEF Resume, IInv, TypeOK
  <1>3. \A q \in Routines \ {r} : next'[q] = next[q]
    BY DEF IInv, TypeOK
  <1>4. EarlyMove(s) /\ \A q \in Routines \ {r, s} : SameControl(q)
    BY <1>1, <1>2, <1>3 DEF EarlyMove, Before, SameControl
  <1>5. \A q \in Routines \ {s} : \A p \in Objects : Suspended(q, p) => Suspended(q, p)'
    BY <1>2 DEF Suspended, AtEnd, Instr
  <1>6. \A q \in Routines : Going(q) /\ KeepsAdds(q)
    BY <1>1, <1>2 DEF Going, KeepsAdds
  <1>7. \A g : AddedTo(g)' = AddedTo(g)
    BY <1>6, AddedToFrame
  <1>8. StartsOK'
    BY <1>1, <1>2, StartsFrame DEF GInv
  <1>9. SettlesOK'
    <2>1. \A k \in Tasks : /\ cell'[k] = cell[k]
                           /\ step'[k] \in Past <=> step[k] \in Past
                           /\ step'[k] \in Before <=> step[k] \in Before
                           /\ step'[k] = "done" <=> step[k] = "done"
      BY <1>1, <1>2 DEF Past, Before, Routines
    <2>2. \A c : Settled(c)' <=> Settled(c)
      BY DEF Settled
    <2>. QED  BY <2>1, <2>2 DEF GInv, SettlesOK
  <1>10. \A p \in Objects : AwaitersGrow(p)
    BY DEF IInv, TypeOK, AwaitersGrow
  <1>11. MutualExclusion'
    <2>1. \A q \in Routines \ {r, s} : \A p \in Objects : Holds(q, p)' <=> Holds(q, p)
      BY <1>4, <1>10, HoldsSame
    <2>2. \A p \in Objects : ~Holds(s, p)'
      BY <1>2 DEF Holds
    <2>3. ASSUME NEW p \in Objects
          PROVE  Holds(r, p)' <=> Holds(r, p)
      <3>1. step'[r] = step[r] /\ Instr(r)' = Instr(r) /\ Current(r)' = Current(r)
        BY <1>1, <1>2 DEF Instr, Current
      <3>2. CASE next' = next
        BY <3>1, <3>2 DEF Holds, GroupOf
      <3>3. CASE step[r] = "awaiters"
        BY <3>1, <3>3 DEF Holds
      <3>. QED  BY <3>2, <3>3
    <2>. QED  BY <2>1, <2>2, <2>3 DEF GInv, MutualExclusion
  <1>12. AwaitersOK'
    BY <1>6, <1>7, AwaitersFrame DEF GInv
  <1>. QED  BY <1>1, <1>2, <1>4, <1>5, <1>7, <1>8, <1>9, <1>11, <1>12

LEMMA RunGroupAwaiterGInv ==
    ASSUME IInv, GInv, NEW t \in Threads, NEW r \in Routines, RunGroupAwaiter(t, r)
    PROVE  GInv'
  <1>1. step[r] \in {"adding", "callback"} /\ gnext[r] <= Len(awaiters[GroupOf(r)])
    BY DEF RunGroupAwaiter
  <1>2. GroupOf(r) \in Groups
    BY <1>1, GroupOfType DEF IInv
  <1>. PICK g \in Groups : g = GroupOf(r)
    BY <1>2
  <1>3. /\ g \in Objects /\ awaiters[g] \in Seq(Routines) /\ gnext[r] \in Nat \ {0}
        /\ gnext[r] \in DOMAIN awaiters[g] /\ awaiters[g][gnext[r]] \in Routines
    <2>1. g \in Objects /\ awaiters[g] \in Seq(Routines) /\ gnext[r] \in Nat \ {0}
      BY DEF IInv, TypeOK, Objects
    <2>2. gnext[r] \in DOMAIN awaiters[g]
      BY <1>1, <2>1
    <2>. QED  BY <2>1, <2>2
  <1>. PICK s \in Routines : s = awaiters[g][gnext[r]]
    BY <1>3
  <1>4. Suspended(s, g) /\ pending[g] = 0
    BY <1>1, <1>3 DEF GInv, GroupResumesOK
  <1>5. /\ Resume(t, r, s)
        /\ gnext' = [gnext EXCEPT ![r] = @ + 1]
        /\ UNCHANGED <<queue, cell, next, state, mu, awaiters, pending, errors, rank>>
    BY DEF RunGroupAwaiter, objects
  <1>6. /\ s # r /\ EarlyMove(s)
        /\ \A q \in Routines \ {s} : pc'[q] = pc[q] /\ step'[q] = step[q]
        /\ \A q \in Routines \ {r, s} : SameControl(q)
        /\ \A q \in Routines \ {s} : \A p \in Objects : Suspended(q, p) => Suspended(q, p)'
        /\ \A h : AddedTo(h)' = AddedTo(h)
        /\ StartsOK' /\ SettlesOK' /\ MutualExclusion' /\ AwaitersOK'
    BY <1>1, <1>3, <1>4, <1>5, ResumeStep
  <1>7. gnext'[r] = gnext[r] + 1 /\ \A q \in Routines \ {r} : gnext'[q] = gnext[q]
    BY <1>5 DEF IInv, TypeOK
  <1>8. \A c : Settled(c)' <=> Settled(c)
    BY <1>5 DEF Settled
  <1>9. SameControl(r) /\ step'[s] = "run"
    BY <1>5, <1>6 DEF SameControl, Resume, IInv, TypeOK
  <1>10. \A k \in Tasks : SameControl(k) \/ EarlyMove(k)
    BY <1>6, <1>9 DEF Routines
  <1>11. CellResumesOK'
    <2>1. SUFFICES ASSUME NEW k \in Tasks, NEW n \in 1..Len(Emplaced(k)),
                          NEW i \in DOMAIN awaiters[Emplaced(k)[n]], NEW q \in Routines,
                          q = awaiters[Emplaced(k)[n]][i], ToRun(k, n, i)'
                   PROVE  Suspended(q, Emplaced(k)[n])'
      BY <1>5 DEF CellResumesOK
    <2>2. ToRun(k, n, i)
      BY <1>8, <1>10, <2>1 DEF ToRun, SameControl, EarlyMove, Before
    <2>3. Suspended(q, Emplaced(k)[n])
      BY <2>1, <2>2 DEF GInv, CellResumesOK
    <2>4. Emplaced(k)[n] \in Objects /\ Emplaced(k)[n] # g
      BY CellOwner, CodeAssumption
    <2>5. q # s
      BY <1>4, <2>3, <2>4, SuspendedOnce
    <2>. QED  BY <1>6, <2>3, <2>4, <2>5
  <1>12. GroupResumesOK'
    <2>1. ASSUME NEW h \in Groups, NEW i \in DOMAIN awaiters[h], pending[h] # 0,
                 NEW q \in Routines, q = awaiters[h][i]
          PROVE  Suspended(q, h)'
      <3>1. Suspended(q, h)
        BY <2>1 DEF GInv, GroupResumesOK
      <3>2. h \in Objects /\ q # s
        BY <1>4, <2>1, <3>1, SuspendedOnce DEF Objects
      <3>. QED  BY <1>6, <3>1, <3>2
    <2>2. ASSUME NEW h \in Groups, NEW p \in Routines, step'[p] \in {"adding", "callback"},
                 h = GroupOf(p), NEW i \in DOMAIN awaiters[h], i >= gnext'[p],
                 NEW q \in Routines, q = awaiters[h][i]
          PROVE  pending[h] = 0 /\ Suspended(q, h)'
      <3>1. p # s /\ step[p] \in {"adding", "callback"}
        BY <1>6, <1>9, <2>2
      <3>2. h \in Objects /\ i \in Nat /\ gnext[p] \in Nat
        <4>1. awaiters[h] \in Seq(Routines) /\ gnext[p] \in Nat
          BY DEF IInv, TypeOK
        <4>. QED  BY <2>2, <4>1 DEF Objects
      <3>3. i >= gnext[p]
        BY <1>7, <2>2, <3>2
      <3>4. Suspended(q, h) /\ pending[h] = 0
        BY <2>2, <3>1, <3>3 DEF GInv, GroupResumesOK
      <3>5. q # s
        <4>1. SUFFICES ASSUME q = s PROVE FALSE
          OBVIOUS
        <4>2. h = g
          BY <1>4, <3>4, <4>1, SuspendedOnce
        <4>3. CASE p = r
          <5>1. i = gnext[r]
            BY <1>3, <2>2, <4>1, <4>2 DEF GInv, AwaitersOK
          <5>. QED  BY <1>7, <2>2, <3>2, <4>3, <5>1
        <4>4. CASE p # r
          <5>1. Holds(p, g) /\ Holds(r, g)
            BY <1>1, <2>2, <3>1, <4>2 DEF Holds, GroupOf
          <5>. QED  BY <1>3, <4>4, <5>1 DEF GInv, MutualExclusion
        <4>. QED  BY <4>3, <4>4
      <3>. QED  BY <1>6, <3>2, <3>4, <3>5
    <2>3. \A p \in Routines : step'[p] \in {"adding", "callback"} =>
             GroupOf(p)' = GroupOf(p) /\ GroupOf(p) \in Groups
      <3>1. \A p \in Objects : AwaitersGrow(p)
        BY <1>5 DEF IInv, TypeOK, AwaitersGrow
      <3>2. \A p \in Routines : step'[p] \in {"adding", "callback"} => SameControl(p)
        BY <1>6, <1>9
      <3>3. \A p \in Routines : step'[p] \in {"adding", "callback"} =>
               step[p] \in {"adding", "callback"}
        BY <3>2 DEF SameControl
      <3>. QED  BY <3>1, <3>2, <3>3, GroupOfSame, GroupOfType DEF IInv
    <2>4. \A h \in Groups : \A i \in DOMAIN awaiters[h] : awaiters[h][i] \in Routines
      <3>1. \A h \in Groups : awaiters[h] \in Seq(Routines)
        BY DEF IInv, TypeOK
      <3>. QED  BY <3>1
    <2>5. \A h \in Groups : \A i \in DOMAIN awaiters'[h] :
             pending'[h] # 0 => Suspended(awaiters[h][i], h)'
      BY <1>5, <2>1, <2>4
    <2>6. ASSUME NEW p \in Routines, step'[p] \in {"adding", "callback"}
          PROVE  \A i \in DOMAIN awaiters'[GroupOf(p)'] : i >= gnext'[p] =>
                    pending'[GroupOf(p)'] = 0 /\ Suspended(awaiters[GroupOf(p)][i], GroupOf(p))'
      <3>1. GroupOf(p)' = GroupOf(p) /\ GroupOf(p) \in Groups
        BY <2>3, <2>6
      <3>. PICK h \in Groups : h = GroupOf(p)
        BY <3>1
      <3>2. \A i \in DOMAIN awaiters[h] : i >= gnext'[p] =>
              pending[h] = 0 /\ Suspended(awaiters[h][i], h)'
        BY <1>5, <2>2, <2>4, <2>6
      <3>. QED  BY <1>5, <3>1, <3>2
    <2>. QED  BY <2>5, <2>6 DEF GroupResumesOK
  <1>13. \A h \in Groups : Unaccounted(h)' = Unaccounted(h)
    BY <1>5, <1>10, UnaccountedFrame DEF IInv, GInv
  <1>14. GroupAccounting' /\ PendingKept'
    BY <1>5, <1>6, <1>8, <1>13, AccountsFrame DEF GInv
  <1>. QED  BY <1>6, <1>11, <1>12, <1>14 DEF GInv

LEMMA RunResumeAwaiterGInv ==
    ASSUME IInv, GInv, NEW t \in Threads, NEW r \in Routines, RunResumeAwaiter(t, r)
    PROVE  GInv'
  <1>1. step[r] = "awaiters" /\ next[r] <= Len(awaiters[Current(r)])
    BY DEF RunResumeAwaiter, HasAwaiter
  <1>2. r \in Tasks /\ Current(r) \in Cells
    <2>1. r \in Tasks
      BY <1>1 DEF IInv, ControlOK, RoutineOK
    <2>. QED  BY <2>1, CurrentToken DEF IInv
  <1>. PICK c \in Cells : c = Current(r)
    BY <1>2
  <1>3. /\ c \in Objects /\ cell[r] \in 1..Len(Emplaced(r)) /\ c = Emplaced(r)[cell[r]]
        /\ next[r] \in Nat \ {0} /\ next[r] \in DOMAIN awaiters[c]
        /\ awaiters[c][next[r]] \in Routines
    <2>1. c \in Objects /\ next[r] \in Nat \ {0} /\ cell[r] \in 1..Len(Emplaced(r))
      BY <1>2 DEF IInv, TypeOK, Objects
    <2>2. awaiters[c] \in Seq(Routines \cup Groups)
      BY <2>1 DEF IInv, TypeOK
    <2>3. next[r] \in DOMAIN awaiters[c]
      BY <1>1, <2>1, <2>2
    <2>. QED  BY <2>1, <2>3 DEF RunResumeAwaiter, Current
  <1>. PICK s \in Routines : s = awaiters[c][next[r]]
    BY <1>3
  <1>4. Suspended(s, c)
    <2>1. ToRun(r, cell[r], next[r])
      BY <1>1, <1>3 DEF ToRun
    <2>. QED  BY <1>2, <1>3, <2>1 DEF GInv, CellResumesOK
  <1>5. /\ Resume(t, r, s)
        /\ next' = [next EXCEPT ![r] = @ + 1]
        /\ UNCHANGED <<queue, cell, gnext, state, mu, awaiters, pending, errors, rank>>
    BY DEF RunResumeAwaiter, objects
  <1>6. /\ s # r /\ EarlyMove(s)
        /\ \A q \in Routines \ {s} : pc'[q] = pc[q] /\ step'[q] = step[q]
        /\ \A q \in Routines \ {r, s} : SameControl(q)
        /\ \A q \in Routines \ {s} : \A p \in Objects : Suspended(q, p) => Suspended(q, p)'
        /\ \A h : AddedTo(h)' = AddedTo(h)
        /\ StartsOK' /\ SettlesOK' /\ MutualExclusion' /\ AwaitersOK'
    <2>1. /\ step[r] \in {"awaiters", "adding", "callback"}
          /\ \/ next' = next
             \/ step[r] = "awaiters" /\ next' = [next EXCEPT ![r] = @ + 1]
          /\ UNCHANGED <<queue, cell, state, mu, awaiters, pending, errors, rank>>
      BY <1>1, <1>5
    <2>2. c \in Objects /\ Suspended(s, c) /\ Resume(t, r, s)
      BY <1>3, <1>4, <1>5
    <2>. QED  BY <2>1, <2>2, ResumeStep
  <1>7. /\ next'[r] = next[r] + 1 /\ step'[r] = "awaiters" /\ cell'[r] = cell[r]
        /\ step'[s] = "run" /\ Current(r)' = Current(r)
    BY <1>1, <1>5, <1>6 DEF IInv, TypeOK, Resume, Current
  <1>8. \A d : Settled(d)' <=> Settled(d)
    BY <1>5 DEF Settled
  <1>9. Settled(c)
    BY <1>1, <1>2, <1>3 DEF GInv, SettlesOK, Past
  <1>10. \A k \in Tasks \ {r} : SameControl(k) \/ EarlyMove(k)
    BY <1>6 DEF Routines
  <1>11. CellResumesOK'
    <2>1. SUFFICES ASSUME NEW k \in Tasks, NEW n \in 1..Len(Emplaced(k)),
                          NEW i \in DOMAIN awaiters[Emplaced(k)[n]], NEW q \in Routines,
                          q = awaiters[Emplaced(k)[n]][i], ToRun(k, n, i)'
                   PROVE  Suspended(q, Emplaced(k)[n])'
      BY <1>5 DEF CellResumesOK
    <2>2. Emplaced(k)[n] \in Objects /\ i \in Nat
      <3>1. Emplaced(k)[n] \in Objects
        BY CellOwner
      <3>2. awaiters[Emplaced(k)[n]] \in Seq(Routines \cup Groups)
        BY <3>1 DEF IInv, TypeOK
      <3>. QED  BY <3>1, <3>2
    <2>3. ToRun(k, n, i)
      <3>1. CASE k = r
        BY <1>1, <1>3, <1>7, <1>8, <2>1, <2>2, <3>1 DEF ToRun
      <3>2. CASE k # r
        BY <1>8, <1>10, <2>1, <3>2 DEF ToRun, SameControl, EarlyMove, Before
      <3>. QED  BY <3>1, <3>2
    <2>4. Suspended(q, Emplaced(k)[n])
      BY <2>1, <2>3 DEF GInv, CellResumesOK
    <2>5. q # s
      <3>1. SUFFICES ASSUME q = s PROVE FALSE
        OBVIOUS
      <3>2. Emplaced(k)[n] = c
        BY <1>4, <2>4, <3>1, SuspendedOnce
      <3>3. k = r /\ n = cell[r]
        BY <1>2, <1>3, <3>2, CellOwner
      <3>4. i = next[r]
        BY <1>3, <2>1, <3>1, <3>2 DEF GInv, AwaitersOK
      <3>. QED  BY <1>3, <1>7, <1>8, <1>9, <2>1, <3>2, <3>3, <3>4 DEF ToRun
    <2>. QED  BY <1>6, <2>2, <2>4, <2>5
  <1>12. GroupResumesOK'
    <2>1. \A q \in Routines : \A g \in Groups : Suspended(q, g) => Suspended(q, g)'
      <3>1. \A g \in Groups : g \in Objects /\ g # c
        BY CodeAssumption DEF Objects
      <3>2. \A g \in Groups : ~Suspended(s, g)
        BY <1>4, <3>1, SuspendedOnce
      <3>. QED  BY <1>6, <3>1, <3>2
    <2>2. ASSUME NEW q \in Routines, step'[q] \in {"adding", "callback"}
          PROVE  /\ step[q] \in {"adding", "callback"}
                 /\ GroupOf(q)' = GroupOf(q) /\ gnext'[q] = gnext[q]
      <3>1. SameControl(q)
        BY <1>6, <1>7, <2>2
      <3>2. \A p \in Objects : AwaitersGrow(p)
        BY <1>5 DEF IInv, TypeOK, AwaitersGrow
      <3>3. step[q] \in {"adding", "callback"}
        BY <2>2, <3>1 DEF SameControl
      <3>. QED  BY <1>5, <3>1, <3>2, <3>3, GroupOfSame
    <2>. QED  BY <1>5, <2>1, <2>2, GroupResumesFrame DEF GInv
  <1>13. \A g \in Groups : Unaccounted(g)' = Unaccounted(g)
    <2>1. \A g \in Groups : Unaccounted(g) \subseteq Tasks /\ Unaccounted(g)' \subseteq Tasks
      BY DEF Unaccounted
    <2>2. SUFFICES ASSUME NEW g \in Groups, NEW k \in Tasks
                   PROVE  (k \in Unaccounted(g))' <=> k \in Unaccounted(g)
      BY <2>1
    <2>3. ASSUME NEW i \in 1..Len(awaiters[Token(k)]), awaiters[Token(k)][i] = g
          PROVE  Owed(k, i)' <=> Owed(k, i)
      <3>1. CASE k # r
        <4>1. CASE SameControl(k)
          BY <4>1 DEF SameControl, Owed, Current
        <4>2. CASE EarlyMove(k)
          BY <4>2 DEF EarlyMove, Owed, Before, Past
        <4>. QED  BY <1>10, <3>1, <4>1, <4>2
      <3>2. CASE k = r /\ c = Token(r)
        <4>1. i \in Nat /\ i # next[r]
          BY <1>3, <2>3, <3>2, CodeAssumption
        <4>2. Owed(r, i) <=> i >= next[r]
          BY <1>1, <3>2 DEF Owed, Past
        <4>3. Owed(r, i)' <=> i >= next[r] + 1
          BY <1>7, <3>2 DEF Owed, Past
        <4>. QED  BY <1>3, <3>2, <4>1, <4>2, <4>3
      <3>3. CASE k = r /\ c # Token(r)
        BY <1>1, <1>7, <3>3 DEF Owed
      <3>. QED  BY <3>1, <3>2, <3>3
    <2>4. (k \in Unaccounted(g))' <=>
             \E i \in 1..Len(awaiters'[Token(k)]) : awaiters'[Token(k)][i] = g /\ Owed(k, i)'
      BY UnaccountedOwedNext
    <2>5. k \in Unaccounted(g) <=>
             \E i \in 1..Len(awaiters[Token(k)]) : awaiters[Token(k)][i] = g /\ Owed(k, i)
      BY UnaccountedOwed
    <2>. QED  BY <1>5, <2>3, <2>4, <2>5
  <1>14. GroupAccounting' /\ PendingKept'
    BY <1>5, <1>6, <1>8, <1>13, AccountsFrame DEF GInv
  <1>. QED  BY <1>6, <1>11, <1>12, <1>14 DEF GInv

-----------------------------------------------------------------------------
(* Adding a token to a group.                                              *)

\* What the step that enters token k, added by r, into group g finds and does.
LEMMA AddStep ==
    ASSUME IInv, GInv, NEW t \in Threads, NEW r \in Routines, AddLockGroup(t, r),
           NEW k, NEW g, k = Instr(r).task, g = Instr(r).obj
    PROVE  /\ k \in Tasks /\ g \in Groups /\ g \in Objects /\ Token(k) \in Cells
           /\ awaiters[g] = <<>> /\ awaiters'[g] = <<>>
           /\ \A h \in Groups : k \notin AddedTo(h) /\ k \notin Unaccounted(h)
           /\ AddedTo(g)' = AddedTo(g) \cup {k}
           /\ \A h \in Groups : h # g => AddedTo(h)' = AddedTo(h)
           /\ \A o \in Objects : AwaitersGrow(o)
           /\ \A j \in Tasks : SameControl(j) \/ EarlyMove(j)
           /\ \A s \in Routines : Going(s)
           /\ \A s \in Routines : \A o \in Objects : Suspended(s, o) => Suspended(s, o)'
           /\ \A s \in Routines \ {r} :
                 /\ SameControl(s) /\ ~Holds(s, g)
                 /\ step'[s] \in {"adding", "callback"} => GroupOf(s)' = GroupOf(s)
           /\ GroupOf(r)' = g
           /\ StartsOK' /\ SettlesOK' /\ MutualExclusion'
  <1>1. /\ step[r] = "addLocked" /\ ~AtEnd(r) /\ Instr(r).op = "add"
        /\ mu[g] = Nobody /\ mu' = [mu EXCEPT ![g] = t]
        /\ step' = [step EXCEPT ![r] = "adding"]
        /\ UNCHANGED <<queue, pc, cell, next, state>>
    BY DEF AddLockGroup, IInv, ControlOK, RoutineOK
  <1>2. /\ pc[r] \in DOMAIN Code[r] /\ Instr(r) = Code[r][pc[r]] /\ pc[r] \in Nat
        /\ k \in Tasks /\ g \in Groups
    <2>1. pc[r] \in DOMAIN Code[r] /\ Instr(r) = Code[r][pc[r]] /\ pc[r] \in Nat
      BY <1>1, CodeAssumption DEF IInv, TypeOK, AtEnd, Instr
    <2>. QED  BY <1>1, <2>1, CallType
  <1>3. g \in Objects /\ Token(k) \in Cells /\ Token(k) \in Objects /\ g # Token(k)
    BY <1>2, CodeAssumption DEF Objects, Cells
  <1>4. Adds(Code[r][pc[r]], g) /\ Adds(Code[r][pc[r]], Token(k))
    BY <1>1, <1>2 DEF Adds
  <1>5. awaiters[g] = <<>>
    <2>0. awaiters[g] \in Seq(Routines)
      BY <1>2 DEF IInv, TypeOK
    <2>1. SUFFICES ASSUME NEW i \in DOMAIN awaiters[g] PROVE FALSE
      <3>1. SUFFICES ASSUME awaiters[g] # <<>> PROVE 1 \in DOMAIN awaiters[g]
        OBVIOUS
      <3>. QED  BY <2>0, <3>1
    <2>2. awaiters[g][i] \in Routines
      BY <2>0, <2>1
    <2>. PICK s \in Routines : s = awaiters[g][i]
      BY <2>2
    <2>3. Reached(s, g)
      BY <1>3 DEF GInv, AwaitersOK
    <2>4. PICK j \in DOMAIN Code[s] :
            Awaits(Code[s][j], g) /\ (j < pc[s] \/ (j = pc[s] /\ step[s] = "suspended"))
      BY <2>3 DEF Reached
    <2>5. s = r /\ pc[r] < j
      BY <1>2, <1>3, <1>4, <2>4, CallOrder
    <2>6. j \in Nat /\ pc[r] \in Nat
      BY <1>2, CallType
    <2>7. j < pc[r] \/ j = pc[r]
      BY <2>4, <2>5
    <2>. QED  BY <2>5, <2>6, <2>7
  <1>7. \/ awaiters' = awaiters
        \/ awaiters' = [awaiters EXCEPT ![Token(k)] = Append(@, g)]
    BY DEF AddLockGroup, AddReady, AddPending
  <1>8. awaiters'[g] = <<>> /\ \A o \in Objects : AwaitersGrow(o)
    <2>1. CASE awaiters' = awaiters
      BY <1>5, <2>1 DEF IInv, TypeOK, AwaitersGrow
    <2>2. CASE awaiters' = [awaiters EXCEPT ![Token(k)] = Append(@, g)]
      <3>1. g \in Routines \cup Groups /\ Token(k) \in Objects /\ TypeOK
        BY <1>2, <1>3 DEF IInv
      <3>2. /\ \A p \in Objects : AwaitersGrow(p)
            /\ \A p \in Objects : p # Token(k) => awaiters'[p] = awaiters[p]
        BY <2>2, <3>1, LeftInAwaiters
      <3>. QED  BY <1>3, <1>5, <3>2
    <2>. QED  BY <1>7, <2>1, <2>2
  <1>9. ASSUME NEW h \in Groups
        PROVE  k \notin AddedTo(h) /\ k \notin Unaccounted(h)
    <2>1. k \notin AddedTo(h)
      <3>1. SUFFICES ASSUME k \in AddedTo(h) PROVE FALSE
        OBVIOUS
      <3>2. PICK s \in Routines : \E i \in 1..Len(Code[s]) :
              /\ Code[s][i].op = "add" /\ Code[s][i].task = k
              /\ i < pc[s] \/ (i = pc[s] /\ step[s] = "adding")
        BY <3>1 DEF AddedTo
      <3>3. PICK i \in 1..Len(Code[s]) :
              /\ Code[s][i].op = "add" /\ Code[s][i].task = k
              /\ i < pc[s] \/ (i = pc[s] /\ step[s] = "adding")
        BY <3>2
      <3>4. Code[s] \in Seq(Instructions)
        BY CodeAssumption
      <3>5. i \in DOMAIN Code[s]
        BY <3>4
      <3>6. s = r /\ i = pc[r]
        BY <1>1, <1>2, <3>3, <3>5, OneAdd
      <3>. QED  BY <1>1, <1>2, <3>3, <3>6
    <2>2. ASSUME NEW i \in 1..Len(awaiters[Token(k)]), awaiters[Token(k)][i] = h
          PROVE  FALSE
      <3>1. i \in DOMAIN awaiters[Token(k)]
        BY <1>3 DEF IInv, TypeOK
      <3>2. PICK j \in AddedTo(h) : Token(k) = Token(j)
        BY <1>3, <2>2, <3>1 DEF GInv, AwaitersOK
      <3>3. j = k
        BY <3>2 DEF Token
      <3>. QED  BY <2>1, <3>2, <3>3
    <2>. QED  BY <1>2, <2>1, <2>2, UnaccountedOwed
  <1>10. /\ step'[r] = "adding" /\ pc'[r] = pc[r]
         /\ \A s \in Routines \ {r} : SameControl(s)
    BY <1>1 DEF IInv, TypeOK, SameControl
  <1>11. \A s \in Routines \ {r} :
              /\ Going(s) /\ KeepsAdds(s)
              /\ \A o \in Objects : Suspended(s, o) => Suspended(s, o)'
              /\ \A o \in Objects : Holds(s, o)' <=> Holds(s, o)
              /\ step'[s] \in {"adding", "callback"} => GroupOf(s)' = GroupOf(s)
    BY <1>8, <1>10, OthersFrame
  <1>12. Going(r) /\ \A o \in Objects : ~Suspended(r, o)
    BY <1>1, <1>10 DEF Going, Suspended
  <1>13. ASSUME NEW h \in Groups
         PROVE  AddedTo(h)' = IF h = g THEN AddedTo(h) \cup {k} ELSE AddedTo(h)
    <2>1. ASSUME NEW j \in Tasks, NEW s \in Routines, NEW i \in 1..Len(Code[s])
          PROVE  i < pc'[s] \/ (i = pc'[s] /\ step'[s] = "adding") <=>
                    \/ i < pc[s] \/ (i = pc[s] /\ step[s] = "adding")
                    \/ s = r /\ i = pc[r]
      BY <1>1, <1>2, <1>10 DEF SameControl
    <2>2. pc[r] \in 1..Len(Code[r])
      BY <1>2, CallType
    <2>3. AddedTo(h)' = {j \in Tasks : \E s \in Routines : \E i \in 1..Len(Code[s]) :
              /\ Code[s][i].op = "add" /\ Code[s][i].task = j /\ Code[s][i].obj = h
              /\ \/ i < pc[s] \/ (i = pc[s] /\ step[s] = "adding")
                 \/ s = r /\ i = pc[r]}
      BY <2>1 DEF AddedTo
    <2>4. AddedTo(h)' = AddedTo(h) \cup {j \in Tasks : j = k /\ h = g}
      BY <1>1, <1>2, <2>2, <2>3 DEF AddedTo
    <2>. QED  BY <1>2, <2>4
  <1>14. \A j \in Tasks : SameControl(j) \/ EarlyMove(j)
    BY <1>1, <1>10 DEF EarlyMove, Before, Routines
  <1>15. StartsOK'
    BY <1>1, <1>10, StartsFrame DEF GInv, SameControl
  <1>16. SettlesOK'
    BY <1>1, <1>14, SettlesFrame DEF GInv
  <1>17. GroupOf(r)' = g
    BY <1>1, <1>10 DEF GroupOf, Instr
  <1>18. \A s \in Routines : ~Holds(s, g)
    BY <1>1, <1>3 DEF GInv, MutualExclusion
  <1>19. MutualExclusion'
    <2>1. \A o \in Objects : Holds(r, o)' => o = g \/ (o = Token(k) /\ Holds(r, o))
      BY <1>1, <1>10 DEF Holds, Instr
    <2>2. t # Nobody
      BY CodeAssumption
    <2>3. \A o \in Objects : Holds(r, o) => mu[o] # Nobody
      BY DEF GInv, MutualExclusion
    <2>4. mu'[g] = t /\ \A o \in Objects : o # g => mu'[o] = mu[o]
      BY <1>1, <1>3 DEF IInv, TypeOK
    <2>5. \A o \in Objects :
              Holds(r, o)' => mu'[o] # Nobody /\ (Holds(r, o) \/ mu[o] = Nobody)
      BY <1>1, <1>3, <2>1, <2>2, <2>3, <2>4
    <2>6. \A s \in Routines \ {r} : \A o \in Objects :
              /\ Holds(s, o)' => Holds(s, o)
              /\ Holds(s, o) => mu'[o] = mu[o]
      BY <1>11, <1>18, <2>4
    <2>. QED  BY <2>5, <2>6, MutexFrame DEF GInv
  <1>20. /\ AddedTo(g)' = AddedTo(g) \cup {k}
         /\ \A h \in Groups : h # g => AddedTo(h)' = AddedTo(h)
    BY <1>2, <1>13
  <1>. QED  BY <1>2, <1>3, <1>5, <1>8, <1>9, <1>10, <1>11, <1>12, <1>14, <1>15,
               <1>16, <1>17, <1>18, <1>19, <1>20

\* A finite set with one element more counts one more.
LEMMA OneMore ==
    ASSUME NEW S, IsFiniteSet(S), NEW x, x \notin S
    PROVE  Cardinality(S \cup {x}) = Cardinality(S) + 1
  BY FS_AddElement

\* A group that has no awaiters is not about to resume any.
LEMMA AddResumes ==
    ASSUME IInv, GroupResumesOK, NEW r \in Routines, NEW g \in Groups,
           awaiters[g] = <<>>, awaiters'[g] = <<>>, GroupOf(r)' = g,
           \A h \in Groups : h # g => pending'[h] = pending[h] /\ awaiters'[h] = awaiters[h],
           \A s \in Routines : \A o \in Objects : Suspended(s, o) => Suspended(s, o)',
           \A s \in Routines \ {r} :
              /\ SameControl(s) /\ ~Holds(s, g) /\ gnext'[s] = gnext[s]
              /\ step'[s] \in {"adding", "callback"} => GroupOf(s)' = GroupOf(s)
    PROVE  GroupResumesOK'
  <1>1. \A h \in Groups : h \in Objects /\ \A i \in DOMAIN awaiters[h] : awaiters[h][i] \in Routines
    <2>1. \A h \in Groups : awaiters[h] \in Seq(Routines)
      BY DEF IInv, TypeOK
    <2>. QED  BY <2>1 DEF Objects
  <1>2. DOMAIN awaiters'[g] = {}
    OBVIOUS
  <1>3. ASSUME NEW h \in Groups, NEW i \in DOMAIN awaiters'[h], pending'[h] # 0
        PROVE  Suspended(awaiters[h][i], h)'
    <2>1. h # g
      BY <1>2, <1>3
    <2>2. awaiters'[h] = awaiters[h] /\ pending[h] # 0
      BY <1>3, <2>1
    <2>. PICK s \in Routines : s = awaiters[h][i]
      BY <1>1, <1>3, <2>2
    <2>3. Suspended(s, h)
      BY <1>3, <2>2 DEF GroupResumesOK
    <2>4. Suspended(s, h)'
      BY <1>1, <2>3
    <2>. QED  BY <2>2, <2>4
  <1>4. ASSUME NEW s \in Routines, step'[s] \in {"adding", "callback"}
        PROVE  \A i \in DOMAIN awaiters'[GroupOf(s)'] : i >= gnext'[s] =>
                  pending'[GroupOf(s)'] = 0 /\ Suspended(awaiters[GroupOf(s)][i], GroupOf(s))'
    <2>1. CASE s = r
      BY <1>2, <2>1
    <2>2. CASE s # r
      <3>1. step[s] \in {"adding", "callback"} /\ GroupOf(s)' = GroupOf(s) /\ gnext'[s] = gnext[s]
        BY <1>4, <2>2 DEF SameControl
      <3>2. GroupOf(s) \in Groups /\ Holds(s, GroupOf(s))
        BY <3>1, GroupOfType DEF IInv, Holds, GroupOf
      <3>. PICK h \in Groups : h = GroupOf(s)
        BY <3>2
      <3>3. h # g
        BY <2>2, <3>2
      <3>4. ASSUME NEW i \in DOMAIN awaiters[h], i >= gnext[s]
            PROVE  pending[h] = 0 /\ Suspended(awaiters[h][i], h)'
        <4>. PICK q \in Routines : q = awaiters[h][i]
          BY <1>1
        <4>1. pending[h] = 0 /\ Suspended(q, h)
          BY <3>1, <3>4 DEF GroupResumesOK
        <4>2. Suspended(q, h)'
          BY <1>1, <4>1
        <4>. QED  BY <3>3, <4>1, <4>2
      <3>. QED  BY <3>1, <3>3, <3>4
    <2>. QED  BY <2>1, <2>2
  <1>. QED  BY <1>3, <1>4 DEF GroupResumesOK

\* A token that has settled is accounted for at once.
LEMMA AddReadyGInv ==
    ASSUME IInv, GInv, NEW t \in Threads, NEW r \in Routines, AddLockGroup(t, r),
           NEW k, NEW g, k = Instr(r).task, g = Instr(r).obj, AddReady(r, Token(k), g)
    PROVE  GInv'
  <1>1. /\ k \in Tasks /\ g \in Groups /\ g \in Objects /\ Token(k) \in Cells
        /\ awaiters[g] = <<>> /\ awaiters'[g] = <<>>
        /\ \A h \in Groups : k \notin AddedTo(h) /\ k \notin Unaccounted(h)
        /\ AddedTo(g)' = AddedTo(g) \cup {k}
        /\ \A h \in Groups : h # g => AddedTo(h)' = AddedTo(h)
        /\ \A j \in Tasks : SameControl(j) \/ EarlyMove(j)
        /\ \A s \in Routines : Going(s)
        /\ \A s \in Routines : \A o \in Objects : Suspended(s, o) => Suspended(s, o)'
        /\ \A s \in Routines \ {r} :
              /\ SameControl(s) /\ ~Holds(s, g)
              /\ step'[s] \in {"adding", "callback"} => GroupOf(s)' = GroupOf(s)
        /\ GroupOf(r)' = g
        /\ StartsOK' /\ SettlesOK' /\ MutualExclusion'
    BY AddStep
  <1>2. /\ Settled(Token(k)) /\ state' = state /\ awaiters' = awaiters
        /\ pending' = [pending EXCEPT ![g] = (pending[g] + 1) - 1]
        /\ errors' = [errors EXCEPT ![g] = IF state[Token(k)] = "error" THEN @ + 1 ELSE @]
        /\ rank' = [rank EXCEPT ![g] = @ + 1]
        /\ gnext' = [gnext EXCEPT ![r] = IF pending[g] + 1 = 1 THEN 1 ELSE Len(awaiters[g]) + 1]
    <2>1. /\ Settled(Token(k)) /\ awaiters' = awaiters
          /\ OnTokenReady(r, Token(k), g, pending[g] + 1)
      BY DEF AddReady
    <2>3. /\ pending' = [pending EXCEPT ![g] = (pending[g] + 1) - 1]
          /\ errors' = [errors EXCEPT ![g] = IF state[Token(k)] = "error" THEN @ + 1 ELSE @]
          /\ gnext' = [gnext EXCEPT ![r] = IF pending[g] + 1 = 1 THEN 1 ELSE Len(awaiters[g]) + 1]
      BY <2>1 DEF OnTokenReady
    <2>2. state' = state /\ rank' = [rank EXCEPT ![g] = @ + 1]
      BY DEF AddLockGroup
    <2>. QED  BY <2>1, <2>2, <2>3
  <1>3. /\ pending' = pending
        /\ errors'[g] = IF k \in Fails THEN errors[g] + 1 ELSE errors[g]
        /\ rank'[g] = rank[g] + 1
        /\ \A h \in Groups : h # g => errors'[h] = errors[h] /\ rank'[h] = rank[h]
        /\ \A s \in Routines : s # r => gnext'[s] = gnext[s]
    <2>1. state[Token(k)] = "error" <=> k \in Fails
      <3>1. Token(k) = Emplaced(k)[Len(Emplaced(k))] /\ Len(Emplaced(k)) \in 1..Len(Emplaced(k))
        <4>1. Len(Emplaced(k)) \in 1..2
          BY <1>1, EmplacedCells
        <4>2. Len(Emplaced(k)) \in 1..Len(Emplaced(k))
          BY ONLY <4>1
        <4>. QED  BY <1>1, <4>2, CellOwner
      <3>. QED  BY <1>1, <1>2, <3>1 DEF GInv, SettlesOK
    <2>2. pending[g] \in Int /\ pending \in [Groups -> Int]
      BY <1>1 DEF IInv, TypeOK
    <2>3. pending' = pending
      BY <1>1, <1>2, <2>2
    <2>. QED  BY <1>1, <1>2, <2>1, <2>3 DEF IInv, TypeOK
  <1>4. AwaitersOK'
    BY <1>1, <1>2, AwaitersFrame DEF GInv
  <1>5. CellResumesOK'
    BY <1>1, <1>2, CellResumesFrame DEF GInv
  <1>6. GroupResumesOK'
    BY <1>1, <1>2, <1>3, AddResumes DEF GInv
  <1>7. \A h \in Groups : Unaccounted(h)' = Unaccounted(h)
    BY <1>1, <1>2, UnaccountedFrame DEF IInv, GInv
  <1>8. PendingKept'
    <2>1. SUFFICES ASSUME NEW h \in Groups, NEW j \in AddedTo(h)', ~Settled(Token(j))
                   PROVE  j \in Unaccounted(h)
      BY <1>2, <1>7 DEF PendingKept, Settled
    <2>2. j \in AddedTo(h)
      BY <1>1, <1>2, <2>1
    <2>. QED  BY <2>1, <2>2 DEF GInv, PendingKept
  <1>9. GroupAccounting'
    <2>1. /\ IsFiniteSet(AddedTo(g)) /\ IsFiniteSet((AddedTo(g) \ Unaccounted(g)) \cap Fails)
          /\ k \notin AddedTo(g) /\ k \notin Unaccounted(g)
      BY <1>1, TokensFinite
    <2>2. Cardinality(AddedTo(g)') = Cardinality(AddedTo(g)) + 1
      BY <1>1, <2>1, OneMore
    <2>3. Cardinality(((AddedTo(g) \ Unaccounted(g)) \cap Fails)')
            = Cardinality((AddedTo(g) \ Unaccounted(g)) \cap Fails) + (IF k \in Fails THEN 1 ELSE 0)
      <3>1. CASE k \in Fails
        <4>1. ((AddedTo(g) \ Unaccounted(g)) \cap Fails)'
                 = ((AddedTo(g) \ Unaccounted(g)) \cap Fails) \cup {k}
          BY <1>1, <1>7, <2>1, <3>1
        <4>. QED  BY <2>1, <3>1, <4>1, OneMore
      <3>2. CASE k \notin Fails
        <4>1. ((AddedTo(g) \ Unaccounted(g)) \cap Fails)' = (AddedTo(g) \ Unaccounted(g)) \cap Fails
          BY <1>1, <1>7, <2>1, <3>2
        <4>2. Cardinality((AddedTo(g) \ Unaccounted(g)) \cap Fails) \in Nat
          BY <2>1, FS_CardinalityType
        <4>. QED  BY <3>2, <4>1, <4>2
      <3>. QED  BY <3>1, <3>2
    <2>4. /\ pending[g] = Cardinality(Unaccounted(g)) /\ rank[g] = Cardinality(AddedTo(g))
          /\ errors[g] = Cardinality((AddedTo(g) \ Unaccounted(g)) \cap Fails)
          /\ errors[g] \in Nat
      BY <1>1 DEF GInv, GroupAccounting, IInv, TypeOK
    <2>5. /\ pending'[g] = Cardinality(Unaccounted(g)')
          /\ rank'[g] = Cardinality(AddedTo(g)')
          /\ errors'[g] = Cardinality(((AddedTo(g) \ Unaccounted(g)) \cap Fails)')
      BY <1>1, <1>3, <1>7, <2>2, <2>3, <2>4
    <2>6. ASSUME NEW h \in Groups, h # g
          PROVE  /\ pending'[h] = Cardinality(Unaccounted(h)')
                 /\ rank'[h] = Cardinality(AddedTo(h)')
                 /\ errors'[h] = Cardinality(((AddedTo(h) \ Unaccounted(h)) \cap Fails)')
      BY <1>1, <1>3, <1>7, <2>6 DEF GInv, GroupAccounting
    <2>. QED  BY <2>5, <2>6 DEF GroupAccounting
  <1>. QED  BY <1>1, <1>4, <1>5, <1>6, <1>8, <1>9 DEF GInv

\* A token that has not settled leaves a callback in its awaiters.
LEMMA AddPendingGInv ==
    ASSUME IInv, GInv, NEW t \in Threads, NEW r \in Routines, AddLockGroup(t, r),
           NEW k, NEW g, k = Instr(r).task, g = Instr(r).obj, AddPending(r, Token(k), g)
    PROVE  GInv'
  <1>1. /\ k \in Tasks /\ g \in Groups /\ g \in Objects /\ Token(k) \in Cells
        /\ awaiters[g] = <<>> /\ awaiters'[g] = <<>>
        /\ \A h \in Groups : k \notin AddedTo(h) /\ k \notin Unaccounted(h)
        /\ AddedTo(g)' = AddedTo(g) \cup {k}
        /\ \A h \in Groups : h # g => AddedTo(h)' = AddedTo(h)
        /\ \A j \in Tasks : SameControl(j) \/ EarlyMove(j)
        /\ \A s \in Routines : Going(s)
        /\ \A s \in Routines : \A o \in Objects : Suspended(s, o) => Suspended(s, o)'
        /\ \A s \in Routines \ {r} :
              /\ SameControl(s) /\ ~Holds(s, g)
              /\ step'[s] \in {"adding", "callback"} => GroupOf(s)' = GroupOf(s)
        /\ GroupOf(r)' = g
        /\ StartsOK' /\ SettlesOK' /\ MutualExclusion'
    BY AddStep
  <1>2. /\ ~Settled(Token(k)) /\ state' = state
        /\ awaiters' = [awaiters EXCEPT ![Token(k)] = Append(@, g)]
        /\ pending' = [pending EXCEPT ![g] = @ + 1]
        /\ errors' = errors
        /\ rank' = [rank EXCEPT ![g] = @ + 1]
        /\ gnext' = [gnext EXCEPT ![r] = Len(awaiters[g]) + 1]
    BY DEF AddLockGroup, AddPending
  <1>3. /\ pending'[g] = pending[g] + 1 /\ rank'[g] = rank[g] + 1
        /\ \A h \in Groups : h # g => pending'[h] = pending[h] /\ rank'[h] = rank[h]
        /\ \A s \in Routines : s # r => gnext'[s] = gnext[s]
    BY <1>1, <1>2 DEF IInv, TypeOK
  <1>4. /\ Token(k) \in Objects /\ Token(k) # g /\ Token(k) \notin Groups /\ g \notin Routines
        /\ \A h \in Groups : h \in Objects /\ h \notin Routines
    BY <1>1, CodeAssumption DEF Objects
  <1>5. /\ \A p \in Objects : p # Token(k) => awaiters'[p] = awaiters[p]
        /\ \A p \in Objects : \A i \in DOMAIN awaiters[p] :
              i \in DOMAIN awaiters'[p] /\ awaiters'[p][i] = awaiters[p][i]
        /\ \A p \in Objects : \A i \in DOMAIN awaiters'[p] :
              \/ i \in DOMAIN awaiters[p] /\ awaiters'[p][i] = awaiters[p][i]
              \/ p = Token(k) /\ i = Len(awaiters[Token(k)]) + 1 /\ awaiters'[p][i] = g
        /\ Len(awaiters[Token(k)]) + 1 \in DOMAIN awaiters'[Token(k)]
        /\ awaiters'[Token(k)][Len(awaiters[Token(k)]) + 1] = g
        /\ \A p \in Objects : DOMAIN awaiters[p] = 1..Len(awaiters[p])
        /\ \A p \in Objects : DOMAIN awaiters'[p] = 1..Len(awaiters'[p])
    <2>1. g \in Routines \cup Groups /\ TypeOK
      BY <1>1 DEF IInv
    <2>2. Token(k) \in Objects /\ awaiters' = [awaiters EXCEPT ![Token(k)] = Append(@, g)]
      BY <1>2, <1>4
    <2>. QED  BY ONLY <2>1, <2>2, LeftInAwaiters
  <1>6. \A h \in Groups : \A i \in DOMAIN awaiters[Token(k)] : awaiters[Token(k)][i] # h
    <2>1. SUFFICES ASSUME NEW h \in Groups, NEW i \in DOMAIN awaiters[Token(k)],
                          awaiters[Token(k)][i] = h
                   PROVE  FALSE
      OBVIOUS
    <2>2. PICK j \in AddedTo(h) : Token(k) = Token(j)
      BY <1>4, <2>1 DEF GInv, AwaitersOK
    <2>. QED  BY <1>1, <2>2 DEF Token
  <1>7. AwaitersOK'
    <2>1. SUFFICES ASSUME NEW p \in Objects
          PROVE  /\ \A i, j \in DOMAIN awaiters'[p] : awaiters'[p][i] = awaiters'[p][j] => i = j
                 /\ \A i \in DOMAIN awaiters'[p] : \A s \in Routines :
                       awaiters'[p][i] = s => Reached(s, p)'
                 /\ \A i \in DOMAIN awaiters'[p] : \A h \in Groups :
                       awaiters'[p][i] = h => \E j \in AddedTo(h)' : p = Token(j)
      BY DEF AwaitersOK
    <2>2. \A i, j \in DOMAIN awaiters'[p] : awaiters'[p][i] = awaiters'[p][j] => i = j
      BY <1>1, <1>5, <1>6 DEF GInv, AwaitersOK
    <2>3. \A s \in Routines : \A q : Reached(s, q) => Reached(s, q)'
      BY <1>1, ReachedStays DEF IInv
    <2>4. ASSUME NEW i \in DOMAIN awaiters'[p], NEW s \in Routines, awaiters'[p][i] = s
          PROVE  Reached(s, p)'
      <3>1. i \in DOMAIN awaiters[p] /\ awaiters'[p][i] = awaiters[p][i]
        BY <1>4, <1>5, <2>4
      <3>. QED  BY <2>3, <2>4, <3>1 DEF GInv, AwaitersOK
    <2>5. ASSUME NEW i \in DOMAIN awaiters'[p], NEW h \in Groups, awaiters'[p][i] = h
          PROVE  \E j \in AddedTo(h)' : p = Token(j)
      <3>1. CASE i \in DOMAIN awaiters[p] /\ awaiters'[p][i] = awaiters[p][i]
        BY <1>1, <2>5, <3>1 DEF GInv, AwaitersOK
      <3>2. CASE p = Token(k) /\ awaiters'[p][i] = g
        BY <1>1, <2>5, <3>2
      <3>. QED  BY <1>5, <3>1, <3>2
    <2>. QED  BY <2>2, <2>4, <2>5
  <1>8. \A c : Settled(c)' <=> Settled(c)
    BY <1>2 DEF Settled
  <1>9. CellResumesOK'
    <2>1. SUFFICES ASSUME NEW j \in Tasks, NEW n \in 1..Len(Emplaced(j)),
                          NEW i \in DOMAIN awaiters'[Emplaced(j)[n]], NEW s \in Routines,
                          awaiters'[Emplaced(j)[n]][i] = s, ToRun(j, n, i)'
                   PROVE  Suspended(s, Emplaced(j)[n])'
      BY DEF CellResumesOK
    <2>2. Emplaced(j)[n] \in Objects
      BY CellOwner
    <2>3. i \in DOMAIN awaiters[Emplaced(j)[n]] /\ awaiters[Emplaced(j)[n]][i] = s
      BY <1>4, <1>5, <2>1, <2>2
    <2>4. ToRun(j, n, i)
      BY <1>1, <1>8, <2>1 DEF ToRun, SameControl, EarlyMove, Before
    <2>5. Suspended(s, Emplaced(j)[n])
      BY <2>3, <2>4 DEF GInv, CellResumesOK
    <2>. QED  BY <1>1, <2>2, <2>5
  <1>10. GroupResumesOK'
    BY <1>1, <1>3, <1>4, <1>5, AddResumes DEF GInv
  <1>11. ASSUME NEW h \in Groups
         PROVE  Unaccounted(h)' = IF h = g THEN Unaccounted(h) \cup {k} ELSE Unaccounted(h)
    <2>1. Unaccounted(h) \subseteq Tasks /\ Unaccounted(h)' \subseteq Tasks
      BY DEF Unaccounted
    <2>2. SUFFICES ASSUME NEW j \in Tasks
                   PROVE  (j \in Unaccounted(h))' <=> j \in Unaccounted(h) \/ (j = k /\ h = g)
      BY <1>1, <2>1
    <2>3. (j \in Unaccounted(h))' <=>
             \E i \in 1..Len(awaiters'[Token(j)]) : awaiters'[Token(j)][i] = h /\ Owed(j, i)'
      BY UnaccountedOwedNext
    <2>4. j \in Unaccounted(h) <=>
             \E i \in 1..Len(awaiters[Token(j)]) : awaiters[Token(j)][i] = h /\ Owed(j, i)
      BY UnaccountedOwed
    <2>5. \A i : Owed(j, i)' <=> Owed(j, i)
      <3>1. CASE SameControl(j)
        BY <3>1 DEF SameControl, Owed, Current
      <3>2. CASE EarlyMove(j)
        BY <3>2 DEF EarlyMove, Owed, Before, Past
      <3>. QED  BY <1>1, <3>1, <3>2
    <2>6. Token(j) \in Objects /\ (Token(j) = Token(k) <=> j = k)
      BY CurrentToken DEF IInv, Token
    <2>7. ~(step[k] \in Past /\ Current(k) = Token(k))
      <3>1. cell[k] \in 1..Len(Emplaced(k)) /\ Current(k) = Emplaced(k)[cell[k]]
        BY <1>1, CurrentToken DEF IInv, Current
      <3>. QED  BY <1>1, <1>2, <3>1 DEF GInv, SettlesOK
    <2>8. step[k] \notin {"callback", "callbackDrop"}
      BY <1>1, <2>7, CallbackOnToken DEF GInv, Past, Routines
    <2>9. \A i : Owed(k, i)
      BY <2>7, <2>8 DEF Owed
    <2>10. CASE j = k /\ h = g
      BY <1>5, <1>4, <2>3, <2>5, <2>9, <2>10
    <2>11. CASE ~(j = k /\ h = g)
      <3>1. \A i : i \in 1..Len(awaiters'[Token(j)]) /\ awaiters'[Token(j)][i] = h
                     <=> i \in 1..Len(awaiters[Token(j)]) /\ awaiters[Token(j)][i] = h
        BY <1>4, <1>5, <2>6, <2>11
      <3>. QED  BY <2>3, <2>4, <2>5, <2>11, <3>1
    <2>. QED  BY <2>10, <2>11
  <1>12. PendingKept'
    <2>1. SUFFICES ASSUME NEW h \in Groups, NEW j \in AddedTo(h)', ~Settled(Token(j))
                   PROVE  j \in Unaccounted(h)'
      BY <1>8 DEF PendingKept
    <2>2. CASE h = g /\ j = k
      BY <1>11, <2>2
    <2>3. CASE ~(h = g /\ j = k)
      <3>1. j \in AddedTo(h)
        BY <1>1, <2>1, <2>3
      <3>. QED  BY <1>11, <2>1, <3>1 DEF GInv, PendingKept
    <2>. QED  BY <2>2, <2>3
  <1>13. GroupAccounting'
    <2>1. /\ IsFiniteSet(AddedTo(g)) /\ IsFiniteSet(Unaccounted(g))
          /\ k \notin AddedTo(g) /\ k \notin Unaccounted(g)
      BY <1>1, TokensFinite
    <2>2. Cardinality(AddedTo(g)') = Cardinality(AddedTo(g)) + 1
      BY <1>1, <2>1, OneMore
    <2>3. Cardinality(Unaccounted(g)') = Cardinality(Unaccounted(g)) + 1
      BY <1>1, <1>11, <2>1, OneMore
    <2>4. ((AddedTo(g) \ Unaccounted(g)) \cap Fails)' = (AddedTo(g) \ Unaccounted(g)) \cap Fails
      BY <1>1, <1>11, <2>1
    <2>5. /\ pending[g] = Cardinality(Unaccounted(g)) /\ rank[g] = Cardinality(AddedTo(g))
          /\ errors[g] = Cardinality((AddedTo(g) \ Unaccounted(g)) \cap Fails)
      BY <1>1 DEF GInv, GroupAccounting
    <2>6. /\ pending'[g] = Cardinality(Unaccounted(g)')
          /\ rank'[g] = Cardinality(AddedTo(g)')
          /\ errors'[g] = Cardinality(((AddedTo(g) \ Unaccounted(g)) \cap Fails)')
      BY <1>2, <1>3, <2>2, <2>3, <2>4, <2>5
    <2>7. ASSUME NEW h \in Groups, h # g
          PROVE  /\ pending'[h] = Cardinality(Unaccounted(h)')
                 /\ rank'[h] = Cardinality(AddedTo(h)')
                 /\ errors'[h] = Cardinality(((AddedTo(h) \ Unaccounted(h)) \cap Fails)')
      BY <1>1, <1>2, <1>3, <1>11, <2>7 DEF GInv, GroupAccounting
    <2>. QED  BY <2>6, <2>7 DEF GroupAccounting
  <1>. QED  BY <1>1, <1>7, <1>9, <1>10, <1>12, <1>13 DEF GInv

LEMMA AddLockGroupGInv ==
    ASSUME IInv, GInv, NEW t \in Threads, NEW r \in Routines, AddLockGroup(t, r)
    PROVE  GInv'
  <1>. PICK k, g : k = Instr(r).task /\ g = Instr(r).obj
    OBVIOUS
  <1>1. AddReady(r, Token(k), g) \/ AddPending(r, Token(k), g)
    BY DEF AddLockGroup
  <1>. QED  BY <1>1, AddReadyGInv, AddPendingGInv

-----------------------------------------------------------------------------
(* Calling a group back.                                                   *)

LEMMA RunGroupCallbackGInv ==
    ASSUME IInv, GInv, NEW t \in Threads, NEW r \in Routines, RunGroupCallback(t, r)
    PROVE  GInv'
  <1>1. /\ step[r] = "awaiters" /\ next[r] <= Len(awaiters[Current(r)])
        /\ GroupOf(r) = awaiters[Current(r)][next[r]] /\ GroupOf(r) \in Groups
    BY DEF RunGroupCallback, HasAwaiter, GroupOf
  <1>. PICK g \in Groups : g = GroupOf(r)
    BY <1>1
  <1>2. r \in Tasks /\ Current(r) \in Objects /\ next[r] \in Nat \ {0}
    <2>1. r \in Tasks
      BY <1>1 DEF IInv, ControlOK, RoutineOK
    <2>. QED  BY <2>1, CurrentToken DEF IInv, TypeOK
  <1>. PICK c \in Objects : c = Current(r)
    BY <1>2
  <1>3. next[r] \in DOMAIN awaiters[c] /\ awaiters[c][next[r]] = g
    <2>1. awaiters[c] \in Seq(Routines \cup Groups)
      BY DEF IInv, TypeOK
    <2>. QED  BY <1>1, <1>2, <2>1
  <1>4. c = Token(r) /\ r \in AddedTo(g) /\ cell[r] = Len(Emplaced(r))
        /\ cell[r] \in 1..Len(Emplaced(r)) /\ c = Emplaced(r)[cell[r]]
    <2>1. PICK j \in AddedTo(g) : c = Token(j)
      BY <1>3 DEF GInv, AwaitersOK
    <2>2. j \in Tasks
      BY <2>1 DEF AddedTo
    <2>3. Token(j) = Emplaced(j)[Len(Emplaced(j))] /\ Len(Emplaced(j)) \in 1..Len(Emplaced(j))
      BY <2>2, CellOwner, EmplacedCells
    <2>4. c = Emplaced(r)[cell[r]] /\ cell[r] \in 1..Len(Emplaced(r))
      BY <1>2 DEF Current, IInv, TypeOK
    <2>5. j = r
      BY <1>2, <2>1, <2>2, <2>3, <2>4, CellOwner
    <2>. QED  BY <1>2, <2>1, <2>4, <2>5, CurrentToken DEF IInv
  <1>5. /\ mu[g] = Nobody /\ mu' = [mu EXCEPT ![g] = t]
        /\ step' = [step EXCEPT ![r] = "callback"]
        /\ UNCHANGED <<queue, pc, cell, next, state, awaiters, rank>>
    BY DEF RunGroupCallback
  <1>6. /\ pending' = [pending EXCEPT ![g] = pending[g] - 1]
        /\ errors' = [errors EXCEPT ![g] = IF state[c] = "error" THEN @ + 1 ELSE @]
        /\ gnext' = [gnext EXCEPT ![r] = IF pending[g] = 1 THEN 1 ELSE Len(awaiters[g]) + 1]
    <2>1. OnTokenReady(r, c, g, pending[g])
      BY DEF RunGroupCallback
    <2>. QED  BY <2>1 DEF OnTokenReady
  <1>7. /\ step'[r] = "callback" /\ pc'[r] = pc[r] /\ cell'[r] = cell[r] /\ next'[r] = next[r]
        /\ \A s \in Routines \ {r} : SameControl(s)
    BY <1>5 DEF IInv, TypeOK, SameControl
  <1>8. \A o \in Objects : AwaitersGrow(o)
    BY <1>5 DEF IInv, TypeOK, AwaitersGrow
  <1>9. \A s \in Routines \ {r} :
              /\ Going(s) /\ KeepsAdds(s)
              /\ \A o \in Objects : Suspended(s, o) => Suspended(s, o)'
              /\ \A o \in Objects : Holds(s, o)' <=> Holds(s, o)
              /\ step'[s] \in {"adding", "callback"} => GroupOf(s)' = GroupOf(s)
    BY <1>7, <1>8, OthersFrame
  <1>10. Going(r) /\ KeepsAdds(r) /\ \A o \in Objects : ~Suspended(r, o)
    BY <1>1, <1>7 DEF Going, KeepsAdds, Suspended
  <1>11. \A h : AddedTo(h)' = AddedTo(h)
    BY <1>9, <1>10, AddedToFrame
  <1>12. \A d : Settled(d)' <=> Settled(d)
    BY <1>5 DEF Settled
  <1>13. Settled(c) /\ (state[c] = "error" <=> r \in Fails)
    BY <1>1, <1>2, <1>4 DEF GInv, SettlesOK, Past
  <1>14. \A j \in Tasks \ {r} : SameControl(j)
    BY <1>7 DEF Routines
  <1>15. Current(r)' = c /\ GroupOf(r)' = g
    <2>1. Current(r)' = c
      BY <1>5 DEF Current
    <2>. QED  BY <1>3, <1>5, <1>7, <2>1 DEF GroupOf
  <1>16. StartsOK'
    BY <1>1, <1>5, <1>7, StartsFrame DEF GInv, SameControl
  <1>17. SettlesOK'
    <2>1. \A j \in Tasks : /\ cell'[j] = cell[j]
                           /\ step'[j] \in Past <=> step[j] \in Past
                           /\ step'[j] \in Before <=> step[j] \in Before
                           /\ step'[j] = "done" <=> step[j] = "done"
      BY <1>1, <1>7, <1>14 DEF Past, Before, SameControl
    <2>. QED  BY <1>5, <1>12, <2>1 DEF GInv, SettlesOK
  <1>18. g \in Objects /\ \A s \in Routines : ~Holds(s, g)
    BY <1>5 DEF GInv, MutualExclusion, Objects
  <1>19. MutualExclusion'
    <2>1. \A o \in Objects : Holds(r, o)' => o = g \/ (o = c /\ Holds(r, o))
      BY <1>1, <1>7, <1>15 DEF Holds
    <2>2. t # Nobody
      BY CodeAssumption
    <2>3. \A o \in Objects : Holds(r, o) => mu[o] # Nobody
      BY DEF GInv, MutualExclusion
    <2>4. mu'[g] = t /\ \A o \in Objects : o # g => mu'[o] = mu[o]
      BY <1>5, <1>18 DEF IInv, TypeOK
    <2>5. \A o \in Objects :
              Holds(r, o)' => mu'[o] # Nobody /\ (Holds(r, o) \/ mu[o] = Nobody)
      BY <1>5, <1>18, <2>1, <2>2, <2>3, <2>4
    <2>6. \A s \in Routines \ {r} : \A o \in Objects :
              /\ Holds(s, o)' => Holds(s, o)
              /\ Holds(s, o) => mu'[o] = mu[o]
      BY <1>9, <1>18, <2>4
    <2>. QED  BY <2>5, <2>6, MutexFrame DEF GInv
  <1>20. AwaitersOK'
    BY <1>5, <1>9, <1>10, <1>11, AwaitersFrame DEF GInv
  <1>21. \A s \in Routines : \A o \in Objects : Suspended(s, o) => Suspended(s, o)'
    BY <1>9, <1>10
  <1>22. CellResumesOK'
    <2>1. SUFFICES ASSUME NEW j \in Tasks, NEW n \in 1..Len(Emplaced(j)),
                          NEW i \in DOMAIN awaiters[Emplaced(j)[n]], NEW s \in Routines,
                          awaiters[Emplaced(j)[n]][i] = s, ToRun(j, n, i)'
                   PROVE  Suspended(s, Emplaced(j)[n])'
      BY <1>5 DEF CellResumesOK
    <2>2. Emplaced(j)[n] \in Objects
      BY CellOwner
    <2>3. ToRun(j, n, i)
      BY <1>1, <1>7, <1>12, <1>14, <2>1 DEF ToRun, SameControl
    <2>4. Suspended(s, Emplaced(j)[n])
      BY <2>1, <2>3 DEF GInv, CellResumesOK
    <2>. QED  BY <1>21, <2>2, <2>4
  <1>23. ASSUME NEW h \in Groups
         PROVE  Unaccounted(h)' = IF h = g THEN Unaccounted(h) \ {r} ELSE Unaccounted(h)
    <2>1. Unaccounted(h) \subseteq Tasks /\ Unaccounted(h)' \subseteq Tasks
      BY DEF Unaccounted
    <2>2. SUFFICES ASSUME NEW j \in Tasks
                   PROVE  (j \in Unaccounted(h))' <=> j \in Unaccounted(h) /\ ~(j = r /\ h = g)
      BY <2>1
    <2>3. (j \in Unaccounted(h))' <=>
             \E i \in 1..Len(awaiters'[Token(j)]) : awaiters'[Token(j)][i] = h /\ Owed(j, i)'
      BY UnaccountedOwedNext
    <2>4. j \in Unaccounted(h) <=>
             \E i \in 1..Len(awaiters[Token(j)]) : awaiters[Token(j)][i] = h /\ Owed(j, i)
      BY UnaccountedOwed
    <2>5. ASSUME NEW i \in 1..Len(awaiters[Token(j)]), awaiters[Token(j)][i] = h
          PROVE  Owed(j, i)' <=> Owed(j, i) /\ ~(j = r /\ h = g)
      <3>1. CASE j # r
        BY <1>14, <3>1 DEF SameControl, Owed, Current
      <3>2. CASE j = r
        <4>1. i \in DOMAIN awaiters[c]
          <5>1. awaiters[c] \in Seq(Routines \cup Groups)
            BY DEF IInv, TypeOK
          <5>2. i \in 1..Len(awaiters[c])
            BY <1>4, <3>2
          <5>. QED  BY <5>1, <5>2
        <4>2. h = g <=> i = next[r]
          BY <1>3, <1>4, <2>5, <3>2, <4>1 DEF GInv, AwaitersOK
        <4>3. Owed(r, i) <=> i >= next[r]
          BY <1>1, <1>4 DEF Owed, Past
        <4>4. Owed(r, i)' <=> i >= next[r] /\ i # next[r]
          BY <1>4, <1>7, <1>15 DEF Owed, Past
        <4>. QED  BY <3>2, <4>2, <4>3, <4>4
      <3>. QED  BY <3>1, <3>2
    <2>. QED  BY <1>5, <2>3, <2>4, <2>5
  <1>24. r \in Unaccounted(g)
    <2>1. next[r] \in 1..Len(awaiters[Token(r)])
      BY <1>1, <1>2, <1>4
    <2>2. Owed(r, next[r])
      BY <1>1, <1>2 DEF Owed
    <2>. QED  BY <1>2, <1>3, <1>4, <2>1, <2>2, UnaccountedOwed
  <1>25. /\ IsFiniteSet(Unaccounted(g)) /\ IsFiniteSet((AddedTo(g) \ Unaccounted(g)) \cap Fails)
         /\ Cardinality(Unaccounted(g)) \in Nat /\ Cardinality(Unaccounted(g)) # 0
    <2>1. /\ IsFiniteSet(Unaccounted(g))
          /\ IsFiniteSet((AddedTo(g) \ Unaccounted(g)) \cap Fails)
      BY TokensFinite
    <2>. QED  BY <1>24, <2>1, FS_CardinalityType, FS_EmptySet
  <1>26. /\ pending[g] = Cardinality(Unaccounted(g)) /\ rank[g] = Cardinality(AddedTo(g))
         /\ errors[g] = Cardinality((AddedTo(g) \ Unaccounted(g)) \cap Fails)
         /\ errors[g] \in Nat /\ pending[g] \in Nat /\ pending[g] # 0
    BY <1>25 DEF GInv, GroupAccounting, IInv, TypeOK
  <1>27. /\ pending'[g] = pending[g] - 1
         /\ errors'[g] = IF r \in Fails THEN errors[g] + 1 ELSE errors[g]
         /\ \A h \in Groups : h # g => pending'[h] = pending[h] /\ errors'[h] = errors[h]
         /\ gnext'[r] = IF pending[g] = 1 THEN 1 ELSE Len(awaiters[g]) + 1
         /\ \A s \in Routines : s # r => gnext'[s] = gnext[s]
    BY <1>6, <1>13 DEF IInv, TypeOK
  <1>28. GroupResumesOK'
    <2>1. \A h \in Groups : h \in Objects /\ \A i \in DOMAIN awaiters[h] :
             awaiters[h][i] \in Routines /\ i \in 1..Len(awaiters[h])
      <3>1. \A h \in Groups : awaiters[h] \in Seq(Routines)
        BY DEF IInv, TypeOK
      <3>. QED  BY <3>1 DEF Objects
    <2>2. ASSUME NEW h \in Groups, NEW i \in DOMAIN awaiters[h], pending[h] # 0
          PROVE  Suspended(awaiters[h][i], h)'
      <3>. PICK s \in Routines : s = awaiters[h][i]
        BY <2>1
      <3>1. Suspended(s, h)
        BY <2>2 DEF GInv, GroupResumesOK
      <3>2. Suspended(s, h)'
        BY <1>21, <2>1, <3>1
      <3>. QED  BY <1>5, <3>2
    <2>3. \A h \in Groups : \A i \in DOMAIN awaiters'[h] :
             pending'[h] # 0 => Suspended(awaiters[h][i], h)'
      BY <1>5, <1>26, <1>27, <2>2
    <2>4. ASSUME NEW s \in Routines, step'[s] \in {"adding", "callback"}
          PROVE  \A i \in DOMAIN awaiters'[GroupOf(s)'] : i >= gnext'[s] =>
                    pending'[GroupOf(s)'] = 0 /\ Suspended(awaiters[GroupOf(s)][i], GroupOf(s))'
      <3>1. CASE s = r
        <4>1. ASSUME NEW i \in DOMAIN awaiters[g], i >= gnext'[r]
              PROVE  pending'[g] = 0 /\ Suspended(awaiters[g][i], g)'
          <5>1. i \in 1..Len(awaiters[g]) /\ Len(awaiters[g]) \in Nat
            BY <2>1 DEF IInv, TypeOK
          <5>2. pending[g] = 1
            BY <1>27, <4>1, <5>1
          <5>. QED  BY <1>27, <2>2, <5>2
        <4>. QED  BY <1>5, <1>15, <3>1, <4>1
      <3>2. CASE s # r
        <4>1. step[s] \in {"adding", "callback"} /\ GroupOf(s)' = GroupOf(s) /\ gnext'[s] = gnext[s]
          BY <1>7, <1>9, <1>27, <2>4, <3>2 DEF SameControl
        <4>2. GroupOf(s) \in Groups /\ Holds(s, GroupOf(s))
          BY <4>1, GroupOfType DEF IInv, Holds, GroupOf
        <4>. PICK h \in Groups : h = GroupOf(s)
          BY <4>2
        <4>3. h # g
          BY <1>18, <4>2
        <4>4. ASSUME NEW i \in DOMAIN awaiters[h], i >= gnext[s]
              PROVE  pending[h] = 0 /\ Suspended(awaiters[h][i], h)'
          <5>. PICK q \in Routines : q = awaiters[h][i]
            BY <2>1
          <5>1. pending[h] = 0 /\ Suspended(q, h)
            BY <4>1, <4>4 DEF GInv, GroupResumesOK
          <5>2. Suspended(q, h)'
            BY <1>21, <2>1, <5>1
          <5>. QED  BY <1>5, <5>1, <5>2
        <4>. QED  BY <1>5, <1>27, <4>1, <4>3, <4>4
      <3>. QED  BY <3>1, <3>2
    <2>. QED  BY <2>3, <2>4 DEF GroupResumesOK
  <1>29. PendingKept'
    <2>1. SUFFICES ASSUME NEW h \in Groups, NEW j \in AddedTo(h), ~Settled(Token(j))
                   PROVE  j \in Unaccounted(h)'
      BY <1>11, <1>12 DEF PendingKept
    <2>2. j \in Unaccounted(h) /\ j # r
      BY <1>4, <1>13, <2>1 DEF GInv, PendingKept
    <2>. QED  BY <1>23, <2>2
  <1>30. GroupAccounting'
    <2>1. Cardinality(Unaccounted(g)') = Cardinality(Unaccounted(g)) - 1
      BY <1>23, <1>24, <1>25, FS_RemoveElement
    <2>2. Cardinality(((AddedTo(g) \ Unaccounted(g)) \cap Fails)')
            = IF r \in Fails THEN errors[g] + 1 ELSE errors[g]
      <3>1. r \notin (AddedTo(g) \ Unaccounted(g)) \cap Fails
        BY <1>24
      <3>2. CASE r \in Fails
        <4>1. ((AddedTo(g) \ Unaccounted(g)) \cap Fails)'
                 = ((AddedTo(g) \ Unaccounted(g)) \cap Fails) \cup {r}
          BY <1>4, <1>11, <1>23, <1>24, <3>2
        <4>. QED  BY <1>25, <1>26, <3>1, <3>2, <4>1, OneMore
      <3>3. CASE r \notin Fails
        <4>1. ((AddedTo(g) \ Unaccounted(g)) \cap Fails)' = (AddedTo(g) \ Unaccounted(g)) \cap Fails
          BY <1>4, <1>11, <1>23, <1>24, <3>3
        <4>. QED  BY <1>26, <3>3, <4>1
      <3>. QED  BY <3>2, <3>3
    <2>3. /\ pending'[g] = Cardinality(Unaccounted(g)')
          /\ rank'[g] = Cardinality(AddedTo(g)')
          /\ errors'[g] = Cardinality(((AddedTo(g) \ Unaccounted(g)) \cap Fails)')
      BY <1>5, <1>11, <1>26, <1>27, <2>1, <2>2
    <2>4. ASSUME NEW h \in Groups, h # g
          PROVE  /\ pending'[h] = Cardinality(Unaccounted(h)')
                 /\ rank'[h] = Cardinality(AddedTo(h)')
                 /\ errors'[h] = Cardinality(((AddedTo(h) \ Unaccounted(h)) \cap Fails)')
      BY <1>5, <1>11, <1>23, <1>27, <2>4 DEF GInv, GroupAccounting
    <2>. QED  BY <2>3, <2>4 DEF GroupAccounting
  <1>. QED  BY <1>16, <1>17, <1>19, <1>20, <1>22, <1>28, <1>29, <1>30 DEF GInv

-----------------------------------------------------------------------------
(* Every step, and the theorems.                                           *)

LEMMA RoutineStepGInv ==
    ASSUME IInv, GInv, NEW t \in Threads, NEW r \in Routines, RoutineStep(t, r)
    PROVE  GInv'
  BY ExecuteGInv, CalmActionsGInv, AddLockTokenGInv, AddLockGroupGInv, AddUnlockGInv,
     RunGroupAwaiterGInv, AwaitSuspendGInv, EmplaceLockGInv, RunResumeAwaiterGInv,
     RunGroupCallbackGInv, CallbackUnlockGInv, CallbackDropGInv, EmplaceUnlockGInv,
     EmplaceDropGInv DEF RoutineStep

LEMMA NextGInv == IInv /\ GInv /\ [Next]_vars => GInv'
  <1>. SUFFICES ASSUME IInv, GInv, [Next]_vars PROVE GInv'
    OBVIOUS
  <1>1. ASSUME NEW t \in Threads, ThreadStep(t)
        PROVE  GInv'
    BY <1>1, TakeTaskGInv, RoutineStepGInv DEF ThreadStep
  <1>2. CASE UNCHANGED <<control, objects>>
    <2>1. UNCHANGED <<queue, pc, step, cell, next, gnext, state, mu, awaiters, pending, errors, rank>>
      BY <1>2 DEF control, objects
    <2>2. \A s \in Routines : Calm(s)
      BY <2>1 DEF Calm
    <2>3. StartsOK'
      BY <2>1 DEF GInv, StartsOK
    <2>. QED  BY <2>1, <2>2, <2>3, CalmStep
  <1>. QED  BY <1>1, <1>2 DEF Next, Shutdown, Ended, vars

\* The two invariants hold together.
THEOREM GroupsInv == Spec => []GInv
  <1>1. Init => IInv /\ GInv
    BY InitIInv, InitGInv
  <1>2. IInv /\ GInv /\ [Next]_vars => (IInv /\ GInv)'
    BY NextIInv, NextGInv
  <1>. QED  BY <1>1, <1>2, PTL DEF Spec

\* A thread only holds a mutex for the call it is in, and no two calls hold the
\* same one: what the lock guards of AsyncRuntime.cpp are for.
THEOREM MutexesExclude == Spec => []MutualExclusion
  <1>1. GInv => MutualExclusion
    BY DEF GInv
  <1>. QED  BY <1>1, GroupsInv, PTL

\* pendingTokens, rank and numErrors of a group agree with its tokens.
THEOREM CountersCorrect == Spec => []GroupAccounting
  <1>1. GInv => GroupAccounting
    BY DEF GInv
  <1>. QED  BY <1>1, GroupsInv, PTL

\* The next awaiter of a cell, if it is a coroutine, is suspended on the cell.
LEMMA NextAwaiter ==
    ASSUME IInv, GInv, NEW r \in Routines, HasAwaiter(r),
           awaiters[Current(r)][next[r]] \in Routines
    PROVE  Current(r) \in Cells /\ Suspended(awaiters[Current(r)][next[r]], Current(r))
  <1>1. r \in Tasks /\ step[r] = "awaiters"
    BY DEF HasAwaiter, IInv, ControlOK, RoutineOK
  <1>2. Current(r) \in Objects /\ Current(r) \in Cells /\ cell[r] \in 1..Len(Emplaced(r))
        /\ Current(r) = Emplaced(r)[cell[r]] /\ next[r] \in Nat \ {0}
    BY <1>1, CurrentToken DEF IInv, TypeOK, Current
  <1>3. awaiters[Current(r)] \in Seq(Routines \cup Groups)
    BY <1>2 DEF IInv, TypeOK
  <1>4. next[r] \in DOMAIN awaiters[Current(r)]
    BY <1>2, <1>3 DEF HasAwaiter
  <1>5. ToRun(r, cell[r], next[r])
    BY <1>1, <1>2 DEF ToRun
  <1>. QED  BY <1>1, <1>2, <1>4, <1>5 DEF GInv, CellResumesOK

\* The next awaiter of a group is suspended on the group.
LEMMA NextGroupAwaiter ==
    ASSUME IInv, GInv, NEW r \in Routines, step[r] \in {"adding", "callback"},
           gnext[r] <= Len(awaiters[GroupOf(r)])
    PROVE  /\ GroupOf(r) \in Groups /\ awaiters[GroupOf(r)][gnext[r]] \in Routines
           /\ Suspended(awaiters[GroupOf(r)][gnext[r]], GroupOf(r))
  <1>1. GroupOf(r) \in Groups /\ gnext[r] \in Nat \ {0}
    BY GroupOfType DEF IInv, TypeOK
  <1>2. awaiters[GroupOf(r)] \in Seq(Routines)
    BY <1>1 DEF IInv, TypeOK
  <1>3. gnext[r] \in DOMAIN awaiters[GroupOf(r)]
    BY <1>1, <1>2
  <1>. QED  BY <1>1, <1>2, <1>3 DEF GInv, GroupResumesOK

\* Every awaiter that is run finds its coroutine suspended.
THEOREM NoDoubleResume == Spec => []ResumesSuspendedOnly
  <1>1. IInv /\ GInv => ResumesSuspendedOnly
    BY NextAwaiter, NextGroupAwaiter DEF ResumesSuspendedOnly, Suspended
  <1>2. Spec => []IInv
    BY InitIInv, NextIInv, PTL DEF Spec
  <1>. QED  BY <1>1, <1>2, GroupsInv, PTL

-----------------------------------------------------------------------------
(* Threads that sleep on a group.                                          *)

LEMMA SleepersRoutineStep ==
    ASSUME IInv, GInv, NoSleeperOnFinishedGroup,
           NEW t \in Threads, NEW r \in Routines, RoutineStep(t, r)
    PROVE  NoSleeperOnFinishedGroup'
  <1>1. \A g \in Groups : pending[g] \in Nat /\ g \in Objects /\ g \notin Cells
    <2>1. \A g \in Groups : Cardinality(Unaccounted(g)) \in Nat
      BY TokensFinite, FS_CardinalityType
    <2>. QED  BY <2>1, CodeAssumption DEF GInv, GroupAccounting, Objects
  <1>2. CASE UNCHANGED <<waiters, pending>>
    BY <1>2 DEF NoSleeperOnFinishedGroup
  <1>3. CASE AddLockGroup(t, r)
    <2>. PICK g : g = Instr(r).obj
      OBVIOUS
    <2>1. g \in Groups
      BY <1>3, GroupOfType DEF AddLockGroup, IInv, GroupOf
    <2>2. \/ /\ pending' = [pending EXCEPT ![g] = (pending[g] + 1) - 1]
             /\ waiters' = [waiters EXCEPT ![g] = IF pending[g] + 1 = 1 THEN {} ELSE @]
          \/ pending' = [pending EXCEPT ![g] = @ + 1] /\ waiters' = waiters
      <3>1. CASE AddReady(r, Token(Instr(r).task), g)
        BY <3>1 DEF AddReady, OnTokenReady
      <3>2. CASE AddPending(r, Token(Instr(r).task), g)
        BY <3>2 DEF AddPending
      <3>. QED  BY <1>3, <3>1, <3>2 DEF AddLockGroup
    <2>3. \A h \in Groups : h # g => pending'[h] = pending[h] /\ waiters'[h] = waiters[h]
      BY <1>1, <2>1, <2>2 DEF IInv, TypeOK
    <2>4. waiters'[g] # {} => pending'[g] # 0
      BY <1>1, <2>1, <2>2 DEF IInv, TypeOK
    <2>. QED  BY <2>3, <2>4 DEF NoSleeperOnFinishedGroup
  <1>4. CASE RunGroupCallback(t, r)
    <2>. PICK g \in Groups : g = GroupOf(r)
      BY <1>4 DEF RunGroupCallback
    <2>1. /\ pending' = [pending EXCEPT ![g] = pending[g] - 1]
          /\ waiters' = [waiters EXCEPT ![g] = IF pending[g] = 1 THEN {} ELSE @]
      BY <1>4 DEF RunGroupCallback, OnTokenReady
    <2>2. \A h \in Groups : h # g => pending'[h] = pending[h] /\ waiters'[h] = waiters[h]
      BY <1>1, <2>1 DEF IInv, TypeOK
    <2>3. waiters'[g] # {} => pending'[g] # 0
      BY <1>1, <2>1 DEF IInv, TypeOK
    <2>. QED  BY <2>2, <2>3 DEF NoSleeperOnFinishedGroup
  <1>5. CASE AwaitBlock(t, r)
    <2>. PICK o : o = Instr(r).obj
      OBVIOUS
    <2>1. /\ pending' = pending /\ ~Ready(o)
          /\ waiters' = [waiters EXCEPT ![o] = @ \cup {r}]
      BY <1>5 DEF AwaitBlock
    <2>2. \A g \in Groups : waiters'[g] # {} => waiters[g] # {} \/ g = o
      BY <1>1, <2>1 DEF IInv, TypeOK
    <2>. QED  BY <1>1, <2>1, <2>2 DEF NoSleeperOnFinishedGroup, Ready
  <1>6. CASE SpuriousWakeup(t, r)
    <2>1. /\ pending' = pending
          /\ waiters' = [waiters EXCEPT ![Instr(r).obj] = @ \ {r}]
      BY <1>6 DEF SpuriousWakeup
    <2>2. \A g \in Groups : waiters'[g] # {} => waiters[g] # {}
      BY <1>1, <2>1 DEF IInv, TypeOK
    <2>. QED  BY <2>1, <2>2 DEF NoSleeperOnFinishedGroup
  <1>7. CASE EmplaceLock(t, r)
    <2>1. /\ pending' = pending
          /\ waiters' = [waiters EXCEPT ![Current(r)] = {}]
      BY <1>7 DEF EmplaceLock
    <2>2. \A g \in Groups : waiters'[g] # {} => waiters[g] # {}
      BY <1>1, <2>1 DEF IInv, TypeOK
    <2>. QED  BY <2>1, <2>2 DEF NoSleeperOnFinishedGroup
  <1>8. \/ UNCHANGED <<waiters, pending>>
        \/ AddLockGroup(t, r) \/ RunGroupCallback(t, r) \/ AwaitBlock(t, r)
        \/ SpuriousWakeup(t, r) \/ EmplaceLock(t, r)
    BY DEF RoutineStep, Execute, CreateGroup, Drop, AddLockToken, AddUnlock, RunGroupAwaiter,
           AwaitPass, AwaitSuspend, MainReturn, EndTask, RunResumeAwaiter, CallbackUnlock,
           CallbackDrop, EmplaceUnlock, EmplaceDrop, Load, Store, objects
  <1>. QED  BY <1>2, <1>3, <1>4, <1>5, <1>6, <1>7, <1>8

\* No thread sleeps on a group that has no pending token: the wakeup of the last
\* token is not lost.
THEOREM NoLostGroupWakeup == Spec => []NoSleeperOnFinishedGroup
  <1>1. Init => NoSleeperOnFinishedGroup
    BY DEF Init, NoSleeperOnFinishedGroup, Objects
  <1>2. IInv /\ GInv /\ NoSleeperOnFinishedGroup /\ [Next]_vars => NoSleeperOnFinishedGroup'
    <2>1. UNCHANGED <<waiters, pending>> /\ NoSleeperOnFinishedGroup
             => NoSleeperOnFinishedGroup'
      BY DEF NoSleeperOnFinishedGroup
    <2>2. (\E w \in Workers : TakeTask(w)) \/ Shutdown \/ UNCHANGED vars
             => UNCHANGED <<waiters, pending>>
      BY DEF TakeTask, Shutdown, vars, objects
    <2>. QED  BY <2>1, <2>2, SleepersRoutineStep DEF Next, ThreadStep, Ended
  <1>3. Spec => []IInv
    BY InitIInv, NextIInv, PTL DEF Spec
  <1>. QED  BY <1>1, <1>2, <1>3, GroupsInv, PTL DEF Spec

\* No thread is left asleep on anything that is ready.
THEOREM NoWakeupLost == Spec => []NoLostWakeup
  BY NoLostCellWakeup, NoLostGroupWakeup, PTL DEF NoLostWakeup

-----------------------------------------------------------------------------
(***************************************************************************)
(* AsyncRuntime implements Futures: what the threads, mutexes, counters    *)
(* and callbacks of the runtime do amounts to routines that pass an await  *)
(* only when everything they wait for has settled.  The fairness part of   *)
(* the promise is not proved.                                              *)
(***************************************************************************)

-----------------------------------------------------------------------------
(* A routine that is emplacing, or done, has made all its calls.           *)

EndOK ==
    /\ \A k \in Tasks : step[k] \in {"emplace"} \cup Past => AtEnd(k)
    /\ step[Main] = "done" => AtEnd(Main)

LEMMA EndStep ==
    ASSUME IInv, EndOK,
           \A s \in Routines :
              /\ pc'[s] = pc[s] \/ (pc'[s] = pc[s] + 1 /\ ~AtEnd(s) /\ step'[s] = "run")
              /\ step'[s] \in {"emplace"} \cup Past => step[s] \in {"emplace"} \cup Past \/ AtEnd(s)
    PROVE  EndOK'
  <1>1. \A s \in Routines : step'[s] \in {"emplace"} \cup Past => pc'[s] = pc[s]
    BY DEF Past
  <1>2. Main \in Routines /\ \A k \in Tasks : k \in Routines
    BY DEF Routines
  <1>3. step[Main] \in {"emplace"} \cup Past => step[Main] = "done"
    BY <1>2, CodeAssumption DEF IInv, ControlOK, RoutineOK, Past
  <1>. QED  BY <1>1, <1>2, <1>3 DEF EndOK, AtEnd, Past

LEMMA RoutineStepEndOK ==
    ASSUME IInv, GInv, EndOK, NEW t \in Threads, NEW r \in Routines, RoutineStep(t, r)
    PROVE  EndOK'
  <1>1. \A s \in Routines : step[s] \in {"wait", "adding"} => ~AtEnd(s)
    BY DEF IInv, ControlOK, RoutineOK
  <1>2. CASE RunGroupAwaiter(t, r) \/ RunResumeAwaiter(t, r)
    <2>1. \E s \in Routines : \E o : Suspended(s, o) /\ Resume(t, r, s)
      BY <1>2, NextAwaiter, NextGroupAwaiter DEF RunGroupAwaiter, RunResumeAwaiter
    <2>. PICK s \in Routines : \E o : Suspended(s, o) /\ Resume(t, r, s)
      BY <2>1
    <2>2. ~AtEnd(s) /\ pc' = [pc EXCEPT ![s] = @ + 1] /\ step' = [step EXCEPT ![s] = "run"]
      BY DEF Suspended, Resume
    <2>. QED  BY <2>2, EndStep DEF IInv, TypeOK, Past
  <1>3. CASE Execute(t, r)
    <2>1. /\ ~AtEnd(r) /\ step[r] = "run" /\ pc' = [pc EXCEPT ![r] = @ + 1]
          /\ step' = [step EXCEPT ![Instr(r).task] = "queued"]
      BY <1>3 DEF Execute, AtCall
    <2>2. step'[r] = "run"
      <3>1. /\ pc[r] \in DOMAIN Code[r] /\ Instr(r) = Code[r][pc[r]] /\ Instr(r).op = "execute"
            /\ pc[r] \in Nat
        BY <1>3, CodeAssumption DEF Execute, AtCall, IInv, TypeOK, AtEnd, Instr
      <3>2. Instr(r).task \in Tasks /\ Creates(Code[r][pc[r]], Token(Instr(r).task))
        BY <3>1, CallType DEF Creates, Cells
      <3>3. step[Instr(r).task] = "new"
        BY <3>1, <3>2 DEF GInv, StartsOK
      <3>. QED  BY <2>1, <3>3 DEF IInv, TypeOK
    <2>. QED  BY <2>1, <2>2, EndStep DEF IInv, TypeOK, Past
  <1>4. CASE ~(Execute(t, r) \/ RunGroupAwaiter(t, r) \/ RunResumeAwaiter(t, r))
    <2>1. \/ pc' = pc
          \/ /\ pc' = [pc EXCEPT ![r] = @ + 1] /\ ~AtEnd(r)
             /\ \/ step[r] = "run" /\ step' = step
                \/ step' = [step EXCEPT ![r] = "run"]
      BY <1>1, <1>4 DEF RoutineStep, CreateGroup, Drop, AddLockToken, AddLockGroup, AddUnlock,
         AwaitPass, AwaitBlock, AwaitSuspend, SpuriousWakeup, MainReturn, EndTask, EmplaceLock,
         RunGroupCallback, CallbackUnlock, CallbackDrop, EmplaceUnlock, EmplaceDrop, Load,
         Store, AtCall, control
    <2>2. \/ step' = step
          \/ \E x \in {"run", "wait", "suspended", "addLocked", "adding"} :
                step' = [step EXCEPT ![r] = x]
          \/ /\ step[r] \in {"emplace"} \cup Past \/ AtEnd(r)
             /\ \E x : step' = [step EXCEPT ![r] = x]
      BY <1>4 DEF RoutineStep, CreateGroup, Drop, AddLockToken, AddLockGroup, AddUnlock,
         AwaitPass, AwaitBlock, AwaitSuspend, SpuriousWakeup, MainReturn, EndTask, EmplaceLock,
         RunGroupCallback, CallbackUnlock, CallbackDrop, EmplaceUnlock, EmplaceDrop, Load,
         Store, HasAwaiter, Past, control
    <2>3. \A s \in Routines :
             pc'[s] = pc[s] \/ (pc'[s] = pc[s] + 1 /\ ~AtEnd(s) /\ step'[s] = "run")
      BY <2>1 DEF IInv, TypeOK
    <2>4. \A s \in Routines :
             step'[s] \in {"emplace"} \cup Past => step[s] \in {"emplace"} \cup Past \/ AtEnd(s)
      BY <2>2 DEF IInv, TypeOK, Past
    <2>. QED  BY <2>3, <2>4, EndStep
  <1>. QED  BY <1>2, <1>3, <1>4

\* Every run keeps it.
THEOREM EndInv == Spec => [](IInv /\ GInv /\ EndOK)
  <1>1. Init => EndOK
    BY CodeAssumption DEF Init, EndOK, Past, Routines
  <1>2. IInv /\ GInv /\ EndOK /\ [Next]_vars => EndOK'
    <2>1. ASSUME IInv, GInv, EndOK, NEW w \in Workers, TakeTask(w)
          PROVE  EndOK'
      <3>1. /\ pc' = pc /\ step' = [step EXCEPT ![Head(queue)] = "run"]
            /\ Head(queue) \in Routines
        BY <2>1 DEF TakeTask, IInv, TypeOK, Routines
      <3>. QED  BY <2>1, <3>1, EndStep DEF IInv, TypeOK, Past
    <2>2. EndOK /\ (Shutdown \/ UNCHANGED vars) => EndOK'
      BY DEF EndOK, AtEnd, Shutdown, vars, control
    <2>. QED  BY <2>1, <2>2, RoutineStepEndOK DEF Next, ThreadStep, Ended
  <1>3. Spec => []IInv
    BY InitIInv, NextIInv, PTL DEF Spec
  <1>. QED  BY <1>1, <1>2, <1>3, GroupsInv, PTL DEF Spec

-----------------------------------------------------------------------------
(* What a step shows in Futures.                                           *)

\* The cells and the routines of the two modules are the same.
LEMMA SameObjects == Promise!Cells = Cells /\ Promise!Routines = Routines
  BY DEF Promise!Cells, Cells, Token, Value, Promise!Routines, Routines

\* A step that starts no routine, makes no call and settles nothing.
LEMMA ShowsNothing ==
    ASSUME UNCHANGED <<pc, state>>,
           \A s \in Routines : step'[s] = "new" <=> step[s] = "new"
    PROVE  UNCHANGED Promise!vars
  BY DEF Promise!vars, Settled

LEMMA CallToMake ==
    ASSUME IInv, NEW r \in Routines, ~AtEnd(r)
    PROVE  pc[r] <= Len(Code[r])
  <1>1. Code[r] \in Seq(Instructions) /\ pc[r] \in Nat
    BY CodeAssumption DEF IInv, TypeOK
  <1>. QED  BY <1>1 DEF AtEnd

\* A call that starts no routine and waits for nothing.
LEMMA ShowsCall ==
    ASSUME IInv, NEW r \in Routines, step[r] # "new", ~AtEnd(r),
           Instr(r).op \notin {"execute", "await"},
           pc' = [pc EXCEPT ![r] = @ + 1], state' = state,
           \A s \in Routines : step'[s] = "new" <=> step[s] = "new"
    PROVE  Promise!Next
  <1>1. Promise!Other(r)
    <2>1. pc[r] <= Len(Code[r])
      BY CallToMake
    <2>. QED  BY <2>1 DEF Promise!Other, Promise!CanCall, Promise!Advance, Promise!Call, Instr, Settled
  <1>. QED  BY <1>1, SameObjects DEF Promise!Next, Promise!Step

\* An await is passed when its object is ready; then all it waits for has settled.
LEMMA ShowsJoin ==
    ASSUME IInv, GInv, NEW r \in Routines, step[r] # "new", ~AtEnd(r),
           Instr(r).op = "await", Ready(Instr(r).obj),
           pc' = [pc EXCEPT ![r] = @ + 1], state' = state,
           \A s \in Routines : step'[s] = "new" <=> step[s] = "new"
    PROVE  Promise!Next
  <1>. PICK o : o = Instr(r).obj
    OBVIOUS
  <1>1. pc[r] \in DOMAIN Code[r] /\ Instr(r) = Code[r][pc[r]] /\ pc[r] \in Nat
    BY CodeAssumption DEF IInv, TypeOK, AtEnd, Instr
  <1>2. o \in Objects
    BY <1>1, CallType
  <1>3. Promise!Awaited(r, o) \subseteq {c \in Cells : Settled(c)}
    <2>1. CASE o \in Cells
      BY <2>1, SameObjects DEF Promise!Awaited, Ready
    <2>2. CASE o \notin Cells
      <3>1. o \in Groups /\ pending[o] = 0
        BY <1>2, <2>2 DEF Objects, Ready
      <3>2. Unaccounted(o) = {}
        <4>1. IsFiniteSet(Unaccounted(o)) /\ Cardinality(Unaccounted(o)) = 0
          BY <3>1, TokensFinite DEF GInv, GroupAccounting
        <4>. QED  BY <4>1, FS_EmptySet
      <3>3. ASSUME NEW i \in 1..(pc[r] - 1), Code[r][i].op = "add", Code[r][i].obj = o
            PROVE  Token(Code[r][i].task) \in {c \in Cells : Settled(c)}
        <4>1. i \in DOMAIN Code[r] /\ i < pc[r]
          <5>1. Code[r] \in Seq(Instructions)
            BY CodeAssumption
          <5>. QED  BY <1>1, <5>1
        <4>2. Code[r][i].task \in Tasks /\ i \in 1..Len(Code[r])
          BY <3>3, <4>1, CallType
        <4>3. Code[r][i].task \in AddedTo(o)
          BY <3>3, <4>1, <4>2 DEF AddedTo
        <4>. QED  BY <3>1, <3>2, <4>2, <4>3 DEF GInv, PendingKept, Cells
      <3>. QED  BY <2>2, <3>3, SameObjects DEF Promise!Awaited, Token
    <2>. QED  BY <2>1, <2>2
  <1>4. Promise!Join(r)
    <2>1. pc[r] <= Len(Code[r])
      BY CallToMake
    <2>. QED  BY <1>3, <2>1 DEF Promise!Join, Promise!CanCall, Promise!Advance, Promise!Call,
                                Instr, Settled
  <1>. QED  BY <1>4, SameObjects DEF Promise!Next, Promise!Step

LEMMA ExecuteShows ==
    ASSUME IInv, GInv, NEW t \in Threads, NEW r \in Routines, Execute(t, r)
    PROVE  Promise!Next
  <1>. PICK k : k = Instr(r).task
    OBVIOUS
  <1>1. /\ ~AtEnd(r) /\ step[r] = "run" /\ Instr(r).op = "execute"
        /\ step' = [step EXCEPT ![k] = "queued"]
        /\ pc' = [pc EXCEPT ![r] = @ + 1] /\ state' = state
    BY DEF Execute, AtCall
  <1>2. k \in Routines
    <2>1. pc[r] \in DOMAIN Code[r] /\ Instr(r) = Code[r][pc[r]]
      BY <1>1, CodeAssumption DEF IInv, TypeOK, AtEnd, Instr
    <2>. QED  BY <1>1, <2>1, CallType DEF Routines
  <1>3. {s \in Routines : step'[s] # "new"} = {s \in Routines : step[s] # "new"} \cup {k}
    BY <1>1, <1>2 DEF IInv, TypeOK
  <1>4. pc[r] <= Len(Code[r])
    BY <1>1, CallToMake
  <1>5. Promise!Start(r)
    BY <1>1, <1>3, <1>4 DEF Promise!Start, Promise!CanCall, Promise!Advance, Promise!Call,
                            Instr, Settled
  <1>. QED  BY <1>5, SameObjects DEF Promise!Next, Promise!Step

LEMMA EmplaceShows ==
    ASSUME IInv, GInv, EndOK, NEW t \in Threads, NEW r \in Routines, EmplaceLock(t, r)
    PROVE  Promise!Next
  <1>. PICK c : c = Current(r)
    OBVIOUS
  <1>1. /\ step[r] = "emplace" /\ step' = [step EXCEPT ![r] = "awaiters"] /\ pc' = pc
        /\ state' = [state EXCEPT ![c] = IF r \in Fails THEN "error" ELSE "available"]
    BY DEF EmplaceLock
  <1>2. r \in Tasks /\ AtEnd(r)
    BY <1>1 DEF IInv, ControlOK, RoutineOK, EndOK
  <1>3. /\ cell[r] \in 1..Len(Emplaced(r)) /\ cell[r] \in Nat
        /\ c = Emplaced(r)[cell[r]] /\ c \in Cells
    BY <1>2, CurrentToken, EmplacedCells DEF IInv, Current
  <1>4. c \in {Token(r), Value(r)}
    <2>1. CASE r \in HasValue
      <3>1. Emplaced(r) = <<Value(r), Token(r)>>
        BY <2>1 DEF Emplaced
      <3>. QED  BY <1>3, <3>1
    <2>2. CASE r \notin HasValue
      <3>1. Emplaced(r) = <<Token(r)>>
        BY <2>2 DEF Emplaced
      <3>. QED  BY <1>3, <3>1
    <2>. QED  BY <2>1, <2>2
  <1>5. ~Settled(c)
    BY <1>1, <1>2, <1>3 DEF GInv, SettlesOK, Past
  <1>6. \A d \in Cells : Settled(d)' <=> Settled(d) \/ d = c
    BY <1>1, <1>3 DEF Settled, IInv, TypeOK
  <1>7. {s \in Routines : step'[s] # "new"} = {s \in Routines : step[s] # "new"}
    BY <1>1 DEF IInv, TypeOK
  <1>8. Promise!Settle(r)
    <2>1. pc[r] > Len(Code[r])
      BY <1>2 DEF AtEnd
    <2>2. {d \in Cells : Settled(d)'} = {d \in Cells : Settled(d)} \cup {c}
      BY <1>3, <1>6
    <2>3. c \in Promise!Cells \cap {<<"token", r>>, <<"value", r>>}
      BY <1>3, <1>4, SameObjects DEF Token, Value
    <2>. QED  BY <1>1, <1>5, <1>7, <2>1, <2>2, <2>3 DEF Promise!Settle
  <1>. QED  BY <1>2, <1>8, SameObjects DEF Promise!Next, Promise!Step

-----------------------------------------------------------------------------
(* Every step is one of Futures.                                           *)

LEMMA ResumeShows ==
    ASSUME IInv, GInv, NEW t \in Threads, NEW r \in Routines,
           RunGroupAwaiter(t, r) \/ RunResumeAwaiter(t, r)
    PROVE  Promise!Next
  <1>1. \E s \in Routines : \E o : Suspended(s, o) /\ Ready(o) /\ Resume(t, r, s)
    <2>1. CASE RunGroupAwaiter(t, r)
      <3>1. /\ step[r] \in {"adding", "callback"} /\ gnext[r] <= Len(awaiters[GroupOf(r)])
            /\ Resume(t, r, awaiters[GroupOf(r)][gnext[r]])
        BY <2>1 DEF RunGroupAwaiter
      <3>. PICK g \in Groups, s \in Routines : g = GroupOf(r) /\ s = awaiters[g][gnext[r]]
        BY <3>1, NextGroupAwaiter
      <3>2. gnext[r] \in DOMAIN awaiters[g]
        <4>1. awaiters[g] \in Seq(Routines) /\ gnext[r] \in Nat \ {0}
          BY DEF IInv, TypeOK
        <4>. QED  BY <3>1, <4>1
      <3>3. pending[g] = 0 /\ g \notin Cells
        <4>1. g \notin Cells
          BY CodeAssumption
        <4>2. gnext[r] \in Nat
          BY DEF IInv, TypeOK
        <4>3. pending[g] = 0
          BY <3>1, <3>2, <4>2 DEF GInv, GroupResumesOK
        <4>. QED  BY <4>1, <4>3
      <3>. QED  BY <3>1, <3>3, NextGroupAwaiter DEF Ready
    <2>2. CASE RunResumeAwaiter(t, r)
      <3>1. /\ HasAwaiter(r) /\ step[r] = "awaiters"
            /\ awaiters[Current(r)][next[r]] \in Routines
            /\ Resume(t, r, awaiters[Current(r)][next[r]])
        BY <2>2 DEF RunResumeAwaiter, HasAwaiter
      <3>2. r \in Tasks
        BY <3>1 DEF IInv, ControlOK, RoutineOK
      <3>3. /\ cell[r] \in 1..Len(Emplaced(r)) /\ cell[r] \in Nat
            /\ Current(r) = Emplaced(r)[cell[r]] /\ Current(r) \in Cells
        BY <3>2, CurrentToken, EmplacedCells DEF IInv, Current
      <3>4. Settled(Current(r))
        BY <3>1, <3>2, <3>3 DEF GInv, SettlesOK, Past
      <3>. QED  BY <3>1, <3>3, <3>4, NextAwaiter DEF Ready
    <2>. QED  BY <2>1, <2>2
  <1>. PICK s \in Routines : \E o : Suspended(s, o) /\ Ready(o) /\ Resume(t, r, s)
    BY <1>1
  <1>2. /\ step[s] = "suspended" /\ ~AtEnd(s) /\ Instr(s).op = "await" /\ Ready(Instr(s).obj)
        /\ pc' = [pc EXCEPT ![s] = @ + 1] /\ step' = [step EXCEPT ![s] = "run"]
    BY DEF Suspended, Awaits, Resume
  <1>3. state' = state
    BY DEF RunGroupAwaiter, RunResumeAwaiter, objects
  <1>4. \A q \in Routines : step'[q] = "new" <=> step[q] = "new"
    BY <1>2 DEF IInv, TypeOK
  <1>. QED  BY <1>2, <1>3, <1>4, ShowsJoin

LEMMA CallShows ==
    ASSUME IInv, GInv, NEW t \in Threads, NEW r \in Routines,
           \/ CreateGroup(t, r) \/ Drop(t, r) \/ AddUnlock(t, r) \/ AwaitPass(t, r)
           \/ Load(t, r) \/ Store(t, r)
    PROVE  Promise!Next
  <1>1. /\ step[r] = "adding" => ~AtEnd(r) /\ Instr(r).op = "add"
        /\ step[r] = "wait" => ~AtEnd(r) /\ Instr(r).op = "await"
    BY DEF IInv, ControlOK, RoutineOK
  <1>2. /\ step[r] \in {"run", "wait", "adding"} /\ ~AtEnd(r)
        /\ pc' = [pc EXCEPT ![r] = @ + 1] /\ state' = state
        /\ step' = step \/ step' = [step EXCEPT ![r] = "run"]
        /\ \/ Instr(r).op \notin {"execute", "await"}
           \/ Instr(r).op = "await" /\ Ready(Instr(r).obj)
    BY <1>1 DEF CreateGroup, Drop, AddUnlock, AwaitPass, Load, Store, AtCall, objects
  <1>3. \A q \in Routines : step'[q] = "new" <=> step[q] = "new"
    BY <1>2 DEF IInv, TypeOK
  <1>. QED  BY <1>2, <1>3, ShowsCall, ShowsJoin

LEMMA SilentShows ==
    ASSUME IInv, NEW t \in Threads, NEW r \in Routines,
           \/ AddLockToken(t, r) \/ AddLockGroup(t, r) \/ AwaitBlock(t, r)
           \/ AwaitSuspend(t, r) \/ SpuriousWakeup(t, r)
           \/ MainReturn(t, r) \/ EndTask(t, r)
           \/ RunGroupCallback(t, r) \/ CallbackUnlock(t, r) \/ CallbackDrop(t, r)
           \/ EmplaceUnlock(t, r) \/ EmplaceDrop(t, r)
    PROVE  UNCHANGED Promise!vars
  <1>1. /\ UNCHANGED <<pc, state>> /\ step[r] # "new"
        /\ step' = step \/ \E x \in Steps \ {"new"} : step' = [step EXCEPT ![r] = x]
    BY DEF AddLockToken, AddLockGroup, AwaitBlock, AwaitSuspend, SpuriousWakeup, MainReturn,
           EndTask, RunGroupCallback, CallbackUnlock, CallbackDrop, EmplaceUnlock, EmplaceDrop,
           AtCall, HasAwaiter, Steps, control, objects
  <1>2. \A s \in Routines : step'[s] = "new" <=> step[s] = "new"
    BY <1>1 DEF IInv, TypeOK
  <1>. QED  BY <1>1, <1>2, ShowsNothing

LEMMA NextShows == IInv /\ GInv /\ EndOK /\ [Next]_vars => [Promise!Next]_(Promise!vars)
  <1>. SUFFICES ASSUME IInv, GInv, EndOK, [Next]_vars
                PROVE  Promise!Next \/ UNCHANGED Promise!vars
    OBVIOUS
  <1>1. ASSUME NEW t \in Threads, NEW r \in Routines, RoutineStep(t, r)
        PROVE  Promise!Next \/ UNCHANGED Promise!vars
    BY <1>1, ExecuteShows, EmplaceShows, ResumeShows, CallShows, SilentShows DEF RoutineStep
  <1>2. ASSUME NEW w \in Workers, TakeTask(w)
        PROVE  UNCHANGED Promise!vars
    <2>1. /\ UNCHANGED <<pc, state>> /\ step' = [step EXCEPT ![Head(queue)] = "run"]
          /\ Head(queue) \in Routines /\ step[Head(queue)] = "queued"
      BY <1>2 DEF TakeTask, objects, IInv, TypeOK, GInv, StartsOK, Routines
    <2>2. \A s \in Routines : step'[s] = "new" <=> step[s] = "new"
      BY <2>1 DEF IInv, TypeOK
    <2>. QED  BY <2>1, <2>2, ShowsNothing
  <1>3. CASE Shutdown \/ UNCHANGED vars
    BY <1>3, ShowsNothing DEF Shutdown, vars, control, objects
  <1>. QED  BY <1>1, <1>2, <1>3 DEF Next, ThreadStep, Ended

\* The runtime implements the safety part of Futures: a routine makes its calls
\* in order, passes an await only when all it waits for has settled, and a task
\* settles each of its cells once, after its last call.
THEOREM RuntimeFollowsFutures == Spec => FollowsFutures
  <1>1. Init => Promise!Init
    <2>. SUFFICES ASSUME Init PROVE Promise!Init
      OBVIOUS
    <2>1. {r \in Routines : step[r] # "new"} = {Main}
      BY DEF Init, Routines
    <2>2. {c \in Cells : Settled(c)} = {}
      BY DEF Init, Settled
    <2>. QED  BY <2>1, <2>2, SameObjects DEF Init, Promise!Init
  <1>. QED  BY <1>1, NextShows, EndInv, PTL DEF Spec, FollowsFutures

=============================================================================
