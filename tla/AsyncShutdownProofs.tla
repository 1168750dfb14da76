--------------------------- MODULE AsyncShutdownProofs ---------------------------
(***************************************************************************)
(* What ~AsyncRuntime relies on, for every program that AsyncLowering      *)
(* emits: when main has returned and the thread pool has run dry, no       *)
(* coroutine is left suspended, and every counted object is gone; and that *)
(* it gets there: no circle of threads waits for each other's mutexes, and *)
(* the threads come to a standstill only at the end.                       *)
(***************************************************************************)
EXTENDS AsyncMemoryProofs

-----------------------------------------------------------------------------
(* The inductive invariant.                                                *)

\* The routines that are on the stack of a thread.
Active == {r \in Routines : step[r] \notin {"new", "queued", "suspended", "done"}}

\* A routine is at most once on the stacks: on top of one thread, or below the
\* one routine it has resumed.
StackOK ==
    /\ \A t \in Threads : top[t] # Nobody => top[t] \in Active
    /\ \A s \in Routines : caller[s] # Nobody => s \in Active /\ caller[s] \in Active
    /\ \A t, u \in Threads : top[t] # Nobody /\ top[t] = top[u] => t = u
    /\ \A s \in Routines : caller[s] # Nobody =>
          /\ \A t \in Threads : top[t] # caller[s]
          /\ \A q \in Routines : caller[q] = caller[s] => q = s

\* Every stack ends in a routine on top of a thread: in each set of active
\* routines, one is on top or has resumed a routine outside the set.
TopsOK ==
    \A S \in SUBSET Active : S # {} =>
        \E r \in S : \/ \E t \in Threads : top[t] = r
                     \/ \E s \in Active \ S : caller[s] = r

\* Main stays on the stack of its own thread, at the bottom: B is that stack.
MainOK ==
    /\ step[Main] \notin {"new", "queued", "suspended"} /\ caller[Main] = Nobody
    /\ \E B \in SUBSET Routines :
          /\ Main \in B /\ top[Main] \in B \cup {Nobody}
          /\ \A w \in Workers : top[w] \notin B
          /\ \A s \in Routines : caller[s] # Nobody => (s \in B <=> caller[s] \in B)

QueuedOK == \A k \in Tasks : step[k] = "queued" => \E i \in DOMAIN queue : queue[i] = k

\* Routine k starts task j.
Starts(k, j) == \E i \in DOMAIN Code[k] : Code[k][i].op = "execute" /\ Code[k][i].task = j

\* No cycle of tasks starts itself: in each set of started tasks, one starts
\* none of the others.
LeafOK ==
    \A S \in SUBSET {k \in Tasks : step[k] # "new"} : S # {} =>
        \E k \in S : \A j \in S : ~Starts(k, j)

\* Position i of the awaiters of o is still to be run.
StillToRun(o, i) ==
    \/ /\ o \in Groups
       /\ \/ pending[o] # 0
          \/ \E r \in Routines : /\ step[r] \in {"adding", "callback"}
                                 /\ GroupOf(r) = o /\ i >= gnext[r]
    \/ \E k \in Tasks : \E n \in 1..Len(Emplaced(k)) : o = Emplaced(k)[n] /\ ToRun(k, n, i)

\* A suspended coroutine is in the awaiters of what it waits for, still to be run.
SuspendedOK ==
    \A s \in Routines : step[s] = "suspended" =>
        \E o \in Objects : \E i \in DOMAIN awaiters[o] :
            Suspended(s, o) /\ awaiters[o][i] = s /\ StillToRun(o, i)

\* A cell has run all its awaiters before its task goes on.
DrainedOK ==
    \A k \in Tasks : step[k] \in {"emplaceDrop", "done"} =>
        next[k] > Len(awaiters[Current(k)])

DownOK ==
    /\ step[Main] = "done" => top[Main] = Nobody
    /\ down => /\ step[Main] = "done" /\ queue = <<>>
               /\ \A t \in Threads : top[t] = Nobody

DInv ==
    /\ StackOK /\ TopsOK /\ MainOK /\ QueuedOK /\ LeafOK
    /\ SuspendedOK /\ DrainedOK /\ DownOK

-----------------------------------------------------------------------------
(* Stacks.                                                                 *)

Stacks == StackOK /\ TopsOK /\ MainOK

LEMMA Actors ==
    /\ Nobody \notin Routines /\ Nobody \notin Threads /\ Main \notin Workers
    /\ Main \in Routines /\ Main \in Threads /\ Main \notin Tasks
    /\ \A k \in Tasks : k \in Routines
    /\ \A w \in Workers : w \in Threads
    /\ \A t \in Threads : t = Main \/ t \in Workers
    /\ \A r \in Routines : r = Main \/ r \in Tasks
  BY CodeAssumption DEF Routines, Threads

\* A routine that is not at the end is at one of its calls.
LEMMA InCode ==
    ASSUME TypeOK, NEW s \in Routines, ~AtEnd(s)
    PROVE  pc[s] \in DOMAIN Code[s] /\ Instr(s) = Code[s][pc[s]]
  BY CodeAssumption DEF TypeOK, AtEnd, Instr

\* A task's token is one of the cells the task settles.
LEMMA TokenCell ==
    ASSUME NEW k \in Tasks
    PROVE  \E n \in 1..Len(Emplaced(k)) : Emplaced(k)[n] = Token(k)
  <1>1. Len(Emplaced(k)) \in 1..2 /\ Emplaced(k)[Len(Emplaced(k))] = Token(k)
    BY CellOwner
  <1>2. PICK l \in 1..2 : l = Len(Emplaced(k))
    BY <1>1
  <1>3. l \in 1..Len(Emplaced(k))
    BY <1>2
  <1>. QED  BY <1>1, <1>2, <1>3

LEMMA StacksStay ==
    ASSUME Stacks, top' = top, caller' = caller, Active' = Active,
           step'[Main] \notin {"new", "queued", "suspended"}
    PROVE  Stacks'
  <1>1. StackOK'
    BY DEF Stacks, StackOK
  <1>2. TopsOK'
    BY DEF Stacks, TopsOK
  <1>3. MainOK'
    BY DEF Stacks, MainOK
  <1>. QED  BY <1>1, <1>2, <1>3 DEF Stacks

\* A routine that is not active comes onto an empty stack.
LEMMA StacksPush ==
    ASSUME TypeOK, Stacks, NEW w \in Workers, NEW k \in Routines,
           k \notin Active, Active' = Active \cup {k}, step'[Main] = step[Main],
           top[w] = Nobody, top' = [top EXCEPT ![w] = k], caller' = caller
    PROVE  Stacks'
  <1>1. top'[w] = k /\ \A t \in Threads \ {w} : top'[t] = top[t]
    BY Actors DEF TypeOK
  <1>2. StackOK'
    <2>1. \A t \in Threads : top'[t] # Nobody => top'[t] \in Active'
      BY <1>1 DEF Stacks, StackOK
    <2>2. \A s \in Routines : caller'[s] # Nobody => s \in Active' /\ caller'[s] \in Active'
      BY DEF Stacks, StackOK
    <2>3. \A t, u \in Threads : top'[t] # Nobody /\ top'[t] = top'[u] => t = u
      BY <1>1, Actors DEF Stacks, StackOK
    <2>4. \A s \in Routines : caller'[s] # Nobody =>
             /\ \A t \in Threads : top'[t] # caller'[s]
             /\ \A q \in Routines : caller'[q] = caller'[s] => q = s
      BY <1>1 DEF Stacks, StackOK
    <2>. QED  BY <2>1, <2>2, <2>3, <2>4 DEF StackOK
  <1>3. TopsOK'
    <2>1. SUFFICES ASSUME NEW S \in SUBSET (Active \cup {k}), S # {}
                   PROVE  \E r \in S : \/ \E t \in Threads : top'[t] = r
                                       \/ \E s \in (Active \cup {k}) \ S : caller'[s] = r
      BY DEF TopsOK
    <2>2. CASE k \in S
      BY <1>1, <2>2, Actors
    <2>3. CASE k \notin S
      <3>1. PICK r \in S : \/ \E t \in Threads : top[t] = r
                           \/ \E s \in Active \ S : caller[s] = r
        BY <2>1, <2>3 DEF Stacks, TopsOK
      <3>2. r # Nobody
        BY <2>1, Actors DEF Active
      <3>. QED  BY <1>1, <3>1, <3>2
    <2>. QED  BY <2>2, <2>3
  <1>4. MainOK'
    <2>1. PICK B \in SUBSET Routines :
             /\ Main \in B /\ top[Main] \in B \cup {Nobody}
             /\ \A v \in Workers : top[v] \notin B
             /\ \A s \in Routines : caller[s] # Nobody => (s \in B <=> caller[s] \in B)
      BY DEF Stacks, MainOK
    <2>2. PICK C : C = B \ {k}
      OBVIOUS
    <2>3. k # Main
      <3>1. CASE step[Main] = "done"
        <4>1. Main \notin Active /\ Main \notin Active'
          BY <3>1 DEF Active
        <4>. QED  BY <4>1
      <3>2. CASE step[Main] # "done"
        BY <3>2, Actors DEF Stacks, MainOK, Active
      <3>. QED  BY <3>1, <3>2
    <2>4. C \in SUBSET Routines /\ Main \in C
      BY <2>1, <2>2, <2>3
    <2>5. top'[Main] \in C \cup {Nobody}
      BY <1>1, <2>1, <2>2, Actors DEF Stacks, StackOK
    <2>6. \A v \in Workers : top'[v] \notin C
      BY <1>1, <2>1, <2>2, Actors
    <2>7. \A s \in Routines : caller'[s] # Nobody => (s \in C <=> caller'[s] \in C)
      BY <2>1, <2>2 DEF Stacks, StackOK
    <2>. QED  BY <2>4, <2>5, <2>6, <2>7 DEF Stacks, MainOK
  <1>. QED  BY <1>2, <1>3, <1>4 DEF Stacks

\* A coroutine that is not active is resumed on top of r.
LEMMA StacksResume ==
    ASSUME TypeOK, Stacks, NEW t \in Threads, NEW r \in Routines, NEW s \in Routines,
           top[t] = r, s \notin Active, s # Main, Active' = Active \cup {s},
           step'[Main] = step[Main],
           top' = [top EXCEPT ![t] = s], caller' = [caller EXCEPT ![s] = r]
    PROVE  Stacks'
  <1>1. /\ top'[t] = s /\ \A u \in Threads \ {t} : top'[u] = top[u]
        /\ caller'[s] = r /\ \A q \in Routines \ {s} : caller'[q] = caller[q]
        /\ r # Nobody /\ s # Nobody /\ r \in Active /\ r # s
    BY Actors DEF TypeOK, Stacks, StackOK
  <1>2. \A q \in Routines : caller[q] # s /\ caller[q] # r
    BY <1>1 DEF Stacks, StackOK
  <1>3. StackOK'
    <2>1. \A u \in Threads : top'[u] # Nobody => top'[u] \in Active'
      BY <1>1 DEF Stacks, StackOK
    <2>2. \A q \in Routines : caller'[q] # Nobody => q \in Active' /\ caller'[q] \in Active'
      BY <1>1 DEF Stacks, StackOK
    <2>3. \A u, v \in Threads : top'[u] # Nobody /\ top'[u] = top'[v] => u = v
      BY <1>1 DEF Stacks, StackOK
    <2>4. \A q \in Routines : caller'[q] # Nobody =>
             /\ \A u \in Threads : top'[u] # caller'[q]
             /\ \A p \in Routines : caller'[p] = caller'[q] => p = q
      BY <1>1, <1>2 DEF Stacks, StackOK
    <2>. QED  BY <2>1, <2>2, <2>3, <2>4 DEF StackOK
  <1>4. TopsOK'
    <2>1. SUFFICES ASSUME NEW S \in SUBSET (Active \cup {s}), S # {}
                   PROVE  \E p \in S : \/ \E u \in Threads : top'[u] = p
                                       \/ \E q \in (Active \cup {s}) \ S : caller'[q] = p
      BY DEF TopsOK
    <2>2. CASE s \in S
      BY <1>1, <2>2
    <2>3. CASE s \notin S
      <3>1. PICK p \in S : \/ \E u \in Threads : top[u] = p
                           \/ \E q \in Active \ S : caller[q] = p
        BY <2>1, <2>3 DEF Stacks, TopsOK
      <3>2. CASE p = r
        BY <1>1, <2>3, <3>1, <3>2
      <3>3. CASE p # r
        <4>1. \A q \in Active \ S : q \in Routines /\ q # s
          BY DEF Active
        <4>. QED  BY <1>1, <3>1, <3>3, <4>1
      <3>. QED  BY <3>2, <3>3
    <2>. QED  BY <2>2, <2>3
  <1>5. MainOK'
    <2>1. PICK B \in SUBSET Routines :
             /\ Main \in B /\ top[Main] \in B \cup {Nobody}
             /\ \A v \in Workers : top[v] \notin B
             /\ \A q \in Routines : caller[q] # Nobody => (q \in B <=> caller[q] \in B)
      BY DEF Stacks, MainOK
    <2>2. PICK C : C = IF t = Main THEN B \cup {s} ELSE B \ {s}
      OBVIOUS
    <2>3. C \in SUBSET Routines /\ Main \in C
      BY <2>1, <2>2
    <2>4. top'[Main] \in C \cup {Nobody}
      BY <1>1, <2>1, <2>2, Actors DEF Stacks, StackOK
    <2>5. \A v \in Workers : top'[v] \notin C
      <3>1. \A v \in Workers : v # t => top'[v] # s
        BY <1>1, Actors DEF Stacks, StackOK
      <3>. QED  BY <1>1, <2>1, <2>2, <3>1, Actors
    <2>6. s \in C <=> r \in C
      BY <1>1, <2>1, <2>2, Actors
    <2>7. \A q \in Routines : caller'[q] # Nobody => (q \in C <=> caller'[q] \in C)
      BY <1>1, <1>2, <2>1, <2>2, <2>6 DEF Stacks, StackOK
    <2>. QED  BY <1>1, <2>3, <2>4, <2>5, <2>7, Actors DEF Stacks, MainOK
  <1>. QED  BY <1>3, <1>4, <1>5 DEF Stacks

\* A routine leaves its thread to the one that had resumed it.
LEMMA StacksPop ==
    ASSUME TypeOK, Stacks, NEW t \in Threads, NEW r \in Routines,
           top[t] = r, Active' = Active \ {r},
           step'[Main] \notin {"new", "queued", "suspended"}, Leave(t, r)
    PROVE  Stacks'
  <1>1. /\ top'[t] = caller[r] /\ \A u \in Threads \ {t} : top'[u] = top[u]
        /\ caller'[r] = Nobody /\ \A q \in Routines \ {r} : caller'[q] = caller[q]
        /\ r # Nobody /\ r \in Active
    BY Actors DEF TypeOK, Stacks, StackOK, Leave
  <1>2. \A q \in Routines : caller[q] # r
    BY <1>1 DEF Stacks, StackOK
  <1>3. StackOK'
    <2>1. \A u \in Threads : top'[u] # Nobody => top'[u] \in Active'
      BY <1>1, <1>2 DEF Stacks, StackOK
    <2>2. \A q \in Routines : caller'[q] # Nobody => q \in Active' /\ caller'[q] \in Active'
      BY <1>1, <1>2 DEF Stacks, StackOK
    <2>3. \A u, v \in Threads : top'[u] # Nobody /\ top'[u] = top'[v] => u = v
      BY <1>1 DEF Stacks, StackOK
    <2>4. \A q \in Routines : caller'[q] # Nobody =>
             /\ \A u \in Threads : top'[u] # caller'[q]
             /\ \A p \in Routines : caller'[p] = caller'[q] => p = q
      BY <1>1 DEF Stacks, StackOK
    <2>. QED  BY <2>1, <2>2, <2>3, <2>4 DEF StackOK
  <1>4. TopsOK'
    <2>1. SUFFICES ASSUME NEW S \in SUBSET (Active \ {r}), S # {}
                   PROVE  \E p \in S : \/ \E u \in Threads : top'[u] = p
                                       \/ \E q \in (Active \ {r}) \ S : caller'[q] = p
      BY DEF TopsOK
    <2>2. PICK p \in S : \/ \E u \in Threads : top[u] = p
                         \/ \E q \in Active \ S : caller[q] = p
      BY <2>1 DEF Stacks, TopsOK
    <2>3. p # r /\ \A q \in Active : q \in Routines
      BY <2>1 DEF Active
    <2>. QED  BY <1>1, <2>2, <2>3
  <1>5. MainOK'
    <2>1. PICK B \in SUBSET Routines :
             /\ Main \in B /\ top[Main] \in B \cup {Nobody}
             /\ \A v \in Workers : top[v] \notin B
             /\ \A q \in Routines : caller[q] # Nobody => (q \in B <=> caller[q] \in B)
      BY DEF Stacks, MainOK
    <2>2. top'[Main] \in B \cup {Nobody}
      BY <1>1, <2>1, Actors
    <2>3. \A v \in Workers : top'[v] \notin B
      BY <1>1, <2>1, Actors
    <2>4. \A q \in Routines : caller'[q] # Nobody => (q \in B <=> caller'[q] \in B)
      BY <1>1, <2>1
    <2>5. caller'[Main] = Nobody
      BY <1>1, Actors DEF Stacks, MainOK
    <2>. QED  BY <2>1, <2>2, <2>3, <2>4, <2>5 DEF MainOK
  <1>. QED  BY <1>3, <1>4, <1>5 DEF Stacks

\* Main's own awaits block its thread.
LEMMA MainBlocks ==
    ASSUME IInv, ~AtEnd(Main), Instr(Main).op = "await"
    PROVE  Instr(Main).how = "block"
  <1>1. pc[Main] \in DOMAIN Code[Main]
    BY Actors, CodeAssumption DEF IInv, TypeOK, AtEnd
  <1>. QED  BY <1>1, CodeAssumption DEF Instr

LEMMA StacksLeave ==
    ASSUME IInv, GInv, Stacks, NEW t \in Threads, NEW r \in Routines, top[t] = r,
           AwaitSuspend(t, r) \/ MainReturn(t, r) \/ (EmplaceDrop(t, r) /\ step'[r] = "done")
    PROVE  Stacks'
  <1>1. Leave(t, r)
    <2>1. CASE EmplaceDrop(t, r) /\ step'[r] = "done"
      BY <2>1 DEF EmplaceDrop, IInv, TypeOK
    <2>. QED  BY <2>1 DEF AwaitSuspend, MainReturn
  <1>2. \/ step' = [step EXCEPT ![r] = "done"]
        \/ step' = [step EXCEPT ![r] = "suspended"] /\ r # Main
    <2>1. CASE AwaitSuspend(t, r)
      <3>1. ~AtEnd(r) /\ Instr(r).op = "await" /\ Instr(r).how = "resume"
            /\ step' = [step EXCEPT ![r] = "suspended"]
        BY <2>1 DEF AwaitSuspend, AtCall
      <3>. QED  BY <3>1, MainBlocks
    <2>2. CASE MainReturn(t, r)
      BY <2>2 DEF MainReturn
    <2>3. CASE EmplaceDrop(t, r) /\ step'[r] = "done"
      BY <2>3 DEF EmplaceDrop, IInv, TypeOK
    <2>. QED  BY <2>1, <2>2, <2>3
  <1>3. Active' = Active \ {r}
    BY <1>2 DEF Active, IInv, TypeOK
  <1>4. step'[Main] \notin {"new", "queued", "suspended"}
    BY <1>2, Actors DEF IInv, TypeOK, Stacks, MainOK
  <1>. QED  BY <1>1, <1>3, <1>4, StacksPop DEF IInv

LEMMA StacksRunAwaiter ==
    ASSUME IInv, GInv, Stacks, NEW t \in Threads, NEW r \in Routines, top[t] = r,
           RunGroupAwaiter(t, r) \/ RunResumeAwaiter(t, r)
    PROVE  Stacks'
  <1>1. \E s \in Routines : \E o : Suspended(s, o) /\ Resume(t, r, s)
    BY NextAwaiter, NextGroupAwaiter DEF RunGroupAwaiter, RunResumeAwaiter
  <1>. PICK s \in Routines : \E o : Suspended(s, o) /\ Resume(t, r, s)
    BY <1>1
  <1>2. /\ step[s] = "suspended" /\ step' = [step EXCEPT ![s] = "run"]
        /\ top' = [top EXCEPT ![t] = s] /\ caller' = [caller EXCEPT ![s] = r]
    BY DEF Suspended, Resume
  <1>3. s # Main /\ s \notin Active
    BY <1>2 DEF Stacks, MainOK, Active
  <1>4. Active' = Active \cup {s} /\ step'[Main] = step[Main]
    BY <1>2, <1>3, Actors DEF Active, IInv, TypeOK
  <1>. QED  BY <1>2, <1>3, <1>4, StacksResume DEF IInv

LEMMA StacksRoutineStep ==
    ASSUME IInv, GInv, Stacks, NEW t \in Threads, NEW r \in Routines, top[t] = r,
           RoutineStep(t, r)
    PROVE  Stacks'
  <1>1. CASE AwaitSuspend(t, r) \/ MainReturn(t, r) \/ (EmplaceDrop(t, r) /\ step'[r] = "done")
    BY <1>1, StacksLeave
  <1>2. CASE RunGroupAwaiter(t, r) \/ RunResumeAwaiter(t, r)
    BY <1>2, StacksRunAwaiter
  <1>3. CASE Execute(t, r)
    <2>. PICK k : k = Instr(r).task
      OBVIOUS
    <2>1. /\ ~AtEnd(r) /\ Instr(r).op = "execute" /\ step' = [step EXCEPT ![k] = "queued"]
          /\ top' = top /\ caller' = caller
      BY <1>3 DEF Execute, AtCall
    <2>2. pc[r] \in DOMAIN Code[r] /\ Instr(r) = Code[r][pc[r]] /\ pc[r] \in Nat
      BY <2>1, CodeAssumption DEF IInv, TypeOK, AtEnd, Instr
    <2>3. k \in Tasks /\ Creates(Code[r][pc[r]], Token(k))
      BY <2>1, <2>2, CallType DEF Creates, Cells
    <2>4. step[k] = "new" /\ k # Main
      BY <2>2, <2>3, Actors DEF GInv, StartsOK
    <2>5. Active' = Active /\ step'[Main] = step[Main]
      BY <2>1, <2>4, Actors DEF Active, IInv, TypeOK
    <2>. QED  BY <2>1, <2>5, StacksStay DEF Stacks, MainOK
  <1>4. CASE ~(\/ AwaitSuspend(t, r) \/ MainReturn(t, r)
               \/ (EmplaceDrop(t, r) /\ step'[r] = "done")
               \/ RunGroupAwaiter(t, r) \/ RunResumeAwaiter(t, r) \/ Execute(t, r))
    <2>1. /\ top' = top /\ caller' = caller
          /\ \/ step' = step
             \/ \E x \in {"run", "wait", "addLocked", "adding", "emplace", "awaiters",
                          "callback", "callbackDrop", "emplaceDrop"} :
                   step' = [step EXCEPT ![r] = x]
      <3>1. CASE EmplaceDrop(t, r)
        BY <1>4, <3>1 DEF EmplaceDrop, IInv, TypeOK
      <3>2. CASE ~EmplaceDrop(t, r)
        BY <1>4, <3>2 DEF RoutineStep, CreateGroup, Drop, AddLockToken, AddLockGroup,
           AddUnlock, AwaitPass, AwaitBlock, SpuriousWakeup, EndTask, EmplaceLock,
           RunGroupCallback, CallbackUnlock, CallbackDrop, EmplaceUnlock, Load, Store, control
      <3>. QED  BY <3>1, <3>2
    <2>2. r \in Active
      BY Actors DEF Stacks, StackOK
    <2>3. Active' = Active
      BY <2>1, <2>2 DEF Active, IInv, TypeOK
    <2>4. step'[Main] \notin {"new", "queued", "suspended"}
      BY <2>1, Actors DEF Stacks, MainOK, IInv, TypeOK
    <2>. QED  BY <2>1, <2>3, <2>4, StacksStay
  <1>. QED  BY <1>1, <1>2, <1>3, <1>4

LEMMA StacksTakeTask ==
    ASSUME IInv, GInv, Stacks, NEW w \in Workers, TakeTask(w)
    PROVE  Stacks'
  <1>. PICK k : k = Head(queue)
    OBVIOUS
  <1>1. /\ queue # <<>> /\ step' = [step EXCEPT ![k] = "run"]
        /\ top[w] = Nobody /\ top' = [top EXCEPT ![w] = k] /\ caller' = caller
    BY DEF TakeTask
  <1>2. k \in Tasks /\ step[k] = "queued"
    BY <1>1 DEF IInv, TypeOK, GInv, StartsOK
  <1>3. k \in Routines /\ k # Main /\ k \notin Active
    BY <1>2, Actors DEF Active
  <1>4. step'[k] = "run" /\ \A r \in Routines \ {k} : step'[r] = step[r]
    BY <1>1, <1>3 DEF IInv, TypeOK
  <1>5. Active' = Active \cup {k}
    <2>1. \A r \in Routines : r \in Active' <=> r \in Active \cup {k}
      BY ONLY <1>3, <1>4 DEF Active
    <2>. QED  BY <1>3, <2>1 DEF Active
  <1>6. step'[Main] = step[Main]
    BY <1>3, <1>4, Actors
  <1>. QED  BY <1>1, <1>3, <1>5, <1>6, StacksPush DEF IInv

LEMMA InitStacks == Init => Stacks
  <1>. SUFFICES ASSUME Init PROVE Stacks
    OBVIOUS
  <1>1. Active = {Main}
    BY Actors DEF Init, Active
  <1>2. /\ top[Main] = Main /\ \A t \in Threads \ {Main} : top[t] = Nobody
        /\ \A r \in Routines : caller[r] = Nobody
    BY Actors DEF Init
  <1>3. StackOK
    BY <1>1, <1>2 DEF StackOK
  <1>4. TopsOK
    BY <1>1, <1>2, Actors DEF TopsOK
  <1>5. MainOK
    <2>1. step[Main] = "run"
      BY Actors DEF Init
    <2>. QED  BY <1>2, <2>1, Actors DEF MainOK
  <1>. QED  BY <1>3, <1>4, <1>5 DEF Stacks

-----------------------------------------------------------------------------
(* The queue, and who starts whom.                                         *)

\* A step that starts no task.
LEMMA StartsNone ==
    ASSUME IInv, GInv, Stacks, NEW t \in Threads, NEW r \in Routines, top[t] = r,
           RoutineStep(t, r), ~Execute(t, r)
    PROVE  /\ queue' = queue
           /\ \A s \in Routines : /\ step'[s] = "new" <=> step[s] = "new"
                                  /\ step'[s] = "queued" <=> step[s] = "queued"
  <1>1. step[r] \notin {"new", "queued"}
    BY Actors DEF Stacks, StackOK, Active
  <1>2. CASE RunGroupAwaiter(t, r) \/ RunResumeAwaiter(t, r)
    <2>1. \E s \in Routines : \E o : Suspended(s, o) /\ Resume(t, r, s)
      BY <1>2, NextAwaiter, NextGroupAwaiter DEF RunGroupAwaiter, RunResumeAwaiter
    <2>. PICK s \in Routines : \E o : Suspended(s, o) /\ Resume(t, r, s)
      BY <2>1
    <2>2. /\ step[s] = "suspended" /\ step' = [step EXCEPT ![s] = "run"] /\ queue' = queue
      BY <1>2 DEF Suspended, Resume, RunGroupAwaiter, RunResumeAwaiter
    <2>. QED  BY <2>2 DEF IInv, TypeOK
  <1>3. CASE ~(RunGroupAwaiter(t, r) \/ RunResumeAwaiter(t, r))
    <2>1. /\ queue' = queue
          /\ \/ step' = step
             \/ \E x \in Steps \ {"new", "queued"} : step' = [step EXCEPT ![r] = x]
      BY <1>3 DEF RoutineStep, CreateGroup, Drop, AddLockToken, AddLockGroup, AddUnlock,
         AwaitPass, AwaitBlock, AwaitSuspend, SpuriousWakeup, MainReturn, EndTask, EmplaceLock,
         RunGroupCallback, CallbackUnlock, CallbackDrop, EmplaceUnlock, EmplaceDrop, Load,
         Store, control, Steps
    <2>. QED  BY <1>1, <2>1 DEF IInv, TypeOK
  <1>. QED  BY <1>2, <1>3

\* What an execute call does to the tasks.
LEMMA ExecuteTask ==
    ASSUME IInv, GInv, NEW t \in Threads, NEW r \in Routines, Execute(t, r),
           NEW k, k = Instr(r).task
    PROVE  /\ k \in Tasks /\ k \in Routines /\ step[k] = "new" /\ pc[k] = 1
           /\ pc[r] \in DOMAIN Code[r] /\ Creates(Code[r][pc[r]], Token(k))
           /\ ~AtEnd(r) /\ step[r] = "run" /\ r # k
           /\ queue' = Append(queue, k)
           /\ step' = [step EXCEPT ![k] = "queued"]
           /\ step'[k] = "queued" /\ \A s \in Routines \ {k} : step'[s] = step[s]
  <1>1. /\ ~AtEnd(r) /\ step[r] = "run" /\ Instr(r).op = "execute"
        /\ queue' = Append(queue, k) /\ step' = [step EXCEPT ![k] = "queued"]
    BY DEF Execute, AtCall
  <1>2. pc[r] \in DOMAIN Code[r] /\ Instr(r) = Code[r][pc[r]] /\ pc[r] \in Nat
    BY <1>1, CodeAssumption DEF IInv, TypeOK, AtEnd, Instr
  <1>3. k \in Tasks /\ Creates(Code[r][pc[r]], Token(k))
    BY <1>1, <1>2, CallType DEF Creates, Cells
  <1>4. step[k] = "new" /\ pc[k] = 1
    BY <1>2, <1>3 DEF GInv, StartsOK
  <1>5. k \in Routines
    BY <1>3, Actors
  <1>. QED  BY <1>1, <1>2, <1>3, <1>4, <1>5 DEF IInv, TypeOK

LEMMA QueuedStep ==
    ASSUME IInv, GInv, Stacks, QueuedOK, NEW t \in Threads, ThreadStep(t)
    PROVE  QueuedOK'
  <1>1. ASSUME NEW r \in Routines, top[t] = r, RoutineStep(t, r), ~Execute(t, r)
        PROVE  QueuedOK'
    BY <1>1, StartsNone, Actors DEF QueuedOK
  <1>2. ASSUME NEW r \in Routines, Execute(t, r)
        PROVE  QueuedOK'
    <2>. PICK k : k = Instr(r).task
      OBVIOUS
    <2>1. /\ k \in Tasks /\ queue' = Append(queue, k)
          /\ \A s \in Routines \ {k} : step'[s] = step[s]
      BY <1>2, ExecuteTask
    <2>2. queue \in Seq(Tasks)
      BY DEF IInv, TypeOK
    <2>3. /\ \A i \in DOMAIN queue : i \in DOMAIN queue' /\ queue'[i] = queue[i]
          /\ Len(queue) + 1 \in DOMAIN queue' /\ queue'[Len(queue) + 1] = k
      BY <2>1, <2>2
    <2>. QED  BY <2>1, <2>3, Actors DEF QueuedOK
  <1>3. ASSUME TakeTask(t), t \in Workers
        PROVE  QueuedOK'
    <2>. PICK k : k = Head(queue)
      OBVIOUS
    <2>1. queue # <<>> /\ queue' = Tail(queue) /\ step' = [step EXCEPT ![k] = "run"]
      BY <1>3 DEF TakeTask
    <2>2. queue \in Seq(Tasks)
      BY DEF IInv, TypeOK
    <2>3. k = queue[1] /\ k \in Tasks /\ 1 \in DOMAIN queue
      BY <2>1, <2>2
    <2>4. k \in Routines
      BY <2>3, Actors
    <2>5. SUFFICES ASSUME NEW j \in Tasks, step'[j] = "queued"
                   PROVE  \E i \in DOMAIN queue' : queue'[i] = j
      BY DEF QueuedOK
    <2>6. j \in Routines
      BY Actors
    <2>7. step'[k] = "run" /\ (j # k => step'[j] = step[j])
      BY <2>1, <2>4, <2>6 DEF IInv, TypeOK
    <2>8. j # k /\ step[j] = "queued"
      BY <2>5, <2>7
    <2>9. PICK i \in DOMAIN queue : queue[i] = j
      BY <2>8 DEF QueuedOK
    <2>10. i \in 1..Len(queue) /\ i # 1
      BY <2>2, <2>3, <2>8, <2>9
    <2>11. i - 1 \in DOMAIN queue' /\ queue'[i - 1] = queue[i]
      BY <2>1, <2>2, <2>10
    <2>. QED  BY <2>9, <2>11
  <1>. QED  BY <1>1, <1>2, <1>3 DEF ThreadStep

LEMMA LeafStep ==
    ASSUME IInv, GInv, Stacks, LeafOK, NEW t \in Threads, ThreadStep(t)
    PROVE  LeafOK'
  <1>0. \A k, j : Starts(k, j)' <=> Starts(k, j)
    BY DEF Starts
  <1>1. ASSUME \A k \in Tasks : step'[k] = "new" <=> step[k] = "new"
        PROVE  LeafOK'
    <2>1. {k \in Tasks : step'[k] # "new"} = {k \in Tasks : step[k] # "new"}
      BY <1>1
    <2>. QED  BY <1>0, <2>1 DEF LeafOK
  <1>2. ASSUME NEW r \in Routines, top[t] = r, RoutineStep(t, r), ~Execute(t, r)
        PROVE  LeafOK'
    BY <1>1, <1>2, StartsNone, Actors
  <1>3. ASSUME TakeTask(t), t \in Workers
        PROVE  LeafOK'
    <2>. PICK k : k = Head(queue)
      OBVIOUS
    <2>1. queue # <<>> /\ step' = [step EXCEPT ![k] = "run"]
      BY <1>3 DEF TakeTask
    <2>2. k \in Tasks /\ step[k] = "queued"
      BY <2>1 DEF IInv, TypeOK, GInv, StartsOK
    <2>3. \A j \in Tasks : step'[j] = "new" <=> step[j] = "new"
      BY <2>1, <2>2, Actors DEF IInv, TypeOK
    <2>. QED  BY <1>1, <2>3
  <1>4. ASSUME NEW r \in Routines, Execute(t, r)
        PROVE  LeafOK'
    <2>. PICK k : k = Instr(r).task
      OBVIOUS
    <2>1. /\ k \in Tasks /\ k \in Routines /\ step[k] = "new" /\ pc[k] = 1 /\ r # k
          /\ pc[r] \in DOMAIN Code[r] /\ Creates(Code[r][pc[r]], Token(k))
          /\ step'[k] = "queued" /\ \A s \in Routines \ {k} : step'[s] = step[s]
      BY <1>4, ExecuteTask
    <2>2. SUFFICES ASSUME NEW S \in SUBSET {j \in Tasks : step'[j] # "new"}, S # {}
                   PROVE  \E i \in S : \A j \in S : ~Starts(i, j)
      BY <1>0 DEF LeafOK
    <2>3. \A j \in S : j = k \/ (j \in Tasks /\ step[j] # "new")
      BY <2>1, Actors
    <2>4. CASE k \notin S
      BY <2>2, <2>3, <2>4 DEF LeafOK
    <2>5. ASSUME k \in S, NEW j \in S, Starts(k, j)
          PROVE  FALSE
      <3>1. PICK i \in DOMAIN Code[k] : Code[k][i].op = "execute" /\ Code[k][i].task = j
        BY <2>5 DEF Starts
      <3>2. Creates(Code[k][i], Token(j)) /\ j \in Tasks /\ Token(j) \in Objects
        BY <2>3, <2>1, <3>1 DEF Creates, Cells, Objects
      <3>3. CASE j = k
        BY <2>1, <3>2, <3>3, CallOrder
      <3>4. CASE j # k
        <4>1. step[j] # "new"
          BY <2>3, <3>4
        <4>2. i < pc[k]
          BY <2>1, <3>2, <4>1 DEF GInv, StartsOK
        <4>. QED  BY <2>1, <4>2, CallType
      <3>. QED  BY <3>3, <3>4
    <2>. QED  BY <2>4, <2>5
  <1>. QED  BY <1>2, <1>3, <1>4 DEF ThreadStep

-----------------------------------------------------------------------------
(* The end.                                                                *)

\* A routine only moves the top of its own thread.
LEMMA OwnTop ==
    ASSUME IInv, NEW t \in Threads, NEW r \in Routines, RoutineStep(t, r)
    PROVE  \A u \in Threads \ {t} : top'[u] = top[u]
  <1>1. top' = top \/ \E x : top' = [top EXCEPT ![t] = x]
    BY DEF RoutineStep, Execute, CreateGroup, Drop, AddLockToken, AddLockGroup, AddUnlock,
       RunGroupAwaiter, RunResumeAwaiter, Resume,
       AwaitPass, AwaitBlock, AwaitSuspend, SpuriousWakeup, MainReturn, EndTask, EmplaceLock,
       RunGroupCallback, CallbackUnlock, CallbackDrop, EmplaceUnlock, EmplaceDrop, Load,
       Store, control, Leave
  <1>. QED  BY <1>1 DEF IInv, TypeOK

LEMMA DownStep ==
    ASSUME IInv, GInv, Stacks, DownOK, NEW t \in Threads, ThreadStep(t)
    PROVE  DownOK'
  <1>1. ~down
    <2>1. ASSUME down, TakeTask(t) PROVE FALSE
      BY <2>1 DEF DownOK, TakeTask
    <2>2. ASSUME down, NEW r \in Routines, top[t] = r PROVE FALSE
      BY <2>2, Actors DEF DownOK
    <2>. QED  BY <2>1, <2>2 DEF ThreadStep
  <1>2. down' = down
    BY DEF ThreadStep, TakeTask, RoutineStep, Execute, CreateGroup, Drop, AddLockToken,
       AddLockGroup, AddUnlock, RunGroupAwaiter, RunResumeAwaiter,
       AwaitPass, AwaitBlock, AwaitSuspend, SpuriousWakeup, MainReturn, EndTask, EmplaceLock,
       RunGroupCallback, CallbackUnlock, CallbackDrop, EmplaceUnlock, EmplaceDrop, Load, Store
  <1>3. ASSUME step'[Main] = "done" PROVE top'[Main] = Nobody
    <2>1. CASE t \in Workers /\ TakeTask(t)
      <3>1. /\ step' = [step EXCEPT ![Head(queue)] = "run"] /\ queue # <<>>
            /\ top' = [top EXCEPT ![t] = Head(queue)]
        BY <2>1 DEF TakeTask
      <3>2. step[Main] = "done" /\ top'[Main] = top[Main]
        BY <1>3, <2>1, <3>1, Actors DEF IInv, TypeOK
      <3>. QED  BY <3>2 DEF DownOK
    <2>2. ASSUME NEW r \in Routines, top[t] = r, RoutineStep(t, r)
          PROVE  top'[Main] = Nobody
      <3>1. CASE step[Main] = "done"
        <4>1. top[Main] = Nobody /\ t # Main
          BY <2>2, <3>1, Actors DEF DownOK
        <4>. QED  BY <2>2, <4>1, OwnTop, Actors
      <3>2. CASE step[Main] # "done"
        <4>1. MainReturn(t, r)
          <5>1. CASE Execute(t, r)
            <6>. PICK k : k = Instr(r).task
              OBVIOUS
            <6>. QED  BY <1>3, <3>2, <5>1, ExecuteTask, Actors
          <5>2. CASE RunGroupAwaiter(t, r) \/ RunResumeAwaiter(t, r)
            <6>1. \E x : step' = [step EXCEPT ![x] = "run"]
              BY <5>2 DEF RunGroupAwaiter, RunResumeAwaiter, Resume
            <6>2. PICK x : step' = [step EXCEPT ![x] = "run"]
              BY <6>1
            <6>. QED  BY <1>3, <3>2, <6>2, Actors DEF IInv, TypeOK
          <5>3. CASE EmplaceDrop(t, r)
            <6>1. r # Main
              BY <5>3, Actors DEF EmplaceDrop, IInv, ControlOK, RoutineOK
            <6>2. \E x : step' = [step EXCEPT ![r] = x]
              BY <5>3 DEF EmplaceDrop
            <6>. QED  BY <1>3, <3>2, <6>1, <6>2, Actors DEF IInv, TypeOK
          <5>4. CASE ~(\/ Execute(t, r) \/ RunGroupAwaiter(t, r) \/ RunResumeAwaiter(t, r)
                       \/ EmplaceDrop(t, r) \/ MainReturn(t, r))
            <6>1. step' = step \/ \E x \in Steps \ {"done"} : step' = [step EXCEPT ![r] = x]
              BY <2>2, <5>4 DEF RoutineStep, CreateGroup, Drop, AddLockToken, AddLockGroup,
                 AddUnlock, AwaitPass, AwaitBlock, AwaitSuspend, SpuriousWakeup, EndTask,
                 EmplaceLock, RunGroupCallback, CallbackUnlock, CallbackDrop, EmplaceUnlock,
                 Load, Store, control, Steps
            <6>. QED  BY <1>3, <3>2, <6>1, Actors DEF IInv, TypeOK
          <5>. QED  BY <5>1, <5>2, <5>3, <5>4
        <4>2. r = Main /\ top'[t] = caller[Main]
          BY <4>1 DEF MainReturn, Leave, IInv, TypeOK
        <4>3. t = Main /\ caller[Main] = Nobody
          BY <2>2, <4>2, Actors DEF Stacks, MainOK
        <4>. QED  BY <4>2, <4>3
      <3>. QED  BY <3>1, <3>2
    <2>. QED  BY <2>1, <2>2 DEF ThreadStep
  <1>. QED  BY <1>1, <1>2, <1>3 DEF DownOK

-----------------------------------------------------------------------------
(* Awaiters.                                                               *)

\* The list of a settled cell no longer grows.
LEMMA SettledList ==
    ASSUME IInv, GInv, NEW t \in Threads, NEW r \in Routines, RoutineStep(t, r),
           NEW c \in Cells, Settled(c)
    PROVE  awaiters'[c] = awaiters[c]
  <1>0. c \in Objects
    BY DEF Objects
  <1>1. CASE AwaitSuspend(t, r)
    <2>. PICK o : o = Instr(r).obj
      OBVIOUS
    <2>1. ~Ready(o) /\ awaiters' = [awaiters EXCEPT ![o] = Append(@, r)]
      BY <1>1 DEF AwaitSuspend
    <2>2. o # c
      BY <2>1 DEF Ready
    <2>. QED  BY <1>0, <2>1, <2>2 DEF IInv, TypeOK
  <1>2. CASE AddLockGroup(t, r)
    <2>. PICK d : d = Token(Instr(r).task)
      OBVIOUS
    <2>1. \/ awaiters' = awaiters
          \/ ~Settled(d) /\ \E g : awaiters' = [awaiters EXCEPT ![d] = Append(@, g)]
      BY <1>2 DEF AddLockGroup, AddReady, AddPending
    <2>. QED  BY <1>0, <2>1 DEF IInv, TypeOK
  <1>3. CASE ~(AwaitSuspend(t, r) \/ AddLockGroup(t, r))
    BY <1>3 DEF RoutineStep, Execute, CreateGroup, Drop, AddLockToken, AddUnlock,
       RunGroupAwaiter, RunResumeAwaiter, objects,
       AwaitPass, AwaitBlock, SpuriousWakeup, MainReturn, EndTask, EmplaceLock,
       RunGroupCallback, CallbackUnlock, CallbackDrop, EmplaceUnlock, EmplaceDrop, Load, Store
  <1>. QED  BY <1>1, <1>2, <1>3

LEMMA DrainedFrame ==
    ASSUME IInv, GInv, DrainedOK,
           \A k \in Tasks : step'[k] \in {"emplaceDrop", "done"} =>
              /\ step[k] \in {"emplaceDrop", "done"}
              /\ next'[k] = next[k] /\ cell'[k] = cell[k],
           \A c \in Cells : Settled(c) => awaiters'[c] = awaiters[c]
    PROVE  DrainedOK'
  <1>1. SUFFICES ASSUME NEW k \in Tasks, step'[k] \in {"emplaceDrop", "done"}
                 PROVE  next'[k] > Len(awaiters'[Current(k)'])
    BY DEF DrainedOK
  <1>2. step[k] \in {"emplaceDrop", "done"} /\ next'[k] = next[k] /\ cell'[k] = cell[k]
    BY <1>1
  <1>3. Current(k)' = Current(k)
    BY <1>2 DEF Current
  <1>4. Current(k) \in Cells /\ cell[k] \in 1..Len(Emplaced(k))
    BY CurrentToken DEF IInv
  <1>5. Settled(Current(k))
    BY <1>2, <1>4 DEF GInv, SettlesOK, Past, Current
  <1>. QED  BY <1>2, <1>3, <1>4, <1>5 DEF DrainedOK

LEMMA DrainedStep ==
    ASSUME IInv, GInv, Stacks, DrainedOK, NEW t \in Threads, ThreadStep(t)
    PROVE  DrainedOK'
  <1>1. CASE TakeTask(t)
    <2>1. /\ step' = [step EXCEPT ![Head(queue)] = "run"]
          /\ UNCHANGED <<next, cell, awaiters>>
      BY <1>1 DEF TakeTask, objects
    <2>2. \A k \in Tasks : step'[k] \in {"emplaceDrop", "done"} => step'[k] = step[k]
      BY <2>1, Actors DEF IInv, TypeOK
    <2>. QED  BY <2>1, <2>2, DrainedFrame
  <1>2. ASSUME NEW r \in Routines, top[t] = r, RoutineStep(t, r)
        PROVE  DrainedOK'
    <2>0. \A c \in Cells : Settled(c) => awaiters'[c] = awaiters[c]
      BY <1>2, SettledList
    <2>1. CASE Execute(t, r)
      <3>. PICK k : k = Instr(r).task
        OBVIOUS
      <3>1. /\ step'[k] = "queued" /\ \A s \in Routines \ {k} : step'[s] = step[s]
        BY <2>1, ExecuteTask
      <3>2. next' = next /\ cell' = cell
        BY <2>1 DEF Execute
      <3>. QED  BY <2>0, <3>1, <3>2, DrainedFrame, Actors
    <2>2. CASE RunGroupAwaiter(t, r) \/ RunResumeAwaiter(t, r)
      <3>1. \E x : step' = [step EXCEPT ![x] = "run"]
        BY <2>2 DEF RunGroupAwaiter, RunResumeAwaiter, Resume
      <3>2. PICK x : step' = [step EXCEPT ![x] = "run"]
        BY <3>1
      <3>3. /\ step[r] \in {"adding", "callback", "awaiters"} /\ cell' = cell
            /\ \/ next' = next
               \/ next' = [next EXCEPT ![r] = @ + 1]
        BY <2>2 DEF RunGroupAwaiter, RunResumeAwaiter, HasAwaiter
      <3>4. \A k \in Tasks : step'[k] \in {"emplaceDrop", "done"} => step'[k] = step[k] /\ k # r
        BY <3>2, <3>3, Actors DEF IInv, TypeOK
      <3>5. \A k \in Tasks : k # r => next'[k] = next[k]
        BY <3>3, Actors DEF IInv, TypeOK
      <3>. QED  BY <2>0, <3>3, <3>4, <3>5, DrainedFrame
    <2>3. CASE EmplaceUnlock(t, r)
      <3>1. /\ step' = [step EXCEPT ![r] = "emplaceDrop"] /\ UNCHANGED <<next, cell, awaiters>>
            /\ next[r] > Len(awaiters[Current(r)])
        BY <2>3 DEF EmplaceUnlock
      <3>2. \A k : Current(k)' = Current(k)
        BY <3>1 DEF Current
      <3>3. \A k \in Tasks : k # r => step'[k] = step[k]
        BY <3>1, Actors DEF IInv, TypeOK
      <3>. QED  BY <3>1, <3>2, <3>3 DEF DrainedOK
    <2>4. CASE EmplaceDrop(t, r)
      <3>1. /\ step[r] = "emplaceDrop" /\ next' = next /\ awaiters' = awaiters
            /\ \/ step' = [step EXCEPT ![r] = "emplace"] /\ cell' = [cell EXCEPT ![r] = @ + 1]
               \/ step' = [step EXCEPT ![r] = "done"] /\ cell' = cell
        BY <2>4 DEF EmplaceDrop
      <3>2. \A k \in Tasks : step'[k] \in {"emplaceDrop", "done"} =>
               step[k] \in {"emplaceDrop", "done"} /\ cell'[k] = cell[k]
        BY <3>1, Actors DEF IInv, TypeOK
      <3>. QED  BY <2>0, <3>1, <3>2, DrainedFrame
    <2>5. CASE ~(\/ Execute(t, r) \/ RunGroupAwaiter(t, r) \/ RunResumeAwaiter(t, r)
                 \/ EmplaceUnlock(t, r) \/ EmplaceDrop(t, r))
      <3>1. /\ cell' = cell
            /\ next' = next \/ (step' # step /\ \E x : next' = [next EXCEPT ![r] = x])
            /\ \/ step' = step
               \/ \E x \in Steps \ {"emplaceDrop", "done"} : step' = [step EXCEPT ![r] = x]
               \/ r = Main /\ step' = [step EXCEPT ![r] = "done"]
        <4>1. CASE EmplaceLock(t, r) \/ CallbackDrop(t, r)
          <5>1. /\ step[r] \in {"emplace", "callbackDrop"} /\ cell' = cell
                /\ \E x : next' = [next EXCEPT ![r] = x]
                /\ \E x \in {"awaiters"} : step' = [step EXCEPT ![r] = x]
            BY <4>1 DEF EmplaceLock, CallbackDrop
          <5>2. step' # step
            BY <5>1 DEF IInv, TypeOK
          <5>. QED  BY <5>1, <5>2 DEF Steps
        <4>2. CASE ~(EmplaceLock(t, r) \/ CallbackDrop(t, r))
          <5>1. cell' = cell /\ next' = next
            BY <1>2, <2>5, <4>2 DEF RoutineStep, CreateGroup, Drop, AddLockToken,
               AddLockGroup, AddUnlock, AwaitPass, AwaitBlock, AwaitSuspend, SpuriousWakeup,
               MainReturn, EndTask, RunGroupCallback, CallbackUnlock, Load, Store, control
          <5>2. \/ step' = step
                \/ \E x \in Steps \ {"emplaceDrop", "done"} : step' = [step EXCEPT ![r] = x]
                \/ r = Main /\ step' = [step EXCEPT ![r] = "done"]
            BY <1>2, <2>5, <4>2 DEF RoutineStep, CreateGroup, Drop, AddLockToken,
               AddLockGroup, AddUnlock, AwaitPass, AwaitBlock, AwaitSuspend, SpuriousWakeup,
               MainReturn, EndTask, RunGroupCallback, CallbackUnlock, Load, Store, control,
               Steps
          <5>. QED  BY <5>1, <5>2
        <4>. QED  BY <4>1, <4>2
      <3>2. \A k \in Tasks : step'[k] \in {"emplaceDrop", "done"} =>
               step[k] = step'[k] /\ next'[k] = next[k]
        BY <3>1, Actors DEF IInv, TypeOK
      <3>. QED  BY <2>0, <3>1, <3>2, DrainedFrame
    <2>. QED  BY <2>1, <2>2, <2>3, <2>4, <2>5
  <1>. QED  BY <1>1, <1>2 DEF ThreadStep

-----------------------------------------------------------------------------
(* Suspended coroutines.                                                   *)

\* The steps in which a routine may come past an awaiter.
Running == {"adding", "callback", "awaiters", "callbackDrop"}

\* Step of routine r: what is still to be run stays so, if r does not come past it.
LEMMA StillStays ==
    ASSUME IInv, NEW r \in Routines,
           \A s \in Routines \ {r} :
              step[s] \in Running => SameControl(s) /\ gnext'[s] = gnext[s],
           \A p \in Objects : AwaitersGrow(p),
           \A k \in Tasks \ {r} : \A n \in 1..Len(Emplaced(k)) :
              ~Settled(Emplaced(k)[n]) => ~Settled(Emplaced(k)[n])',
           NEW o \in Objects, NEW i \in DOMAIN awaiters[o], StillToRun(o, i),
           o \in Groups /\ pending[o] # 0 =>
              \/ pending'[o] # 0
              \/ step'[r] \in {"adding", "callback"} /\ GroupOf(r)' = o /\ i >= gnext'[r],
           o \in Groups /\ step[r] \in {"adding", "callback"} /\ GroupOf(r) = o /\ i >= gnext[r]
              => step'[r] \in {"adding", "callback"} /\ GroupOf(r)' = o /\ i >= gnext'[r],
           \A n \in 1..Len(Emplaced(r)) :
              r \in Tasks /\ o = Emplaced(r)[n] /\ ToRun(r, n, i) => ToRun(r, n, i)'
    PROVE  StillToRun(o, i)'
  <1>1. CASE o \in Groups /\ pending[o] # 0
    BY <1>1 DEF StillToRun
  <1>2. ASSUME o \in Groups, NEW s \in Routines, step[s] \in {"adding", "callback"},
               GroupOf(s) = o, i >= gnext[s]
        PROVE  StillToRun(o, i)'
    <2>1. CASE s = r
      BY <1>2, <2>1 DEF StillToRun
    <2>2. CASE s # r
      <3>1. SameControl(s) /\ gnext'[s] = gnext[s]
        BY <1>2, <2>2 DEF Running
      <3>2. GroupOf(s)' = GroupOf(s)
        BY <1>2, <3>1, GroupOfSame
      <3>3. step'[s] = step[s]
        BY <3>1 DEF SameControl
      <3>. QED  BY <1>2, <3>1, <3>2, <3>3 DEF StillToRun
    <2>. QED  BY <2>1, <2>2
  <1>3. ASSUME NEW k \in Tasks, NEW n \in 1..Len(Emplaced(k)), o = Emplaced(k)[n], ToRun(k, n, i)
        PROVE  StillToRun(o, i)'
    <2>1. ToRun(k, n, i)'
      <3>1. CASE k = r
        BY <1>3, <3>1
      <3>2. CASE k # r
        <4>1. k \in Routines
          BY Actors
        <4>. QED  BY <1>3, <3>2, <4>1 DEF ToRun, Running, SameControl
      <3>. QED  BY <3>1, <3>2
    <2>. QED  BY <1>3, <2>1 DEF StillToRun
  <1>. QED  BY <1>1, <1>2, <1>3 DEF StillToRun

\* A coroutine stays in the awaiters while what it waits for is still to be run.
LEMMA SuspendedFrame ==
    ASSUME IInv, IInv', SuspendedOK,
           \A s \in Routines : step'[s] = "suspended" => step[s] = "suspended" /\ pc'[s] = pc[s],
           \A p \in Objects : AwaitersGrow(p),
           \A s \in Routines : \A o \in Objects : \A i \in DOMAIN awaiters[o] :
              step'[s] = "suspended" /\ awaiters[o][i] = s /\ StillToRun(o, i)
                 => StillToRun(o, i)'
    PROVE  SuspendedOK'
  <1>1. SUFFICES ASSUME NEW s \in Routines, step'[s] = "suspended"
                 PROVE  \E o \in Objects : \E i \in DOMAIN awaiters'[o] :
                           Suspended(s, o)' /\ awaiters'[o][i] = s /\ StillToRun(o, i)'
    BY DEF SuspendedOK
  <1>2. step[s] = "suspended" /\ pc'[s] = pc[s]
    BY <1>1
  <1>3. PICK o \in Objects : \E i \in DOMAIN awaiters[o] :
            Suspended(s, o) /\ awaiters[o][i] = s /\ StillToRun(o, i)
    BY <1>2 DEF SuspendedOK
  <1>4. PICK i \in DOMAIN awaiters[o] :
            Suspended(s, o) /\ awaiters[o][i] = s /\ StillToRun(o, i)
    BY <1>3
  <1>5. Suspended(s, o)'
    BY <1>1, <1>2, <1>4 DEF Suspended, AtEnd, Instr
  <1>6. i \in DOMAIN awaiters'[o] /\ awaiters'[o][i] = s
    <2>1. awaiters[o] \in Seq(Routines \cup Groups)
      BY DEF IInv, TypeOK
    <2>2. awaiters'[o] \in Seq(Routines \cup Groups)
      BY DEF IInv, TypeOK
    <2>. QED  BY <1>4, <2>1, <2>2 DEF AwaitersGrow
  <1>. QED  BY <1>1, <1>4, <1>5, <1>6

\* A step that neither adds nor emplaces.
LEMMA SuspendedCalm ==
    ASSUME IInv, IInv', SuspendedOK, NEW r \in Routines, step[r] \notin Running,
           \A s \in Routines \ {r} :
              step[s] \in Running => SameControl(s) /\ gnext'[s] = gnext[s],
           \A s \in Routines : step'[s] = "suspended" => step[s] = "suspended" /\ pc'[s] = pc[s],
           \A p \in Objects : AwaitersGrow(p),
           \A g \in Groups : pending[g] # 0 => pending'[g] # 0,
           state' = state
    PROVE  SuspendedOK'
  <1>1. \A c : ~Settled(c) => ~Settled(c)'
    BY DEF Settled
  <1>2. ASSUME NEW o \in Objects, NEW i \in DOMAIN awaiters[o], StillToRun(o, i)
        PROVE  StillToRun(o, i)'
    <2>1. \A n \in 1..Len(Emplaced(r)) : ToRun(r, n, i) => ToRun(r, n, i)'
      BY <1>1 DEF ToRun, Running
    <2>. QED  BY <1>1, <1>2, <2>1, StillStays DEF Running
  <1>. QED  BY <1>2, SuspendedFrame

\* The actions that a coroutine in somebody's awaiters does not notice.
LEMMA SuspendedCalmActions ==
    ASSUME IInv, IInv', GInv, Stacks, SuspendedOK, NEW t \in Threads, NEW r \in Routines,
           top[t] = r,
           \/ CreateGroup(t, r) \/ Drop(t, r) \/ AddLockToken(t, r)
           \/ AwaitPass(t, r) \/ AwaitBlock(t, r) \/ SpuriousWakeup(t, r)
           \/ MainReturn(t, r) \/ EndTask(t, r) \/ EmplaceDrop(t, r)
           \/ Load(t, r) \/ Store(t, r)
    PROVE  SuspendedOK'
  <1>1. step[r] \in {"run", "wait", "emplaceDrop"}
    BY DEF CreateGroup, Drop, AddLockToken, AwaitPass, AwaitBlock, SpuriousWakeup, MainReturn,
       EndTask, EmplaceDrop, Load, Store, AtCall
  <1>2. UNCHANGED <<next, gnext, awaiters, pending, state>>
    BY DEF CreateGroup, Drop, AddLockToken, AwaitPass, AwaitBlock, SpuriousWakeup, MainReturn,
       EndTask, EmplaceDrop, Load, Store, objects, control
  <1>3. /\ step' = step \/ \E x \in Steps \ {"suspended"} : step' = [step EXCEPT ![r] = x]
        /\ pc' = pc \/ \E x : pc' = [pc EXCEPT ![r] = x]
        /\ cell' = cell \/ \E x : cell' = [cell EXCEPT ![r] = x]
    BY DEF CreateGroup, Drop, AddLockToken, AwaitPass, AwaitBlock, SpuriousWakeup, MainReturn,
       EndTask, EmplaceDrop, Load, Store, control, Steps
  <1>4. \A s \in Routines \ {r} : SameControl(s) /\ gnext'[s] = gnext[s]
    BY <1>2, <1>3 DEF SameControl, IInv, TypeOK
  <1>5. \A s \in Routines : step'[s] = "suspended" => step[s] = "suspended" /\ pc'[s] = pc[s]
    BY <1>1, <1>3 DEF IInv, TypeOK
  <1>6. \A p \in Objects : AwaitersGrow(p)
    BY <1>2 DEF IInv, TypeOK, AwaitersGrow
  <1>. QED  BY <1>1, <1>2, <1>4, <1>5, <1>6, SuspendedCalm DEF Running

LEMMA SuspendedExecute ==
    ASSUME IInv, IInv', GInv, SuspendedOK, NEW t \in Threads, NEW r \in Routines, Execute(t, r)
    PROVE  SuspendedOK'
  <1>. PICK k : k = Instr(r).task
    OBVIOUS
  <1>1. /\ step[k] = "new" /\ step[r] = "run" /\ r # k
        /\ step'[k] = "queued" /\ \A s \in Routines \ {k} : step'[s] = step[s]
    BY ExecuteTask
  <1>2. /\ pc' = [pc EXCEPT ![r] = @ + 1]
        /\ UNCHANGED <<cell, next, gnext, awaiters, pending, state>>
    BY DEF Execute
  <1>3. \A s \in Routines \ {r} : pc'[s] = pc[s]
    BY <1>2 DEF IInv, TypeOK
  <1>4. \A s \in Routines \ {r} :
           step[s] \in Running => SameControl(s) /\ gnext'[s] = gnext[s]
    BY <1>1, <1>2, <1>3 DEF Running, SameControl
  <1>5. \A s \in Routines : step'[s] = "suspended" => step[s] = "suspended" /\ pc'[s] = pc[s]
    BY <1>1, <1>3
  <1>6. \A p \in Objects : AwaitersGrow(p)
    BY <1>2 DEF IInv, TypeOK, AwaitersGrow
  <1>. QED  BY <1>1, <1>2, <1>4, <1>5, <1>6, SuspendedCalm DEF Running

LEMMA SuspendedTakeTask ==
    ASSUME IInv, IInv', GInv, SuspendedOK, NEW w \in Workers, TakeTask(w)
    PROVE  SuspendedOK'
  <1>. PICK k : k = Head(queue)
    OBVIOUS
  <1>1. /\ queue # <<>> /\ step' = [step EXCEPT ![k] = "run"]
        /\ UNCHANGED <<pc, cell, next, gnext, awaiters, pending, state>>
    BY DEF TakeTask, objects
  <1>2. k \in Tasks /\ step[k] = "queued"
    BY <1>1 DEF IInv, TypeOK, GInv, StartsOK
  <1>3. k \in Routines /\ step'[k] = "run" /\ \A s \in Routines \ {k} : step'[s] = step[s]
    BY <1>1, <1>2, Actors DEF IInv, TypeOK
  <1>4. \A s \in Routines \ {k} : SameControl(s) /\ gnext'[s] = gnext[s]
    BY <1>1, <1>3 DEF SameControl
  <1>5. \A s \in Routines : step'[s] = "suspended" => step[s] = "suspended" /\ pc'[s] = pc[s]
    BY <1>1, <1>3
  <1>6. \A p \in Objects : AwaitersGrow(p)
    BY <1>1 DEF IInv, TypeOK, AwaitersGrow
  <1>. QED  BY <1>1, <1>2, <1>3, <1>4, <1>5, <1>6, SuspendedCalm DEF Running

\* A coroutine that suspends itself leaves itself where it will be found.
LEMMA SuspendedAwait ==
    ASSUME IInv, IInv', GInv, Stacks, SuspendedOK, NEW t \in Threads, NEW r \in Routines,
           AwaitSuspend(t, r)
    PROVE  SuspendedOK'
  <1>. PICK o : o = Instr(r).obj
    OBVIOUS
  <1>1. /\ ~AtEnd(r) /\ step[r] = "run" /\ Instr(r).op = "await" /\ ~Ready(o)
        /\ awaiters' = [awaiters EXCEPT ![o] = Append(@, r)]
        /\ step' = [step EXCEPT ![r] = "suspended"]
        /\ UNCHANGED <<pc, cell, next, gnext, pending, state>>
    BY DEF AwaitSuspend, AtCall
  <1>2. o \in Objects /\ Awaits(Instr(r), o)
    <2>1. pc[r] \in DOMAIN Code[r] /\ Instr(r) = Code[r][pc[r]]
      BY <1>1, CodeAssumption DEF IInv, TypeOK, AtEnd, Instr
    <2>. QED  BY <1>1, <2>1, CallType DEF Awaits
  <1>3. /\ \A p \in Objects : AwaitersGrow(p)
        /\ \A p \in Objects : \A i \in DOMAIN awaiters[p] :
              i \in DOMAIN awaiters'[p] /\ awaiters'[p][i] = awaiters[p][i]
        /\ Len(awaiters[o]) + 1 \in DOMAIN awaiters'[o]
        /\ awaiters'[o][Len(awaiters[o]) + 1] = r
    BY <1>1, <1>2, LeftInAwaiters DEF IInv
  <1>4. \A s \in Routines \ {r} : step'[s] = step[s]
    BY <1>1 DEF IInv, TypeOK
  <1>5. step'[r] = "suspended" /\ pc' = pc
    BY <1>1 DEF IInv, TypeOK
  <1>6. \A c : Settled(c)' <=> Settled(c)
    BY <1>1 DEF Settled
  <1>7. \A s \in Routines \ {r} : SameControl(s) /\ gnext'[s] = gnext[s]
    BY <1>1, <1>4 DEF SameControl
  <1>8. ASSUME NEW p \in Objects, NEW i \in DOMAIN awaiters[p], StillToRun(p, i)
        PROVE  StillToRun(p, i)'
    <2>1. \A n \in 1..Len(Emplaced(r)) : ToRun(r, n, i) => ToRun(r, n, i)'
      BY <1>1, <1>6 DEF ToRun
    <2>. QED  BY <1>1, <1>3, <1>6, <1>7, <1>8, <2>1, StillStays
  <1>. PICK m : m = Len(awaiters[o]) + 1
    OBVIOUS
  <1>9. StillToRun(o, m)'
    <2>1. CASE o \in Cells
      <3>1. ~Settled(o)'
        BY <1>1, <1>6, <2>1 DEF Ready
      <3>2. PICK k \in Tasks : \E n \in 1..Len(Emplaced(k)) : o = Emplaced(k)[n]
        BY <2>1, CellOwner
      <3>. QED  BY <3>1, <3>2 DEF StillToRun, ToRun
    <2>2. CASE o \notin Cells
      <3>1. o \in Groups /\ pending'[o] # 0
        BY <1>1, <1>2, <2>2 DEF Ready, Objects
      <3>. QED  BY <3>1 DEF StillToRun
    <2>. QED  BY <2>1, <2>2
  <1>10. Suspended(r, o)'
    BY <1>1, <1>2, <1>5 DEF Suspended, AtEnd, Instr
  <1>11. ASSUME NEW s \in Routines, s # r, step'[s] = "suspended"
         PROVE  \E p \in Objects : \E i \in DOMAIN awaiters'[p] :
                   Suspended(s, p)' /\ awaiters'[p][i] = s /\ StillToRun(p, i)'
    <2>1. PICK p \in Objects : \E i \in DOMAIN awaiters[p] :
              Suspended(s, p) /\ awaiters[p][i] = s /\ StillToRun(p, i)
      BY <1>4, <1>11 DEF SuspendedOK
    <2>2. PICK i \in DOMAIN awaiters[p] :
              Suspended(s, p) /\ awaiters[p][i] = s /\ StillToRun(p, i)
      BY <2>1
    <2>3. Suspended(s, p)'
      BY <1>5, <1>11, <2>2 DEF Suspended, AtEnd, Instr
    <2>. QED  BY <1>3, <1>8, <2>2, <2>3
  <1>12. \E p \in Objects : \E i \in DOMAIN awaiters'[p] :
            Suspended(r, p)' /\ awaiters'[p][i] = r /\ StillToRun(p, i)'
    BY <1>2, <1>3, <1>9, <1>10
  <1>13. \A s \in Routines : step'[s] = "suspended" =>
            \E p \in Objects : \E i \in DOMAIN awaiters'[p] :
               Suspended(s, p)' /\ awaiters'[p][i] = s /\ StillToRun(p, i)'
    BY <1>11, <1>12
  <1>. QED  BY <1>13 DEF SuspendedOK

\* Adding a token to a group keeps what is still to be run.
LEMMA SuspendedAddLockGroup ==
    ASSUME IInv, IInv', GInv, SuspendedOK, NEW t \in Threads, NEW r \in Routines,
           AddLockGroup(t, r)
    PROVE  SuspendedOK'
  <1>. PICK k, g : k = Instr(r).task /\ g = Instr(r).obj
    OBVIOUS
  <1>1. /\ step[r] = "addLocked" /\ step' = [step EXCEPT ![r] = "adding"]
        /\ UNCHANGED <<pc, cell, next, state>>
        /\ AddReady(r, Token(k), g) \/ AddPending(r, Token(k), g)
    BY DEF AddLockGroup
  <1>2. /\ g \in Groups /\ \A p \in Objects : AwaitersGrow(p)
        /\ \A s \in Routines \ {r} : SameControl(s)
    BY AddStep
  <1>3. pending[g] \in Nat
    BY <1>2, TokensFinite, FS_CardinalityType DEF GInv, GroupAccounting
  <1>4. \A h \in Groups : pending[h] # 0 => pending'[h] # 0
    <2>1. /\ pending' = [pending EXCEPT ![g] = (pending[g] + 1) - 1] \/
             pending' = [pending EXCEPT ![g] = pending[g] + 1]
      BY <1>1 DEF AddReady, AddPending, OnTokenReady
    <2>. QED  BY <1>2, <1>3, <2>1 DEF IInv, TypeOK
  <1>5. \A s \in Routines \ {r} : gnext'[s] = gnext[s]
    <2>1. \E x : gnext' = [gnext EXCEPT ![r] = x]
      BY <1>1 DEF AddReady, AddPending, OnTokenReady
    <2>. QED  BY <2>1 DEF IInv, TypeOK
  <1>6. \A s \in Routines : step'[s] = "suspended" => step[s] = "suspended" /\ pc'[s] = pc[s]
    BY <1>1 DEF IInv, TypeOK
  <1>. QED  BY <1>1, <1>2, <1>4, <1>5, <1>6, SuspendedCalm DEF Running

\* A step of r that changes nothing else than how far r has come.
LEMMA SuspendedAlone ==
    ASSUME IInv, IInv', SuspendedOK, NEW r \in Routines, NEW x \in Steps \ {"suspended"},
           step' = [step EXCEPT ![r] = x], step[r] # "suspended",
           UNCHANGED <<cell, gnext, awaiters, pending>>,
           \A s \in Routines \ {r} : pc'[s] = pc[s] /\ next'[s] = next[s],
           \A k \in Tasks \ {r} : \A n \in 1..Len(Emplaced(k)) :
              ~Settled(Emplaced(k)[n]) => ~Settled(Emplaced(k)[n])',
           \A o \in Objects : \A i \in DOMAIN awaiters[o] :
              /\ ~(step[r] \in {"adding", "callback"} /\ GroupOf(r) = o /\ i >= gnext[r])
              /\ \A n \in 1..Len(Emplaced(r)) :
                    /\ r \in Tasks /\ o = Emplaced(r)[n] /\ awaiters[o][i] \in Routines
                    /\ ToRun(r, n, i)
                    => ToRun(r, n, i)'
    PROVE  SuspendedOK'
  <1>1. \A s \in Routines \ {r} : SameControl(s) /\ gnext'[s] = gnext[s]
    BY DEF SameControl, IInv, TypeOK
  <1>2. \A p \in Objects : AwaitersGrow(p)
    BY DEF IInv, TypeOK, AwaitersGrow
  <1>3. \A s \in Routines : step'[s] = "suspended" => step[s] = "suspended" /\ pc'[s] = pc[s]
    BY DEF IInv, TypeOK
  <1>4. ASSUME NEW o \in Objects, NEW i \in DOMAIN awaiters[o], awaiters[o][i] \in Routines,
               StillToRun(o, i)
        PROVE  StillToRun(o, i)'
    BY <1>1, <1>2, <1>4, StillStays
  <1>. QED  BY <1>2, <1>3, <1>4, SuspendedFrame

LEMMA SuspendedAddUnlock ==
    ASSUME IInv, IInv', GInv, SuspendedOK, NEW t \in Threads, NEW r \in Routines,
           AddUnlock(t, r)
    PROVE  SuspendedOK'
  <1>1. /\ step[r] = "adding" /\ step' = [step EXCEPT ![r] = "run"]
        /\ gnext[r] > Len(awaiters[GroupOf(r)])
        /\ pc' = [pc EXCEPT ![r] = @ + 1]
        /\ UNCHANGED <<cell, next, gnext, awaiters, pending, state>>
    BY DEF AddUnlock
  <1>2. \A s \in Routines \ {r} : pc'[s] = pc[s] /\ next'[s] = next[s]
    BY <1>1 DEF IInv, TypeOK
  <1>3. \A c : Settled(c)' <=> Settled(c)
    BY <1>1 DEF Settled
  <1>4. ASSUME NEW o \in Objects, NEW i \in DOMAIN awaiters[o]
        PROVE  /\ ~(GroupOf(r) = o /\ i >= gnext[r])
               /\ \A n \in 1..Len(Emplaced(r)) : ToRun(r, n, i) => ToRun(r, n, i)'
    <2>1. i \in 1..Len(awaiters[o]) /\ gnext[r] \in Nat /\ Len(awaiters[o]) \in Nat
      BY DEF IInv, TypeOK
    <2>2. ~(GroupOf(r) = o /\ i >= gnext[r])
      BY <1>1, <2>1
    <2>. QED  BY <1>1, <1>3, <2>2 DEF ToRun
  <1>. QED  BY <1>1, <1>2, <1>3, <1>4, SuspendedAlone DEF Steps

LEMMA SuspendedCallbackUnlock ==
    ASSUME IInv, IInv', GInv, SuspendedOK, NEW t \in Threads, NEW r \in Routines,
           CallbackUnlock(t, r)
    PROVE  SuspendedOK'
  <1>1. /\ step[r] = "callback" /\ step' = [step EXCEPT ![r] = "callbackDrop"]
        /\ gnext[r] > Len(awaiters[GroupOf(r)])
        /\ UNCHANGED <<pc, cell, next, gnext, awaiters, pending, state>>
    BY DEF CallbackUnlock
  <1>2. \A c : Settled(c)' <=> Settled(c)
    BY <1>1 DEF Settled
  <1>3. step'[r] = "callbackDrop"
    BY <1>1 DEF IInv, TypeOK
  <1>4. ASSUME NEW o \in Objects, NEW i \in DOMAIN awaiters[o]
        PROVE  /\ ~(GroupOf(r) = o /\ i >= gnext[r])
               /\ \A n \in 1..Len(Emplaced(r)) : ToRun(r, n, i) => ToRun(r, n, i)'
    <2>1. i \in 1..Len(awaiters[o]) /\ gnext[r] \in Nat /\ Len(awaiters[o]) \in Nat
      BY DEF IInv, TypeOK
    <2>2. ~(GroupOf(r) = o /\ i >= gnext[r])
      BY <1>1, <2>1
    <2>. QED  BY <1>1, <1>2, <1>3, <2>2 DEF ToRun
  <1>. QED  BY <1>1, <1>2, <1>4, SuspendedAlone DEF Steps

\* The awaiter that r has called back is a group.
LEMMA SuspendedCallbackDrop ==
    ASSUME IInv, IInv', GInv, SuspendedOK, NEW t \in Threads, NEW r \in Routines,
           CallbackDrop(t, r)
    PROVE  SuspendedOK'
  <1>1. /\ step[r] = "callbackDrop" /\ step' = [step EXCEPT ![r] = "awaiters"]
        /\ next' = [next EXCEPT ![r] = @ + 1]
        /\ UNCHANGED <<pc, cell, gnext, awaiters, pending, state>>
    BY DEF CallbackDrop
  <1>2. /\ r \in Tasks /\ awaiters[Current(r)][next[r]] \in Groups
        /\ Current(r) = Emplaced(r)[cell[r]]
    BY <1>1 DEF IInv, ControlOK, RoutineOK, Current
  <1>3. \A s \in Routines \ {r} : pc'[s] = pc[s] /\ next'[s] = next[s]
    BY <1>1 DEF IInv, TypeOK
  <1>4. \A c : Settled(c)' <=> Settled(c)
    BY <1>1 DEF Settled
  <1>5. step'[r] = "awaiters" /\ next'[r] = next[r] + 1 /\ next[r] \in Nat
    BY <1>1 DEF IInv, TypeOK
  <1>6. ASSUME NEW o \in Objects, NEW i \in DOMAIN awaiters[o],
               NEW n \in 1..Len(Emplaced(r)),
               o = Emplaced(r)[n], awaiters[o][i] \in Routines, ToRun(r, n, i)
        PROVE  ToRun(r, n, i)'
    <2>1. i \in Nat
      BY DEF IInv, TypeOK
    <2>2. n = cell[r] => i # next[r]
      BY <1>2, <1>6, CodeAssumption
    <2>. QED  BY <1>1, <1>4, <1>5, <1>6, <2>1, <2>2 DEF ToRun
  <1>. QED  BY <1>1, <1>3, <1>4, <1>6, SuspendedAlone DEF Steps

LEMMA SuspendedEmplaceUnlock ==
    ASSUME IInv, IInv', GInv, SuspendedOK, NEW t \in Threads, NEW r \in Routines,
           EmplaceUnlock(t, r)
    PROVE  SuspendedOK'
  <1>1. /\ step[r] = "awaiters" /\ step' = [step EXCEPT ![r] = "emplaceDrop"]
        /\ next[r] > Len(awaiters[Current(r)])
        /\ UNCHANGED <<pc, cell, next, gnext, awaiters, pending, state>>
    BY DEF EmplaceUnlock
  <1>2. \A c : Settled(c)' <=> Settled(c)
    BY <1>1 DEF Settled
  <1>3. ASSUME NEW o \in Objects, NEW i \in DOMAIN awaiters[o],
               NEW n \in 1..Len(Emplaced(r)),
               o = Emplaced(r)[n], ToRun(r, n, i)
        PROVE  ToRun(r, n, i)'
    <2>1. i \in 1..Len(awaiters[o]) /\ next[r] \in Nat /\ Len(awaiters[o]) \in Nat
      BY DEF IInv, TypeOK
    <2>2. ~(n = cell[r] /\ i >= next[r])
      BY <1>1, <1>3, <2>1 DEF Current
    <2>. QED  BY <1>2, <1>3, <2>2 DEF ToRun
  <1>. QED  BY <1>1, <1>2, <1>3, SuspendedAlone DEF Steps

\* A cell that settles has all its awaiters still to be run.
LEMMA SuspendedEmplaceLock ==
    ASSUME IInv, IInv', GInv, SuspendedOK, NEW t \in Threads, NEW r \in Routines,
           EmplaceLock(t, r)
    PROVE  SuspendedOK'
  <1>1. /\ step[r] = "emplace" /\ step' = [step EXCEPT ![r] = "awaiters"]
        /\ next' = [next EXCEPT ![r] = 1]
        /\ \E x : state' = [state EXCEPT ![Current(r)] = x]
        /\ UNCHANGED <<pc, cell, gnext, awaiters, pending>>
    BY DEF EmplaceLock
  <1>2. /\ r \in Tasks /\ Current(r) \in Cells /\ Current(r) = Emplaced(r)[cell[r]]
        /\ cell[r] \in 1..Len(Emplaced(r))
    <2>1. r \in Tasks
      BY <1>1 DEF IInv, ControlOK, RoutineOK
    <2>. QED  BY <2>1, CurrentToken DEF IInv, Current
  <1>3. \A c \in Cells : c # Current(r) => (Settled(c)' <=> Settled(c))
    BY <1>1, <1>2 DEF Settled, IInv, TypeOK
  <1>4. \A k \in Tasks \ {r} : \A n \in 1..Len(Emplaced(k)) :
              ~Settled(Emplaced(k)[n]) => ~Settled(Emplaced(k)[n])'
    <2>1. \A k \in Tasks \ {r} : \A n \in 1..Len(Emplaced(k)) :
             Emplaced(k)[n] \in Cells /\ Emplaced(k)[n] # Current(r)
      BY <1>2, CellOwner
    <2>. QED  BY <1>3, <2>1
  <1>5. step'[r] = "awaiters" /\ next'[r] = 1
    BY <1>1 DEF IInv, TypeOK
  <1>6. ASSUME NEW o \in Objects, NEW i \in DOMAIN awaiters[o],
               NEW n \in 1..Len(Emplaced(r)), ToRun(r, n, i)
        PROVE  ToRun(r, n, i)'
    <2>1. i \in 1..Len(awaiters[o]) /\ i >= 1
      BY DEF IInv, TypeOK
    <2>2. ~Settled(Emplaced(r)[n])
      BY <1>1, <1>6 DEF ToRun
    <2>3. CASE n = cell[r]
      BY <1>1, <1>5, <2>1, <2>3 DEF ToRun
    <2>4. CASE n # cell[r]
      <3>1. Emplaced(r)[n] \in Cells /\ Emplaced(r)[n] # Current(r)
        BY <1>2, <2>4, CellOwner
      <3>. QED  BY <1>3, <2>2, <3>1 DEF ToRun
    <2>. QED  BY <2>3, <2>4
  <1>7. \A s \in Routines \ {r} : pc'[s] = pc[s] /\ next'[s] = next[s]
    BY <1>1 DEF IInv, TypeOK
  <1>. QED  BY <1>1, <1>4, <1>6, <1>7, SuspendedAlone DEF Steps

\* The awaiter that r comes past is the one it resumes.
LEMMA SuspendedRunAwaiter ==
    ASSUME IInv, IInv', GInv, SuspendedOK, NEW t \in Threads, NEW r \in Routines,
           NEW s \in Routines, NEW p \in Objects, Suspended(s, p), Resume(t, r, s),
           step[r] \in {"adding", "callback", "awaiters"},
           UNCHANGED <<cell, awaiters, pending, state>>,
           \/ /\ step[r] = "awaiters" /\ r \in Tasks /\ awaiters[Current(r)][next[r]] = s
              /\ next' = [next EXCEPT ![r] = @ + 1] /\ gnext' = gnext
           \/ /\ step[r] # "awaiters" /\ awaiters[GroupOf(r)][gnext[r]] = s
              /\ gnext' = [gnext EXCEPT ![r] = @ + 1] /\ next' = next
    PROVE  SuspendedOK'
  <1>1. step[s] = "suspended" /\ s # r
    BY DEF Suspended
  <1>2. /\ step'[s] = "run" /\ \A q \in Routines \ {s} : step'[q] = step[q] /\ pc'[q] = pc[q]
    BY DEF Resume, IInv, TypeOK
  <1>3. \A q \in Routines : step'[q] = "suspended" => step[q] = "suspended" /\ pc'[q] = pc[q]
    BY <1>2
  <1>4. \A o \in Objects : AwaitersGrow(o)
    BY DEF IInv, TypeOK, AwaitersGrow
  <1>5. \A q \in Routines \ {r} : next'[q] = next[q] /\ gnext'[q] = gnext[q]
    BY DEF IInv, TypeOK
  <1>6. \A q \in Routines \ {r} : step[q] \in Running => SameControl(q) /\ gnext'[q] = gnext[q]
    BY <1>1, <1>2, <1>5 DEF Running, SameControl
  <1>7. \A c : Settled(c)' <=> Settled(c)
    BY DEF Settled
  <1>8. step'[r] = step[r] /\ pc'[r] = pc[r] /\ next[r] \in Nat /\ gnext[r] \in Nat
    BY <1>1, <1>2 DEF IInv, TypeOK
  <1>9. ASSUME NEW o \in Objects, NEW i \in DOMAIN awaiters[o], awaiters[o][i] # s,
               StillToRun(o, i)
        PROVE  StillToRun(o, i)'
    <2>1. i \in Nat
      <3>1. awaiters[o] \in Seq(Routines \cup Groups)
        BY DEF IInv, TypeOK
      <3>. QED  BY <1>9, <3>1
    <2>2. CASE step[r] = "awaiters"
      <3>1. /\ awaiters[Current(r)][next[r]] = s /\ next'[r] = next[r] + 1
        BY <2>2 DEF IInv, TypeOK
      <3>2. ASSUME NEW n \in 1..Len(Emplaced(r)), o = Emplaced(r)[n], ToRun(r, n, i)
            PROVE  ToRun(r, n, i)'
        <4>1. n = cell[r] => i # next[r]
          BY <1>9, <3>1, <3>2 DEF Current
        <4>. QED  BY <1>7, <1>8, <2>1, <2>2, <3>1, <3>2, <4>1 DEF ToRun
      <3>. QED  BY <1>4, <1>6, <1>7, <1>9, <2>2, <3>2, StillStays
    <2>3. CASE step[r] # "awaiters"
      <3>1. /\ awaiters[GroupOf(r)][gnext[r]] = s /\ gnext'[r] = gnext[r] + 1 /\ next' = next
        BY <2>3 DEF IInv, TypeOK
      <3>2. GroupOf(r)' = GroupOf(r)
        BY <1>8, <3>1 DEF GroupOf, Instr, Current
      <3>3. GroupOf(r) = o /\ i >= gnext[r] =>
               step'[r] \in {"adding", "callback"} /\ GroupOf(r)' = o /\ i >= gnext'[r]
        BY <1>8, <1>9, <2>1, <2>3, <3>1, <3>2
      <3>4. \A n \in 1..Len(Emplaced(r)) : ToRun(r, n, i) => ToRun(r, n, i)'
        BY <1>7, <1>8, <3>1 DEF ToRun
      <3>. QED  BY <1>4, <1>6, <1>7, <1>9, <2>3, <3>3, <3>4, StillStays
    <2>. QED  BY <2>2, <2>3
  <1>10. \A q \in Routines : step'[q] = "suspended" => q # s
    BY <1>2
  <1>. QED  BY <1>3, <1>4, <1>9, <1>10, SuspendedFrame

LEMMA SuspendedResumes ==
    ASSUME IInv, IInv', GInv, SuspendedOK, NEW t \in Threads, NEW r \in Routines,
           RunGroupAwaiter(t, r) \/ RunResumeAwaiter(t, r)
    PROVE  SuspendedOK'
  <1>1. CASE RunResumeAwaiter(t, r)
    <2>1. /\ HasAwaiter(r) /\ step[r] = "awaiters" /\ awaiters[Current(r)][next[r]] \in Routines
          /\ Resume(t, r, awaiters[Current(r)][next[r]])
          /\ next' = [next EXCEPT ![r] = @ + 1]
          /\ UNCHANGED <<cell, gnext, awaiters, pending, state>>
      BY <1>1 DEF RunResumeAwaiter, HasAwaiter, objects
    <2>2. r \in Tasks
      BY <2>1 DEF IInv, ControlOK, RoutineOK
    <2>. PICK s \in Routines : s = awaiters[Current(r)][next[r]]
      BY <2>1
    <2>3. Current(r) \in Objects /\ Suspended(s, Current(r))
      BY <2>1, NextAwaiter DEF Objects
    <2>4. Resume(t, r, s)
      BY <2>1
    <2>. QED  BY <2>1, <2>2, <2>3, <2>4, SuspendedRunAwaiter
  <1>2. CASE RunGroupAwaiter(t, r)
    <2>1. /\ step[r] \in {"adding", "callback"} /\ gnext[r] <= Len(awaiters[GroupOf(r)])
          /\ Resume(t, r, awaiters[GroupOf(r)][gnext[r]])
          /\ gnext' = [gnext EXCEPT ![r] = @ + 1]
          /\ UNCHANGED <<cell, next, awaiters, pending, state>>
      BY <1>2 DEF RunGroupAwaiter, objects
    <2>2. /\ GroupOf(r) \in Groups /\ awaiters[GroupOf(r)][gnext[r]] \in Routines
          /\ Suspended(awaiters[GroupOf(r)][gnext[r]], GroupOf(r))
      BY <2>1, NextGroupAwaiter
    <2>. PICK s \in Routines : s = awaiters[GroupOf(r)][gnext[r]]
      BY <2>2
    <2>3. GroupOf(r) \in Objects /\ Suspended(s, GroupOf(r)) /\ Resume(t, r, s)
      BY <2>1, <2>2 DEF Objects
    <2>. QED  BY <2>1, <2>3, SuspendedRunAwaiter
  <1>. QED  BY <1>1, <1>2

\* The last token of a group leaves all the group's awaiters to be run by r.
LEMMA SuspendedGroupCallback ==
    ASSUME IInv, IInv', GInv, SuspendedOK, NEW t \in Threads, NEW r \in Routines,
           RunGroupCallback(t, r)
    PROVE  SuspendedOK'
  <1>. PICK g : g = GroupOf(r)
    OBVIOUS
  <1>1. /\ step[r] = "awaiters" /\ g \in Groups
        /\ step' = [step EXCEPT ![r] = "callback"]
        /\ pending' = [pending EXCEPT ![g] = pending[g] - 1]
        /\ gnext' = [gnext EXCEPT ![r] = IF pending[g] = 1 THEN 1 ELSE Len(awaiters[g]) + 1]
        /\ UNCHANGED <<pc, cell, next, awaiters, state>>
    BY DEF RunGroupCallback, HasAwaiter, OnTokenReady
  <1>2. g \in Objects /\ pending[g] \in Int
    BY <1>1 DEF Objects, IInv, TypeOK
  <1>3. /\ step'[r] = "callback" /\ \A s \in Routines \ {r} : step'[s] = step[s]
        /\ \A s \in Routines \ {r} : gnext'[s] = gnext[s]
        /\ pending'[g] = pending[g] - 1 /\ \A h \in Groups : h # g => pending'[h] = pending[h]
        /\ pending[g] = 1 => gnext'[r] = 1
    BY <1>1 DEF IInv, TypeOK
  <1>4. \A s \in Routines \ {r} : SameControl(s)
    BY <1>1, <1>3 DEF SameControl
  <1>5. GroupOf(r)' = g
    BY <1>1, <1>3 DEF GroupOf, Current
  <1>6. \A p \in Objects : AwaitersGrow(p)
    BY <1>1 DEF IInv, TypeOK, AwaitersGrow
  <1>7. \A c : Settled(c)' <=> Settled(c)
    BY <1>1 DEF Settled
  <1>8. ASSUME NEW o \in Objects, NEW i \in DOMAIN awaiters[o], StillToRun(o, i)
        PROVE  StillToRun(o, i)'
    <2>1. i \in Nat /\ i >= 1
      <3>1. awaiters[o] \in Seq(Routines \cup Groups)
        BY DEF IInv, TypeOK
      <3>. QED  BY <1>8, <3>1
    <2>2. o \in Groups /\ pending[o] # 0 =>
             \/ pending'[o] # 0
             \/ step'[r] \in {"adding", "callback"} /\ GroupOf(r)' = o /\ i >= gnext'[r]
      BY <1>2, <1>3, <1>5, <2>1
    <2>3. \A n \in 1..Len(Emplaced(r)) : ToRun(r, n, i) => ToRun(r, n, i)'
      BY <1>1, <1>3, <1>7 DEF ToRun
    <2>. QED  BY <1>1, <1>3, <1>4, <1>6, <1>7, <1>8, <2>2, <2>3, StillStays
  <1>9. \A s \in Routines : step'[s] = "suspended" => step[s] = "suspended" /\ pc'[s] = pc[s]
    BY <1>1, <1>3
  <1>. QED  BY <1>6, <1>8, <1>9, SuspendedFrame

LEMMA SuspendedStep ==
    ASSUME IInv, IInv', GInv, Stacks, SuspendedOK, NEW t \in Threads, ThreadStep(t)
    PROVE  SuspendedOK'
  <1>1. ASSUME NEW r \in Routines, top[t] = r, RoutineStep(t, r)
        PROVE  SuspendedOK'
    <2>1. CASE \/ CreateGroup(t, r) \/ Drop(t, r) \/ AddLockToken(t, r)
               \/ AwaitPass(t, r) \/ AwaitBlock(t, r) \/ SpuriousWakeup(t, r)
               \/ MainReturn(t, r) \/ EndTask(t, r) \/ EmplaceDrop(t, r)
               \/ Load(t, r) \/ Store(t, r)
      BY <1>1, <2>1, SuspendedCalmActions
    <2>2. CASE Execute(t, r)
      BY <2>2, SuspendedExecute
    <2>3. CASE AwaitSuspend(t, r)
      BY <2>3, SuspendedAwait
    <2>4. CASE AddLockGroup(t, r) \/ AddUnlock(t, r)
      BY <2>4, SuspendedAddLockGroup, SuspendedAddUnlock
    <2>5. CASE RunGroupAwaiter(t, r) \/ RunResumeAwaiter(t, r)
      BY <2>5, SuspendedResumes
    <2>6. CASE EmplaceLock(t, r) \/ EmplaceUnlock(t, r)
      BY <2>6, SuspendedEmplaceLock, SuspendedEmplaceUnlock
    <2>7. CASE RunGroupCallback(t, r)
      BY <2>7, SuspendedGroupCallback
    <2>8. CASE CallbackUnlock(t, r) \/ CallbackDrop(t, r)
      BY <2>8, SuspendedCallbackUnlock, SuspendedCallbackDrop
    <2>. QED  BY <1>1, <2>1, <2>2, <2>3, <2>4, <2>5, <2>6, <2>7, <2>8 DEF RoutineStep
  <1>. QED  BY <1>1, SuspendedTakeTask DEF ThreadStep

-----------------------------------------------------------------------------
(* The invariant.                                                          *)

LEMMA InitDInv == Init => DInv
  <1>. SUFFICES ASSUME Init PROVE DInv
    OBVIOUS
  <1>1. /\ step[Main] = "run" /\ \A k \in Tasks : step[k] = "new"
    BY Actors DEF Init
  <1>2. ~down
    BY DEF Init
  <1>3. QueuedOK /\ SuspendedOK /\ DrainedOK /\ DownOK
    BY <1>1, <1>2, Actors DEF QueuedOK, SuspendedOK, DrainedOK, DownOK
  <1>4. LeafOK
    BY <1>1 DEF LeafOK
  <1>. QED  BY <1>3, <1>4, InitStacks DEF DInv, Stacks

\* A step that changes nothing but the flag of the teardown.
LEMMA DInvStays ==
    ASSUME IInv, DInv, UNCHANGED <<control, awaiters, state, pending>>, DownOK'
    PROVE  DInv'
  <1>1. \A c : Settled(c)' <=> Settled(c)
    BY DEF Settled
  <1>2. UNCHANGED <<queue, top, caller, pc, step, cell, next, gnext, awaiters, pending>>
    BY DEF control
  <1>3. /\ Active' = Active /\ \A r : Current(r)' = Current(r)
        /\ \A s, o : Suspended(s, o)' <=> Suspended(s, o)
    BY <1>2 DEF Active, Current, Suspended, AtEnd, Instr
  <1>4. \A r : GroupOf(r)' = GroupOf(r)
    BY <1>2, <1>3 DEF GroupOf, Instr
  <1>5. \A k, n, i : ToRun(k, n, i)' <=> ToRun(k, n, i)
    BY <1>1, <1>2 DEF ToRun
  <1>6. \A o, i : StillToRun(o, i)' <=> StillToRun(o, i)
    BY <1>2, <1>4, <1>5 DEF StillToRun
  <1>7. StackOK' /\ TopsOK' /\ MainOK'
    BY <1>2, <1>3 DEF DInv, StackOK, TopsOK, MainOK
  <1>8. QueuedOK' /\ DrainedOK'
    BY <1>2, <1>3 DEF DInv, QueuedOK, DrainedOK
  <1>9. LeafOK'
    BY <1>2 DEF DInv, LeafOK, Starts
  <1>10. SuspendedOK'
    BY <1>2, <1>3, <1>6 DEF DInv, SuspendedOK
  <1>. QED  BY <1>7, <1>8, <1>9, <1>10 DEF DInv

LEMMA StacksStep ==
    ASSUME IInv, GInv, Stacks, NEW t \in Threads, ThreadStep(t)
    PROVE  Stacks'
  BY StacksTakeTask, StacksRoutineStep DEF ThreadStep

LEMMA NextDInv == IInv /\ IInv' /\ GInv /\ DInv /\ [Next]_vars => DInv'
  <1>. SUFFICES ASSUME IInv, IInv', GInv, DInv, [Next]_vars PROVE DInv'
    OBVIOUS
  <1>1. ASSUME NEW t \in Threads, ThreadStep(t)
        PROVE  DInv'
    <2>1. Stacks /\ QueuedOK /\ LeafOK /\ SuspendedOK /\ DrainedOK /\ DownOK
      BY DEF DInv, Stacks
    <2>2. Stacks' /\ QueuedOK' /\ LeafOK'
      BY <1>1, <2>1, StacksStep, QueuedStep, LeafStep
    <2>3. SuspendedOK' /\ DrainedOK' /\ DownOK'
      BY <1>1, <2>1, SuspendedStep, DrainedStep, DownStep
    <2>. QED  BY <2>2, <2>3 DEF DInv, Stacks
  <1>2. CASE Shutdown
    <2>1. /\ step[Main] = "done" /\ queue = <<>> /\ \A w \in Workers : top[w] = Nobody
          /\ UNCHANGED <<control, awaiters, state, pending>>
      BY <1>2 DEF Shutdown, objects
    <2>2. UNCHANGED <<queue, top, step>>
      BY <2>1 DEF control
    <2>3. \A t \in Threads : top[t] = Nobody
      BY <2>1, Actors DEF DInv, DownOK
    <2>4. DownOK'
      BY <2>1, <2>2, <2>3, Actors DEF DownOK
    <2>. QED  BY <2>1, <2>4, DInvStays
  <1>3. CASE UNCHANGED vars
    <2>1. UNCHANGED <<control, awaiters, state, pending>> /\ down' = down
      BY <1>3 DEF vars, objects
    <2>2. DownOK'
      BY <2>1 DEF DInv, DownOK, control
    <2>. QED  BY <2>1, <2>2, DInvStays
  <1>. QED  BY <1>1, <1>2, <1>3 DEF Next, Ended

\* Every run keeps it, together with the invariants it rests on.
THEOREM ShutdownInv == Spec => [](IInv /\ GInv /\ MInv /\ EndOK /\ DInv)
  <1>1. Spec => [](IInv /\ GInv /\ MInv)
    BY MemoryInv
  <1>2. Spec => [](IInv /\ GInv /\ EndOK)
    BY EndInv
  <1>. QED  BY <1>1, <1>2, InitDInv, NextDInv, PTL DEF Spec

-----------------------------------------------------------------------------
(* What is left at the teardown.                                           *)

\* A created object belongs to the routine that awaits it or adds to it.
LEMMA UserCreated ==
    ASSUME NEW o \in Objects, NEW r \in Routines, NEW i \in DOMAIN Code[r],
           Awaits(Code[r][i], o) \/ Adds(Code[r][i], o)
    PROVE  \E n \in DOMAIN Code[r] : n < i /\ Creates(Code[r][n], o)
  <1>1. PICK q \in Routines : \E n, m \in DOMAIN Code[q] : n < m /\ OwnedBy(o, q, n, m)
    BY ProgramAssumption DEF Mentions
  <1>2. PICK n, m \in DOMAIN Code[q] : n < m /\ OwnedBy(o, q, n, m)
    BY <1>1
  <1>3. r = q /\ n < i
    BY <1>2 DEF OwnedBy
  <1>4. Creates(Code[q][n], o)
    BY <1>2 DEF OwnedBy
  <1>. QED  BY <1>2, <1>3, <1>4

\* A task whose cell somebody has come to wait for was started by the same routine.
LEMMA WaiterStarted ==
    ASSUME IInv, GInv, NEW j \in Tasks, NEW n \in 1..Len(Emplaced(j)), NEW r \in Routines,
           NEW i \in DOMAIN Code[r], i <= pc[r],
           Awaits(Code[r][i], Emplaced(j)[n]) \/ Adds(Code[r][i], Emplaced(j)[n])
    PROVE  Starts(r, j) /\ step[j] # "new"
  <1>. PICK o : o = Emplaced(j)[n]
    OBVIOUS
  <1>1. o \in Objects
    BY CellOwner
  <1>2. PICK m \in DOMAIN Code[r] : m < i /\ Creates(Code[r][m], o)
    BY <1>1, UserCreated
  <1>3. /\ Code[r][m].op = "execute" /\ Code[r][m].task = j
        /\ Creates(Code[r][m], Token(j))
    BY <1>2, CellCreation
  <1>4. m < pc[r]
    <2>1. m \in Nat /\ i \in Nat /\ pc[r] \in Nat
      BY CallType DEF IInv, TypeOK
    <2>. QED  BY <1>2, <2>1
  <1>. QED  BY <1>3, <1>4 DEF Starts, GInv, StartsOK

\* No task is on a stack or in the queue, and main waits or has returned.
AtRest ==
    /\ \A k \in Tasks : step[k] \in {"new", "suspended", "done"}
    /\ step[Main] \in {"wait", "done"}

\* Then a routine that has come to an object which is not ready has started a
\* coroutine that waits.
LEMMA WaitsForWaiter ==
    ASSUME IInv, GInv, DInv, AtRest, NEW s \in Routines, pc[s] \in DOMAIN Code[s],
           NEW o \in Objects, Awaits(Code[s][pc[s]], o), ~Ready(o)
    PROVE  \E j \in Tasks : step[j] = "suspended" /\ Starts(s, j)
  <1>3. /\ s \in Routines /\ pc[s] \in DOMAIN Code[s] /\ pc[s] \in Nat
        /\ Awaits(Code[s][pc[s]], o)
    BY DEF IInv, TypeOK
  <1>4. ASSUME NEW j \in Tasks, step[j] \notin {"new", "done"}
        PROVE  step[j] = "suspended"
    BY <1>4 DEF AtRest
  <1>5. CASE o \in Cells
    <2>0. PICK k \in Tasks : \E n \in 1..Len(Emplaced(k)) : o = Emplaced(k)[n]
      BY <1>5, CellOwner
    <2>. PICK n \in 1..Len(Emplaced(k)) : o = Emplaced(k)[n]
      BY <2>0
    <2>1. ~Settled(Emplaced(k)[n])
      BY <1>5 DEF Ready
    <2>2. step[k] # "done"
      BY <2>1 DEF GInv, SettlesOK, Past
    <2>3. Starts(s, k) /\ step[k] # "new"
      BY <1>3, WaiterStarted
    <2>. QED  BY <1>4, <2>2, <2>3
  <1>6. ASSUME o \in Groups, pending[o] # 0
        PROVE  \E j \in Tasks : step[j] = "suspended" /\ Starts(s, j)
    <2>1. PICK j \in Unaccounted(o) : TRUE
      BY <1>6, FS_EmptySet DEF GInv, GroupAccounting
    <2>2. j \in Tasks
      BY <2>1 DEF Unaccounted
    <2>3. PICK m \in 1..Len(awaiters[Token(j)]) : awaiters[Token(j)][m] = o /\ Owed(j, m)
      BY <1>6, <2>1, <2>2, UnaccountedOwed
    <2>4. Token(j) \in Objects /\ m \in DOMAIN awaiters[Token(j)]
      <3>1. Token(j) \in Objects
        BY <2>2, CurrentToken DEF IInv
      <3>2. awaiters[Token(j)] \in Seq(Routines \cup Groups)
        BY <3>1 DEF IInv, TypeOK
      <3>. QED  BY <3>1, <3>2
    <2>5. j \in AddedTo(o)
      <3>1. \E k \in AddedTo(o) : Token(j) = Token(k)
        BY <1>6, <2>3, <2>4 DEF GInv, AwaitersOK
      <3>. QED  BY <3>1 DEF Token
    <2>6. PICK r \in Routines : \E p \in 1..Len(Code[r]) :
              /\ Code[r][p].op = "add" /\ Code[r][p].task = j /\ Code[r][p].obj = o
              /\ p < pc[r] \/ (p = pc[r] /\ step[r] = "adding")
      BY <2>5 DEF AddedTo
    <2>7. PICK p \in 1..Len(Code[r]) :
              /\ Code[r][p].op = "add" /\ Code[r][p].task = j /\ Code[r][p].obj = o
              /\ p < pc[r] \/ (p = pc[r] /\ step[r] = "adding")
      BY <2>6
    <2>8. p \in DOMAIN Code[r] /\ p <= pc[r]
      <3>1. Code[r] \in Seq(Instructions)
        BY CodeAssumption
      <3>2. pc[r] \in Nat
        BY DEF IInv, TypeOK
      <3>. QED  BY <2>7, <3>1, <3>2
    <2>9. Adds(Code[r][p], o) /\ Adds(Code[r][p], Token(j))
      BY <2>7 DEF Adds
    <2>10. r = s
      BY <1>3, <2>8, <2>9, CallOrder
    <2>11. Starts(s, j) /\ step[j] # "new"
      <3>2. PICK n \in 1..Len(Emplaced(j)) : Emplaced(j)[n] = Token(j)
        BY <2>2, TokenCell
      <3>. QED  BY <2>2, <2>8, <2>9, <2>10, <3>2, WaiterStarted
    <2>12. step[j] # "done"
      <3>1. ASSUME step[j] = "done" PROVE FALSE
        <4>1. cell[j] = Len(Emplaced(j))
          BY <2>2, <3>1 DEF GInv, SettlesOK
        <4>2. Current(j) = Token(j)
          BY <2>2, <4>1, CurrentToken DEF IInv
        <4>3. next[j] > Len(awaiters[Token(j)]) /\ m >= next[j]
          BY <2>2, <2>3, <3>1, <4>2 DEF DInv, DrainedOK, Owed, Past
        <4>4. next[j] \in Nat /\ Len(awaiters[Token(j)]) \in Nat
          <5>1. awaiters[Token(j)] \in Seq(Routines \cup Groups)
            BY <2>4 DEF IInv, TypeOK
          <5>2. j \in Routines
            BY <2>2, Actors
          <5>. QED  BY <5>1, <5>2 DEF IInv, TypeOK
        <4>. QED  BY <4>3, <4>4
      <3>. QED  BY <3>1
    <2>. QED  BY <1>4, <2>2, <2>11, <2>12
  <1>. QED  BY <1>5, <1>6 DEF Ready, Objects

\* What a suspended coroutine waits for is then not ready.
LEMMA SuspendedAtRest ==
    ASSUME IInv, GInv, DInv, AtRest, NEW s \in Tasks, step[s] = "suspended"
    PROVE  \E o \in Objects : Suspended(s, o) /\ ~Ready(o)
  <1>0. \A r \in Routines : step[r] \notin Running
    BY Actors DEF AtRest, Running
  <1>1. PICK o \in Objects : \E i \in DOMAIN awaiters[o] : Suspended(s, o) /\ StillToRun(o, i)
    BY Actors DEF DInv, SuspendedOK
  <1>2. PICK i \in DOMAIN awaiters[o] : Suspended(s, o) /\ StillToRun(o, i)
    BY <1>1
  <1>3. CASE o \in Groups
    <2>1. \A k \in Tasks : \A n \in 1..Len(Emplaced(k)) : o # Emplaced(k)[n]
      BY <1>3, CellOwner, CodeAssumption
    <2>2. pending[o] # 0
      BY <1>0, <1>2, <2>1 DEF StillToRun, Running
    <2>. QED  BY <1>2, <1>3, <2>2, CodeAssumption DEF Ready
  <1>4. CASE o \notin Groups
    <2>1. PICK k \in Tasks : \E n \in 1..Len(Emplaced(k)) : o = Emplaced(k)[n] /\ ToRun(k, n, i)
      BY <1>2, <1>4 DEF StillToRun
    <2>2. ~Settled(o)
      BY <1>0, <2>1, Actors DEF ToRun, Running
    <2>. QED  BY <1>2, <1>4, <2>2 DEF Ready, Objects
  <1>. QED  BY <1>3, <1>4

LEMMA RestEnds ==
    ASSUME IInv, GInv, DInv, AtRest
    PROVE  \A k \in Tasks : step[k] \in {"new", "done"}
  <1>. PICK S : S = {k \in Tasks : step[k] = "suspended"}
    OBVIOUS
  <1>1. S = {}
    <2>1. S \in SUBSET {k \in Tasks : step[k] # "new"}
      OBVIOUS
    <2>2. ASSUME S # {} PROVE FALSE
      <3>1. PICK s \in S : \A j \in S : ~Starts(s, j)
        BY <2>1, <2>2 DEF DInv, LeafOK
      <3>2. s \in Tasks /\ s \in Routines /\ step[s] = "suspended"
        BY <3>1, Actors
      <3>3. PICK o \in Objects : Suspended(s, o) /\ ~Ready(o)
        BY <3>2, SuspendedAtRest
      <3>4. pc[s] \in DOMAIN Code[s] /\ Awaits(Code[s][pc[s]], o)
        BY <3>2, <3>3, InCode DEF IInv, Suspended
      <3>. QED  BY <3>1, <3>2, <3>3, <3>4, WaitsForWaiter
    <2>. QED  BY <2>2
  <1>. QED  BY <1>1 DEF AtRest

\* When every task has ended, nothing holds an object any more.
LEMMA RestFree ==
    ASSUME IInv, GInv, MInv, EndOK, DInv, step[Main] = "done",
           \A k \in Tasks : step[k] \in {"new", "done"},
           NEW o \in Objects, Created(o)
    PROVE  refs[o] = 0
  <1>1. ~ProgramHolds(o)
    <2>1. ASSUME NEW r \in Routines, NEW i \in pc[r]..Len(Code[r]),
                 Code[r][i].op = "drop", Code[r][i].obj = o
          PROVE  FALSE
      <3>1. Code[r] \in Seq(Instructions) /\ pc[r] \in Nat \ {0}
        BY CodeAssumption DEF IInv, TypeOK
      <3>2. i \in DOMAIN Code[r] /\ i \in 1..Len(Code[r]) /\ pc[r] <= Len(Code[r])
        BY <3>1
      <3>3. Drops(Code[r][i], o)
        BY <2>1 DEF Drops
      <3>4. PICK q \in Routines : \E n, m \in DOMAIN Code[q] : n < m /\ OwnedBy(o, q, n, m)
        BY <3>2, <3>3, ProgramAssumption DEF Mentions
      <3>5. PICK n, m \in DOMAIN Code[q] : n < m /\ OwnedBy(o, q, n, m)
        BY <3>4
      <3>6. r = q
        BY <3>2, <3>3, <3>5 DEF OwnedBy
      <3>7. PICK p \in Routines : \E j \in DOMAIN Code[p] : Creates(Code[p][j], o) /\ j < pc[p]
        BY DEF Created
      <3>8. PICK j \in DOMAIN Code[p] : Creates(Code[p][j], o) /\ j < pc[p]
        BY <3>7
      <3>9. p = q
        BY <3>5, <3>8 DEF OwnedBy
      <3>10. pc[r] # 1
        BY <3>6, <3>8, <3>9, CallType
      <3>11. step[r] = "done"
        BY <3>10, Actors DEF GInv, StartsOK
      <3>12. AtEnd(r)
        BY <3>11, Actors DEF EndOK, Past
      <3>. QED  BY <3>1, <3>2, <3>12 DEF AtEnd
    <2>. QED  BY <2>1 DEF ProgramHolds
  <1>2. CASE o \in Cells
    <2>1. PICK k \in Tasks : \E n \in 1..Len(Emplaced(k)) : o = Emplaced(k)[n]
      BY <1>2, CellOwner
    <2>2. PICK n \in 1..Len(Emplaced(k)) : o = Emplaced(k)[n]
      BY <2>1
    <2>3. step[k] = "done"
      <3>1. PICK p \in Routines : \E j \in DOMAIN Code[p] : Creates(Code[p][j], o) /\ j < pc[p]
        BY DEF Created
      <3>2. PICK j \in DOMAIN Code[p] : Creates(Code[p][j], o) /\ j < pc[p]
        BY <3>1
      <3>3. Creates(Code[p][j], Token(k))
        BY <2>2, <3>2, CellCreation
      <3>. QED  BY <3>2, <3>3 DEF GInv, StartsOK
    <2>4. ~TaskHolds(k, n)
      BY <2>3 DEF TaskHolds
    <2>. QED  BY <1>1, <2>2, <2>4 DEF MInv, CellRefsOK
  <1>3. CASE o \in Groups
    <2>1. ASSUME NEW k \in Tasks, NEW i \in 1..Len(awaiters[Token(k)]),
                 awaiters[Token(k)][i] = o, Called(k, i)
          PROVE  FALSE
      <3>1. Token(k) \in Objects
        BY CurrentToken DEF IInv
      <3>2. awaiters[Token(k)] \in Seq(Routines \cup Groups) /\ next[k] \in Nat
        BY <3>1, Actors DEF IInv, TypeOK
      <3>3. i \in DOMAIN awaiters[Token(k)]
        BY <3>2
      <3>4. CASE step[k] = "done"
        <4>1. cell[k] = Len(Emplaced(k))
          BY <3>4 DEF GInv, SettlesOK
        <4>2. Current(k) = Token(k)
          BY <4>1, CurrentToken DEF IInv
        <4>3. next[k] > Len(awaiters[Token(k)]) /\ i >= next[k]
          BY <2>1, <3>4, <4>2 DEF DInv, DrainedOK, Called, Past
        <4>. QED  BY <3>2, <4>3
      <3>5. CASE step[k] = "new"
        <4>1. \E j \in AddedTo(o) : Token(k) = Token(j)
          BY <1>3, <2>1, <3>1, <3>3 DEF GInv, AwaitersOK
        <4>2. k \in AddedTo(o)
          BY <4>1 DEF Token
        <4>3. PICK r \in Routines : \E p \in 1..Len(Code[r]) :
                  /\ Code[r][p].op = "add" /\ Code[r][p].task = k
                  /\ p < pc[r] \/ (p = pc[r] /\ step[r] = "adding")
          BY <4>2 DEF AddedTo
        <4>4. PICK p \in 1..Len(Code[r]) :
                  /\ Code[r][p].op = "add" /\ Code[r][p].task = k
                  /\ p < pc[r] \/ (p = pc[r] /\ step[r] = "adding")
          BY <4>3
        <4>5. p \in DOMAIN Code[r] /\ p <= pc[r]
          <5>1. Code[r] \in Seq(Instructions)
            BY CodeAssumption
          <5>2. pc[r] \in Nat
            BY DEF IInv, TypeOK
          <5>. QED  BY <4>4, <5>1, <5>2
        <4>6. Adds(Code[r][p], Token(k))
          BY <4>4 DEF Adds
        <4>8. PICK n \in 1..Len(Emplaced(k)) : Emplaced(k)[n] = Token(k)
          BY TokenCell
        <4>. QED  BY <3>5, <4>5, <4>6, <4>8, WaiterStarted
      <3>. QED  BY <3>4, <3>5
    <2>2. Callbacks(o) = {}
      <3>1. \A x \in Callbacks(o) : FALSE
        BY <1>3, <2>1, CallbacksSet
      <3>. QED  BY <3>1
    <2>. QED  BY <1>1, <1>3, <2>2, FS_EmptySet DEF MInv, GroupRefsOK
  <1>. QED  BY <1>2, <1>3 DEF Objects

LEMMA DownRests ==
    ASSUME IInv, GInv, DInv, down
    PROVE  AtRest /\ step[Main] = "done"
  <1>1. step[Main] = "done" /\ queue = <<>> /\ \A t \in Threads : top[t] = Nobody
    BY DEF DInv, DownOK
  <1>2. Active = {}
    <2>1. ASSUME Active # {} PROVE FALSE
      <3>1. PICK r \in Active : \/ \E t \in Threads : top[t] = r
                                \/ \E s \in Active \ Active : caller[s] = r
        BY <2>1 DEF DInv, TopsOK
      <3>. QED  BY <1>1, <3>1, Actors DEF Active
    <2>. QED  BY <2>1
  <1>3. \A k \in Tasks : step[k] # "queued"
    BY <1>1 DEF DInv, QueuedOK
  <1>. QED  BY <1>1, <1>2, <1>3, Actors DEF AtRest, Active

\* The runtime is torn down only after every task that was started has ended:
\* threadPool.wait() returns when the pool is idle, and no coroutine is then
\* left in the awaiters of anything.
NobodyLeftWaiting == down => \A k \in Tasks : step[k] \in {"new", "done"}

\* ~AsyncRuntime finds no coroutine suspended, whatever the program.
THEOREM NobodyLeft == Spec => []NobodyLeftWaiting
  <1>1. IInv /\ GInv /\ MInv /\ EndOK /\ DInv => NobodyLeftWaiting
    BY DownRests, RestEnds DEF NobodyLeftWaiting
  <1>. QED  BY <1>1, ShutdownInv, PTL

\* What ~AsyncRuntime asserts, "all ref counted objects must be destroyed",
\* holds of every program.
THEOREM AllDestroyed == Spec => []AllDestroyedAtShutdown
  <1>1. ASSUME IInv, GInv, MInv, EndOK, DInv, down, NEW o \in Objects
        PROVE  life[o] # "live"
    <2>1. step[Main] = "done" /\ \A k \in Tasks : step[k] \in {"new", "done"}
      BY <1>1, DownRests, RestEnds
    <2>2. Created(o) => refs[o] = 0
      BY <1>1, <2>1, RestFree
    <2>. QED  BY <1>1, <2>2 DEF MInv, LifeOK
  <1>2. IInv /\ GInv /\ MInv /\ EndOK /\ DInv => AllDestroyedAtShutdown
    BY <1>1 DEF AllDestroyedAtShutdown
  <1>. QED  BY <1>2, ShutdownInv, PTL

-----------------------------------------------------------------------------
(* Mutexes.                                                                *)

\* own[r]: the thread on whose stack r is.  A mutex belongs to the thread of the
\* routine that holds it, and it belongs to nobody if no routine does.
OwnersOK ==
    /\ \E own \in [Routines -> Threads] :
          /\ \A t \in Threads : top[t] # Nobody => own[top[t]] = t
          /\ \A s \in Routines : caller[s] # Nobody => own[caller[s]] = own[s]
          /\ \A r \in Routines : \A o \in Objects : Holds(r, o) => mu[o] = own[r]
    /\ \A o \in Objects : mu[o] # Nobody => \E r \in Routines : Holds(r, o)

\* s has passed its await of o.
Passed(s, o) == \E j \in DOMAIN Code[s] : Awaits(Code[s][j], o) /\ j < pc[s]

\* A group that has been awaited has no pending tokens, and gets no others.
AwaitedOK == \A g \in Groups : \A s \in Routines : Passed(s, g) => pending[g] = 0

\* A routine that has resumed another is running the awaiters of what it has made
\* ready, and the other has passed its await of that.
ResumedOK ==
    \A s \in Routines : caller[s] # Nobody =>
        \/ step[caller[s]] = "awaiters" /\ Passed(s, Current(caller[s]))
        \/ step[caller[s]] = "callback" /\ Passed(s, GroupOf(caller[s]))

LInv == OwnersOK /\ AwaitedOK /\ ResumedOK

\* The steps in which a routine holds mutexes.
Locked == {"addLocked", "adding", "awaiters", "callback", "callbackDrop"}

LEMMA AwaitersStep ==
    ASSUME IInv, GInv, NEW t \in Threads, NEW r \in Routines, RoutineStep(t, r)
    PROVE  \A o \in Objects : AwaitersGrow(o)
  <1>1. CASE awaiters' = awaiters
    BY <1>1 DEF IInv, TypeOK, AwaitersGrow
  <1>2. CASE AwaitSuspend(t, r)
    <2>1. ~AtEnd(r) /\ Instr(r).op = "await"
          /\ awaiters' = [awaiters EXCEPT ![Instr(r).obj] = Append(@, r)]
      BY <1>2 DEF AwaitSuspend, AtCall
    <2>2. pc[r] \in DOMAIN Code[r] /\ Instr(r) = Code[r][pc[r]]
      BY <2>1, CodeAssumption DEF IInv, TypeOK, AtEnd, Instr
    <2>3. Instr(r).obj \in Objects
      BY <2>1, <2>2, CallType
    <2>. QED  BY <2>1, <2>3, LeftInAwaiters DEF IInv
  <1>3. CASE AddLockGroup(t, r)
    BY <1>3, AddStep
  <1>4. CASE ~AwaitSuspend(t, r) /\ ~AddLockGroup(t, r)
    <2>1. awaiters' = awaiters
      BY <1>4 DEF RoutineStep, Execute, CreateGroup, Drop, AddLockToken, AddUnlock,
       RunGroupAwaiter, RunResumeAwaiter, AwaitPass, AwaitBlock, SpuriousWakeup, MainReturn,
       EndTask, EmplaceLock, RunGroupCallback, CallbackUnlock, CallbackDrop, EmplaceUnlock,
       EmplaceDrop, Load, Store, objects
    <2>. QED  BY <1>1, <2>1
  <1>. QED  BY <1>2, <1>3, <1>4

\* What a step of r does to another routine: nothing, or it starts it.
LEMMA OthersStep ==
    ASSUME IInv, GInv, NEW t \in Threads, NEW r \in Routines, RoutineStep(t, r)
    PROVE  \A s \in Routines \ {r} :
              \/ SameControl(s)
              \/ /\ step[s] \in {"new", "suspended"} /\ step'[s] \in {"queued", "run"}
                 /\ pc'[s] >= pc[s]
  <1>1. CASE Execute(t, r)
    <2>. PICK k : k = Instr(r).task
      OBVIOUS
    <2>1. /\ ~AtEnd(r) /\ Instr(r).op = "execute" /\ step' = [step EXCEPT ![k] = "queued"]
          /\ pc' = [pc EXCEPT ![r] = @ + 1] /\ cell' = cell /\ next' = next
      BY <1>1 DEF Execute, AtCall
    <2>2. pc[r] \in DOMAIN Code[r] /\ Instr(r) = Code[r][pc[r]] /\ pc[r] \in Nat
      BY <2>1, CodeAssumption DEF IInv, TypeOK, AtEnd, Instr
    <2>3. k \in Tasks /\ Creates(Code[r][pc[r]], Token(k))
      BY <2>1, <2>2, CallType DEF Creates, Cells
    <2>4. step[k] = "new" /\ k \in Routines
      BY <2>2, <2>3, Actors DEF GInv, StartsOK
    <2>5. \A s \in Routines \ {r} : pc'[s] = pc[s] /\ pc[s] \in Nat
      BY <2>1 DEF IInv, TypeOK
    <2>6. step'[k] = "queued" /\ \A s \in Routines \ {k} : step'[s] = step[s]
      BY <2>1, <2>4 DEF IInv, TypeOK
    <2>. QED  BY <2>1, <2>4, <2>5, <2>6 DEF SameControl
  <1>2. ASSUME NEW s \in Routines, step[s] = "suspended", Resume(t, r, s), s # r,
               cell' = cell, next' = next \/ next' = [next EXCEPT ![r] = @ + 1]
        PROVE  \A q \in Routines \ {r} :
                  \/ SameControl(q)
                  \/ /\ step[q] \in {"new", "suspended"} /\ step'[q] \in {"queued", "run"}
                     /\ pc'[q] >= pc[q]
    <2>1. /\ step'[s] = "run" /\ pc'[s] = pc[s] + 1 /\ pc[s] \in Nat
          /\ \A q \in Routines \ {s} : pc'[q] = pc[q] /\ step'[q] = step[q]
      BY <1>2 DEF Resume, IInv, TypeOK
    <2>2. \A q \in Routines \ {r} : next'[q] = next[q] /\ cell'[q] = cell[q]
      BY <1>2 DEF IInv, TypeOK
    <2>. QED  BY <1>2, <2>1, <2>2 DEF SameControl
  <1>3. CASE RunGroupAwaiter(t, r)
    <2>. PICK s : s = awaiters[GroupOf(r)][gnext[r]]
      OBVIOUS
    <2>1. /\ step[r] \in {"adding", "callback"} /\ gnext[r] <= Len(awaiters[GroupOf(r)])
          /\ Resume(t, r, s) /\ cell' = cell /\ next' = next
      BY <1>3 DEF RunGroupAwaiter
    <2>2. s \in Routines /\ step[s] = "suspended"
      BY <2>1, NextGroupAwaiter DEF Suspended
    <2>. QED  BY <1>2, <2>1, <2>2
  <1>4. CASE RunResumeAwaiter(t, r)
    <2>. PICK s : s = awaiters[Current(r)][next[r]]
      OBVIOUS
    <2>1. /\ HasAwaiter(r) /\ s \in Routines
          /\ Resume(t, r, s) /\ cell' = cell /\ next' = [next EXCEPT ![r] = @ + 1]
      BY <1>4 DEF RunResumeAwaiter
    <2>2. step[s] = "suspended" /\ s # r
      BY <2>1, NextAwaiter DEF Suspended, HasAwaiter
    <2>. QED  BY <1>2, <2>1, <2>2
  <1>5. CASE ~Execute(t, r) /\ ~RunGroupAwaiter(t, r) /\ ~RunResumeAwaiter(t, r)
    <2>1. step' = step \/ \E x : step' = [step EXCEPT ![r] = x]
      BY <1>5 DEF RoutineStep, CreateGroup, Drop, AddLockToken, AddLockGroup, AddUnlock,
         AwaitPass, AwaitBlock, AwaitSuspend, SpuriousWakeup, MainReturn, EndTask, EmplaceLock,
         RunGroupCallback, CallbackUnlock, CallbackDrop, EmplaceUnlock, EmplaceDrop, Load,
         Store, control
    <2>2. pc' = pc \/ \E x : pc' = [pc EXCEPT ![r] = x]
      BY <1>5 DEF RoutineStep, CreateGroup, Drop, AddLockToken, AddLockGroup, AddUnlock,
         AwaitPass, AwaitBlock, AwaitSuspend, SpuriousWakeup, MainReturn, EndTask, EmplaceLock,
         RunGroupCallback, CallbackUnlock, CallbackDrop, EmplaceUnlock, EmplaceDrop, Load,
         Store, control
    <2>3. next' = next \/ \E x : next' = [next EXCEPT ![r] = x]
      BY <1>5 DEF RoutineStep, CreateGroup, Drop, AddLockToken, AddLockGroup, AddUnlock,
         AwaitPass, AwaitBlock, AwaitSuspend, SpuriousWakeup, MainReturn, EndTask, EmplaceLock,
         RunGroupCallback, CallbackUnlock, CallbackDrop, EmplaceUnlock, EmplaceDrop, Load,
         Store, control
    <2>4. cell' = cell \/ \E x : cell' = [cell EXCEPT ![r] = x]
      BY <1>5 DEF RoutineStep, CreateGroup, Drop, AddLockToken, AddLockGroup, AddUnlock,
         AwaitPass, AwaitBlock, AwaitSuspend, SpuriousWakeup, MainReturn, EndTask, EmplaceLock,
         RunGroupCallback, CallbackUnlock, CallbackDrop, EmplaceUnlock, EmplaceDrop, Load,
         Store, control
    <2>. QED  BY <2>1, <2>2, <2>3, <2>4 DEF SameControl, IInv, TypeOK
  <1>. QED  BY <1>1, <1>3, <1>4, <1>5

\* A routine that is started, or starts, holds no mutex.
LEMMA OthersHold ==
    ASSUME IInv, GInv, NEW t \in Threads, NEW r \in Routines, RoutineStep(t, r),
           NEW s \in Routines \ {r}, NEW o \in Objects
    PROVE  Holds(s, o)' <=> Holds(s, o)
  <1>1. CASE SameControl(s)
    BY <1>1, AwaitersStep, HoldsSame
  <1>2. CASE step[s] \in {"new", "suspended"} /\ step'[s] \in {"queued", "run"}
    BY <1>2 DEF Holds
  <1>. QED  BY <1>1, <1>2, OthersStep

\* What a step of r does to the mutexes: those it takes are free and become its
\* thread's, those it releases it held.
MovesMutex(t, r, o) ==
    \/ mu'[o] = mu[o] /\ (Holds(r, o)' <=> Holds(r, o))
    \/ mu[o] = Nobody /\ mu'[o] = t /\ Holds(r, o)'
    \/ Holds(r, o) /\ mu'[o] = Nobody /\ ~Holds(r, o)'

LEMMA LockStep ==
    ASSUME IInv, GInv, NEW t \in Threads, NEW r \in Routines,
           \/ AddLockToken(t, r) \/ AddLockGroup(t, r) \/ EmplaceLock(t, r)
           \/ RunGroupCallback(t, r),
           NEW o \in Objects
    PROVE  MovesMutex(t, r, o)
  <1>0. Holds(r, o) => mu[o] # Nobody
    BY DEF GInv, MutualExclusion
  <1>1. CASE AddLockToken(t, r)
    <2>1. /\ step[r] = "run" /\ mu[Token(Instr(r).task)] = Nobody
          /\ mu' = [mu EXCEPT ![Token(Instr(r).task)] = t]
          /\ step' = [step EXCEPT ![r] = "addLocked"] /\ pc' = pc
      BY <1>1 DEF AddLockToken, AtCall
    <2>2. step'[r] = "addLocked" /\ Instr(r)' = Instr(r)
      BY <2>1 DEF IInv, TypeOK, Instr
    <2>. QED  BY <2>1, <2>2 DEF MovesMutex, Holds, IInv, TypeOK
  <1>2. CASE AddLockGroup(t, r)
    <2>1. /\ step[r] = "addLocked" /\ mu[Instr(r).obj] = Nobody
          /\ mu' = [mu EXCEPT ![Instr(r).obj] = t]
          /\ step' = [step EXCEPT ![r] = "adding"] /\ pc' = pc
      BY <1>2 DEF AddLockGroup
    <2>2. step'[r] = "adding" /\ Instr(r)' = Instr(r)
      BY <2>1 DEF IInv, TypeOK, Instr
    <2>. QED  BY <1>0, <2>1, <2>2 DEF MovesMutex, Holds, IInv, TypeOK
  <1>3. CASE EmplaceLock(t, r)
    <2>1. /\ step[r] = "emplace" /\ mu[Current(r)] = Nobody
          /\ mu' = [mu EXCEPT ![Current(r)] = t]
          /\ step' = [step EXCEPT ![r] = "awaiters"] /\ cell' = cell
      BY <1>3 DEF EmplaceLock
    <2>2. step'[r] = "awaiters" /\ Current(r)' = Current(r)
      BY <2>1 DEF IInv, TypeOK, Current
    <2>. QED  BY <2>1, <2>2 DEF MovesMutex, Holds, IInv, TypeOK
  <1>4. CASE RunGroupCallback(t, r)
    <2>1. /\ step[r] = "awaiters" /\ GroupOf(r) \in Groups /\ mu[GroupOf(r)] = Nobody
          /\ mu' = [mu EXCEPT ![GroupOf(r)] = t]
          /\ step' = [step EXCEPT ![r] = "callback"]
          /\ cell' = cell /\ next' = next /\ awaiters' = awaiters
      BY <1>4 DEF RunGroupCallback, HasAwaiter
    <2>2. step'[r] = "callback" /\ Current(r)' = Current(r)
      BY <2>1 DEF IInv, TypeOK, Current
    <2>3. GroupOf(r)' = GroupOf(r)
      BY <2>1, <2>2 DEF GroupOf
    <2>. QED  BY <1>0, <2>1, <2>2, <2>3 DEF MovesMutex, Holds, IInv, TypeOK
  <1>. QED  BY <1>1, <1>2, <1>3, <1>4

LEMMA UnlockStep ==
    ASSUME IInv, GInv, NEW t \in Threads, NEW r \in Routines,
           AddUnlock(t, r) \/ CallbackUnlock(t, r) \/ EmplaceUnlock(t, r),
           NEW o \in Objects
    PROVE  MovesMutex(t, r, o)
  <1>1. CASE AddUnlock(t, r)
    <2>1. /\ step[r] = "adding" /\ GroupOf(r) = Instr(r).obj
          /\ mu' = [mu EXCEPT ![GroupOf(r)] = Nobody, ![Token(Instr(r).task)] = Nobody]
          /\ step' = [step EXCEPT ![r] = "run"]
      BY <1>1 DEF AddUnlock, GroupOf
    <2>2. step'[r] = "run"
      BY <2>1 DEF IInv, TypeOK
    <2>. QED  BY <2>1, <2>2 DEF MovesMutex, Holds, IInv, TypeOK
  <1>2. CASE CallbackUnlock(t, r)
    <2>1. /\ step[r] = "callback"
          /\ mu' = [mu EXCEPT ![GroupOf(r)] = Nobody]
          /\ step' = [step EXCEPT ![r] = "callbackDrop"] /\ cell' = cell
      BY <1>2 DEF CallbackUnlock
    <2>2. step'[r] = "callbackDrop" /\ Current(r)' = Current(r)
      BY <2>1 DEF IInv, TypeOK, Current
    <2>3. GroupOf(r) \in Groups /\ Current(r) \in Cells
      BY <2>1, GroupOfType, CallbackOnToken, CurrentToken DEF IInv, GInv
    <2>4. GroupOf(r) # Current(r)
      BY <2>3, CodeAssumption
    <2>. QED  BY <2>1, <2>2, <2>4 DEF MovesMutex, Holds, IInv, TypeOK
  <1>3. CASE EmplaceUnlock(t, r)
    <2>1. /\ step[r] = "awaiters"
          /\ mu' = [mu EXCEPT ![Current(r)] = Nobody]
          /\ step' = [step EXCEPT ![r] = "emplaceDrop"]
      BY <1>3 DEF EmplaceUnlock
    <2>2. step'[r] = "emplaceDrop"
      BY <2>1 DEF IInv, TypeOK
    <2>. QED  BY <2>1, <2>2 DEF MovesMutex, Holds, IInv, TypeOK
  <1>. QED  BY <1>1, <1>2, <1>3

LEMMA MutexStep ==
    ASSUME IInv, GInv, NEW t \in Threads, NEW r \in Routines, RoutineStep(t, r),
           NEW o \in Objects
    PROVE  MovesMutex(t, r, o)
  <1>1. CASE \/ Execute(t, r) \/ CreateGroup(t, r) \/ Drop(t, r) \/ AwaitPass(t, r)
             \/ AwaitBlock(t, r) \/ AwaitSuspend(t, r) \/ SpuriousWakeup(t, r)
             \/ MainReturn(t, r) \/ EndTask(t, r) \/ EmplaceDrop(t, r) \/ Load(t, r) \/ Store(t, r)
    <2>1. /\ mu' = mu /\ step[r] \in {"run", "wait", "emplaceDrop"}
          /\ \/ step' = step
             \/ \E x \in {"run", "wait", "suspended", "done", "emplace"} :
                   step' = [step EXCEPT ![r] = x]
             \/ \E k : step' = [step EXCEPT ![k] = "queued"]
      BY <1>1 DEF Execute, CreateGroup, Drop, AwaitPass, AwaitBlock, AwaitSuspend,
         SpuriousWakeup, MainReturn, EndTask, EmplaceDrop, Load, Store, AtCall, control, objects
    <2>2. step'[r] \in {"run", "wait", "suspended", "done", "emplace", "emplaceDrop", "queued"}
      BY <2>1 DEF IInv, TypeOK
    <2>. QED  BY <2>1, <2>2 DEF MovesMutex, Holds
  <1>2. CASE CallbackDrop(t, r)
    <2>1. /\ mu' = mu /\ step[r] = "callbackDrop" /\ cell' = cell
          /\ step' = [step EXCEPT ![r] = "awaiters"]
      BY <1>2 DEF CallbackDrop
    <2>2. step'[r] = "awaiters" /\ Current(r)' = Current(r)
      BY <2>1 DEF IInv, TypeOK, Current
    <2>. QED  BY <2>1, <2>2 DEF MovesMutex, Holds
  <1>3. CASE RunGroupAwaiter(t, r)
    <2>. PICK s : s = awaiters[GroupOf(r)][gnext[r]]
      OBVIOUS
    <2>1. /\ step[r] \in {"adding", "callback"} /\ gnext[r] <= Len(awaiters[GroupOf(r)])
          /\ Resume(t, r, s) /\ mu' = mu /\ cell' = cell /\ next' = next /\ awaiters' = awaiters
      BY <1>3 DEF RunGroupAwaiter, objects
    <2>2. s \in Routines /\ step[s] = "suspended"
      BY <2>1, NextGroupAwaiter DEF Suspended
    <2>3. step'[r] = step[r] /\ pc'[r] = pc[r]
      BY <2>1, <2>2 DEF Resume, IInv, TypeOK
    <2>4. Instr(r)' = Instr(r) /\ Current(r)' = Current(r)
      BY <2>1, <2>3 DEF Instr, Current
    <2>5. GroupOf(r)' = GroupOf(r)
      BY <2>1, <2>3, <2>4 DEF GroupOf
    <2>. QED  BY <2>1, <2>3, <2>4, <2>5 DEF MovesMutex, Holds
  <1>4. CASE RunResumeAwaiter(t, r)
    <2>. PICK s : s = awaiters[Current(r)][next[r]]
      OBVIOUS
    <2>1. /\ HasAwaiter(r) /\ s \in Routines
          /\ Resume(t, r, s) /\ mu' = mu /\ cell' = cell
      BY <1>4 DEF RunResumeAwaiter, objects
    <2>2. step[s] = "suspended" /\ step[r] = "awaiters"
      BY <2>1, NextAwaiter DEF Suspended, HasAwaiter
    <2>3. step'[r] = step[r]
      BY <2>1, <2>2 DEF Resume, IInv, TypeOK
    <2>4. Current(r)' = Current(r)
      BY <2>1 DEF Current
    <2>. QED  BY <2>1, <2>2, <2>3, <2>4 DEF MovesMutex, Holds
  <1>. QED  BY <1>1, <1>2, <1>3, <1>4, LockStep, UnlockStep DEF RoutineStep

\* The three things a step of r does to its thread's stack.
LEMMA StackStep ==
    ASSUME IInv, GInv, NEW t \in Threads, NEW r \in Routines, RoutineStep(t, r)
    PROVE  \/ top' = top /\ caller' = caller
           \/ top' = [top EXCEPT ![t] = caller[r]] /\ caller' = [caller EXCEPT ![r] = Nobody]
           \/ /\ RunGroupAwaiter(t, r) \/ RunResumeAwaiter(t, r)
              /\ \E s \in Routines : \E o \in Objects :
                    /\ Suspended(s, o) /\ pc' = [pc EXCEPT ![s] = @ + 1]
                    /\ top' = [top EXCEPT ![t] = s] /\ caller' = [caller EXCEPT ![s] = r]
                    /\ \/ step[r] = "awaiters" /\ step'[r] = "awaiters"
                          /\ o = Current(r) /\ o = Current(r)'
                       \/ step[r] = "callback" /\ step'[r] = "callback"
                          /\ o = GroupOf(r) /\ o = GroupOf(r)' /\ pending[o] = 0
  <1>1. CASE RunGroupAwaiter(t, r)
    <2>. PICK s, g : s = awaiters[GroupOf(r)][gnext[r]] /\ g = GroupOf(r)
      OBVIOUS
    <2>1. /\ step[r] \in {"adding", "callback"} /\ gnext[r] <= Len(awaiters[g])
          /\ Resume(t, r, s) /\ cell' = cell /\ next' = next /\ awaiters' = awaiters
      BY <1>1 DEF RunGroupAwaiter, objects
    <2>2. s \in Routines /\ g \in Groups /\ Suspended(s, g) /\ step[s] = "suspended"
      BY <2>1, NextGroupAwaiter DEF Suspended
    <2>3. /\ top' = [top EXCEPT ![t] = s] /\ caller' = [caller EXCEPT ![s] = r]
          /\ pc' = [pc EXCEPT ![s] = @ + 1] /\ step' = [step EXCEPT ![s] = "run"]
      BY <2>1 DEF Resume
    <2>4. step'[r] = step[r] /\ pc'[r] = pc[r]
      BY <2>1, <2>2, <2>3 DEF IInv, TypeOK
    <2>5. GroupOf(r)' = g
      BY <2>1, <2>4 DEF GroupOf, Instr, Current
    <2>6. step[r] # "adding"
      <3>1. SUFFICES ASSUME step[r] = "adding" PROVE FALSE
        OBVIOUS
      <3>2. ~AtEnd(r) /\ Instr(r).op = "add" /\ g = Instr(r).obj
        BY <3>1 DEF IInv, ControlOK, RoutineOK, GroupOf
      <3>3. /\ pc[r] \in DOMAIN Code[r] /\ Instr(r) = Code[r][pc[r]]
            /\ pc[s] \in DOMAIN Code[s] /\ Instr(s) = Code[s][pc[s]]
        <4>1. ~AtEnd(s)
          BY <2>2 DEF Suspended
        <4>2. \A q \in {r, s} : ~AtEnd(q) => pc[q] \in DOMAIN Code[q] /\ Instr(q) = Code[q][pc[q]]
          BY <2>2, InCode DEF IInv
        <4>. QED  BY <3>2, <4>1, <4>2
      <3>4. Adds(Code[r][pc[r]], g) /\ Awaits(Code[s][pc[s]], g)
        BY <2>2, <3>2, <3>3 DEF Adds, Suspended
      <3>. QED  BY <2>2, <3>1, <3>3, <3>4, CallOrder DEF Objects
    <2>7. gnext[r] \in DOMAIN awaiters[g] /\ gnext[r] >= gnext[r]
      <3>1. awaiters[g] \in Seq(Routines) /\ gnext[r] \in Nat \ {0}
        BY <2>2 DEF IInv, TypeOK
      <3>. QED  BY <2>1, <3>1
    <2>8. pending[g] = 0
      BY <2>1, <2>7 DEF GInv, GroupResumesOK
    <2>. QED  BY <1>1, <2>1, <2>2, <2>3, <2>4, <2>5, <2>6, <2>8 DEF Objects
  <1>2. CASE RunResumeAwaiter(t, r)
    <2>. PICK s : s = awaiters[Current(r)][next[r]]
      OBVIOUS
    <2>1. HasAwaiter(r) /\ s \in Routines /\ Resume(t, r, s) /\ cell' = cell
      BY <1>2 DEF RunResumeAwaiter
    <2>2. /\ Suspended(s, Current(r)) /\ Current(r) \in Objects
          /\ step[s] = "suspended" /\ step[r] = "awaiters"
      BY <2>1, NextAwaiter DEF Suspended, HasAwaiter, Objects
    <2>3. /\ top' = [top EXCEPT ![t] = s] /\ caller' = [caller EXCEPT ![s] = r]
          /\ pc' = [pc EXCEPT ![s] = @ + 1] /\ step' = [step EXCEPT ![s] = "run"]
      BY <2>1 DEF Resume
    <2>4. step'[r] = "awaiters" /\ Current(r)' = Current(r)
      BY <2>1, <2>2, <2>3 DEF IInv, TypeOK, Current
    <2>. QED  BY <1>2, <2>1, <2>2, <2>3, <2>4
  <1>3. CASE ~RunGroupAwaiter(t, r) /\ ~RunResumeAwaiter(t, r)
    BY <1>3 DEF RoutineStep, Execute, CreateGroup, Drop, AddLockToken, AddLockGroup, AddUnlock,
       AwaitPass, AwaitBlock, AwaitSuspend, SpuriousWakeup, MainReturn, EndTask, EmplaceLock,
       RunGroupCallback, CallbackUnlock, CallbackDrop, EmplaceUnlock, EmplaceDrop, Load,
       Store, control, Leave
  <1>. QED  BY <1>1, <1>2, <1>3

LEMMA OwnersStep ==
    ASSUME IInv, GInv, Stacks, OwnersOK, NEW t \in Threads, NEW r \in Routines, top[t] = r,
           RoutineStep(t, r)
    PROVE  OwnersOK'
  <1>1. PICK own \in [Routines -> Threads] :
          /\ \A u \in Threads : top[u] # Nobody => own[top[u]] = u
          /\ \A s \in Routines : caller[s] # Nobody => own[caller[s]] = own[s]
          /\ \A s \in Routines : \A o \in Objects : Holds(s, o) => mu[o] = own[s]
    BY DEF OwnersOK
  <1>2. own[r] = t /\ t # Nobody /\ r # Nobody
    BY <1>1, Actors
  <1>3. ASSUME NEW o \in Objects, NEW s \in Routines, Holds(s, o)'
        PROVE  mu'[o] = own[s]
    <2>1. CASE s = r
      BY <1>1, <1>2, <1>3, <2>1, MutexStep DEF MovesMutex
    <2>2. CASE s # r
      <3>1. Holds(s, o) /\ mu[o] # Nobody /\ ~Holds(r, o)
        BY <1>3, <2>2, OthersHold DEF GInv, MutualExclusion
      <3>. QED  BY <1>1, <3>1, MutexStep DEF MovesMutex
    <2>. QED  BY <2>1, <2>2
  <1>4. ASSUME NEW o \in Objects, mu'[o] # Nobody
        PROVE  \E s \in Routines : Holds(s, o)'
    <2>1. CASE mu'[o] = mu[o] /\ (Holds(r, o)' <=> Holds(r, o))
      <3>1. PICK s \in Routines : Holds(s, o)
        BY <1>4, <2>1 DEF OwnersOK
      <3>. QED  BY <2>1, <3>1, OthersHold
    <2>. QED  BY <1>4, <2>1, MutexStep DEF MovesMutex
  <1>5. CASE top' = top /\ caller' = caller
    BY <1>1, <1>3, <1>4, <1>5 DEF OwnersOK
  <1>6. CASE /\ top' = [top EXCEPT ![t] = caller[r]]
             /\ caller' = [caller EXCEPT ![r] = Nobody]
    <2>1. top'[t] = caller[r] /\ \A u \in Threads \ {t} : top'[u] = top[u]
      BY <1>6 DEF IInv, TypeOK
    <2>2. caller'[r] = Nobody /\ \A s \in Routines \ {r} : caller'[s] = caller[s]
      BY <1>6 DEF IInv, TypeOK
    <2>3. \A u \in Threads : top'[u] # Nobody => own[top'[u]] = u
      BY <1>1, <1>2, <2>1
    <2>4. \A s \in Routines : caller'[s] # Nobody => own[caller'[s]] = own[s]
      BY <1>1, <2>2
    <2>. QED  BY <1>3, <1>4, <2>3, <2>4 DEF OwnersOK
  <1>7. ASSUME NEW s \in Routines, step[s] = "suspended",
               top' = [top EXCEPT ![t] = s], caller' = [caller EXCEPT ![s] = r]
        PROVE  OwnersOK'
    <2>. DEFINE new == [own EXCEPT ![s] = t]
    <2>1. s \notin Active /\ r \in Active
      BY <1>2, <1>7 DEF Active, Stacks, StackOK
    <2>2. /\ new \in [Routines -> Threads] /\ new[s] = t
          /\ \A q \in Routines \ {s} : new[q] = own[q]
      BY <1>1
    <2>. HIDE DEF new
    <2>3. top'[t] = s /\ \A u \in Threads \ {t} : top'[u] = top[u]
      BY <1>7 DEF IInv, TypeOK
    <2>4. caller'[s] = r /\ \A q \in Routines \ {s} : caller'[q] = caller[q]
      BY <1>7 DEF IInv, TypeOK
    <2>5. /\ \A u \in Threads : top[u] # Nobody => top[u] # s /\ top[u] \in Routines
          /\ \A q \in Routines : caller[q] # Nobody => caller[q] # s /\ caller[q] \in Routines
      BY <2>1 DEF Stacks, StackOK, Active
    <2>6. \A u \in Threads : top'[u] # Nobody => new[top'[u]] = u
      BY <1>1, <2>2, <2>3, <2>5
    <2>7. \A q \in Routines : caller'[q] # Nobody => new[caller'[q]] = new[q]
      BY <1>1, <1>2, <2>1, <2>2, <2>4, <2>5
    <2>8. \A o \in Objects : ~Holds(s, o)'
      BY <1>7, <2>1, OthersHold DEF Holds
    <2>9. \A q \in Routines : \A o \in Objects : Holds(q, o)' => mu'[o] = new[q]
      BY <1>3, <2>2, <2>8
    <2>. QED  BY <1>4, <2>2, <2>6, <2>7, <2>9 DEF OwnersOK
  <1>. QED  BY <1>5, <1>6, <1>7, StackStep DEF Suspended

\* Stacks, holders and mutexes are as they were, except for a routine that has
\* been taken from the queue.
LEMMA TakeTaskLInv ==
    ASSUME IInv, GInv, Stacks, LInv, NEW w \in Workers, TakeTask(w)
    PROVE  LInv'
  <1>. PICK k : k = Head(queue)
    OBVIOUS
  <1>1. /\ queue # <<>> /\ top[w] = Nobody /\ top' = [top EXCEPT ![w] = k]
        /\ step' = [step EXCEPT ![k] = "run"]
        /\ UNCHANGED <<caller, pc, cell, next, gnext, awaiters, mu, pending>>
    BY DEF TakeTask, objects
  <1>2. k \in Tasks /\ step[k] = "queued"
    BY <1>1 DEF IInv, TypeOK, GInv, StartsOK
  <1>3. k \in Routines /\ k \notin Active /\ w \in Threads
    BY <1>2, Actors DEF Active
  <1>4. step'[k] = "run" /\ \A s \in Routines \ {k} : step'[s] = step[s]
    BY <1>1, <1>3 DEF IInv, TypeOK
  <1>5. \A s \in Routines : /\ Current(s)' = Current(s) /\ Instr(s)' = Instr(s)
                            /\ step[s] = "callback" => GroupOf(s)' = GroupOf(s)
                            /\ \A o : Passed(s, o)' <=> Passed(s, o)
    <2>1. \A s \in Routines : /\ Current(s)' = Current(s) /\ Instr(s)' = Instr(s)
                              /\ \A o : Passed(s, o)' <=> Passed(s, o)
      BY <1>1 DEF Current, Instr, Passed
    <2>2. \A s \in Routines : step[s] = "callback" => GroupOf(s)' = GroupOf(s)
      BY <1>1, <1>2, <1>4, <2>1 DEF GroupOf
    <2>. QED  BY <2>1, <2>2
  <1>6. \A s \in Routines : \A o : Holds(s, o)' <=> Holds(s, o)
    <2>1. \A o : ~Holds(k, o) /\ ~Holds(k, o)'
      BY <1>2, <1>4 DEF Holds
    <2>2. ASSUME NEW s \in Routines, NEW o, s # k
          PROVE  Holds(s, o)' <=> Holds(s, o)
      BY <1>4, <1>5, <2>2 DEF Holds
    <2>. QED  BY <2>1, <2>2
  <1>7. OwnersOK'
    <2>1. PICK own \in [Routines -> Threads] :
            /\ \A u \in Threads : top[u] # Nobody => own[top[u]] = u
            /\ \A s \in Routines : caller[s] # Nobody => own[caller[s]] = own[s]
            /\ \A s \in Routines : \A o \in Objects : Holds(s, o) => mu[o] = own[s]
      BY DEF LInv, OwnersOK
    <2>. PICK new : new = [own EXCEPT ![k] = w]
      OBVIOUS
    <2>2. /\ new \in [Routines -> Threads] /\ new[k] = w
          /\ \A s \in Routines \ {k} : new[s] = own[s]
      BY <1>3
    <2>3. top'[w] = k /\ \A u \in Threads \ {w} : top'[u] = top[u]
      BY <1>1, <1>3 DEF IInv, TypeOK
    <2>4. /\ \A u \in Threads : top[u] # Nobody => top[u] # k /\ top[u] \in Routines
          /\ \A s \in Routines : caller[s] # Nobody =>
                s # k /\ caller[s] # k /\ caller[s] \in Routines
      BY <1>3 DEF Stacks, StackOK, Active
    <2>5. \A u \in Threads : top'[u] # Nobody => new[top'[u]] = u
      BY <2>1, <2>2, <2>3, <2>4
    <2>6. \A s \in Routines : caller'[s] # Nobody => new[caller'[s]] = new[s]
      BY <1>1, <2>1, <2>2, <2>4
    <2>7. \A o \in Objects : ~Holds(k, o)
      BY <1>2 DEF Holds
    <2>8. \A s \in Routines : \A o \in Objects : Holds(s, o)' => mu'[o] = new[s]
      BY <1>1, <1>6, <2>1, <2>2, <2>7
    <2>9. \A o \in Objects : mu'[o] # Nobody => \E s \in Routines : Holds(s, o)'
      BY <1>1, <1>6 DEF LInv, OwnersOK
    <2>. QED  BY <2>2, <2>5, <2>6, <2>8, <2>9 DEF OwnersOK
  <1>8. AwaitedOK'
    BY <1>1, <1>5 DEF LInv, AwaitedOK
  <1>9. ResumedOK'
    <2>1. ASSUME NEW s \in Routines, caller'[s] # Nobody
          PROVE  \/ step'[caller'[s]] = "awaiters" /\ Passed(s, Current(caller[s]))'
                 \/ step'[caller'[s]] = "callback" /\ Passed(s, GroupOf(caller[s]))'
      <3>. PICK h : h = caller[s]
        OBVIOUS
      <3>1. caller[s] # Nobody /\ caller'[s] = h /\ h \in Routines \ {k}
        BY <1>1, <1>3, <2>1 DEF Stacks, StackOK, Active
      <3>2. \/ step[h] = "awaiters" /\ Passed(s, Current(h))
            \/ step[h] = "callback" /\ Passed(s, GroupOf(h))
        BY <3>1 DEF LInv, ResumedOK
      <3>3. step'[h] = step[h] /\ Current(h)' = Current(h)
            /\ step[h] = "callback" => GroupOf(h)' = GroupOf(h)
        BY <1>4, <1>5, <3>1
      <3>. QED  BY <1>1, <1>5, <3>1, <3>2, <3>3
    <2>. QED  BY <2>1 DEF ResumedOK
  <1>. QED  BY <1>7, <1>8, <1>9 DEF LInv

\* A group that is about to be called back has a pending token.
LEMMA CallbackPending ==
    ASSUME IInv, GInv, NEW r \in Routines, HasAwaiter(r), GroupOf(r) \in Groups
    PROVE  /\ r \in Tasks /\ Current(r) = Token(r) /\ r \in AddedTo(GroupOf(r))
           /\ pending[GroupOf(r)] # 0
  <1>. PICK g \in Groups : g = GroupOf(r)
    OBVIOUS
  <1>1. /\ step[r] = "awaiters" /\ next[r] <= Len(awaiters[Current(r)])
        /\ awaiters[Current(r)][next[r]] = g
    BY DEF HasAwaiter, GroupOf
  <1>2. r \in Tasks
    BY <1>1 DEF IInv, ControlOK, RoutineOK
  <1>3. Current(r) \in Objects /\ cell[r] \in 1..Len(Emplaced(r)) /\ next[r] \in Nat \ {0}
    BY <1>2, CurrentToken DEF IInv, TypeOK
  <1>4. awaiters[Current(r)] \in Seq(Routines \cup Groups)
    BY <1>3 DEF IInv, TypeOK
  <1>5. next[r] \in DOMAIN awaiters[Current(r)]
        /\ next[r] \in 1..Len(awaiters[Current(r)])
    BY <1>1, <1>3, <1>4
  <1>6. PICK j \in AddedTo(g) : Current(r) = Token(j)
    BY <1>1, <1>3, <1>5 DEF GInv, AwaitersOK
  <1>7. j = r
    <2>1. j \in Tasks
      BY <1>6 DEF AddedTo
    <2>2. Token(j) = Emplaced(j)[Len(Emplaced(j))] /\ Len(Emplaced(j)) \in 1..Len(Emplaced(j))
      BY <2>1, CellOwner, EmplacedCells
    <2>3. Current(r) = Emplaced(r)[cell[r]]
      BY DEF Current
    <2>. QED  BY <1>2, <1>3, <1>6, <2>1, <2>2, <2>3, CellOwner
  <1>8. Owed(r, next[r])
    BY <1>1, <1>3 DEF Owed
  <1>9. r \in Unaccounted(g)
    BY <1>1, <1>2, <1>5, <1>6, <1>7, <1>8, UnaccountedOwed
  <1>10. pending[g] # 0
    BY <1>9, TokensFinite, FS_EmptySet DEF GInv, GroupAccounting
  <1>. QED  BY <1>2, <1>6, <1>7, <1>10

\* A routine goes from call to call, past an await only if that has found its
\* object ready or has been resumed.
LEMMA PcStep ==
    ASSUME IInv, GInv, NEW t \in Threads, NEW r \in Routines, RoutineStep(t, r)
    PROVE  \/ pc' = pc
           \/ /\ pc' = [pc EXCEPT ![r] = @ + 1] /\ ~AtEnd(r) /\ Instr(r).op # "await"
           \/ AwaitPass(t, r)
           \/ RunGroupAwaiter(t, r) \/ RunResumeAwaiter(t, r)
  <1>1. CASE AddUnlock(t, r)
    <2>1. step[r] = "adding" /\ pc' = [pc EXCEPT ![r] = @ + 1]
      BY <1>1 DEF AddUnlock
    <2>2. ~AtEnd(r) /\ Instr(r).op = "add"
      BY <2>1 DEF IInv, ControlOK, RoutineOK
    <2>. QED  BY <2>1, <2>2
  <1>2. CASE ~AddUnlock(t, r)
    BY <1>2 DEF RoutineStep, Execute, CreateGroup, Drop, AddLockToken, AddLockGroup,
       AwaitBlock, AwaitSuspend, SpuriousWakeup, MainReturn, EndTask, EmplaceLock,
       RunGroupCallback, CallbackUnlock, CallbackDrop, EmplaceUnlock, EmplaceDrop, Load,
       Store, control, AtCall
  <1>. QED  BY <1>1, <1>2

LEMMA PassedStep ==
    ASSUME IInv, GInv, NEW t \in Threads, NEW r \in Routines, RoutineStep(t, r),
           NEW s \in Routines, NEW o
    PROVE  /\ Passed(s, o) => Passed(s, o)'
           /\ Passed(s, o)' => \/ Passed(s, o)
                               \/ AwaitPass(t, r) /\ s = r /\ Instr(r).obj = o
                               \/ /\ RunGroupAwaiter(t, r) \/ RunResumeAwaiter(t, r)
                                  /\ Suspended(s, o)
  <1>1. \A j \in DOMAIN Code[s] : j \in Nat
    BY CallType
  <1>2. pc[s] \in Nat \ {0}
    BY DEF IInv, TypeOK
  <1>3. ASSUME pc'[s] = pc[s] + 1, Passed(s, o)', ~Passed(s, o)
        PROVE  pc[s] \in DOMAIN Code[s] /\ Awaits(Code[s][pc[s]], o)
    <2>1. PICK j \in DOMAIN Code[s] : Awaits(Code[s][j], o) /\ j < pc'[s]
      BY <1>3 DEF Passed
    <2>2. j = pc[s]
      BY <1>1, <1>2, <1>3, <2>1 DEF Passed
    <2>. QED  BY <2>1, <2>2
  <1>4. pc'[s] = pc[s] \/ pc'[s] = pc[s] + 1 => (Passed(s, o) => Passed(s, o)')
    BY <1>1, <1>2 DEF Passed
  <1>5. pc'[s] = pc[s] => (Passed(s, o)' => Passed(s, o))
    BY DEF Passed
  <1>6. CASE pc' = pc
    BY <1>4, <1>5, <1>6
  <1>7. CASE pc' = [pc EXCEPT ![r] = @ + 1] /\ ~AtEnd(r) /\ Instr(r).op # "await"
    <2>1. CASE s # r
      <3>1. pc'[s] = pc[s]
        BY <1>7, <2>1 DEF IInv, TypeOK
      <3>. QED  BY <1>4, <1>5, <3>1
    <2>2. CASE s = r
      <3>1. pc'[s] = pc[s] + 1 /\ Code[s][pc[s]].op # "await"
        BY <1>7, <2>2, InCode DEF IInv, TypeOK
      <3>. QED  BY <1>3, <1>4, <3>1 DEF Awaits
    <2>. QED  BY <2>1, <2>2
  <1>8. CASE AwaitPass(t, r)
    <2>1. pc' = [pc EXCEPT ![r] = @ + 1]
      BY <1>8 DEF AwaitPass
    <2>2. CASE s # r
      <3>1. pc'[s] = pc[s]
        BY <2>1, <2>2 DEF IInv, TypeOK
      <3>. QED  BY <1>4, <1>5, <3>1
    <2>3. CASE s = r
      <3>1. pc'[s] = pc[s] + 1
        BY <2>1, <2>3 DEF IInv, TypeOK
      <3>. QED  BY <1>3, <1>4, <1>8, <2>3, <3>1 DEF Awaits, Instr
    <2>. QED  BY <2>2, <2>3
  <1>9. CASE RunGroupAwaiter(t, r) \/ RunResumeAwaiter(t, r)
    <2>1. PICK q \in Routines : \E p \in Objects :
             Suspended(q, p) /\ pc' = [pc EXCEPT ![q] = @ + 1]
      <3>1. \E q \in Routines : \E p : Suspended(q, p) /\ Resume(t, r, q)
        BY <1>9, NextAwaiter, NextGroupAwaiter DEF RunGroupAwaiter, RunResumeAwaiter
      <3>2. PICK q \in Routines : \E p : Suspended(q, p) /\ Resume(t, r, q)
        BY <3>1
      <3>3. PICK p : Suspended(q, p) /\ Resume(t, r, q)
        BY <3>2
      <3>4. p \in Objects
        BY <3>3, InCode, CallType DEF IInv, Suspended, Awaits
      <3>. QED  BY <3>3, <3>4 DEF Resume
    <2>2. CASE s # q
      <3>1. pc'[s] = pc[s]
        BY <2>1, <2>2 DEF IInv, TypeOK
      <3>. QED  BY <1>4, <1>5, <3>1
    <2>3. CASE s = q
      <3>1. pc'[s] = pc[s] + 1 /\ step[s] = "suspended" /\ ~AtEnd(s)
        BY <2>1, <2>3 DEF IInv, TypeOK, Suspended
      <3>2. Instr(s) = Code[s][pc[s]]
        BY DEF Instr
      <3>. QED  BY <1>3, <1>4, <1>9, <3>1, <3>2 DEF Suspended
    <2>. QED  BY <2>2, <2>3
  <1>. QED  BY <1>6, <1>7, <1>8, <1>9, PcStep

LEMMA AwaitedStep ==
    ASSUME IInv, GInv, AwaitedOK, NEW t \in Threads, NEW r \in Routines, RoutineStep(t, r)
    PROVE  AwaitedOK'
  <1>. SUFFICES ASSUME NEW g \in Groups, NEW s \in Routines, Passed(s, g)'
                PROVE  pending'[g] = 0
    BY DEF AwaitedOK
  <1>1. \/ pending' = pending
        \/ AddLockGroup(t, r) \/ RunGroupCallback(t, r)
    BY DEF RoutineStep, Execute, CreateGroup, Drop, AddLockToken, AddUnlock, RunGroupAwaiter,
       RunResumeAwaiter, AwaitPass, AwaitBlock, AwaitSuspend, SpuriousWakeup, MainReturn,
       EndTask, EmplaceLock, CallbackUnlock, CallbackDrop, EmplaceUnlock, EmplaceDrop, Load,
       Store, objects
  <1>2. g \in Objects /\ g \notin Cells
    BY CodeAssumption DEF Objects
  <1>3. CASE Passed(s, g) /\ AddLockGroup(t, r)
    <2>. PICK p : p = Instr(r).obj
      OBVIOUS
    <2>1. /\ step[r] = "addLocked"
          /\ \E x : pending' = [pending EXCEPT ![p] = x]
      BY <1>3 DEF AddLockGroup, AddReady, AddPending, OnTokenReady
    <2>2. ~AtEnd(r) /\ Instr(r).op = "add"
      BY <2>1 DEF IInv, ControlOK, RoutineOK
    <2>3. pc[r] \in DOMAIN Code[r] /\ Adds(Code[r][pc[r]], p)
      BY <2>2, InCode DEF IInv, Adds
    <2>4. PICK j \in DOMAIN Code[s] : Awaits(Code[s][j], g) /\ j < pc[s]
      BY <1>3 DEF Passed
    <2>5. p # g
      <3>1. j \in Nat /\ pc[s] \in Nat /\ pc[r] \in Nat
        BY CallType DEF IInv, TypeOK
      <3>2. SUFFICES ASSUME p = g PROVE FALSE
        OBVIOUS
      <3>3. r = s /\ pc[r] < j
        BY <1>2, <2>3, <2>4, <3>2, CallOrder
      <3>. QED  BY <2>4, <3>1, <3>3
    <2>. QED  BY <1>3, <2>1, <2>5 DEF IInv, TypeOK, AwaitedOK
  <1>4. CASE Passed(s, g) /\ RunGroupCallback(t, r)
    <2>. PICK p : p = GroupOf(r)
      OBVIOUS
    <2>1. /\ HasAwaiter(r) /\ p \in Groups
          /\ \E x : pending' = [pending EXCEPT ![p] = x]
      BY <1>4 DEF RunGroupCallback, OnTokenReady
    <2>2. p # g
      BY <1>4, <2>1, CallbackPending DEF AwaitedOK
    <2>. QED  BY <1>4, <2>1, <2>2 DEF IInv, TypeOK, AwaitedOK
  <1>5. CASE Passed(s, g) /\ pending' = pending
    BY <1>5 DEF AwaitedOK
  <1>6. CASE AwaitPass(t, r) /\ Instr(r).obj = g
    BY <1>2, <1>6 DEF AwaitPass, Ready, objects
  <1>7. CASE (RunGroupAwaiter(t, r) \/ RunResumeAwaiter(t, r)) /\ Suspended(s, g)
    <2>1. pending' = pending
      BY <1>7 DEF RunGroupAwaiter, RunResumeAwaiter, objects
    <2>2. CASE RunResumeAwaiter(t, r)
      <3>. PICK q : q = awaiters[Current(r)][next[r]]
        OBVIOUS
      <3>1. HasAwaiter(r) /\ q \in Routines /\ pc' = [pc EXCEPT ![q] = @ + 1]
        BY <2>2 DEF RunResumeAwaiter, Resume
      <3>2. Current(r) \in Cells /\ Suspended(q, Current(r))
        BY <3>1, NextAwaiter
      <3>3. s # q
        BY <1>2, <1>7, <3>2, SuspendedOnce
      <3>4. pc'[s] = pc[s]
        BY <3>1, <3>3 DEF IInv, TypeOK
      <3>. QED  BY <2>1, <3>4 DEF AwaitedOK, Passed
    <2>3. CASE RunGroupAwaiter(t, r)
      <3>. PICK q, p : q = awaiters[GroupOf(r)][gnext[r]] /\ p = GroupOf(r)
        OBVIOUS
      <3>1. /\ step[r] \in {"adding", "callback"} /\ gnext[r] <= Len(awaiters[p])
            /\ pc' = [pc EXCEPT ![q] = @ + 1]
        BY <2>3 DEF RunGroupAwaiter, Resume
      <3>2. p \in Groups /\ q \in Routines /\ Suspended(q, p)
        BY <3>1, NextGroupAwaiter
      <3>3. CASE s # q
        <4>1. pc'[s] = pc[s]
          BY <3>1, <3>3 DEF IInv, TypeOK
        <4>. QED  BY <2>1, <4>1 DEF AwaitedOK, Passed
      <3>4. CASE s = q
        <4>1. p = g
          BY <1>7, <3>2, <3>4, SuspendedOnce
        <4>2. awaiters[p] \in Seq(Routines) /\ gnext[r] \in Nat \ {0}
          BY <3>2 DEF IInv, TypeOK
        <4>3. gnext[r] \in DOMAIN awaiters[p] /\ gnext[r] >= gnext[r]
          BY <3>1, <4>2
        <4>. QED  BY <2>1, <3>1, <4>1, <4>3 DEF GInv, GroupResumesOK
      <3>. QED  BY <3>3, <3>4
    <2>. QED  BY <1>7, <2>2, <2>3
  <1>. QED  BY <1>1, <1>3, <1>4, <1>5, <1>6, <1>7, PassedStep

LEMMA ResumedStep ==
    ASSUME IInv, GInv, Stacks, ResumedOK, NEW t \in Threads, NEW r \in Routines, top[t] = r,
           RoutineStep(t, r)
    PROVE  ResumedOK'
  <1>1. ASSUME NEW s \in Routines, caller[s] # Nobody, caller'[s] = caller[s]
        PROVE  \/ step'[caller'[s]] = "awaiters" /\ Passed(s, Current(caller[s]))'
               \/ step'[caller'[s]] = "callback" /\ Passed(s, GroupOf(caller[s]))'
    <2>. PICK h \in Routines : h = caller[s]
      BY <1>1 DEF Stacks, StackOK, Active
    <2>1. h # r /\ h \in Active
      BY <1>1, Actors DEF Stacks, StackOK
    <2>2. \/ step[h] = "awaiters" /\ Passed(s, Current(h))
          \/ step[h] = "callback" /\ Passed(s, GroupOf(h))
      BY <1>1 DEF ResumedOK
    <2>3. SameControl(h)
      BY <2>1, OthersStep DEF Active
    <2>4. step'[h] = step[h] /\ Current(h)' = Current(h)
      BY <2>3 DEF SameControl, Current
    <2>5. CASE step[h] = "awaiters" /\ Passed(s, Current(h))
      <3>1. Passed(s, Current(h))'
        BY <2>4, <2>5, PassedStep DEF Passed
      <3>. QED  BY <1>1, <2>4, <2>5, <3>1
    <2>6. CASE step[h] = "callback" /\ Passed(s, GroupOf(h))
      <3>1. GroupOf(h)' = GroupOf(h)
        BY <2>3, <2>6, AwaitersStep, GroupOfSame
      <3>2. Passed(s, GroupOf(h))'
        BY <2>6, <3>1, PassedStep DEF Passed
      <3>. QED  BY <1>1, <2>4, <2>6, <3>2
    <2>. QED  BY <2>2, <2>5, <2>6
  <1>2. CASE top' = top /\ caller' = caller
    BY <1>1, <1>2 DEF ResumedOK
  <1>3. CASE caller' = [caller EXCEPT ![r] = Nobody]
    <2>1. \A s \in Routines : caller'[s] # Nobody => caller'[s] = caller[s]
      BY <1>3 DEF IInv, TypeOK
    <2>. QED  BY <1>1, <2>1 DEF ResumedOK
  <1>4. ASSUME NEW q \in Routines, NEW o \in Objects, Suspended(q, o),
               pc' = [pc EXCEPT ![q] = @ + 1], caller' = [caller EXCEPT ![q] = r],
               \/ step'[r] = "awaiters" /\ o = Current(r)'
               \/ step'[r] = "callback" /\ o = GroupOf(r)'
        PROVE  ResumedOK'
    <2>1. caller'[q] = r /\ \A s \in Routines \ {q} : caller'[s] = caller[s]
      BY <1>4 DEF IInv, TypeOK
    <2>2. pc'[q] = pc[q] + 1 /\ pc[q] \in Nat
      BY <1>4 DEF IInv, TypeOK
    <2>3. pc[q] \in DOMAIN Code[q] /\ Awaits(Code[q][pc[q]], o)
      BY <1>4, InCode DEF IInv, Suspended
    <2>4. pc[q] < pc'[q]
      BY <2>2
    <2>5. Passed(q, o)'
      BY <2>3, <2>4 DEF Passed
    <2>6. \/ step'[caller'[q]] = "awaiters" /\ Passed(q, Current(caller[q]))'
          \/ step'[caller'[q]] = "callback" /\ Passed(q, GroupOf(caller[q]))'
      BY <1>4, <2>1, <2>5
    <2>. QED  BY <1>1, <2>1, <2>6 DEF ResumedOK
  <1>. QED  BY <1>2, <1>3, <1>4, StackStep

LEMMA InitLInv == Init => LInv
  <1>. SUFFICES ASSUME Init PROVE LInv
    OBVIOUS
  <1>1. /\ top[Main] = Main /\ \A t \in Threads \ {Main} : top[t] = Nobody
        /\ \A r \in Routines : caller[r] = Nobody /\ pc[r] = 1
        /\ \A r \in Routines : step[r] \in {"run", "new"}
        /\ \A o \in Objects : mu[o] = Nobody
    BY Actors DEF Init
  <1>2. OwnersOK
    <2>1. PICK own : own = [r \in Routines |-> Main]
      OBVIOUS
    <2>2. own \in [Routines -> Threads] /\ own[Main] = Main
      BY <2>1, Actors
    <2>3. \A r \in Routines : \A o : ~Holds(r, o)
      BY <1>1 DEF Holds
    <2>. QED  BY <1>1, <2>2, <2>3 DEF OwnersOK
  <1>3. \A s \in Routines : \A o : ~Passed(s, o)
    <2>1. \A s \in Routines : \A j \in DOMAIN Code[s] : j \in 1..Len(Code[s])
      BY CallType
    <2>. QED  BY <1>1, <2>1 DEF Passed
  <1>4. AwaitedOK /\ ResumedOK
    BY <1>1, <1>3 DEF AwaitedOK, ResumedOK
  <1>. QED  BY <1>2, <1>4 DEF LInv

LEMMA StutterLInv ==
    ASSUME LInv, UNCHANGED <<control, objects>>
    PROVE  LInv'
  <1>1. UNCHANGED <<top, caller, pc, step, cell, next, awaiters, mu, pending>>
    BY DEF control, objects
  <1>2. \A r : Current(r)' = Current(r) /\ Instr(r)' = Instr(r)
    BY <1>1 DEF Current, Instr
  <1>3. \A r : GroupOf(r)' = GroupOf(r)
    BY <1>1, <1>2 DEF GroupOf
  <1>4. \A r, o : (Holds(r, o)' <=> Holds(r, o)) /\ (Passed(r, o)' <=> Passed(r, o))
    BY <1>1, <1>2, <1>3 DEF Holds, Passed
  <1>5. OwnersOK'
    BY <1>1, <1>4 DEF LInv, OwnersOK
  <1>6. AwaitedOK'
    BY <1>1, <1>4 DEF LInv, AwaitedOK
  <1>7. ResumedOK'
    BY <1>1, <1>2, <1>3, <1>4 DEF LInv, ResumedOK
  <1>. QED  BY <1>5, <1>6, <1>7 DEF LInv

LEMMA NextLInv == IInv /\ GInv /\ Stacks /\ LInv /\ [Next]_vars => LInv'
  <1>. SUFFICES ASSUME IInv, GInv, Stacks, LInv, [Next]_vars PROVE LInv'
    OBVIOUS
  <1>1. ASSUME NEW t \in Threads, NEW r \in Routines, top[t] = r, RoutineStep(t, r)
        PROVE  LInv'
    BY <1>1, OwnersStep, AwaitedStep, ResumedStep DEF LInv
  <1>2. ASSUME NEW t \in Threads, ThreadStep(t)
        PROVE  LInv'
    BY <1>1, <1>2, TakeTaskLInv DEF ThreadStep
  <1>3. CASE Shutdown
    BY <1>3, StutterLInv DEF Shutdown
  <1>4. CASE UNCHANGED vars
    BY <1>4, StutterLInv DEF vars
  <1>. QED  BY <1>2, <1>3, <1>4 DEF Next, Ended

\* Every run keeps it.
THEOREM MutexInv == Spec => [](IInv /\ GInv /\ DInv /\ LInv)
  <1>1. DInv => Stacks
    BY DEF DInv, Stacks
  <1>. QED  BY <1>1, ShutdownInv, InitLInv, NextLInv, PTL DEF Spec

-----------------------------------------------------------------------------
(* No circle of threads.                                                   *)

\* The call that a routine is in, if it wants a mutex or holds one.
LEMMA WantedCall ==
    ASSUME IInv, NEW r \in Routines, NEW o \in Wants(r)
    PROVE  \/ /\ step[r] = "run" /\ pc[r] \in DOMAIN Code[r]
              /\ o \in Cells /\ Adds(Code[r][pc[r]], o)
           \/ /\ step[r] = "addLocked" /\ pc[r] \in DOMAIN Code[r]
              /\ o \in Groups /\ Adds(Code[r][pc[r]], o)
           \/ /\ step[r] \in {"run", "wait"} /\ pc[r] \in DOMAIN Code[r]
              /\ o \in Objects /\ Awaits(Code[r][pc[r]], o)
           \/ step[r] = "emplace" /\ r \in Tasks /\ o \in Cells /\ o = Current(r)
           \/ step[r] = "awaiters" /\ HasAwaiter(r) /\ o \in Groups /\ o = GroupOf(r)
  <1>1. /\ step[r] = "addLocked" => ~AtEnd(r) /\ Instr(r).op = "add"
        /\ step[r] = "wait" => ~AtEnd(r) /\ Instr(r).op = "await"
        /\ step[r] = "emplace" => r \in Tasks
    BY DEF IInv, ControlOK, RoutineOK
  <1>2. ~AtEnd(r) => pc[r] \in DOMAIN Code[r] /\ Instr(r) = Code[r][pc[r]]
    BY InCode DEF IInv
  <1>3. CASE AtCall(r, "add")
    <2>1. o = Token(Instr(r).task)
      BY <1>3 DEF Wants, AtCall, HasAwaiter
    <2>2. step[r] = "run" /\ ~AtEnd(r) /\ Instr(r).op = "add"
      BY <1>3 DEF AtCall
    <2>3. Instr(r).task \in Tasks
      BY <1>2, <2>2, CallType
    <2>. QED  BY <1>2, <2>1, <2>2, <2>3 DEF Adds, Cells
  <1>4. CASE step[r] = "addLocked"
    <2>1. o = Instr(r).obj
      BY <1>4 DEF Wants, AtCall, HasAwaiter
    <2>2. Instr(r).obj \in Groups
      BY <1>1, <1>2, <1>4, CallType
    <2>. QED  BY <1>1, <1>2, <1>4, <2>1, <2>2 DEF Adds
  <1>5. CASE AtCall(r, "await") \/ step[r] = "wait"
    <2>1. ~AtEnd(r) /\ Instr(r).op = "await" /\ step[r] \in {"run", "wait"}
      BY <1>1, <1>5 DEF AtCall
    <2>2. o = Instr(r).obj
      BY <1>5, <2>1 DEF Wants, AtCall, HasAwaiter
    <2>3. Instr(r).obj \in Objects
      BY <1>2, <2>1, CallType
    <2>. QED  BY <1>2, <2>1, <2>2, <2>3 DEF Awaits
  <1>6. CASE step[r] = "emplace"
    <2>1. o = Current(r)
      BY <1>6 DEF Wants, AtCall, HasAwaiter
    <2>. QED  BY <1>1, <1>6, <2>1, CurrentToken DEF IInv
  <1>7. CASE HasAwaiter(r)
    <2>1. step[r] = "awaiters"
      BY <1>7 DEF HasAwaiter
    <2>. QED  BY <1>7, <2>1 DEF Wants, AtCall, HasAwaiter
  <1>8. \/ AtCall(r, "add") \/ step[r] = "addLocked" \/ AtCall(r, "await")
        \/ step[r] = "wait" \/ step[r] = "emplace" \/ HasAwaiter(r)
    BY DEF Wants
  <1>. QED  BY <1>3, <1>4, <1>5, <1>6, <1>7, <1>8

LEMMA HeldObject ==
    ASSUME IInv, GInv, NEW h \in Routines, NEW o \in Objects, Holds(h, o)
    PROVE  /\ o \in Groups => step[h] \in {"adding", "callback"}
           /\ step[h] = "awaiters" => h \in Tasks /\ o = Current(h) /\ o \in Cells
           /\ step[h] = "callback" =>
                 /\ h \in Tasks /\ GroupOf(h) \in Groups /\ h \in AddedTo(GroupOf(h))
                 /\ o = Token(h) \/ o = GroupOf(h)
  <1>0. Groups \cap Cells = {}
    BY CodeAssumption
  <1>1. CASE step[h] \in {"addLocked", "adding"}
    <2>1. ~AtEnd(h) /\ Instr(h).op = "add"
      BY <1>1 DEF IInv, ControlOK, RoutineOK
    <2>2. Instr(h).task \in Tasks
      BY <2>1, InCode, CallType DEF IInv
    <2>3. Token(Instr(h).task) \in Cells
      BY <2>2 DEF Cells
    <2>. QED  BY <1>0, <1>1, <2>3 DEF Holds
  <1>2. CASE step[h] \in {"awaiters", "callback", "callbackDrop"}
    <2>1. h \in Tasks
      BY <1>2 DEF IInv, ControlOK, RoutineOK
    <2>2. Current(h) \in Cells
      BY <2>1, CurrentToken DEF IInv
    <2>3. CASE step[h] = "callback"
      <3>1. /\ Current(h) = Token(h) /\ GroupOf(h) \in Groups
            /\ next[h] <= Len(awaiters[Current(h)])
            /\ awaiters[Current(h)][next[h]] = GroupOf(h)
        BY <2>3, CallbackOnToken, GroupOfType
           DEF IInv, GInv, ControlOK, RoutineOK, GroupOf
      <3>2. Current(h) \in Objects /\ next[h] \in DOMAIN awaiters[Current(h)]
        <4>1. Current(h) \in Objects
          BY <2>1, CurrentToken DEF IInv
        <4>. QED  BY <3>1, <4>1 DEF IInv, TypeOK
      <3>3. PICK j \in AddedTo(GroupOf(h)) : Token(h) = Token(j)
        BY <3>1, <3>2 DEF GInv, AwaitersOK
      <3>4. j = h
        BY <3>3 DEF Token
      <3>. QED  BY <2>1, <2>3, <3>1, <3>3, <3>4 DEF Holds
    <2>. QED  BY <1>0, <1>2, <2>1, <2>2, <2>3 DEF Holds
  <1>. QED  BY <1>1, <1>2 DEF Holds

\* The routine that holds a mutex somebody waits for is not below a routine that
\* it has resumed: it is running, and so has not come to a stop under it.
LEMMA WantedBelow ==
    ASSUME IInv, GInv, LInv, NEW r \in Routines, NEW h \in Routines, NEW s \in Routines,
           NEW o \in Wants(r), Holds(h, o), caller[s] = h
    PROVE  FALSE
  <1>1. o \in Objects /\ Groups \cap Cells = {}
    BY WantedCall, CodeAssumption DEF Objects
  <1>2. \/ step[h] = "awaiters" /\ Passed(s, Current(h))
        \/ step[h] = "callback" /\ Passed(s, GroupOf(h))
    BY Actors DEF LInv, ResumedOK
  <1>3. /\ \A i \in DOMAIN Code[s] : i \in Nat
        /\ pc[s] \in Nat /\ pc[r] \in Nat
    BY CallType DEF IInv, TypeOK
  <1>4. ASSUME Passed(s, o), pc[r] \in DOMAIN Code[r],
               Adds(Code[r][pc[r]], o) \/ Awaits(Code[r][pc[r]], o)
        PROVE  FALSE
    <2>1. PICK j \in DOMAIN Code[s] : Awaits(Code[s][j], o) /\ j < pc[s]
      BY <1>4 DEF Passed
    <2>2. r = s /\ pc[r] <= j
      <3>1. Adds(Code[r][pc[r]], o) => r = s /\ pc[r] < j
        BY <1>1, <1>4, <2>1, CallOrder
      <3>2. Awaits(Code[r][pc[r]], o) => r = s /\ pc[r] = j
        BY <1>1, <1>4, <2>1, CallOrder
      <3>. QED  BY <1>3, <1>4, <3>1, <3>2
    <2>. QED  BY <1>3, <2>1, <2>2
  <1>5. CASE step[r] = "emplace"
    <2>1. r \in Tasks /\ o = Current(r) /\ o \in Cells
      BY <1>1, <1>5, WantedCall
    <2>2. h \in Tasks /\ o = Current(h) /\ step[h] \in {"awaiters", "callback"}
      BY <1>1, <1>2, <2>1, HeldObject, CallbackOnToken DEF GInv
    <2>3. r = h
      <3>1. \A k \in {r, h} : cell[k] \in 1..Len(Emplaced(k)) /\ Current(k) = Emplaced(k)[cell[k]]
        BY <2>1, <2>2 DEF IInv, TypeOK, Current
      <3>2. Emplaced(r)[cell[r]] = Emplaced(h)[cell[h]]
        BY <2>1, <2>2, <3>1
      <3>. QED  BY <2>1, <2>2, <3>1, <3>2, CellOwner
    <2>. QED  BY <1>5, <2>2, <2>3
  <1>6. CASE step[h] = "awaiters" /\ step[r] # "emplace"
    <2>1. Passed(s, o) /\ o \in Cells
      BY <1>1, <1>2, <1>6, HeldObject
    <2>. QED  BY <1>1, <1>4, <1>6, <2>1, WantedCall
  <1>7. CASE step[h] = "callback" /\ o = GroupOf(h) /\ step[r] # "emplace"
    <2>1. Passed(s, o) /\ o \in Groups
      BY <1>1, <1>2, <1>7, HeldObject
    <2>2. HasAwaiter(r) /\ o = GroupOf(r)
      BY <1>4, <1>7, <2>1, WantedCall
    <2>3. pending[o] # 0
      BY <2>1, <2>2, CallbackPending
    <2>. QED  BY <2>1, <2>3 DEF LInv, AwaitedOK
  <1>8. CASE step[h] = "callback" /\ o = Token(h) /\ step[r] # "emplace"
    <2>. PICK g : g = GroupOf(h)
      OBVIOUS
    <2>1. h \in Tasks /\ h \in AddedTo(g) /\ o \in Cells
      BY <1>1, <1>8, HeldObject DEF Cells
    <2>2. PICK q \in Routines : \E i \in 1..Len(Code[q]) :
            /\ Code[q][i].op = "add" /\ Code[q][i].task = h
            /\ i < pc[q] \/ (i = pc[q] /\ step[q] = "adding")
      BY <2>1 DEF AddedTo
    <2>3. PICK i \in 1..Len(Code[q]) :
            /\ Code[q][i].op = "add" /\ Code[q][i].task = h
            /\ i < pc[q] \/ (i = pc[q] /\ step[q] = "adding")
      BY <2>2
    <2>4. i \in DOMAIN Code[q] /\ i \in Nat /\ pc[q] \in Nat
      <3>1. Code[q] \in Seq(Instructions)
        BY CodeAssumption
      <3>2. i \in DOMAIN Code[q] /\ i \in Nat
        BY <3>1
      <3>. QED  BY <3>2 DEF IInv, TypeOK
    <2>5. Adds(Code[q][i], Token(h))
      BY <2>3 DEF Adds
    <2>6. CASE step[r] = "run" /\ pc[r] \in DOMAIN Code[r] /\ Adds(Code[r][pc[r]], o)
      <3>1. q = r
        BY <1>1, <1>8, <2>4, <2>5, <2>6, CallOrder
      <3>2. i = pc[r]
        BY <1>8, <2>1, <2>4, <2>5, <2>6, <3>1, ProgramAssumption
      <3>. QED  BY <2>3, <2>4, <2>6, <3>1, <3>2
    <2>7. CASE pc[r] \in DOMAIN Code[r] /\ Awaits(Code[r][pc[r]], o)
      <3>1. q = r
        BY <1>1, <1>8, <2>4, <2>5, <2>7, CallOrder
      <3>. QED  BY <1>8, <2>1, <2>4, <2>5, <2>7, <3>1, IterationAssumption
    <2>. QED  BY <1>1, <1>8, <2>1, <2>6, <2>7, WantedCall
  <1>. QED  BY <1>1, <1>2, <1>5, <1>6, <1>7, <1>8, HeldObject

\* A thread that waits for another waits for the routine which that one is
\* executing, and which is inside the call that took the mutex.
LEMMA WaitsForTop ==
    ASSUME IInv, GInv, Stacks, LInv, NEW t \in Threads, NEW u \in Threads, WaitsFor(t, u)
    PROVE  \E o \in Wants(top[t]) : o \in Objects /\ top[u] \in Routines /\ Holds(top[u], o)
  <1>. PICK r : r = top[t]
    OBVIOUS
  <1>1. r \in Routines /\ \E o \in Wants(r) : mu[o] = u
    BY DEF WaitsFor, Stacks, StackOK, Active
  <1>2. PICK o \in Wants(r) : mu[o] = u
    BY <1>1
  <1>3. o \in Objects /\ u # Nobody
    BY <1>1, <1>2, WantedCall, Actors DEF Objects
  <1>4. PICK own \in [Routines -> Threads] :
          /\ \A v \in Threads : top[v] # Nobody => own[top[v]] = v
          /\ \A q \in Routines : \A p \in Objects : Holds(q, p) => mu[p] = own[q]
    BY DEF LInv, OwnersOK
  <1>5. PICK h \in Routines : Holds(h, o)
    BY <1>2, <1>3 DEF LInv, OwnersOK
  <1>6. h \in Active
    BY <1>5 DEF Active, Holds
  <1>7. \A q \in Routines : caller[q] # h
    BY <1>1, <1>2, <1>5, WantedBelow
  <1>8. PICK v \in Threads : top[v] = h
    <2>1. {h} \in SUBSET Active /\ {h} # {}
      BY <1>6
    <2>2. \E q \in {h} : \/ \E v \in Threads : top[v] = q
                         \/ \E p \in Active \ {h} : caller[p] = q
      BY <2>1 DEF Stacks, TopsOK
    <2>. QED  BY <1>7, <2>2 DEF Active
  <1>9. v = u
    BY <1>2, <1>3, <1>4, <1>5, <1>8, Actors
  <1>. QED  BY <1>2, <1>3, <1>5, <1>8, <1>9

\* No set of threads can be at a standstill because each of them waits for a
\* mutex of another: a thread that waits while its routine holds a mutex waits
\* for a group's, and a routine that holds a group's wants no other.
THEOREM NoMutexDeadlock == Spec => []NoCircularWait
  <1>1. IInv /\ GInv /\ Stacks /\ LInv => NoCircularWait
    <2>. SUFFICES ASSUME IInv, GInv, Stacks, LInv, NEW S \in (SUBSET Threads) \ {{}},
                         \A t \in S : \E u \in S : WaitsFor(t, u)
                  PROVE  FALSE
      BY DEF NoCircularWait
    <2>0. S # {} /\ S \subseteq Threads
      OBVIOUS
    <2>1. PICK t \in S, u \in S, v \in S, w \in S :
             WaitsFor(t, u) /\ WaitsFor(u, v) /\ WaitsFor(v, w)
      BY <2>0
    <2>. PICK h : h = top[u]
      OBVIOUS
    <2>. PICK k : k = top[v]
      OBVIOUS
    <2>2. h \in Routines /\ \E o \in Objects : Holds(h, o)
      BY <2>0, <2>1, WaitsForTop
    <2>3. PICK p \in Wants(h) : p \in Objects /\ k \in Routines /\ Holds(k, p)
      BY <2>0, <2>1, WaitsForTop
    <2>4. p \in Groups
      <3>1. step[h] \in Locked
        BY <2>2 DEF Holds, Locked
      <3>. QED  BY <2>2, <2>3, <3>1, WantedCall DEF Locked
    <2>5. step[k] \in {"adding", "callback"}
      BY <2>3, <2>4, HeldObject
    <2>6. Wants(k) # {}
      BY <2>0, <2>1, WaitsForTop
    <2>. QED  BY <2>3, <2>5, <2>6, WantedCall
  <1>2. DInv => Stacks
    BY DEF DInv, Stacks
  <1>. QED  BY <1>1, <1>2, MutexInv, PTL

-----------------------------------------------------------------------------
(* No standstill.                                                          *)

\* If no thread can go on, none is at a locked mutex: the one whose routine
\* holds it would have to be at another, and there is no circle.
LEMMA NoneBlocked ==
    ASSUME IInv, GInv, Stacks, LInv, NoCircularWait,
           \A t \in Threads : Blocked(t) \/ Asleep(t) \/ Idle(t)
    PROVE  \A t \in Threads : Asleep(t) \/ Idle(t)
  <1>. PICK S : S = {t \in Threads : Blocked(t)}
    OBVIOUS
  <1>1. ASSUME NEW t \in S
        PROVE  \E u \in S : WaitsFor(t, u)
    <2>1. t \in Threads /\ top[t] # Nobody /\ top[t] \in Routines
      BY DEF Blocked, Stacks, StackOK, Active
    <2>2. PICK o \in Wants(top[t]) : mu[o] # Nobody
      BY DEF Blocked
    <2>3. o \in Objects
      BY <2>1, WantedCall DEF Objects
    <2>. PICK u : u = mu[o]
      OBVIOUS
    <2>4. u \in Threads /\ WaitsFor(t, u)
      BY <2>1, <2>2, <2>3 DEF IInv, TypeOK, WaitsFor
    <2>5. PICK p \in Objects : top[u] \in Routines /\ Holds(top[u], p)
      BY <2>1, <2>4, WaitsForTop
    <2>6. ~Asleep(u) /\ ~Idle(u)
      BY <2>5, Actors DEF Asleep, Idle, Holds
    <2>. QED  BY <2>4, <2>6
  <1>2. S = {}
    <2>1. S \in SUBSET Threads
      OBVIOUS
    <2>2. ASSUME S # {} PROVE FALSE
      <3>1. PICK t \in S : \A u \in S : ~WaitsFor(t, u)
        BY <2>1, <2>2 DEF NoCircularWait
      <3>. QED  BY <1>1, <3>1
    <2>. QED  BY <2>2
  <1>. QED  BY <1>2

\* Main is alone on its thread: no coroutine is resumed inside a call of main's.
LEMMA MainAlone ==
    ASSUME IInv, GInv, Stacks, LInv
    PROVE  /\ \A s \in Routines : caller[s] # Main
           /\ step[Main] # "done" => top[Main] = Main
  <1>1. \A s \in Routines : caller[s] # Main
    <2>1. step[Main] \notin {"awaiters", "callback"}
      BY Actors DEF IInv, ControlOK, RoutineOK
    <2>. QED  BY <2>1, Actors DEF LInv, ResumedOK
  <1>2. ASSUME step[Main] # "done"
        PROVE  top[Main] = Main
    <2>1. {Main} \in SUBSET Active /\ {Main} # {}
      BY <1>2, Actors DEF Stacks, MainOK, Active
    <2>2. \E r \in {Main} : \/ \E t \in Threads : top[t] = r
                            \/ \E s \in Active \ {Main} : caller[s] = r
      BY <2>1 DEF Stacks, TopsOK
    <2>3. PICK t \in Threads : top[t] = Main
      BY <1>1, <2>2 DEF Active
    <2>4. t \notin Workers
      BY <2>3 DEF Stacks, MainOK
    <2>. QED  BY <2>3, <2>4, Actors
  <1>. QED  BY <1>1, <1>2

\* Then only main, if any, is on a stack.
LEMMA OnlyMain ==
    ASSUME IInv, GInv, Stacks, LInv, DownOK, QueuedOK,
           \A w \in Workers : top[w] = Nobody, queue = <<>>,
           step[Main] \in {"wait", "done"}
    PROVE  AtRest
  <1>1. Active \subseteq {Main}
    <2>. PICK S : S = Active \ {Main}
      OBVIOUS
    <2>1. ASSUME S # {} PROVE FALSE
      <3>1. PICK r \in S : \/ \E t \in Threads : top[t] = r
                           \/ \E s \in Active \ S : caller[s] = r
        BY <2>1 DEF Stacks, TopsOK
      <3>2. r \in Routines /\ r # Main /\ r # Nobody
        BY <3>1, Actors DEF Active
      <3>3. top[Main] \in {Main, Nobody}
        BY MainAlone DEF DownOK
      <3>4. \A t \in Threads : top[t] # r
        BY <3>2, <3>3, Actors
      <3>5. caller[Main] = Nobody
        BY DEF Stacks, MainOK
      <3>. QED  BY <3>1, <3>2, <3>4, <3>5
    <2>. QED  BY <2>1
  <1>2. \A k \in Tasks : step[k] # "queued"
    BY DEF QueuedOK
  <1>. QED  BY <1>1, <1>2, Actors DEF AtRest, Active

\* Nor does main sleep: what it sleeps on is not ready, so a coroutine that it
\* has started is suspended, and none is.
LEMMA MainAwake ==
    ASSUME IInv, GInv, DInv, AtRest, NoSleeperOnFinishedGroup, top[Main] = Main
    PROVE  ~Asleep(Main)
  <1>. SUFFICES ASSUME Asleep(Main) PROVE FALSE
    OBVIOUS
  <1>. PICK o : o = Instr(Main).obj
    OBVIOUS
  <1>1. /\ step[Main] = "wait" /\ Main \in waiters[o] /\ Main \in Routines
    BY Actors DEF Asleep
  <1>2. ~AtEnd(Main) /\ Instr(Main).op = "await"
    BY <1>1 DEF IInv, ControlOK, RoutineOK
  <1>3. pc[Main] \in DOMAIN Code[Main] /\ Instr(Main) = Code[Main][pc[Main]]
    BY <1>1, <1>2, InCode DEF IInv
  <1>4. o \in Objects /\ Awaits(Code[Main][pc[Main]], o)
    BY <1>1, <1>2, <1>3, CallType DEF Awaits
  <1>5. ~Ready(o)
    BY <1>1, <1>4 DEF IInv, NoSleeperOnSettledCell, NoSleeperOnFinishedGroup, Ready, Objects
  <1>6. PICK j \in Tasks : step[j] = "suspended"
    BY <1>1, <1>3, <1>4, <1>5, WaitsForWaiter
  <1>. QED  BY <1>6, RestEnds

\* The runtime comes to a standstill only at the end of the program, or when a
\* thread of the pool blocks.
THEOREM NeverStuck == Spec => []NoStandstill
  <1>1. IInv /\ GInv /\ DInv /\ LInv /\ NoCircularWait /\ NoSleeperOnFinishedGroup
           => NoStandstill
    <2>. SUFFICES ASSUME IInv, GInv, DInv, LInv, NoCircularWait, NoSleeperOnFinishedGroup,
                         \A t \in Threads : Blocked(t) \/ Asleep(t) \/ Idle(t),
                         Workers # {}, \A w \in Workers : ~Asleep(w)
                  PROVE  step[Main] = "done" /\ \A k \in Tasks : step[k] \in {"new", "done"}
      BY DEF NoStandstill
    <2>1. Stacks
      BY DEF DInv, Stacks
    <2>2. \A t \in Threads : Asleep(t) \/ Idle(t)
      BY <2>1, NoneBlocked
    <2>3. queue = <<>> /\ \A w \in Workers : top[w] = Nobody
      BY <2>2, Actors DEF Idle
    <2>4. step[Main] # "done" => top[Main] = Main
      BY <2>1, MainAlone
    <2>5. step[Main] \in {"wait", "done"}
      BY <2>2, <2>4, Actors DEF Asleep, Idle
    <2>6. AtRest
      BY <2>1, <2>3, <2>5, OnlyMain DEF DInv
    <2>7. step[Main] = "done"
      <3>1. ASSUME step[Main] # "done" PROVE FALSE
        <4>1. top[Main] = Main /\ ~Asleep(Main)
          BY <2>4, <2>6, <3>1, MainAwake
        <4>. QED  BY <2>2, <4>1, Actors DEF Idle
      <3>. QED  BY <3>1
    <2>. QED  BY <2>6, <2>7, RestEnds
  <1>. QED  BY <1>1, MutexInv, NoMutexDeadlock, NoLostGroupWakeup, PTL

=============================================================================
