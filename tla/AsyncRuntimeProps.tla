--------------------------- MODULE AsyncRuntimeProps ---------------------------
(***************************************************************************)
(* What AsyncRuntime must guarantee to a compiled program.                 *)
(***************************************************************************)
EXTENDS AsyncRuntime

\* Every variable keeps its shape; a task only emplaces cells it has, and only
\* coroutines, never groups, wait in the awaiters of a group.
TypeOK ==
    /\ queue \in Seq(Tasks)
    /\ top \in [Threads -> Routines \cup {Nobody}]
    /\ caller \in [Routines -> Routines \cup {Nobody}]
    /\ pc \in [Routines -> Nat \ {0}]
    /\ step \in [Routines -> Steps]
    /\ cell \in [Routines -> Nat]
    /\ \A k \in Tasks : cell[k] \in 1..Len(Emplaced(k))
    /\ next \in [Routines -> Nat \ {0}]
    /\ gnext \in [Routines -> Nat \ {0}]
    /\ state \in [Cells -> {"unavailable", "available", "error"}]
    /\ refs \in [Objects -> Int]
    /\ life \in [Objects -> {"none", "live", "deleted"}]
    /\ mu \in [Objects -> Threads \cup {Nobody}]
    /\ waiters \in [Objects -> SUBSET Routines]
    /\ awaiters \in [Objects -> Seq(Routines \cup Groups)]
    /\ \A g \in Groups : awaiters[g] \in Seq(Routines)
    /\ pending \in [Groups -> Int]
    /\ errors \in [Groups -> Nat]
    /\ rank \in [Groups -> Nat]
    /\ count \in Nat
    /\ local \in [Routines -> Nat]
    /\ down \in BOOLEAN

\* A routine that is inside a runtime call is inside the call its program
\* names, and a group callback in progress is one the token still holds.
RoutineOK(r) ==
    /\ step[r] \in {"addLocked", "adding"} => ~AtEnd(r) /\ Instr(r).op = "add"
    /\ step[r] = "wait" => ~AtEnd(r) /\ Instr(r).op = "await"
    /\ step[r] \in {"emplace", "awaiters", "callback", "callbackDrop",
                    "emplaceDrop"} => r \in Tasks
    /\ step[r] \in {"callback", "callbackDrop"} =>
          /\ next[r] <= Len(awaiters[Current(r)])
          /\ awaiters[Current(r)][next[r]] \in Groups
ControlOK == \A r \in Routines : RoutineOK(r)

-----------------------------------------------------------------------------
(* Lifetime of the reference counted objects.                              *)

InCall(r, ops) == ~AtEnd(r) /\ Instr(r).op \in ops

\* The objects whose memory the next step of a running routine reads or writes.
Touched(r) ==
    CASE step[r] \in {"run", "wait"} /\ InCall(r, {"await", "drop"}) ->
            {Instr(r).obj}
      [] step[r] \in {"run", "addLocked", "adding"} /\ InCall(r, {"add"}) ->
            {Instr(r).obj, Token(Instr(r).task)}
      [] step[r] \in {"emplace", "emplaceDrop"} -> {Current(r)}
      [] step[r] = "awaiters" ->
            {Current(r)} \cup (IF HasAwaiter(r) THEN {GroupOf(r)} \cap Groups
                                                ELSE {})
      [] step[r] \in {"callback", "callbackDrop"} -> {Current(r), GroupOf(r)}
      [] OTHER -> {}

\* No thread uses a token, a value or a group after the last reference to it
\* was dropped: the reason for the second reference of a cell, for addRef in
\* AddTokenToGroup and for unlocking before dropRef.
NoUseAfterFree == \A r \in Routines : \A o \in Touched(r) : life[o] = "live"

\* Program r still holds the reference it got when it created o.
ProgramHolds(o) ==
    \E r \in Routines : \E i \in pc[r]..Len(Code[r]) :
        /\ Code[r][i].op = "drop"
        /\ Code[r][i].obj = o

\* Task k has not yet given up its own reference to its cell number i.
TaskHolds(k, i) == step[k] # "done" /\ i >= cell[k]

\* Positions of token awaiters that still have to call back group g.
CallbacksAt(k, g) ==
    LET c == Token(k)
        running == step[k] \in {"awaiters", "callback", "callbackDrop",
                                "emplaceDrop", "done"}
                   /\ Current(k) = c
    IN  {i \in 1..Len(awaiters[c]) :
            awaiters[c][i] = g /\ (running => i >= next[k])}

\* A reference count is exactly the number of holders: the creator, the task
\* that will emplace the cell, and the callbacks that will update the group.
RefsAccounted ==
    /\ \A k \in Tasks : \A i \in 1..Len(Emplaced(k)) :
          LET c == Emplaced(k)[i]
          IN  life[c] = "live" =>
                 refs[c] = (IF ProgramHolds(c) THEN 1 ELSE 0)
                           + (IF TaskHolds(k, i) THEN 1 ELSE 0)
    /\ \A g \in Groups : life[g] = "live" =>
          refs[g] = (IF ProgramHolds(g) THEN 1 ELSE 0)
                    + Cardinality(UNION {{k} \X CallbacksAt(k, g) : k \in Tasks})

\* ~AsyncRuntime: "all ref counted objects must be destroyed".
AllDestroyedAtShutdown == down => \A o \in Objects : life[o] # "live"

-----------------------------------------------------------------------------
(* Groups and awaiters.                                                    *)

\* Tokens of g whose completion its counters do not show yet.
Unaccounted(g) ==
    {k \in Tasks : \E i \in CallbacksAt(k, g) :
        ~(step[k] \in {"callback", "callbackDrop"} /\ i = next[k])}

AddedTo(g) ==
    {k \in Tasks : \E r \in Routines : \E i \in 1..Len(Code[r]) :
        /\ Code[r][i].op = "add" /\ Code[r][i].task = k /\ Code[r][i].obj = g
        /\ i < pc[r] \/ (i = pc[r] /\ step[r] = "adding")}

\* A group's counters agree with its tokens whenever they can be read: every
\* token added is either still pending or, if it failed, counted as an error.
GroupAccounting ==
    \A g \in Groups :
        /\ pending[g] = Cardinality(Unaccounted(g))
        /\ rank[g] = Cardinality(AddedTo(g))
        /\ errors[g] = Cardinality((AddedTo(g) \ Unaccounted(g)) \cap Fails)

\* A callback that is about to run finds its coroutine suspended: no coroutine
\* is resumed twice, or resumed while it is still running.
ResumesSuspendedOnly ==
    \A r \in Routines :
        /\ HasAwaiter(r) /\ awaiters[Current(r)][next[r]] \in Routines =>
              step[awaiters[Current(r)][next[r]]] = "suspended"
        /\ /\ step[r] \in {"adding", "callback"}
           /\ gnext[r] <= Len(awaiters[GroupOf(r)])
           => step[awaiters[GroupOf(r)][gnext[r]]] = "suspended"

\* Nobody sleeps on a token or value that has settled, nor on a group with no
\* pending tokens.
NoSleeperOnSettledCell == \A c \in Cells : waiters[c] # {} => ~Settled(c)
NoSleeperOnFinishedGroup == \A g \in Groups : waiters[g] # {} => pending[g] # 0

\* No wakeup is lost: every transition to ready notifies everyone who saw the
\* object not ready, although the test and the wait are in another thread.
NoLostWakeup == NoSleeperOnSettledCell /\ NoSleeperOnFinishedGroup

-----------------------------------------------------------------------------
(* Mutexes.                                                                *)

\* The objects whose mutex the next step of a running routine locks.
Wants(r) ==
    CASE AtCall(r, "add") -> {Token(Instr(r).task)}
      [] step[r] = "addLocked" -> {Instr(r).obj}
      [] AtCall(r, "await") -> {Instr(r).obj}
      [] step[r] = "wait" -> IF r \in waiters[Instr(r).obj] THEN {} ELSE {Instr(r).obj}
      [] step[r] = "emplace" -> {Current(r)}
      [] HasAwaiter(r) -> {GroupOf(r)} \cap Groups
      [] OTHER -> {}

\* Thread t waits for a mutex that thread u owns.
WaitsFor(t, u) == top[t] # Nobody /\ \E o \in Wants(top[t]) : mu[o] = u

\* Threads never wait for each other's mutexes in a circle, nor one for a mutex
\* it owns itself, although coroutines are resumed, and go on to other calls,
\* under the mutexes of the token and of the group that made them ready.
NoCircularWait ==
    \A S \in (SUBSET Threads) \ {{}} : \E t \in S : \A u \in S : ~WaitsFor(t, u)

\* Thread t has come to a locked mutex, sleeps in cv.wait, or has nothing to run.
Blocked(t) == top[t] # Nobody /\ \E o \in Wants(top[t]) : mu[o] # Nobody
Asleep(t) ==
    top[t] # Nobody /\ step[top[t]] = "wait" /\ top[t] \in waiters[Instr(top[t]).obj]
Idle(t) == top[t] = Nobody /\ (t = Main \/ queue = <<>>)

\* If no thread can go on, the program has ended, and no coroutine is left that
\* was started and has not: awaits, pool, mutexes and wakeups never bring it to
\* a standstill. The exception is a pool without threads, or one of whose
\* threads sleeps in an await that blocks.
NoStandstill ==
    /\ \A t \in Threads : Blocked(t) \/ Asleep(t) \/ Idle(t)
    /\ Workers # {} /\ \A w \in Workers : ~Asleep(w)
    => step[Main] = "done" /\ \A k \in Tasks : step[k] \in {"new", "done"}

-----------------------------------------------------------------------------
(* What async.execute, async.await and async.await_all promise.            *)

\* The promise that the runtime implements.
Promise == INSTANCE Futures WITH
    at <- pc,
    started <- {r \in Routines : step[r] # "new"},
    settled <- {c \in Cells : Settled(c)}

\* Every behaviour of the runtime under fair threads is one of Futures: awaits
\* are passed only when all they wait for has settled, cells settle once, and
\* every routine that can go on does.
ImplementsFutures == Promise!Spec

\* The part of it that does not depend on fairness: every step of the runtime
\* is a step of Futures or changes nothing that Futures shows.
FollowsFutures == Promise!Init /\ [][Promise!Next]_(Promise!vars)

-----------------------------------------------------------------------------
(* Progress, with fair threads.                                            *)

\* The program ends: main returns, and then the runtime is torn down.
Terminates == <>down

-----------------------------------------------------------------------------
(* Program data.                                                           *)

\* test/tester/tests/00for_await.ts: `assert(count == 5)` after a loop of five
\* iterations whose bodies do `count++`.
Increments ==
    UNION {{r} \X {i \in 1..Len(Code[r]) : Code[r][i].op = "store"} :
              r \in Routines}
CountsEveryIteration == step[Main] = "done" => count = Cardinality(Increments)

=============================================================================
