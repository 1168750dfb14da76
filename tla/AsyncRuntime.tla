----------------------------- MODULE AsyncRuntime -----------------------------
(***************************************************************************)
(* The runtime that executes `await` and `for await` of a compiled         *)
(* program: lib/TypeScriptAsyncRuntime/AsyncRuntime.cpp, the same code as  *)
(* lib/TypeScriptRuntime/AsyncRuntime.cpp.                                 *)
(*                                                                         *)
(* A routine is the compiled main function or the coroutine of one         *)
(* async.execute region (a task); Code[r] is the sequence of runtime calls *)
(* it makes, in the order the compiler emits them (module AsyncLowering).  *)
(* A thread runs the routine on top of its stack.  A coroutine that awaits *)
(* an object which is not ready leaves its thread and is resumed later by  *)
(* the thread that makes the object ready, inside that thread's own call   *)
(* and under the mutex that call holds.  A cell is an async.token or an    *)
(* async.value: the two structs and their functions are the same code.     *)
(***************************************************************************)
EXTENDS Integers, Sequences, FiniteSets

CONSTANTS
    Main,       \* the main routine; also names the thread that runs it
    Tasks,      \* the async.execute regions the program starts
    Workers,    \* threads of the llvm::ThreadPool
    Groups,     \* async.group objects
    HasValue,   \* tasks whose async.execute yields a value
    Fails,      \* tasks that end in the error state
    Code,       \* Code[r]: the runtime calls of routine r
    Nobody      \* no routine, no owner

Routines == {Main} \cup Tasks
Threads  == {Main} \cup Workers
Token(k) == <<"token", k>>
Value(k) == <<"value", k>>
Cells    == {Token(k) : k \in Tasks} \cup {Value(k) : k \in HasValue}
Objects  == Cells \cup Groups

Instructions ==
         [op : {"execute"}, task : Tasks]
    \cup [op : {"createGroup"}, obj : Groups]
    \cup [op : {"add"}, task : Tasks, obj : Groups]
    \cup [op : {"await"}, obj : Objects, how : {"block", "resume"}]
    \cup [op : {"drop"}, obj : Objects]
    \cup [op : {"load", "store"}]

\* The actors are distinct, and only a coroutine can suspend itself.
ASSUME CodeAssumption ==
    /\ HasValue \subseteq Tasks
    /\ Fails \subseteq Tasks
    /\ Main \notin Tasks \cup Workers
    /\ Nobody \notin Routines \cup Threads
    /\ Groups \cap Routines = {}
    /\ Groups \cap Cells = {}
    /\ Code \in [Routines -> Seq(Instructions)]
    /\ \A i \in DOMAIN Code[Main] :
          Code[Main][i].op = "await" => Code[Main][i].how = "block"
    /\ IsFiniteSet(Tasks)

\* What a runtime call does to an object o of the program.
Creates(call, o) ==
    \/ call.op = "execute" /\ o \in {Token(call.task), Value(call.task)} \cap Cells
    \/ call.op = "createGroup" /\ o = call.obj
Adds(call, o) == call.op = "add" /\ o \in {call.obj, Token(call.task)}
Awaits(call, o) == call.op = "await" /\ o = call.obj
Drops(call, o) == call.op = "drop" /\ o = call.obj

\* Routine r makes all the calls about o: its creation is call n and its drop
\* call m; in between, tokens join a group before the await that waits for it.
OwnedBy(o, r, n, m) ==
    /\ \A s \in Routines : \A i \in DOMAIN Code[s] :
          /\ Creates(Code[s][i], o) <=> s = r /\ i = n
          /\ Drops(Code[s][i], o) <=> s = r /\ i = m
          /\ Adds(Code[s][i], o) \/ Awaits(Code[s][i], o) => s = r /\ n < i /\ i < m
    /\ \A i, j \in DOMAIN Code[r] :
          Awaits(Code[r][i], o) =>
             /\ Adds(Code[r][j], o) => j < i
             /\ Awaits(Code[r][j], o) => i = j

Mentions(call, o) ==
    Creates(call, o) \/ Adds(call, o) \/ Awaits(call, o) \/ Drops(call, o)

\* The programs that AsyncLowering emits: an object is a result of one async
\* operation, used where it was made, awaited at most once and dropped after its
\* last use; a token is added to at most one group.
ASSUME ProgramAssumption ==
    /\ \A o \in Objects :
          \/ \E r \in Routines : \E n, m \in DOMAIN Code[r] : n < m /\ OwnedBy(o, r, n, m)
          \/ \A r \in Routines : \A i \in DOMAIN Code[r] : ~Mentions(Code[r][i], o)
    /\ \A k \in Tasks : \A r \in Routines : \A i, j \in DOMAIN Code[r] :
          Adds(Code[r][i], Token(k)) /\ Adds(Code[r][j], Token(k)) => i = j

\* The token of an iteration only joins the group of its loop: the program
\* awaits the group, never the token.
ASSUME IterationAssumption ==
    \A k \in Tasks : \A r \in Routines : \A i, j \in DOMAIN Code[r] :
        ~(Adds(Code[r][i], Token(k)) /\ Awaits(Code[r][j], Token(k)))

VARIABLES
    queue,     \* tasks handed to the thread pool and not yet taken
    top,       \* top[t]: the routine thread t is executing
    caller,    \* caller[r]: the routine whose call resumed r on its thread
    pc,        \* pc[r]: index of the runtime call r is in, or about to make
    step,      \* step[r]: how far r is inside that call
    cell,      \* cell[k]: which of its cells the ending task k is emplacing
    next,      \* next[k]: next awaiter of that cell to be run
    gnext,     \* gnext[r]: next awaiter of the group r is updating
    state,     \* state[c]: StateEnum of a cell
    refs,      \* refs[o]: refCount
    life,      \* life[o]: not yet created, live, or deleted
    mu,        \* mu[o]: the thread that owns the object's mutex
    waiters,   \* waiters[o]: routines blocked in cv.wait on the object
    awaiters,  \* awaiters[o]: the callbacks to run when o becomes ready
    pending,   \* pendingTokens of a group
    errors,    \* numErrors of a group
    rank,      \* rank of a group
    count,     \* a variable of the program that the loop bodies increment
    local,     \* local[r]: the value r loaded from it
    down       \* ~AsyncRuntime has waited for the pool

control == <<queue, top, caller, pc, step, cell, next, gnext>>
objects == <<state, refs, life, mu, waiters, awaiters, pending, errors, rank>>
data    == <<count, local>>
vars    == <<control, objects, data, down>>

Steps == {"new", "queued", "run", "wait", "suspended", "addLocked", "adding",
          "emplace", "awaiters", "callback", "callbackDrop", "emplaceDrop",
          "done"}

-----------------------------------------------------------------------------
(* The call a routine is in, and the objects it works on.                  *)

AtEnd(r)   == pc[r] > Len(Code[r])
Instr(r)   == Code[r][pc[r]]
AtCall(r, op) == ~AtEnd(r) /\ step[r] = "run" /\ Instr(r).op = op

Settled(c) == state[c] \in {"available", "error"}
Ready(o)   == IF o \in Cells THEN Settled(o) ELSE pending[o] = 0

\* The outlined coroutine stores its results first and its token last.
Emplaced(k) == IF k \in HasValue THEN <<Value(k), Token(k)>> ELSE <<Token(k)>>
Current(k)  == Emplaced(k)[cell[k]]

\* The group whose counters r is updating: in its add call, or in the
\* callback that an earlier add call left with the token r is emplacing.
GroupOf(r) == IF step[r] \in {"addLocked", "adding"} THEN Instr(r).obj
              ELSE awaiters[Current(r)][next[r]]

-----------------------------------------------------------------------------
(* RefCounted                                                              *)

Create(O, n) ==
    /\ life' = [o \in Objects |-> IF o \in O THEN "live" ELSE life[o]]
    /\ refs' = [o \in Objects |-> IF o \in O THEN n ELSE refs[o]]

\* Mutant: the object is deleted one reference too late, so never.
DropRefLate(o) ==
    /\ refs' = [refs EXCEPT ![o] = @ - 1]
    /\ life' = [life EXCEPT ![o] = IF refs[o] = 0 THEN "deleted" ELSE @]

DropRef(o) ==
    /\ refs' = [refs EXCEPT ![o] = @ - 1]
    /\ life' = [life EXCEPT ![o] = IF refs[o] = 1 THEN "deleted" ELSE @]

-----------------------------------------------------------------------------
(* Threads and stacks                                                      *)

Init ==
    /\ queue = <<>>
    /\ top = [t \in Threads |-> IF t = Main THEN Main ELSE Nobody]
    /\ caller = [r \in Routines |-> Nobody]
    /\ pc = [r \in Routines |-> 1]
    /\ step = [r \in Routines |-> IF r = Main THEN "run" ELSE "new"]
    /\ cell = [r \in Routines |-> 1]
    /\ next = [r \in Routines |-> 1]
    /\ gnext = [r \in Routines |-> 1]
    /\ state = [c \in Cells |-> "unavailable"]
    /\ refs = [o \in Objects |-> 0]
    /\ life = [o \in Objects |-> "none"]
    /\ mu = [o \in Objects |-> Nobody]
    /\ waiters = [o \in Objects |-> {}]
    /\ awaiters = [o \in Objects |-> <<>>]
    /\ pending = [g \in Groups |-> 0]
    /\ errors = [g \in Groups |-> 0]
    /\ rank = [g \in Groups |-> 0]
    /\ count = 0
    /\ local = [r \in Routines |-> 0]
    /\ down = FALSE

\* A pool thread takes the oldest task and runs its coroutine.
TakeTask(w) ==
    /\ top[w] = Nobody
    /\ queue # <<>>
    /\ queue' = Tail(queue)
    /\ top' = [top EXCEPT ![w] = Head(queue)]
    /\ step' = [step EXCEPT ![Head(queue)] = "run"]
    /\ UNCHANGED <<caller, pc, cell, next, gnext, objects, data, down>>

\* r leaves thread t: control returns to the call that resumed it.
Leave(t, r) ==
    /\ top' = [top EXCEPT ![t] = caller[r]]
    /\ caller' = [caller EXCEPT ![r] = Nobody]

\* Thread t, running r, resumes the suspended coroutine s inside r's call.
Resume(t, r, s) ==
    /\ top' = [top EXCEPT ![t] = s]
    /\ caller' = [caller EXCEPT ![s] = r]
    /\ pc' = [pc EXCEPT ![s] = @ + 1]
    /\ step' = [step EXCEPT ![s] = "run"]

-----------------------------------------------------------------------------
(* async.execute: the cells are created with one reference for the caller  *)
(* and one for the task, and the coroutine goes to the pool.               *)

Execute(t, r) ==
    /\ AtCall(r, "execute")
    /\ LET k == Instr(r).task
           O == {c \in Cells : c \in {Token(k), Value(k)}}
       IN  /\ Create(O, 2)
           /\ queue' = Append(queue, k)
           /\ step' = [step EXCEPT ![k] = "queued"]
    /\ pc' = [pc EXCEPT ![r] = @ + 1]
    /\ UNCHANGED <<top, caller, cell, next, gnext, state, mu, waiters, awaiters,
                   pending, errors, rank, data, down>>

CreateGroup(t, r) ==
    /\ AtCall(r, "createGroup")
    /\ Create({Instr(r).obj}, 1)
    /\ pc' = [pc EXCEPT ![r] = @ + 1]
    /\ UNCHANGED <<queue, top, caller, step, cell, next, gnext, state, mu,
                   waiters, awaiters, pending, errors, rank, data, down>>

Drop(t, r) ==
    /\ AtCall(r, "drop")
    /\ DropRef(Instr(r).obj)
    /\ pc' = [pc EXCEPT ![r] = @ + 1]
    /\ UNCHANGED <<queue, top, caller, step, cell, next, gnext, state, mu,
                   waiters, awaiters, pending, errors, rank, data, down>>

-----------------------------------------------------------------------------
(* onTokenReady, run by r under the group's mutex: `was` is pendingTokens  *)
(* before the decrement.  The last token wakes the blocked threads and     *)
(* makes r run the group's awaiters; otherwise there is nothing to run.    *)

\* Mutants: an error is counted only for the last token; the condition
\* variable is not notified.
OnTokenReadyLosesErrors(r, c, g, was) ==
    /\ pending' = [pending EXCEPT ![g] = was - 1]
    /\ errors' = [errors EXCEPT ![g] =
                     IF state[c] = "error" /\ was = 1 THEN @ + 1 ELSE @]
    /\ waiters' = [waiters EXCEPT ![g] = IF was = 1 THEN {} ELSE @]
    /\ gnext' = [gnext EXCEPT ![r] =
                    IF was = 1 THEN 1 ELSE Len(awaiters[g]) + 1]
OnTokenReadySilent(r, c, g, was) ==
    /\ pending' = [pending EXCEPT ![g] = was - 1]
    /\ errors' = [errors EXCEPT ![g] = IF state[c] = "error" THEN @ + 1 ELSE @]
    /\ gnext' = [gnext EXCEPT ![r] =
                    IF was = 1 THEN 1 ELSE Len(awaiters[g]) + 1]
    /\ UNCHANGED waiters
OnTokenReady(r, c, g, was) ==
    /\ pending' = [pending EXCEPT ![g] = was - 1]
    /\ errors' = [errors EXCEPT ![g] = IF state[c] = "error" THEN @ + 1 ELSE @]
    /\ waiters' = [waiters EXCEPT ![g] = IF was = 1 THEN {} ELSE @]
    /\ gnext' = [gnext EXCEPT ![r] =
                    IF was = 1 THEN 1 ELSE Len(awaiters[g]) + 1]

(* mlirAsyncRuntimeAddTokenToGroup: token mutex, group mutex, then the     *)
(* size grows by one and the token is either accounted for at once or      *)
(* leaves a callback, with a reference to the group, in its awaiters.      *)

AddLockToken(t, r) ==
    /\ AtCall(r, "add")
    /\ mu[Token(Instr(r).task)] = Nobody
    /\ mu' = [mu EXCEPT ![Token(Instr(r).task)] = t]
    /\ step' = [step EXCEPT ![r] = "addLocked"]
    /\ UNCHANGED <<queue, top, caller, pc, cell, next, gnext, state, refs, life,
                   waiters, awaiters, pending, errors, rank, data, down>>

\* Mutant: the size grows only for tokens that are not ready.
AddReadyNoGrow(r, c, g) ==
    /\ Settled(c)
    /\ OnTokenReady(r, c, g, pending[g])
    /\ UNCHANGED <<refs, awaiters>>

AddReady(r, c, g) ==
    /\ Settled(c)
    /\ OnTokenReady(r, c, g, pending[g] + 1)
    /\ UNCHANGED <<refs, awaiters>>

\* Mutant: the callback does not keep the group alive.
AddPendingNoRef(r, c, g) ==
    /\ ~Settled(c)
    /\ pending' = [pending EXCEPT ![g] = @ + 1]
    /\ awaiters' = [awaiters EXCEPT ![c] = Append(@, g)]
    /\ gnext' = [gnext EXCEPT ![r] = Len(awaiters[g]) + 1]
    /\ UNCHANGED <<errors, waiters, refs>>

AddPending(r, c, g) ==
    /\ ~Settled(c)
    /\ pending' = [pending EXCEPT ![g] = @ + 1]
    /\ refs' = [refs EXCEPT ![g] = @ + 1]
    /\ awaiters' = [awaiters EXCEPT ![c] = Append(@, g)]
    /\ gnext' = [gnext EXCEPT ![r] = Len(awaiters[g]) + 1]
    /\ UNCHANGED <<errors, waiters>>

AddLockGroup(t, r) ==
    /\ step[r] = "addLocked"
    /\ LET c == Token(Instr(r).task)
           g == Instr(r).obj
       IN  /\ mu[g] = Nobody
           /\ mu' = [mu EXCEPT ![g] = t]
           /\ rank' = [rank EXCEPT ![g] = @ + 1]
           /\ AddReady(r, c, g) \/ AddPending(r, c, g)
    /\ step' = [step EXCEPT ![r] = "adding"]
    /\ UNCHANGED <<queue, top, caller, pc, cell, next, state, life, data, down>>

\* Mutant: the lock of the group is not released.
AddUnlockToken(t, r) ==
    /\ step[r] = "adding"
    /\ gnext[r] > Len(awaiters[GroupOf(r)])
    /\ mu' = [mu EXCEPT ![Token(Instr(r).task)] = Nobody]
    /\ step' = [step EXCEPT ![r] = "run"]
    /\ pc' = [pc EXCEPT ![r] = @ + 1]
    /\ UNCHANGED <<queue, top, caller, cell, next, gnext, state, refs, life,
                   waiters, awaiters, pending, errors, rank, data, down>>

AddUnlock(t, r) ==
    /\ step[r] = "adding"
    /\ gnext[r] > Len(awaiters[GroupOf(r)])
    /\ mu' = [mu EXCEPT ![GroupOf(r)] = Nobody,
                        ![Token(Instr(r).task)] = Nobody]
    /\ step' = [step EXCEPT ![r] = "run"]
    /\ pc' = [pc EXCEPT ![r] = @ + 1]
    /\ UNCHANGED <<queue, top, caller, cell, next, gnext, state, refs, life,
                   waiters, awaiters, pending, errors, rank, data, down>>

\* One iteration of `for (auto &awaiter : group->awaiters) awaiter();`.
RunGroupAwaiter(t, r) ==
    /\ step[r] \in {"adding", "callback"}
    /\ gnext[r] <= Len(awaiters[GroupOf(r)])
    /\ Resume(t, r, awaiters[GroupOf(r)][gnext[r]])
    /\ gnext' = [gnext EXCEPT ![r] = @ + 1]
    /\ UNCHANGED <<queue, cell, next, objects, data, down>>

-----------------------------------------------------------------------------
(* Awaiting a token, a value or all of a group.                            *)

\* Await*: in a plain function the thread blocks on the condition variable.
\* AwaitPass is also the path of Await*AndExecute that resumes at once.
AwaitPass(t, r) ==
    /\ AtCall(r, "await") \/ (step[r] = "wait" /\ r \notin waiters[Instr(r).obj])
    /\ mu[Instr(r).obj] = Nobody
    /\ Ready(Instr(r).obj)
    /\ pc' = [pc EXCEPT ![r] = @ + 1]
    /\ step' = [step EXCEPT ![r] = "run"]
    /\ UNCHANGED <<queue, top, caller, cell, next, gnext, objects, data, down>>

AwaitBlock(t, r) ==
    /\ \/ AtCall(r, "await") /\ Instr(r).how = "block"
       \/ step[r] = "wait" /\ r \notin waiters[Instr(r).obj]
    /\ mu[Instr(r).obj] = Nobody
    /\ ~Ready(Instr(r).obj)
    /\ waiters' = [waiters EXCEPT ![Instr(r).obj] = @ \cup {r}]
    /\ step' = [step EXCEPT ![r] = "wait"]
    /\ UNCHANGED <<queue, top, caller, pc, cell, next, gnext, state, refs, life,
                   mu, awaiters, pending, errors, rank, data, down>>

\* cv.wait may return without a notification; its predicate is then rechecked.
SpuriousWakeup(t, r) ==
    /\ step[r] = "wait"
    /\ r \in waiters[Instr(r).obj]
    /\ waiters' = [waiters EXCEPT ![Instr(r).obj] = @ \ {r}]
    /\ UNCHANGED <<control, state, refs, life, mu, awaiters, pending, errors,
                   rank, data, down>>

\* Await*AndExecute: the coroutine leaves itself in the object's awaiters.
\* Mutant: a coroutine registers without checking under the mutex, so after
\* the last awaiter was run.
AwaitSuspendBlind(t, r) ==
    /\ AtCall(r, "await")
    /\ Instr(r).how = "resume"
    /\ mu[Instr(r).obj] = Nobody
    /\ awaiters' = [awaiters EXCEPT ![Instr(r).obj] = Append(@, r)]
    /\ step' = [step EXCEPT ![r] = "suspended"]
    /\ Leave(t, r)
    /\ UNCHANGED <<queue, pc, cell, next, gnext, state, refs, life, mu, waiters,
                   pending, errors, rank, data, down>>

AwaitSuspend(t, r) ==
    /\ AtCall(r, "await")
    /\ Instr(r).how = "resume"
    /\ mu[Instr(r).obj] = Nobody
    /\ ~Ready(Instr(r).obj)
    /\ awaiters' = [awaiters EXCEPT ![Instr(r).obj] = Append(@, r)]
    /\ step' = [step EXCEPT ![r] = "suspended"]
    /\ Leave(t, r)
    /\ UNCHANGED <<queue, pc, cell, next, gnext, state, refs, life, mu, waiters,
                   pending, errors, rank, data, down>>

-----------------------------------------------------------------------------
(* The end of a routine.  A task emplaces its value, then its token:       *)
(* setValueState and setTokenState.                                        *)

MainReturn(t, r) ==
    /\ r = Main
    /\ step[r] = "run" /\ AtEnd(r)
    /\ step' = [step EXCEPT ![r] = "done"]
    /\ Leave(t, r)
    /\ UNCHANGED <<queue, pc, cell, next, gnext, objects, data, down>>

EndTask(t, r) ==
    /\ r \in Tasks
    /\ step[r] = "run" /\ AtEnd(r)
    /\ step' = [step EXCEPT ![r] = "emplace"]
    /\ UNCHANGED <<queue, top, caller, pc, cell, next, gnext, objects, data, down>>

\* Mutant: the condition variable is not notified.
EmplaceLockSilent(t, r) ==
    /\ step[r] = "emplace"
    /\ mu[Current(r)] = Nobody
    /\ mu' = [mu EXCEPT ![Current(r)] = t]
    /\ state' = [state EXCEPT ![Current(r)] =
                    IF r \in Fails THEN "error" ELSE "available"]
    /\ next' = [next EXCEPT ![r] = 1]
    /\ step' = [step EXCEPT ![r] = "awaiters"]
    /\ UNCHANGED <<queue, top, caller, pc, cell, gnext, refs, life, waiters,
                   awaiters, pending, errors, rank, data, down>>

EmplaceLock(t, r) ==
    /\ step[r] = "emplace"
    /\ mu[Current(r)] = Nobody
    /\ mu' = [mu EXCEPT ![Current(r)] = t]
    /\ state' = [state EXCEPT ![Current(r)] =
                    IF r \in Fails THEN "error" ELSE "available"]
    /\ waiters' = [waiters EXCEPT ![Current(r)] = {}]
    /\ next' = [next EXCEPT ![r] = 1]
    /\ step' = [step EXCEPT ![r] = "awaiters"]
    /\ UNCHANGED <<queue, top, caller, pc, cell, gnext, refs, life, awaiters,
                   pending, errors, rank, data, down>>

HasAwaiter(r) == step[r] = "awaiters" /\ next[r] <= Len(awaiters[Current(r)])

\* Mutant: the awaiter is not removed from what is still to be run.
RunResumeAwaiterTwice(t, r) ==
    /\ HasAwaiter(r)
    /\ awaiters[Current(r)][next[r]] \in Routines
    /\ Resume(t, r, awaiters[Current(r)][next[r]])
    /\ UNCHANGED <<queue, cell, next, gnext, objects, data, down>>

RunResumeAwaiter(t, r) ==
    /\ HasAwaiter(r)
    /\ awaiters[Current(r)][next[r]] \in Routines
    /\ Resume(t, r, awaiters[Current(r)][next[r]])
    /\ next' = [next EXCEPT ![r] = @ + 1]
    /\ UNCHANGED <<queue, cell, gnext, objects, data, down>>

\* The callback of a group takes the group's mutex while r holds the token's.
RunGroupCallback(t, r) ==
    /\ HasAwaiter(r)
    /\ GroupOf(r) \in Groups
    /\ mu[GroupOf(r)] = Nobody
    /\ mu' = [mu EXCEPT ![GroupOf(r)] = t]
    /\ OnTokenReady(r, Current(r), GroupOf(r), pending[GroupOf(r)])
    /\ step' = [step EXCEPT ![r] = "callback"]
    /\ UNCHANGED <<queue, top, caller, pc, cell, next, state, refs, life,
                   awaiters, rank, data, down>>

CallbackUnlock(t, r) ==
    /\ step[r] = "callback"
    /\ gnext[r] > Len(awaiters[GroupOf(r)])
    /\ mu' = [mu EXCEPT ![GroupOf(r)] = Nobody]
    /\ step' = [step EXCEPT ![r] = "callbackDrop"]
    /\ UNCHANGED <<queue, top, caller, pc, cell, next, gnext, state, refs, life,
                   waiters, awaiters, pending, errors, rank, data, down>>

\* Mutant: the callback keeps its reference to the group.
CallbackDropNothing(t, r) ==
    /\ step[r] = "callbackDrop"
    /\ next' = [next EXCEPT ![r] = @ + 1]
    /\ step' = [step EXCEPT ![r] = "awaiters"]
    /\ UNCHANGED <<queue, top, caller, pc, cell, gnext, objects, data, down>>

CallbackDrop(t, r) ==
    /\ step[r] = "callbackDrop"
    /\ DropRef(GroupOf(r))
    /\ next' = [next EXCEPT ![r] = @ + 1]
    /\ step' = [step EXCEPT ![r] = "awaiters"]
    /\ UNCHANGED <<queue, top, caller, pc, cell, gnext, state, mu, waiters,
                   awaiters, pending, errors, rank, data, down>>

EmplaceUnlock(t, r) ==
    /\ step[r] = "awaiters"
    /\ next[r] > Len(awaiters[Current(r)])
    /\ mu' = [mu EXCEPT ![Current(r)] = Nobody]
    /\ step' = [step EXCEPT ![r] = "emplaceDrop"]
    /\ UNCHANGED <<queue, top, caller, pc, cell, next, gnext, state, refs, life,
                   waiters, awaiters, pending, errors, rank, data, down>>

\* Mutant: the cells are counted from 0.
EmplaceDropOffByOne(t, r) ==
    /\ step[r] = "emplaceDrop"
    /\ DropRef(Current(r))
    /\ IF cell[r] <= Len(Emplaced(r))
       THEN /\ cell' = [cell EXCEPT ![r] = @ + 1]
            /\ step' = [step EXCEPT ![r] = "emplace"]
            /\ UNCHANGED <<top, caller>>
       ELSE /\ step' = [step EXCEPT ![r] = "done"]
            /\ Leave(t, r)
            /\ UNCHANGED cell
    /\ UNCHANGED <<queue, pc, next, gnext, state, mu, waiters, awaiters,
                   pending, errors, rank, data, down>>

\* The task's own reference goes after the unlock; the token is the last cell.
EmplaceDrop(t, r) ==
    /\ step[r] = "emplaceDrop"
    /\ DropRef(Current(r))
    /\ IF cell[r] < Len(Emplaced(r))
       THEN /\ cell' = [cell EXCEPT ![r] = @ + 1]
            /\ step' = [step EXCEPT ![r] = "emplace"]
            /\ UNCHANGED <<top, caller>>
       ELSE /\ step' = [step EXCEPT ![r] = "done"]
            /\ Leave(t, r)
            /\ UNCHANGED cell
    /\ UNCHANGED <<queue, pc, next, gnext, state, mu, waiters, awaiters,
                   pending, errors, rank, data, down>>

-----------------------------------------------------------------------------
(* `count++` in a loop body: a load and a store of a captured variable.    *)

Load(t, r) ==
    /\ AtCall(r, "load")
    /\ local' = [local EXCEPT ![r] = count]
    /\ pc' = [pc EXCEPT ![r] = @ + 1]
    /\ UNCHANGED <<queue, top, caller, step, cell, next, gnext, objects, count,
                   down>>

Store(t, r) ==
    /\ AtCall(r, "store")
    /\ count' = local[r] + 1
    /\ pc' = [pc EXCEPT ![r] = @ + 1]
    /\ UNCHANGED <<queue, top, caller, step, cell, next, gnext, objects, local,
                   down>>

-----------------------------------------------------------------------------

\* ~AsyncRuntime: main has returned and threadPool.wait() has come back.
Shutdown ==
    /\ step[Main] = "done"
    /\ queue = <<>>
    /\ \A w \in Workers : top[w] = Nobody
    /\ ~down
    /\ down' = TRUE
    /\ UNCHANGED <<control, objects, data>>

RoutineStep(t, r) ==
    \/ Execute(t, r) \/ CreateGroup(t, r) \/ Drop(t, r)
    \/ AddLockToken(t, r) \/ AddLockGroup(t, r) \/ AddUnlock(t, r)
    \/ RunGroupAwaiter(t, r)
    \/ AwaitPass(t, r) \/ AwaitBlock(t, r) \/ AwaitSuspend(t, r)
    \/ SpuriousWakeup(t, r)
    \/ MainReturn(t, r) \/ EndTask(t, r)
    \/ EmplaceLock(t, r) \/ RunResumeAwaiter(t, r) \/ RunGroupCallback(t, r)
    \/ CallbackUnlock(t, r) \/ CallbackDrop(t, r)
    \/ EmplaceUnlock(t, r) \/ EmplaceDrop(t, r)
    \/ Load(t, r) \/ Store(t, r)

ThreadStep(t) ==
    \/ t \in Workers /\ TakeTask(t)
    \/ \E r \in Routines : top[t] = r /\ RoutineStep(t, r)

\* The process has ended.
Ended == down /\ UNCHANGED vars

Next == (\E t \in Threads : ThreadStep(t)) \/ Shutdown \/ Ended

Spec == Init /\ [][Next]_vars

\* The operating system runs every thread that can take a step.
FairSpec == Spec /\ (\A t \in Threads : WF_vars(ThreadStep(t))) /\ WF_vars(Shutdown)

=============================================================================
