-------------------------------- MODULE Futures --------------------------------
(***************************************************************************)
(* What async.execute, async.await and async.await_all promise, without    *)
(* threads, locks or counts: routines run their calls in order; a task     *)
(* settles its cells after its last call; an await is passed only when     *)
(* everything it waits for has settled.                                    *)
(***************************************************************************)
EXTENDS Naturals, Sequences

CONSTANTS Main, Tasks, Groups, HasValue, Code

VARIABLES
    at,       \* at[r]: the call r makes next
    started,  \* routines that have been started
    settled   \* tokens and values whose result is known

vars == <<at, started, settled>>

Routines == {Main} \cup Tasks
Cells == {<<"token", k>> : k \in Tasks} \cup {<<"value", k>> : k \in HasValue}
Call(r) == Code[r][at[r]]

\* The cells that an await of o by r waits for: o itself, or the tokens that r
\* has added to the group o.
Awaited(r, o) ==
    IF o \in Cells THEN {o}
    ELSE {<<"token", Code[r][i].task>> :
            i \in {j \in 1..(at[r] - 1) :
                     Code[r][j].op = "add" /\ Code[r][j].obj = o}}

Init == at = [r \in Routines |-> 1] /\ started = {Main} /\ settled = {}

CanCall(r) == r \in started /\ at[r] <= Len(Code[r])
Advance(r) == at' = [at EXCEPT ![r] = @ + 1]

Start(r) ==
    /\ CanCall(r) /\ Call(r).op = "execute"
    /\ started' = started \cup {Call(r).task}
    /\ Advance(r)
    /\ UNCHANGED settled

Join(r) ==
    /\ CanCall(r) /\ Call(r).op = "await"
    /\ Awaited(r, Call(r).obj) \subseteq settled
    /\ Advance(r)
    /\ UNCHANGED <<started, settled>>

Other(r) ==
    /\ CanCall(r) /\ Call(r).op \notin {"execute", "await"}
    /\ Advance(r)
    /\ UNCHANGED <<started, settled>>

\* A task that has made its last call settles one of its cells.
Settle(k) ==
    /\ k \in started /\ at[k] > Len(Code[k])
    /\ \E c \in Cells \cap {<<"token", k>>, <<"value", k>>} :
          c \notin settled /\ settled' = settled \cup {c}
    /\ UNCHANGED <<at, started>>

Step(r) == Start(r) \/ Join(r) \/ Other(r) \/ (r \in Tasks /\ Settle(r))

Next == \E r \in Routines : Step(r)

Spec == Init /\ [][Next]_vars /\ \A r \in Routines : WF_vars(Step(r))

=============================================================================
