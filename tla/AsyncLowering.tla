----------------------------- MODULE AsyncLowering -----------------------------
(***************************************************************************)
(* The runtime calls that MLIRGen emits for `await` and `for await`, after *)
(* the async passes of the pipeline (transform.cpp) have turned the async  *)
(* operations into calls and inserted the reference count drops.           *)
(***************************************************************************)
EXTENDS Sequences, SequencesExt

\* The drops come from the reference counting pass: after the last use, or at
\* once for a result nobody uses, as the token of an awaited value.

\* `await e` where e has a value: mlirGen(AwaitExpression).
AwaitValue(k, how) ==
    << [op |-> "execute", task |-> k],
       [op |-> "drop", obj |-> <<"token", k>>],
       [op |-> "await", obj |-> <<"value", k>>, how |-> how],
       [op |-> "drop", obj |-> <<"value", k>>] >>

\* `await e` where e is void: the token is awaited.
AwaitVoid(k, how) ==
    << [op |-> "execute", task |-> k],
       [op |-> "await", obj |-> <<"token", k>>, how |-> how],
       [op |-> "drop", obj |-> <<"token", k>>] >>

\* `for await (...) body`, its iterations being the tasks ks: mlirGen of
\* ForStatement.  One task and one add per iteration, one await at the end.
ForAwait(g, ks, how) ==
    LET Iteration(k) ==
            << [op |-> "execute", task |-> k],
               [op |-> "add", task |-> k, obj |-> g],
               [op |-> "drop", obj |-> <<"token", k>>] >>
    IN  << [op |-> "createGroup", obj |-> g] >>
        \o FlattenSeq([i \in DOMAIN ks |-> Iteration(ks[i])])
        \o << [op |-> "await", obj |-> g, how |-> how],
              [op |-> "drop", obj |-> g] >>

\* `count++` on a captured variable.
Increment == << [op |-> "load"], [op |-> "store"] >>

=============================================================================
