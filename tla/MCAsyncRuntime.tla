---------------------------- MODULE MCAsyncRuntime ----------------------------
(* Programs for the model checker: each is a function from routines to the  *)
(* calls that AsyncLowering gives for the TypeScript named in its comment.  *)
EXTENDS AsyncRuntimeProps, AsyncLowering

CONSTANTS k1, k2, k3, g1

NoCode == [r \in Routines |-> <<>>]

\* for await (const v of [1, 2, 3]) { }           (00for_await.ts, main1)
LoopCode == [NoCode EXCEPT ![Main] = ForAwait(g1, <<k1, k2, k3>>, "block")]

\* for await (const v of [1, 2, 3]) { count++; }  (00for_await.ts, main2)
CountingCode ==
    [r \in Routines |-> IF r = Main
                        THEN ForAwait(g1, <<k1, k2, k3>>, "block")
                        ELSE Increment]

\* await of an expression whose region runs `for await` of one iteration, the
\* body of which awaits a value: awaits inside an awaited expression or a body
\* suspend the coroutine.
NestedCode ==
    [NoCode EXCEPT ![Main] = AwaitVoid(k1, "block"),
                   ![k1] = ForAwait(g1, <<k2>>, "resume"),
                   ![k2] = AwaitValue(k3, "resume")]

\* await f() where the plain function f awaits in turn (00for_await_yield.ts)
BlockingInTaskCode ==
    [NoCode EXCEPT ![Main] = AwaitVoid(k1, "block"),
                   ![k1] = AwaitVoid(k2, "block")]

=============================================================================
