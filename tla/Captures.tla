------------------------------ MODULE Captures ------------------------------
(***************************************************************************)
(* Nested functions and the variables they capture, MLIRGen.cpp and the    *)
(* lowerings of the operations it makes.                                   *)
(*                                                                         *)
(* A function is discovered before it is generated: its body is generated  *)
(* into a function that is thrown away, to find the variables of other     *)
(* functions it uses (resolveIdentifierAsVariable).  The names found are   *)
(* kept, and wherever the function is referred to they are looked up       *)
(* again, and what is found is put into a record that is passed to the     *)
(* function when it is called (resolveFunctionWithCapture).  A variable    *)
(* that is captured is allocated on the heap when its declaration is       *)
(* executed, another one on the stack of the function (VariableOpLowering).*)
(*                                                                         *)
(* The statements of a file are generated in two runs, each of as many     *)
(* passes as it takes; the tables outlive the first run, whose code is     *)
(* dropped (see Frontend).  Then the code is run.                          *)
(***************************************************************************)
EXTENDS ScopeSemantics

CONSTANTS Programs    \* files: sequences of statements

VARIABLES program,     \* the statements of the file
          expected,    \* what the program prints
          phase,       \* what is going on
          g,           \* the generator: tables, and the code of the run
          notResolved, \* statements the last pass failed to generate
          frames,      \* the activations of functions, the innermost last
          memory,      \* addresses to values
          activations, \* how many there have been: numbers the stack frames
          out          \* what has been printed

vars == <<program, expected, phase, g, notResolved, frames, memory, activations, out>>
genVars == <<program, expected, g, notResolved>>
runVars == <<frames, memory, activations, out>>

-----------------------------------------------------------------------------
(***************************************************************************)
(* What a name can stand for.  An operand is a VariableOp ("slot"), the    *)
(* value of a constant ("value"), a field of the captures ("field") or a   *)
(* global; the statement that declares it is its id.  An entry of the      *)
(* symbol table says which function it belongs to, whether it is a         *)
(* reference (getReadWriteAccess), and, for a constant that was loaded     *)
(* from a variable, the operand its LoadOp reads.                          *)
(***************************************************************************)
Operand(at, id, name) == [at |-> at, id |-> id, name |-> name]
Slot(id)     == Operand("slot", id, "")
ValueOf(id)  == Operand("value", id, "")
Field(name)  == Operand("field", <<>>, name)
Global(name) == Operand("global", <<>>, name)

Entry(fn, rw, operand, from) == [fn |-> fn, rw |-> rw, operand |-> operand, from |-> from]

Fresh == [table   |-> <<>>,    \* symbolTable
          funs    |-> <<>>,    \* functionMap and captureVarsMap, by namespace and name
          globals |-> {},      \* globalsMap of the file
          processed |-> {},    \* the statements marked as processed
          outer   |-> {},      \* passResult->outerVariables
          code    |-> <<>>,    \* of the function being generated
          defs    |-> <<>>,    \* the functions and globals of the module
          heap    |-> {},      \* the variables whose captured attribute is set
          ok      |-> TRUE,    \* the last generation succeeded
          invalid |-> FALSE,   \* the module does not verify
          crash   |-> FALSE]   \* the compiler has used a value it has not got

\* The innermost entry for a name; a global when the table has none.
Found(name, st)          == name \in DOMAIN st.table \/ name \in st.globals
Resolved(name, ctx, st)  == IF name \in DOMAIN st.table THEN st.table[name]
                            ELSE Entry(ctx.fn, TRUE, Global(name), <<>>)
Declare(name, entry, st) ==
    [st EXCEPT !.table = [n \in DOMAIN @ \cup {name} |-> IF n = name THEN entry ELSE @[n]]]

\* An outer variable is noted while a function is discovered.  Otherwise
\* it is used as it is, in a function isolated from what is around it.
Use(name, ctx, st) ==
    LET e == Resolved(name, ctx, st)
    IN CASE ~Found(name, st) -> [st EXCEPT !.ok = FALSE]
         [] Found(name, st) /\ e.fn = ctx.fn -> st
         [] OTHER -> IF ctx.collect THEN [st EXCEPT !.outer = @ \cup {[name |-> name, rw |-> e.rw]}]
                     ELSE [st EXCEPT !.invalid = TRUE]

(***************************************************************************)
(* References to functions.  The captured names are resolved where the     *)
(* reference is.  What is found is passed as a reference when it was       *)
(* loaded from one; the variable it was loaded from is marked as captured, *)
(* and loaded again when the captures keep a value.                        *)
(***************************************************************************)
Namespaces(name, ctx, st) ==
    {i \in DOMAIN ctx.chain : <<ctx.chain[i], <<name>>>> \in DOMAIN st.funs}
FunctionNamed(name, ctx, st) ==
    <<ctx.chain[Min(Namespaces(name, ctx, st))], <<name>>>>

Reference(e) == IF e.rw THEN <<e.operand>> ELSE e.from

Capture(c, ctx, st) ==
    LET e == Resolved(c.name, ctx, st)
    IN [name |-> c.name, rw |-> c.rw,
        operand |-> IF Reference(e) = <<>> THEN e.operand ELSE Head(Reference(e))]

RECURSIVE UseAll(_, _, _)
UseAll(names, ctx, st) ==
    IF names = {} THEN st
    ELSE LET n == CHOOSE n \in names : TRUE IN UseAll(names \ {n}, ctx, Use(n, ctx, st))

\* Mutant: variables are not marked as captured.
ResolveUnmarkedVars(key, ctx, st) ==
    LET names == {c.name : c \in st.funs[key].captures}
    IN IF \E n \in names : ~Found(n, st) THEN [st EXCEPT !.ok = FALSE, !.crash = TRUE]
       ELSE UseAll(names, ctx, st)

\* mlirGenResolveCapturedVars, of the function with the key given.
ResolveCapturedVars(key, ctx, st) ==
    LET caps  == st.funs[key].captures
        names == {c.name : c \in caps}
        used  == UseAll(names, ctx, st)
        refs  == {Capture(c, ctx, st) : c \in caps}
    IN IF \E n \in names : ~Found(n, st) THEN [st EXCEPT !.ok = FALSE, !.crash = TRUE]
       ELSE [used EXCEPT !.heap = @ \cup {r.operand.id : r \in {r \in refs : r.operand.at = "slot"}},
                         !.invalid = @ \/ \E c \in caps : c.rw /\ Reference(Resolved(c.name, ctx, st)) = <<>>]

FunctionValue(key, ctx, st) ==
    [from |-> "function", fn |-> st.funs[key].id,
     captures |-> {Capture(c, ctx, st) : c \in st.funs[key].captures}]
NumberValue(v)   == [from |-> "number", value |-> v]
LoadedValue(op)  == [from |-> "operand", operand |-> op]

-----------------------------------------------------------------------------
(***************************************************************************)
(* Statements.  A context has the function generated, its namespace and    *)
(* those around it, whether the run is the one for discovery (partial) and *)
(* whether the function itself is being discovered (collect).              *)
(***************************************************************************)
Emit(instruction, st) == [st EXCEPT !.code = Append(@, instruction)]
Root(ctx)             == ctx.fn = <<>>

\* A global of the module; the table keeps the first of a name.
DefineGlobal(name, value, ctx, st) ==
    Emit([k |-> "store", operand |-> Global(name), value |-> value],
         [st EXCEPT !.globals = @ \cup {name},
                    !.defs = IF ctx.partial THEN @ ELSE Append(@, [global |-> name])])

\* registerVariable: var, and all outside of functions, are globals;
\* constants are values, and a variable is an operation.
Register(kind, name, id, value, from, ctx, st) ==
    CASE kind = "var" \/ Root(ctx) -> DefineGlobal(name, value, ctx, st)
      [] kind = "const" /\ ~Root(ctx) ->
           Declare(name, Entry(ctx.fn, FALSE, ValueOf(id), from),
                   Emit([k |-> "const", id |-> id, value |-> value], st))
      [] kind = "let" /\ ~Root(ctx) ->
           Declare(name, Entry(ctx.fn, TRUE, Slot(id), <<>>),
                   Emit([k |-> "let", id |-> id, value |-> value], st))

Children(b, p) == {Append(p, i) : i \in DOMAIN b}

RECURSIVE Gen(_, _, _, _), GenBlock(_, _, _, _), GenFrom(_, _, _, _, _), GenFunction(_, _, _, _, _),
          DeclarationPass(_, _, _, _, _), DeclarationsFrom(_, _, _, _, _)

\* A failed statement leaves the scope as it was, and what it has emitted.
Kept(r, st)        == IF r.ok THEN r ELSE [r EXCEPT !.table = st.table]
Try(s, p, ctx, st) == Kept(Gen(s, p, ctx, [st EXCEPT !.ok = TRUE]), st)

Processed(q, r) == IF r.ok THEN [r EXCEPT !.processed = @ \cup {q}] ELSE r

\* One round over the function declarations of a block: how many failed is
\* the number of them not processed at the end.
DeclarationsFrom(b, i, p, ctx, st) ==
    IF i > Len(b) THEN st
    ELSE LET q == Append(p, i)
         IN DeclarationsFrom(b, i + 1, p, ctx,
                IF b[i].k # "function" \/ q \in st.processed THEN st
                ELSE Processed(q, Try(b[i], q, ctx, st)))

Unprocessed(b, p, st) == {i \in DOMAIN b : b[i].k = "function" /\ Append(p, i) \notin st.processed}

\* mlirGen(statements, processIfDeclaration): rounds until none is left or
\* as many fail as in the round before; then no statement of the block is
\* processed any more.
AfterRound(b, p, lastTime, ctx, table, r) ==
    LET left == Cardinality(Unprocessed(b, p, r))
    IN CASE left = 0 -> [r EXCEPT !.processed = @ \ Children(b, p), !.ok = TRUE, !.table = table]
         [] left > 0 /\ left = lastTime -> [r EXCEPT !.ok = FALSE, !.table = table]
         [] OTHER -> DeclarationPass(b, p, left, ctx, r)
DeclarationPass(b, p, lastTime, ctx, st) ==
    AfterRound(b, p, lastTime, ctx, st.table, DeclarationsFrom(b, 1, p, ctx, st))

\* The statements of a block from the i-th: one that fails is tried again
\* after the function declarations of the block.
Retry(s, q, ctx, st)        == IF st.ok THEN Try(s, q, ctx, st) ELSE st
Tried(b, i, p, ctx, r)      == IF r.ok THEN r
                               ELSE Retry(b[i], Append(p, i), ctx, DeclarationPass(b, p, 0, ctx, r))
GenNext(b, i, p, ctx, r)    == IF r.ok THEN GenFrom(b, i + 1, p, ctx, Processed(Append(p, i), r)) ELSE r
GenFrom(b, i, p, ctx, st)   ==
    IF i > Len(b) THEN [st EXCEPT !.processed = @ \ Children(b, p), !.ok = TRUE]
    ELSE GenNext(b, i, p, ctx,
             IF Append(p, i) \in st.processed THEN [st EXCEPT !.ok = TRUE]
             ELSE Tried(b, i, p, ctx, Try(b[i], Append(p, i), ctx, st)))

Scoped(r, st) == [r EXCEPT !.table = st.table]
GenBlock(b, p, ctx, st) == Scoped(GenFrom(b, 1, p, ctx, st), st)

\* The body of a function, in a scope of its own.
Inside(p, ctx) == [ctx EXCEPT !.fn = p, !.chain = <<p>> \o @, !.collect = FALSE]

\* What a trial generation leaves: the names, and the tables it has changed.
Discovered(p, key, st, r) ==
    LET back == [r EXCEPT !.outer = st.outer, !.code = st.code]
    IN IF ~r.ok THEN back
       ELSE [back EXCEPT !.funs = [k \in DOMAIN @ \cup {key} |->
                 IF k = key THEN [id |-> p, captures |-> r.outer] ELSE @[k]]]
Trial(p, ctx) == [Inside(p, ctx) EXCEPT !.partial = TRUE, !.collect = TRUE]

\* Mutant: what a nested function was found to use is left to the next one.
DiscoverLeaking(b, p, key, ctx, st) ==
    LET r == GenBlock(b, p, Trial(p, ctx), [st EXCEPT !.code = <<>>])
    IN Discovered(p, key, [st EXCEPT !.outer = r.outer], r)

\* discoverFunctionReturnTypeAndCapturedVars.
Discover(b, p, key, ctx, st) ==
    Discovered(p, key, st, GenBlock(b, p, Trial(p, ctx), [st EXCEPT !.outer = {}, !.code = <<>>]))

\* Mutant: the captured names still stand for the variables.
WithoutCaptures(captures, p, st) == st

\* mlirGenFunctionCaptures: the captured names stand for fields.
WithCaptures(captures, p, st) ==
    [st EXCEPT !.table = [n \in DOMAIN @ \cup {c.name : c \in captures} |->
        IF \E c \in captures : c.name = n
        THEN LET c == CHOOSE c \in captures : c.name = n IN Entry(p, c.rw, Field(n), <<>>)
        ELSE @[n]]]

\* mlirGenFunctionLikeDeclaration: a function is discovered once, the first
\* time, and its body generated every time.
Defined(fn, ctx, st, body) ==
    LET back == [body EXCEPT !.table = st.table, !.code = st.code]
    IN IF ~body.ok \/ ctx.partial THEN back
       ELSE [back EXCEPT !.defs = Append(@, [fn |-> fn, code |-> body.code])]
GenBody(b, p, key, ctx, st) ==
    IF ~st.ok THEN st
    ELSE Defined(st.funs[key].id, ctx, st,
             GenBlock(b, p, Inside(p, ctx),
                      [WithCaptures(st.funs[key].captures, p, st) EXCEPT !.code = <<>>]))
GenFunction(b, p, key, ctx, st) ==
    GenBody(b, p, key, ctx, IF key \in DOMAIN st.funs THEN st ELSE Discover(b, p, key, ctx, st))

\* The value of another variable; a constant knows what it was loaded from.
GenCopy(s, p, ctx, st) ==
    LET e == Resolved(s.from, ctx, st)
        u == Use(s.from, ctx, st)
    IN IF ~u.ok THEN u
       ELSE Register(s.kind, s.name, p, LoadedValue(e.operand), Reference(e), ctx, u)

\* What has not been loaded from a variable cannot be stored to.
GenIncrement(s, ctx, st) ==
    LET e == Resolved(s.name, ctx, st)
        u == Use(s.name, ctx, st)
    IN IF ~u.ok \/ Reference(e) = <<>> THEN [u EXCEPT !.ok = FALSE]
       ELSE Emit([k |-> "inc", operand |-> Head(Reference(e))], u)

GenPrint(s, ctx, st) ==
    LET u == Use(s.name, ctx, st)
    IN IF ~u.ok THEN u
       ELSE Emit([k |-> "print", operand |-> Resolved(s.name, ctx, st).operand], u)

\* A variable is preferred to a function; a callee that is neither is
\* ignored when the run is partial.
GenCall(s, ctx, st) ==
    LET key == FunctionNamed(s.name, ctx, st)
        r   == ResolveCapturedVars(key, ctx, st)
    IN CASE Found(s.name, st) ->
              Emit([k |-> "call", value |-> LoadedValue(Resolved(s.name, ctx, st).operand)],
                   Use(s.name, ctx, st))
         [] ~Found(s.name, st) /\ Namespaces(s.name, ctx, st) # {} ->
              IF ~r.ok THEN r ELSE Emit([k |-> "call", value |-> FunctionValue(key, ctx, r)], r)
         [] OTHER -> [st EXCEPT !.ok = ctx.partial]

\* An arrow function that is assigned, or what a variable is declared with.
Assign(name, value, ctx, st) ==
    Emit([k |-> "store", operand |-> Resolved(name, ctx, st).operand, value |-> value], st)
GenClosure(s, p, key, ctx, st) ==
    CASE ~st.ok -> st
      [] st.ok /\ s.kind # "set" -> Register(s.kind, s.name, p, FunctionValue(key, ctx, st), <<>>, ctx, st)
      [] st.ok /\ s.kind = "set" -> Assign(s.name, FunctionValue(key, ctx, st), ctx, st)
ReferTo(key, ctx, st)      == IF st.ok THEN ResolveCapturedVars(key, ctx, st) ELSE st
GenArrow(s, p, key, ctx, st) == IF st.ok THEN GenFunction(s.body, p, key, ctx, st) ELSE st
GenLambda(s, p, ctx, st) ==
    LET key == <<Head(ctx.chain), p>>
    IN GenClosure(s, p, key, ctx,
           ReferTo(key, ctx,
               GenArrow(s, p, key, ctx, IF s.kind = "set" THEN Use(s.name, ctx, st) ELSE st)))

\* The variable of the loop is declared in a scope around it.
Loop(p, st, r) == IF ~r.ok THEN [r EXCEPT !.code = st.code]
                  ELSE Emit([k |-> "for", id |-> p, body |-> r.code],
                            [r EXCEPT !.table = st.table, !.code = st.code])
GenFor(s, p, ctx, st) ==
    Loop(p, st, GenBlock(s.body, p, ctx,
        [Declare(s.name, Entry(ctx.fn, TRUE, Slot(p), <<>>), st) EXCEPT !.code = <<>>]))

Gen(s, p, ctx, st) ==
    CASE s.k \in {"let", "const", "var"} ->
                            Register(s.k, s.name, p, NumberValue(s.value), <<>>, ctx, st)
      [] s.k = "copy"     -> GenCopy(s, p, ctx, st)
      [] s.k = "inc"      -> GenIncrement(s, ctx, st)
      [] s.k = "print"    -> GenPrint(s, ctx, st)
      [] s.k = "call"     -> GenCall(s, ctx, st)
      [] s.k = "function" -> GenFunction(s.body, p, <<Head(ctx.chain), <<s.name>>>>, ctx, st)
      [] s.k = "lambda"   -> GenLambda(s, p, ctx, st)
      [] s.k = "block"    -> GenBlock(s.body, p, ctx, st)
      [] s.k = "for"      -> GenFor(s, p, ctx, st)

-----------------------------------------------------------------------------
(***************************************************************************)
(* The runs of the compiler: processStatements, a pass a step.             *)
(***************************************************************************)
FileContext(partial) ==
    [fn |-> <<>>, chain |-> << <<>> >>, partial |-> partial, collect |-> FALSE]

RECURSIVE PassFrom(_, _, _)
PassFrom(i, ctx, st) ==
    IF i > Len(program) \/ st.crash THEN st
    ELSE PassFrom(i + 1, ctx, IF <<i>> \in st.processed THEN st
                              ELSE Processed(<<i>>, Try(program[i], <<i>>, ctx, st)))

NotProcessed(st) == Cardinality({i \in DOMAIN program : <<i>> \notin st.processed})

\* A symbol of the module is defined twice, or a function uses a value of another.
Duplicates(defs) == \E i, j \in DOMAIN defs : i # j /\ defs[i] = defs[j]
Symbols(st) == [i \in DOMAIN st.defs |-> IF "fn" \in DOMAIN st.defs[i]
                                         THEN [fn |-> st.defs[i].fn] ELSE st.defs[i]]
Verifies(st) == ~st.invalid /\ ~Duplicates(Symbols(st))

Init == /\ program \in Programs
        /\ expected = RunBlock(program \o <<CallS("main")>>, <<>>, Start).out
        /\ phase = "discover"
        /\ g = Fresh
        /\ notResolved = 0
        /\ frames = <<>> /\ memory = <<>> /\ activations = 0 /\ out = <<>>

\* A run is over when all is processed, or as many failed as in the pass before.
EndsIn(st, last, next) ==
    LET left == NotProcessed(st)
    IN CASE st.crash \/ (left > 0 /\ left = last) -> "rejected"
         [] ~st.crash /\ left = 0                  -> next
         [] OTHER                                  -> phase

AfterDiscovery(st) ==
    /\ g' = IF NotProcessed(st) = 0
            THEN [Fresh EXCEPT !.funs = st.funs, !.globals = st.globals,
                               !.processed = st.processed \ Children(program, <<>>)]
            ELSE st
    /\ notResolved' = NotProcessed(st)
    /\ phase' = EndsIn(st, notResolved, "generate")
DiscoverPass ==
    /\ phase = "discover"
    /\ AfterDiscovery(PassFrom(1, FileContext(TRUE), g))
    /\ UNCHANGED <<program, expected, runVars>>

AfterGeneration(st) ==
    /\ g' = st
    /\ notResolved' = NotProcessed(st)
    /\ phase' = EndsIn(st, notResolved, IF Verifies(st) THEN "start" ELSE "rejected")
GeneratePass ==
    /\ phase = "generate"
    /\ AfterGeneration(PassFrom(1, FileContext(FALSE), g))
    /\ UNCHANGED <<program, expected, runVars>>

-----------------------------------------------------------------------------
(***************************************************************************)
(* The code, run.  An activation of a function has the code it has yet to  *)
(* run, its captures, and what its variables are: the address of a         *)
(* VariableOp, or the value of a constant.                                 *)
(***************************************************************************)
Address(area, n, id, name) == [area |-> area, n |-> n, id |-> id, name |-> name]
FunctionAt(fn, env) == [is |-> "closure", fn |-> fn, env |-> env]

Activation(fn, code, env, n) ==
    [fn |-> fn, code |-> code, env |-> env, n |-> n, slots |-> <<>>, values |-> <<>>]
CodeOf(fn) == LET i == CHOOSE i \in DOMAIN g.defs : "fn" \in DOMAIN g.defs[i] /\ g.defs[i].fn = fn
              IN g.defs[i].code

Top      == Last(frames)
Running  == phase = "run" /\ frames # <<>>
Ready(k) == Running /\ Top.code # <<>> /\ Head(Top.code).k = k
I        == Head(Top.code)

Put(f, a, v) == [x \in DOMAIN f \cup {a} |-> IF x = a THEN v ELSE f[x]]

\* A cell that does not hold a number is read as one nonetheless.
Garbage    == -1
Numeric(c) == IF c.is = "number" THEN c.value ELSE Garbage
\* What an operand refers to.
AddressOf(op) == CASE op.at = "slot"   -> Top.slots[op.id]
                   [] op.at = "field"  -> Top.env[op.name].address
                   [] op.at = "global" -> Address("global", 0, <<>>, op.name)
Load(a) == IF a \in DOMAIN memory THEN memory[a] ELSE Hole
ContentOf(op) ==
    CASE op.at = "value" -> Top.values[op.id]
      [] op.at = "field" /\ ~Top.env[op.name].rw -> Top.env[op.name].content
      [] OTHER -> Load(AddressOf(op))

\* CaptureOp: the record of captures; what is kept as a value is loaded now.
CaptureOp(captures) ==
    [n \in {c.name : c \in captures} |->
        LET c == CHOOSE c \in captures : c.name = n
        IN IF c.rw THEN [rw |-> TRUE, address |-> AddressOf(c.operand)]
           ELSE [rw |-> FALSE, content |-> ContentOf(c.operand)]]

Evaluate(v) == CASE v.from = "number"   -> Number(v.value)
                 [] v.from = "operand"  -> ContentOf(v.operand)
                 [] v.from = "function" -> FunctionAt(v.fn, CaptureOp(v.captures))

\* The rest of the activation, with other changes of it.
Step(f) == frames' = [frames EXCEPT ![Len(frames)] = [f EXCEPT !.code = Tail(@)]]

StartMain ==
    /\ phase = "start"
    /\ phase' = "run"
    /\ frames' = <<Activation(<<>>, Append(g.code,
                      [k |-> "call", value |-> [from |-> "function", captures |-> {},
                          fn |-> g.funs[<< <<>>, <<"main">> >>].id]]), <<>>, 0)>>
    /\ UNCHANGED <<genVars, memory, activations, out>>

\* VariableOp: a captured variable gets a cell of its own on the heap, each
\* time; another has its place in the activation.
HeapSize == Cardinality({a \in DOMAIN memory : a.area = "heap"})
\* Mutant: one place for all activations of a captured variable.
AllocateStatic(id) == IF id \in g.heap THEN Address("heap", 0, id, "") ELSE Address("stack", Top.n, id, "")
Allocate(id) == IF id \in g.heap THEN Address("heap", HeapSize + 1, id, "")
                ELSE Address("stack", Top.n, id, "")

VariableOp ==
    /\ Ready("let")
    /\ LET a == Allocate(I.id)
       IN /\ memory' = Put(memory, a, Evaluate(I.value))
          /\ Step([Top EXCEPT !.slots = Put(@, I.id, a)])
    /\ UNCHANGED <<genVars, phase, activations, out>>

Constant ==
    /\ Ready("const")
    /\ Step([Top EXCEPT !.values = Put(@, I.id, Evaluate(I.value))])
    /\ UNCHANGED <<genVars, phase, memory, activations, out>>

StoreOp ==
    /\ Ready("store")
    /\ memory' = Put(memory, AddressOf(I.operand), Evaluate(I.value))
    /\ Step(Top)
    /\ UNCHANGED <<genVars, phase, activations, out>>

Increment ==
    /\ Ready("inc")
    /\ LET a == AddressOf(I.operand)
       IN memory' = Put(memory, a, Number(Numeric(Load(a)) + 1))
    /\ Step(Top)
    /\ UNCHANGED <<genVars, phase, activations, out>>

PrintOp ==
    /\ Ready("print")
    /\ out' = Append(out, Numeric(ContentOf(I.operand)))
    /\ Step(Top)
    /\ UNCHANGED <<genVars, phase, memory, activations>>

CallOp ==
    /\ Ready("call")
    /\ LET f == Evaluate(I.value)
       IN frames' = Append([frames EXCEPT ![Len(frames)].code = Tail(@)],
                           Activation(f.fn, CodeOf(f.fn), f.env, activations + 1))
    /\ activations' = activations + 1
    /\ UNCHANGED <<genVars, phase, memory, out>>

\* The variable of a for loop is declared before the loop.
ForOp ==
    /\ Ready("for")
    /\ LET a == Allocate(I.id)
       IN /\ memory' = Put(memory, a, Number(0))
          /\ frames' = [frames EXCEPT ![Len(frames)] =
                 [Top EXCEPT !.slots = Put(@, I.id, a),
                             !.code = I.body \o <<[I EXCEPT !.k = "next"]>> \o Tail(@)]]
    /\ UNCHANGED <<genVars, phase, activations, out>>

NextTurn ==
    /\ Ready("next")
    /\ LET a == Top.slots[I.id]
           v == Numeric(memory[a]) + 1
       IN /\ memory' = [memory EXCEPT ![a] = Number(v)]
          /\ frames' = [frames EXCEPT ![Len(frames)].code =
                            IF v < Turns THEN I.body \o @ ELSE Tail(@)]
    /\ UNCHANGED <<genVars, phase, activations, out>>

\* The stack of the activation is gone.
Return ==
    /\ Running /\ Top.code = <<>>
    /\ frames' = Front(frames)
    /\ memory' = [a \in {a \in DOMAIN memory : ~(a.area = "stack" /\ a.n = Top.n)} |-> memory[a]]
    /\ phase' = IF Len(frames) = 1 THEN "done" ELSE "run"
    /\ UNCHANGED <<genVars, activations, out>>

Execute == \/ VariableOp \/ Constant \/ StoreOp \/ Increment \/ PrintOp
           \/ CallOp \/ ForOp \/ NextTurn \/ Return

Terminated == phase \in {"done", "rejected"} /\ UNCHANGED vars

Next == DiscoverPass \/ GeneratePass \/ StartMain \/ Execute \/ Terminated

Spec == Init /\ [][Next]_vars
-----------------------------------------------------------------------------
(***************************************************************************)
(* The programs that are compiled as they are written.                     *)
(***************************************************************************)
RECURSIVE Tree(_, _)
Tree(b, p) ==
    UNION {{[at |-> Append(p, i), s |-> b[i]]}
           \cup (IF "body" \in DOMAIN b[i] THEN Tree(b[i].body, Append(p, i)) ELSE {}) : i \in DOMAIN b}

Functions(ts)   == {t \in ts : t.s.k \in {"function", "lambda"}}
DeclaresName(t) == Declares(t.s) \/ t.s.k \in {"var", "for"}
Uses(t) == CASE t.s.k \in {"inc", "print", "call"}    -> {t.s.name}
             [] t.s.k = "copy"                       -> {t.s.from}
             [] t.s.k = "lambda" /\ t.s.kind = "set" -> {t.s.name}
             [] OTHER                                -> {}
Precedes(p, q) == \E i \in DOMAIN p \cap DOMAIN q :
                      p[i] < q[i] /\ \A j \in 1..(i - 1) : p[j] = q[j]

\* What a name stands for at a place: the declaration in the innermost scope.
FunctionOf(p, ts) == LET fs == {<<>>} \cup {t.at : t \in {t \in Functions(ts) : IsPrefix(t.at, p)}}
                     IN CHOOSE q \in fs : \A r \in fs : Len(r) <= Len(q)
ScopeOf(t, ts)    == CASE t.s.k = "var" -> FunctionOf(Front(t.at), ts)
                       [] t.s.k = "for" -> t.at
                       [] OTHER         -> Front(t.at)
Meaning(n, p, ts) ==
    LET named == {t \in ts : DeclaresName(t) /\ t.s.name = n}
        seen  == {t \in named : IsPrefix(ScopeOf(t, ts), p)}
    IN {t \in seen : \A u \in seen : Len(ScopeOf(u, ts)) <= Len(ScopeOf(t, ts))}

\* The variables and functions of others that each function uses, and the
\* variables it captures: those the functions it uses capture, too.
Frees(ts) ==
    [t \in Functions(ts) |->
        LET inside == {u \in ts : IsPrefix(t.at, u.at) /\ u # t}
        IN {d \in UNION {UNION {Meaning(n, u.at, ts) : n \in Uses(u)} : u \in inside} :
               d = t \/ ~IsPrefix(t.at, d.at)}]
Local(d) == d.s.k \notin {"function", "var"} /\ Len(d.at) > 1
RECURSIVE Reached(_, _)
Reached(fs, free) ==
    LET more == fs \cup {d \in UNION {free[f] : f \in fs} : d.s.k = "function"}
    IN IF more = fs THEN fs ELSE Reached(more, free)
Captured(free) == [t \in DOMAIN free |-> {d \in UNION {free[f] : f \in Reached({t}, free)} : Local(d)}]

\* A function uses what is declared before it: it is discovered once, and a
\* function it does not find then has to have captured nothing.
DeclaredFirst(free) ==
    LET captured == Captured(free)
    IN \A t \in DOMAIN free : \A d \in free[t] :
           \/ Precedes(d.at, t.at)
           \/ d.s.k = "for" /\ IsPrefix(d.at, t.at)
           \/ d.s.k = "function" /\ captured[d] = {}

\* Wherever a function is called, a name it has captured stands for what it
\* stands for in the function: the captures are resolved at the reference.
SameVariables(free, ts) ==
    LET captured == Captured(free)
    IN \A c \in ts : c.s.k = "call" =>
           \A f \in Meaning(c.s.name, c.at, ts) : f.s.k = "function" =>
               \A d \in captured[f] : Meaning(d.s.name, c.at, ts) = {d}

\* A var is a global of the module, and looked up after the other variables.
VarsApart(ts) ==
    \A t, u \in {t \in ts : DeclaresName(t)} : t.s.k = "var" /\ t.s.name = u.s.name =>
        t = u \/ (u.s.k # "var" /\ ~IsPrefix(ScopeOf(u, ts), ScopeOf(t, ts)))

\* A constant that is the copy of a variable is captured as the variable.
CopiesStay(free, ts) ==
    \A t, u \in ts : t.s.k = "copy" /\ u.s.k = "inc" =>
        (t.s.kind = "const" /\ u.s.name = t.s.from => \A f \in DOMAIN free : t \notin free[f])

\* A loop has one variable, and a nested function one for each of its var:
\* a closure that has it is kept no longer than the turn, or there is none.
OwnVariables(free, ts) ==
    \A f \in DOMAIN free : \A t \in free[f] :
        CASE t.s.k = "for" -> \A d \in Meaning(f.s.name, f.at, ts) : IsPrefix(t.at, d.at)
          [] t.s.k = "var" -> Len(FunctionOf(t.at, ts)) = 1
          [] OTHER         -> TRUE

Resolvable(p) == LET ts   == Tree(p, <<>>)
                     free == Frees(ts)
                 IN DeclaredFirst(free) /\ SameVariables(free, ts) /\ VarsApart(ts)
Supported(p)  == LET ts   == Tree(p, <<>>)
                     free == Frees(ts)
                 IN Resolvable(p) /\ CopiesStay(free, ts) /\ OwnVariables(free, ts)

-----------------------------------------------------------------------------
(***************************************************************************)
(* Properties.                                                             *)
(***************************************************************************)
\* A supported program prints what it is written to print, whatever mixture
\* of references, values and globals its functions reach their variables by.
RunsAsWritten == phase = "done" /\ Supported(program) => out = expected

\* A well formed program is rejected only for what it declares too late, or
\* for a name that means something else where a function is called.
Compiles == phase = "rejected" => ~Resolvable(program)

\* The names kept for a function by its one discovery are those of the
\* variables it and the functions it calls take from around it.
CapturesFound ==
    phase = "start" /\ Resolvable(program) =>
        LET captured == Captured(Frees(Tree(program, <<>>)))
        IN \A f \in {f \in DOMAIN captured : Len(f.at) > 1} : \E key \in DOMAIN g.funs :
               /\ g.funs[key].id = f.at
               /\ {c.name : c \in g.funs[key].captures} = {d.s.name : d \in captured[f]}

\* No closure refers to a variable whose activation is over.
Environments == {frames[i].env : i \in DOMAIN frames}
                \cup {memory[a].env : a \in {a \in DOMAIN memory : memory[a].is = "closure"}}
NoDanglingCapture ==
    \A env \in Environments : \A n \in DOMAIN env : env[n].rw => env[n].address \in DOMAIN memory
=============================================================================
