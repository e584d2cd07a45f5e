-------------------------- MODULE PythonAuthoring --------------------------
(***************************************************************************)
(* Workflows written in Python (bindings/cloaca-backend: workflow.rs,      *)
(* task.rs).  WorkflowBuilder(name, package=..., workflow=...) has a name  *)
(* and a context, the package and workflow its tasks belong to: "embedded" *)
(* and the name, unless they are given.  "with" puts the context on one    *)
(* stack for the whole process, @task enters a function in the task        *)
(* registry under the context on top of it, and leaving the block makes a  *)
(* workflow of everything the registry then holds under its context.  A    *)
(* builder can also be given tasks one by one, and what it builds be       *)
(* registered under any name; what it builds has the builder's name and    *)
(* the package "embedded", whatever its context.                           *)
(*                                                                         *)
(* Each step holds the interpreter's lock; between two of them another     *)
(* thread may run.  A block of the same context may be entered again, a    *)
(* block within a block, and a function defined again.  The tenant, which  *)
(* a builder gives to its context and to what it builds, is left out.      *)
(***************************************************************************)
EXTENDS Naturals, Sequences, FiniteSets

CONSTANTS
    Thread,
    Module,   \* the names of its workflows
    Embedded, \* the package of whatever is given none
    Context,  \* the packages and workflows its tasks belong to
    Function, \* the tasks it defines, by id
    MaxDefs,  \* bound: definitions of functions
    MaxBlocks, \* bound: with blocks entered
    Nothing

ASSUME AuthoringAssumption ==
    /\ \A c \in Context : c = [package |-> c.package, workflow |-> c.workflow]
    /\ {c.workflow : c \in Context} \subseteq Module
    /\ \A S \in SUBSET Function : S # Nothing
    /\ MaxDefs \in Nat /\ MaxBlocks \in Nat

VARIABLES
    stack,      \* WORKFLOW_CONTEXT_STACK
    inside,     \* the blocks each thread is in, innermost last
    registry,   \* the task registry: dependencies by full name, if registered
    registered, \* the workflow registry: a workflow by name, if registered
    meant,      \* history: the full names written, by the block they stand in
    disturbed,  \* history: has a thread entered a block, or defined a function,
                \* while another was in a block?
    defs, blocks

authoringVars == <<stack, inside, registry, registered, meant, disturbed, defs, blocks>>

Builder == [name : Module, context : Context]

Names == Context \X Function

OthersInside(t) == \E u \in Thread \ {t} : inside[u] # <<>>

-----------------------------------------------------------------------------
\* __enter__: push the context.
EnterBlock(t, c) ==
    /\ blocks < MaxBlocks
    /\ blocks' = blocks + 1
    /\ stack' = Append(stack, c)
    /\ inside' = [inside EXCEPT ![t] = Append(@, c)]
    /\ disturbed' = (disturbed \/ OthersInside(t))
    /\ UNCHANGED <<registry, registered, meant, defs>>

\* The context on top of the stack, whoever has put it there.
Current == stack[Len(stack)]

\* The full name function f is written under: none outside of every block.
WrittenBy(t, f) == IF inside[t] = <<>> THEN {} ELSE {<<inside[t][Len(inside[t])], f>>}

\* @task: the function and its dependencies get the current context; only where
\* no thread at all is in a block does it raise.  A constructor that is there
\* already is replaced.
Define(t, f, deps) ==
    /\ defs < MaxDefs
    /\ stack # <<>>
    /\ registry' = [registry EXCEPT ![<<Current, f>>] = deps]
    /\ meant' = meant \cup WrittenBy(t, f)
    /\ disturbed' = (disturbed \/ OthersInside(t))
    /\ defs' = defs + 1
    /\ UNCHANGED <<stack, inside, registered, blocks>>

\* The tasks the registry holds under a context.
Decorated(c) == {f \in Function : registry[<<c, f>>] # Nothing}

\* A workflow: its tasks bear the names under "at", their dependencies, which
\* are of the context they were defined in, those under "from".
Workflow(at, from, S) ==
    [at |-> at, from |-> from, tasks |-> [f \in S |-> registry[<<from, f>>]]]

\* Workflow::validate: there is a task, none is missing, none goes round.
IsValid(W) ==
    LET names == {W.at} \X DOMAIN W.tasks
    IN  /\ names # {}
        /\ \A f \in DOMAIN W.tasks : {W.from} \X W.tasks[f] \subseteq names
        /\ ~\E S \in SUBSET DOMAIN W.tasks : S # {} /\ \A f \in S : W.tasks[f] \cap S # {}

\* The workflow registry knows a workflow by a name alone.
Register(name, W) == registered' = [registered EXCEPT ![name] = W]

\* Mutant of the definition below.
PoppedIfValid(W) == IF IsValid(W) THEN SubSeq(stack, 1, Len(stack) - 1) ELSE stack

\* The context on top goes, before anything is looked at.
Popped(W) == SubSeq(stack, 1, Len(stack) - 1)

\* Mutant of the definition below.
HasTasks(W) == DOMAIN W.tasks # {}

\* What a block has collected is registered only when it validates.
MayRegister(W) == IsValid(W)

\* __exit__, also after an exception in the block: pop, collect, validate and
\* register; when that fails the block raises.
LeaveBlock(t) ==
    /\ inside[t] # <<>>
    /\ LET c == inside[t][Len(inside[t])]
           W == Workflow(c, c, Decorated(c))
       IN  /\ stack' = Popped(W)
           /\ IF MayRegister(W) THEN Register(c.workflow, W) ELSE UNCHANGED registered
    /\ inside' = [inside EXCEPT ![t] = SubSeq(@, 1, Len(@) - 1)]
    /\ UNCHANGED <<registry, meant, disturbed, defs, blocks>>

\* add_task looks a task up in the context of the builder, ...
Adds(b, S) == S \subseteq Decorated(b.context)

\* ... but Workflow::builder was given the name and the tenant only.
BuiltAt(b) == [package |-> Embedded, workflow |-> b.name]

\* build validates, and register_workflow_constructor keeps what was built under
\* the name it is given.  The lookups are taken together with the build: no
\* function is defined again between them.
RegisterBuilt(name, b, S) ==
    LET W == Workflow(BuiltAt(b), b.context, S)
    IN  /\ Adds(b, S)
        /\ IsValid(W)
        /\ Register(name, W)
        /\ UNCHANGED <<stack, inside, registry, meant, disturbed, defs, blocks>>

AuthoringInit ==
    /\ stack = <<>> /\ inside = [t \in Thread |-> <<>>]
    /\ registry = [n \in Names |-> Nothing]
    /\ registered = [w \in Module |-> Nothing]
    /\ meant = {} /\ disturbed = FALSE
    /\ defs = 0 /\ blocks = 0

AuthoringNext ==
    \/ \E t \in Thread, c \in Context : EnterBlock(t, c)
    \/ \E t \in Thread, g \in Function, deps \in SUBSET Function : Define(t, g, deps)
    \/ \E t \in Thread : LeaveBlock(t)
    \/ \E name \in Module, b \in Builder, S \in SUBSET Function : RegisterBuilt(name, b, S)

AuthoringSpec == AuthoringInit /\ [][AuthoringNext]_authoringVars

-----------------------------------------------------------------------------
(***************************************************************************)
(* What must hold.                                                         *)
(***************************************************************************)

\* A registered workflow can be carried out: it is valid, and the executor
\* finds each of its tasks under the full name its rows bear, even when the
\* functions have been defined again since.  Not so of what a builder built
\* that was given a package or a workflow: its tasks bear other names than
\* those they were entered under, so nothing is said of them.
RegisteredCanRun ==
    \A name \in Module :
        LET W == registered[name]
        IN  W # Nothing => /\ IsValid(W)
                           /\ W.from = W.at =>
                                 \A f \in DOMAIN W.tasks : registry[<<W.at, f>>] # Nothing

\* As long as no thread enters a block or defines a function while another is
\* in a block, tasks go where they are written, through blocks within blocks
\* and blocks that raise; and outside every block the stack is empty, so that
\* @task raises there.  (Two threads share the stack, and take each other's
\* contexts: see the README.)
TasksGoWhereWritten ==
    ~disturbed =>
        /\ {n \in Names : registry[n] # Nothing} = meant
        /\ (\A t \in Thread : inside[t] = <<>>) => stack = <<>>
=============================================================================
