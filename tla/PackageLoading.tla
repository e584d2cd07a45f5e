--------------------------- MODULE PackageLoading ---------------------------
(***************************************************************************)
(* One package through its editions, task by task: what its author wrote   *)
(* is expanded by the packaged_workflow macro and built, the library is    *)
(* registered, and the reconciler of a process puts its tasks into the     *)
(* task registry of the process and a constructor for its workflow into    *)
(* the workflow registry.  The constructor keeps names only: whenever the  *)
(* scheduler calls it, it collects the tasks that are then in the task     *)
(* registry under the names of the package and the workflow.               *)
(*                                                                         *)
(* PackageRegistry has the storage, the other packages and the other       *)
(* processes, and the list of packages that gets old during a pass; it     *)
(* takes the tasks of a package for one thing.  Here they come and go one  *)
(* by one, and those of different editions can meet.                       *)
(*                                                                         *)
(* A source is a function from the tasks it declares to the tasks they     *)
(* depend on; all are of one tenant, package and workflow name.  A source  *)
(* declares at least one task.                                             *)
(***************************************************************************)
EXTENDS PackageIntake, FiniteSets

CONSTANTS
    Task,
    Editions,     \* how many editions of the package there may be
    Sources,      \* what an edition may declare
    Foreign,      \* archives that were not made by compile_workflow
    Elsewhere,    \* tasks the compile-time registry knows from other modules
    Pipelines,
    MaxRestarts,  \* bound: times the process is started again
    None

ASSUME LoadingAssumption ==
    /\ IsFiniteSet(Task)
    /\ Editions \in Nat /\ MaxRestarts \in Nat
    /\ \A src \in Sources : DOMAIN src \in (SUBSET Task) \ {{}} /\ src \in [DOMAIN src -> SUBSET Task]
    /\ Elsewhere \subseteq Task
    /\ Foreign \subseteq Seq(Entry)
    /\ None \notin [Task -> 0 .. Editions] \cup Seq(Entry)

Edition == 1 .. Editions

VARIABLES
    source,      \* what the author wrote
    package,     \* the package files of the editions
    answer,      \* what the client that registered the edition was told
    row,         \* the edition that is registered, 0 if none
    host,        \* the task registry of the process: whose task is it, 0 if not there
    registered,  \* is there a constructor in the workflow registry?
    step,        \* where the reconciler stands
    cur,         \* the edition it is loading, 0 if none
    todo,        \* the tasks of it that are still to be put into the registry
    loaded,      \* loaded_packages: the edition, 0 if none
    own,         \* the edition a client registers from within this process
    ownTodo,     \* ... and its tasks that are still to be put into the registry
    plan,        \* what a pipeline has been scheduled with
    disturbed,   \* has a load failed, or a client registered here, since the start?
    restarts     \* bound

memory == <<host, registered, step, cur, todo, loaded, own, ownTodo, disturbed>>
files == <<source, package, answer>>
vars == <<source, package, answer, row, memory, plan, restarts>>

TypeOK ==
    /\ source \in [Edition -> Sources]
    /\ package \in [Edition -> Foreign \cup {Packed, None}]
    /\ answer \in [Edition -> {"none", "ok", "error"}]
    /\ row \in Edition \cup {0}
    /\ host \in [Task -> Edition \cup {0}]
    /\ registered \in BOOLEAN
    /\ step \in {"idle", "tasks", "workflow", "unregister"}
    /\ cur \in Edition \cup {0}
    /\ cur # 0 <=> step \in {"tasks", "workflow"}
    /\ todo \subseteq Task /\ (todo # {} => step = "tasks")
    /\ loaded \in Edition \cup {0}
    /\ own \in Edition \cup {0}
    /\ ownTodo \subseteq Task /\ (ownTodo # {} => own # 0)
    /\ plan \in [Pipelines -> [Task -> Edition \cup {0}] \cup {None}]
    /\ disturbed \in BOOLEAN
    /\ restarts \in 0 .. MaxRestarts

Nothing == [t \in Task |-> 0]

Init ==
    /\ source \in [Edition -> Sources]
    /\ package = [e \in Edition |-> None] /\ row = 0
    /\ answer = [e \in Edition |-> "none"]
    /\ host = Nothing /\ registered = FALSE
    /\ step = "idle" /\ cur = 0 /\ todo = {} /\ loaded = 0
    /\ own = 0 /\ ownTodo = {}
    /\ plan = [p \in Pipelines |-> None]
    /\ disturbed = FALSE /\ restarts = 0

-----------------------------------------------------------------------------
(***************************************************************************)
(* Expansion.                                                              *)
(***************************************************************************)

Undefined(src) == (UNION {src[t] : t \in DOMAIN src}) \ DOMAIN src

\* detect_package_cycles: dependencies on other tasks than its own are skipped.
HasCycle(src) ==
    \E S \in SUBSET DOMAIN src : S # {} /\ \A t \in S : src[t] \cap S # {}

\* generate_packaged_workflow_impl: a task may depend on one the compile-time
\* registry knows from elsewhere, although the exported dependency then names
\* a task of this package that does not exist.
Expands(src) == Undefined(src) \subseteq Elsewhere /\ ~HasCycle(src)

\* package_workflow, of a project that passes the checks of its crate.
Compile(e) ==
    /\ package[e] = None
    /\ Expands(source[e])
    /\ package' = [package EXCEPT ![e] = Packed]
    /\ UNCHANGED <<source, answer, row, memory, plan, restarts>>

\* The module, expanded, in a file somebody else has put together.
Assemble(e) ==
    /\ package[e] = None
    /\ Expands(source[e])
    /\ \E archive \in Foreign : package' = [package EXCEPT ![e] = archive]
    /\ UNCHANGED <<source, answer, row, memory, plan, restarts>>

\* The tasks get_task_metadata of the library lists, which are copied before
\* the library is closed.
Exported(e) == DOMAIN source[e]

-----------------------------------------------------------------------------
(***************************************************************************)
(* Registration.                                                           *)
(***************************************************************************)

\* The version of every edition is 1.0.0: one at a time can be registered.
\* What is registered again later is an edition of its own with the same source.
Stores(e) ==
    package[e] # None /\ answer[e] = "none" /\ row = 0 /\ IsStored(package[e])

\* Mutant of the definition below: an error at the last step is not told.
AnswerOk(e) == "ok"

\* When the tasks cannot be registered the client is told of an error; the row
\* and the binary stay.
Answer(e) == IF IsAccepted(package[e]) THEN "ok" ELSE "error"

\* register_workflow in another process.
Register(e) ==
    /\ Stores(e)
    /\ row' = e
    /\ answer' = [answer EXCEPT ![e] = Answer(e)]
    /\ UNCHANGED <<source, package, memory, plan, restarts>>

\* register_workflow in this process: the tasks go into its registry as well.
RegisterHere(e) ==
    /\ Stores(e) /\ own = 0
    /\ row' = e
    /\ answer' = [answer EXCEPT ![e] = Answer(e)]
    /\ IF IsAccepted(package[e])
         THEN own' = e /\ ownTodo' = Exported(e) /\ disturbed' = TRUE
         ELSE UNCHANGED <<own, ownTodo, disturbed>>
    /\ UNCHANGED <<source, package, host, registered, step, cur, todo, loaded, plan, restarts>>

OwnTask(t) ==
    /\ t \in ownTodo
    /\ host' = [host EXCEPT ![t] = own]
    /\ ownTodo' = ownTodo \ {t}
    /\ own' = IF ownTodo = {t} THEN 0 ELSE own
    /\ UNCHANGED <<files, row, registered, step, cur, todo, loaded, plan, disturbed, restarts>>

\* unregister_workflow: the tasks stay, "global registry doesn't support
\* removal yet".
Unregister ==
    /\ row # 0
    /\ row' = 0
    /\ UNCHANGED <<files, memory, plan, restarts>>

-----------------------------------------------------------------------------
(***************************************************************************)
(* What the workflow is made of.                                           *)
(***************************************************************************)

Held(h) == {t \in Task : h[t] # 0}
DependsOn(h) == [t \in Held(h) |-> source[h[t]][t]]

\* Workflow::validate of the tasks in the registry.
IsValid(h) ==
    /\ Held(h) # {}
    /\ Undefined(DependsOn(h)) = {}
    /\ ~HasCycle(DependsOn(h))

\* create_workflow_from_host_registry_static, or the empty workflow.
Constructed == IF IsValid(host) THEN host ELSE Nothing

Whole(e) == [t \in Task |-> IF t \in Exported(e) THEN e ELSE 0]

-----------------------------------------------------------------------------
(***************************************************************************)
(* RegistryReconciler.                                                     *)
(***************************************************************************)

\* Mutant of the definition below: an edition in the place of another is missed.
MustUnloadGone == loaded # 0 /\ row = 0

MustUnload == loaded # 0 /\ loaded # row

\* Mutant of the definition below: nothing is taken out.
Kept(e) == host

\* By name, whichever edition the task is of by now.
Without(e) == [t \in Task |-> IF t \in Exported(e) THEN 0 ELSE host[t]]

UnloadTasks ==
    /\ step = "idle" /\ MustUnload
    /\ host' = Without(loaded)
    /\ loaded' = 0
    /\ step' = "unregister"
    /\ UNCHANGED <<files, row, registered, cur, todo, own, ownTodo, plan, disturbed, restarts>>

UnloadWorkflow ==
    /\ step = "unregister"
    /\ registered' = FALSE
    /\ step' = "idle"
    /\ UNCHANGED <<files, row, host, cur, todo, loaded, own, ownTodo, plan, disturbed, restarts>>

\* load_package up to its first task.  A package it cannot read is tried again
\* at the next pass, and leaves nothing behind.
BeginLoad ==
    /\ step = "idle" /\ loaded = 0 /\ row # 0
    /\ Loads(package[row])
    /\ cur' = row /\ todo' = Exported(row)
    /\ step' = "tasks"
    /\ UNCHANGED <<files, row, host, registered, loaded, own, ownTodo, plan, disturbed, restarts>>

\* TaskRegistrar::register_package_tasks, under the lock once for each task.
LoadTask(t) ==
    /\ t \in todo
    /\ host' = [host EXCEPT ![t] = cur]
    /\ todo' = todo \ {t}
    /\ step' = IF todo = {t} THEN "workflow" ELSE step
    /\ UNCHANGED <<files, row, registered, cur, loaded, own, ownTodo, plan, disturbed, restarts>>

\* register_package_workflows.  When it fails the tasks stay in the registry
\* and are not in loaded_packages: nobody will take them out.
LoadWorkflow ==
    /\ step = "workflow"
    /\ IF IsValid(host)
         THEN registered' = TRUE /\ loaded' = cur /\ UNCHANGED disturbed
         ELSE disturbed' = TRUE /\ UNCHANGED <<registered, loaded>>
    /\ step' = "idle" /\ cur' = 0
    /\ UNCHANGED <<files, row, host, todo, own, ownTodo, plan, restarts>>

-----------------------------------------------------------------------------
\* schedule_workflow_execution.
Schedule(p) ==
    /\ plan[p] = None
    /\ registered
    /\ plan' = [plan EXCEPT ![p] = Constructed]
    /\ UNCHANGED <<files, row, memory, restarts>>

\* The registries are in memory only.
Restart ==
    /\ restarts < MaxRestarts
    /\ restarts' = restarts + 1
    /\ host' = Nothing /\ registered' = FALSE
    /\ step' = "idle" /\ cur' = 0 /\ todo' = {} /\ loaded' = 0
    /\ own' = 0 /\ ownTodo' = {} /\ disturbed' = FALSE
    /\ UNCHANGED <<files, row, plan>>

Reconcile ==
    \/ UnloadTasks \/ UnloadWorkflow \/ BeginLoad \/ LoadWorkflow
    \/ \E t \in Task : LoadTask(t)

Next ==
    \/ \E e \in Edition : Compile(e) \/ Assemble(e) \/ Register(e) \/ RegisterHere(e)
    \/ \E t \in Task : OwnTask(t)
    \/ Unregister
    \/ Reconcile
    \/ \E p \in Pipelines : Schedule(p)
    \/ Restart

Spec == Init /\ [][Next]_vars

\* The loop of the reconciler wakes up again and again.
FairSpec == Spec /\ WF_vars(Reconcile)

-----------------------------------------------------------------------------
(***************************************************************************)
(* Properties.                                                             *)
(***************************************************************************)

\* While no load has failed and no client has registered from within the
\* process, a pipeline is scheduled with the tasks of one edition, all of
\* them, or with none at all: the constructor that runs between the removal
\* of the tasks and that of the workflow falls back to the empty workflow.
PlanIsWholeOrEmpty ==
    [][\A p \in Pipelines :
          plan[p] = None /\ plan'[p] # None /\ ~disturbed =>
            \/ plan'[p] = Nothing
            \/ \E e \in Edition : package[e] # None /\ plan'[p] = Whole(e)]_vars

\* An edition that stays registered is loaded in the end and stays so, in a
\* process where no load fails and no client registers, if it can be read.
EditionIsLoaded ==
    \A e \in Edition :
        <>[](row = e /\ ~disturbed /\ Loads(package[e])) => <>[](loaded = e)

\* What a client has been told is registered can be loaded by every process,
\* if there is one library in the archive: with several, the one that is
\* checked and the one that is loaded can be different.
AcceptedLoads ==
    \A e \in Edition :
        answer[e] = "ok" /\ OneLibrary(package[e]) => Loads(package[e])
=============================================================================
