# Cloacina: verification project

Cloacina executes workflows of tasks that live in one process and one SQL
database. This directory holds TLA+ models of the parts that carry its logic,
TLC configurations that check them on small instances, and TLAPS proofs of
theorems about them. Paths below are relative to `crates/cloacina/src/`
unless they start with `src/`, `docs/`, `cloacina-macros/` or `bindings/`.

## The system

| Component | State it keeps | Operations | Who calls it |
|---|---|---|---|
| Data access (`dal/unified`) | rows of `pipeline_executions`, `task_executions`, `task_execution_metadata`, `contexts`, `cron_schedules`, `cron_executions`, `workflow_packages` | one statement or transaction per method; almost every update is unconditional | everybody below |
| Scheduler (`task_scheduler`) | none between passes; during a pass, the active pipelines and their undecided tasks as read at its start | decide on tasks, complete pipelines; recover tasks at start-up | its own interval timer |
| Dispatcher (`dispatcher`) | executors by key, routing patterns | route a task, await its execution, write its end | the scheduler, inside the pass |
| Executor (`executor`) | counters | load the context, run the body under a timeout, save the output, mark the task, or schedule a retry | the dispatcher |
| Runner (`runner`) | background services, shutdown signal | submit, wait for, cancel a workflow; start and stop the services | clients, cron |
| Recovery (`task_scheduler/recovery.rs`) | none | reset or abandon tasks found Running, fail their pipelines | a starting scheduler |
| Cron scheduler and recovery (`cron_scheduler.rs`, `cron_recovery.rs`) | attempts per lost execution, in memory | claim due schedules, write the audit row, execute, link; look for audit rows without a pipeline | their own timers |
| Registry and reconciler (`registry`) | loaded packages, in memory; package rows and binaries in storage | register, unregister, reconcile loaded with stored packages | clients, its own timer |
| Workflow (`workflow`, `graph.rs`, `task.rs`) | tasks and a dependency graph | add, remove, validate, order, levels, subgraph | whoever writes a workflow, the scheduler |
| Macros and packaging (`cloacina-macros`, `packaging`, `registry/loader`) | the registry of the compiler; archives | generate registrations, check, build, validate, load | the compiler, the registry, the reconciler |
| Connections and tenants (`database`) | pools, the search path of each connection, schemas and users | connect, set up a schema, create and remove a tenant | everybody, an administrator |
| Python bindings (`bindings/cloaca-backend`) | a thread with a runtime per runner, a queue of messages; one stack of workflow contexts | execute, cron calls, shutdown; `with` blocks and `@task` | Python programs |

How they interact. A client's `execute` writes a pipeline row and one row per
task in one transaction, then polls for the end. The scheduler loop reads the
active pipelines, then all their undecided tasks, and works through that
snapshot. A task whose dependencies are all over has its trigger rule
evaluated and is marked Skipped, or Ready and handed to the dispatcher; the
dispatcher awaits the executor, so the body runs **inside** the pass, and the
executor and the dispatcher both write the end of the task. When every task of
a pipeline is over its final context is chosen and it is marked Completed.
Which workflows and tasks there are is decided by two registries of the
process, filled by macros, by Python blocks and by the reconciler; a pipeline
finds its tasks there by name each time. Components share the database and
these registries and nothing else.

Hard behaviours: clients and a second process write between any two statements
of a pass; a statement can fail with or without effect; the runner can stop at
any await; a snapshot is acted on long after it was read; completion, retry,
recovery, registration and loading each take several statements; a body may
call the runner that awaits it. `PROJECT.json` lists them as hazards with
their lines.

What makes each part correct:

* scheduler: dependencies first, decisions that stay true, no terminal task
  reopened, no pipeline completed early, every pipeline ends;
* executor and dispatcher: the output is there when the status says Completed,
  a retry is made, a body is given what its dependencies produced, it goes to
  the executor the patterns name, an error is judged as the policy says;
* recovery: an interrupted task is found, a bounded number of times;
* cron: a slot is executed once, none is lost, a claim has one winner;
* registry: a row has its binary, what is loaded converges to what is stored, a
  pipeline gets the tasks of one edition;
* workflow: what validates can be carried out, however it was written;
* tenants: rows stay in their schema, creation is all or nothing;
* Python: everyone who calls gets an answer, a stopped runner is quiet.

## Modules

| Module | Models | State |
|---|---|---|
| `WorkflowStore` | the three tables and the statements on them (`dal/unified`) | `pipe`, `pipeContext`, `status`, `attempt`, `doneAt`, `clock`, `output`, `context` |
| `TaskScheduler` | the loop with state manager, dispatcher, executor and completion; clients; failures; stop and start | `pc` and what the pass holds: `active`, `stale`, `seen`, `cur`, `event`, `input`, `outcome` |
| `WorkflowLifecycle` | what is promised: phases of a task, stages of a pipeline | `stage`, `phase` |
| `TwoRunners` | two instances of `TaskScheduler` on one store | two sets of loop variables |
| `TaskRouting` | the matching of routing patterns, used by the dispatcher of `TaskScheduler` | none |
| `DataFlow` | the contexts that travel along the tasks of a pipeline, native, packaged and Python bodies, and the judging of errors | `seen`, `given`, `saved`, `status`, `verdict`, `missed` |
| `TaskRecovery` | claims, reports and start-up recovery of any number of processes | rows `status`, `attempt`, `recoveries`, `abandoned` (the mark in `error_details`), `rewritten`, `pipe`; per process `pc`, `orphans`, `read`, `cur`, `task`, `work` |
| `CronScheduling` | the polling loop, the recovery service, the clients' schedules, on any number of runners; failed calls and restarts | database `row`, `claimedAt`, `linked`; per loop `pc`, `at`, `due`, `work`, `times`; per service `rpc`, `lost`, `hand`, `tries`; `now` |
| `PackageRegistry` | storage of packages by clients, reconciliation by processes, pipelines of packaged workflows | `row`, `blobs`; per client `cpc`, `arg`, `found`; per process `rpc`, `toUnload`, `toLoad`, `cur`, `loaded`, `tasks`, `workflows` |
| `PackageIntake` | what is in an archive and what each of its readers takes and accepts | none |
| `PackageLoading` | one package through its editions, task by task | `source`, `package`, `answer`, `row`; of the process `host`, `registered`, `step`, `todo`, `loaded`, `own`, `plan` |
| `WorkflowDefinition` | a workflow put together operation by operation, its validation and levels | `tasks`, `nodes`, `edges`, `remaining`, `completed` |
| `GraphAlgorithms` | the hand-written searches and orderings, turn by turn as written: a loop is a function from the number of its turns to its variables, and the calls that wait are a path | none |
| `WorkflowMacros` | `#[task]` and `workflow!`, at compile time, before main and when evaluated | `crate`, `known`, `lists`, `running`, `evaluated`, `bodies` |
| `PythonAuthoring` | `with WorkflowBuilder` blocks and `@task` on several threads | `stack`, `inside`, `registry`, `registered` |
| `PythonRunner` | the thread of a Python runner, its queue, the calls, nested calls and shutdown | `thread`, `queue`, `taken`, `lock`, `stop`, `call`, `job`, `pipeline`, `body`, `loop` |
| `Tenants` | schemas, users, pools and search paths | `tables`, `user`, `stage`, `path`, `out`, `rows` |
| `MC...` | instances for TLC; `MCWorkflowDefinition` composes the three ways to write a workflow, `MCData` the contexts and the tenants | |
| `...Proofs` | inductive invariants and theorems, see below | |

### Correspondence

One action is the code between two awaits (or, where nothing is awaited,
between two steps another thread can come between); `pc` names the await a loop
stands at.

| `pc` of `TaskScheduler` | Code |
|---|---|
| `idle`, `load`, `pick` | `scheduler_loop.rs` `run`, `process_pipelines_batch` |
| `next`, `rules`, `ready`, `skip` | `state_manager.rs` `update_pipeline_task_readiness` |
| `dispatch`, `handle` | `dispatcher/default.rs` `dispatch`, `handle_result` |
| `build`, `run`, `save`, `mark`, `retry` | `thread_task_executor.rs` `execute` |
| `check`, `final`, `complete` | `process_pipelines_batch`, `complete_pipeline` |
| `down` | no runner |

A context is represented by its provenance, the set of tasks that contributed
to it: that is what the properties tell apart, and a key of a context is named
after the task that writes it. Completion times come from a counter, so they
are distinct. A trigger rule is a record of its kind and its conditions, with
the four kinds and the four conditions of `trigger_rules.rs`; the operators on
context values are represented by the presence of a key. `Routed` is the set of
tasks that `Resolve` of `TaskRouting`, asked with the task's full name and the
configuration of the runner, sends to an executor that has capacity. The
conditions of a rule are read in one step: only the loop writes what they read.

Failures. `ReadinessFails`, `BuildFails`, `CompletionFails`, `ReportFails`,
`FinalContextFails` and `PassFails` let any call fail, either without effect or
with its effect and a lost reply, and go on where the code goes on: to the next
pipeline, with an empty context, with a failed result, with a logged warning,
or at the next pass. `Stop` ends the runner at any await, as a dropped future,
a panic or a dead process does; memory is lost and rows stay.

`TaskRouting` has names as sequences of segments and segments as sequences of
letters; `Resolve` takes the first rule whose pattern matches. `Documented` is
the same choice with the documented meaning of a pattern (`Covers`, `Globs`).

`DataFlow` opens up what `TaskScheduler` takes for one set: a context is a
function from its top-level keys to values, a value an atom, an array or an
object with fields, a body the list of its calls of `insert`, `update` and
`remove`. `seen` is what the scheduler merges to evaluate a rule
(`context_manager.rs`: in declared order, the whole value of a later dependency
in place of that of an earlier one), `given` what the executor merges for the
body (`thread_task_executor.rs`: in any order, since the query has none, arrays
joined and objects merged field by field; a read that fails leaves a dependency
out), `saved` what comes back through the wrapper of each kind of task
(`dynamic_task.rs` replaces whole values too). The executor's merge recurses
into objects in objects; here the fields of an object hold no further object.

`TaskRecovery` is the protocol the data access layer offers with
`claim_ready_task`: processes claim, run, report, end at any step, and start
with a recovery that goes through the orphans it read. The loop of
`TaskScheduler` does not claim, so there recovery finds nothing, which `Start`
states in its guard. A live task of another process is reset like an orphan;
the process that lost it goes on executing it, so what a process has in hand
(`work`) is a set of executions, each with the attempt it was claimed at, and
the same task may be in it twice.

`CronScheduling` shares no state with the others: a pipeline is to it a launch
and, later, an end. Its loop and its service are two sequences of steps that
every runner has.

| `pc` / `rpc` of `CronScheduling` | Code |
|---|---|
| `idle`, `query` | `cron_scheduler.rs` `run_polling_loop`, `check_and_execute_schedules` |
| `process` | `process_schedule` up to `claim_and_update` (`dal/unified/cron_schedule/state.rs`) |
| `record`, `launch`, `wait`, `link` | the loop over the slots of the claim: audit row, `execute`, link |
| `rpc`: `idle`, `next` | `cron_recovery.rs` `check_and_recover_lost_executions`, the checks of `recover_execution` |
| `rpc`: `launch`, `wait`, `link` | the rest of `recover_execution` |

Time is discrete. `Fires` gives the firing times of an expression in its time
zone, `NextExecution` and `ExecutionsBetween` are the evaluator on top of it; a
slot is a pair of a schedule and a firing time. A record is the slot's
`claimed_at`, and `linked` holds those with a pipeline. A client's change of an
expression is two steps, since it computes the next run before it writes it.
`polled`, `recovered`, `promised` and `claims` are history variables: how often
a slot was launched and by whom, and which slots and times were claimed. The
row a loop works on is the copy it read (`due`); the filter of the claim looks
at the row itself. A failed insert, launch or link goes on with the next slot,
a failed claim with the next schedule, a failed query with the next poll.

`PackageRegistry` has the storage and the processes: a client's registration is
check, store, insert; its removal find, row, blob; a reconciliation reads the
list, unloads, then looks up, fetches and loads package by package. The tasks of
a package are one thing there. `PackageLoading` opens it up for one package:
tasks are entered one by one, the workflow's constructor keeps names only and
collects whatever tasks are registered when the scheduler calls it, a client
that registers from within the process loads the library a second time.
`PackageIntake` has the readers of an archive: the registry's validator, the
loader, the reconciler and the debug tool.

`WorkflowDefinition` keeps the dependencies twice, as the code does: in each
task's list and in the graph. `WorkflowMacros` has the three moments of a
workflow in Rust: expansion (with a compiler registry that is skipped when its
lock is taken), the constructor before main, and the evaluated expression.
`PythonAuthoring` has the one stack of all threads, which `@task` asks and
nothing else. A context is a package and a workflow. What a block makes bears
its builder's context; what a builder is given task by task bears its name and
the package "embedded", and its tasks the context they were entered under, so a
workflow is recorded with both (`at`, `from`).

`PythonRunner`: a call puts a message in a queue and waits for its reply, the
thread takes messages one by one and starts a job for each, the scheduling loop
awaits one body at a time, and a shutdown joins the thread for five seconds at
most. A pipeline there is one task tried once.

`Tenants`: no table is qualified, so a row goes where the search path of its
connection leads. Building a runner is four interactions without a
transaction; creating and removing a tenant is one transaction each, so one
step; a step that rolls back changes nothing but is answered Ok.

## Runs

| Run | Instance | Shows |
|---|---|---|
| `sched_safety` | the diamond a, {b, c}, d; 2 attempts, 2 failed calls, 1 stop | `DependenciesSettled`, `DecisionsStand`, `NothingIsLost`, `TerminalIsFinal` |
| `sched_passes` | two pipelines (a, {b, c}; e without an executor), 1 failed call, 1 stop, fair; three routing rules, tried in order | `RoutedAsDocumented`, `EndedPipelineIsLeftAlone`, `ImplementsLifecycle`, `PipelineEndsOrIsStranded` |
| `retries` | one pipeline of two tasks with two attempts each, no failed call and no stop, fair | violation of `RetriedIsStartedAgain` |
| `two_runners` | a chain of two, two runners | violation of `OneExecutorPerTask` |
| `task_recovery` | two processes; a task of a known workflow with two attempts, one of an unknown workflow; limit 1, 2 failed calls or stops together, fair | `RecoveriesAreBounded`, `WorkIsBounded`, `AbandonedFailsPipeline`, `OrphanIsTakenUp` |
| `cron_races` | two runners, "RunAll"; five moments, 1 update, 1 edit, 1 failed call, 1 restart | `PolledOnce`, `ClaimedSlotIsKept`, `CatchUpIsComplete` |
| `cron_live` | one runner with the service, a schedule of each policy; four moments, 1 edit, 1 failed call, 1 restart, fair | `RecoveryIsBounded`, `DueIsClaimed`, `LostIsSettled` |
| `packages` | two packages, one broken; a process, two clients; 2 registrations, 1 removal, 1 failed call, 1 stop, fair | `RowHasBinary`, `LoadedConverges`, `PackagedPipelineRuns` |
| `package_loading` | two editions of a package of two tasks out of three, four sources and two foreign archives, 1 restart, fair | `AcceptedLoads`, `PlanIsWholeOrEmpty`, `EditionIsLoaded` |
| `workflow` | three tasks by operations; two functions by macros; two threads, two contexts of a workflow and two functions in Python | `CarriedOutInOrder`, `GraphAlgorithmsAgree`, `CompiledCanRun`, `RulesAreKept`, `RegisteredCanRun`, `TasksGoWhereWritten` |
| `python_runner` | a call whose body calls the runner again, two shutdowns, 1 failure, 1 cancellation, fair | `StoppedIsQuiet`, `EveryoneReturns` |
| `data` | the diamond, one task in Python, one packaged; two keys, objects of two fields, 1 failed read; or two tenants with a runner each, one runner without a schema, pools of 2, 3 administrative calls, 1 failure | `TypeOK`, `SoleWriterIsSeen`, `KindIsTransparent`, `RuleAndBodyAgree`, `DecisionsAgree`; `RowsStayHome`, `TenantIsWhole` |

Bounds of the scheduler. The diamond is the smallest graph with a join, two
candidates for the final context and a task that may come before its dependency
in the snapshot; its rules use every kind except `All` on a context key, which
the chain has. Two pipelines are needed for a pass that abandons the second one
after the first one failed. One failed call and one stop reach every failure
action at every position; two failed calls in `sched_safety` combine a lost
reply of `mark_completed` with a failure of the report that follows. A second
attempt is scheduled but never executed, so a third would add nothing.
Properties that hold only without failed calls say so (`faults = 0`):
`BuildFails` gives a body an empty context, and a lost reply leaves the output
of a task that is Failed. The routing rules of `sched_passes` overlap, so that
their order matters, and have a star before, behind and instead of letters, and
a double star before and between segments; that the matcher is right for all
patterns is proved.

Bounds of recovery. Two processes read the same count at the same time; a third
would be one more. One stop leaves an orphan and a second one, or a failed
call, cuts off its recovery at any step, so two of them together are the bound.
The limits are proved without it.

Bounds of cron. Two runners are what it takes for one to act on a copy the
other has made stale; a third is one more like the second. Four or five moments
leave room for a missed slot, a claim, an outage and the next claim;
`LostAfter` is one moment. One update, failed call or restart at every position
is what a step of theirs can do; the proofs do without these bounds. Runners
are interchangeable, and `cron_races` uses that symmetry. `MaxCatchup` is out
of reach, since catching up is stated without the limit. After the last moment
the clock stands still.

Bounds of the others. Recovery with a limit of 1 and two processes has a reset,
an abandoned task at the limit, two recoveries that overlap on what they read,
and a stop inside a recovery that the next one finishes. Two registrations and a
removal are a replacement, with another client between any two of its writes.
Two editions are an update; four sources have a changed task, a dependency
outside of the package and a cycle. Three tasks are the smallest cycle that is
neither a loop nor a pair, and the states give the graph algorithms every graph
on three nodes, with the nodes gone through in one order; the proofs take any
number of nodes and any order. Two threads are enough to share a stack, and a
builder that is given a package beside one that is not has both kinds of
context. Of the tasks in the middle of the diamond each can save an atom, an
array, an object with the same field or one with another. One nested call is a
body that awaits the loop that awaits it, two shutdowns are one that has nothing
left to join. Two connections are one that was routed and one that was not.

Deadlock is not checked in any run: with nothing to execute, after the last
moment or the last permitted call each system is at rest. That nobody waits for
ever is stated where it can happen: `EveryoneReturns`.

### Fairness

* `TaskScheduler`: `WF_vars(Loop)`, since the interval timer never stops, a body
  is bounded by `task_timeout`, and a statement returns; `WF_vars(Start)`: a
  stopped runner is started again.
* `CronScheduling`: `WF_vars(LoopNext(r))` and `WF_vars(RecoveryNext(r))`: both
  intervals tick for ever, and the pipeline timeout bounds the wait for a
  launched pipeline; `WF_vars(Tick)`: time passes.
* `TaskRecovery`: a process that ended is started again and goes through its
  recovery. Nobody has to claim, and a body may run for ever.
* `PackageRegistry` and `PackageLoading`: the interval of the reconciler ticks
  for ever, and so does that of the scheduler for pipelines that wait.
* `PythonRunner`: the runtime polls every job that is ready, timers fire,
  threads run. `Dispatch` has strong fairness: each pass of the scheduling loop
  goes through all active pipelines, so one that is there again and again, with
  other bodies between, is reached. A body returns, unless it waits for a call.

Clients, failures, stops and administrators are under no obligation anywhere.
`PipelineEndsOrIsStranded`, `LoadedConverges` and `PackagedPipelineRuns` need the
failures to be finitely many, which the bounds on them say.

### What the violations show

`retries`: a task whose attempt failed is put back to Ready for the next one, and
the loop asks only for NotStarted and Pending, so the attempt is never made and
the pipeline never ends, where
`docs/content/explanation/task-execution-sequence.md:357-362` has it marked ready
and executed again after the delay. No call fails and nothing stops.

`two_runners`: no claim is made before a body is started, so two runners that
read the same pending task both execute it, where
`docs/content/explanation/task-execution-sequence.md:126` says the claim
prevents it.

### What was met while modelling

Each of these is a disagreement between the code and what the repository says
of it, or a case its authors may not have meant. A property next to it states
what does hold.

Scheduler, executor and recovery:

* A retried task (`thread_task_executor.rs:630`), like one whose dispatch failed, is
  put to Ready, and the loop asks only for NotStarted and Pending: it is never
  executed again, though `task-execution-sequence.md:357-362` has it executed
  (run `retries`). It is the one way `PipelineEndsOrIsStranded` leaves a pipeline
  without an end.
* Nothing the runner calls writes Running, so start-up recovery, which looks for
  it (`recovery.rs:63`), finds nothing. With the claim protocol it works, as
  `OrphanIsTakenUp` shows, but it resets the live tasks of other processes too.
* An abandoned task is told by its status and the text in `error_details`
  (`dal/unified/task_execution/recovery.rs:175`). A process whose live task was
  abandoned, or another recovery, may write over the status before the pipeline
  is judged, which then stays Pending; the text stays, as `mark_failed`
  (`state.rs:83-153`) does not touch it, so a task that fails later reads as
  abandoned. `rewritten` in `AbandonedFailsPipeline` is that exception.
* `retry.rs:62` of `cloacina-workflow` has `max_attempts` not include the initial
  attempt; the code compares `attempt < max_attempts` with attempts counted from
  one, so it does. `WorkIsBounded` counts as the code does.
* Cancelled and Completed overwrite each other (`scheduler_loop.rs:199`), though
  both are terminal (`pipeline_executor.rs:143`).
* The statements of `complete_task_transaction` are not one transaction: a stop
  between them leaves a saved output and a task in Ready.
* A trigger rule that names a task outside of the workflow is validated by
  nobody; it makes every pass fail on its pipeline, which never ends.
* The executor merges the contexts of dependencies in the order of the database,
  arrays joined and objects recursively; the scheduler in declared order and
  shallowly, as `context-management.md:165` has it for both. So where several
  dependencies save an object under one key, a rule sees that of one of them and
  the body the fields of all, and where they save arrays, the rule one of them
  and the body all items. `RuleAndBodyAgree` and `SoleWriterIsSeen` say how far
  the two agree.
* The executor demands all retry conditions, the library any of them; "busy",
  "overloaded" and "rate limit" are transient for the library only. The names
  of the properties' exceptions in `DecisionsAgree` are these.
* A Python body that changes its context and returns None loses the changes, and
  a key a packaged body removes comes back (`KindIsTransparent`).
* Task names have four segments, so the documented patterns "ml::*" and
  "heavy_*" match none. A pattern whose last part overlaps the part before
  ("x*x" against "x") matches, and of two double stars at the end one needs a
  segment to stand for. `IsPlain` excludes these two and
  `RouterMatchesAsDocumented` shows they are the only ones; the first only ever
  matches too much.

Cron:

* A record is linked when its pipeline has ended, so a slow pipeline is taken for
  a lost one and its slot is launched again while it runs
  (`cron_recovery.rs:311`).
* A schedule is claimed before its slots are recorded; a stop in between loses
  them without a trace (`cron_scheduler.rs:283`).
* `executions_between` excludes its start, which its comment calls inclusive: a
  slot at the very time of a claim is in no range; `CatchUpIsComplete` names
  that exception and shows it is the only one.

Packages:

* A pipeline scheduled between the removal of a package's tasks and that of its
  workflow gets the empty workflow and completes at once, though `error.rs:206`
  refuses an empty one. `PlanIsWholeOrEmpty` has it as its first alternative.
* A failed load leaves the tasks it had entered, untracked; a corrected edition
  is then mixed with them until a restart (`disturbed`).
* A dependency the compiler's registry knows but the package does not compiles
  and fails to load. The registry checks the first library of any platform's
  extension, the loader takes the first of its own (`OneLibrary`).
* Every package is stored as version 1.0.0. `register_workflow` can answer with
  an error after the row and the binary are stored.
* Removing a package never looks whether it is in use, as `traits.rs:154` has it.

Writing workflows:

* After `remove_task` or `remove_dependency` lists and graph differ: the order
  can put a task before its dependency, and `get_execution_levels` may never
  return. `CarriedOutInOrder` therefore speaks of workflows that were only
  added to, or whose levels were not asked for.
* A workflow written in Rust can be scheduled before its expression was
  evaluated, and its tasks are found nowhere then; the task `workflow!` enters is named
  after the constructor less every "_task", whatever its id. `AsDocumented`
  in `CompiledCanRun` excludes the second, `evaluated` the first.
* Two Python threads inside `with` blocks share the stack and take each other's
  names, and `@task` in a thread outside of every block takes the block of
  another thread where it should raise (`bindings/cloaca-backend/src/task.rs:47-54`);
  `disturbed` in `TasksGoWhereWritten` is that exception. A block that raises
  still registers.
* A builder that is given `package=` or `workflow=` looks its tasks up under
  them, but `build` makes a workflow of its name in the package "embedded"
  (`bindings/cloaca-backend/src/workflow.rs:40-48`). A root task of it is
  registered with the workflow and not found by the executor; one with
  dependencies does not build, since those are missing. `RegisteredCanRun`
  promises nothing of the tasks of such a workflow. The registry of workflows
  knows them by name only, so the same name in two packages is one entry.
* `calculate_task_depth` puts a task that needs only something from outside of
  its package at depth one (`packaged_workflow.rs:466-477`), so a package can
  declare one level more than the graph in it has: the second case of
  `LevelsAreDeclared`. Such a package is built when the outside task is in the
  compiler's registry, when that registry is locked, or in a test crate
  (`packaged_workflow.rs:608-643`).

Tenants and Python runner:

* `remove_tenant` does not revoke the default privileges `create_tenant` grants
  (`admin.rs:173-177`), on which PostgreSQL lets `DROP USER` fail; to the model
  that is one more removal that rolls back. A `setup_schema` cut off leaves some
  of the migrations applied, where the model has none of the tables.
* `create_tenant` and `remove_tenant` drop the result of their transaction and
  answer Ok after a rollback. A failed SET of the search path is ignored, and so
  is a schema removed under a runner: rows then go to the public schema, the
  exception in `RowsStayHome`.
* A body that calls its own runner and waits blocks the loop that would serve
  it; only the timeout of the task or of the pipeline parts them. A second shutdown
  answers Ok after the first one timed out.

## Proofs

| Module | Theorems |
|---|---|
| `TaskSchedulerProofs` | `TypeCorrect`, `DependencyOrder`, `CompletionIsSound`, `OutputIsSavedFirst`, `TerminalNeverChanges`, `EndedPipelines`, `DecisionsAreFinal`, `NothingIsEverLost`, `SchedulerImplementsLifecycle`, `RouterMatchesAsDocumented`, `RunsWhereDocumented` |
| `CronProofs` | `CronTypeCorrect`, `NoSecondLaunch`, `SlotsAreKept`, `ClaimsOnlyAdvance`, `CatchUpLeavesNoGap`, `RecoveryStaysBounded` |
| `RecoveryProofs` | `RecoveryTypeCorrect`, `RecoveriesStayBounded`, `AbandonedAlwaysFails`, `WorkStaysBounded` |
| `RegistryProofs` | `RegistryTypeCorrect`, `RowsHaveBinaries` |
| `LoadingProofs` | `LoadingTypeCorrect`, `AcceptedAlwaysLoads`, `PlansAreWhole` |
| `DefinitionProofs` | operations: `DefinitionTypeCorrect`, `ValidatedIsCarriedOut`; searches: `EveryGraphIsFoundRight`, `SearchesAgree`; macros: `CompiledIsRun`, `WrittenIsDecided`; Python: `RegisteredAlwaysRuns`, `TasksAreInPlace` |
| `PythonProofs` | `RunnerTypeCorrect`, `StoppedStaysQuiet` |
| `DataProofs` | contexts: `FlowIsTyped`, `SoleWriterReaches`, `KindsAreTransparent`, `RulesSeeTheInput`, `OneRetryDecision`; tenants: `TenantsTypeCorrect`, `RowsAreIsolated`, `TenantsAreWhole` |

They hold for every value of the constants the named assumption of a module
allows, and every bound on failures, stops and calls. The assumptions give the
types of the constants, and beyond that: `StoreAssumption`, a dependency is a
task of the same workflow and every set of tasks has one whose dependencies lie
outside of it (validation refuses cycles); finitely many processes in
`RecoveryAssumption`, recovery services in `CronAssumption`, tasks in
`LoadingAssumption` and `TaskAssumption`, and names in `MacroAssumption`; in
`PythonRunnerAssumption`, a call is nested in one body at most, and nests none;
in `DataFlowAssumption`, a packaged task has the default policy and a task that
is not native the rule "always", as the code gives them; in
`WrittenAssumption`, a condition on a task names one; in `ListingAssumption`, a
list or a hash map of tasks is gone through once, in any order.

Scheduler. None of the properties is inductive, since the loop acts on what it
remembers. `IInv` adds what the database still holds of the memory:
`HeldTask` (the position of the loop determines the status of the task in its
hands), `SnapshotIsFresh` (what is left of the snapshot is still undecided),
`CurrentPipeline` (the pipeline being processed, its tasks over when it is
completed), `CreatedTogether` and `SavedFirst`. `BaseStep` shows types and
positions inductive, `SafeStep` the properties on top of them. `StepMoves` then
says what one step can do to one row: the action properties follow from it, and
so does `DecisionsAreFinal`, with `DecisionInHand`, since a rule over settled
dependencies reads only rows that no longer move. For `NothingIsEverLost`,
`TimesInOrder` says that completion times follow the dependencies and
`FinalIsChosen` that the context of a completed pipeline is that of a task that
completed last, so that no other candidate depends on it. For the refinement, a
task is Open from the decision until the loop releases it, whoever writes its
end and however often; `Invisible`, `DecisionIsOneStep`, `ReleaseConcludes` and
`Completes` map the steps.

Routing. `RunsWhereDocumented` has one more hypothesis: each rule's pattern is
plain. What the dispatcher lets through is invariant (`DispatchedIsRouted`);
the rest is about the matcher, for patterns and names of any length. For one
segment, the places `match_wildcard` goes through are the first possible ones,
so they are behind the places of any other way to find the parts
(`WildcardMeans`), and the documented meaning differs only in the place of the
last part (`GlobsAreLoose`). For a whole pattern, that it can be laid over the
name (`Fits`) satisfies the equation of `match_segments` (`FitsStepwise`), which
has one solution, since each call has less left of the pattern or of the name
(`SegmentsMean`).

Cron. Two facts carry the argument. A loop records a slot before it launches
it, and a record, once there, stays until its schedule is deleted, never to come
back (`RecordedFirst`, `OnRecord`): so what one loop launched another finds
recorded (`LaunchIsFirst`). And without updates the next run of a row lies after
its last one (`RowIsOrdered`), so the filter of the claim lets only later times
through, however old the copy the loop holds. `CatchUpLeavesNoGap` has one more
hypothesis, `MaxTime < MaxCatchup` (the limit is out of reach); its invariant
`CInv` says that a copy is the row of an earlier claim (`CopiesAreOld`) and that
the last run of a row is the time of a claim (`LastIsClaimed`): a claim computed
from an old copy covers more than it must, never less. For
`RecoveryStaysBounded`, `Left` is the set of launches of a record the services
may still make, each with its service and the number of its attempt. A launch
takes one from it, and only a restart and a failed link put up to `MaxTries`
back, so launches and `Left` together stay within `MaxTries` times the lives
(`BudgetIsKept`). A service that forgets its count does so for a record that is
linked or deleted, for good.

Recovery. What a process read is behind the row (`ReadIsBehind`), and every
reset still to come is counted in advance (`ResetsAreCounted`: the recoveries of
a task and the processes that will still reset it stay below the limit and the
number of processes). `MarkIsComing` says which process will still fail the
pipeline of an abandoned task, and `OverwrittenIsNoted` that a task with the
mark is Failed unless its state was written over, in which case `rewritten` has
it until it is abandoned again, although it may have failed of itself meanwhile.
For `WorkStaysBounded`, `InRow` and `InHand` are the runs that may still come of
a row and of the executions in hand, if every one fails: a claim moves a run
from the row to a hand, a report moves what is left back, from whichever process
it comes, and only a recovery makes new ones (`RunsAreCounted`).

Registry. `RowsAreGood` needs that what a client is about to insert is there and
in no row, what it is about to remove is in no row any more, and that two
clients never have the same binary in hand in these two ways (`Apart`).

Loading. `AnswersAreTrue`: an answer was given for the file there is, which never
changes. `HostFollows`: while undisturbed, the tasks in the registry are those
of the loaded edition, or none between two of them, or the part entered so far.
`OneLibraryForAll`: with one library all readers take the same one.

Definition. `GraphIsWhole` (until something is removed the graph is what the
tasks declare) and `LevelsAreValid` (the loop over the levels works on a
validated workflow). That a level is never empty comes from acyclicity: every
set of tasks has one without a dependency in it. For the macros, `CrateIsKnown`
(the registry of the compiler has every task of the crate unless its lock was
taken), `ListsGoStraight` (so the functions of a list that bear the ids of
their tasks have no cycle) and `BodiesAreListed` (what a name is registered with
is a function of the list that has this name); a task keeps the rule its
attribute parses to, in the type of `crate`.

Searches. `EveryGraphIsFoundRight` is about every finite graph whose edges stay
within it (`IsGraph`), and `SearchesAgree` follows because the graph of a
workflow and that of its tasks are such graphs. Each loop has an invariant and a
measure; `LoopRuns` and `MarksRunOut` make of the two that the loop is through
before `Turns(G)`, with its invariant. For the search of cycles, `SearchInv`:
the recursion stack is the path, a walk without repetition, and the nodes whose
call has returned depend only on each other and not in a circle; the marks are
the dependencies gone through. A restore of the stack that is forgotten breaks
`PathIsStack`. For Kahn's algorithm, `KahnInv`: the degree of a node is the
number of its dependencies that are not in the result yet, and queue and result
together hold the nodes for which it is zero; so the least node of a circle in
the result would come before itself, and the nodes left out each depend on one
left out. For has_path, `PathInv`: what has been seen is in every closed set
with the start in it, and what it leads to is seen or waits; the stack may hold a
node more than once, so the measure is a number (`PathCount`). For the depths,
`DepthsAreRight`: along the order each node lies one above the deepest it depends
on; nodes at the same depth cannot reach each other, and the depths have no gap.
`NeverTooDeep`: the depth the macro computes is at most any depth that grows
along the edges, although it counts a task it has seen as nothing. This part is
about graphs whose edges may lead out of the package (`IsOpen`), as the macro
works on those: it follows an edge only within the package, but any edge makes a
depth at least one. `LevelsAreDeclared` follows: the levels the macro declares
are no more than the groups, and one more at most where an edge leads out.

Python. `OneThreadInside`: while no thread has entered a block or defined a
function with another in a block, the stack is that of one of them, so a
function that is defined at all is defined in the block of its thread. A
registered workflow keeps its names, and a name that is taken stays taken. For
the runner, `ThreadSays` gives what the position of the thread says of queue,
jobs and bodies, `JobsComeLater` and `QueueOK` keep a call from being in the
queue twice or with a job, and `JoinedFirst` says who holds the handle and that
a join without a timeout means the thread is gone.

Contexts. `Lineage`: a key that one task alone touches has, in every context
saved so far, the value that task saved, so the order of a merge cannot change
it. `BothGather` says the same of the scheduler's and the executor's merge:
they have the keys of the saved contexts of the dependencies, and the value of
a key on which these agree. `EachItsOwnWay` says how they differ: the scheduler's
has a value one of the dependencies saved (`LoadingTakesOne`), the executor's, of
objects, the fields of all (`MergingJoinsFields`). `SettledBefore` and `SavedIsExecuted` keep a
context from changing once it was read, `RulesHold` and `Decided` tie what is
recorded to what it was decided from. A merge and a body are loops over
sequences, written as recursive functions; `LoopExists` shows such a function
exists and `TurnByTurn` carries a fact from each turn to the next.

Tenants. `PathsLeadHome` (a connection leads to its runner's schema or the public
one, the latter in use only after a failed SET), `SchemasStay` and
`OnlyUpRunnersWork`.

Only model-checked:

* everything under fairness: `PipelineEndsOrIsStranded`, `DueIsClaimed`,
  `LostIsSettled`, `OrphanIsTakenUp`, `LoadedConverges`,
  `PackagedPipelineRuns`, `EditionIsLoaded`, `EveryoneReturns`;
* the violations (`RetriedIsStartedAgain`, `OneExecutorPerTask`).

Every invariant and every action property of the runs is proved. No proof says
anything about what is eventually done: WF and ENABLED are out of the provers'
reach.

No module uses RECURSIVE operators. A loop over numbers is within reach of the
proofs: a set of numbers has a least one (`WFMin` of the library), so a first
turn that goes wrong can be examined; a recursion of the code is written as the
loop that keeps its waiting calls.

`CompletedPipelineIsDone`, `CompletedHasOutput` and `ClaimsAdvance` are stated in
their modules and proved; no run has them, since `ImplementsLifecycle`,
`NothingIsLost` and `CatchUpIsComplete` break where they break.

## Not modelled

* Data access: statements nothing calls (pausing, statistics), listings,
  deletion of old rows, and the second copy of each statement for the other
  backend. SQLite and PostgreSQL are taken to do the same.
* Runner: callbacks and the asynchronous handle of `execute_async` (both poll as
  `execute` does), the builder's settings other than limits and switches.
* Retry delays: `retry_at` is written and nothing waits for it.
* Cron: start and end dates of a schedule (the runner's interface never sets
  them), resetting attempts by hand, the insertion of an audit row and its
  reading back as two steps, the deletion of a pipeline from under its record.
* Workflow: the version hash and descriptive metadata.
* Packaging: the compiler invocation, temporary files and their fixed names, the
  debug tool's output, the memory layout of the C interface, and packages
  without tasks, whose null pointers have no defined meaning.
* Database: connection strings, pool sizes, the single migrations.
* Python: value objects and cron calls, which convert and forward.
* Logging and formatting.
