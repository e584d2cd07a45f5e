--------------------------- MODULE TaskScheduler ---------------------------
(***************************************************************************)
(* The scheduler loop of one runner and everything it calls: the state     *)
(* manager that decides on tasks, the dispatcher, the executor, and the    *)
(* completion of pipelines.  The loop is sequential.  It reads the active  *)
(* pipelines and their undecided tasks once, then works on that snapshot,  *)
(* and a dispatched task is executed to its end before the next is looked  *)
(* at.  Each step below is the code between two awaits on the database or  *)
(* on a task body; clients act between any two of them.                    *)
(***************************************************************************)
EXTENDS WorkflowStore, TaskRouting

CONSTANTS
  Rule,         \* the trigger rule of a task
  MaxAttempts,  \* max_attempts of a task's retry policy
  NameOf,       \* the full name of a task
  Routing,      \* the routing configuration of the runner
  Executors,    \* keys of the registered executors with capacity
  MaxFaults,    \* bound: database calls that fail
  MaxStops,     \* bound: shutdowns, crashes and panics of the runner
  None

\* A condition of a rule asks for the status of a task, or for a key of the
\* context: the key is named after the task that writes it.
ConditionKind == {"TaskSuccess", "TaskFailed", "TaskSkipped", "ContextValue"}
RuleKind      == {"Always", "All", "Any", "None"}
Condition     == [test : ConditionKind, of : Tasks]

ASSUME SchedulerAssumption ==
  /\ \A t \in Tasks : /\ Rule[t].kind \in RuleKind
                      /\ Rule[t].conditions \subseteq Condition
                      /\ \A c \in Rule[t].conditions : PipelineOf[c.of] = PipelineOf[t]
  /\ MaxAttempts \in [Tasks -> Nat]
  /\ MaxFaults \in Nat
  /\ MaxStops \in Nat
  /\ None \notin Pipelines \cup Tasks \cup {"Completed", "Failed"}

ASSUME RoutingAssumption ==
  /\ NameOf \in [Tasks -> Name]
  /\ \A i \in DOMAIN Routing.rules : Routing.rules[i].task_pattern \in Pattern

VARIABLES
  pc,       \* where the loop stands
  active,   \* the pipelines of this pass not yet processed
  stale,    \* the undecided tasks as read at the start of the pass
  seen,     \* the attempt numbers read with them
  cur,      \* the pipeline being processed
  event,    \* the task being decided on, dispatched or executed
  input,    \* the context the executing task was given
  outcome,  \* what the executor reports to the dispatcher
  runs,     \* history: how often the body of a task was started
  faults,
  stops

passVars == <<active, stale, seen, cur>>
loopVars == <<pc, active, stale, seen, cur, event, input, outcome, runs, faults, stops>>
vars     == <<storeVars, loopVars>>

DecideSteps  == {"rules", "ready", "skip"}
ExecuteSteps == {"build", "run", "save", "mark", "retry", "handle"}
Step == {"down", "idle", "load", "pick", "next", "dispatch", "check", "final", "complete"}
          \cup DecideSteps \cup ExecuteSteps

TypeOK ==
  /\ StoreTypeOK
  /\ pc \in Step
  /\ active \in SUBSET Pipelines
  /\ stale \in SUBSET Tasks
  /\ seen \in [Tasks -> Nat]
  /\ cur \in Pipelines \cup {None}
  /\ event \in Tasks \cup {None}
  /\ input \in SUBSET Tasks
  /\ outcome \in {None, "Completed", "Failed"}
  /\ runs \in [Tasks -> Nat]
  /\ faults \in Nat
  /\ stops \in Nat

LoopInit ==
  /\ pc = "idle"
  /\ active = {}
  /\ stale = {}
  /\ seen = [t \in Tasks |-> 0]
  /\ cur = None
  /\ event = None
  /\ input = {}
  /\ outcome = None
  /\ runs = [t \in Tasks |-> 0]
  /\ faults = 0
  /\ stops = 0

Init == StoreInit /\ LoopInit

-----------------------------------------------------------------------------
(***************************************************************************)
(* Trigger rules.                                                          *)
(***************************************************************************)

\* load_context_for_task and build_task_context: a task without dependencies
\* reads the context of its pipeline, any other the contexts its dependencies
\* saved; a dependency without a saved context contributes nothing.
TaskContext(t) ==
  IF Deps[t] = {} THEN pipeContext[PipelineOf[t]] ELSE MergedContext(Deps[t])

Holds(c, t) ==
  \/ c.test = "TaskSuccess"  /\ status[c.of] = "Completed"
  \/ c.test = "TaskFailed"   /\ status[c.of] = "Failed"
  \/ c.test = "TaskSkipped"  /\ status[c.of] = "Skipped"
  \/ c.test = "ContextValue" /\ c.of \in TaskContext(t)

RuleHolds(t) ==
  LET C == Rule[t].conditions IN
  \/ Rule[t].kind = "Always"
  \/ Rule[t].kind = "All"  /\ \A c \in C : Holds(c, t)
  \/ Rule[t].kind = "Any"  /\ \E c \in C : Holds(c, t)
  \/ Rule[t].kind = "None" /\ \A c \in C : ~Holds(c, t)

-----------------------------------------------------------------------------
(***************************************************************************)
(* Clients: schedule_workflow_execution and cancel_execution.              *)
(***************************************************************************)

Submit(p) == CreatePipeline(p) /\ UNCHANGED loopVars

Cancel(p) ==
  /\ pipe[p] \notin {"Absent", "Cancelled"}
  /\ PipelineCancel(p)
  /\ UNCHANGED loopVars

-----------------------------------------------------------------------------
(***************************************************************************)
(* The pass over the active pipelines.                                     *)
(***************************************************************************)

\* get_active_executions.
Poll ==
  /\ pc = "idle"
  /\ ActivePipelines # {}
  /\ active' = ActivePipelines
  /\ pc' = "load"
  /\ UNCHANGED <<storeVars, stale, seen, cur, event, input, outcome, runs, faults, stops>>

\* get_pending_tasks_batch, for all of them at once.
LoadPending ==
  /\ pc = "load"
  /\ stale' = PendingTasks(active)
  /\ seen' = attempt
  /\ pc' = "pick"
  /\ UNCHANGED <<storeVars, active, cur, event, input, outcome, runs, faults, stops>>

PickPipeline(p) ==
  /\ pc = "pick"
  /\ p \in active
  /\ cur' = p
  /\ pc' = "next"
  /\ UNCHANGED <<storeVars, active, stale, seen, event, input, outcome, runs, faults, stops>>

EndPass ==
  /\ pc = "pick"
  /\ active = {}
  /\ pc' = "idle"
  /\ UNCHANGED <<storeVars, passVars, event, input, outcome, runs, faults, stops>>

\* The tasks of the current pipeline still to be looked at.
Remaining == stale \cap TasksOf(cur)

\* Mutants of CheckDependencies: the answer is not looked at, a dependency that
\* did not complete is waited for, or the task is looked at again.
IgnoreDependencies(t) ==
  /\ pc = "next"
  /\ t \in Remaining
  /\ stale' = stale \ {t}
  /\ event' = t /\ pc' = "rules"
  /\ UNCHANGED <<storeVars, active, seen, cur, input, outcome, runs, faults, stops>>

AwaitSuccess(t) ==
  /\ pc = "next"
  /\ t \in Remaining
  /\ stale' = stale \ {t}
  /\ IF \A d \in Deps[t] : status[d] = "Completed"
       THEN event' = t /\ pc' = "rules"
       ELSE UNCHANGED <<event, pc>>
  /\ UNCHANGED <<storeVars, active, seen, cur, input, outcome, runs, faults, stops>>

LookAgain(t) ==
  /\ pc = "next"
  /\ t \in Remaining
  /\ IF AllTerminal(Deps[t])
       THEN event' = t /\ pc' = "rules"
       ELSE UNCHANGED <<event, pc>>
  /\ UNCHANGED <<storeVars, passVars, input, outcome, runs, faults, stops>>

\* check_task_dependencies reads the statuses of the dependencies in one query.
CheckDependencies(t) ==
  /\ pc = "next"
  /\ t \in Remaining
  /\ stale' = stale \ {t}
  /\ IF AllTerminal(Deps[t])
       THEN event' = t /\ pc' = "rules"
       ELSE UNCHANGED <<event, pc>>
  /\ UNCHANGED <<storeVars, active, seen, cur, input, outcome, runs, faults, stops>>

\* Mutant of EvaluateRules: every kind of rule is read as "Any".
EvaluateAsAny ==
  /\ pc = "rules"
  /\ pc' = IF Rule[event].kind = "Always" \/ \E c \in Rule[event].conditions : Holds(c, event)
             THEN "ready" ELSE "skip"
  /\ UNCHANGED <<storeVars, passVars, event, input, outcome, runs, faults, stops>>

\* evaluate_trigger_rules.
EvaluateRules ==
  /\ pc = "rules"
  /\ pc' = IF RuleHolds(event) THEN "ready" ELSE "skip"
  /\ UNCHANGED <<storeVars, passVars, event, input, outcome, runs, faults, stops>>

MakeReady ==
  /\ pc = "ready"
  /\ MarkReady(event)
  /\ pc' = "dispatch"
  /\ UNCHANGED <<passVars, event, input, outcome, runs, faults, stops>>

\* The loop is done with the task it holds.
Release == event' = None /\ input' = {} /\ outcome' = None

Skip ==
  /\ pc = "skip"
  /\ MarkSkipped(event)
  /\ Release
  /\ pc' = "next"
  /\ UNCHANGED <<passVars, runs, faults, stops>>

NothingRemains ==
  /\ pc = "next"
  /\ Remaining = {}
  /\ pc' = "check"
  /\ UNCHANGED <<storeVars, passVars, event, input, outcome, runs, faults, stops>>

-----------------------------------------------------------------------------
(***************************************************************************)
(* Dispatcher and executor.                                                *)
(***************************************************************************)

\* The tasks the router sends to an executor that can take them.
Routed == {t \in Tasks : Resolve(Routing, NameOf[t]) \in Executors}

\* No executor under the resolved key, or one at its limit: dispatch returns
\* an error, the state manager logs it, and the task stays Ready.
Dispatch ==
  /\ pc = "dispatch"
  /\ IF event \in Routed
       THEN pc' = "build" /\ UNCHANGED <<event, input, outcome>>
       ELSE pc' = "next" /\ Release
  /\ UNCHANGED <<storeVars, passVars, runs, faults, stops>>

\* The task is looked up in the registry, which a package load or unload may
\* have changed.  A task that is gone has failed.
TaskMissing ==
  /\ pc = "build"
  /\ outcome' = "Failed"
  /\ pc' = "handle"
  /\ UNCHANGED <<storeVars, passVars, event, input, runs, faults, stops>>

BuildContext ==
  /\ pc = "build"
  /\ input' = TaskContext(event)
  /\ runs' = [runs EXCEPT ![event] = @ + 1]
  /\ pc' = "run"
  /\ UNCHANGED <<storeVars, passVars, event, outcome, faults, stops>>

BodySucceeds ==
  /\ pc = "run"
  /\ pc' = "save"
  /\ UNCHANGED <<storeVars, passVars, event, input, outcome, runs, faults, stops>>

\* The body returns an error or exceeds task_timeout.  The retry conditions
\* accept the error or not; the attempt compared is the one read at the start
\* of the pass.
BodyFails(retryable) ==
  /\ pc = "run"
  /\ IF seen[event] < MaxAttempts[event] /\ retryable
       THEN pc' = "retry" /\ UNCHANGED outcome
       ELSE pc' = "handle" /\ outcome' = "Failed"
  /\ UNCHANGED <<storeVars, passVars, event, input, runs, faults, stops>>

\* save_task_context: the context row, then the metadata row that points to
\* it.  Nothing finds a context row without the second.
SaveOutput(t) == UpsertMetadata(t, input \cup {t})

SaveContext ==
  /\ pc = "save"
  /\ SaveOutput(event)
  /\ pc' = "mark"
  /\ UNCHANGED <<passVars, event, input, outcome, runs, faults, stops>>

MarkTaskCompleted ==
  /\ pc = "mark"
  /\ MarkCompleted(event)
  /\ outcome' = "Completed"
  /\ pc' = "handle"
  /\ UNCHANGED <<passVars, event, input, runs, faults, stops>>

\* schedule_task_retry; handle_result then has nothing to do.
RetryTask ==
  /\ pc = "retry"
  /\ ScheduleRetry(event, seen[event] + 1)
  /\ Release
  /\ pc' = "next"
  /\ UNCHANGED <<passVars, runs, faults, stops>>

\* handle_result repeats mark_completed, or marks the task failed.
RecordOutcome(t) == IF outcome = "Completed" THEN MarkCompleted(t) ELSE MarkFailed(t)

HandleResult ==
  /\ pc = "handle"
  /\ RecordOutcome(event)
  /\ Release
  /\ pc' = "next"
  /\ UNCHANGED <<passVars, runs, faults, stops>>

-----------------------------------------------------------------------------
(***************************************************************************)
(* Completion of a pipeline.                                               *)
(***************************************************************************)

\* The rest of the loop body for the current pipeline is over.
LeavePipeline ==
  /\ active' = active \ {cur}
  /\ stale' = stale \ TasksOf(cur)
  /\ cur' = None
  /\ pc' = "pick"

CheckCompletion ==
  /\ pc = "check"
  /\ IF PipelineComplete(cur)
       THEN pc' = "final" /\ UNCHANGED <<active, stale, cur>>
       ELSE LeavePipeline
  /\ UNCHANGED <<storeVars, seen, event, input, outcome, runs, faults, stops>>

\* The tasks update_pipeline_final_context takes a context from: completed,
\* or skipped with a completion time, which mark_skipped never writes.
Candidates(p) ==
  {t \in TasksOf(p) \cap output : status[t] \in {"Completed", "Skipped"} /\ doneAt[t] # 0}

\* Mutant of Latest: sorted the other way.
Earliest(S) == {t \in S : \A u \in S : doneAt[t] <= doneAt[u]}

Latest(S) == {t \in S : \A u \in S : doneAt[u] <= doneAt[t]}

TakeFinalContext(p, S) ==
  IF S = {} THEN UNCHANGED storeVars
  ELSE \E t \in Latest(S) : UpdateFinalContext(p, context[t])

UpdatePipelineContext ==
  /\ pc = "final"
  /\ TakeFinalContext(cur, Candidates(cur))
  /\ pc' = "complete"
  /\ UNCHANGED <<passVars, event, input, outcome, runs, faults, stops>>

CompletePipeline ==
  /\ pc = "complete"
  /\ PipelineMarkCompleted(cur)
  /\ LeavePipeline
  /\ UNCHANGED <<seen, event, input, outcome, runs, faults, stops>>

-----------------------------------------------------------------------------
(***************************************************************************)
(* A database call fails: the statement had no effect, or it took effect   *)
(* and the reply was lost.                                                 *)
(***************************************************************************)

Fault == faults < MaxFaults /\ faults' = faults + 1

Lost(write) == write \/ UNCHANGED storeVars

\* update_pipeline_task_readiness returns the error and the loop continues
\* with the next pipeline, without checking this one for completion.
ReadinessFails ==
  /\ Fault
  /\ \/ pc = "next" /\ Remaining # {} /\ UNCHANGED storeVars
     \/ pc = "rules" /\ UNCHANGED storeVars
     \/ pc = "ready" /\ Lost(MarkReady(event))
     \/ pc = "skip"  /\ Lost(MarkSkipped(event))
  /\ Release
  /\ LeavePipeline
  /\ UNCHANGED <<seen, runs, stops>>

\* Every error while the context is built is swallowed, and the body runs on
\* an empty one.
BuildFails ==
  /\ pc = "build"
  /\ Fault
  /\ input' = {}
  /\ runs' = [runs EXCEPT ![event] = @ + 1]
  /\ pc' = "run"
  /\ UNCHANGED <<storeVars, passVars, event, outcome, stops>>

\* An error of complete_task_transaction becomes a failed result.
CompletionFails ==
  /\ Fault
  /\ \/ pc = "save" /\ Lost(SaveOutput(event))
     \/ pc = "mark" /\ Lost(MarkCompleted(event))
  /\ outcome' = "Failed"
  /\ pc' = "handle"
  /\ UNCHANGED <<passVars, event, input, runs, stops>>

\* Errors of schedule_task_retry and of handle_result are logged.
ReportFails ==
  /\ Fault
  /\ \/ pc = "retry"  /\ Lost(ScheduleRetry(event, seen[event] + 1))
     \/ pc = "handle" /\ Lost(RecordOutcome(event))
  /\ Release
  /\ pc' = "next"
  /\ UNCHANGED <<passVars, runs, stops>>

\* A metadata row that cannot be read is passed over; any other error of
\* update_pipeline_final_context is a warning, and the pipeline completes.
FinalContextFails ==
  /\ pc = "final"
  /\ Fault
  /\ \/ UNCHANGED storeVars
     \/ \E t \in Candidates(cur) : TakeFinalContext(cur, Candidates(cur) \ {t})
  /\ pc' = "complete"
  /\ UNCHANGED <<passVars, event, input, outcome, runs, stops>>

\* These calls are made with `?` outside the readiness update: the whole pass
\* ends, with the pipelines not yet reached.
PassFails ==
  /\ Fault
  /\ \/ pc \in {"load", "check", "final"} /\ UNCHANGED storeVars
     \/ pc = "complete" /\ Lost(PipelineMarkCompleted(cur))
  /\ pc' = "idle"
  /\ active' = {} /\ stale' = {} /\ cur' = None
  /\ UNCHANGED <<seen, event, input, outcome, runs, stops>>

-----------------------------------------------------------------------------
(***************************************************************************)
(* The runner ends at any await: shutdown drops the loop's future, a task  *)
(* body panics, the process dies.  A new runner starts with the recovery   *)
(* of tasks in state Running; the loop leaves none in that state.          *)
(***************************************************************************)

Stop ==
  /\ pc # "down"
  /\ stops < MaxStops
  /\ stops' = stops + 1
  /\ pc' = "down"
  /\ active' = {} /\ stale' = {} /\ cur' = None
  /\ Release
  /\ UNCHANGED <<storeVars, seen, runs, faults>>

Start ==
  /\ pc = "down"
  /\ {t \in Tasks : status[t] = "Running"} = {}
  /\ pc' = "idle"
  /\ UNCHANGED <<storeVars, passVars, event, input, outcome, runs, faults, stops>>

-----------------------------------------------------------------------------
Loop ==
  \/ Poll \/ LoadPending \/ EndPass
  \/ \E p \in Pipelines : PickPipeline(p)
  \/ \E t \in Tasks : CheckDependencies(t)
  \/ EvaluateRules \/ MakeReady \/ Skip \/ NothingRemains
  \/ Dispatch \/ TaskMissing \/ BuildContext
  \/ BodySucceeds \/ \E retryable \in BOOLEAN : BodyFails(retryable)
  \/ SaveContext \/ MarkTaskCompleted \/ RetryTask \/ HandleResult
  \/ CheckCompletion \/ UpdatePipelineContext \/ CompletePipeline

Failure ==
  \/ ReadinessFails \/ BuildFails \/ CompletionFails
  \/ ReportFails \/ FinalContextFails \/ PassFails

Next ==
  \/ \E p \in Pipelines : Submit(p) \/ Cancel(p)
  \/ Loop
  \/ Failure
  \/ Stop
  \/ Start

Spec == Init /\ [][Next]_vars

\* The interval ticks for ever, task_timeout bounds the body, and a stopped
\* runner is started again.  Clients and faults are under no obligation.
Fairness == WF_vars(Loop) /\ WF_vars(Start)

FairSpec == Spec /\ Fairness
-----------------------------------------------------------------------------
(***************************************************************************)
(* Properties.                                                             *)
(***************************************************************************)

\* The loop no longer holds t and its status is terminal.
Settled(t) == status[t] \in TerminalTask /\ event # t

\* A task nobody executes and no query of the loop returns.
Stranded(t) == status[t] = "Ready" /\ event # t

\* A task is decided on only after each of its dependencies is over, whatever
\* calls failed on the way: check_task_dependencies against the results that
\* the dispatcher and the executor write one after the other.
DependenciesSettled ==
  \A t \in Tasks : status[t] \notin {"Absent", "NotStarted"} =>
    \A d \in Deps[t] : Settled(d)

\* A rule about the dependencies of its task keeps the truth value it was
\* decided with: a skipped task's rule is false of the statuses and contexts
\* the database holds later, a task that was made ready has a true one.
RuleIsAnchored(t) ==
  \A c \in Rule[t].conditions :
    IF c.test = "ContextValue" THEN Deps[t] # {} ELSE c.of \in Deps[t]

DecisionsStand ==
  \A t \in Tasks : RuleIsAnchored(t) =>
    /\ status[t] = "Skipped" => ~RuleHolds(t)
    /\ status[t] \in {"Ready", "Completed", "Failed"} => RuleHolds(t)

\* A task is Completed only with its output saved: whoever sees the status
\* finds the context, also after a crash between the two writes.
CompletedHasOutput ==
  \A t \in Tasks : status[t] = "Completed" => t \in output /\ t \in context[t]

\* No task of a Completed pipeline is still to be decided on or in flight.
CompletedPipelineIsDone ==
  \A p \in Pipelines : pipe[p] = "Completed" =>
    \A t \in TasksOf(p) : Settled(t)

\* A body is started only if the routing rules, in the documented sense of
\* their patterns, send its task to an executor the runner has.
RoutedHere == {t \in Tasks : Documented(Routing, NameOf[t]) \in Executors}

RoutedAsDocumented == \A t \in Tasks : runs[t] > 0 => t \in RoutedHere

\* Once the loop has released a terminal task it does not take it up again,
\* and its status and the context that dependents read never change.
TerminalIsFinal ==
  [][\A t \in Tasks : Settled(t) =>
       event' # t /\ status'[t] = status[t] /\ context'[t] = context[t]]_vars

\* A pass that begins after a pipeline ended does not take it up, start one of
\* its tasks or complete it: only a pass that already holds the pipeline can.
EndedPipelineIsLeftAlone ==
  [][\A p \in Pipelines : pipe[p] \in TerminalPipe /\ p \notin active =>
       /\ p \notin active'
       /\ pipe'[p] \in {pipe[p], "Cancelled"}
       /\ \A t \in TasksOf(p) : status'[t] = status[t] /\ runs'[t] = runs[t]]_vars

\* While no call fails, a body is given everything its completed dependencies
\* produced, their own inputs included.
InputsComplete ==
  faults = 0 /\ pc = "run" =>
    \A d \in Deps[event] : status[d] = "Completed" => context[d] \subseteq input

\* While no call fails, the result of a pipeline is the context of a completed
\* task that no other completed task depends on.
ResultIsFinal ==
  faults = 0 =>
    \A p \in Pipelines : pipe[p] = "Completed" /\ Candidates(p) # {} =>
      \E t \in Candidates(p) : /\ pipeContext[p] = context[t]
                               /\ \A u \in Candidates(p) : t \notin Deps[u]

\* While no call fails, nothing a task produced is lost on the way.
NothingIsLost == InputsComplete /\ ResultIsFinal

\* Every pipeline ends, or one of its tasks is stranded: a retry, a routing
\* error, a failed call and a stop are the only ways to lose one, and each
\* loses it the same way.
PipelineEndsOrIsStranded ==
  \A p \in Pipelines :
    pipe[p] = "Pending" ~>
      \/ pipe[p] \in TerminalPipe
      \/ \E t \in TasksOf(p) : Stranded(t)

\* What the documentation promises of a task that is put back to Ready for its
\* next attempt: that the attempt is made, unless the pipeline ends first.
RetriedIsStartedAgain ==
  \A t \in Tasks :
    (status[t] = "Ready" /\ attempt[t] > 1) ~>
      (runs[t] >= attempt[t] \/ pipe[PipelineOf[t]] \in TerminalPipe)

\* The phase of a task: it is open from the moment it is made ready until the
\* loop has released it, so that the executor and the dispatcher may both
\* write its end.
Phase(t) ==
  CASE status[t] = "NotStarted" -> "Waiting"
    [] status[t] = "Ready" \/ (event = t /\ status[t] = "Completed") -> "Open"
    [] OTHER -> status[t]

Lifecycle == INSTANCE WorkflowLifecycle
               WITH stage <- pipe, phase <- [t \in Tasks |-> Phase(t)]

\* The engine implements the lifecycle: every call of the loop, with its
\* failures and the runner's stops, is a step of it or changes no phase.
ImplementsLifecycle == Lifecycle!LifecycleSpec
=============================================================================
