--------------------------- MODULE WorkflowStore ---------------------------
(***************************************************************************)
(* The database every other part of the engine works on: the rows of       *)
(* pipeline_executions, task_executions and task_execution_metadata, and   *)
(* the operations of the data access layer that write them.  An operation  *)
(* here is one statement or one transaction: atomic, unconditional unless  *)
(* its WHERE clause says otherwise, and silent about who calls it.         *)
(*                                                                         *)
(* A context is represented by its provenance: the set of tasks whose      *)
(* contribution it contains.  The context a pipeline is created with       *)
(* contains none.                                                          *)
(***************************************************************************)
EXTENDS Naturals, FiniteSets

CONSTANTS
  Pipelines,    \* pipeline executions, one workflow run each
  Tasks,        \* task executions of all the pipelines
  PipelineOf,   \* task_executions.pipeline_execution_id
  Deps          \* the dependencies of a task in its workflow

\* A dependency names a task of the same workflow, and a workflow with a
\* cycle is refused by its validation: every set of tasks has one whose
\* dependencies are outside of it.
ASSUME StoreAssumption ==
  /\ PipelineOf \in [Tasks -> Pipelines]
  /\ Deps \in [Tasks -> SUBSET Tasks]
  /\ \A t \in Tasks : \A d \in Deps[t] : PipelineOf[d] = PipelineOf[t]
  /\ \A S \in SUBSET Tasks : S # {} => \E t \in S : Deps[t] \cap S = {}

VARIABLES
  pipe,         \* pipeline_executions.status
  pipeContext,  \* the context pipeline_executions.context_id points to
  status,       \* task_executions.status
  attempt,      \* task_executions.attempt
  doneAt,       \* task_executions.completed_at, 0 when null
  clock,        \* the time completed_at values are taken from
  output,       \* the tasks with a row in task_execution_metadata
  context       \* the context such a row points to

pipeVars   == <<pipe, pipeContext>>
taskVars   == <<status, attempt, doneAt, clock>>
outputVars == <<output, context>>
storeVars  == <<pipe, pipeContext, status, attempt, doneAt, clock, output, context>>

TasksOf(p) == {t \in Tasks : PipelineOf[t] = p}

PipeStatus == {"Absent", "Pending", "Completed", "Failed", "Cancelled"}
TaskStatus == {"Absent", "NotStarted", "Ready", "Running",
               "Completed", "Failed", "Skipped"}

TerminalTask == {"Completed", "Failed", "Skipped"}
TerminalPipe == {"Completed", "Failed", "Cancelled"}

\* Mutant of AllTerminal: one finished dependency is enough.
AnyTerminal(S) == S = {} \/ \E t \in S : status[t] \in TerminalTask

AllTerminal(S) == \A t \in S : status[t] \in TerminalTask

DbContext == SUBSET Tasks

\* The rows of the three tables.
PipelineExecution ==
  /\ pipe \in [Pipelines -> PipeStatus]
  /\ pipeContext \in [Pipelines -> DbContext]

TaskExecution ==
  /\ status \in [Tasks -> TaskStatus]
  /\ attempt \in [Tasks -> Nat]
  /\ doneAt \in [Tasks -> Nat]
  /\ clock \in Nat

TaskExecutionMetadata ==
  /\ output \in SUBSET Tasks
  /\ context \in [Tasks -> DbContext]

StoreTypeOK == PipelineExecution /\ TaskExecution /\ TaskExecutionMetadata

StoreInit ==
  /\ pipe = [p \in Pipelines |-> "Absent"]
  /\ pipeContext = [p \in Pipelines |-> {}]
  /\ status = [t \in Tasks |-> "Absent"]
  /\ attempt = [t \in Tasks |-> 0]
  /\ doneAt = [t \in Tasks |-> 0]
  /\ clock = 0
  /\ output = {}
  /\ context = [t \in Tasks |-> {}]

(***************************************************************************)
(* pipeline_executions                                                     *)
(***************************************************************************)

\* The transaction of schedule_workflow_execution: the pipeline row and one
\* row per task of the workflow, all or nothing.
CreatePipeline(p) ==
  /\ pipe[p] = "Absent"
  /\ pipe' = [pipe EXCEPT ![p] = "Pending"]
  /\ status' = [t \in Tasks |-> IF PipelineOf[t] = p THEN "NotStarted" ELSE status[t]]
  /\ attempt' = [t \in Tasks |-> IF PipelineOf[t] = p THEN 1 ELSE attempt[t]]
  /\ UNCHANGED <<pipeContext, doneAt, clock, outputVars>>

\* Mutant of ActivePipelines: a cancelled pipeline is still picked up.
ActiveOrCancelled == {p \in Pipelines : pipe[p] \in {"Pending", "Cancelled"}}

\* get_active_executions asks for Pending and Running; no code sets Running.
ActivePipelines == {p \in Pipelines : pipe[p] = "Pending"}

SetPipe(p, s) ==
  /\ pipe' = [pipe EXCEPT ![p] = s]
  /\ UNCHANGED <<pipeContext, taskVars, outputVars>>

\* Neither looks at the status it replaces.
PipelineMarkCompleted(p) == SetPipe(p, "Completed")
PipelineCancel(p)        == SetPipe(p, "Cancelled")

UpdateFinalContext(p, c) ==
  /\ pipeContext' = [pipeContext EXCEPT ![p] = c]
  /\ UNCHANGED <<pipe, taskVars, outputVars>>

(***************************************************************************)
(* task_executions                                                         *)
(***************************************************************************)

\* get_pending_tasks_batch also asks for a status "Pending" that no task has.
PendingTasks(P) == {t \in Tasks : PipelineOf[t] \in P /\ status[t] = "NotStarted"}

SetStatus(t, s) ==
  /\ status' = [status EXCEPT ![t] = s]
  /\ UNCHANGED <<attempt, doneAt, clock, pipeVars, outputVars>>

MarkReady(t)   == SetStatus(t, "Ready")
MarkSkipped(t) == SetStatus(t, "Skipped")

Finish(t, s) ==
  /\ status' = [status EXCEPT ![t] = s]
  /\ clock' = clock + 1
  /\ doneAt' = [doneAt EXCEPT ![t] = clock + 1]
  /\ UNCHANGED <<attempt, pipeVars, outputVars>>

MarkCompleted(t) == Finish(t, "Completed")
MarkFailed(t)    == Finish(t, "Failed")

ScheduleRetry(t, n) ==
  /\ status' = [status EXCEPT ![t] = "Ready"]
  /\ attempt' = [attempt EXCEPT ![t] = n]
  /\ doneAt' = [doneAt EXCEPT ![t] = 0]
  /\ UNCHANGED <<clock, pipeVars, outputVars>>

\* Mutant of PipelineComplete: a task that is Ready does not count.
NothingWaits(p) == \A t \in TasksOf(p) : status[t] # "NotStarted"

\* check_pipeline_completion counts the tasks that are not yet terminal.
PipelineComplete(p) == AllTerminal(TasksOf(p))

(***************************************************************************)
(* task_execution_metadata                                                 *)
(***************************************************************************)

UpsertMetadata(t, c) ==
  /\ output' = output \cup {t}
  /\ context' = [context EXCEPT ![t] = c]
  /\ UNCHANGED <<pipeVars, taskVars>>

\* Mutant of MergedContext: the context of one dependency replaces the rest.
OneContext(S) ==
  IF S \cap output = {} THEN {} ELSE context[CHOOSE d \in S \cap output : TRUE]

\* The context the rows of a set of tasks hold together.
MergedContext(S) == UNION {context[d] : d \in S \cap output}
=============================================================================
