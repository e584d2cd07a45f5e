---------------------------- MODULE TaskRecovery ----------------------------
(***************************************************************************)
(* Claims and start-up recovery: any number of processes on one database.  *)
(* A process that starts recovers the tasks it finds in state Running,     *)
(* whoever runs them, and then claims tasks that are Ready, executes them  *)
(* and reports.  It can end at any step; its claims stay Running.          *)
(*                                                                         *)
(* This is the protocol of claim_ready_task, which the public data access  *)
(* layer offers.  The loop of TaskScheduler hands tasks to its executor    *)
(* without it, and so leaves nothing Running.  Of the rows, this module has *)
(* the columns that claims, reports and recovery work on.                  *)
(***************************************************************************)
EXTENDS Naturals, FiniteSets

CONSTANTS
  Pipelines,    \* pipeline executions
  Tasks,        \* their task executions
  PipelineOf,   \* task_executions.pipeline_execution_id
  Processes,    \* processes that execute tasks
  Known,        \* the pipelines whose workflow a process has in its registry
  MaxRecovery,  \* MAX_RECOVERY_ATTEMPTS
  MaxAttempts,  \* max_attempts of a task's retry policy
  Batch,        \* limit of claim_ready_task
  MaxTroubles,  \* bound: calls that fail and processes that end, together
  None

ASSUME RecoveryAssumption ==
  /\ PipelineOf \in [Tasks -> Pipelines]
  /\ IsFiniteSet(Processes) /\ Processes # {}
  /\ Known \in [Processes -> SUBSET Pipelines]
  /\ MaxRecovery \in Nat
  /\ MaxAttempts \in [Tasks -> Nat \ {0}]
  /\ Batch \in Nat
  /\ MaxTroubles \in Nat
  /\ None \notin Pipelines \cup Tasks

VARIABLES
  pipe,         \* pipeline_executions.status
  status,       \* task_executions.status
  attempt,      \* task_executions.attempt
  recoveries,   \* task_executions.recovery_attempts
  abandoned,    \* tasks whose error_details begin with ABANDONED:
  pc,           \* the await a process stands at
  orphans,      \* what is left of the result of get_orphaned_tasks
  read,         \* recovery_attempts in that result
  cur,          \* the pipeline whose tasks are being recovered
  task,         \* the task of it in hand
  work,         \* the executions a process has claimed and not reported
  runs,         \* history: bodies started
  cut,          \* history: pipelines whose recovery was cut off
  rewritten,    \* history: abandoned tasks whose state was written over
  faults, stops \* counted for the bound

rowVars     == <<pipe, status, attempt, recoveries, abandoned, rewritten>>
memoryVars  == <<orphans, read, cur, task>>
vars == <<rowVars, memoryVars, pc, work, runs, cut, faults, stops>>

Places == {"down", "scan", "group", "pick", "next", "reset", "abandon",
           "event", "judge", "fail", "up"}

\* The rows, as they are read and written.
PipelineExecution == pipe \in [Pipelines -> {"Pending", "Failed"}]

TaskExecution ==
  /\ status \in [Tasks -> {"Ready", "Running", "Completed", "Failed"}]
  /\ attempt \in [Tasks -> Nat \ {0}]
  /\ recoveries \in [Tasks -> Nat]
  /\ abandoned \in SUBSET Tasks

\* What a claim returns: the task, the attempt of its row, and which body of
\* the task this is.  A process may have a task in hand twice, when another
\* one's recovery made it Ready again.
Executions == [task : Tasks, attempt : Nat \ {0}, run : Nat \ {0}]

TypeOK ==
  /\ PipelineExecution /\ TaskExecution
  /\ pc \in [Processes -> Places]
  /\ orphans \in [Processes -> SUBSET Tasks]
  /\ read \in [Processes -> [Tasks -> Nat]]
  /\ cur \in [Processes -> Pipelines \cup {None}]
  /\ task \in [Processes -> Tasks \cup {None}]
  /\ work \in [Processes -> SUBSET Executions]
  /\ runs \in [Tasks -> Nat]
  /\ cut \in SUBSET Pipelines
  /\ rewritten \in SUBSET Tasks
  /\ faults \in Nat /\ stops \in Nat

Nothing == [t \in Tasks |-> 0]

\* Every pipeline is scheduled and its tasks were made ready; no process runs.
Init ==
  /\ pipe = [p \in Pipelines |-> "Pending"]
  /\ status = [t \in Tasks |-> "Ready"]
  /\ attempt = [t \in Tasks |-> 1]
  /\ recoveries = [t \in Tasks |-> 0]
  /\ abandoned = {}
  /\ pc = [r \in Processes |-> "down"]
  /\ orphans = [r \in Processes |-> {}]
  /\ read = [r \in Processes |-> Nothing]
  /\ cur = [r \in Processes |-> None]
  /\ task = [r \in Processes |-> None]
  /\ work = [r \in Processes |-> {}]
  /\ runs = [t \in Tasks |-> 0]
  /\ cut = {} /\ rewritten = {}
  /\ faults = 0 /\ stops = 0

GoTo(r, place) == pc' = [pc EXCEPT ![r] = place]

-----------------------------------------------------------------------------
(***************************************************************************)
(* Statements of the data access layer.                                    *)
(***************************************************************************)

TasksOf(p) == {t \in Tasks : PipelineOf[t] = p}

\* Mutant of OrphanedTasks: tasks at the limit are not found.
OrphansBelowLimit == {t \in Tasks : status[t] = "Running" /\ recoveries[t] < MaxRecovery}

OrphanedTasks == {t \in Tasks : status[t] = "Running"}

\* A write of another state to an abandoned task; its error_details, and so
\* the mark, stay.
WriteOver(t) == rewritten' = rewritten \cup ({t} \cap abandoned)

\* The increment is the database's; neither the status nor the count is a
\* condition of the update.
ResetForRecovery(t) ==
  /\ status' = [status EXCEPT ![t] = "Ready"]
  /\ recoveries' = [recoveries EXCEPT ![t] = @ + 1]
  /\ WriteOver(t)
  /\ UNCHANGED <<pipe, attempt, abandoned>>

MarkAbandoned(t) ==
  /\ status' = [status EXCEPT ![t] = "Failed"]
  /\ abandoned' = abandoned \cup {t}
  /\ rewritten' = rewritten \ {t}
  /\ UNCHANGED <<pipe, attempt, recoveries>>

\* How an abandoned task is told from one that failed: by the mark and the
\* status.  A task that was written over since and then failed by itself reads
\* the same.
IsAbandoned(t) == t \in abandoned /\ status[t] = "Failed"

\* check_pipeline_failure counts the abandoned tasks of the pipeline.
PipelineHasFailed(p) == \E t \in TasksOf(p) : IsAbandoned(t)

PipelineMarkFailed(p) ==
  /\ pipe' = [pipe EXCEPT ![p] = "Failed"]
  /\ UNCHANGED <<status, attempt, recoveries, abandoned, rewritten>>

-----------------------------------------------------------------------------
(***************************************************************************)
(* recover_orphaned_tasks                                                  *)
(***************************************************************************)

Start(r) ==
  /\ pc[r] = "down"
  /\ GoTo(r, "scan")
  /\ UNCHANGED <<rowVars, memoryVars, work, runs, cut, faults, stops>>

Scan(r) ==
  /\ pc[r] = "scan"
  /\ orphans' = [orphans EXCEPT ![r] = OrphanedTasks]
  /\ read' = [read EXCEPT ![r] = [t \in Tasks |-> IF t \in OrphanedTasks THEN recoveries[t] ELSE 0]]
  /\ GoTo(r, IF OrphanedTasks = {} THEN "up" ELSE "group")
  /\ UNCHANGED <<rowVars, cur, task, work, runs, cut, faults, stops>>

\* The pipeline of every orphan is read; no row of one is ever deleted.
Group(r) ==
  /\ pc[r] = "group"
  /\ GoTo(r, "pick")
  /\ UNCHANGED <<rowVars, memoryVars, work, runs, cut, faults, stops>>

\* In the order of a hash map.
PickPipeline(r, p) ==
  /\ pc[r] = "pick"
  /\ orphans[r] \cap TasksOf(p) # {}
  /\ cur' = [cur EXCEPT ![r] = p]
  /\ GoTo(r, "next")
  /\ UNCHANGED <<rowVars, orphans, read, task, work, runs, cut, faults, stops>>

EndRecovery(r) ==
  /\ pc[r] = "pick"
  /\ orphans[r] = {}
  /\ GoTo(r, "up")
  /\ read' = [read EXCEPT ![r] = Nothing]
  /\ UNCHANGED <<rowVars, orphans, cur, task, work, runs, cut, faults, stops>>

IsKnown(r) == cur[r] \in Known[r]

\* Mutant of Exhausted: one attempt more.
ExhaustedLate(r, t) == read[r][t] > MaxRecovery

\* Mutant of Exhausted: one attempt less.
ExhaustedEarly(r, t) == read[r][t] + 1 >= MaxRecovery

Exhausted(r, t) == read[r][t] >= MaxRecovery

\* The tasks of a workflow that is not registered are given up at once.
TakeTask(r, t) ==
  /\ pc[r] = "next"
  /\ t \in orphans[r] \cap TasksOf(cur[r])
  /\ orphans' = [orphans EXCEPT ![r] = @ \ {t}]
  /\ task' = [task EXCEPT ![r] = t]
  /\ GoTo(r, IF IsKnown(r) /\ ~Exhausted(r, t) THEN "reset" ELSE "abandon")
  /\ UNCHANGED <<rowVars, read, cur, work, runs, cut, faults, stops>>

\* Mutant of NoTaskLeft: the pipeline of an unknown workflow is left as it is.
NoTaskLeftAtAll(r) ==
  /\ pc[r] = "next"
  /\ orphans[r] \cap TasksOf(cur[r]) = {}
  /\ GoTo(r, "pick") /\ cur' = [cur EXCEPT ![r] = None]
  /\ UNCHANGED <<rowVars, orphans, read, task, work, runs, cut, faults, stops>>

NoTaskLeft(r) ==
  /\ pc[r] = "next"
  /\ orphans[r] \cap TasksOf(cur[r]) = {}
  /\ IF IsKnown(r)
       THEN GoTo(r, "pick") /\ cur' = [cur EXCEPT ![r] = None]
       ELSE GoTo(r, "fail") /\ UNCHANGED cur
  /\ UNCHANGED <<rowVars, orphans, read, task, work, runs, cut, faults, stops>>

NextTask(r) == task' = [task EXCEPT ![r] = None] /\ GoTo(r, "next")

\* The recovery event that follows changes nothing else, and its failure is
\* only logged.
Reset(r) ==
  /\ pc[r] = "reset"
  /\ ResetForRecovery(task[r])
  /\ NextTask(r)
  /\ UNCHANGED <<orphans, read, cur, work, runs, cut, faults, stops>>

Abandon(r) ==
  /\ pc[r] = "abandon"
  /\ MarkAbandoned(task[r])
  /\ GoTo(r, IF IsKnown(r) THEN "judge" ELSE "event")
  /\ UNCHANGED <<memoryVars, work, runs, cut, faults, stops>>

RecordEvent(r) ==
  /\ pc[r] = "event"
  /\ NextTask(r)
  /\ UNCHANGED <<rowVars, orphans, read, cur, work, runs, cut, faults, stops>>

Judge(r) ==
  /\ pc[r] = "judge"
  /\ IF PipelineHasFailed(cur[r])
       THEN GoTo(r, "fail") /\ UNCHANGED task
       ELSE NextTask(r)
  /\ UNCHANGED <<rowVars, orphans, read, cur, work, runs, cut, faults, stops>>

\* After the last task of an unknown workflow, or after each abandoned task of
\* a known one.
LeaveFailed(r) ==
  IF IsKnown(r)
    THEN NextTask(r) /\ UNCHANGED cur
    ELSE /\ GoTo(r, "pick")
         /\ cur' = [cur EXCEPT ![r] = None] /\ task' = [task EXCEPT ![r] = None]

FailPipeline(r) ==
  /\ pc[r] = "fail"
  /\ PipelineMarkFailed(cur[r])
  /\ LeaveFailed(r)
  /\ UNCHANGED <<orphans, read, work, runs, cut, faults, stops>>

-----------------------------------------------------------------------------
(***************************************************************************)
(* Claims and reports.                                                     *)
(***************************************************************************)

\* Mutant of Claimable: a task in state Running may be claimed again.
ReadyOrRunning == {t \in Tasks : status[t] \in {"Ready", "Running"}}

\* Whether retry_at has come is left open: a claim takes some of these.
Claimable == {t \in Tasks : status[t] = "Ready"}

Claimed(t) == [task |-> t, attempt |-> attempt[t], run |-> runs[t] + 1]

\* One statement that locks the rows it selects and skips locked ones.  The
\* tasks claimed are executed concurrently.
Claim(r, S) ==
  /\ pc[r] = "up"
  /\ S # {} /\ S \subseteq Claimable /\ Cardinality(S) <= Batch
  /\ status' = [t \in Tasks |-> IF t \in S THEN "Running" ELSE status[t]]
  /\ work' = [work EXCEPT ![r] = @ \cup {Claimed(t) : t \in S}]
  /\ runs' = [t \in Tasks |-> IF t \in S THEN runs[t] + 1 ELSE runs[t]]
  /\ UNCHANGED <<pipe, attempt, recoveries, abandoned, rewritten, memoryVars, pc, cut, faults, stops>>

Holds(r, t) == \E e \in work[r] : e.task = t

Report(r, e) ==
  /\ pc[r] = "up"
  /\ e \in work[r]
  /\ work' = [work EXCEPT ![r] = @ \ {e}]
  /\ UNCHANGED <<pipe, recoveries, abandoned, memoryVars, pc, runs, cut, faults, stops>>

\* No report touches error_details, so a mark outlasts all of them.
ReportCompleted(r, e) ==
  /\ Report(r, e)
  /\ status' = [status EXCEPT ![e.task] = "Completed"]
  /\ WriteOver(e.task)
  /\ UNCHANGED attempt

MayRetry(e) == e.attempt < MaxAttempts[e.task]

ReportFailed(r, e) ==
  /\ Report(r, e)
  /\ status' = [status EXCEPT ![e.task] = "Failed"]
  /\ UNCHANGED <<attempt, rewritten>>

ReportRetry(r, e) ==
  /\ Report(r, e)
  /\ MayRetry(e)
  /\ status' = [status EXCEPT ![e.task] = "Ready"]
  /\ attempt' = [attempt EXCEPT ![e.task] = e.attempt + 1]
  /\ WriteOver(e.task)

-----------------------------------------------------------------------------
(***************************************************************************)
(* Failed calls and stops.                                                 *)
(***************************************************************************)

TroubleIsLeft == faults + stops < MaxTroubles

Fault == TroubleIsLeft /\ faults' = faults + 1

LostReset(t) == ResetForRecovery(t) \/ UNCHANGED rowVars
LostAbandon(t) == MarkAbandoned(t) \/ UNCHANGED rowVars
LostFail(p) == PipelineMarkFailed(p) \/ UNCHANGED rowVars

\* The runner cannot be created: what it read is gone.
ScanFails(r) ==
  /\ Fault
  /\ pc[r] \in {"scan", "group"}
  /\ GoTo(r, "down")
  /\ orphans' = [orphans EXCEPT ![r] = {}]
  /\ read' = [read EXCEPT ![r] = Nothing]
  /\ UNCHANGED <<rowVars, cur, task, work, runs, cut, stops>>

\* In a known workflow the error is logged for this task and the next follows;
\* nothing comes back to this one before the next start.
KnownTaskFails(r) ==
  /\ Fault
  /\ IsKnown(r)
  /\ \/ pc[r] = "reset"   /\ LostReset(task[r])
     \/ pc[r] = "abandon" /\ LostAbandon(task[r])
     \/ pc[r] = "judge"   /\ UNCHANGED rowVars
     \/ pc[r] = "fail"    /\ LostFail(cur[r])
  /\ cut' = cut \cup {cur[r]}
  /\ NextTask(r)
  /\ UNCHANGED <<orphans, read, cur, work, runs, stops>>

\* In an unknown one the error ends the whole pipeline.
UnknownPipelineFails(r) ==
  /\ Fault
  /\ ~IsKnown(r)
  /\ \/ pc[r] = "abandon" /\ LostAbandon(task[r])
     \/ pc[r] = "event"   /\ UNCHANGED rowVars
     \/ pc[r] = "fail"    /\ LostFail(cur[r])
  /\ cut' = cut \cup {cur[r]}
  /\ orphans' = [orphans EXCEPT ![r] = @ \ TasksOf(cur[r])]
  /\ cur' = [cur EXCEPT ![r] = None]
  /\ task' = [task EXCEPT ![r] = None]
  /\ GoTo(r, "pick")
  /\ UNCHANGED <<read, work, runs, stops>>

\* The memory is gone, the rows stay.
Stop(r) ==
  /\ pc[r] # "down"
  /\ TroubleIsLeft
  /\ stops' = stops + 1
  /\ cut' = IF cur[r] = None THEN cut ELSE cut \cup {cur[r]}
  /\ GoTo(r, "down")
  /\ orphans' = [orphans EXCEPT ![r] = {}]
  /\ cur' = [cur EXCEPT ![r] = None]
  /\ task' = [task EXCEPT ![r] = None]
  /\ read' = [read EXCEPT ![r] = Nothing]
  /\ work' = [work EXCEPT ![r] = {}]
  /\ UNCHANGED <<rowVars, runs, faults>>

-----------------------------------------------------------------------------
Recover(r) ==
  \/ Scan(r) \/ Group(r) \/ EndRecovery(r)
  \/ \E p \in Pipelines : PickPipeline(r, p)
  \/ \E t \in Tasks : TakeTask(r, t)
  \/ NoTaskLeft(r) \/ Reset(r) \/ Abandon(r) \/ RecordEvent(r)
  \/ Judge(r) \/ FailPipeline(r)

Execute(r) ==
  \/ \E S \in SUBSET Tasks : Claim(r, S)
  \/ \E e \in work[r] : ReportCompleted(r, e) \/ ReportFailed(r, e) \/ ReportRetry(r, e)

Next == \E r \in Processes :
  \/ Start(r)
  \/ Recover(r)
  \/ Execute(r)
  \/ ScanFails(r) \/ KnownTaskFails(r) \/ UnknownPipelineFails(r)
  \/ Stop(r)

Spec == Init /\ [][Next]_vars

\* A process that ended is started again and goes through its recovery.
\* Nobody has to claim, and a body may run for ever.
Fairness == \A r \in Processes : WF_vars(Start(r)) /\ WF_vars(Recover(r))

FairSpec == Spec /\ Fairness
-----------------------------------------------------------------------------
(***************************************************************************)
(* Properties.                                                             *)
(***************************************************************************)

\* The limit on recoveries holds for what one process reads: processes that
\* read at the same time exceed it by at most one each, and, unless a process
\* does not know the workflow, no task is given up before it.
RecoveriesAreBounded ==
  \A t \in Tasks :
    /\ recoveries[t] < MaxRecovery + Cardinality(Processes)
    /\ t \in abandoned /\ (\A r \in Processes : PipelineOf[t] \in Known[r]) =>
         recoveries[t] >= MaxRecovery

\* Bodies started: every recovery lets a task run through its attempts once
\* more, and nothing else does, though a process whose live task was reset
\* still reports, and may overwrite the attempt of its successor.
WorkIsBounded ==
  \A t \in Tasks : runs[t] <= MaxAttempts[t] * (1 + recoveries[t])

\* r has abandoned a task of p and has yet to mark the pipeline.
IsFailing(r, p) == cur[r] = p /\ pc[r] \in {"event", "next", "abandon", "judge", "fail"}

\* An abandoned task takes its pipeline with it.  What leaves the pipeline
\* Pending is a failed call or a stop between the two statements, and then for
\* good, since a Failed task is no orphan; or a report or a reset of another
\* process that writes over the task before the pipeline is judged.  The mark
\* stays on such a task, and when it fails later it reads as abandoned.
AbandonedFailsPipeline ==
  \A t \in Tasks : IsAbandoned(t) =>
    \/ pipe[PipelineOf[t]] = "Failed"
    \/ PipelineOf[t] \in cut
    \/ t \in rewritten
    \/ \E r \in Processes : IsFailing(r, PipelineOf[t])

\* Nobody executes t and it is Running.
IsOrphan(t) == status[t] = "Running" /\ \A r \in Processes : ~Holds(r, t)

\* The claims of a process that ended are released by its next start, in
\* whatever step of its own recovery or of another's it ended.
OrphanIsTakenUp ==
  \A t \in Tasks : IsOrphan(t) ~> (~IsOrphan(t) \/ faults > 0)
=============================================================================
