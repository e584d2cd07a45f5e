--------------------------- MODULE RecoveryProofs ---------------------------
(***************************************************************************)
(* How often a task is recovered, and what becomes of the pipelines whose  *)
(* tasks are given up, for any number of processes, tasks and pipelines.   *)
(***************************************************************************)
EXTENDS TaskRecovery, FiniteSetTheorems, TLAPS

USE DEF PipelineExecution, TaskExecution

-----------------------------------------------------------------------------
(***************************************************************************)
(* The inductive invariant.                                                *)
(***************************************************************************)

\* What a process has in hand where it stands: in a pipeline, a task of it
\* that is no longer in its list, and the decision taken on it.
HandsFull(r) ==
  /\ pc[r] \in {"next", "reset", "abandon", "event", "judge", "fail"} => cur[r] \in Pipelines
  /\ pc[r] \in {"reset", "abandon", "event", "judge"} =>
       task[r] \in Tasks /\ PipelineOf[task[r]] = cur[r] /\ task[r] \notin orphans[r]
  /\ pc[r] = "reset" => IsKnown(r) /\ read[r][task[r]] < MaxRecovery
  /\ pc[r] = "abandon" /\ IsKnown(r) => read[r][task[r]] >= MaxRecovery
  /\ pc[r] = "judge" => IsKnown(r)

HandsAreFull == \A r \in Processes : HandsFull(r)

\* What has been read was true once, and counts only grow.
ReadIsBehind == \A r \in Processes, t \in Tasks : read[r][t] <= recoveries[t]

\* The processes that will still reset t on what they read.
Resetting(t) ==
  {r \in Processes : /\ read[r][t] < MaxRecovery
                     /\ t \in orphans[r] \/ (pc[r] = "reset" /\ task[r] = t)}

\* Every reset to come is paid for.
ResetsAreCounted ==
  \A t \in Tasks :
    recoveries[t] + Cardinality(Resetting(t)) < MaxRecovery + Cardinality(Processes)

EveryoneKnows(t) == \A r \in Processes : PipelineOf[t] \in Known[r]

GivenUpLate ==
  \A t \in Tasks : t \in abandoned /\ EveryoneKnows(t) => recoveries[t] >= MaxRecovery

\* r will still mark p: one that does not know p after its last task, one that
\* does when it looks at the tasks of p, or has.
WillFail(r, p) ==
  /\ cur[r] = p
  /\ pc[r] \in IF IsKnown(r) THEN {"judge", "fail"} ELSE {"event", "next", "abandon", "fail"}

MarkIsComing ==
  \A t \in Tasks : IsAbandoned(t) =>
    \/ pipe[PipelineOf[t]] = "Failed"
    \/ PipelineOf[t] \in cut
    \/ t \in rewritten
    \/ \E r \in Processes : WillFail(r, PipelineOf[t])

\* A marked task that is not Failed was written over.
OverwrittenIsNoted == \A t \in Tasks : t \in abandoned => status[t] = "Failed" \/ t \in rewritten

\* What a process does.
Step(r) ==
  Start(r) \/ Recover(r) \/ Execute(r)
    \/ ScanFails(r) \/ KnownTaskFails(r) \/ UnknownPipelineFails(r) \/ Stop(r)

RInv ==
  /\ TypeOK /\ HandsAreFull
  /\ ReadIsBehind /\ ResetsAreCounted /\ GivenUpLate
  /\ MarkIsComing /\ OverwrittenIsNoted

-----------------------------------------------------------------------------
LEMMA RInvHoldsFirst == Init => RInv
<1> SUFFICES ASSUME Init PROVE RInv
  OBVIOUS
<1> USE RecoveryAssumption DEF Init
<1>1. TypeOK
  BY DEF TypeOK, Places, Nothing
<1>2. HandsAreFull /\ GivenUpLate /\ MarkIsComing /\ OverwrittenIsNoted
  BY DEF HandsAreFull, HandsFull, GivenUpLate, MarkIsComing, OverwrittenIsNoted, IsAbandoned
<1>3. ReadIsBehind
  BY DEF ReadIsBehind, Nothing
<1>4. ResetsAreCounted
  <2>1. ASSUME NEW t \in Tasks PROVE Resetting(t) = {}
    BY DEF Resetting
  <2>2. Cardinality({}) = 0 /\ Cardinality(Processes) \in Nat \ {0}
    BY FS_EmptySet, FS_CardinalityType
  <2>3. ASSUME NEW t \in Tasks
        PROVE  recoveries[t] = 0 /\ Cardinality(Resetting(t)) = 0
    BY <2>1, <2>2
  <2> QED
    BY <2>2, <2>3 DEF ResetsAreCounted
<1> QED
  BY <1>1, <1>2, <1>3, <1>4 DEF RInv

RowsTypeOK == PipelineExecution /\ TaskExecution /\ rewritten \in SUBSET Tasks

\* The statements of recovery, whether or not they take effect.
LEMMA StatementsKeepTypes ==
    ASSUME RowsTypeOK,
           \/ \E t \in Tasks : LostReset(t) \/ LostAbandon(t)
           \/ \E p \in Pipelines : LostFail(p)
           \/ UNCHANGED rowVars
    PROVE  RowsTypeOK'
<1> USE DEF RowsTypeOK, rowVars
<1>1. ASSUME NEW t \in Tasks, ResetForRecovery(t) PROVE RowsTypeOK'
  BY <1>1 DEF ResetForRecovery, WriteOver
<1>2. ASSUME NEW t \in Tasks, MarkAbandoned(t) PROVE RowsTypeOK'
  BY <1>2 DEF MarkAbandoned
<1>3. ASSUME NEW p \in Pipelines, PipelineMarkFailed(p) PROVE RowsTypeOK'
  BY <1>3 DEF PipelineMarkFailed
<1>4. CASE UNCHANGED rowVars
  BY <1>4
<1> QED
  BY <1>1, <1>2, <1>3, <1>4 DEF LostReset, LostAbandon, LostFail

\* Types, action by action.
LEMMA TypesAreKept ==
    ASSUME TypeOK, HandsAreFull, NEW r \in Processes,
           Step(r)
    PROVE  TypeOK'
<1> USE RecoveryAssumption DEF TypeOK, rowVars, memoryVars, GoTo, Places
<1>1. CASE Start(r) \/ Group(r) \/ EndRecovery(r)
  <2>1. CASE Start(r)
    BY <2>1 DEF Start
  <2>2. CASE Group(r)
    BY <2>2 DEF Group
  <2>3. CASE EndRecovery(r)
    BY <2>3 DEF EndRecovery, Nothing
  <2> QED
    BY <1>1, <2>1, <2>2, <2>3
<1>2. CASE Scan(r)
  <2>1. [t \in Tasks |-> IF t \in OrphanedTasks THEN recoveries[t] ELSE 0] \in [Tasks -> Nat]
    OBVIOUS
  <2>2. OrphanedTasks \in SUBSET Tasks
    BY DEF OrphanedTasks
  <2> QED
    BY <1>2, <2>1, <2>2 DEF Scan
<1>3. ASSUME NEW p \in Pipelines, PickPipeline(r, p) PROVE TypeOK'
  BY <1>3 DEF PickPipeline
<1>4. ASSUME NEW t \in Tasks, TakeTask(r, t) PROVE TypeOK'
  BY <1>4 DEF TakeTask
<1>5. CASE NoTaskLeft(r)
  BY <1>5 DEF NoTaskLeft
<1>6. CASE Reset(r)
  BY <1>6 DEF Reset, ResetForRecovery, WriteOver, NextTask, HandsAreFull, HandsFull
<1>7. CASE Abandon(r)
  BY <1>7 DEF Abandon, MarkAbandoned, HandsAreFull, HandsFull
<1>8. CASE RecordEvent(r) \/ Judge(r)
  BY <1>8 DEF RecordEvent, Judge, NextTask
<1>9. CASE FailPipeline(r)
  BY <1>9 DEF FailPipeline, PipelineMarkFailed, LeaveFailed, NextTask
<1>10. ASSUME NEW S \in SUBSET Tasks, Claim(r, S) PROVE TypeOK'
  <2> USE <1>10 DEF Claim
  <2>1. status' \in [Tasks -> {"Ready", "Running", "Completed", "Failed"}] /\ runs' \in [Tasks -> Nat]
    OBVIOUS
  <2>2. \A t \in S : Claimed(t) \in Executions
    BY DEF Claimed, Executions
  <2>3. work' \in [Processes -> SUBSET Executions]
    BY <2>2
  <2> QED
    BY <2>1, <2>3
<1>11. ASSUME NEW e \in work[r], ReportCompleted(r, e) \/ ReportFailed(r, e) \/ ReportRetry(r, e)
       PROVE  TypeOK'
  <2>1. e.task \in Tasks /\ e.attempt \in Nat \ {0}
    BY DEF Executions
  <2>2. CASE ReportCompleted(r, e)
    BY <2>1, <2>2 DEF ReportCompleted, Report, WriteOver
  <2>3. CASE ReportFailed(r, e)
    BY <2>1, <2>3 DEF ReportFailed, Report
  <2>4. CASE ReportRetry(r, e)
    <3>1. attempt' \in [Tasks -> Nat \ {0}]
      BY <2>1, <2>4 DEF ReportRetry
    <3> QED
      BY <2>1, <2>4, <3>1 DEF ReportRetry, Report, WriteOver
  <2> QED
    BY <1>11, <2>2, <2>3, <2>4
<1>12. CASE ScanFails(r)
  BY <1>12 DEF ScanFails, Fault, Nothing
<1>13. CASE KnownTaskFails(r)
  <2>1. task[r] \in Tasks \/ pc[r] = "fail"
    BY <1>13 DEF KnownTaskFails, HandsAreFull, HandsFull
  <2>2. cur[r] \in Pipelines
    BY <1>13 DEF KnownTaskFails, HandsAreFull, HandsFull
  <2>3. RowsTypeOK'
    BY <1>13, <2>1, <2>2, StatementsKeepTypes DEF KnownTaskFails, RowsTypeOK
  <2> QED
    BY <1>13, <2>2, <2>3 DEF KnownTaskFails, Fault, RowsTypeOK, NextTask
<1>14. CASE UnknownPipelineFails(r)
  <2>1. task[r] \in Tasks \/ pc[r] = "fail"
    BY <1>14 DEF UnknownPipelineFails, HandsAreFull, HandsFull
  <2>2. cur[r] \in Pipelines
    BY <1>14 DEF UnknownPipelineFails, HandsAreFull, HandsFull
  <2>3. RowsTypeOK'
    BY <1>14, <2>1, <2>2, StatementsKeepTypes DEF UnknownPipelineFails, RowsTypeOK
  <2> QED
    BY <1>14, <2>2, <2>3 DEF UnknownPipelineFails, Fault, RowsTypeOK
<1>15. CASE Stop(r)
  BY <1>15 DEF Stop, Nothing
<1> QED
  BY <1>1, <1>2, <1>3, <1>4, <1>5, <1>6, <1>7, <1>8, <1>9, <1>10, <1>11, <1>12,
     <1>13, <1>14, <1>15 DEF Step, Recover, Execute

-----------------------------------------------------------------------------
\* A step of one process leaves the memory of the others alone.
LEMMA OthersAreLeftAlone ==
    ASSUME TypeOK, NEW r \in Processes, Step(r), NEW q \in Processes \ {r}
    PROVE  /\ pc'[q] = pc[q] /\ cur'[q] = cur[q] /\ task'[q] = task[q]
           /\ orphans'[q] = orphans[q] /\ read'[q] = read[q]
<1> USE DEF TypeOK, memoryVars, GoTo, NextTask
<1>1. CASE Start(r)
  BY <1>1 DEF Start
<1>2. CASE Recover(r)
  BY <1>2 DEF Recover, Scan, Group, EndRecovery, PickPipeline, TakeTask, NoTaskLeft, Reset,
              Abandon, RecordEvent, Judge, FailPipeline, LeaveFailed
<1>3. CASE Execute(r)
  BY <1>3 DEF Execute, Claim, Report, ReportCompleted, ReportFailed, ReportRetry
<1>4. CASE ScanFails(r) \/ Stop(r)
  BY <1>4 DEF ScanFails, Stop
<1>5. CASE KnownTaskFails(r) \/ UnknownPipelineFails(r)
  BY <1>5 DEF KnownTaskFails, UnknownPipelineFails
<1> QED
  BY <1>1, <1>2, <1>3, <1>4, <1>5 DEF Step

LEMMA HandsAreKept ==
    ASSUME TypeOK, HandsAreFull, NEW r \in Processes, Step(r)
    PROVE  HandsAreFull'
<1>0. \A q \in Processes \ {r} :
        /\ pc'[q] = pc[q] /\ cur'[q] = cur[q] /\ task'[q] = task[q]
        /\ orphans'[q] = orphans[q] /\ read'[q] = read[q]
  BY OthersAreLeftAlone
<1> USE RecoveryAssumption DEF TypeOK, HandsFull, HandsAreFull, IsKnown, GoTo, memoryVars
<1> SUFFICES HandsFull(r)'
  BY <1>0
<1>1. CASE Start(r) \/ Scan(r) \/ Group(r) \/ EndRecovery(r) \/ ScanFails(r) \/ Stop(r)
  BY <1>1 DEF Start, Scan, Group, EndRecovery, ScanFails, Stop
<1>2. ASSUME NEW p \in Pipelines, PickPipeline(r, p) PROVE HandsFull(r)'
  BY <1>2 DEF PickPipeline
<1>3. ASSUME NEW t \in Tasks, TakeTask(r, t) PROVE HandsFull(r)'
  BY <1>3 DEF TakeTask, TasksOf, Exhausted
<1>4. CASE NoTaskLeft(r)
  BY <1>4 DEF NoTaskLeft
<1>5. CASE Reset(r) \/ RecordEvent(r) \/ Judge(r)
  BY <1>5 DEF Reset, RecordEvent, Judge, NextTask
<1>6. CASE Abandon(r)
  BY <1>6 DEF Abandon
<1>7. CASE FailPipeline(r)
  BY <1>7 DEF FailPipeline, LeaveFailed, NextTask
<1>8. CASE Execute(r)
  BY <1>8 DEF Execute, Claim, Report, ReportCompleted, ReportFailed, ReportRetry
<1>9. CASE KnownTaskFails(r)
  BY <1>9 DEF KnownTaskFails, NextTask
<1>10. CASE UnknownPipelineFails(r)
  BY <1>10 DEF UnknownPipelineFails
<1> QED
  BY <1>1, <1>2, <1>3, <1>4, <1>5, <1>6, <1>7, <1>8, <1>9, <1>10 DEF Step, Recover

-----------------------------------------------------------------------------
\* Counts grow by one, and only by a reset.
LEMMA CountsGrow ==
    ASSUME TypeOK, HandsAreFull, NEW r \in Processes, Step(r), NEW t \in Tasks
    PROVE  \/ recoveries'[t] = recoveries[t]
           \/ /\ recoveries'[t] = recoveries[t] + 1
              /\ pc[r] = "reset" /\ task[r] = t /\ pc'[r] = "next" /\ orphans' = orphans
<1> USE DEF TypeOK, HandsAreFull, HandsFull, rowVars, memoryVars, GoTo, NextTask
<1>1. CASE Start(r) \/ Execute(r) \/ ScanFails(r) \/ Stop(r)
  BY <1>1 DEF Start, ScanFails, Stop, Execute, Claim, Report, ReportCompleted, ReportFailed, ReportRetry
<1>2. CASE Recover(r)
  BY <1>2 DEF Recover, Scan, Group, EndRecovery, PickPipeline, TakeTask, NoTaskLeft, Reset,
              Abandon, RecordEvent, Judge, FailPipeline, ResetForRecovery, MarkAbandoned,
              PipelineMarkFailed
<1>3. CASE KnownTaskFails(r)
  BY <1>3 DEF KnownTaskFails, LostReset, LostAbandon, LostFail, ResetForRecovery, MarkAbandoned,
              PipelineMarkFailed
<1>4. CASE UnknownPipelineFails(r)
  BY <1>4 DEF UnknownPipelineFails, LostAbandon, LostFail, MarkAbandoned, PipelineMarkFailed
<1> QED
  BY <1>1, <1>2, <1>3, <1>4 DEF Step

\* What is in the list of a process or in its hand was there before, or has
\* just been read.
LEMMA ReadsAreKept ==
    ASSUME TypeOK, HandsAreFull, NEW r \in Processes, Step(r), NEW t \in Tasks
    PROVE  /\ \/ read'[r][t] = read[r][t] \/ read'[r][t] = 0
              \/ pc[r] = "scan" /\ read'[r][t] = recoveries[t]
           /\ r \in Resetting(t)' =>
                \/ r \in Resetting(t)
                \/ pc[r] = "scan" /\ recoveries[t] < MaxRecovery
<1> USE RecoveryAssumption
        DEF TypeOK, HandsAreFull, HandsFull, rowVars, memoryVars, GoTo, NextTask, Resetting
<1>1. CASE Start(r) \/ Execute(r) \/ ScanFails(r) \/ Stop(r)
  BY <1>1 DEF Start, ScanFails, Stop, Execute, Claim, Report, ReportCompleted, ReportFailed,
              ReportRetry, Nothing
<1>2. CASE Scan(r)
  BY <1>2 DEF Scan, OrphanedTasks
<1>3. ASSUME NEW u \in Tasks, TakeTask(r, u)
      PROVE  read' = read /\ (r \in Resetting(t)' => r \in Resetting(t))
  BY <1>3 DEF TakeTask, Exhausted
<1>4. CASE Group(r) \/ EndRecovery(r) \/ (\E p \in Pipelines : PickPipeline(r, p)) \/ NoTaskLeft(r)
  BY <1>4 DEF Group, EndRecovery, PickPipeline, NoTaskLeft, Nothing
<1>5. CASE Reset(r) \/ Abandon(r) \/ RecordEvent(r) \/ Judge(r) \/ FailPipeline(r)
  BY <1>5 DEF Reset, Abandon, RecordEvent, Judge, FailPipeline, LeaveFailed
<1>6. CASE KnownTaskFails(r) \/ UnknownPipelineFails(r)
  BY <1>6 DEF KnownTaskFails, UnknownPipelineFails
<1> QED
  BY <1>1, <1>2, <1>3, <1>4, <1>5, <1>6 DEF Step, Recover

LEMMA ReadStaysBehind ==
    ASSUME RInv, NEW r \in Processes, Step(r)
    PROVE  ReadIsBehind'
<1> SUFFICES ASSUME NEW q \in Processes, NEW t \in Tasks
             PROVE  read'[q][t] <= recoveries'[t]
  BY DEF ReadIsBehind
<1>1. read[q][t] \in Nat /\ recoveries[t] \in Nat /\ read[q][t] <= recoveries[t]
  BY DEF RInv, TypeOK, ReadIsBehind
<1>2. recoveries'[t] \in Nat /\ recoveries'[t] >= recoveries[t]
  BY <1>1, CountsGrow DEF RInv
<1>3. read'[q][t] = read[q][t] \/ read'[q][t] = 0 \/ read'[q][t] = recoveries[t]
  <2>1. CASE q = r
    BY <2>1, ReadsAreKept DEF RInv
  <2>2. CASE q # r
    BY <2>2, OthersAreLeftAlone DEF RInv
  <2> QED
    BY <2>1, <2>2
<1> QED
  BY <1>1, <1>2, <1>3

LEMMA ResetsStayCounted ==
    ASSUME RInv, NEW r \in Processes, Step(r)
    PROVE  ResetsAreCounted'
<1> SUFFICES ASSUME NEW t \in Tasks
             PROVE  recoveries'[t] + Cardinality(Resetting(t)')
                      < MaxRecovery + Cardinality(Processes)
  BY DEF ResetsAreCounted
<1> DEFINE R == Resetting(t)
           S == Resetting(t)'
<1>1. /\ R \subseteq Processes /\ S \subseteq Processes
      /\ IsFiniteSet(R) /\ IsFiniteSet(S) /\ IsFiniteSet(Processes)
      /\ Cardinality(R) \in Nat /\ Cardinality(S) \in Nat /\ Cardinality(Processes) \in Nat
      /\ Cardinality(S) <= Cardinality(Processes)
  BY RecoveryAssumption, FS_Subset, FS_CardinalityType DEF Resetting
<1>2. recoveries[t] \in Nat /\ MaxRecovery \in Nat
      /\ recoveries[t] + Cardinality(R) < MaxRecovery + Cardinality(Processes)
  BY RecoveryAssumption DEF RInv, TypeOK, ResetsAreCounted
<1>3. \A q \in Processes \ {r} : q \in S => q \in R
  BY OthersAreLeftAlone DEF RInv, Resetting
<1>4. CASE recoveries'[t] = recoveries[t]
  <2>1. CASE S \subseteq R
    <3>1. Cardinality(S) <= Cardinality(R)
      BY <1>1, <2>1, FS_Subset
    <3> QED
      BY <1>1, <1>2, <1>4, <3>1
  <2>2. CASE ~(S \subseteq R)
    <3>1. recoveries[t] < MaxRecovery
      <4>1. r \in S /\ r \notin R
        BY <1>1, <1>3, <2>2
      <4> QED
        BY <4>1, ReadsAreKept DEF RInv
    <3> QED
      BY <1>1, <1>2, <1>4, <3>1
  <2> QED
    BY <2>1, <2>2
<1>5. CASE recoveries'[t] # recoveries[t]
  <2>1. /\ recoveries'[t] = recoveries[t] + 1
        /\ pc[r] = "reset" /\ task[r] = t /\ pc'[r] = "next" /\ orphans' = orphans
    BY <1>5, CountsGrow DEF RInv
  <2>2. t \notin orphans[r] /\ read[r][t] < MaxRecovery
    BY <2>1 DEF RInv, HandsAreFull, HandsFull
  <2>3. r \in R /\ r \notin S
    BY <2>1, <2>2 DEF Resetting
  <2>4. S \subseteq R \ {r}
    BY <1>1, <1>3, <2>3
  <2>5. Cardinality(S) <= Cardinality(R) - 1
    BY <1>1, <2>3, <2>4, FS_Subset, FS_RemoveElement
  <2> QED
    BY <1>1, <1>2, <2>1, <2>5
<1> QED
  BY <1>4, <1>5

-----------------------------------------------------------------------------
\* A task is marked abandoned by the process that has it in hand.
LEMMA WhoAbandons ==
    ASSUME TypeOK, HandsAreFull, NEW r \in Processes, Step(r), NEW t \in Tasks,
           t \in abandoned', t \notin abandoned
    PROVE  pc[r] = "abandon" /\ task[r] = t
<1> USE DEF TypeOK, HandsAreFull, HandsFull, rowVars
<1>1. CASE Start(r) \/ Execute(r) \/ ScanFails(r) \/ Stop(r)
  BY <1>1 DEF Start, ScanFails, Stop, Execute, Claim, Report, ReportCompleted, ReportFailed,
              ReportRetry
<1>2. CASE Recover(r)
  BY <1>2 DEF Recover, Scan, Group, EndRecovery, PickPipeline, TakeTask, NoTaskLeft, Reset,
              Abandon, RecordEvent, Judge, FailPipeline, ResetForRecovery, MarkAbandoned,
              PipelineMarkFailed
<1>3. CASE KnownTaskFails(r)
  BY <1>3 DEF KnownTaskFails, LostReset, LostAbandon, LostFail, ResetForRecovery, MarkAbandoned,
              PipelineMarkFailed
<1>4. CASE UnknownPipelineFails(r)
  BY <1>4 DEF UnknownPipelineFails, LostAbandon, LostFail, MarkAbandoned, PipelineMarkFailed
<1> QED
  BY <1>1, <1>2, <1>3, <1>4 DEF Step

LEMMA GivenUpStaysLate ==
    ASSUME RInv, NEW r \in Processes, Step(r)
    PROVE  GivenUpLate'
<1> SUFFICES ASSUME NEW t \in Tasks, t \in abandoned', EveryoneKnows(t)
             PROVE  recoveries'[t] >= MaxRecovery
  BY DEF GivenUpLate, EveryoneKnows
<1>1. recoveries[t] \in Nat /\ MaxRecovery \in Nat /\ recoveries'[t] \in Nat
      /\ recoveries'[t] >= recoveries[t]
  BY RecoveryAssumption, CountsGrow DEF RInv, TypeOK
<1>2. recoveries[t] >= MaxRecovery
  <2>1. CASE t \in abandoned
    BY <2>1 DEF RInv, GivenUpLate
  <2>2. CASE t \notin abandoned
    <3>1. pc[r] = "abandon" /\ task[r] = t
      BY <2>2, WhoAbandons DEF RInv
    <3>2. IsKnown(r)
      BY <3>1 DEF RInv, HandsAreFull, HandsFull, IsKnown, EveryoneKnows
    <3>3. read[r][t] >= MaxRecovery /\ read[r][t] <= recoveries[t] /\ read[r][t] \in Nat
      BY <3>1, <3>2 DEF RInv, HandsAreFull, HandsFull, ReadIsBehind, TypeOK
    <3> QED
      BY <1>1, <3>3
  <2> QED
    BY <2>1, <2>2
<1> QED
  BY <1>1, <1>2

\* A pipeline that has failed stays failed, one that was cut off stays so.
LEMMA MarksStay ==
    ASSUME TypeOK, HandsAreFull, NEW r \in Processes, Step(r), NEW p \in Pipelines
    PROVE  /\ pipe[p] = "Failed" => pipe'[p] = "Failed"
           /\ p \in cut => p \in cut'
<1> USE DEF TypeOK, HandsAreFull, HandsFull, rowVars
<1>1. CASE Start(r) \/ Execute(r) \/ ScanFails(r) \/ Stop(r)
  BY <1>1 DEF Start, ScanFails, Stop, Execute, Claim, Report, ReportCompleted, ReportFailed,
              ReportRetry
<1>2. CASE Recover(r)
  BY <1>2 DEF Recover, Scan, Group, EndRecovery, PickPipeline, TakeTask, NoTaskLeft, Reset,
              Abandon, RecordEvent, Judge, FailPipeline, ResetForRecovery, MarkAbandoned,
              PipelineMarkFailed
<1>3. CASE KnownTaskFails(r)
  BY <1>3 DEF KnownTaskFails, LostReset, LostAbandon, LostFail, ResetForRecovery, MarkAbandoned,
              PipelineMarkFailed
<1>4. CASE UnknownPipelineFails(r)
  BY <1>4 DEF UnknownPipelineFails, LostAbandon, LostFail, MarkAbandoned, PipelineMarkFailed
<1> QED
  BY <1>1, <1>2, <1>3, <1>4 DEF Step

\* Whoever was going to mark p still is, or has, or was cut off.
LEMMA WillFailGoesOn ==
    ASSUME TypeOK, HandsAreFull, NEW r \in Processes, Step(r), NEW p \in Pipelines,
           WillFail(r, p)
    PROVE  \/ pipe'[p] = "Failed"
           \/ p \in cut'
           \/ WillFail(r, p)'
           \/ ~\E t \in TasksOf(p) : IsAbandoned(t)'
<1> USE RecoveryAssumption
        DEF TypeOK, HandsAreFull, HandsFull, rowVars, memoryVars, WillFail, IsKnown, GoTo
<1>1. CASE Start(r) \/ Execute(r) \/ ScanFails(r)
  BY <1>1 DEF Start, ScanFails, Execute, Claim, Report, ReportCompleted, ReportFailed, ReportRetry
<1>2. CASE Stop(r)
  BY <1>2 DEF Stop
<1>3. CASE \E t \in Tasks : TakeTask(r, t)
  BY <1>3 DEF TakeTask
<1>4. CASE NoTaskLeft(r)
  BY <1>4 DEF NoTaskLeft
<1>5. CASE Scan(r) \/ Group(r) \/ EndRecovery(r) \/ (\E q \in Pipelines : PickPipeline(r, q)) \/ Reset(r)
  BY <1>5 DEF Scan, Group, EndRecovery, PickPipeline, Reset
<1>6. CASE Abandon(r) \/ RecordEvent(r)
  BY <1>6 DEF Abandon, RecordEvent, NextTask
<1>7. CASE Judge(r)
  BY <1>7 DEF Judge, NextTask, PipelineHasFailed, IsAbandoned
<1>8. CASE FailPipeline(r)
  BY <1>8 DEF FailPipeline, PipelineMarkFailed
<1>9. CASE KnownTaskFails(r) \/ UnknownPipelineFails(r)
  BY <1>9 DEF KnownTaskFails, UnknownPipelineFails
<1> QED
  BY <1>1, <1>2, <1>3, <1>4, <1>5, <1>6, <1>7, <1>8, <1>9 DEF Step, Recover

\* Every statement that takes an abandoned task out of state Failed is noted.
LEMMA OverwrittenStaysNoted ==
    ASSUME TypeOK, HandsAreFull, OverwrittenIsNoted, NEW r \in Processes, Step(r)
    PROVE  OverwrittenIsNoted'
<1> SUFFICES ASSUME NEW t \in Tasks, t \in abandoned'
             PROVE  status'[t] = "Failed" \/ t \in rewritten'
  BY DEF OverwrittenIsNoted
<1>0. t \in abandoned => status[t] = "Failed" \/ t \in rewritten
  BY DEF OverwrittenIsNoted
<1> USE <1>0 DEF TypeOK, TaskExecution, HandsAreFull, HandsFull, rowVars
<1>1. CASE Start(r) \/ ScanFails(r) \/ Stop(r)
  BY <1>1 DEF Start, ScanFails, Stop
<1>2. CASE \E S \in SUBSET Tasks : Claim(r, S)
  BY <1>2 DEF Claim, Claimable
<1>3. ASSUME NEW e \in work[r], ReportCompleted(r, e) \/ ReportFailed(r, e) \/ ReportRetry(r, e)
      PROVE  status'[t] = "Failed" \/ t \in rewritten'
  BY <1>3 DEF Report, ReportCompleted, ReportFailed, ReportRetry, WriteOver
<1>4. CASE Recover(r)
  BY <1>4 DEF Recover, Scan, Group, EndRecovery, PickPipeline, TakeTask, NoTaskLeft, Reset,
              Abandon, RecordEvent, Judge, FailPipeline, ResetForRecovery, MarkAbandoned,
              PipelineMarkFailed, WriteOver
<1>5. CASE KnownTaskFails(r)
  BY <1>5 DEF KnownTaskFails, LostReset, LostAbandon, LostFail, ResetForRecovery, MarkAbandoned,
              PipelineMarkFailed, WriteOver
<1>6. CASE UnknownPipelineFails(r)
  BY <1>6 DEF UnknownPipelineFails, LostAbandon, LostFail, MarkAbandoned, PipelineMarkFailed
<1> QED
  BY <1>1, <1>2, <1>3, <1>4, <1>5, <1>6 DEF Step, Execute

\* A task becomes abandoned, for the first time or again, in the hand of a
\* process that will mark its pipeline, or is cut off.
LEMMA NewMarkIsComing ==
    ASSUME TypeOK, HandsAreFull, OverwrittenIsNoted, NEW r \in Processes, Step(r), NEW t \in Tasks,
           IsAbandoned(t)', t \notin rewritten',
           ~IsAbandoned(t) \/ t \in rewritten
    PROVE  PipelineOf[t] \in cut' \/ WillFail(r, PipelineOf[t])'
<1>0. t \in abandoned => IsAbandoned(t) \/ t \in rewritten
  BY DEF OverwrittenIsNoted, IsAbandoned
<1> USE RecoveryAssumption, <1>0
        DEF TypeOK, HandsAreFull, HandsFull, rowVars, memoryVars, WillFail, IsKnown, GoTo, IsAbandoned
<1>1. CASE Start(r) \/ ScanFails(r) \/ Stop(r)
  BY <1>1 DEF Start, ScanFails, Stop
<1>2. CASE Execute(r)
  BY <1>2 DEF Execute, Claim, Report, ReportCompleted, ReportFailed, ReportRetry, WriteOver
<1>3. CASE Abandon(r)
  BY <1>3 DEF Abandon, MarkAbandoned
<1>4. CASE Recover(r) /\ ~Abandon(r)
  BY <1>4 DEF Recover, Scan, Group, EndRecovery, PickPipeline, TakeTask, NoTaskLeft, Reset,
              RecordEvent, Judge, FailPipeline, ResetForRecovery, PipelineMarkFailed, WriteOver
<1>5. CASE KnownTaskFails(r)
  BY <1>5 DEF KnownTaskFails, LostReset, LostAbandon, LostFail, ResetForRecovery, MarkAbandoned,
              PipelineMarkFailed, WriteOver
<1>6. CASE UnknownPipelineFails(r)
  BY <1>6 DEF UnknownPipelineFails, LostAbandon, LostFail, MarkAbandoned, PipelineMarkFailed
<1> QED
  BY <1>1, <1>2, <1>3, <1>4, <1>5, <1>6 DEF Step

LEMMA MarkStaysComing ==
    ASSUME RInv, NEW r \in Processes, Step(r)
    PROVE  MarkIsComing'
<1> SUFFICES ASSUME NEW t \in Tasks, IsAbandoned(t)', t \notin rewritten'
             PROVE  \/ pipe'[PipelineOf[t]] = "Failed"
                    \/ PipelineOf[t] \in cut'
                    \/ \E q \in Processes : WillFail(q, PipelineOf[t])'
  BY DEF MarkIsComing
<1>1. PipelineOf[t] \in Pipelines /\ t \in TasksOf(PipelineOf[t])
  BY RecoveryAssumption DEF TasksOf
<1>2. CASE ~IsAbandoned(t) \/ t \in rewritten
  BY <1>2, NewMarkIsComing DEF RInv
<1>3. CASE pipe[PipelineOf[t]] = "Failed" \/ PipelineOf[t] \in cut
  BY <1>1, <1>3, MarksStay DEF RInv
<1>4. ASSUME NEW q \in Processes, WillFail(q, PipelineOf[t])
      PROVE  \/ pipe'[PipelineOf[t]] = "Failed"
             \/ PipelineOf[t] \in cut'
             \/ WillFail(q, PipelineOf[t])'
  <2>1. CASE q = r
    BY <1>1, <1>4, <2>1, WillFailGoesOn DEF RInv
  <2>2. CASE q # r
    BY <1>4, <2>2, OthersAreLeftAlone DEF RInv, WillFail, IsKnown
  <2> QED
    BY <2>1, <2>2
<1> QED
  BY <1>2, <1>3, <1>4 DEF RInv, MarkIsComing

-----------------------------------------------------------------------------
LEMMA RInvIsInductive == RInv /\ [Next]_vars => RInv'
<1>1. ASSUME RInv, NEW r \in Processes, Step(r) PROVE RInv'
  <2>1. TypeOK'
    BY <1>1, TypesAreKept DEF RInv
  <2>2. HandsAreFull'
    BY <1>1, HandsAreKept DEF RInv
  <2> QED
    BY <1>1, <2>1, <2>2, ReadStaysBehind, ResetsStayCounted, GivenUpStaysLate, MarkStaysComing,
       OverwrittenStaysNoted DEF RInv
<1>2. ASSUME RInv, UNCHANGED vars PROVE RInv'
  BY <1>2 DEF vars, rowVars, memoryVars, RInv, TypeOK, HandsAreFull, HandsFull, IsKnown,
              ReadIsBehind, ResetsAreCounted, Resetting, GivenUpLate, EveryoneKnows, MarkIsComing,
              OverwrittenIsNoted, IsAbandoned, WillFail
<1> QED
  BY <1>1, <1>2 DEF Next, Step

LEMMA RInvHolds == Spec => []RInv
BY RInvHoldsFirst, RInvIsInductive, PTL DEF Spec

\* The columns and the memory of every process keep their types.
THEOREM RecoveryTypeCorrect == Spec => []TypeOK
BY RInvHolds, PTL DEF RInv

\* For any number of processes that start, end and recover over each other, a
\* task is recovered fewer than MaxRecovery + Cardinality(Processes) times,
\* and given up only at the limit.
THEOREM RecoveriesStayBounded == Spec => []RecoveriesAreBounded
<1>1. RInv => RecoveriesAreBounded
  <2> SUFFICES ASSUME RInv, NEW t \in Tasks
               PROVE  /\ recoveries[t] < MaxRecovery + Cardinality(Processes)
                      /\ t \in abandoned /\ EveryoneKnows(t) => recoveries[t] >= MaxRecovery
    BY DEF RecoveriesAreBounded, EveryoneKnows
  <2>1. Cardinality(Resetting(t)) \in Nat /\ Cardinality(Processes) \in Nat
    BY RecoveryAssumption, FS_Subset, FS_CardinalityType DEF Resetting
  <2> QED
    BY <2>1, RecoveryAssumption DEF RInv, TypeOK, ResetsAreCounted, GivenUpLate
<1> QED
  BY <1>1, RInvHolds, PTL

\* A pipeline with an abandoned task fails, unless the process that gave the
\* task up is cut off between the two statements, or another process writes
\* over the task between them.
THEOREM AbandonedAlwaysFails == Spec => []AbandonedFailsPipeline
<1>1. RInv => AbandonedFailsPipeline
  BY DEF RInv, MarkIsComing, AbandonedFailsPipeline, WillFail, IsFailing
<1> QED
  BY <1>1, RInvHolds, PTL
-----------------------------------------------------------------------------
(***************************************************************************)
(* How often bodies are started.  A row that is Ready and an execution in  *)
(* hand each stand for the runs that may still come of them; a run uses    *)
(* one up, and only a recovery makes new ones.                             *)
(***************************************************************************)

\* The runs that may follow from an execution, if every one of them fails.
Chain(r, e) == {<<r, e, n>> : n \in (e.attempt + 1)..MaxAttempts[e.task]}

InHand(t) == UNION {UNION {Chain(r, e) : e \in {x \in work[r] : x.task = t}} : r \in Processes}

\* The runs that may follow from the row.
InRow(t) == IF status[t] = "Ready" THEN MaxAttempts[t] - attempt[t] + 1 ELSE 0

AttemptsAreWithin ==
  /\ \A t \in Tasks : attempt[t] <= MaxAttempts[t]
  /\ \A r \in Processes : \A e \in work[r] : e.attempt <= MaxAttempts[e.task]

RunsAreCounted ==
  \A t \in Tasks :
    /\ IsFiniteSet(InHand(t))
    /\ runs[t] + InRow(t) + Cardinality(InHand(t)) <= MaxAttempts[t] * (1 + recoveries[t])

WInv == AttemptsAreWithin /\ RunsAreCounted

LEMMA ChainIsFinite ==
    ASSUME NEW r, NEW t \in Tasks, NEW e, e.task = t,
           e.attempt \in Nat, e.attempt <= MaxAttempts[t]
    PROVE  IsFiniteSet(Chain(r, e)) /\ Cardinality(Chain(r, e)) = MaxAttempts[t] - e.attempt
<1> DEFINE I == (e.attempt + 1)..MaxAttempts[t]
           f == [n \in I |-> <<r, e, n>>]
<1>1. MaxAttempts[t] \in Int /\ e.attempt + 1 \in Int
  BY RecoveryAssumption
<1>2. IsFiniteSet(I) /\ Cardinality(I) = MaxAttempts[t] - e.attempt
  <2>1. /\ IsFiniteSet(I)
        /\ Cardinality(I) = IF e.attempt + 1 > MaxAttempts[t] THEN 0
                            ELSE MaxAttempts[t] - (e.attempt + 1) + 1
    BY <1>1, FS_Interval, Zenon
  <2> HIDE DEF I
  <2> QED
    BY <1>1, <2>1
<1>3. f \in Bijection(I, Chain(r, e))
  <2>1. \A m, n \in I : f[m] = f[n] => m = n
    OBVIOUS
  <2>2. \A x \in Chain(r, e) : \E n \in I : f[n] = x
    BY DEF Chain
  <2>3. f \in [I -> Chain(r, e)]
    BY DEF Chain
  <2> QED
    BY <2>1, <2>2, <2>3 DEF Bijection, Injection, Surjection, IsInjective
<1>4. ExistsBijection(I, Chain(r, e))
  BY <1>3 DEF ExistsBijection
<1> HIDE DEF I, f
<1> QED
  BY <1>2, <1>4, FS_Bijection

LEMMA InHandIsWhat ==
    ASSUME NEW t, NEW x
    PROVE  x \in InHand(t) <=>
             \E r \in Processes : \E e \in work[r] : e.task = t /\ x \in Chain(r, e)
BY DEF InHand

LEMMA WInvHoldsFirst == Init => WInv
<1> SUFFICES ASSUME Init PROVE WInv
  OBVIOUS
<1> USE RecoveryAssumption DEF Init
<1>1. AttemptsAreWithin
  BY DEF AttemptsAreWithin
<1>2. ASSUME NEW t \in Tasks
      PROVE  /\ IsFiniteSet(InHand(t))
             /\ runs[t] + InRow(t) + Cardinality(InHand(t)) <= MaxAttempts[t] * (1 + recoveries[t])
  <2>1. InHand(t) = {}
    BY InHandIsWhat
  <2>2. Cardinality({}) = 0 /\ IsFiniteSet({})
    BY FS_EmptySet
  <2>3. InRow(t) = MaxAttempts[t] /\ MaxAttempts[t] * (1 + 0) = MaxAttempts[t]
    BY DEF InRow
  <2> QED
    BY <2>1, <2>2, <2>3
<1> QED
  BY <1>1, <1>2 DEF WInv, RunsAreCounted

\* The steps of recovery start no body, keep what is in hand or drop it, and
\* make a row Ready only with a count.
LEMMA OnlyResetsRenew ==
    ASSUME TypeOK, HandsAreFull, NEW r \in Processes, Step(r), ~Execute(r)
    PROVE  /\ runs' = runs /\ attempt' = attempt
           /\ \A q \in Processes : work'[q] = work[q] \/ work'[q] = {}
           /\ \A t \in Tasks :
                \/ recoveries'[t] = recoveries[t] + 1
                \/ recoveries'[t] = recoveries[t] /\ (status'[t] = "Ready" => status[t] = "Ready")
<1> USE DEF TypeOK, HandsAreFull, HandsFull, rowVars
<1>1. CASE Start(r) \/ ScanFails(r) \/ Stop(r)
  BY <1>1 DEF Start, ScanFails, Stop
<1>2. CASE Recover(r)
  BY <1>2 DEF Recover, Scan, Group, EndRecovery, PickPipeline, TakeTask, NoTaskLeft, Reset,
              Abandon, RecordEvent, Judge, FailPipeline, ResetForRecovery, MarkAbandoned,
              PipelineMarkFailed
<1>3. CASE KnownTaskFails(r)
  BY <1>3 DEF KnownTaskFails, LostReset, LostAbandon, LostFail, ResetForRecovery, MarkAbandoned,
              PipelineMarkFailed
<1>4. CASE UnknownPipelineFails(r)
  BY <1>4 DEF UnknownPipelineFails, LostAbandon, LostFail, MarkAbandoned, PipelineMarkFailed
<1> QED
  BY <1>1, <1>2, <1>3, <1>4 DEF Step

LEMMA RecoveryKeepsCount ==
    ASSUME RInv, WInv, NEW r \in Processes, Step(r), ~Execute(r)
    PROVE  WInv'
<1>1. /\ runs' = runs /\ attempt' = attempt
      /\ \A q \in Processes : work'[q] = work[q] \/ work'[q] = {}
  BY OnlyResetsRenew, RecoveryAssumption DEF RInv
<1>2. AttemptsAreWithin'
  BY <1>1 DEF WInv, AttemptsAreWithin
<1>3. ASSUME NEW t \in Tasks
      PROVE  /\ IsFiniteSet(InHand(t)')
             /\ runs'[t] + InRow(t)' + Cardinality(InHand(t)') <= MaxAttempts[t] * (1 + recoveries'[t])
  <2> DEFINE M == MaxAttempts[t]
             k == recoveries[t]
  <2>1. InHand(t)' \subseteq InHand(t)
    BY <1>1 DEF InHand
  <2>2. IsFiniteSet(InHand(t)') /\ Cardinality(InHand(t)') <= Cardinality(InHand(t))
        /\ Cardinality(InHand(t)') \in Nat /\ Cardinality(InHand(t)) \in Nat
    BY <2>1, FS_Subset, FS_CardinalityType DEF WInv, RunsAreCounted
  <2>3. M \in Nat /\ k \in Nat /\ runs[t] \in Nat /\ attempt[t] \in Nat \ {0} /\ attempt[t] <= M
    BY RecoveryAssumption DEF RInv, TypeOK, WInv, AttemptsAreWithin
  <2>4. runs[t] + InRow(t) + Cardinality(InHand(t)) <= M * (1 + k)
    BY DEF WInv, RunsAreCounted
  <2>5. CASE recoveries'[t] = k + 1
    <3>1. M * (1 + (k + 1)) = M * (1 + k) + M /\ M * (1 + k) \in Nat
      BY <2>3
    <3>2. InRow(t)' <= M /\ InRow(t) >= 0 /\ InRow(t)' \in Int /\ InRow(t) \in Int
      BY <1>1, <2>3 DEF InRow
    <3> QED
      BY <1>1, <2>2, <2>3, <2>4, <2>5, <3>1, <3>2
  <2>6. CASE recoveries'[t] = k /\ (status'[t] = "Ready" => status[t] = "Ready")
    <3>1. InRow(t)' <= InRow(t) /\ InRow(t)' \in Int /\ InRow(t) \in Int
      BY <1>1, <2>3, <2>6 DEF InRow
    <3>2. M * (1 + k) \in Nat
      BY <2>3
    <3> QED
      BY <1>1, <2>2, <2>3, <2>4, <2>6, <3>1, <3>2
  <2> QED
    BY <2>2, <2>5, <2>6, OnlyResetsRenew DEF RInv
<1> QED
  BY <1>2, <1>3 DEF WInv, RunsAreCounted

LEMMA UnionIsBounded ==
    ASSUME NEW A, IsFiniteSet(A), NEW B, IsFiniteSet(B), NEW C \in SUBSET (A \cup B)
    PROVE  /\ IsFiniteSet(C)
           /\ Cardinality(C) <= Cardinality(A) + Cardinality(B)
           /\ Cardinality(C) \in Nat /\ Cardinality(A) \in Nat
<1>1. IsFiniteSet(A \cup B)
      /\ Cardinality(A \cup B) = Cardinality(A) + Cardinality(B) - Cardinality(A \cap B)
  BY FS_Union
<1>2. Cardinality(A) \in Nat /\ Cardinality(B) \in Nat /\ Cardinality(A \cap B) \in Nat
  BY FS_Intersection, FS_CardinalityType
<1>3. IsFiniteSet(C) /\ Cardinality(C) <= Cardinality(A \cup B)
  BY <1>1, FS_Subset
<1>4. Cardinality(C) \in Nat
  BY <1>3, FS_CardinalityType
<1> QED
  BY <1>1, <1>2, <1>3, <1>4

LEMMA ClaimKeepsCount ==
    ASSUME RInv, WInv, NEW r \in Processes, NEW S \in SUBSET Tasks, Claim(r, S)
    PROVE  WInv'
<1> USE RecoveryAssumption DEF TypeOK
<1>1. /\ attempt' = attempt /\ recoveries' = recoveries
      /\ work' = [work EXCEPT ![r] = @ \cup {Claimed(t) : t \in S}]
      /\ \A t \in Tasks : /\ status'[t] = IF t \in S THEN "Running" ELSE status[t]
                          /\ runs'[t] = IF t \in S THEN runs[t] + 1 ELSE runs[t]
      /\ \A t \in S : status[t] = "Ready"
  BY DEF Claim, RInv, Claimable
<1>2. AttemptsAreWithin'
  <2>1. \A t \in S : Claimed(t).attempt <= MaxAttempts[Claimed(t).task]
    BY DEF WInv, AttemptsAreWithin, Claimed
  <2> QED
    BY <1>1, <2>1 DEF RInv, WInv, AttemptsAreWithin
<1>3. ASSUME NEW t \in Tasks
      PROVE  /\ IsFiniteSet(InHand(t)')
             /\ runs'[t] + InRow(t)' + Cardinality(InHand(t)') <= MaxAttempts[t] * (1 + recoveries'[t])
  <2> DEFINE e == Claimed(t)
             C == IF t \in S THEN Chain(r, e) ELSE {}
  <2>1. e.task = t /\ e.attempt = attempt[t]
    BY DEF Claimed
  <2>2. \A u \in S : Claimed(u).task = u
    BY DEF Claimed
  <2>3. InHand(t)' \subseteq InHand(t) \cup C
    <3> SUFFICES ASSUME NEW x \in InHand(t)' PROVE x \in InHand(t) \cup C
      OBVIOUS
    <3>1. PICK q \in Processes : \E g \in work'[q] : g.task = t /\ x \in Chain(q, g)
      BY DEF InHand, Chain
    <3> PICK g \in work'[q] : g.task = t /\ x \in Chain(q, g)
      BY <3>1
    <3>2. CASE g \in work[q]
      BY <3>2, InHandIsWhat
    <3>3. CASE g \notin work[q]
      <4>1. q = r /\ \E u \in S : g = Claimed(u)
        BY <1>1, <3>3 DEF RInv
      <4>2. t \in S /\ g = e
        BY <2>2, <4>1
      <4> QED
        BY <4>1, <4>2
    <3> QED
      BY <3>2, <3>3
  <2>4. /\ MaxAttempts[t] \in Nat /\ runs[t] \in Nat /\ recoveries[t] \in Nat
        /\ attempt[t] \in Nat \ {0} /\ attempt[t] <= MaxAttempts[t]
        /\ MaxAttempts[t] * (1 + recoveries[t]) \in Nat
    BY DEF RInv, WInv, AttemptsAreWithin
  <2>5. /\ IsFiniteSet(C)
        /\ Cardinality(C) = IF t \in S THEN MaxAttempts[t] - attempt[t] ELSE 0
    <3>1. IsFiniteSet(Chain(r, e)) /\ Cardinality(Chain(r, e)) = MaxAttempts[t] - e.attempt
      BY <2>1, <2>4, ChainIsFinite
    <3> HIDE DEF e
    <3> QED
      BY <2>1, <3>1, FS_EmptySet
  <2> HIDE DEF C, e
  <2>6. /\ IsFiniteSet(InHand(t)')
        /\ Cardinality(InHand(t)') <= Cardinality(InHand(t)) + Cardinality(C)
        /\ Cardinality(InHand(t)') \in Nat /\ Cardinality(InHand(t)) \in Nat
    BY <2>3, <2>5, UnionIsBounded DEF WInv, RunsAreCounted
  <2>7. runs[t] + InRow(t) + Cardinality(InHand(t)) <= MaxAttempts[t] * (1 + recoveries[t])
    BY DEF WInv, RunsAreCounted
  <2>8. CASE t \in S
    <3>1. InRow(t) = MaxAttempts[t] - attempt[t] + 1 /\ InRow(t)' = 0 /\ runs'[t] = runs[t] + 1
      BY <1>1, <2>8 DEF InRow
    <3> QED
      BY <1>1, <2>4, <2>5, <2>6, <2>7, <2>8, <3>1
  <2>9. CASE t \notin S
    <3>1. InRow(t)' = InRow(t) /\ runs'[t] = runs[t] /\ InRow(t) \in Int
      BY <1>1, <2>4, <2>9 DEF InRow
    <3> QED
      BY <1>1, <2>4, <2>5, <2>6, <2>7, <2>9, <3>1
  <2> QED
    BY <2>8, <2>9
<1> QED
  BY <1>2, <1>3 DEF WInv, RunsAreCounted

LEMMA ReportKeepsCount ==
    ASSUME RInv, WInv, NEW r \in Processes, NEW e \in work[r],
           ReportCompleted(r, e) \/ ReportFailed(r, e) \/ ReportRetry(r, e)
    PROVE  WInv'
<1> USE RecoveryAssumption DEF TypeOK
<1>0. e.task \in Tasks /\ e.attempt \in Nat \ {0} /\ e.attempt <= MaxAttempts[e.task]
  BY DEF RInv, Executions, WInv, AttemptsAreWithin
<1>1. /\ work' = [work EXCEPT ![r] = @ \ {e}]
      /\ recoveries' = recoveries /\ runs' = runs
      /\ \/ status' = [status EXCEPT ![e.task] = "Completed"] /\ attempt' = attempt
         \/ status' = [status EXCEPT ![e.task] = "Failed"] /\ attempt' = attempt
         \/ /\ status' = [status EXCEPT ![e.task] = "Ready"]
            /\ e.attempt < MaxAttempts[e.task]
            /\ attempt' = [attempt EXCEPT ![e.task] = e.attempt + 1]
  BY DEF Report, ReportCompleted, ReportFailed, ReportRetry, MayRetry
<1>2. AttemptsAreWithin'
  <2>1. ASSUME NEW t \in Tasks PROVE attempt'[t] <= MaxAttempts[t]
    <3>1. attempt[t] <= MaxAttempts[t] /\ attempt \in [Tasks -> Nat \ {0}]
          /\ MaxAttempts[e.task] \in Nat
      BY <1>0 DEF RInv, WInv, AttemptsAreWithin
    <3>2. attempt' = attempt \/ attempt' = [attempt EXCEPT ![e.task] = e.attempt + 1]
      BY <1>1
    <3>3. CASE attempt'[t] = attempt[t]
      BY <3>1, <3>3
    <3>4. CASE attempt'[t] # attempt[t]
      <4>1. t = e.task /\ attempt'[t] = e.attempt + 1 /\ e.attempt < MaxAttempts[e.task]
        BY <1>1, <3>1, <3>2, <3>4
      <4> QED
        BY <1>0, <3>1, <4>1
    <3> QED
      BY <3>3, <3>4
  <2>2. \A q \in Processes : work'[q] \subseteq work[q]
    BY <1>1 DEF RInv
  <2> QED
    BY <2>1, <2>2 DEF WInv, AttemptsAreWithin
<1>3. ASSUME NEW t \in Tasks
      PROVE  /\ IsFiniteSet(InHand(t)')
             /\ runs'[t] + InRow(t)' + Cardinality(InHand(t)') <= MaxAttempts[t] * (1 + recoveries'[t])
  <2> DEFINE D == Chain(r, e)
             H == InHand(t)
  <2>1. /\ MaxAttempts[t] \in Nat /\ runs[t] \in Nat /\ recoveries[t] \in Nat
        /\ attempt[t] \in Nat \ {0} /\ attempt[t] <= MaxAttempts[t]
        /\ MaxAttempts[t] * (1 + recoveries[t]) \in Nat
    BY DEF RInv, WInv, AttemptsAreWithin
  <2>2. runs[t] + InRow(t) + Cardinality(H) <= MaxAttempts[t] * (1 + recoveries[t])
        /\ IsFiniteSet(H)
    BY DEF WInv, RunsAreCounted
  <2>3. H' \subseteq H
    BY <1>1 DEF RInv, InHand, Chain
  <2>4. /\ IsFiniteSet(H') /\ Cardinality(H') <= Cardinality(H)
        /\ Cardinality(H') \in Nat /\ Cardinality(H) \in Nat
    BY <2>2, <2>3, FS_Subset, FS_CardinalityType
  <2>5. CASE t # e.task
    <3>1. InRow(t)' = InRow(t) /\ InRow(t) \in Int
      BY <1>0, <1>1, <2>1, <2>5 DEF RInv, InRow
    <3> QED
      BY <1>1, <2>1, <2>2, <2>4, <3>1
  <2>6. CASE t = e.task
    <3>1. D \subseteq H
      BY <2>6 DEF InHand
    <3>2. H' \subseteq H \ D
      <4> SUFFICES ASSUME NEW x \in H' PROVE x \notin D
        BY <2>3
      <4>1. PICK q \in Processes : \E g \in work'[q] : x \in Chain(q, g)
        BY DEF InHand, Chain
      <4> PICK g \in work'[q] : x \in Chain(q, g)
        BY <4>1
      <4>2. q # r \/ g # e
        BY <1>1 DEF RInv
      <4> QED
        BY <4>2 DEF Chain
    <3>3. IsFiniteSet(D) /\ Cardinality(D) = MaxAttempts[t] - e.attempt
      BY <1>0, <2>6, ChainIsFinite
    <3>4. Cardinality(H') <= Cardinality(H) - (MaxAttempts[t] - e.attempt)
      <4>1. IsFiniteSet(H \ D) /\ Cardinality(H \ D) = Cardinality(H) - Cardinality(H \cap D)
        BY <2>2, FS_Difference
      <4>2. H \cap D = D
        BY <3>1
      <4>3. Cardinality(H') <= Cardinality(H \ D)
        BY <3>2, <4>1, FS_Subset
      <4> HIDE DEF H, D
      <4> QED
        BY <3>3, <4>1, <4>2, <4>3
    <3>5. InRow(t)' <= MaxAttempts[t] - e.attempt /\ InRow(t)' \in Int
          /\ InRow(t) \in Int /\ InRow(t) >= 0
      <4>1. status'[t] = "Ready" => attempt'[t] = e.attempt + 1
        BY <1>0, <1>1, <2>6 DEF RInv
      <4>2. InRow(t)' = 0 \/ InRow(t)' = MaxAttempts[t] - (e.attempt + 1) + 1
        BY <4>1 DEF InRow
      <4>3. InRow(t) \in Int /\ InRow(t) >= 0
        BY <2>1 DEF InRow
      <4> QED
        BY <1>0, <2>1, <2>6, <4>2, <4>3
    <3> QED
      BY <1>0, <1>1, <2>1, <2>2, <2>4, <2>6, <3>4, <3>5
  <2> QED
    BY <2>5, <2>6
<1> QED
  BY <1>2, <1>3 DEF WInv, RunsAreCounted

LEMMA WInvIsInductive == RInv /\ WInv /\ [Next]_vars => WInv'
<1>1. ASSUME RInv, WInv, NEW r \in Processes, Step(r) PROVE WInv'
  BY <1>1, RecoveryKeepsCount, ClaimKeepsCount, ReportKeepsCount DEF Execute
<1>2. ASSUME WInv, UNCHANGED vars PROVE WInv'
  BY <1>2 DEF vars, rowVars, memoryVars, WInv, AttemptsAreWithin, RunsAreCounted, InRow, InHand,
              Chain
<1> QED
  BY <1>1, <1>2 DEF Next, Step

\* Recoveries are all that lets a body run more often than its policy says:
\* with the bound on recoveries, whatever processes start and end, a body is
\* started a bounded number of times.
THEOREM WorkStaysBounded == Spec => []WorkIsBounded
<1>1. RInv /\ WInv => WorkIsBounded
  <2> SUFFICES ASSUME RInv, WInv, NEW t \in Tasks
               PROVE  runs[t] <= MaxAttempts[t] * (1 + recoveries[t])
    BY DEF WorkIsBounded
  <2>1. /\ MaxAttempts[t] \in Nat /\ runs[t] \in Nat /\ attempt[t] \in Nat
        /\ attempt[t] <= MaxAttempts[t] /\ recoveries[t] \in Nat
        /\ MaxAttempts[t] * (1 + recoveries[t]) \in Nat
    BY RecoveryAssumption DEF RInv, TypeOK, WInv, AttemptsAreWithin
  <2>2. InRow(t) \in Nat
    BY <2>1 DEF InRow
  <2>3. /\ Cardinality(InHand(t)) \in Nat
        /\ runs[t] + InRow(t) + Cardinality(InHand(t)) <= MaxAttempts[t] * (1 + recoveries[t])
    BY FS_CardinalityType DEF WInv, RunsAreCounted
  <2> QED
    BY <2>1, <2>2, <2>3
<1> QED
  BY <1>1, RInvHolds, WInvHoldsFirst, WInvIsInductive, PTL DEF Spec
=============================================================================
