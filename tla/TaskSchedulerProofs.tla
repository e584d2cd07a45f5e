------------------------ MODULE TaskSchedulerProofs ------------------------
(***************************************************************************)
(* Proofs about TaskScheduler, for every set of pipelines and tasks, every *)
(* dependency relation without cycles, every rule, and any number of       *)
(* failed calls and stops; and about the matcher of TaskRouting, for every *)
(* pattern and every name.                                                 *)
(***************************************************************************)
EXTENDS TaskScheduler, WellFoundedInduction, SequenceTheorems, TLAPS

(***************************************************************************)
(* The inductive invariant.  The loop works on a snapshot, so the proof    *)
(* says what the database still holds of it: an undecided task of the      *)
(* snapshot is undecided, and the task the loop holds is in the state the  *)
(* position of the loop requires.                                          *)
(***************************************************************************)
HoldSteps == DecideSteps \cup {"dispatch"} \cup ExecuteSteps

\* What the position of the loop says of the task it holds.
HeldTask ==
  /\ pc \notin HoldSteps => event = None
  /\ pc \in HoldSteps => event \in Tasks
  /\ pc \in DecideSteps => /\ status[event] = "NotStarted"
                           /\ AllTerminal(Deps[event])
  /\ pc \in (HoldSteps \ DecideSteps) \ {"handle"} => status[event] = "Ready"
  /\ pc = "handle" => status[event] \in {"Ready", "Completed"}
  /\ pc = "handle" <=> outcome # None

\* The snapshot never holds a task that was decided on, nor the one in hand.
SnapshotIsFresh ==
  \A t \in stale : status[t] = "NotStarted" /\ event # t

\* What the position of the loop says of the current pipeline.
CurrentPipeline ==
  /\ pc \in {"down", "idle", "load", "pick"} => cur = None
  /\ pc \notin {"down", "idle", "load", "pick"} => cur \in active /\ pipe[cur] # "Absent"
  /\ pc \in HoldSteps => PipelineOf[event] = cur
  /\ pc \in {"final", "complete"} => AllTerminal(TasksOf(cur))

\* Tasks and their pipeline come into being together.
CreatedTogether ==
  /\ \A t \in Tasks : status[t] = "Absent" <=> pipe[PipelineOf[t]] = "Absent"
  /\ \A p \in active : pipe[p] # "Absent"

\* The executor saves the output before anything says Completed.
SavedFirst ==
  /\ pc = "mark" => event \in output /\ event \in context[event]
  /\ outcome = "Completed" => event \in output /\ event \in context[event]

Position == HeldTask /\ SnapshotIsFresh /\ CurrentPipeline /\ CreatedTogether

Base == TypeOK /\ Position

Safe ==
  /\ DependenciesSettled
  /\ CompletedPipelineIsDone
  /\ SavedFirst
  /\ CompletedHasOutput

IInv == Base /\ Safe

\* Tuples of variables, sets of names and the statements of the data access
\* layer are expanded everywhere; the parts of the invariant and the actions
\* where they are needed.
USE DEF storeVars, pipeVars, taskVars, outputVars, passVars, loopVars, vars,
        PipeStatus, TaskStatus, TerminalTask, TerminalPipe,
        DbContext, PipelineExecution, TaskExecution, TaskExecutionMetadata,
        Step, DecideSteps, ExecuteSteps, HoldSteps, TasksOf, AllTerminal

-----------------------------------------------------------------------------
(***************************************************************************)
(* The constants: no task depends on itself.                               *)
(***************************************************************************)
LEMMA NoSelfDependency == \A t \in Tasks : t \notin Deps[t]
<1>1. SUFFICES ASSUME NEW t \in Tasks PROVE t \notin Deps[t]
  OBVIOUS
<1>2. {t} \in SUBSET Tasks /\ {t} # {}
  OBVIOUS
<1>3. \E u \in {t} : Deps[u] \cap {t} = {}
  BY <1>2, StoreAssumption
<1>4. QED
  BY <1>3

-----------------------------------------------------------------------------
(***************************************************************************)
(* Types and the position of the loop.                                     *)
(***************************************************************************)
LEMMA FinalContextIsOne ==
  ASSUME TypeOK, UpdatePipelineContext \/ FinalContextFails
  PROVE  UNCHANGED storeVars \/ \E c \in SUBSET Tasks : UpdateFinalContext(cur, c)
<1>1. ASSUME NEW S, S \subseteq Candidates(cur), TakeFinalContext(cur, S)
      PROVE  UNCHANGED storeVars \/ \E c \in SUBSET Tasks : UpdateFinalContext(cur, c)
  BY <1>1 DEF TakeFinalContext, Latest, Candidates, TypeOK, StoreTypeOK
<1>2. CASE UNCHANGED storeVars
  BY <1>2
<1>3. CASE TakeFinalContext(cur, Candidates(cur))
  BY <1>1, <1>3
<1>4. CASE \E t \in Candidates(cur) : TakeFinalContext(cur, Candidates(cur) \ {t})
  <2>1. PICK t \in Candidates(cur) : TakeFinalContext(cur, Candidates(cur) \ {t})
    BY <1>4
  <2>2. QED
    BY <1>1, <2>1
<1>5. QED
  BY <1>2, <1>3, <1>4 DEF UpdatePipelineContext, FinalContextFails

LEMMA BaseInit == Init => Base
BY SchedulerAssumption, StoreAssumption
   DEF Init, StoreInit, LoopInit, Base, TypeOK, StoreTypeOK, Position,
       HeldTask, SnapshotIsFresh, CurrentPipeline, CreatedTogether

LEMMA BaseStep == Base /\ [Next]_vars => Base'
<1> SUFFICES ASSUME Base, [Next]_vars PROVE Base'
  OBVIOUS
<1> USE StoreAssumption, SchedulerAssumption
    DEF Base, TypeOK, StoreTypeOK, Position, HeldTask, SnapshotIsFresh,
        CurrentPipeline, CreatedTogether, SetStatus, Finish, SetPipe, Release,
        LeavePipeline, Fault, Lost, MarkReady, MarkSkipped, MarkCompleted, MarkFailed,
        ScheduleRetry, UpsertMetadata, RecordOutcome, SaveOutput, Remaining
<1>1. CASE \E p \in Pipelines : Submit(p)
  BY <1>1 DEF Submit, CreatePipeline
<1>2. CASE \E p \in Pipelines : Cancel(p)
  BY <1>2 DEF Cancel, PipelineCancel
<1>3. CASE Poll
  BY <1>3 DEF Poll, ActivePipelines
<1>4. CASE LoadPending
  BY <1>4 DEF LoadPending, PendingTasks
<1>5. CASE EndPass
  BY <1>5 DEF EndPass
<1>6. CASE \E p \in Pipelines : PickPipeline(p)
  BY <1>6 DEF PickPipeline
<1>7. CASE \E t \in Tasks : CheckDependencies(t)
  BY <1>7 DEF CheckDependencies
<1>8. CASE EvaluateRules
  BY <1>8 DEF EvaluateRules
<1>9. CASE MakeReady
  BY <1>9 DEF MakeReady
<1>10. CASE Skip
  BY <1>10 DEF Skip
<1>11. CASE NothingRemains
  BY <1>11 DEF NothingRemains
<1>12. CASE Dispatch
  BY <1>12 DEF Dispatch
<1>13. CASE TaskMissing
  BY <1>13 DEF TaskMissing
<1>14. CASE BuildContext
  BY <1>14 DEF BuildContext, TaskContext, MergedContext
<1>15. CASE BodySucceeds
  BY <1>15 DEF BodySucceeds
<1>16. CASE \E retryable \in BOOLEAN : BodyFails(retryable)
  BY <1>16 DEF BodyFails
<1>17. CASE SaveContext
  BY <1>17 DEF SaveContext
<1>18. CASE MarkTaskCompleted
  BY <1>18 DEF MarkTaskCompleted
<1>19. CASE RetryTask
  BY <1>19 DEF RetryTask
<1>20. CASE HandleResult
  <2>1. CASE outcome = "Completed"
    BY <1>20, <2>1, SMTT(30) DEF HandleResult
  <2>2. CASE outcome # "Completed"
    BY <1>20, <2>2, SMTT(30) DEF HandleResult
  <2>3. QED
    BY <2>1, <2>2
<1>21. CASE CheckCompletion
  BY <1>21 DEF CheckCompletion, PipelineComplete
<1>22. CASE UpdatePipelineContext
  <2>1. CASE UNCHANGED storeVars
    BY <1>22, <2>1 DEF UpdatePipelineContext
  <2>2. CASE \E c \in SUBSET Tasks : UpdateFinalContext(cur, c)
    BY <1>22, <2>2 DEF UpdatePipelineContext, UpdateFinalContext
  <2>3. QED
    BY <1>22, <2>1, <2>2, FinalContextIsOne
<1>23. CASE CompletePipeline
  BY <1>23 DEF CompletePipeline, PipelineMarkCompleted
<1>24. CASE ReadinessFails
  <2>1. CASE pc \in {"next", "rules"}
    BY <1>24, <2>1 DEF ReadinessFails
  <2>2. CASE pc = "ready"
    <3>1. CASE MarkReady(event)
      BY <1>24, <2>2, <3>1 DEF ReadinessFails
    <3>2. CASE UNCHANGED storeVars
      BY <1>24, <2>2, <3>2 DEF ReadinessFails
    <3>3. QED
      BY <1>24, <2>2, <3>1, <3>2 DEF ReadinessFails
  <2>3. CASE pc = "skip"
    <3>1. CASE MarkSkipped(event)
      BY <1>24, <2>3, <3>1 DEF ReadinessFails
    <3>2. CASE UNCHANGED storeVars
      BY <1>24, <2>3, <3>2 DEF ReadinessFails
    <3>3. QED
      BY <1>24, <2>3, <3>1, <3>2 DEF ReadinessFails
  <2>4. QED
    BY <1>24, <2>1, <2>2, <2>3 DEF ReadinessFails
<1>25. CASE BuildFails
  BY <1>25 DEF BuildFails
<1>26. CASE CompletionFails
  <2>1. CASE pc = "save"
    <3>1. CASE SaveOutput(event)
      BY <1>26, <2>1, <3>1 DEF CompletionFails
    <3>2. CASE UNCHANGED storeVars
      BY <1>26, <2>1, <3>2 DEF CompletionFails
    <3>3. QED
      BY <1>26, <2>1, <3>1, <3>2 DEF CompletionFails
  <2>2. CASE pc = "mark"
    <3>1. CASE MarkCompleted(event)
      BY <1>26, <2>2, <3>1 DEF CompletionFails
    <3>2. CASE UNCHANGED storeVars
      BY <1>26, <2>2, <3>2 DEF CompletionFails
    <3>3. QED
      BY <1>26, <2>2, <3>1, <3>2 DEF CompletionFails
  <2>3. QED
    BY <1>26, <2>1, <2>2 DEF CompletionFails
<1>27. CASE ReportFails
  <2>1. CASE pc = "retry" /\ ScheduleRetry(event, seen[event] + 1)
    BY <1>27, <2>1 DEF ReportFails
  <2>2. CASE pc = "handle" /\ MarkCompleted(event) /\ outcome = "Completed"
    BY <1>27, <2>2 DEF ReportFails
  <2>3. CASE pc = "handle" /\ MarkFailed(event) /\ outcome # "Completed"
    BY <1>27, <2>3 DEF ReportFails
  <2>4. CASE pc \in {"retry", "handle"} /\ UNCHANGED storeVars
    BY <1>27, <2>4 DEF ReportFails
  <2>5. QED
    BY <1>27, <2>1, <2>2, <2>3, <2>4 DEF ReportFails
<1>28. CASE FinalContextFails
  <2>1. CASE UNCHANGED storeVars
    BY <1>28, <2>1 DEF FinalContextFails
  <2>2. CASE \E c \in SUBSET Tasks : UpdateFinalContext(cur, c)
    BY <1>28, <2>2 DEF FinalContextFails, UpdateFinalContext
  <2>3. QED
    BY <1>28, <2>1, <2>2, FinalContextIsOne
<1>29. CASE PassFails
  <2>1. CASE pc = "complete" /\ PipelineMarkCompleted(cur)
    BY <1>29, <2>1 DEF PassFails, PipelineMarkCompleted
  <2>2. CASE UNCHANGED storeVars
    BY <1>29, <2>2 DEF PassFails
  <2>3. QED
    BY <1>29, <2>1, <2>2 DEF PassFails
<1>30. CASE Stop
  BY <1>30 DEF Stop
<1>31. CASE Start
  BY <1>31 DEF Start
<1>32. CASE UNCHANGED vars
  BY <1>32 DEF vars
<1>33. QED
  BY <1>1, <1>2, <1>3, <1>4, <1>5, <1>6, <1>7, <1>8, <1>9, <1>10, <1>11, <1>12,
     <1>13, <1>14, <1>15, <1>16, <1>17, <1>18, <1>19, <1>20, <1>21, <1>22, <1>23, <1>24,
     <1>25, <1>26, <1>27, <1>28, <1>29, <1>30, <1>31, <1>32
     DEF Next, Loop, Failure

-----------------------------------------------------------------------------
(***************************************************************************)
(* The safety properties that follow from the position of the loop.        *)
(***************************************************************************)
LEMMA SafeInit == Init => Safe
BY SchedulerAssumption, StoreAssumption
   DEF Init, StoreInit, LoopInit, Safe, DependenciesSettled, CompletedPipelineIsDone,
       SavedFirst, CompletedHasOutput, Settled

LEMMA SafeStep == Base /\ Base' /\ Safe /\ [Next]_vars => Safe'
<1> SUFFICES ASSUME Base, Base', Safe, [Next]_vars PROVE Safe'
  OBVIOUS
<1> USE StoreAssumption, SchedulerAssumption, NoSelfDependency
    DEF Base, TypeOK, StoreTypeOK, Position, HeldTask, SnapshotIsFresh,
        CurrentPipeline, CreatedTogether, SetStatus, Finish, SetPipe, Release,
        LeavePipeline, Fault, Lost, MarkReady, MarkSkipped, MarkCompleted, MarkFailed,
        ScheduleRetry, UpsertMetadata, RecordOutcome, SaveOutput, Remaining,
        Safe, DependenciesSettled, CompletedPipelineIsDone, SavedFirst,
        CompletedHasOutput, Settled
<1>1. CASE \E p \in Pipelines : Submit(p)
  BY <1>1 DEF Submit, CreatePipeline
<1>2. CASE \E p \in Pipelines : Cancel(p)
  BY <1>2 DEF Cancel, PipelineCancel
<1>3. CASE Poll
  BY <1>3 DEF Poll, ActivePipelines
<1>4. CASE LoadPending
  BY <1>4 DEF LoadPending, PendingTasks
<1>5. CASE EndPass
  BY <1>5 DEF EndPass
<1>6. CASE \E p \in Pipelines : PickPipeline(p)
  BY <1>6 DEF PickPipeline
<1>7. CASE \E t \in Tasks : CheckDependencies(t)
  BY <1>7 DEF CheckDependencies
<1>8. CASE EvaluateRules
  BY <1>8 DEF EvaluateRules
<1>9. CASE MakeReady
  BY <1>9 DEF MakeReady
<1>10. CASE Skip
  BY <1>10 DEF Skip
<1>11. CASE NothingRemains
  BY <1>11 DEF NothingRemains
<1>12. CASE Dispatch
  BY <1>12 DEF Dispatch
<1>13. CASE TaskMissing
  BY <1>13 DEF TaskMissing
<1>14. CASE BuildContext
  BY <1>14 DEF BuildContext, TaskContext, MergedContext
<1>15. CASE BodySucceeds
  BY <1>15 DEF BodySucceeds
<1>16. CASE \E retryable \in BOOLEAN : BodyFails(retryable)
  BY <1>16 DEF BodyFails
<1>17. CASE SaveContext
  BY <1>17 DEF SaveContext
<1>18. CASE MarkTaskCompleted
  BY <1>18 DEF MarkTaskCompleted
<1>19. CASE RetryTask
  BY <1>19 DEF RetryTask
<1>20. CASE HandleResult
  <2>1. CASE outcome = "Completed"
    BY <1>20, <2>1 DEF HandleResult
  <2>2. CASE outcome # "Completed"
    BY <1>20, <2>2, SMTT(30) DEF HandleResult
  <2>3. QED
    BY <2>1, <2>2
<1>21. CASE CheckCompletion
  BY <1>21 DEF CheckCompletion, PipelineComplete
<1>22. CASE UpdatePipelineContext
  <2>1. CASE UNCHANGED storeVars
    BY <1>22, <2>1 DEF UpdatePipelineContext
  <2>2. CASE \E c \in SUBSET Tasks : UpdateFinalContext(cur, c)
    BY <1>22, <2>2 DEF UpdatePipelineContext, UpdateFinalContext
  <2>3. QED
    BY <1>22, <2>1, <2>2, FinalContextIsOne
<1>23. CASE CompletePipeline
  BY <1>23 DEF CompletePipeline, PipelineMarkCompleted
<1>24. CASE ReadinessFails
  <2>1. CASE pc \in {"next", "rules"}
    BY <1>24, <2>1 DEF ReadinessFails
  <2>2. CASE pc = "ready"
    <3>1. CASE MarkReady(event)
      BY <1>24, <2>2, <3>1 DEF ReadinessFails
    <3>2. CASE UNCHANGED storeVars
      BY <1>24, <2>2, <3>2 DEF ReadinessFails
    <3>3. QED
      BY <1>24, <2>2, <3>1, <3>2 DEF ReadinessFails
  <2>3. CASE pc = "skip"
    <3>1. CASE MarkSkipped(event)
      BY <1>24, <2>3, <3>1 DEF ReadinessFails
    <3>2. CASE UNCHANGED storeVars
      BY <1>24, <2>3, <3>2 DEF ReadinessFails
    <3>3. QED
      BY <1>24, <2>3, <3>1, <3>2 DEF ReadinessFails
  <2>4. QED
    BY <1>24, <2>1, <2>2, <2>3 DEF ReadinessFails
<1>25. CASE BuildFails
  BY <1>25 DEF BuildFails
<1>26. CASE CompletionFails
  <2>1. CASE pc = "save"
    <3>1. CASE SaveOutput(event)
      BY <1>26, <2>1, <3>1 DEF CompletionFails
    <3>2. CASE UNCHANGED storeVars
      BY <1>26, <2>1, <3>2 DEF CompletionFails
    <3>3. QED
      BY <1>26, <2>1, <3>1, <3>2 DEF CompletionFails
  <2>2. CASE pc = "mark"
    <3>1. CASE MarkCompleted(event)
      BY <1>26, <2>2, <3>1 DEF CompletionFails
    <3>2. CASE UNCHANGED storeVars
      BY <1>26, <2>2, <3>2 DEF CompletionFails
    <3>3. QED
      BY <1>26, <2>2, <3>1, <3>2 DEF CompletionFails
  <2>3. QED
    BY <1>26, <2>1, <2>2 DEF CompletionFails
<1>27. CASE ReportFails
  <2>1. CASE pc = "retry" /\ ScheduleRetry(event, seen[event] + 1)
    BY <1>27, <2>1 DEF ReportFails
  <2>2. CASE pc = "handle" /\ MarkCompleted(event) /\ outcome = "Completed"
    BY <1>27, <2>2 DEF ReportFails
  <2>3. CASE pc = "handle" /\ MarkFailed(event) /\ outcome # "Completed"
    BY <1>27, <2>3 DEF ReportFails
  <2>4. CASE pc \in {"retry", "handle"} /\ UNCHANGED storeVars
    BY <1>27, <2>4 DEF ReportFails
  <2>5. QED
    BY <1>27, <2>1, <2>2, <2>3, <2>4 DEF ReportFails
<1>28. CASE FinalContextFails
  <2>1. CASE UNCHANGED storeVars
    BY <1>28, <2>1 DEF FinalContextFails
  <2>2. CASE \E c \in SUBSET Tasks : UpdateFinalContext(cur, c)
    BY <1>28, <2>2 DEF FinalContextFails, UpdateFinalContext
  <2>3. QED
    BY <1>28, <2>1, <2>2, FinalContextIsOne
<1>29. CASE PassFails
  <2>1. CASE pc = "complete" /\ PipelineMarkCompleted(cur)
    BY <1>29, <2>1 DEF PassFails, PipelineMarkCompleted
  <2>2. CASE UNCHANGED storeVars
    BY <1>29, <2>2 DEF PassFails
  <2>3. QED
    BY <1>29, <2>1, <2>2 DEF PassFails
<1>30. CASE Stop
  BY <1>30 DEF Stop
<1>31. CASE Start
  BY <1>31 DEF Start
<1>32. CASE UNCHANGED vars
  BY <1>32 DEF vars
<1>33. QED
  BY <1>1, <1>2, <1>3, <1>4, <1>5, <1>6, <1>7, <1>8, <1>9, <1>10, <1>11, <1>12,
     <1>13, <1>14, <1>15, <1>16, <1>17, <1>18, <1>19, <1>20, <1>21, <1>22, <1>23, <1>24,
     <1>25, <1>26, <1>27, <1>28, <1>29, <1>30, <1>31, <1>32
     DEF Next, Loop, Failure

LEMMA Invariance == Spec => []IInv
<1>1. Init => IInv
  BY BaseInit, SafeInit DEF IInv
<1>2. IInv /\ [Next]_vars => IInv'
  BY BaseStep, SafeStep DEF IInv
<1>3. QED
  BY <1>1, <1>2, PTL DEF Spec

\* The values of the variables: what the database and the loop's memory hold.
THEOREM TypeCorrect == Spec => []TypeOK
<1>1. IInv => TypeOK
  BY DEF IInv, Base
<1>2. QED
  BY <1>1, Invariance, PTL

\* A task is decided on only after its dependencies are over: the readiness
\* check of the state manager, for any workflow and any sequence of failures.
THEOREM DependencyOrder == Spec => []DependenciesSettled
<1>1. IInv => DependenciesSettled
  BY DEF IInv, Safe
<1>2. QED
  BY <1>1, Invariance, PTL

\* complete_pipeline marks a pipeline Completed only when nothing of it is left.
THEOREM CompletionIsSound == Spec => []CompletedPipelineIsDone
<1>1. IInv => CompletedPipelineIsDone
  BY DEF IInv, Safe
<1>2. QED
  BY <1>1, Invariance, PTL

\* complete_task_transaction saves the output first: a Completed task has one.
THEOREM OutputIsSavedFirst == Spec => []CompletedHasOutput
<1>1. IInv => CompletedHasOutput
  BY DEF IInv, Safe
<1>2. QED
  BY <1>1, Invariance, PTL

-----------------------------------------------------------------------------
(***************************************************************************)
(* What a step may do to one row.                                          *)
(***************************************************************************)
\* The steps that write nothing and start no body.
ReadOnly ==
  \/ Poll \/ LoadPending \/ EndPass
  \/ \E p \in Pipelines : PickPipeline(p)
  \/ \E t \in Tasks : CheckDependencies(t)
  \/ EvaluateRules \/ NothingRemains \/ Dispatch \/ TaskMissing \/ BodySucceeds
  \/ \E retryable \in BOOLEAN : BodyFails(retryable)
  \/ CheckCompletion \/ Stop \/ Start

\* Of the tasks only the one the loop holds is written, and only at these
\* positions.
StatusMoves(t) ==
  \/ status'[t] = status[t]
  \/ pipe[PipelineOf[t]] = "Absent" /\ status'[t] = "NotStarted"
  \/ event = t /\ pc = "ready" /\ status'[t] = "Ready"
  \/ event = t /\ pc = "skip" /\ status'[t] = "Skipped"
  \/ event = t /\ pc \in {"mark", "retry", "handle"}
       /\ status'[t] \in {"Ready", "Completed", "Failed"}

OutputMoves(t) ==
  \/ context'[t] = context[t] /\ (t \in output' <=> t \in output)
  \/ event = t /\ pc = "save"

RunMoves(t) == runs'[t] = runs[t] \/ (event = t /\ pc = "build")

\* Of the pipelines the loop writes only the current one, at the end.
PipeMoves(p) ==
  \/ pipe'[p] = pipe[p]
  \/ pipe[p] = "Absent"
  \/ pipe'[p] = "Cancelled"
  \/ cur = p /\ pc = "complete"

\* A pass takes up what is Pending.
TakenUp(p) == p \in active' => p \in active \/ pipe[p] = "Pending"

Moves ==
  /\ \A t \in Tasks : StatusMoves(t) /\ OutputMoves(t) /\ RunMoves(t)
  /\ \A p \in Pipelines : PipeMoves(p) /\ TakenUp(p)

LEMMA ReadOnlyWritesNothing == ReadOnly => UNCHANGED <<storeVars, runs>>
BY DEF ReadOnly, Poll, LoadPending, EndPass, PickPipeline, CheckDependencies,
       EvaluateRules, NothingRemains, Dispatch, TaskMissing, BodySucceeds, BodyFails,
       CheckCompletion, Stop, Start

LEMMA NothingEndedIsTakenUp == [Next]_vars => \A p \in Pipelines : TakenUp(p)
BY DEF TakenUp, Next, Loop, Failure, LeavePipeline, Submit, Cancel, Poll, ActivePipelines,
       LoadPending, EndPass, PickPipeline, CheckDependencies, EvaluateRules, MakeReady,
       Skip, NothingRemains, Dispatch, TaskMissing, BuildContext, BodySucceeds, BodyFails,
       SaveContext, MarkTaskCompleted, RetryTask, HandleResult, CheckCompletion,
       UpdatePipelineContext, CompletePipeline, ReadinessFails, BuildFails,
       CompletionFails, ReportFails, FinalContextFails, PassFails, Stop, Start

\* The only task the loop takes in hand is one of its snapshot.
LEMMA TaskIsTakenFromSnapshot == [Next]_vars => event' \in stale \cup {event, None}
BY DEF Next, Loop, Failure, LeavePipeline, Release, Submit, Cancel, Poll, LoadPending,
       EndPass, PickPipeline, CheckDependencies, Remaining, EvaluateRules, MakeReady,
       Skip, NothingRemains, Dispatch, TaskMissing, BuildContext, BodySucceeds, BodyFails,
       SaveContext, MarkTaskCompleted, RetryTask, HandleResult, CheckCompletion,
       UpdatePipelineContext, CompletePipeline, ReadinessFails, BuildFails,
       CompletionFails, ReportFails, FinalContextFails, PassFails, Stop, Start

LEMMA StepMoves == IInv /\ [Next]_vars => Moves
<1> SUFFICES ASSUME IInv, [Next]_vars PROVE Moves
  OBVIOUS
<1> USE StoreAssumption, SchedulerAssumption, NothingEndedIsTakenUp
    DEF IInv, Base, TypeOK, StoreTypeOK, Position, HeldTask, CreatedTogether,
        SetStatus, Finish, SetPipe, Fault, Lost,
        MarkReady, MarkSkipped, MarkCompleted, MarkFailed, ScheduleRetry,
        UpsertMetadata, RecordOutcome, SaveOutput,
        Moves, StatusMoves, OutputMoves, RunMoves, PipeMoves
<1>1. CASE ReadOnly
  BY <1>1, ReadOnlyWritesNothing
<1>2. CASE \E p \in Pipelines : Submit(p)
  BY <1>2 DEF Submit, CreatePipeline
<1>3. CASE \E p \in Pipelines : Cancel(p)
  BY <1>3 DEF Cancel, PipelineCancel
<1>4. CASE MakeReady
  BY <1>4 DEF MakeReady
<1>5. CASE Skip
  BY <1>5 DEF Skip
<1>6. CASE BuildContext
  BY <1>6 DEF BuildContext
<1>7. CASE SaveContext
  BY <1>7 DEF SaveContext
<1>8. CASE MarkTaskCompleted
  BY <1>8 DEF MarkTaskCompleted
<1>9. CASE RetryTask
  BY <1>9 DEF RetryTask
<1>10. CASE HandleResult
  BY <1>10 DEF HandleResult
<1>11. CASE UpdatePipelineContext \/ FinalContextFails
  <2>1. CASE UNCHANGED storeVars
    BY <1>11, <2>1 DEF UpdatePipelineContext, FinalContextFails
  <2>2. CASE \E c \in SUBSET Tasks : UpdateFinalContext(cur, c)
    BY <1>11, <2>2 DEF UpdatePipelineContext, FinalContextFails, UpdateFinalContext
  <2>3. QED
    BY <1>11, <2>1, <2>2, FinalContextIsOne
<1>12. CASE CompletePipeline
  BY <1>12 DEF CompletePipeline, PipelineMarkCompleted
<1>13. CASE ReadinessFails
  BY <1>13 DEF ReadinessFails
<1>14. CASE BuildFails
  BY <1>14 DEF BuildFails
<1>15. CASE CompletionFails
  BY <1>15 DEF CompletionFails
<1>16. CASE ReportFails
  BY <1>16 DEF ReportFails
<1>17. CASE PassFails
  BY <1>17 DEF PassFails, PipelineMarkCompleted
<1>18. CASE UNCHANGED vars
  BY <1>18
<1>19. QED
  BY <1>1, <1>2, <1>3, <1>4, <1>5, <1>6, <1>7, <1>8, <1>9, <1>10, <1>11, <1>12,
     <1>13, <1>14, <1>15, <1>16, <1>17, <1>18
     DEF Next, Loop, Failure, ReadOnly

\* What is over and released stays as dependents read it.
LEMMA SettledIsFixed ==
  ASSUME IInv, [Next]_vars, NEW t \in Tasks, Settled(t)
  PROVE  /\ event' # t
         /\ status'[t] = status[t]
         /\ context'[t] = context[t]
         /\ t \in output' <=> t \in output
<1>1. event' # t
  BY TaskIsTakenFromSnapshot, SchedulerAssumption
     DEF Settled, IInv, Base, Position, SnapshotIsFresh
<1>2. QED
  BY <1>1, StepMoves, StoreAssumption
     DEF Moves, StatusMoves, OutputMoves, Settled, IInv, Base, Position, CreatedTogether

\* A released task is not taken up again, and its status and its output never
\* change, so what the state manager concluded from them stays true.
THEOREM TerminalNeverChanges == Spec => TerminalIsFinal
<1>1. IInv /\ [Next]_vars =>
        [\A t \in Tasks : Settled(t) =>
           event' # t /\ status'[t] = status[t] /\ context'[t] = context[t]]_vars
  BY SettledIsFixed
<1>2. QED
  BY <1>1, Invariance, PTL DEF Spec, TerminalIsFinal

-----------------------------------------------------------------------------
(***************************************************************************)
(* Ended pipelines.                                                        *)
(***************************************************************************)
LEMMA EndedStep ==
  ASSUME IInv, [Next]_vars, NEW p \in Pipelines,
         pipe[p] \in TerminalPipe, p \notin active
  PROVE  /\ p \notin active'
         /\ pipe'[p] \in {pipe[p], "Cancelled"}
         /\ \A t \in TasksOf(p) : status'[t] = status[t] /\ runs'[t] = runs[t]
<1>1. pc \notin {"down", "idle", "load", "pick"} => cur # p
  BY DEF IInv, Base, Position, CurrentPipeline
<1>2. \A t \in TasksOf(p) : pc \in HoldSteps => event # t
  BY <1>1 DEF IInv, Base, Position, CurrentPipeline
<1>3. PipeMoves(p) /\ TakenUp(p) /\ \A t \in TasksOf(p) : StatusMoves(t) /\ RunMoves(t)
  BY StepMoves DEF Moves
<1>4. QED
  BY <1>1, <1>2, <1>3 DEF PipeMoves, TakenUp, StatusMoves, RunMoves

\* A pass that starts after a pipeline has ended, by completion or by a
\* cancellation, neither executes its tasks nor completes it.
THEOREM EndedPipelines == Spec => EndedPipelineIsLeftAlone
<1>1. IInv /\ [Next]_vars =>
        [\A p \in Pipelines : pipe[p] \in TerminalPipe /\ p \notin active =>
           /\ p \notin active'
           /\ pipe'[p] \in {pipe[p], "Cancelled"}
           /\ \A t \in TasksOf(p) : status'[t] = status[t] /\ runs'[t] = runs[t]]_vars
  BY EndedStep
<1>2. QED
  BY <1>1, Invariance, PTL DEF Spec, EndedPipelineIsLeftAlone

-----------------------------------------------------------------------------
(***************************************************************************)
(* Decisions.                                                              *)
(***************************************************************************)
\* A rule about the dependencies reads nothing but their rows.
LEMMA RuleIsStable ==
  ASSUME NEW t \in Tasks, RuleIsAnchored(t),
         \A d \in Deps[t] : /\ status'[d] = status[d]
                            /\ context'[d] = context[d]
                            /\ d \in output' <=> d \in output
  PROVE  RuleHolds(t)' <=> RuleHolds(t)
<1>1. Deps[t] # {} => TaskContext(t)' = TaskContext(t)
  <2>1. Deps[t] \cap output' = Deps[t] \cap output
    OBVIOUS
  <2>2. {context'[d] : d \in Deps[t] \cap output'} = {context[d] : d \in Deps[t] \cap output}
    BY <2>1
  <2>3. QED
    BY <2>2 DEF TaskContext, MergedContext
<1>2. ASSUME NEW c \in Rule[t].conditions
      PROVE  Holds(c, t)' <=> Holds(c, t)
  <2>1. CASE c.test = "ContextValue"
    BY <1>1, <2>1 DEF Holds, RuleIsAnchored
  <2>2. CASE c.test # "ContextValue"
    BY <2>2 DEF Holds, RuleIsAnchored
  <2>3. QED
    BY <2>1, <2>2
<1>3. QED
  BY <1>2 DEF RuleHolds

\* The decision between its taking and its writing.
DecisionInHand ==
  /\ pc = "ready" /\ RuleIsAnchored(event) => RuleHolds(event)
  /\ pc = "skip" /\ RuleIsAnchored(event) => ~RuleHolds(event)

\* A task whose dependencies the loop found over: it holds the task, or has
\* written the decision.
LEMMA DecidedRuleIsStable ==
  ASSUME IInv, [Next]_vars, NEW t \in Tasks, RuleIsAnchored(t),
         \/ status[t] \notin {"Absent", "NotStarted"}
         \/ event = t /\ pc \in DecideSteps
  PROVE  RuleHolds(t)' <=> RuleHolds(t)
<1>1. \A d \in Deps[t] : d \in Tasks /\ Settled(d)
  BY NoSelfDependency, StoreAssumption
     DEF IInv, Safe, DependenciesSettled, Base, Position, HeldTask, Settled
<1>2. \A d \in Deps[t] : /\ status'[d] = status[d]
                         /\ context'[d] = context[d]
                         /\ d \in output' <=> d \in output
  BY <1>1, SettledIsFixed
<1>3. QED
  BY <1>2, RuleIsStable

\* Where a step may take the loop with a decision in its hands.
LEMMA HandMoves ==
  ASSUME IInv, [Next]_vars, pc' \in {"ready", "skip"}
  PROVE  /\ event' = event /\ event \in Tasks /\ pc \in DecideSteps
         /\ \/ pc' = pc
            \/ pc' = (IF RuleHolds(event) THEN "ready" ELSE "skip")
<1> USE DEF IInv, Base, Position, HeldTask
<1>1. CASE \E p \in Pipelines : Submit(p) \/ Cancel(p)
  BY <1>1 DEF Submit, Cancel
<1>2. CASE EvaluateRules
  BY <1>2 DEF EvaluateRules
<1>3. CASE UNCHANGED vars
  BY <1>3
<1>4. QED
  BY <1>1, <1>2, <1>3
     DEF Next, Loop, Failure, LeavePipeline, Poll, LoadPending, EndPass, PickPipeline,
         CheckDependencies, MakeReady, Skip, NothingRemains, Dispatch, TaskMissing,
         BuildContext, BodySucceeds, BodyFails, SaveContext, MarkTaskCompleted, RetryTask,
         HandleResult, CheckCompletion, UpdatePipelineContext, CompletePipeline,
         ReadinessFails, BuildFails, CompletionFails, ReportFails, FinalContextFails,
         PassFails, Stop, Start

LEMMA DecisionStep ==
  IInv /\ IInv' /\ DecisionsStand /\ DecisionInHand /\ [Next]_vars
    => DecisionsStand' /\ DecisionInHand'
<1> SUFFICES ASSUME IInv, IInv', DecisionsStand, DecisionInHand, [Next]_vars
             PROVE  DecisionsStand' /\ DecisionInHand'
  OBVIOUS
<1>1. DecisionInHand'
  <2>1. SUFFICES ASSUME pc' \in {"ready", "skip"}, RuleIsAnchored(event')
                 PROVE  /\ pc' = "ready" => RuleHolds(event)'
                        /\ pc' = "skip" => ~RuleHolds(event)'
    BY DEF DecisionInHand
  <2>2. event' = event /\ event \in Tasks /\ pc \in DecideSteps
    BY <2>1, HandMoves
  <2>3. RuleHolds(event)' <=> RuleHolds(event)
    BY <2>1, <2>2, DecidedRuleIsStable
  <2>4. QED
    BY <2>1, <2>2, <2>3, HandMoves DEF DecisionInHand
<1>2. DecisionsStand'
  <2>1. SUFFICES ASSUME NEW t \in Tasks, RuleIsAnchored(t)
                 PROVE  /\ status'[t] = "Skipped" => ~RuleHolds(t)'
                        /\ status'[t] \in {"Ready", "Completed", "Failed"} => RuleHolds(t)'
    BY DEF DecisionsStand
  <2>2. StatusMoves(t)
    BY StepMoves DEF Moves
  <2>3. CASE status'[t] \in {"Absent", "NotStarted", "Running"}
    BY <2>3
  <2>4. CASE event = t /\ pc \in DecideSteps /\ status'[t] # status[t]
    <3>1. RuleHolds(t)' <=> RuleHolds(t)
      BY <2>1, <2>4, DecidedRuleIsStable
    <3>2. QED
      BY <2>1, <2>2, <2>4, <3>1 DEF StatusMoves, DecisionInHand, IInv, Base, Position, HeldTask
  <2>5. CASE status[t] \notin {"Absent", "NotStarted"}
    <3>1. RuleHolds(t)' <=> RuleHolds(t)
      BY <2>1, <2>5, DecidedRuleIsStable
    <3>2. QED
      BY <2>1, <2>2, <2>5, <3>1
         DEF StatusMoves, DecisionsStand, IInv, Base, Position, HeldTask, TypeOK, StoreTypeOK
  <2>6. QED
    BY <2>1, <2>2, <2>3, <2>4, <2>5
       DEF StatusMoves, IInv, Base, TypeOK, StoreTypeOK, Position, HeldTask
<1>3. QED
  BY <1>1, <1>2

\* Whatever the workflow and its rules, a decision the state manager wrote is
\* the one its rule demands of the final statuses and contexts.
THEOREM DecisionsAreFinal == Spec => []DecisionsStand
<1>1. Init => DecisionsStand /\ DecisionInHand
  BY DEF Init, StoreInit, LoopInit, DecisionsStand, DecisionInHand
<1>2. QED
  BY <1>1, DecisionStep, Invariance, PTL DEF Spec

-----------------------------------------------------------------------------
(***************************************************************************)
(* What a body is given and what a pipeline returns, while no call fails.  *)
(***************************************************************************)
\* A completion time is written when the loop holds the task, and is the
\* latest of all.
TimeMoves(t) ==
  \/ /\ doneAt'[t] = doneAt[t]
     /\ status'[t] = status[t] \/ status[t] \in {"Absent", "NotStarted"}
  \/ /\ event = t /\ pc \in {"mark", "handle"}
     /\ doneAt'[t] = clock' /\ clock' = clock + 1
     /\ status'[t] \in {"Completed", "Failed"}
  \/ event = t /\ pc = "retry" /\ doneAt'[t] = 0

LEMMA TimesMove ==
  IInv /\ [Next]_vars => clock' \in {clock, clock + 1} /\ \A t \in Tasks : TimeMoves(t)
<1> SUFFICES ASSUME IInv, [Next]_vars
             PROVE  clock' \in {clock, clock + 1} /\ \A t \in Tasks : TimeMoves(t)
  OBVIOUS
<1> USE StoreAssumption, SchedulerAssumption
    DEF IInv, Base, TypeOK, StoreTypeOK, Position, HeldTask, CreatedTogether,
        SetStatus, Finish, SetPipe, Fault, Lost,
        MarkReady, MarkSkipped, MarkCompleted, MarkFailed, ScheduleRetry,
        UpsertMetadata, RecordOutcome, SaveOutput, TimeMoves
<1>1. CASE ReadOnly \/ BuildContext \/ BuildFails
  BY <1>1, ReadOnlyWritesNothing DEF BuildContext, BuildFails
<1>2. CASE \E p \in Pipelines : Submit(p) \/ Cancel(p)
  BY <1>2 DEF Submit, CreatePipeline, Cancel, PipelineCancel
<1>3. CASE MakeReady \/ Skip
  BY <1>3 DEF MakeReady, Skip
<1>4. CASE SaveContext \/ MarkTaskCompleted
  BY <1>4 DEF SaveContext, MarkTaskCompleted
<1>5. CASE RetryTask
  BY <1>5 DEF RetryTask
<1>6. CASE HandleResult
  BY <1>6 DEF HandleResult
<1>7. CASE UpdatePipelineContext \/ FinalContextFails
  BY <1>7, FinalContextIsOne DEF UpdateFinalContext
<1>8. CASE CompletePipeline
  BY <1>8 DEF CompletePipeline, PipelineMarkCompleted
<1>9. CASE ReadinessFails
  BY <1>9 DEF ReadinessFails
<1>10. CASE CompletionFails
  BY <1>10 DEF CompletionFails
<1>11. CASE ReportFails
  BY <1>11 DEF ReportFails
<1>12. CASE PassFails
  BY <1>12 DEF PassFails, PipelineMarkCompleted
<1>13. CASE UNCHANGED vars
  BY <1>13
<1>14. QED
  BY <1>1, <1>2, <1>3, <1>4, <1>5, <1>6, <1>7, <1>8, <1>9, <1>10, <1>11, <1>12, <1>13
     DEF Next, Loop, Failure, ReadOnly

\* Completion times follow the dependencies.
TimesInOrder ==
  /\ \A t \in Tasks : doneAt[t] <= clock
  /\ \A t \in Tasks : doneAt[t] # 0 => status[t] \in {"Completed", "Failed"}
  /\ \A u \in Tasks : doneAt[u] # 0 => \A d \in Deps[u] : doneAt[d] < doneAt[u]

LEMMA TimesStayInOrder ==
  ASSUME IInv, TimesInOrder, [Next]_vars
  PROVE  TimesInOrder'
<1> USE StoreAssumption DEF IInv, Base, TypeOK, StoreTypeOK
<1>1. clock' \in {clock, clock + 1} /\ \A t \in Tasks : TimeMoves(t)
  BY TimesMove
<1>2. \A t \in Tasks : doneAt'[t] <= clock'
  BY <1>1 DEF TimeMoves, TimesInOrder
<1>3. \A t \in Tasks : doneAt'[t] # 0 => status'[t] \in {"Completed", "Failed"}
  BY <1>1 DEF TimeMoves, TimesInOrder
<1>4. ASSUME NEW u \in Tasks, doneAt'[u] # 0, NEW d \in Deps[u]
      PROVE  doneAt'[d] < doneAt'[u]
  <2>1. d \in Tasks /\ d # u
    BY NoSelfDependency
  <2>2. status[u] \notin {"Absent", "NotStarted"}
    BY <1>1, <1>4 DEF TimeMoves, TimesInOrder, Position, HeldTask
  <2>3. event # d
    BY <2>2 DEF Safe, DependenciesSettled, Settled
  <2>4. doneAt'[d] = doneAt[d] /\ doneAt[d] <= clock
    BY <1>1, <2>1, <2>3 DEF TimeMoves, TimesInOrder
  <2>5. CASE doneAt'[u] = doneAt[u]
    BY <1>4, <2>4, <2>5 DEF TimesInOrder
  <2>6. CASE doneAt'[u] = clock + 1
    BY <2>1, <2>4, <2>6
  <2> QED
    BY <1>1, <1>4, <2>5, <2>6 DEF TimeMoves
<1> QED
  BY <1>2, <1>3, <1>4 DEF TimesInOrder

\* Until it is marked Completed, and from then on, a pipeline has the context
\* of a task that completed last.
FinalIsChosen ==
  faults = 0 =>
    \A p \in Pipelines :
      (pipe[p] = "Completed" \/ (pc = "complete" /\ cur = p)) /\ Candidates(p) # {} =>
        \E t \in Latest(Candidates(p)) : pipeContext[p] = context[t]

\* Where the input of a body, the context of a pipeline and its end come from.
LEMMA FaultlessMoves ==
  ASSUME IInv, [Next]_vars, faults' = 0
  PROVE  /\ faults = 0
         /\ pc' = "run" => \/ BuildContext
                           \/ pc = "run" /\ event' = event /\ input' = input
         /\ \A p \in Pipelines :
              \/ UpdatePipelineContext /\ cur = p
              \/ /\ pipeContext'[p] = pipeContext[p]
                 /\ (pipe'[p] = "Completed" \/ (pc' = "complete" /\ cur' = p)) =>
                      (pipe[p] = "Completed" \/ (pc = "complete" /\ cur = p))
<1> USE DEF IInv, Base, TypeOK, StoreTypeOK, SetStatus, Finish, SetPipe, Release, LeavePipeline,
            MarkReady, MarkSkipped, MarkCompleted, MarkFailed, ScheduleRetry,
            UpsertMetadata, RecordOutcome, SaveOutput
<1>1. ~Failure
  <2>1. Failure => Fault
    BY DEF Failure, ReadinessFails, BuildFails, CompletionFails, ReportFails,
           FinalContextFails, PassFails
  <2>2. faults \in Nat
    OBVIOUS
  <2>3. ~Fault
    BY <2>2 DEF Fault
  <2> QED
    BY <2>1, <2>3
<1>2. CASE ReadOnly
  <2>1. UNCHANGED storeVars
    BY <1>2, ReadOnlyWritesNothing
  <2> QED
    BY <1>2, <2>1
       DEF ReadOnly, Poll, LoadPending, EndPass, PickPipeline, CheckDependencies, EvaluateRules,
           NothingRemains, Dispatch, TaskMissing, BodySucceeds, BodyFails, CheckCompletion,
           Stop, Start
<1>3. CASE \E p \in Pipelines : Submit(p) \/ Cancel(p)
  BY <1>3 DEF Submit, CreatePipeline, Cancel, PipelineCancel
<1>4. CASE MakeReady \/ Skip \/ BuildContext \/ SaveContext \/ MarkTaskCompleted
           \/ RetryTask \/ HandleResult
  BY <1>4 DEF MakeReady, Skip, BuildContext, SaveContext, MarkTaskCompleted, RetryTask, HandleResult
<1>5. CASE UpdatePipelineContext
  <2>1. UNCHANGED storeVars \/ \E c \in SUBSET Tasks : UpdateFinalContext(cur, c)
    BY <1>5, FinalContextIsOne
  <2> QED
    BY <1>5, <2>1 DEF UpdatePipelineContext, UpdateFinalContext
<1>6. CASE CompletePipeline
  BY <1>6 DEF CompletePipeline, PipelineMarkCompleted
<1>7. CASE UNCHANGED vars
  BY <1>7
<1> QED
  BY <1>1, <1>2, <1>3, <1>4, <1>5, <1>6, <1>7 DEF Next, Loop, ReadOnly

\* The tasks of an ended pipeline keep everything the choice depends on.
LEMMA ChoiceIsFixed ==
  ASSUME IInv, [Next]_vars, NEW p \in Pipelines,
         pipe[p] = "Completed" \/ (pc \in {"final", "complete"} /\ cur = p)
  PROVE  /\ Candidates(p)' = Candidates(p)
         /\ Latest(Candidates(p))' = Latest(Candidates(p))
         /\ \A t \in Candidates(p) : context'[t] = context[t]
<1>1. \A t \in TasksOf(p) : Settled(t)
  BY SchedulerAssumption
     DEF IInv, Base, Position, HeldTask, CurrentPipeline, Safe, CompletedPipelineIsDone, Settled
<1>2. \A t \in TasksOf(p) : /\ status'[t] = status[t] /\ context'[t] = context[t]
                            /\ t \in output' <=> t \in output
                            /\ doneAt'[t] = doneAt[t]
  BY <1>1, SettledIsFixed, TimesMove DEF Settled, TimeMoves
<1>3. Candidates(p)' = Candidates(p)
  BY <1>2 DEF Candidates
<1>4. Latest(Candidates(p))' = Latest(Candidates(p))
  BY <1>2, <1>3 DEF Latest, Candidates
<1> QED
  BY <1>2, <1>3, <1>4 DEF Candidates

LEMMA FinalStaysChosen ==
  ASSUME IInv, FinalIsChosen, [Next]_vars
  PROVE  FinalIsChosen'
<1> SUFFICES ASSUME faults' = 0, NEW p \in Pipelines,
                    pipe'[p] = "Completed" \/ (pc' = "complete" /\ cur' = p),
                    Candidates(p)' # {}
             PROVE  \E t \in Latest(Candidates(p))' : pipeContext'[p] = context'[t]
  BY DEF FinalIsChosen
<1>1. CASE UpdatePipelineContext /\ cur = p
  <2>1. pc = "final"
    BY <1>1 DEF UpdatePipelineContext
  <2>2. /\ Candidates(p)' = Candidates(p)
        /\ Latest(Candidates(p))' = Latest(Candidates(p))
        /\ \A t \in Candidates(p) : context'[t] = context[t]
    BY <1>1, <2>1, ChoiceIsFixed
  <2>3. PICK t \in Latest(Candidates(p)) : UpdateFinalContext(p, context[t])
    BY <1>1, <2>2 DEF UpdatePipelineContext, TakeFinalContext
  <2>4. pipeContext'[p] = context'[t]
    BY <2>2, <2>3 DEF UpdateFinalContext, IInv, Base, TypeOK, StoreTypeOK, Latest
  <2> QED
    BY <2>2, <2>4
<1>2. CASE ~(UpdatePipelineContext /\ cur = p)
  <2>1. /\ faults = 0 /\ pipeContext'[p] = pipeContext[p]
        /\ pipe[p] = "Completed" \/ (pc = "complete" /\ cur = p)
    BY <1>2, FaultlessMoves
  <2>2. /\ Candidates(p)' = Candidates(p)
        /\ Latest(Candidates(p))' = Latest(Candidates(p))
        /\ \A t \in Candidates(p) : context'[t] = context[t]
    BY <2>1, ChoiceIsFixed
  <2>3. PICK t \in Latest(Candidates(p)) : pipeContext[p] = context[t]
    BY <2>1, <2>2 DEF FinalIsChosen
  <2>4. t \in Candidates(p)
    BY <2>3 DEF Latest
  <2> QED
    BY <2>1, <2>2, <2>3, <2>4
<1> QED
  BY <1>1, <1>2

LEMMA InputsStayComplete ==
  ASSUME IInv, IInv', InputsComplete, [Next]_vars
  PROVE  InputsComplete'
<1> SUFFICES ASSUME faults' = 0, pc' = "run", NEW d \in Deps[event'], status'[d] = "Completed"
             PROVE  context'[d] \subseteq input'
  BY DEF InputsComplete
<1>1. event' \in Tasks
  BY DEF IInv, Base, Position, HeldTask
<1>2. CASE BuildContext
  <2>1. /\ event' = event /\ status' = status /\ context' = context /\ output' = output
        /\ input' = MergedContext(Deps[event])
    BY <1>2 DEF BuildContext, TaskContext
  <2>2. d \in output
    BY <1>1, <2>1, StoreAssumption DEF IInv, Safe, CompletedHasOutput
  <2> QED
    BY <2>1, <2>2 DEF MergedContext
<1>3. CASE pc = "run" /\ event' = event /\ input' = input
  <2>1. status[event] = "Ready" /\ faults = 0
    BY <1>3, FaultlessMoves DEF IInv, Base, Position, HeldTask
  <2>2. d \in Tasks /\ Settled(d)
    BY <1>1, <1>3, <2>1, StoreAssumption DEF IInv, Safe, DependenciesSettled
  <2>3. status'[d] = status[d] /\ context'[d] = context[d]
    BY <2>2, SettledIsFixed
  <2> QED
    BY <1>3, <2>1, <2>3 DEF InputsComplete
<1> QED
  BY <1>2, <1>3, FaultlessMoves

\* While no call fails, every body is given all that its completed
\* dependencies produced, and the result of a pipeline is the context of a
\* task that no other completed task depends on, for any workflow: the
\* completion times, written twice for most tasks, follow the dependencies.
THEOREM NothingIsEverLost == Spec => []NothingIsLost
<1>1. Init => TimesInOrder /\ FinalIsChosen /\ InputsComplete
  BY DEF Init, StoreInit, LoopInit, TimesInOrder, FinalIsChosen, InputsComplete
<1>2. IInv /\ IInv' /\ TimesInOrder /\ FinalIsChosen /\ InputsComplete /\ [Next]_vars
        => (TimesInOrder /\ FinalIsChosen /\ InputsComplete)'
  BY TimesStayInOrder, FinalStaysChosen, InputsStayComplete
<1>3. IInv /\ TimesInOrder /\ FinalIsChosen /\ InputsComplete => NothingIsLost
  <2> SUFFICES ASSUME IInv, TimesInOrder, FinalIsChosen
               PROVE  ResultIsFinal
    BY DEF NothingIsLost
  <2> SUFFICES ASSUME faults = 0, NEW p \in Pipelines, pipe[p] = "Completed",
                      Candidates(p) # {}
               PROVE  \E t \in Candidates(p) : /\ pipeContext[p] = context[t]
                                               /\ \A u \in Candidates(p) : t \notin Deps[u]
    BY DEF ResultIsFinal
  <2>1. PICK t \in Latest(Candidates(p)) : pipeContext[p] = context[t]
    BY DEF FinalIsChosen
  <2>2. ASSUME NEW u \in Candidates(p), t \in Deps[u]
        PROVE  FALSE
    <3>1. t \in Tasks /\ u \in Tasks /\ doneAt[u] # 0 /\ doneAt[u] <= doneAt[t]
      BY <2>1, <2>2 DEF Candidates, Latest
    <3>2. doneAt[t] < doneAt[u]
      BY <2>2, <3>1 DEF TimesInOrder
    <3> QED
      BY <3>1, <3>2 DEF IInv, Base, TypeOK, StoreTypeOK
  <2> QED
    BY <2>1, <2>2 DEF Latest
<1>4. QED
  BY <1>1, <1>2, <1>3, Invariance, PTL DEF Spec

-----------------------------------------------------------------------------
(***************************************************************************)
(* The scheduler implements WorkflowLifecycle.  Most of its steps are      *)
(* invisible there: a task is open from the moment the decision is written *)
(* until the loop lets go of it, so what the executor and the dispatcher   *)
(* write in between, twice or not at all, is one step of the lifecycle.    *)
(***************************************************************************)
USE DEF storeVars, pipeVars, taskVars, outputVars, passVars, loopVars, vars,
        PipeStatus, TaskStatus, TerminalTask, TerminalPipe,
        DbContext, PipelineExecution, TaskExecution, TaskExecutionMetadata,
        Step, DecideSteps, ExecuteSteps, HoldSteps, TasksOf, AllTerminal

LifecycleStep == [Lifecycle!LifecycleNext]_(Lifecycle!lifecycleVars)

LEMMA Invisible ==
  ASSUME pipe' = pipe, \A t \in Tasks : Phase(t)' = Phase(t)
  PROVE  LifecycleStep
BY DEF LifecycleStep, Lifecycle!lifecycleVars

\* A task all of whose dependencies are over, as the lifecycle sees it.
LEMMA DepsAreOver ==
  ASSUME IInv, NEW t \in Tasks, event = t, AllTerminal(Deps[t])
  PROVE  \A d \in Deps[t] : d \in Tasks /\ Phase(d) \in Lifecycle!Over
BY NoSelfDependency, StoreAssumption DEF Phase, Lifecycle!Over

\* The decision of the state manager: the task in hand opens or is skipped.
LEMMA DecisionIsOneStep ==
  ASSUME IInv, event \in Tasks, status[event] = "NotStarted", AllTerminal(Deps[event]),
         NEW r \in {"Ready", "Skipped"}, status' = [status EXCEPT ![event] = r],
         pipe' = pipe, event' = None \/ (event' = event /\ r = "Ready")
  PROVE  LifecycleStep
<1> DEFINE s == IF r = "Ready" THEN "Open" ELSE "Skipped"
<1> USE SchedulerAssumption DEF IInv, Base, TypeOK, StoreTypeOK
<1>1. Phase(event) = "Waiting"
  BY DEF Phase
<1>2. \A t \in Tasks : Phase(t)' = IF t = event THEN s ELSE Phase(t)
  BY DEF Phase
<1>3. [t \in Tasks |-> Phase(t)]' = [[t \in Tasks |-> Phase(t)] EXCEPT ![event] = s]
  BY <1>2
<1>4. Lifecycle!DepsOver(event)
  BY DepsAreOver DEF Lifecycle!DepsOver
<1>5. CASE r = "Ready"
  BY <1>1, <1>3, <1>4, <1>5 DEF LifecycleStep, Lifecycle!LifecycleNext, Lifecycle!Open
<1>6. CASE r = "Skipped"
  BY <1>1, <1>3, <1>4, <1>6 DEF LifecycleStep, Lifecycle!LifecycleNext, Lifecycle!PassOver
<1>7. QED
  BY <1>5, <1>6

\* The loop lets go of the task it executed: the task is concluded, whether
\* its status is written now or was before.
LEMMA ReleaseConcludes ==
  ASSUME IInv, event \in Tasks, status[event] \in {"Ready", "Completed"},
         NEW r \in {"Completed", "Failed"}, status' = [status EXCEPT ![event] = r],
         pipe' = pipe, event' = None
  PROVE  LifecycleStep
<1> USE SchedulerAssumption DEF IInv, Base, TypeOK, StoreTypeOK
<1>1. Phase(event) = "Open"
  BY DEF Phase
<1>2. \A t \in Tasks : Phase(t)' = IF t = event THEN r ELSE Phase(t)
  BY DEF Phase
<1>3. [t \in Tasks |-> Phase(t)]' = [[t \in Tasks |-> Phase(t)] EXCEPT ![event] = r]
  BY <1>2
<1>4. QED
  BY <1>1, <1>3 DEF LifecycleStep, Lifecycle!LifecycleNext, Lifecycle!Conclude

LEMMA Completes ==
  ASSUME IInv, pc = "complete", PipelineMarkCompleted(cur), event' = event
  PROVE  LifecycleStep
<1> USE DEF IInv, Base, Position, HeldTask, CurrentPipeline, TypeOK, StoreTypeOK
<1>1. cur \in Pipelines /\ pipe[cur] # "Absent" /\ event = None
  BY SchedulerAssumption
<1>2. \A t \in Tasks : Phase(t)' = Phase(t)
  BY <1>1 DEF PipelineMarkCompleted, SetPipe, Phase
<1>3. \A t \in Tasks : PipelineOf[t] = cur => Phase(t) \in Lifecycle!Over
  BY <1>1, SchedulerAssumption DEF Phase, Lifecycle!Over
<1>4. Lifecycle!Complete(cur)
  BY <1>1, <1>2, <1>3 DEF PipelineMarkCompleted, SetPipe, Lifecycle!Complete
<1>5. QED
  BY <1>1, <1>4 DEF LifecycleStep, Lifecycle!LifecycleNext

LEMMA InitIsLifecycleInit == Init => Lifecycle!LifecycleInit
BY SchedulerAssumption DEF Init, StoreInit, LoopInit, Phase, Lifecycle!LifecycleInit

LEMMA StepIsLifecycleStep == IInv /\ [Next]_vars => LifecycleStep
<1> SUFFICES ASSUME IInv, [Next]_vars PROVE LifecycleStep
  OBVIOUS
<1> USE StoreAssumption, SchedulerAssumption
    DEF IInv, Base, TypeOK, StoreTypeOK, Position, HeldTask, SnapshotIsFresh,
        CreatedTogether, SetStatus, Finish, SetPipe, Release, LeavePipeline, Fault,
        Lost, MarkReady, MarkSkipped, MarkCompleted, MarkFailed, ScheduleRetry,
        UpsertMetadata, RecordOutcome, SaveOutput, Remaining, Phase
<1>1. CASE \E p \in Pipelines : Submit(p)
  <2>1. PICK p \in Pipelines : Submit(p)
    BY <1>1
  <2>2. \A t \in Tasks : Phase(t)' = IF PipelineOf[t] = p THEN "Waiting" ELSE Phase(t)
    BY <2>1 DEF Submit, CreatePipeline
  <2>3. Lifecycle!Accept(p)
    BY <2>1, <2>2 DEF Submit, CreatePipeline, Lifecycle!Accept
  <2>4. QED
    BY <2>3 DEF LifecycleStep, Lifecycle!LifecycleNext
<1>2. CASE \E p \in Pipelines : Cancel(p)
  <2>1. PICK p \in Pipelines : Cancel(p)
    BY <1>2
  <2>2. \A t \in Tasks : Phase(t)' = Phase(t)
    BY <2>1 DEF Cancel, PipelineCancel
  <2>3. Lifecycle!CancelStage(p)
    BY <2>1, <2>2 DEF Cancel, PipelineCancel, Lifecycle!CancelStage
  <2>4. QED
    BY <2>3 DEF LifecycleStep, Lifecycle!LifecycleNext
<1>3. CASE ReadOnly /\ ~Stop
  <2>1. \A t \in Tasks : Phase(t)' = Phase(t)
    BY <1>3 DEF ReadOnly, Poll, LoadPending, EndPass, PickPipeline, CheckDependencies,
                EvaluateRules, NothingRemains, Dispatch, TaskMissing, BodySucceeds,
                BodyFails, CheckCompletion, Start
  <2>2. QED
    BY <1>3, <2>1, ReadOnlyWritesNothing, Invisible
<1>4. CASE MakeReady
  BY <1>4, DecisionIsOneStep DEF MakeReady
<1>5. CASE Skip
  BY <1>5, DecisionIsOneStep DEF Skip
<1>6. CASE BuildContext \/ BuildFails \/ SaveContext
  <2>1. pipe' = pipe /\ \A t \in Tasks : Phase(t)' = Phase(t)
    BY <1>6 DEF BuildContext, BuildFails, SaveContext
  <2>2. QED
    BY <2>1, Invisible
<1>7. CASE MarkTaskCompleted
  <2>1. pipe' = pipe /\ \A t \in Tasks : Phase(t)' = Phase(t)
    BY <1>7 DEF MarkTaskCompleted
  <2>2. QED
    BY <2>1, Invisible
<1>8. CASE RetryTask
  <2>1. pipe' = pipe /\ \A t \in Tasks : Phase(t)' = Phase(t)
    BY <1>8 DEF RetryTask
  <2>2. QED
    BY <2>1, Invisible
<1>9. CASE HandleResult
  <2>1. CASE outcome = "Completed"
    BY <1>9, <2>1, ReleaseConcludes DEF HandleResult
  <2>2. CASE outcome # "Completed"
    BY <1>9, <2>2, ReleaseConcludes DEF HandleResult
  <2>3. QED
    BY <2>1, <2>2
<1>10. CASE UpdatePipelineContext \/ FinalContextFails
  <2>1. pipe' = pipe /\ status' = status /\ event' = event
    BY <1>10, FinalContextIsOne
       DEF UpdatePipelineContext, FinalContextFails, UpdateFinalContext
  <2>2. QED
    BY <2>1, Invisible
<1>11. CASE CompletePipeline
  BY <1>11, Completes DEF CompletePipeline
<1>12. CASE ReadinessFails
  <2>1. CASE pc = "ready" /\ MarkReady(event)
    BY <1>12, <2>1, DecisionIsOneStep DEF ReadinessFails
  <2>2. CASE pc = "skip" /\ MarkSkipped(event)
    BY <1>12, <2>2, DecisionIsOneStep DEF ReadinessFails
  <2>3. CASE UNCHANGED storeVars
    <3>1. \A t \in Tasks : Phase(t)' = Phase(t)
      BY <1>12, <2>3 DEF ReadinessFails
    <3>2. QED
      BY <2>3, <3>1, Invisible
  <2>4. QED
    BY <1>12, <2>1, <2>2, <2>3 DEF ReadinessFails
<1>13. CASE CompletionFails
  <2>1. pipe' = pipe /\ \A t \in Tasks : Phase(t)' = Phase(t)
    BY <1>13 DEF CompletionFails
  <2>2. QED
    BY <2>1, Invisible
<1>14. CASE ReportFails
  <2>1. CASE pc = "retry"
    <3>1. pipe' = pipe /\ \A t \in Tasks : Phase(t)' = Phase(t)
      BY <1>14, <2>1 DEF ReportFails
    <3>2. QED
      BY <3>1, Invisible
  <2>2. CASE pc = "handle" /\ RecordOutcome(event)
    <3>1. CASE outcome = "Completed"
      BY <1>14, <2>2, <3>1, ReleaseConcludes DEF ReportFails
    <3>2. CASE outcome # "Completed"
      BY <1>14, <2>2, <3>2, ReleaseConcludes DEF ReportFails
    <3>3. QED
      BY <3>1, <3>2
  <2>3. CASE pc = "handle" /\ UNCHANGED storeVars /\ status[event] = "Completed"
    <3>1. status' = [status EXCEPT ![event] = "Completed"]
      BY <2>3
    <3>2. QED
      BY <1>14, <2>3, <3>1, ReleaseConcludes DEF ReportFails
  <2>4. CASE pc = "handle" /\ UNCHANGED storeVars /\ status[event] # "Completed"
    <3>1. pipe' = pipe /\ \A t \in Tasks : Phase(t)' = Phase(t)
      BY <1>14, <2>4 DEF ReportFails
    <3>2. QED
      BY <3>1, Invisible
  <2>5. QED
    BY <1>14, <2>1, <2>2, <2>3, <2>4 DEF ReportFails
<1>15. CASE PassFails
  <2>1. CASE pc = "complete" /\ PipelineMarkCompleted(cur)
    BY <1>15, <2>1, Completes DEF PassFails
  <2>2. CASE UNCHANGED storeVars
    <3>1. \A t \in Tasks : Phase(t)' = Phase(t)
      BY <1>15, <2>2 DEF PassFails
    <3>2. QED
      BY <2>2, <3>1, Invisible
  <2>3. QED
    BY <1>15, <2>1, <2>2 DEF PassFails
<1>16. CASE Stop
  <2>1. CASE event \in Tasks /\ status[event] = "Completed"
    <3>1. status' = [status EXCEPT ![event] = "Completed"]
      BY <1>16, <2>1 DEF Stop
    <3>2. QED
      BY <1>16, <2>1, <3>1, ReleaseConcludes DEF Stop
  <2>2. CASE ~(event \in Tasks /\ status[event] = "Completed")
    <3>1. pipe' = pipe /\ \A t \in Tasks : Phase(t)' = Phase(t)
      BY <1>16, <2>2 DEF Stop
    <3>2. QED
      BY <3>1, Invisible
  <2>3. QED
    BY <2>1, <2>2
<1>17. CASE UNCHANGED vars
  <2>1. pipe' = pipe /\ \A t \in Tasks : Phase(t)' = Phase(t)
    BY <1>17
  <2>2. QED
    BY <2>1, Invisible
<1>18. QED
  BY <1>1, <1>2, <1>3, <1>4, <1>5, <1>6, <1>7, <1>8, <1>9, <1>10, <1>11, <1>12,
     <1>13, <1>14, <1>15, <1>16, <1>17
     DEF Next, Loop, Failure, ReadOnly

\* Whatever fails or stops, the engine takes tasks and pipelines through the
\* phases of the lifecycle and through no others.
THEOREM SchedulerImplementsLifecycle == Spec => ImplementsLifecycle
<1>1. Init => Lifecycle!LifecycleInit
  BY InitIsLifecycleInit
<1>2. IInv /\ [Next]_vars => [Lifecycle!LifecycleNext]_(Lifecycle!lifecycleVars)
  BY StepIsLifecycleStep DEF LifecycleStep
<1>3. QED
  BY <1>1, <1>2, Invariance, PTL DEF Spec, ImplementsLifecycle, Lifecycle!LifecycleSpec

-----------------------------------------------------------------------------
(***************************************************************************)
(* Positions in a text: least ones, and those a loop goes through.         *)
(***************************************************************************)
\* A non-empty set of naturals has a least element.
LEMMA LeastExists ==
    ASSUME NEW S \in SUBSET Nat, S # {}
    PROVE  \E x \in S : \A y \in S : x <= y
<1> DEFINE less == {p \in Nat \X Nat : p[1] < p[2]}
<1>1. IsWellFoundedOn(less, Nat)
  BY NatLessThanWellFounded, Zenon DEF OpToRel
<1>2. \A x, y \in Nat : <<y, x>> \notin less => x <= y
  OBVIOUS
<1> HIDE DEF less
<1>3. \E x \in S : \A y \in S : <<y, x>> \notin less
  BY <1>1, WFMin, ZenonT(30)
<1> QED
  BY <1>2, <1>3

\* What holds at the start and is carried on from each number to the next
\* holds throughout.
LEMMA CarriedOn ==
  ASSUME NEW n \in Nat, NEW S \in SUBSET (0 .. n),
         0 \in S, \A i \in 1 .. n : i - 1 \in S => i \in S
  PROVE  S = 0 .. n
<1> DEFINE T == (0 .. n) \ S
<1> SUFFICES ASSUME T # {} PROVE FALSE
  OBVIOUS
<1>1. T \in SUBSET Nat
  OBVIOUS
<1>2. PICK x \in T : \A y \in T : x <= y
  <2> HIDE DEF T
  <2>1. QED
    BY <1>1, LeastExists
<1>3. x \in 1 .. n /\ x - 1 \in 0 .. n /\ x - 1 < x
  OBVIOUS
<1>4. x - 1 \in S
  BY <1>2, <1>3
<1>5. QED
  BY <1>3, <1>4

\* The positions a loop goes through.
LEMMA PlacesExist ==
  ASSUME NEW n \in Nat, NEW Turn \in [1 .. n -> [Nat -> Nat]]
  PROVE  \E g \in [0 .. n -> Nat] : \A i \in 1 .. n : g[i] = Turn[i][g[i - 1]]
<1> DEFINE Reached(m) == \E g \in [0 .. m -> Nat] : \A i \in 1 .. m : g[i] = Turn[i][g[i - 1]]
           S == {m \in 0 .. n : Reached(m)}
<1>1. 0 \in S
  <2> DEFINE g == [i \in 0 .. 0 |-> 0]
  <2>1. g \in [0 .. 0 -> Nat] /\ 1 .. 0 = {}
    OBVIOUS
  <2> HIDE DEF g
  <2>2. Reached(0)
    BY <2>1
  <2> HIDE DEF Reached
  <2>3. QED
    BY <2>2
<1>2. ASSUME NEW m \in 1 .. n, m - 1 \in S PROVE m \in S
  <2>1. PICK g \in [0 .. (m - 1) -> Nat] : \A i \in 1 .. (m - 1) : g[i] = Turn[i][g[i - 1]]
    BY <1>2
  <2> DEFINE h == [i \in 0 .. m |-> IF i = m THEN Turn[m][g[m - 1]] ELSE g[i]]
  <2>2. m \in 0 .. n /\ m - 1 \in 0 .. (m - 1) /\ \A i \in 0 .. m : i # m => i \in 0 .. (m - 1)
    OBVIOUS
  <2>3. Turn[m][g[m - 1]] \in Nat
    BY <2>2
  <2>4. h \in [0 .. m -> Nat]
    BY <2>2, <2>3
  <2>5. ASSUME NEW i \in 1 .. m PROVE h[i] = Turn[i][h[i - 1]]
    <3>1. i \in 0 .. m /\ i - 1 \in 0 .. m /\ i - 1 # m /\ (i # m => i \in 1 .. (m - 1))
      BY <2>2
    <3>2. h[i - 1] = g[i - 1]
      BY <3>1
    <3>3. CASE i = m
      BY <3>1, <3>2, <3>3
    <3>4. CASE i # m
      BY <2>1, <3>1, <3>2, <3>4
    <3>5. QED
      BY <3>3, <3>4
  <2> HIDE DEF h
  <2>6. QED
    BY <2>2, <2>4, <2>5
<1>3. S \in SUBSET (0 .. n) /\ n \in 0 .. n
  OBVIOUS
<1>4. S = 0 .. n
  <2> HIDE DEF S
  <2>1. QED
    BY <1>1, <1>2, <1>3, CarriedOn
<1>5. QED
  BY <1>3, <1>4

-----------------------------------------------------------------------------
(***************************************************************************)
(* The matcher: one segment.                                               *)
(***************************************************************************)
\* Part stands in the text behind the first p letters.
Occurs(text, part, p) ==
    p + Len(part) <= Len(text) /\ \A i \in 1 .. Len(part) : text[p + i] = part[i]

\* What match_wildcard asks for is Globs, save that the last part may begin
\* before the end of the one it follows.
GlobsLoosely(parts, text) ==
    \E at \in [DOMAIN parts -> 0 .. Len(text)] :
        /\ \A i \in DOMAIN parts :
              /\ Occurs(text, parts[i], at[i])
              /\ i > 1 /\ i < Len(parts) => at[i] >= at[i - 1] + Len(parts[i - 1])
        /\ at[1] = 0 /\ at[Len(parts)] + Len(parts[Len(parts)]) = Len(text)

LEMMA OccursMeans ==
    ASSUME NEW text \in Seq(Letter), NEW part \in Seq(Letter), NEW p \in Nat
    PROVE  Occurs(text, part, p) <=>
               p + Len(part) <= Len(text) /\ SubSeq(text, p + 1, p + Len(part)) = part
<1>1. Len(part) \in Nat /\ Len(text) \in Nat /\ DOMAIN part = 1 .. Len(part)
  OBVIOUS
<1>2. ASSUME p + Len(part) <= Len(text)
      PROVE  SubSeq(text, p + 1, p + Len(part)) = [i \in 1 .. Len(part) |-> text[p + i]]
  <2> DEFINE s == SubSeq(text, p + 1, p + Len(part))
  <2>1. s \in Seq(Letter) /\ Len(s) = Len(part) /\ \A i \in 1 .. Len(part) : s[i] = text[p + i]
    BY <1>1, <1>2, SubSeqProperties
  <2>2. s = [i \in 1 .. Len(s) |-> s[i]]
    BY <2>1
  <2> HIDE DEF s
  <2>3. s = [i \in 1 .. Len(part) |-> text[p + i]]
    BY <2>1, <2>2
  <2> QED
    BY <2>3 DEF s
<1>3. part = [i \in 1 .. Len(part) |-> part[i]]
  BY <1>1
<1>4. ASSUME p + Len(part) <= Len(text)
      PROVE  SubSeq(text, p + 1, p + Len(part)) = part <=>
                 \A i \in 1 .. Len(part) : text[p + i] = part[i]
  <2> DEFINE s == [i \in 1 .. Len(part) |-> text[p + i]]
  <2>1. SubSeq(text, p + 1, p + Len(part)) = s
    BY <1>2, <1>4
  <2>2. s = part <=> \A i \in 1 .. Len(part) : text[p + i] = part[i]
    BY <1>3
  <2> QED
    BY <2>1, <2>2
<1> QED
  BY <1>4 DEF Occurs

LEMMA EndsMean ==
    ASSUME NEW text \in Seq(Letter), NEW part \in Seq(Letter)
    PROVE  /\ IsPrefix(part, text) <=> Occurs(text, part, 0)
           /\ IsSuffix(part, text) <=>
                 Len(part) <= Len(text) /\ Occurs(text, part, Len(text) - Len(part))
<1>1. \A s, t \in Seq(Letter) : IsPrefix(s, t) <=> Occurs(t, s, 0)
  <2> SUFFICES ASSUME NEW s \in Seq(Letter), NEW t \in Seq(Letter)
               PROVE  IsPrefix(s, t) <=> Occurs(t, s, 0)
    OBVIOUS
  <2>1. SubSeq(s, 1, Len(s)) = s
    BY SubSeqFull
  <2>2. Occurs(t, s, 0) <=> 0 + Len(s) <= Len(t) /\ SubSeq(t, 0 + 1, 0 + Len(s)) = s
    BY OccursMeans
  <2>3. 0 + Len(s) = Len(s) /\ 0 + 1 = 1
    OBVIOUS
  <2> QED
    BY <2>1, <2>2, <2>3 DEF IsPrefix
<1>2. \A s \in Seq(Letter) :
          /\ Reverse(s) \in Seq(Letter) /\ Len(Reverse(s)) = Len(s)
          /\ \A i \in 1 .. Len(s) : Reverse(s)[i] = s[Len(s) - i + 1]
  BY DEF Reverse
<1>3. ASSUME Len(part) <= Len(text)
      PROVE  (\A i \in 1 .. Len(part) : Reverse(text)[i] = Reverse(part)[i]) <=>
             (\A i \in 1 .. Len(part) : text[Len(text) - Len(part) + i] = part[i])
  <2> DEFINE L == Len(part)
             N == Len(text)
  <2>1. L \in Nat /\ N \in Nat /\ L <= N
    BY <1>3
  <2>2. \A i \in 1 .. L : i \in 1 .. N /\ L - i + 1 \in 1 .. L /\ L - (L - i + 1) + 1 = i
                          /\ N - (L - i + 1) + 1 = N - L + i
                          /\ N - i + 1 = N - L + (L - i + 1)
    BY <2>1
  <2>3. \A i \in 1 .. L : Reverse(text)[i] = text[N - i + 1] /\ Reverse(part)[i] = part[L - i + 1]
    BY <1>2, <2>2
  <2> HIDE DEF L, N
  <2>4. ASSUME \A i \in 1 .. L : Reverse(text)[i] = Reverse(part)[i], NEW i \in 1 .. L
        PROVE  text[N - L + i] = part[i]
    <3> DEFINE h == L - i + 1
    <3>1. h \in 1 .. L /\ L - h + 1 = i /\ N - h + 1 = N - L + i
      BY <2>2
    <3> HIDE DEF h
    <3> QED
      BY <2>3, <2>4, <3>1
  <2>5. ASSUME \A i \in 1 .. L : text[N - L + i] = part[i], NEW i \in 1 .. L
        PROVE  Reverse(text)[i] = Reverse(part)[i]
    <3> DEFINE h == L - i + 1
    <3>1. h \in 1 .. L /\ N - i + 1 = N - L + h
      BY <2>2
    <3>2. Reverse(text)[i] = text[N - L + h] /\ Reverse(part)[i] = part[h]
      BY <2>3, <3>1
    <3> HIDE DEF h
    <3> QED
      BY <2>5, <3>1, <3>2
  <2> QED
    BY <2>4, <2>5 DEF L, N
<1>4. IsSuffix(part, text) <=> Occurs(Reverse(text), Reverse(part), 0)
  BY <1>1, <1>2 DEF IsSuffix
<1>5. \A i \in 1 .. Len(part) : 0 + i = i
  OBVIOUS
<1>6. Occurs(Reverse(text), Reverse(part), 0) <=>
          Len(part) <= Len(text) /\ \A i \in 1 .. Len(part) : Reverse(text)[i] = Reverse(part)[i]
  BY <1>2, <1>5 DEF Occurs
<1>7. Len(part) <= Len(text) /\ Occurs(text, part, Len(text) - Len(part)) <=>
          Len(part) <= Len(text) /\ \A i \in 1 .. Len(part) : text[Len(text) - Len(part) + i] = part[i]
  BY DEF Occurs
<1> QED
  BY <1>1, <1>3, <1>4, <1>6, <1>7

\* find_substring finds the first place there is.
LEMMA FindMeans ==
    ASSUME NEW text \in Seq(Letter), NEW part \in Seq(Letter), NEW from \in Nat
    PROVE  LET f == Find(text, part, from)
           IN  /\ f \in Nat
               /\ f # Len(text) + 1 => f \in from .. Len(text) /\ Occurs(text, part, f)
               /\ \A q \in from .. Len(text) : Occurs(text, part, q) => f <= q
<1> DEFINE places == {p \in from .. Len(text) :
                         p + Len(part) <= Len(text) /\ SubSeq(text, p + 1, p + Len(part)) = part}
           f == Find(text, part, from)
           least == CHOOSE p \in places : \A q \in places : p <= q
<1>1. Len(text) \in Nat /\ from .. Len(text) \subseteq Nat
  OBVIOUS
<1>2. \A p \in from .. Len(text) : p \in places <=> Occurs(text, part, p)
  BY <1>1, OccursMeans
<1>3. f = IF places = {} THEN Len(text) + 1 ELSE least
  BY Zenon DEF Find
<1>4. places \subseteq from .. Len(text)
  OBVIOUS
<1> HIDE DEF places, f
<1>5. CASE places = {}
  BY <1>1, <1>2, <1>3, <1>5 DEF f
<1>6. CASE places # {}
  <2>1. \E p \in places : \A q \in places : p <= q
    BY <1>1, <1>4, <1>6, LeastExists
  <2>2. least \in places /\ \A q \in places : least <= q
    BY <2>1
  <2> HIDE DEF least
  <2> QED
    BY <1>1, <1>2, <1>3, <1>4, <1>6, <2>2 DEF f
<1> QED
  BY <1>5, <1>6

\* The positions match_wildcard goes through.
IsAfter(After, parts, text) ==
    LET k == Len(parts)
    IN  /\ After \in [1 .. k -> Nat]
        /\ After[1] = IF IsPrefix(parts[1], text) THEN Len(parts[1]) ELSE Len(text) + 1
        /\ \A i \in 2 .. (k - 1) :
              After[i] = IF parts[i] = <<>> THEN After[i - 1]
                         ELSE Find(text, parts[i], After[i - 1]) + Len(parts[i])
        /\ After[k] = IF IsSuffix(parts[k], text) THEN After[k - 1] ELSE Len(text) + 1

LEMMA WildcardIsALoop ==
    ASSUME NEW text \in Seq(Letter), NEW parts \in Seq(Seq(Letter)), Len(parts) > 1
    PROVE  \E After : /\ IsAfter(After, parts, text)
                      /\ MatchWildcard(parts, text) <=>
                             \A i \in 1 .. Len(parts) : After[i] <= Len(text)
<1> DEFINE k == Len(parts)
           Turned(i, v) ==
               IF i = 1 THEN IF IsPrefix(parts[1], text) THEN Len(parts[1]) ELSE Len(text) + 1
               ELSE IF i = k THEN IF IsSuffix(parts[k], text) THEN v ELSE Len(text) + 1
               ELSE IF parts[i] = <<>> THEN v
               ELSE Find(text, parts[i], v) + Len(parts[i])
           Turn == [i \in 1 .. k |-> [v \in Nat |-> Turned(i, v)]]
           After == CHOOSE f : f = [i \in 1 .. k |-> Turned(i, f[i - 1])]
<1>1. k \in Nat /\ k > 1 /\ \A i \in 1 .. k : parts[i] \in Seq(Letter) /\ Len(parts[i]) \in Nat
  OBVIOUS
<1>2. Len(text) + 1 \in Nat
  OBVIOUS
<1>3. \A i \in 1 .. k : \A v \in Nat : Turned(i, v) \in Nat
  <2> SUFFICES ASSUME NEW i \in 1 .. k, NEW v \in Nat PROVE Turned(i, v) \in Nat
    OBVIOUS
  <2>1. Find(text, parts[i], v) \in Nat
    BY <1>1, FindMeans
  <2>2. Len(parts[i]) \in Nat /\ Len(parts[1]) \in Nat
    BY <1>1
  <2> HIDE DEF k
  <2> QED
    BY <1>2, <2>1, <2>2
<1>4. Turn \in [1 .. k -> [Nat -> Nat]]
  <2> HIDE DEF Turned, k
  <2> QED
    BY <1>3
<1>5. PICK g \in [0 .. k -> Nat] : \A i \in 1 .. k : g[i] = Turn[i][g[i - 1]]
  <2> HIDE DEF Turn, k
  <2> QED
    BY <1>1, <1>4, PlacesExist
<1>6. \E f : f = [i \in 1 .. k |-> Turned(i, f[i - 1])]
  <2> DEFINE f == [i \in 1 .. k |-> g[i]]
  <2>1. \A i \in 1 .. k : i - 1 \in 0 .. k /\ i \in 0 .. k /\ i # 0
    BY <1>1
  <2>2. \A i \in 1 .. k : f[i] = Turned(i, g[i - 1])
    <3> HIDE DEF Turned, k
    <3> QED
      BY <1>5, <2>1
  <2>3. \A i \in 1 .. k : i # 1 => i - 1 \in 1 .. k
    BY <1>1
  <2>4. \A i \in 1 .. k : Turned(i, g[i - 1]) = Turned(i, f[i - 1])
    <3> SUFFICES ASSUME NEW i \in 1 .. k PROVE Turned(i, g[i - 1]) = Turned(i, f[i - 1])
      OBVIOUS
    <3>1. CASE i = 1
      BY <3>1
    <3>2. CASE i # 1
      <4>1. f[i - 1] = g[i - 1]
        BY <2>3, <3>2
      <4> HIDE DEF f, Turned
      <4> QED
        BY <4>1
    <3> QED
      BY <3>1, <3>2
  <2>5. f = [i \in 1 .. k |-> f[i]]
    OBVIOUS
  <2> HIDE DEF f, Turned, k
  <2>6. f = [i \in 1 .. k |-> Turned(i, f[i - 1])]
    BY <2>2, <2>4, <2>5
  <2> QED
    BY <2>6
<1>7. After = [i \in 1 .. k |-> Turned(i, After[i - 1])]
  <2> HIDE DEF Turned, k
  <2> QED
    BY <1>6
<1>8. MatchWildcard(parts, text) <=> \A i \in 1 .. k : After[i] <= Len(text)
  BY Zenon DEF MatchWildcard
<1> HIDE DEF After
<1>9. \A i \in 1 .. k : After[i] = Turned(i, After[i - 1])
  <2> HIDE DEF Turned, k
  <2> QED
    BY <1>7
<1>10. \A i \in 1 .. k : After[i] \in Nat
  <2> DEFINE S == {i \in 0 .. k : i = 0 \/ After[i] \in Nat}
  <2>1. 0 \in S
    BY <1>1
  <2>2. ASSUME NEW i \in 1 .. k, i - 1 \in S PROVE i \in S
    <3>1. CASE i = 1
      <4>1. 1 \in 1 .. k /\ Turned(1, After[1 - 1]) = IF IsPrefix(parts[1], text) THEN Len(parts[1]) ELSE Len(text) + 1
        BY <1>1
      <4>2. After[1] \in Nat
        <5> HIDE DEF Turned, k
        <5> QED
          BY <1>1, <1>2, <1>9, <4>1
      <4> QED
        BY <1>1, <3>1, <4>2
    <3>2. CASE i # 1
      <4>1. After[i - 1] \in Nat
        BY <1>1, <2>2, <3>2
      <4>2. Turned(i, After[i - 1]) \in Nat
        <5> HIDE DEF Turned, k
        <5> QED
          BY <1>3, <4>1
      <4>3. After[i] \in Nat
        <5> HIDE DEF Turned, k
        <5> QED
          BY <1>9, <4>2
      <4> QED
        BY <1>1, <4>3
    <3> QED
      BY <3>1, <3>2
  <2>3. S \in SUBSET (0 .. k)
    OBVIOUS
  <2>4. S = 0 .. k
    <3> HIDE DEF S, k
    <3> QED
      BY <1>1, <2>1, <2>2, <2>3, CarriedOn
  <2>5. \A i \in 1 .. k : i \in S /\ i # 0
    <3> HIDE DEF S
    <3> QED
      BY <1>1, <2>4
  <2> QED
    BY <2>5
<1>11. IsAfter(After, parts, text)
  <2>1. After \in [1 .. k -> Nat]
    <3> HIDE DEF Turned, k
    <3> QED
      BY <1>7, <1>10
  <2> HIDE DEF k
  <2>2. 1 \in 1 .. k /\ k \in 1 .. k /\ k # 1 /\ \A i \in 2 .. (k - 1) : i \in 1 .. k /\ i # 1 /\ i # k
    BY <1>1
  <2> QED
    BY <1>9, <2>1, <2>2 DEF IsAfter, k
<1> QED
  BY <1>8, <1>11

\* The first places are as good as any: match_wildcard misses no text.
LEMMA WildcardMeans ==
    ASSUME NEW text \in Seq(Letter), NEW parts \in Seq(Seq(Letter)), Len(parts) > 1
    PROVE  MatchWildcard(parts, text) <=> GlobsLoosely(parts, text)
<1> DEFINE k == Len(parts)
           N == Len(text)
<1>1. /\ k \in Nat /\ k > 1 /\ N \in Nat /\ DOMAIN parts = 1 .. k
      /\ \A i \in 1 .. k : parts[i] \in Seq(Letter) /\ Len(parts[i]) \in Nat
  OBVIOUS
<1>2. PICK After : /\ IsAfter(After, parts, text)
                   /\ MatchWildcard(parts, text) <=> \A i \in 1 .. k : After[i] <= N
  BY WildcardIsALoop
<1>3. /\ After \in [1 .. k -> Nat]
      /\ After[1] = IF Occurs(text, parts[1], 0) THEN Len(parts[1]) ELSE N + 1
      /\ After[k] = IF Len(parts[k]) <= N /\ Occurs(text, parts[k], N - Len(parts[k]))
                    THEN After[k - 1] ELSE N + 1
  <2>1. /\ IsPrefix(parts[1], text) <=> Occurs(text, parts[1], 0)
        /\ IsSuffix(parts[k], text) <=> Len(parts[k]) <= N /\ Occurs(text, parts[k], N - Len(parts[k]))
    <3>1. parts[1] \in Seq(Letter) /\ parts[k] \in Seq(Letter)
      BY <1>1
    <3> QED
      BY <3>1, EndsMean
  <2> QED
    BY <1>2, <2>1 DEF IsAfter
<1>4. \A i \in 2 .. (k - 1) :
          LET f == Find(text, parts[i], After[i - 1])
          IN  /\ After[i] = IF parts[i] = <<>> THEN After[i - 1] ELSE f + Len(parts[i])
              /\ f \in Nat
              /\ f # N + 1 => f \in After[i - 1] .. N /\ Occurs(text, parts[i], f)
              /\ \A q \in After[i - 1] .. N : Occurs(text, parts[i], q) => f <= q
  <2> SUFFICES ASSUME NEW i \in 2 .. (k - 1)
               PROVE  LET f == Find(text, parts[i], After[i - 1])
                      IN  /\ After[i] = IF parts[i] = <<>> THEN After[i - 1] ELSE f + Len(parts[i])
                          /\ f \in Nat
                          /\ f # N + 1 => f \in After[i - 1] .. N /\ Occurs(text, parts[i], f)
                          /\ \A q \in After[i - 1] .. N : Occurs(text, parts[i], q) => f <= q
    BY Zenon
  <2>1. parts[i] \in Seq(Letter) /\ i - 1 \in 1 .. k
    BY <1>1
  <2>2. After[i - 1] \in Nat
    BY <1>3, <2>1
  <2>3. After[i] = IF parts[i] = <<>> THEN After[i - 1]
                   ELSE Find(text, parts[i], After[i - 1]) + Len(parts[i])
    BY <1>2 DEF IsAfter
  <2> QED
    BY <2>1, <2>2, <2>3, FindMeans
<1> HIDE DEF k, N
<1>0. 1 \in 1 .. k /\ k \in 1 .. k /\ k # 1 /\ k - 1 \in Nat
  BY <1>1
<1>5. ASSUME GlobsLoosely(parts, text), NEW j \in 1 .. k PROVE After[j] <= N
  <2>1. PICK at \in [1 .. k -> 0 .. N] :
            /\ \A i \in 1 .. k : /\ Occurs(text, parts[i], at[i])
                                 /\ i > 1 /\ i < k => at[i] >= at[i - 1] + Len(parts[i - 1])
            /\ at[1] = 0 /\ at[k] + Len(parts[k]) = N
    BY <1>1, <1>5 DEF GlobsLoosely, k, N
  <2> DEFINE S == {i \in 0 .. (k - 1) : i = 0 \/ After[i] <= at[i] + Len(parts[i])}
  <2>2. 0 \in S
    BY <1>1
  <2>3. ASSUME NEW i \in 1 .. (k - 1), i - 1 \in S PROVE i \in S
    <3>1. i \in 0 .. (k - 1) /\ i \in 1 .. k /\ at[i] \in Nat /\ at[i] <= N /\ i < k /\ i # k
      BY <1>1, <2>1
    <3>2. CASE i = 1
      BY <1>1, <1>3, <2>1, <3>1, <3>2
    <3>3. CASE i # 1
      <4>1. /\ i \in 2 .. (k - 1) /\ i > 1 /\ i - 1 \in 1 .. k /\ i - 1 # 0
            /\ at[i - 1] \in Nat /\ After[i - 1] \in Nat
            /\ Len(parts[i - 1]) \in Nat /\ Len(parts[i]) \in Nat
        BY <1>1, <1>3, <2>1, <3>1, <3>3
      <4>2. After[i - 1] <= at[i - 1] + Len(parts[i - 1])
        BY <2>3, <4>1
      <4>3. at[i] >= at[i - 1] + Len(parts[i - 1]) /\ Occurs(text, parts[i], at[i])
        BY <2>1, <3>1, <4>1
      <4>4. After[i - 1] <= at[i] /\ at[i] \in After[i - 1] .. N
        BY <1>1, <3>1, <4>1, <4>2, <4>3, SMTT(30)
      <4>5. CASE parts[i] = <<>>
        <5>1. After[i] = After[i - 1]
          BY <1>4, <4>1, <4>5
        <5> QED
          BY <3>1, <4>1, <4>4, <5>1, SMTT(30)
      <4>6. CASE parts[i] # <<>>
        <5> DEFINE f == Find(text, parts[i], After[i - 1])
        <5>1. After[i] = f + Len(parts[i]) /\ f \in Nat /\ f <= at[i]
          BY <1>4, <4>1, <4>3, <4>4, <4>6
        <5> HIDE DEF f
        <5> QED
          BY <3>1, <4>1, <5>1
      <4> QED
        BY <4>5, <4>6
    <3> QED
      BY <3>2, <3>3
  <2>4. S = 0 .. (k - 1)
    <3>1. S \in SUBSET (0 .. (k - 1)) /\ k - 1 \in Nat
      BY <1>1
    <3> HIDE DEF S
    <3> QED
      BY <2>2, <2>3, <3>1, CarriedOn
  <2>5. \A i \in 1 .. (k - 1) : After[i] <= at[i] + Len(parts[i])
    <3>1. \A i \in 1 .. (k - 1) : i \in S /\ i # 0
      <4> HIDE DEF S
      <4> QED
        BY <1>1, <2>4
    <3> QED
      BY <3>1
  <2>6. \A i \in 1 .. k : at[i] + Len(parts[i]) <= N
    BY <2>1 DEF Occurs, N
  <2>7. \A i \in 1 .. (k - 1) : After[i] <= N
    <3> SUFFICES ASSUME NEW i \in 1 .. (k - 1) PROVE After[i] <= N
      OBVIOUS
    <3>1. i \in 1 .. k
      BY <1>1
    <3>2. After[i] \in Nat /\ at[i] \in 0 .. N /\ Len(parts[i]) \in Nat
      BY <1>1, <1>3, <2>1, <3>1
    <3>3. at[i] \in Nat
      BY <1>1, <3>2
    <3> QED
      BY <1>1, <2>5, <2>6, <3>1, <3>2, <3>3
  <2>8. After[k] <= N
    <3>1. k \in 1 .. k /\ k - 1 \in 1 .. (k - 1)
      BY <1>1
    <3>2. Len(parts[k]) <= N /\ at[k] = N - Len(parts[k])
      <4>1. at[k] \in 0 .. N /\ Len(parts[k]) \in Nat /\ N \in Nat
        BY <1>1, <2>1, <3>1
      <4>2. at[k] + Len(parts[k]) = N
        BY <2>1
      <4>3. \A x \in 0 .. N, l \in Nat : x + l = N => l <= N /\ x = N - l
        BY <4>1
      <4> QED
        BY <4>1, <4>2, <4>3
    <3>3. Occurs(text, parts[k], N - Len(parts[k]))
      BY <2>1, <3>1, <3>2
    <3>4. After[k] = After[k - 1]
      BY <1>3, <3>2, <3>3
    <3> QED
      BY <2>7, <3>1, <3>4
  <2> QED
    BY <1>1, <2>7, <2>8
<1>6. ASSUME \A i \in 1 .. k : After[i] <= N PROVE GlobsLoosely(parts, text)
  <2> DEFINE at == [i \in 1 .. k |-> IF i = k THEN N - Len(parts[k]) ELSE After[i] - Len(parts[i])]
  <2>1. /\ Occurs(text, parts[1], 0) /\ After[1] = Len(parts[1])
        /\ Len(parts[k]) <= N /\ Occurs(text, parts[k], N - Len(parts[k]))
    <3>1. After[1] <= N /\ After[k] <= N
      BY <1>1, <1>6
    <3> QED
      BY <1>1, <1>3, <3>1
  <2>2. ASSUME NEW i \in 2 .. (k - 1)
        PROVE  /\ After[i] - Len(parts[i]) \in Nat
               /\ After[i] - Len(parts[i]) >= After[i - 1]
               /\ Occurs(text, parts[i], After[i] - Len(parts[i]))
    <3>1. /\ i \in 1 .. k /\ i - 1 \in 1 .. k
          /\ After[i - 1] \in Nat /\ After[i] \in Nat /\ After[i] <= N /\ After[i - 1] <= N
          /\ Len(parts[i]) \in Nat
      BY <1>1, <1>3, <1>6
    <3>2. CASE parts[i] = <<>>
      <4>1. After[i] = After[i - 1] /\ Len(parts[i]) = 0
        BY <1>4, <3>2
      <4>2. Occurs(text, parts[i], After[i])
        BY <3>1, <4>1 DEF Occurs, N
      <4> QED
        BY <3>1, <4>1, <4>2
    <3>3. CASE parts[i] # <<>>
      <4> DEFINE f == Find(text, parts[i], After[i - 1])
      <4>1. After[i] = f + Len(parts[i]) /\ f \in Nat
        BY <1>4, <3>3
      <4>2. f # N + 1 => f \in After[i - 1] .. N /\ Occurs(text, parts[i], f)
        BY <1>4
      <4> HIDE DEF f
      <4>3. f <= N
        BY <1>1, <3>1, <4>1
      <4>4. f # N + 1 /\ After[i] - Len(parts[i]) = f
        BY <1>1, <3>1, <4>1, <4>3
      <4> QED
        BY <3>1, <4>1, <4>2, <4>4
    <3> QED
      BY <3>2, <3>3
  <2>3. at \in [1 .. k -> 0 .. N]
    <3>1. \A i \in 1 .. k : i = k \/ (i = 1 /\ i # k) \/ (i \in 2 .. (k - 1) /\ i # k)
      BY <1>1
    <3>2. ASSUME NEW i \in 1 .. k PROVE at[i] \in 0 .. N
      <4>1. After[i] \in Nat /\ After[i] <= N /\ Len(parts[i]) \in Nat /\ Len(parts[k]) \in Nat
        BY <1>0, <1>1, <1>3, <1>6
      <4>2. CASE i = k
        BY <1>1, <2>1, <4>1, <4>2
      <4>3. CASE i = 1 /\ i # k
        BY <1>1, <2>1, <4>1, <4>3
      <4>4. CASE i \in 2 .. (k - 1) /\ i # k
        <5>1. at[i] = After[i] - Len(parts[i])
          BY <4>4
        <5>2. at[i] \in Nat
          BY <2>2, <4>4, <5>1
        <5> HIDE DEF at
        <5> QED
          BY <1>1, <4>1, <5>1, <5>2
      <4> QED
        BY <3>1, <4>2, <4>3, <4>4
    <3> QED
      BY <3>2
  <2>4. ASSUME NEW i \in 1 .. k
        PROVE  /\ Occurs(text, parts[i], at[i])
               /\ i > 1 /\ i < k => at[i] >= at[i - 1] + Len(parts[i - 1])
    <3>1. i = k \/ (i = 1 /\ i # k) \/ (i \in 2 .. (k - 1) /\ i # k)
      BY <1>1
    <3>2. CASE i = k
      <4>1. at[i] = N - Len(parts[k])
        BY <3>2
      <4> HIDE DEF at
      <4> QED
        BY <1>1, <2>1, <3>2, <4>1
    <3>3. CASE i = 1 /\ i # k
      <4>1. at[i] = 0
        BY <1>1, <2>1, <3>3
      <4> HIDE DEF at
      <4> QED
        BY <2>1, <3>3, <4>1
    <3>4. CASE i \in 2 .. (k - 1) /\ i # k
      <4>1. at[i] = After[i] - Len(parts[i])
        BY <3>4
      <4>2. i - 1 \in 1 .. k /\ i - 1 # k /\ at[i - 1] = After[i - 1] - Len(parts[i - 1])
        <5>1. i - 1 \in 1 .. k /\ i - 1 # k
          BY <1>1, <3>4
        <5> QED
          BY <5>1
      <4>3. After[i - 1] \in Nat /\ Len(parts[i - 1]) \in Nat
        BY <1>1, <1>3, <4>2
      <4>4. at[i - 1] + Len(parts[i - 1]) = After[i - 1]
        <5> HIDE DEF at
        <5> QED
          BY <4>2, <4>3
      <4> HIDE DEF at
      <4> QED
        BY <2>2, <3>4, <4>1, <4>4
    <3> QED
      BY <3>1, <3>2, <3>3, <3>4
  <2>5. at[1] = 0 /\ at[k] + Len(parts[k]) = N
    BY <1>0, <1>1, <2>1
  <2> HIDE DEF at
  <2> QED
    BY <1>1, <2>3, <2>4, <2>5 DEF GlobsLoosely, k, N
<1> QED
  BY <1>2, <1>5, <1>6 DEF k

\* A segment, as match_glob reads it.
LEMMA GlobMeans ==
  ASSUME NEW text \in Seq(Letter), NEW parts \in Seq(Seq(Letter)), parts # <<>>
  PROVE  MatchGlob(parts, text) <=> GlobsLoosely(parts, text)
<1>1. Len(parts) \in Nat \ {0} /\ Len(text) \in Nat /\ DOMAIN parts = 1 .. Len(parts)
  BY EmptySeq
<1>2. CASE Len(parts) = 1
  <2>1. parts = <<parts[1]>> /\ parts[1] \in Seq(Letter)
    BY <1>1, <1>2
  <2>2. MatchGlob(parts, text) <=> parts[1] = text
    <3>1. parts # Star
      <4>1. Len(Star) = 2 /\ 1 # 2
        BY DEF Star
      <4>2. QED
        BY <1>2, <4>1, Zenon
    <3>2. parts = <<text>> <=> parts[1] = text
      BY <2>1
    <3>3. QED
      BY <1>2, <3>1, <3>2 DEF MatchGlob, Literal
  <2>3. ASSUME GlobsLoosely(parts, text) PROVE parts[1] = text
    <3>1. Occurs(text, parts[1], 0) /\ 0 + Len(parts[1]) = Len(text)
      BY <1>1, <1>2, <2>3 DEF GlobsLoosely
    <3>2. Len(parts[1]) = Len(text) /\ \A i \in 1 .. Len(parts[1]) : text[i] = parts[1][i]
      BY <2>1, <3>1 DEF Occurs
    <3>3. QED
      BY <2>1, <3>2, SeqEqual
  <2>4. ASSUME parts[1] = text PROVE GlobsLoosely(parts, text)
    <3> DEFINE at == [i \in 1 .. 1 |-> 0]
    <3>1. at \in [DOMAIN parts -> 0 .. Len(text)] /\ at[1] = 0
      BY <1>1, <1>2
    <3>2. Occurs(text, parts[1], 0) /\ 0 + Len(parts[1]) = Len(text)
      BY <2>4, <1>1 DEF Occurs
    <3> HIDE DEF at
    <3>3. \A i \in DOMAIN parts : i = 1
      BY <1>1, <1>2
    <3>4. QED
      BY <1>2, <3>1, <3>2, <3>3, SMTT(30) DEF GlobsLoosely
  <2>5. QED
    BY <2>2, <2>3, <2>4
<1>3. CASE Len(parts) > 1
  <2>1. parts # Literal(text)
    <3>1. Len(Literal(text)) = 1 /\ ~(1 > 1)
      BY DEF Literal
    <3>2. QED
      BY <1>3, <3>1, Zenon
  <2>2. ASSUME parts = Star PROVE GlobsLoosely(parts, text)
    <3> DEFINE at == [i \in 1 .. 2 |-> IF i = 1 THEN 0 ELSE Len(text)]
    <3>1. /\ at \in [1 .. 2 -> 0 .. Len(text)] /\ at[1] = 0 /\ at[2] = Len(text)
      BY <1>1
    <3>2. Len(parts) = 2 /\ parts[1] = <<>> /\ parts[2] = <<>>
      BY <2>2 DEF Star
    <3>3. Occurs(text, <<>>, 0) /\ Occurs(text, <<>>, Len(text))
      BY <1>1 DEF Occurs
    <3>4. \A i \in 1 .. 2 : (i = 1 \/ i = 2) /\ ~(i > 1 /\ i < 2)
      OBVIOUS
    <3>5. DOMAIN parts = 1 .. 2 /\ Len(<<>>) = 0 /\ Len(text) + 0 = Len(text)
      BY <1>1, <3>2
    <3>6. \A i \in 1 .. 2 : Occurs(text, parts[i], at[i])
      <4> HIDE DEF at
      <4>1. QED
        BY <3>1, <3>2, <3>3, <3>4
    <3> HIDE DEF at
    <3>7. QED
      BY <3>1, <3>2, <3>4, <3>5, <3>6 DEF GlobsLoosely
  <2>3. QED
    BY <1>3, <2>1, <2>2, WildcardMeans DEF MatchGlob
<1>4. QED
  BY <1>1, <1>2, <1>3

\* What match_wildcard grants beyond the documented meaning is the overlap of
\* the last part with those before it.
LEMMA GlobsAreLoose ==
  ASSUME NEW text \in Seq(Letter), NEW parts \in Seq(Seq(Letter)), parts # <<>>
  PROVE  /\ Globs(parts, text) => GlobsLoosely(parts, text)
         /\ Last(parts) = <<>> \/ (\A j \in 1 .. (Len(parts) - 1) : parts[j] = <<>>)
              => (GlobsLoosely(parts, text) => Globs(parts, text))
<1> DEFINE k == Len(parts)
           N == Len(text)
<1>1. /\ k \in Nat \ {0} /\ N \in Nat /\ DOMAIN parts = 1 .. k /\ Last(parts) = parts[k]
      /\ \A i \in 1 .. k : parts[i] \in Seq(Letter) /\ Len(parts[i]) \in Nat
      /\ Len(<<>>) = 0
  BY EmptySeq DEF Last
<1>2. \A i \in 1 .. k, p \in Nat :
         Occurs(text, parts[i], p) <=>
           p + Len(parts[i]) <= N /\ SubSeq(text, p + 1, p + Len(parts[i])) = parts[i]
  BY <1>1, OccursMeans
<1> DEFINE Placed(at) == \A i \in 1 .. k : Occurs(text, parts[i], at[i])
           Ends(at) == at[1] = 0 /\ at[k] + Len(parts[k]) = N
           Follows(at, i) == at[i] >= at[i - 1] + Len(parts[i - 1])
<1>3. Globs(parts, text) <=>
        \E at \in [1 .. k -> 0 .. N] : Placed(at) /\ Ends(at) /\ \A i \in 2 .. k : Follows(at, i)
  <2>1. ASSUME NEW at \in [1 .. k -> 0 .. N]
        PROVE  /\ \A i \in DOMAIN parts :
                    /\ at[i] + Len(parts[i]) <= Len(text)
                    /\ SubSeq(text, at[i] + 1, at[i] + Len(parts[i])) = parts[i]
                    /\ i > 1 => at[i] >= at[i - 1] + Len(parts[i - 1])
               <=> Placed(at) /\ \A i \in 2 .. k : Follows(at, i)
    <3> HIDE DEF k
    <3>1. \A i \in 1 .. k : at[i] \in Nat /\ (i > 1 <=> i \in 2 .. k)
      BY <1>1
    <3>2. \A i \in 2 .. k : i \in 1 .. k
      BY <1>1
    <3>3. QED
      BY <1>1, <1>2, <3>1, <3>2
  <2> HIDE DEF Placed, Follows
  <2>2. QED
    BY <1>1, <2>1 DEF Globs
<1>4. GlobsLoosely(parts, text) <=>
        \E at \in [1 .. k -> 0 .. N] : Placed(at) /\ Ends(at) /\ \A i \in 2 .. (k - 1) : Follows(at, i)
  <2>1. \A i \in 1 .. k : i > 1 /\ i < Len(parts) <=> i \in 2 .. (k - 1)
    BY <1>1
  <2>2. \A i \in 2 .. (k - 1) : i \in 1 .. k
    BY <1>1
  <2>3. QED
    BY <1>1, <2>1, <2>2 DEF GlobsLoosely
<1>5. Globs(parts, text) => GlobsLoosely(parts, text)
  <2>1. \A i \in 2 .. (k - 1) : i \in 2 .. k
    BY <1>1
  <2> HIDE DEF Placed, Ends, Follows, k
  <2>2. QED
    BY <1>3, <1>4, <2>1
<1>6. ASSUME GlobsLoosely(parts, text), parts[k] = <<>> PROVE Globs(parts, text)
  <2> HIDE DEF k, N
  <2>1. PICK at \in [1 .. k -> 0 .. N] :
          Placed(at) /\ Ends(at) /\ \A i \in 2 .. (k - 1) : Follows(at, i)
    BY <1>4, <1>6
  <2>2. k > 1 => Follows(at, k)
    <3>1. ASSUME k > 1 PROVE at[k - 1] \in Nat /\ Len(parts[k - 1]) \in Nat /\ at[k - 1] + Len(parts[k - 1]) <= N
      <4>1. k - 1 \in 1 .. k
        BY <1>1, <3>1
      <4>2. QED
        BY <1>1, <2>1, <4>1 DEF Occurs, N
    <3>2. at[k] \in 0 .. N /\ at[k] + 0 = N
      BY <1>1, <1>6, <2>1
    <3>3. at[k] = N
      BY <1>1, <3>2
    <3>4. QED
      BY <3>1, <3>3
  <2>3. \A i \in 2 .. k : i \in 2 .. (k - 1) \/ (i = k /\ k > 1)
    BY <1>1
  <2> HIDE DEF Placed, Ends, Follows
  <2>4. QED
    BY <1>3, <2>1, <2>2, <2>3
<1>7. ASSUME GlobsLoosely(parts, text), \A j \in 1 .. (k - 1) : parts[j] = <<>>
      PROVE  Globs(parts, text)
  <2> HIDE DEF k, N
  <2>1. PICK at \in [1 .. k -> 0 .. N] :
          Placed(at) /\ Ends(at) /\ \A i \in 2 .. (k - 1) : Follows(at, i)
    BY <1>4, <1>7
  <2> DEFINE low == [i \in 1 .. k |-> IF i = k THEN at[k] ELSE 0]
  <2>2. low \in [1 .. k -> 0 .. N] /\ low[k] = at[k] /\ \A i \in 1 .. (k - 1) : low[i] = 0
    <3>1. k \in 1 .. k /\ \A i \in 1 .. (k - 1) : i \in 1 .. k /\ i # k
      BY <1>1
    <3>2. 0 \in 0 .. N
      BY <1>1
    <3>3. QED
      BY <3>1, <3>2
  <2> HIDE DEF low
  <2>3. \A i \in 1 .. k : i = k \/ i \in 1 .. (k - 1)
    BY <1>1
  <2>4. Placed(low)
    <3>1. \A i \in 1 .. (k - 1) : Occurs(text, parts[i], 0)
      BY <1>1, <1>7, SMTT(30) DEF Occurs, N
    <3>2. QED
      BY <2>1, <2>2, <2>3, <3>1
  <2>5. Ends(low)
    <3>1. low[1] = 0
      BY <1>1, <2>1, <2>2, <2>3
    <3>2. QED
      BY <2>1, <2>2, <3>1
  <2>6. ASSUME NEW i \in 2 .. k PROVE Follows(low, i)
    <3>1. i - 1 \in 1 .. (k - 1) /\ i \in 1 .. k
      BY <1>1
    <3>2. low[i - 1] = 0 /\ Len(parts[i - 1]) = 0 /\ low[i] \in 0 .. N
      BY <1>1, <1>7, <2>2, <3>1
    <3>3. low[i] >= 0
      BY <3>2
    <3>4. QED
      BY <3>2, <3>3
  <2> HIDE DEF Placed, Ends, Follows
  <2>7. QED
    BY <1>3, <2>2, <2>4, <2>5, <2>6
<1>8. QED
  BY <1>1, <1>5, <1>6, <1>7

-----------------------------------------------------------------------------
(***************************************************************************)
(* The matcher: a pattern and a name.                                      *)
(***************************************************************************)
\* One segment of the pattern takes the name from p to q.
Takes(pattern, name, i, p, q) ==
  IF pattern[i] = DoubleStar THEN q >= p ELSE q = p + 1 /\ MatchGlob(pattern[i], name[q])

\* The pattern from segment i on can be laid over the name from segment j on.
Fits(pattern, name, i, j) ==
  \E cut \in [0 .. Len(pattern) -> 0 .. Len(name)] :
    /\ cut[i - 1] = j - 1 /\ cut[Len(pattern)] = Len(name)
    /\ \A h \in i .. Len(pattern) : Takes(pattern, name, h, cut[h - 1], cut[h])

\* What match_segments asks of the two that are left.
Decided(pattern, name, i, j, Rest) ==
  IF i > Len(pattern) THEN j > Len(name)
  ELSE IF j > Len(name) THEN pattern[i] = DoubleStar /\ i = Len(pattern)
  ELSE IF pattern[i] = DoubleStar THEN Rest[<<i + 1, j>>] \/ Rest[<<i, j + 1>>]
  ELSE MatchGlob(pattern[i], name[j]) /\ Rest[<<i + 1, j + 1>>]

EndsPlainly(pattern) ==
  Len(pattern) > 1 => ~(pattern[Len(pattern) - 1] = DoubleStar /\ pattern[Len(pattern)] = DoubleStar)

LEMMA CutsRise ==
  ASSUME NEW m \in Nat, NEW n \in Nat, NEW cut \in [0 .. m -> 0 .. n], NEW i \in 1 .. (m + 1),
         \A h \in i .. m : cut[h] >= cut[h - 1]
  PROVE  \A h \in (i - 1) .. m : cut[h] >= cut[i - 1]
<1> DEFINE S == {h \in (i - 1) .. m : ~(cut[h] >= cut[i - 1])}
<1>1. SUFFICES ASSUME S # {} PROVE FALSE
  OBVIOUS
<1>2. S \in SUBSET Nat
  OBVIOUS
<1>3. PICK x \in S : \A y \in S : x <= y
  <2> HIDE DEF S
  <2>1. QED
    BY <1>1, <1>2, LeastExists
<1>4. x \in 0 .. m /\ i - 1 \in 0 .. m /\ cut[x] \in Nat /\ cut[i - 1] \in Nat
  <2>1. x \in 0 .. m /\ i - 1 \in 0 .. m
    OBVIOUS
  <2>2. QED
    BY <2>1
<1>5. x # i - 1
  BY <1>4
<1>6. x \in i .. m /\ x - 1 \in (i - 1) .. m /\ x - 1 \in 0 .. m /\ x - 1 < x
  BY <1>5
<1>7. x - 1 \notin S /\ cut[x - 1] \in Nat
  BY <1>3, <1>6
<1>8. cut[x] >= cut[x - 1] /\ cut[x - 1] >= cut[i - 1]
  BY <1>6, <1>7
<1>9. QED
  BY <1>4, <1>7, <1>8

\* Laying the pattern over the name is what match_segments decides.
LEMMA FitsStepwise ==
  ASSUME NEW pattern \in Pattern, NEW name \in Name, EndsPlainly(pattern),
         NEW i \in 1 .. (Len(pattern) + 1), NEW j \in 1 .. (Len(name) + 1),
         NEW Rest,
         i <= Len(pattern) => (Rest[<<i + 1, j>>] <=> Fits(pattern, name, i + 1, j)),
         j <= Len(name) => (Rest[<<i, j + 1>>] <=> Fits(pattern, name, i, j + 1)),
         i <= Len(pattern) /\ j <= Len(name) =>
           (Rest[<<i + 1, j + 1>>] <=> Fits(pattern, name, i + 1, j + 1))
  PROVE  Fits(pattern, name, i, j) <=> Decided(pattern, name, i, j, Rest)
<1> DEFINE m == Len(pattern)
           n == Len(name)
           Cut == [0 .. m -> 0 .. n]
           Laid(cut, a, b) == /\ cut[a - 1] = b - 1 /\ cut[m] = n
                              /\ \A h \in a .. m : Takes(pattern, name, h, cut[h - 1], cut[h])
<1>1. m \in Nat /\ n \in Nat /\ DOMAIN pattern = 1 .. m
  BY DEF Pattern, Name
<1>2. \A a, b : Fits(pattern, name, a, b) <=> \E cut \in Cut : Laid(cut, a, b)
  BY DEF Fits
<1>3. m > 1 => ~(pattern[m - 1] = DoubleStar /\ pattern[m] = DoubleStar)
  BY DEF EndsPlainly
<1> HIDE DEF m, n
<1>4. i \in Nat \ {0} /\ j \in Nat \ {0} /\ i <= m + 1 /\ j <= n + 1 /\ i - 1 \in 0 .. m /\ j - 1 \in 0 .. n
  BY <1>1 DEF m, n
\* A cut for what is left after segment i, with another start.
<1>5. ASSUME NEW cut \in Cut, i <= m, cut[m] = n, NEW x \in 0 .. n,
             \A h \in (i + 1) .. m : Takes(pattern, name, h, cut[h - 1], cut[h]),
             Takes(pattern, name, i, x, cut[i])
      PROVE  \E new \in Cut : Laid(new, i, x + 1)
  <2> DEFINE new == [h \in 0 .. m |-> IF h = i - 1 THEN x ELSE cut[h]]
  <2>1. new \in Cut /\ new[i - 1] = x /\ \A h \in i .. m : new[h] = cut[h]
    <3>1. i - 1 \in 0 .. m /\ \A h \in i .. m : h \in 0 .. m /\ h # i - 1
      BY <1>1, <1>4
    <3>2. QED
      BY <3>1
  <2> HIDE DEF new
  <2>2. \A h \in i .. m : h = i \/ (h \in (i + 1) .. m /\ h - 1 \in i .. m)
    BY <1>1, <1>4
  <2>3. i \in i .. m /\ m \in i .. m /\ x = (x + 1) - 1
    BY <1>1, <1>4, <1>5
  <2>4. \A h \in i .. m : Takes(pattern, name, h, new[h - 1], new[h])
    BY <1>5, <2>1, <2>2, <2>3
  <2>5. QED
    BY <1>5, <2>1, <2>3, <2>4
<1>6. CASE i > m
  <2>1. i - 1 = m /\ i .. m = {}
    BY <1>1, <1>4, <1>6
  <2>2. ASSUME j > n PROVE \E cut \in Cut : Laid(cut, i, j)
    <3> DEFINE cut == [h \in 0 .. m |-> n]
    <3>1. cut \in Cut /\ cut[m] = n /\ j - 1 = n
      BY <1>1, <1>4, <2>2
    <3> HIDE DEF cut
    <3>2. QED
      BY <2>1, <3>1
  <2>3. ASSUME NEW cut \in Cut, Laid(cut, i, j) PROVE j > n
    BY <1>1, <1>4, <2>1, <2>3
  <2> HIDE DEF Cut, Laid
  <2>4. QED
    BY <1>2, <1>6, <2>2, <2>3 DEF Decided, m, n
<1>7. CASE i <= m /\ j > n
  <2>1. j - 1 = n /\ i \in 1 .. m
    BY <1>1, <1>4, <1>7
  <2>2. ASSUME pattern[i] = DoubleStar, i = m PROVE \E cut \in Cut : Laid(cut, i, j)
    <3> DEFINE cut == [h \in 0 .. m |-> n]
    <3>1. cut \in Cut /\ cut[m] = n /\ cut[i - 1] = n /\ m - 1 = i - 1 /\ \A h \in i .. m : h = m
      BY <1>1, <1>4, <2>2
    <3> HIDE DEF cut
    <3>2. n >= n
      BY <1>1
    <3>3. \A h \in i .. m : Takes(pattern, name, h, cut[h - 1], cut[h])
      BY <2>2, <3>1, <3>2 DEF Takes
    <3>4. QED
      BY <2>1, <3>1, <3>3
  <2>3. ASSUME NEW cut \in Cut, Laid(cut, i, j) PROVE pattern[i] = DoubleStar /\ i = m
    <3>1. ASSUME NEW h \in i .. m PROVE cut[h] >= cut[h - 1]
      <4>1. h \in 0 .. m /\ h - 1 \in 0 .. m
        BY <1>1, <1>4
      <4>2. cut[h] \in Nat /\ cut[h - 1] \in Nat
        BY <1>1, <4>1
      <4>3. QED
        BY <2>3, <4>2 DEF Takes
    <3>2. \A h \in (i - 1) .. m : cut[h] >= cut[i - 1]
      <4>1. i \in 1 .. (m + 1)
        BY <1>1, <1>4
      <4>2. QED
        BY <1>1, <3>1, <4>1, CutsRise
    <3>3. \A h \in (i - 1) .. m : cut[h] = n
      <4>1. ASSUME NEW h \in (i - 1) .. m PROVE cut[h] = n
        <5>1. h \in 0 .. m
          BY <1>1, <1>4
        <5>2. cut[h] \in 0 .. n /\ cut[h] >= n
          BY <2>1, <2>3, <3>2, <5>1
        <5>3. QED
          BY <1>1, <5>2
      <4>2. QED
        BY <4>1
    <3>4. ASSUME NEW h \in i .. m PROVE pattern[h] = DoubleStar
      <4>1. h \in (i - 1) .. m /\ h - 1 \in (i - 1) .. m
        BY <1>1, <1>4, SMTT(30)
      <4>2. cut[h] = n /\ cut[h - 1] = n /\ n # n + 1
        BY <1>1, <3>3, <4>1
      <4>3. QED
        BY <2>3, <4>2 DEF Takes
    <3>5. i \in i .. m /\ m \in i .. m /\ (i # m => m > 1 /\ m - 1 \in i .. m)
      BY <1>1, <1>4, <1>7
    <3>6. QED
      BY <1>3, <3>4, <3>5
  <2> HIDE DEF Cut, Laid
  <2>4. ~(i > m)
    BY <1>1, <1>4, <1>7
  <2>5. QED
    BY <1>2, <1>7, <2>2, <2>3, <2>4 DEF Decided, m, n
<1>8. CASE i <= m /\ j <= n
  <2>1. /\ i \in i .. m /\ i \in 0 .. m /\ j \in 0 .. n /\ (i + 1) - 1 = i /\ (j + 1) - 1 = j
        /\ (j - 1) + 1 = j /\ \A h \in (i + 1) .. m : h \in i .. m
    BY <1>1, <1>4, <1>8
  <2>2. CASE pattern[i] = DoubleStar
    <3>1. ASSUME NEW cut \in Cut, Laid(cut, i, j)
          PROVE  \E b \in {j, j + 1} : IF b = j THEN \E new \in Cut : Laid(new, i + 1, j)
                                       ELSE \E new \in Cut : Laid(new, i, j + 1)
      <4>1. cut[i] \in 0 .. n /\ cut[i] >= j - 1
        BY <2>1, <2>2, <3>1 DEF Takes
      <4>2. CASE cut[i] = j - 1
        BY <2>1, <3>1, <4>2
      <4>3. CASE cut[i] # j - 1
        <5>1. cut[i] >= j
          BY <1>1, <1>4, <4>1, <4>3, SMTT(30)
        <5>2. Takes(pattern, name, i, j, cut[i])
          BY <2>2, <5>1 DEF Takes
        <5>3. \E new \in Cut : Laid(new, i, j + 1)
          BY <1>5, <1>8, <2>1, <3>1, <5>2
        <5>4. j + 1 # j
          BY <1>4
        <5> HIDE DEF Cut, Laid
        <5>5. QED
          BY <5>3, <5>4
      <4>4. QED
        BY <4>2, <4>3
    <3>2. ASSUME NEW cut \in Cut, Laid(cut, i + 1, j) PROVE \E new \in Cut : Laid(new, i, j)
      <4>1. cut[i] = j - 1 /\ cut[i] >= j - 1
        BY <1>4, <2>1, <3>2
      <4>2. Takes(pattern, name, i, j - 1, cut[i])
        BY <2>2, <4>1 DEF Takes
      <4>3. cut[m] = n /\ \A h \in (i + 1) .. m : Takes(pattern, name, h, cut[h - 1], cut[h])
        BY <3>2
      <4> HIDE DEF Cut, Laid
      <4>4. \E new \in Cut : Laid(new, i, (j - 1) + 1)
        BY <1>4, <1>5, <1>8, <4>2, <4>3
      <4>5. QED
        BY <2>1, <4>4
    <3>3. ASSUME NEW cut \in Cut, Laid(cut, i, j + 1) PROVE \E new \in Cut : Laid(new, i, j)
      <4>1. cut[i] \in 0 .. n /\ cut[i] >= j
        BY <2>1, <2>2, <3>3 DEF Takes
      <4>2. cut[i] >= j - 1
        <5>1. \A c \in 0 .. n : c >= j => c >= j - 1
          BY <1>1, <1>4
        <5>2. QED
          BY <4>1, <5>1
      <4>3. Takes(pattern, name, i, j - 1, cut[i])
        BY <2>2, <4>2 DEF Takes
      <4>4. cut[m] = n /\ \A h \in (i + 1) .. m : Takes(pattern, name, h, cut[h - 1], cut[h])
        BY <2>1, <3>3
      <4> HIDE DEF Cut, Laid
      <4>5. \E new \in Cut : Laid(new, i, (j - 1) + 1)
        BY <1>4, <1>5, <1>8, <4>3, <4>4
      <4>6. QED
        BY <2>1, <4>5
    <3> HIDE DEF Cut, Laid
    <3>4. ~(i > m) /\ ~(j > n)
      BY <1>1, <1>4, <1>8
    <3>5. Decided(pattern, name, i, j, Rest) <=> Rest[<<i + 1, j>>] \/ Rest[<<i, j + 1>>]
      BY <2>2, <3>4 DEF Decided, m, n
    <3>6. Fits(pattern, name, i, j) => Fits(pattern, name, i + 1, j) \/ Fits(pattern, name, i, j + 1)
      BY <1>2, <3>1
    <3>7. Fits(pattern, name, i + 1, j) \/ Fits(pattern, name, i, j + 1) => Fits(pattern, name, i, j)
      BY <1>2, <3>2, <3>3
    <3>8. QED
      BY <1>8, <3>5, <3>6, <3>7 DEF m, n
  <2>3. CASE pattern[i] # DoubleStar
    <3>1. ASSUME NEW cut \in Cut, Laid(cut, i, j)
          PROVE  MatchGlob(pattern[i], name[j]) /\ \E new \in Cut : Laid(new, i + 1, j + 1)
      <4>1. cut[i] = j /\ MatchGlob(pattern[i], name[j])
        BY <2>1, <2>3, <3>1 DEF Takes
      <4>2. Laid(cut, i + 1, j + 1)
        BY <2>1, <3>1, <4>1
      <4> HIDE DEF Cut, Laid
      <4>3. QED
        BY <4>1, <4>2
    <3>2. ASSUME MatchGlob(pattern[i], name[j]), NEW cut \in Cut, Laid(cut, i + 1, j + 1)
          PROVE  \E new \in Cut : Laid(new, i, j)
      <4>1. cut[i] = j
        BY <2>1, <3>2
      <4>2. Takes(pattern, name, i, j - 1, cut[i])
        BY <2>1, <2>3, <3>2, <4>1 DEF Takes
      <4>3. cut[m] = n /\ \A h \in (i + 1) .. m : Takes(pattern, name, h, cut[h - 1], cut[h])
        BY <3>2
      <4> HIDE DEF Cut, Laid
      <4>4. \E new \in Cut : Laid(new, i, (j - 1) + 1)
        BY <1>4, <1>5, <1>8, <4>2, <4>3
      <4>5. QED
        BY <2>1, <4>4
    <3> HIDE DEF Cut, Laid
    <3>3. ~(i > m) /\ ~(j > n)
      BY <1>1, <1>4, <1>8
    <3>4. Decided(pattern, name, i, j, Rest) <=> MatchGlob(pattern[i], name[j]) /\ Rest[<<i + 1, j + 1>>]
      BY <2>3, <3>3 DEF Decided, m, n
    <3>5. Fits(pattern, name, i, j) <=>
            MatchGlob(pattern[i], name[j]) /\ Fits(pattern, name, i + 1, j + 1)
      BY <1>2, <3>1, <3>2
    <3>6. QED
      BY <1>8, <3>4, <3>5 DEF m, n
  <2>4. QED
    BY <2>2, <2>3
<1>9. i > m \/ (i <= m /\ j > n) \/ (i <= m /\ j <= n)
  BY <1>1, <1>4
<1>10. QED
  BY <1>6, <1>7, <1>8, <1>9

\* match_segments finds a way to lay the pattern over the name if there is one.
LEMMA SegmentsMean ==
  ASSUME NEW pattern \in Pattern, NEW name \in Name, EndsPlainly(pattern)
  PROVE  MatchSegments(pattern, name) <=> Fits(pattern, name, 1, 1)
<1> DEFINE m == Len(pattern)
           n == Len(name)
           D == (1 .. (m + 1)) \X (1 .. (n + 1))
           Fit(i, j) == Fits(pattern, name, i, j)
           Dec(i, j, r) == Decided(pattern, name, i, j, r)
           Good(r) == r = [left \in D |-> Dec(left[1], left[2], r)]
           Rest == CHOOSE r : Good(r)
<1>1. m \in Nat /\ n \in Nat
  BY DEF Pattern, Name
<1>2. MatchSegments(pattern, name) <=> Rest[<<1, 1>>]
  BY Zenon DEF MatchSegments, Decided
<1>3. ASSUME NEW r, NEW i \in 1 .. (m + 1), NEW j \in 1 .. (n + 1),
             i <= m => (r[<<i + 1, j>>] <=> Fit(i + 1, j)),
             j <= n => (r[<<i, j + 1>>] <=> Fit(i, j + 1)),
             i <= m /\ j <= n => (r[<<i + 1, j + 1>>] <=> Fit(i + 1, j + 1))
      PROVE  Fit(i, j) <=> Dec(i, j, r)
  BY <1>3, FitsStepwise
<1> HIDE DEF m, n, Fit, Dec
<1>4. \E r : Good(r)
  <2> DEFINE f == [left \in D |-> Fit(left[1], left[2])]
  <2>1. \A i \in 1 .. (m + 1), j \in 1 .. (n + 1) : f[<<i, j>>] = Fit(i, j)
    OBVIOUS
  <2> HIDE DEF f
  <2>2. ASSUME NEW i \in 1 .. (m + 1), NEW j \in 1 .. (n + 1) PROVE Fit(i, j) <=> Dec(i, j, f)
    <3>1. /\ i <= m => i + 1 \in 1 .. (m + 1)
          /\ j <= n => j + 1 \in 1 .. (n + 1)
      BY <1>1
    <3>2. QED
      BY <1>3, <2>1, <3>1
  <2>3. \A i \in 1 .. (m + 1), j \in 1 .. (n + 1) : Fit(i, j) = Dec(i, j, f)
    <3>1. \A i, j : Fit(i, j) \in BOOLEAN
      BY DEF Fit, Fits
    <3>2. \A i, j : Dec(i, j, f) \in BOOLEAN
      <4>1. ASSUME NEW i, NEW j PROVE Decided(pattern, name, i, j, f) \in BOOLEAN
        <5>1. CASE i > Len(pattern)
          BY <5>1 DEF Decided
        <5>2. CASE ~(i > Len(pattern)) /\ j > Len(name)
          BY <5>2 DEF Decided
        <5>3. CASE ~(i > Len(pattern)) /\ ~(j > Len(name)) /\ pattern[i] = DoubleStar
          BY <5>3 DEF Decided
        <5>4. CASE ~(i > Len(pattern)) /\ ~(j > Len(name)) /\ pattern[i] # DoubleStar
          BY <5>4 DEF Decided
        <5>5. QED
          BY <5>1, <5>2, <5>3, <5>4
      <4>2. QED
        BY <4>1 DEF Dec
    <3>3. QED
      BY <2>2, <3>1, <3>2
  <2>4. f = [left \in D |-> Dec(left[1], left[2], f)]
    BY <2>3 DEF f
  <2>5. QED
    BY <2>4
<1>5. Good(Rest)
  <2> HIDE DEF Good
  <2>1. QED
    BY <1>4
<1> HIDE DEF Rest
<1>6. \A i \in 1 .. (m + 1), j \in 1 .. (n + 1) : Rest[<<i, j>>] <=> Dec(i, j, Rest)
  BY <1>5
<1> DEFINE Left(i, j) == (m + 1 - i) + (n + 1 - j)
           Wrong == {d \in Nat : \E i \in 1 .. (m + 1), j \in 1 .. (n + 1) :
                                    d = Left(i, j) /\ ~(Rest[<<i, j>>] <=> Fit(i, j))}
<1>7. \A i \in 1 .. (m + 1), j \in 1 .. (n + 1) :
        /\ Left(i, j) \in Nat
        /\ i <= m => i + 1 \in 1 .. (m + 1) /\ Left(i + 1, j) < Left(i, j)
        /\ j <= n => j + 1 \in 1 .. (n + 1) /\ Left(i, j + 1) < Left(i, j)
        /\ i <= m /\ j <= n => Left(i + 1, j + 1) < Left(i, j)
  BY <1>1
<1> HIDE DEF Left
<1>8. Wrong = {}
  <2>1. SUFFICES ASSUME Wrong # {} PROVE FALSE
    OBVIOUS
  <2>2. PICK d \in Wrong : \A e \in Wrong : d <= e
    <3>1. Wrong \in SUBSET Nat
      OBVIOUS
    <3> HIDE DEF Wrong
    <3>2. QED
      BY <2>1, <3>1, LeastExists
  <2>3. PICK i \in 1 .. (m + 1), j \in 1 .. (n + 1) :
           d = Left(i, j) /\ ~(Rest[<<i, j>>] <=> Fit(i, j))
    OBVIOUS
  <2>4. ASSUME NEW a \in 1 .. (m + 1), NEW b \in 1 .. (n + 1), Left(a, b) < Left(i, j)
        PROVE  Rest[<<a, b>>] <=> Fit(a, b)
    <3>1. Left(a, b) \notin Wrong /\ Left(a, b) \in Nat
      <4>1. Left(a, b) \in Nat /\ Left(i, j) \in Nat
        BY <1>7
      <4>2. ~(d <= Left(a, b))
        BY <2>3, <2>4, <4>1
      <4> HIDE DEF Wrong
      <4>3. QED
        BY <2>2, <4>1, <4>2
    <3>2. QED
      BY <3>1
  <2>5. /\ i <= m => (Rest[<<i + 1, j>>] <=> Fit(i + 1, j))
        /\ j <= n => (Rest[<<i, j + 1>>] <=> Fit(i, j + 1))
        /\ i <= m /\ j <= n => (Rest[<<i + 1, j + 1>>] <=> Fit(i + 1, j + 1))
    <3> HIDE DEF Wrong
    <3>1. QED
      BY <1>7, <2>4
  <2>6. Fit(i, j) <=> Dec(i, j, Rest)
    <3> HIDE DEF Wrong, D, Good
    <3>1. QED
      BY <1>3, <2>5
  <2>7. Rest[<<i, j>>] <=> Dec(i, j, Rest)
    BY <1>6
  <2>8. QED
    BY <2>3, <2>6, <2>7
<1>9. 1 \in 1 .. (m + 1) /\ 1 \in 1 .. (n + 1)
  BY <1>1
<1>10. Rest[<<1, 1>>] <=> Fit(1, 1)
  <2>1. Left(1, 1) \notin Wrong /\ Left(1, 1) \in Nat
    BY <1>7, <1>8, <1>9
  <2>2. QED
    BY <1>9, <2>1
<1>11. QED
  BY <1>2, <1>10 DEF Fit

\* Laid over the name as match_segments does it, or as documented: the same,
\* but for the overlap within a segment.
LEMMA CoversMeans ==
  ASSUME NEW pattern \in Pattern, NEW name \in Name
  PROVE  /\ Covers(pattern, name) => Fits(pattern, name, 1, 1)
         /\ IsPlain(pattern) /\ Fits(pattern, name, 1, 1) => Covers(pattern, name)
<1> DEFINE m == Len(pattern)
           n == Len(name)
           Documents(i, p, q) == IF pattern[i] = DoubleStar THEN q >= p
                                 ELSE q = p + 1 /\ Globs(pattern[i], name[q])
<1>1. m \in Nat /\ n \in Nat /\ DOMAIN pattern = 1 .. m /\ 1 - 1 = 0
  BY DEF Pattern, Name
<1>2. \A i \in 1 .. m : pattern[i] \in Seq(Seq(Letter)) /\ pattern[i] # <<>>
  BY DEF Pattern
<1>3. \A q \in 1 .. n : name[q] \in Seq(Letter)
  BY DEF Name
<1>4. Covers(pattern, name) <=>
        \E cut \in [0 .. m -> 0 .. n] :
          cut[0] = 0 /\ cut[m] = n /\ \A i \in 1 .. m : Documents(i, cut[i - 1], cut[i])
  BY <1>1 DEF Covers
<1>5. Fits(pattern, name, 1, 1) <=>
        \E cut \in [0 .. m -> 0 .. n] :
          cut[0] = 0 /\ cut[m] = n /\ \A i \in 1 .. m : Takes(pattern, name, i, cut[i - 1], cut[i])
  BY <1>1 DEF Fits
<1> HIDE DEF m, n
<1>6. ASSUME NEW cut \in [0 .. m -> 0 .. n], NEW i \in 1 .. m
      PROVE  /\ Documents(i, cut[i - 1], cut[i]) => Takes(pattern, name, i, cut[i - 1], cut[i])
             /\ IsPlain(pattern) =>
                  (Takes(pattern, name, i, cut[i - 1], cut[i]) => Documents(i, cut[i - 1], cut[i]))
  <2>1. ASSUME cut[i] = cut[i - 1] + 1
        PROVE  /\ Globs(pattern[i], name[cut[i]]) => MatchGlob(pattern[i], name[cut[i]])
               /\ IsPlain(pattern) =>
                    (MatchGlob(pattern[i], name[cut[i]]) => Globs(pattern[i], name[cut[i]]))
    <3>1. i \in 0 .. m /\ i - 1 \in 0 .. m
      BY <1>1
    <3>2. cut[i] \in 0 .. n /\ cut[i - 1] \in 0 .. n
      BY <3>1
    <3>3. cut[i] \in 1 .. n
      BY <1>1, <2>1, <3>2
    <3> DEFINE parts == pattern[i]
               text == name[cut[i]]
    <3>4. text \in Seq(Letter) /\ parts \in Seq(Seq(Letter)) /\ parts # <<>>
      BY <1>2, <1>3, <3>3
    <3>5. IsPlain(pattern) => \/ Last(parts) = <<>>
                              \/ \A j \in 1 .. (Len(parts) - 1) : parts[j] = <<>>
      BY <1>1 DEF IsPlain
    <3> HIDE DEF parts, text
    <3>6. MatchGlob(parts, text) <=> GlobsLoosely(parts, text)
      BY <3>4, GlobMeans
    <3>7. /\ Globs(parts, text) => GlobsLoosely(parts, text)
          /\ IsPlain(pattern) => (GlobsLoosely(parts, text) => Globs(parts, text))
      BY <3>4, <3>5, GlobsAreLoose
    <3>8. QED
      BY <3>6, <3>7 DEF parts, text
  <2>2. QED
    BY <2>1 DEF Takes
<1> HIDE DEF Documents
<1>7. QED
  BY <1>4, <1>5, <1>6

\* The router misses no name that a pattern covers, and takes no other if the
\* pattern is plain: match_segments, match_glob and match_wildcard against the
\* documented meaning of the stars, for patterns and names of any length.
THEOREM RouterMatchesAsDocumented ==
  ASSUME NEW pattern \in Pattern, NEW name \in Name, EndsPlainly(pattern)
  PROVE  /\ Covers(pattern, name) => MatchesPattern(pattern, name)
         /\ IsPlain(pattern) => (MatchesPattern(pattern, name) <=> Covers(pattern, name))
<1>1. ASSUME pattern = <<DoubleStar>> PROVE Fits(pattern, name, 1, 1)
  <2> DEFINE n == Len(name)
             cut == [h \in 0 .. 1 |-> IF h = 0 THEN 0 ELSE n]
  <2>1. n \in Nat /\ Len(pattern) = 1 /\ pattern[1] = DoubleStar /\ 1 - 1 = 0
    BY <1>1 DEF Name
  <2> HIDE DEF n
  <2>2. cut \in [0 .. 1 -> 0 .. n] /\ cut[0] = 0 /\ cut[1] = n /\ n >= 0 /\ \A h \in 1 .. 1 : h = 1
    BY <2>1
  <2> HIDE DEF cut
  <2>3. \A h \in 1 .. 1 : Takes(pattern, name, h, cut[h - 1], cut[h])
    BY <2>1, <2>2 DEF Takes
  <2>4. QED
    BY <2>1, <2>2, <2>3 DEF Fits, n
<1>2. MatchesPattern(pattern, name) <=> Fits(pattern, name, 1, 1)
  BY <1>1, SegmentsMean DEF MatchesPattern
<1>3. QED
  BY <1>2, CoversMeans

-----------------------------------------------------------------------------
(***************************************************************************)
(* Where a task runs.                                                      *)
(***************************************************************************)
\* Only a task the router sends to an executor gets past the dispatcher.
DispatchedIsRouted ==
  /\ pc = "build" => event \in Routed
  /\ \A t \in Tasks : runs[t] > 0 => t \in Routed

LEMMA DispatchedStep == Base /\ DispatchedIsRouted /\ [Next]_vars => DispatchedIsRouted'
<1> SUFFICES ASSUME Base, DispatchedIsRouted, [Next]_vars PROVE DispatchedIsRouted'
  OBVIOUS
<1> USE DEF DispatchedIsRouted
<1>1. CASE Dispatch
  BY <1>1 DEF Dispatch
<1>2. CASE BuildContext \/ BuildFails
  <2>1. event \in Routed /\ runs' = [runs EXCEPT ![event] = @ + 1] /\ pc' # "build"
    BY <1>2 DEF BuildContext, BuildFails
  <2>2. QED
    BY <2>1 DEF Base, TypeOK
<1>3. CASE \/ \E p \in Pipelines : Submit(p) \/ Cancel(p)
           \/ UNCHANGED vars
  <2>1. pc' = pc /\ event' = event /\ runs' = runs
    BY <1>3 DEF Submit, Cancel
  <2>2. QED
    BY <2>1
<1>4. CASE \/ Poll \/ LoadPending \/ EndPass
           \/ \E p \in Pipelines : PickPipeline(p)
           \/ \E t \in Tasks : CheckDependencies(t)
           \/ EvaluateRules \/ MakeReady \/ Skip \/ NothingRemains
  <2>1. runs' = runs /\ pc' # "build"
    BY <1>4 DEF Poll, LoadPending, EndPass, PickPipeline, CheckDependencies, EvaluateRules,
                MakeReady, Skip, NothingRemains, LeavePipeline, Release
  <2>2. QED
    BY <2>1
<1>5. CASE \/ TaskMissing \/ BodySucceeds \/ \E retryable \in BOOLEAN : BodyFails(retryable)
           \/ SaveContext \/ MarkTaskCompleted \/ RetryTask \/ HandleResult
           \/ CheckCompletion \/ UpdatePipelineContext \/ CompletePipeline
  <2>1. runs' = runs /\ pc' # "build"
    BY <1>5 DEF TaskMissing, BodySucceeds, BodyFails, SaveContext, MarkTaskCompleted, RetryTask,
                HandleResult, CheckCompletion, UpdatePipelineContext, CompletePipeline,
                LeavePipeline, Release
  <2>2. QED
    BY <2>1
<1>6. CASE \/ ReadinessFails \/ CompletionFails \/ ReportFails \/ FinalContextFails \/ PassFails
           \/ Stop \/ Start
  <2>1. runs' = runs /\ pc' # "build"
    BY <1>6 DEF ReadinessFails, CompletionFails, ReportFails, FinalContextFails, PassFails,
                Stop, Start, LeavePipeline, Release
  <2>2. QED
    BY <2>1
<1>7. QED
  BY <1>1, <1>2, <1>3, <1>4, <1>5, <1>6 DEF Next, Loop, Failure

\* Under plain rules the router resolves as documented.
LEMMA RoutedIsRoutedHere ==
  ASSUME \A i \in DOMAIN Routing.rules : IsPlain(Routing.rules[i].task_pattern)
  PROVE  Routed = RoutedHere
<1>1. ASSUME NEW t \in Tasks, NEW i \in DOMAIN Routing.rules
      PROVE  MatchesPattern(Routing.rules[i].task_pattern, NameOf[t]) <=>
               Covers(Routing.rules[i].task_pattern, NameOf[t])
  <2> DEFINE pattern == Routing.rules[i].task_pattern
             name    == NameOf[t]
  <2>1. pattern \in Pattern /\ name \in Name /\ IsPlain(pattern)
    BY RoutingAssumption
  <2> HIDE DEF pattern, name
  <2>2. EndsPlainly(pattern)
    BY <2>1 DEF EndsPlainly, IsPlain, Last
  <2>3. MatchesPattern(pattern, name) <=> Covers(pattern, name)
    BY <2>1, <2>2, RouterMatchesAsDocumented
  <2>4. QED
    BY <2>3 DEF pattern, name
<1>2. ASSUME NEW t \in Tasks PROVE Resolve(Routing, NameOf[t]) = Documented(Routing, NameOf[t])
  BY <1>1 DEF Resolve, Documented
<1>3. QED
  BY <1>2 DEF Routed, RoutedHere

\* dispatch hands no task to an executor that the documented reading of the
\* rules does not send it to.
THEOREM RunsWhereDocumented ==
  ASSUME \A i \in DOMAIN Routing.rules : IsPlain(Routing.rules[i].task_pattern)
  PROVE  Spec => []RoutedAsDocumented
<1>1. Init => DispatchedIsRouted
  BY DEF Init, LoopInit, DispatchedIsRouted
<1>2. Base /\ DispatchedIsRouted /\ [Next]_vars => DispatchedIsRouted'
  BY DispatchedStep
<1>3. IInv => Base
  BY DEF IInv
<1>4. DispatchedIsRouted => RoutedAsDocumented
  BY RoutedIsRoutedHere DEF DispatchedIsRouted, RoutedAsDocumented
<1>5. QED
  BY <1>1, <1>2, <1>3, <1>4, Invariance, PTL DEF Spec
=============================================================================
