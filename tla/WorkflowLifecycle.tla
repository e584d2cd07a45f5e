------------------------- MODULE WorkflowLifecycle -------------------------
(***************************************************************************)
(* What the engine promises of a workflow, whoever executes it and with    *)
(* however many calls: the phases a task and a pipeline go through.  A     *)
(* task leaves Waiting only when all of its dependencies are over, a phase *)
(* that is over is never left, and a pipeline is completed only when every *)
(* task is over.  A client may cancel a pipeline at any time, and this     *)
(* specification does not promise that the cancellation is kept.           *)
(***************************************************************************)
CONSTANTS Pipelines, Tasks, PipelineOf, Deps

VARIABLES
  stage,   \* of a pipeline
  phase    \* of a task

lifecycleVars == <<stage, phase>>

Over == {"Completed", "Failed", "Skipped"}

DepsOver(t) == \A d \in Deps[t] : phase[d] \in Over

LifecycleInit ==
  /\ stage = [p \in Pipelines |-> "Absent"]
  /\ phase = [t \in Tasks |-> "Absent"]

Accept(p) ==
  /\ stage[p] = "Absent"
  /\ stage' = [stage EXCEPT ![p] = "Pending"]
  /\ phase' = [t \in Tasks |-> IF PipelineOf[t] = p THEN "Waiting" ELSE phase[t]]

Open(t) ==
  /\ phase[t] = "Waiting"
  /\ DepsOver(t)
  /\ phase' = [phase EXCEPT ![t] = "Open"]
  /\ UNCHANGED stage

PassOver(t) ==
  /\ phase[t] = "Waiting"
  /\ DepsOver(t)
  /\ phase' = [phase EXCEPT ![t] = "Skipped"]
  /\ UNCHANGED stage

Conclude(t) ==
  /\ phase[t] = "Open"
  /\ \E s \in {"Completed", "Failed"} : phase' = [phase EXCEPT ![t] = s]
  /\ UNCHANGED stage

Complete(p) ==
  /\ stage[p] # "Absent"
  /\ \A t \in Tasks : PipelineOf[t] = p => phase[t] \in Over
  /\ stage' = [stage EXCEPT ![p] = "Completed"]
  /\ UNCHANGED phase

CancelStage(p) ==
  /\ stage[p] # "Absent"
  /\ stage' = [stage EXCEPT ![p] = "Cancelled"]
  /\ UNCHANGED phase

LifecycleNext ==
  \/ \E p \in Pipelines : Accept(p) \/ Complete(p) \/ CancelStage(p)
  \/ \E t \in Tasks : Open(t) \/ PassOver(t) \/ Conclude(t)

LifecycleSpec == LifecycleInit /\ [][LifecycleNext]_lifecycleVars
=============================================================================
