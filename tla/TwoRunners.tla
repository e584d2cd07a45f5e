----------------------------- MODULE TwoRunners -----------------------------
(***************************************************************************)
(* Two runners on one database, as two processes started with the same     *)
(* URL: each has a scheduler loop of its own, both work on the same rows,  *)
(* and nothing in a row says whose it is.                                  *)
(***************************************************************************)
EXTENDS WorkflowStore

CONSTANTS Letter, Rule, MaxAttempts, NameOf, Routing, Executors, MaxFaults, MaxStops, None

VARIABLES
  pc1, active1, stale1, seen1, cur1, event1, input1, outcome1,
  pc2, active2, stale2, seen2, cur2, event2, input2, outcome2,
  runs, faults, stops   \* histories and bounds, shared

runner1 == <<pc1, active1, stale1, seen1, cur1, event1, input1, outcome1>>
runner2 == <<pc2, active2, stale2, seen2, cur2, event2, input2, outcome2>>
runnersVars == <<storeVars, runner1, runner2, runs, faults, stops>>

R1 == INSTANCE TaskScheduler
        WITH pc <- pc1, active <- active1, stale <- stale1, seen <- seen1,
             cur <- cur1, event <- event1, input <- input1, outcome <- outcome1
R2 == INSTANCE TaskScheduler
        WITH pc <- pc2, active <- active2, stale <- stale2, seen <- seen2,
             cur <- cur2, event <- event2, input <- input2, outcome <- outcome2

RunnersInit == R1!Init /\ R2!Init

RunnersNext ==
  \/ R1!Next /\ UNCHANGED runner2
  \/ R2!Next /\ UNCHANGED runner1

RunnersSpec == RunnersInit /\ [][RunnersNext]_runnersVars

\* "This prevents multiple executors from claiming the same task even in
\* distributed scenarios": no two runners execute the body of one task.
OneExecutorPerTask == ~(pc1 = "run" /\ pc2 = "run" /\ event1 = event2)
=============================================================================
