--------------------------- MODULE CronScheduling ---------------------------
(***************************************************************************)
(* Cron schedules: the polling loop that claims due schedules, records     *)
(* each slot it is about to run and hands it to the pipeline executor, and *)
(* the recovery service that launches again what was recorded and never    *)
(* linked to a pipeline.  Any number of runners share the database; each   *)
(* has one loop and one service, which are tasks of the same process.      *)
(*                                                                         *)
(* Time is discrete: a step of the clock stands for the time between two   *)
(* moments at which something may be due.  A slot is a firing time of a    *)
(* schedule's expression.                                                  *)
(***************************************************************************)
EXTENDS Naturals, FiniteSets, FiniteSetsExt

CONSTANTS
  Runners,
  Recovering,   \* runners started with the recovery service (cron_enable_recovery)
  Schedules,
  Policy,       \* catchup_policy of a schedule
  Expressions,
  Fires,        \* the firing times of an expression in its time zone
  MaxCatchup,   \* max_catchup_executions
  LostAfter,    \* lost_threshold_minutes
  MaxAge,       \* max_recovery_age
  MaxTries,     \* max_recovery_attempts
  MaxTime,      \* bound: the clock
  MaxEdits,     \* bound: schedules enabled, disabled and deleted
  MaxUpdates,   \* bound: changes of a schedule's expression
  MaxFaults,    \* bound: database calls that fail
  MaxStops,     \* bound: runners that stop and start again
  None

Time  == 1 .. MaxTime
Entry == Schedules \X Time   \* a slot of a schedule, and the record of its execution
Row   == [enabled : BOOLEAN, expr : Expressions, created : Time,
          last : {0} \cup Time,         \* last_run_at, 0 when null
          next : 1 .. MaxTime + 1]      \* next_run_at, MaxTime + 1 when beyond the bound

\* What the service is configured with.
CronRecoveryConfig == {LostAfter, MaxAge, MaxTries}

ASSUME CronAssumption ==
  /\ Recovering \subseteq Runners /\ IsFiniteSet(Recovering)
  /\ Policy \in [Schedules -> {"Skip", "RunAll"}]
  /\ Fires \in [Expressions -> SUBSET Time]
  /\ MaxTime \in Nat \ {0}
  /\ {MaxCatchup} \cup CronRecoveryConfig \subseteq Nat
  /\ {MaxEdits, MaxUpdates, MaxFaults, MaxStops} \subseteq Nat
  /\ None \notin Row \cup Entry \cup Schedules
  /\ None \notin [sched : Schedules, expr : Expressions, next : 1 .. MaxTime + 1]

VARIABLES
  now,
  row,        \* cron_schedules, None when there is no such row
  deleted,    \* the ids a client has deleted; an id is never used again
  claimedAt,  \* cron_executions.claimed_at, 0 when there is no record
  linked,     \* the records with a pipeline_execution_id
  pc,         \* where the loop of a runner stands
  at,         \* the time it took at the start of this poll
  due,        \* the rows it read and has not processed, None when not among them
  work,       \* the schedule it has claimed
  times,      \* the slots of that schedule it has not finished with
  rpc,        \* where the recovery service stands
  lost,       \* the records it read and has not looked at
  hand,       \* the record it is recovering
  tries,      \* recovery_attempts
  edit,       \* a change of expression a client has computed and not written
  polled,     \* history: how often a loop launched a slot
  recovered,  \* history: how often a service launched it
  promised,   \* history: the slots some claim was made for
  claims,     \* history: the schedules and times of claims
  edits, updates, faults, stops

dbVars       == <<row, deleted, claimedAt, linked>>
loopVars     == <<pc, at, due, work, times>>
recoveryVars == <<rpc, lost, hand, tries>>
clientVars   == <<edit, edits, updates>>
history      == <<polled, recovered, promised, claims>>
vars == <<now, dbVars, loopVars, recoveryVars, clientVars, history, faults, stops>>

LoopStep     == {"idle", "query", "process", "record", "launch", "wait", "link"}
RecoveryStep == {"idle", "next", "launch", "wait", "link"}

\* The tables.
CronSchedules ==
  /\ row \in [Schedules -> Row \cup {None}]
  /\ deleted \in SUBSET Schedules

CronExecutions ==
  /\ claimedAt \in [Entry -> {0} \cup Time]
  /\ linked \in SUBSET Entry

TypeOK ==
  /\ now \in Time
  /\ CronSchedules /\ CronExecutions
  /\ pc \in [Runners -> LoopStep]
  /\ at \in [Runners -> {0} \cup Time]
  /\ due \in [Runners -> [Schedules -> Row \cup {None}]]
  /\ work \in [Runners -> Schedules \cup {None}]
  /\ times \in [Runners -> SUBSET Time]
  /\ rpc \in [Runners -> RecoveryStep]
  /\ lost \in [Runners -> SUBSET Entry]
  /\ hand \in [Runners -> Entry \cup {None}]
  /\ tries \in [Runners -> [Entry -> Nat]]
  /\ edit \in {None} \cup [sched : Schedules, expr : Expressions, next : 1 .. MaxTime + 1]
  /\ polled \in [Entry -> Nat]
  /\ recovered \in [Entry -> Nat]
  /\ promised \in SUBSET Entry
  /\ claims \in SUBSET Entry
  /\ {edits, updates, faults, stops} \subseteq Nat

NothingDue == [s \in Schedules |-> None]
NoTries    == [x \in Entry |-> 0]

EmptyTables ==
  /\ row = [s \in Schedules |-> None]
  /\ deleted = {}
  /\ claimedAt = [x \in Entry |-> 0]
  /\ linked = {}

NewScheduler ==
  /\ pc = [r \in Runners |-> "idle"]
  /\ at = [r \in Runners |-> 0]
  /\ due = [r \in Runners |-> NothingDue]
  /\ work = [r \in Runners |-> None]
  /\ times = [r \in Runners |-> {}]

NewRecoveryService ==
  /\ rpc = [r \in Runners |-> "idle"]
  /\ lost = [r \in Runners |-> {}]
  /\ hand = [r \in Runners |-> None]
  /\ tries = [r \in Runners |-> NoTries]

Init ==
  /\ now = 1
  /\ EmptyTables /\ NewScheduler /\ NewRecoveryService
  /\ edit = None
  /\ polled = [x \in Entry |-> 0]
  /\ recovered = [x \in Entry |-> 0]
  /\ promised = {}
  /\ claims = {}
  /\ edits = 0 /\ updates = 0 /\ faults = 0 /\ stops = 0

-----------------------------------------------------------------------------
(***************************************************************************)
(* The evaluator of cron expressions.                                      *)
(***************************************************************************)

\* The first firing time after t, t excluded.
NextExecution(e, t) == Min({k \in Fires[e] : k > t} \cup {MaxTime + 1})

\* Both ends excluded, whatever its comment says of the start; the loop stops
\* after max_executions of them.
ExecutionsBetween(e, start, end) ==
  LET between == {k \in Fires[e] : start < k /\ k < end}
  IN  {k \in between : Cardinality({l \in between : l < k}) < MaxCatchup}

\* Mutant of ExecutionTimes: the next run is taken for the start.
SinceNextRun(s, x, t) ==
  IF Policy[s] = "Skip" THEN {x.next} ELSE ExecutionsBetween(x.expr, x.next, t)

\* calculate_execution_times, of the row as the loop read it.
ExecutionTimes(s, x, t) ==
  IF Policy[s] = "Skip" THEN {x.next}
  ELSE ExecutionsBetween(x.expr, IF x.last = 0 THEN x.created ELSE x.last, t)

-----------------------------------------------------------------------------
(***************************************************************************)
(* Clients and the clock.                                                  *)
(***************************************************************************)
Tick ==
  /\ now < MaxTime
  /\ now' = now + 1
  /\ UNCHANGED <<dbVars, loopVars, recoveryVars, clientVars, history, faults, stops>>

Client == UNCHANGED <<now, loopVars, recoveryVars, history, faults, stops>>

Register(s, e) ==
  /\ row[s] = None /\ s \notin deleted
  /\ row' = [row EXCEPT ![s] = [enabled |-> TRUE, expr |-> e, created |-> now,
                                last |-> 0, next |-> NextExecution(e, now)]]
  /\ UNCHANGED <<deleted, claimedAt, linked, clientVars>>
  /\ Client

\* next_run_at stays as it is, also when a schedule is enabled again.
SetEnabled(s, b) ==
  /\ row[s] # None /\ row[s].enabled # b
  /\ edits < MaxEdits
  /\ edits' = edits + 1
  /\ row' = [row EXCEPT ![s].enabled = b]
  /\ UNCHANGED <<deleted, claimedAt, linked, edit, updates>>
  /\ Client

\* The records of the schedule's executions go with it (ON DELETE CASCADE).
Delete(s) ==
  /\ row[s] # None
  /\ edits < MaxEdits
  /\ edits' = edits + 1
  /\ row' = [row EXCEPT ![s] = None]
  /\ deleted' = deleted \cup {s}
  /\ claimedAt' = [x \in Entry |-> IF x[1] = s THEN 0 ELSE claimedAt[x]]
  /\ linked' = {x \in linked : x[1] # s}
  /\ UNCHANGED <<edit, updates>>
  /\ Client

\* update_cron_schedule reads the row and computes the next run ...
PrepareUpdate(s, e) ==
  /\ edit = None
  /\ row[s] # None
  /\ updates < MaxUpdates
  /\ updates' = updates + 1
  /\ edit' = [sched |-> s, expr |-> e, next |-> NextExecution(e, now)]
  /\ UNCHANGED <<dbVars, edits>>
  /\ Client

\* ... and writes it later, over whatever a claim has written meanwhile.
WriteUpdate ==
  /\ edit # None
  /\ row' = IF row[edit.sched] = None THEN row
            ELSE [row EXCEPT ![edit.sched].expr = edit.expr, ![edit.sched].next = edit.next]
  /\ edit' = None
  /\ UNCHANGED <<deleted, claimedAt, linked, edits, updates>>
  /\ Client

-----------------------------------------------------------------------------
(***************************************************************************)
(* The polling loop of runner r.                                           *)
(***************************************************************************)
Loop == UNCHANGED <<now, deleted, recoveryVars, clientVars, stops>>

Goto(r, step) == pc' = [pc EXCEPT ![r] = step]

Wake(r) ==
  /\ pc[r] = "idle"
  /\ at' = [at EXCEPT ![r] = now]
  /\ Goto(r, "query")
  /\ UNCHANGED <<row, claimedAt, linked, due, work, times, history, faults>>
  /\ Loop

\* x is a row, as it is now or as the loop read it.
IsDue(x, t) == x # None /\ x.enabled /\ x.next <= t

\* Mutant of DueRows: a schedule is due at its time only, not after it.
DueExactly(t) ==
  [s \in Schedules |-> IF IsDue(row[s], t) /\ row[s].next = t THEN row[s] ELSE None]

\* get_due_schedules.
DueRows(t) == [s \in Schedules |-> IF IsDue(row[s], t) THEN row[s] ELSE None]

Query(r) ==
  /\ pc[r] = "query"
  /\ due' = [due EXCEPT ![r] = DueRows(at[r])]
  /\ Goto(r, "process")
  /\ UNCHANGED <<row, claimedAt, linked, at, work, times, history, faults>>
  /\ Loop

\* The rows are processed in the order of their next run.
IsFirst(r, s) ==
  /\ due[r][s] # None
  /\ \A u \in Schedules : due[r][u] # None => due[r][s].next <= due[r][u].next

\* What claim_and_update does to the database, when its filter accepts the row.
ClaimRow(r, s) ==
  /\ row' = [row EXCEPT ![s].last = at[r],
                        ![s].next = NextExecution(due[r][s].expr, at[r])]
  /\ promised' = promised \cup {<<s, k>> : k \in ExecutionTimes(s, due[r][s], at[r])}
  /\ claims' = claims \cup {<<s, at[r]>>}

\* process_schedule gets as far as the claim and the filter accepts the row.
Claimable(r, s) == ExecutionTimes(s, due[r][s], at[r]) # {} /\ IsDue(row[s], at[r])

Claim(r, s) ==
  /\ pc[r] = "process" /\ IsFirst(r, s)
  /\ Claimable(r, s)
  /\ ClaimRow(r, s)
  /\ work' = [work EXCEPT ![r] = s]
  /\ times' = [times EXCEPT ![r] = ExecutionTimes(s, due[r][s], at[r])]
  /\ due' = [due EXCEPT ![r][s] = None]
  /\ Goto(r, "record")
  /\ UNCHANGED <<claimedAt, linked, at, polled, recovered, faults>>
  /\ Loop

\* Nothing to execute, or another instance was first.
PassOver(r, s) ==
  /\ pc[r] = "process" /\ IsFirst(r, s)
  /\ ~Claimable(r, s)
  /\ due' = [due EXCEPT ![r][s] = None]
  /\ UNCHANGED <<pc, row, claimedAt, linked, at, work, times, history, faults>>
  /\ Loop

EndPoll(r) ==
  /\ pc[r] = "process" /\ due[r] = NothingDue
  /\ at' = [at EXCEPT ![r] = 0]
  /\ Goto(r, "idle")
  /\ UNCHANGED <<row, claimedAt, linked, due, work, times, history, faults>>
  /\ Loop

\* The slot the loop is at; the slots are taken in order of time.
Current(r) == <<work[r], Min(times[r])>>

\* Mutant of NextSlot: the first slot that is not launched ends the schedule.
DropSlots(r) ==
  /\ times' = [times EXCEPT ![r] = {}]
  /\ Goto(r, "record")

NextSlot(r) ==
  /\ times' = [times EXCEPT ![r] = @ \ {Min(@)}]
  /\ Goto(r, "record")

EndSlots(r) ==
  /\ pc[r] = "record" /\ times[r] = {}
  /\ work' = [work EXCEPT ![r] = None]
  /\ Goto(r, "process")
  /\ UNCHANGED <<row, claimedAt, linked, at, due, times, history, faults>>
  /\ Loop

\* Mutant of MayRecord: no UNIQUE(schedule_id, scheduled_time).
ScheduleExists(x) == row[x[1]] # None

\* The constraints of cron_executions: the foreign key, and the slot is unique.
MayRecord(x) == row[x[1]] # None /\ claimedAt[x] = 0

InsertRecord(x) == claimedAt' = [claimedAt EXCEPT ![x] = now]

\* create_execution_audit inserts the record and reads it back.
Record(r) ==
  /\ pc[r] = "record" /\ times[r] # {}
  /\ IF MayRecord(Current(r))
       THEN InsertRecord(Current(r)) /\ Goto(r, "launch") /\ UNCHANGED times
       ELSE NextSlot(r) /\ UNCHANGED claimedAt
  /\ UNCHANGED <<row, linked, at, due, work, history, faults>>
  /\ Loop

\* execute creates the pipeline and then waits for its end.
Launch(r) ==
  /\ pc[r] = "launch"
  /\ polled' = [polled EXCEPT ![Current(r)] = @ + 1]
  /\ Goto(r, "wait")
  /\ UNCHANGED <<row, claimedAt, linked, at, due, work, times, recovered, promised, claims, faults>>
  /\ Loop

\* No pipeline was created, or it did not end before the timeout: the record
\* is left to the recovery service.
GiveUp(r) ==
  /\ pc[r] \in {"launch", "wait"}
  /\ NextSlot(r)
  /\ UNCHANGED <<row, claimedAt, linked, at, due, work, history, faults>>
  /\ Loop

PipelineEnds(r) ==
  /\ pc[r] = "wait"
  /\ Goto(r, "link")
  /\ UNCHANGED <<row, claimedAt, linked, at, due, work, times, history, faults>>
  /\ Loop

\* update_pipeline_execution_id, without effect if the record is gone.
LinkRecord(x) == linked' = IF claimedAt[x] = 0 THEN linked ELSE linked \cup {x}

Link(r) ==
  /\ pc[r] = "link"
  /\ LinkRecord(Current(r))
  /\ NextSlot(r)
  /\ UNCHANGED <<row, claimedAt, at, due, work, history, faults>>
  /\ Loop

-----------------------------------------------------------------------------
(***************************************************************************)
(* The recovery service of runner r.  It holds its lock from the count of  *)
(* attempts to the end of the launched pipeline.                           *)
(***************************************************************************)
Service(r) ==
  /\ r \in Recovering
  /\ UNCHANGED <<now, row, deleted, claimedAt, loopVars, clientVars, promised, claims, polled, stops>>

RGoto(r, step) == rpc' = [rpc EXCEPT ![r] = step]

\* Mutant of LostRecords: the comparison with the cutoff is turned round.
RecentRecords == {x \in Entry \ linked : claimedAt[x] # 0 /\ claimedAt[x] + LostAfter > now}

\* find_lost_executions.
LostRecords == {x \in Entry \ linked : claimedAt[x] # 0 /\ claimedAt[x] + LostAfter < now}

FindLost(r) ==
  /\ rpc[r] = "idle"
  /\ LostRecords # {}
  /\ lost' = [lost EXCEPT ![r] = LostRecords]
  /\ RGoto(r, "next")
  /\ UNCHANGED <<linked, hand, tries, recovered, faults>>
  /\ Service(r)

IsActive(s) == row[s] # None /\ row[s].enabled

TooOld(x) == now > x[2] + MaxAge

\* Mutant of Count: the entry of the map is read and not written.
CountNothing(r, x) == UNCHANGED tries

\* The count is compared with its limit only: it is not followed beyond it.
Count(r, x) == tries' = [tries EXCEPT ![r][x] = @ + 1]

\* recover_execution for a record it abandons, or whose schedule is deleted
\* or disabled.
LeaveRecord(r, x) ==
  /\ rpc[r] = "next" /\ x \in lost[r]
  /\ \/ (TooOld(x) \/ tries[r][x] >= MaxTries) /\ UNCHANGED tries
     \/ ~TooOld(x) /\ tries[r][x] < MaxTries /\ ~IsActive(x[1]) /\ Count(r, x)
  /\ lost' = [lost EXCEPT ![r] = @ \ {x}]
  /\ UNCHANGED <<linked, rpc, hand, recovered, faults>>
  /\ Service(r)

TakeUp(r, x) ==
  /\ rpc[r] = "next" /\ x \in lost[r]
  /\ ~TooOld(x) /\ tries[r][x] < MaxTries
  /\ IsActive(x[1])
  /\ Count(r, x)
  /\ lost' = [lost EXCEPT ![r] = @ \ {x}]
  /\ hand' = [hand EXCEPT ![r] = x]
  /\ RGoto(r, "launch")
  /\ UNCHANGED <<linked, recovered, faults>>
  /\ Service(r)

EndRecovery(r) ==
  /\ rpc[r] = "next" /\ lost[r] = {}
  /\ RGoto(r, "idle")
  /\ UNCHANGED <<linked, lost, hand, tries, recovered, faults>>
  /\ Service(r)

Relaunch(r) ==
  /\ rpc[r] = "launch"
  /\ recovered' = [recovered EXCEPT ![hand[r]] = @ + 1]
  /\ RGoto(r, "wait")
  /\ UNCHANGED <<linked, lost, hand, tries, faults>>
  /\ Service(r)

NextLost(r) == hand' = [hand EXCEPT ![r] = None] /\ RGoto(r, "next")

GiveUpRecovery(r) ==
  /\ rpc[r] \in {"launch", "wait"}
  /\ NextLost(r)
  /\ UNCHANGED <<linked, lost, tries, recovered, faults>>
  /\ Service(r)

RecoveredEnds(r) ==
  /\ rpc[r] = "wait"
  /\ RGoto(r, "link")
  /\ UNCHANGED <<linked, lost, hand, tries, recovered, faults>>
  /\ Service(r)

Forget(r) == tries' = [tries EXCEPT ![r][hand[r]] = 0]

LinkRecovered(r) ==
  /\ rpc[r] = "link"
  /\ LinkRecord(hand[r])
  /\ Forget(r)
  /\ NextLost(r)
  /\ UNCHANGED <<lost, recovered, faults>>
  /\ Service(r)

-----------------------------------------------------------------------------
(***************************************************************************)
(* A database call fails, with or without effect; a runner stops and       *)
(* another process takes its place, with nothing of its memory.            *)
(***************************************************************************)
Fault == faults < MaxFaults /\ faults' = faults + 1

\* The error of get_due_schedules ends the poll.
QueryFails(r) ==
  /\ pc[r] = "query" /\ Fault
  /\ at' = [at EXCEPT ![r] = 0]
  /\ Goto(r, "idle")
  /\ UNCHANGED <<row, claimedAt, linked, due, work, times, history>>
  /\ Loop

\* The error of claim_and_update ends the processing of the schedule.
ClaimFails(r, s) ==
  /\ pc[r] = "process" /\ IsFirst(r, s) /\ Fault
  /\ \/ UNCHANGED <<row, promised, claims>>
     \/ Claimable(r, s) /\ ClaimRow(r, s)
  /\ due' = [due EXCEPT ![r][s] = None]
  /\ UNCHANGED <<pc, claimedAt, linked, at, work, times, polled, recovered>>
  /\ Loop

\* "Continue with other execution times - this one is lost."
RecordFails(r) ==
  /\ pc[r] = "record" /\ times[r] # {} /\ Fault
  /\ \/ UNCHANGED claimedAt
     \/ MayRecord(Current(r)) /\ InsertRecord(Current(r))
  /\ NextSlot(r)
  /\ UNCHANGED <<row, linked, at, due, work, history>>
  /\ Loop

LinkFails(r) ==
  /\ pc[r] = "link" /\ Fault
  /\ LinkRecord(Current(r)) \/ UNCHANGED linked
  /\ NextSlot(r)
  /\ UNCHANGED <<row, claimedAt, at, due, work, history>>
  /\ Loop

\* get_by_id fails, which is taken for a schedule that does not exist.
LookUpFails(r, x) ==
  /\ rpc[r] = "next" /\ x \in lost[r] /\ Fault
  /\ ~TooOld(x) /\ tries[r][x] < MaxTries
  /\ Count(r, x)
  /\ lost' = [lost EXCEPT ![r] = @ \ {x}]
  /\ UNCHANGED <<linked, rpc, hand, recovered>>
  /\ Service(r)

\* The launch counts as a success, and its attempts are forgotten.
LinkRecoveredFails(r) ==
  /\ rpc[r] = "link" /\ Fault
  /\ LinkRecord(hand[r]) \/ UNCHANGED linked
  /\ Forget(r)
  /\ NextLost(r)
  /\ UNCHANGED <<lost, recovered>>
  /\ Service(r)

Restart(r) ==
  /\ stops < MaxStops
  /\ stops' = stops + 1
  /\ pc' = [pc EXCEPT ![r] = "idle"]
  /\ at' = [at EXCEPT ![r] = 0]
  /\ due' = [due EXCEPT ![r] = NothingDue]
  /\ work' = [work EXCEPT ![r] = None]
  /\ times' = [times EXCEPT ![r] = {}]
  /\ rpc' = [rpc EXCEPT ![r] = "idle"]
  /\ lost' = [lost EXCEPT ![r] = {}]
  /\ hand' = [hand EXCEPT ![r] = None]
  /\ tries' = [tries EXCEPT ![r] = NoTries]
  /\ UNCHANGED <<now, dbVars, clientVars, history, faults>>

-----------------------------------------------------------------------------
LoopNext(r) ==
  \/ Wake(r) \/ Query(r) \/ EndPoll(r)
  \/ \E s \in Schedules : Claim(r, s) \/ PassOver(r, s)
  \/ Record(r) \/ EndSlots(r)
  \/ Launch(r) \/ PipelineEnds(r) \/ GiveUp(r) \/ Link(r)

RecoveryNext(r) ==
  \/ FindLost(r) \/ EndRecovery(r)
  \/ \E x \in Entry : TakeUp(r, x) \/ LeaveRecord(r, x)
  \/ Relaunch(r) \/ RecoveredEnds(r) \/ GiveUpRecovery(r) \/ LinkRecovered(r)

Failure(r) ==
  \/ QueryFails(r) \/ RecordFails(r) \/ LinkFails(r) \/ LinkRecoveredFails(r)
  \/ \E s \in Schedules : ClaimFails(r, s)
  \/ \E x \in Entry : LookUpFails(r, x)

Clients ==
  \/ \E s \in Schedules : Delete(s) \/ \E b \in BOOLEAN : SetEnabled(s, b)
  \/ \E s \in Schedules, e \in Expressions : Register(s, e) \/ PrepareUpdate(s, e)
  \/ WriteUpdate

Next ==
  \/ Tick
  \/ Clients
  \/ \E r \in Runners : LoopNext(r) \/ RecoveryNext(r) \/ Failure(r) \/ Restart(r)

Spec == Init /\ [][Next]_vars

\* Both intervals tick for ever, and the pipeline timeout bounds every wait.
Fairness ==
  /\ WF_vars(Tick)
  /\ \A r \in Runners : WF_vars(LoopNext(r)) /\ WF_vars(RecoveryNext(r))

FairSpec == Spec /\ Fairness
-----------------------------------------------------------------------------
(***************************************************************************)
(* Properties.                                                             *)
(***************************************************************************)

\* A loop holds the slot and may still record it.
Held(x) == \E r \in Runners : work[r] = x[1] /\ x[2] \in times[r]

\* The loops launch a slot once, though several of them work on copies of the
\* row that are out of date, a client's update may set the row back, and
\* runners stop: what one loop has launched another finds recorded.
PolledOnce == \A x \in Entry : polled[x] <= 1

\* As long as no client changes its expression, a schedule is claimed for later
\* and later times, though each claim writes what was computed from a copy.
ClaimsAdvance ==
  [][\A s \in Schedules :
       updates = 0 /\ row[s] # None /\ row'[s] # None /\ row'[s].last # row[s].last =>
         row[s].last < row'[s].last /\ row'[s].last < row'[s].next]_vars

\* A slot that a claim was made for is recorded or will be by the loop that made
\* the claim, unless a call fails or a runner stops: no interleaving of the
\* loops and the clients loses one.
ClaimedSlotIsKept ==
  faults = 0 /\ stops = 0 =>
    \A x \in promised : claimedAt[x] # 0 \/ x[1] \in deleted \/ Held(x)

\* The slots a schedule has left behind: after its creation, before its last run.
Passed(s) ==
  {k \in Fires[row[s].expr] : row[s].created < k /\ k < row[s].last}

\* With "RunAll" and no limit, some claim was made for every slot a schedule has
\* left behind with the expression it was created with.  A slot that falls on the
\* very time of a claim is the one exception: executions_between excludes both
\* ends of its range, though its comment calls the start inclusive.
CatchUpIsComplete ==
  updates = 0 =>
    \A s \in Schedules : row[s] # None /\ Policy[s] = "RunAll" =>
      {<<s, k>> : k \in Passed(s)} \subseteq promised \cup claims

\* The service launches a slot at most max_recovery_attempts times in the life
\* of a runner, and again for each time it could not link what it launched.
RecoveryIsBounded ==
  \A x \in Entry :
    recovered[x] <= MaxTries * (Cardinality(Recovering) + stops + faults)

\* A schedule that is due is claimed, unless a client withdraws it: a loop that
\* is busy with other schedules finds it due later.
DueIsClaimed ==
  \A s \in Schedules :
    IsDue(row[s], now) ~>
      \/ ~IsActive(s)
      \/ row[s].next > now

\* A record the threshold of which is passed is linked, or the service gives it
\* up for a reason the documentation names.
LostIsSettled ==
  \A x \in Entry :
    claimedAt[x] # 0 /\ claimedAt[x] + LostAfter < MaxTime ~>
      \/ claimedAt[x] = 0
      \/ x \in linked
      \/ TooOld(x)
      \/ ~IsActive(x[1])
      \/ \E r \in Recovering : tries[r][x] >= MaxTries
=============================================================================
