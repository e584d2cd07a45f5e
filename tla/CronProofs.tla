----------------------------- MODULE CronProofs -----------------------------
(***************************************************************************)
(* Proofs about CronScheduling, for any runners, schedules, policies and   *)
(* expressions, any limits, and any number of updates, failed calls and    *)
(* stops.                                                                  *)
(***************************************************************************)
EXTENDS CronScheduling, WellFoundedInduction, FiniteSetTheorems, TLAPS

(***************************************************************************)
(* The inductive invariant.                                                *)
(***************************************************************************)
Launching == {"launch", "wait", "link"}

\* What the position of a loop says of its memory.
LoopShape(r) ==
  /\ pc[r] \in {"idle", "query"} => due[r] = NothingDue
  /\ \A s \in Schedules : due[r][s] # None => due[r][s].next <= at[r]
  /\ work[r] = None <=> pc[r] \in {"idle", "query", "process"}
  /\ work[r] = None => times[r] = {}
  /\ pc[r] \in Launching => times[r] # {}

RecoveryShape(r) == rpc[r] \in Launching => hand[r] \in Entry

Shape == \A r \in Runners : LoopShape(r) /\ RecoveryShape(r)

Base == TypeOK /\ Shape

\* A slot stays on record as long as its schedule exists, and no schedule comes
\* back.
OnRecord(x) == claimedAt[x] # 0 \/ x[1] \in deleted

DeletedIsGone == \A s \in deleted : row[s] = None

ClaimedExists ==
  \A r \in Runners : work[r] # None => row[work[r]] # None \/ work[r] \in deleted

\* A loop records the slot before it launches it, and what it is about to
\* launch nobody has launched or is about to.
RecordedFirst ==
  /\ \A x \in Entry : polled[x] > 0 => OnRecord(x)
  /\ \A r \in Runners : pc[r] \in Launching => OnRecord(Current(r))

LaunchIsFirst ==
  \A r \in Runners : pc[r] = "launch" =>
    /\ polled[Current(r)] = 0
    /\ \A q \in Runners : q # r /\ pc[q] = "launch" => Current(q) # Current(r)

\* Without updates the next run of a row lies after the last one.
RowIsOrdered ==
  updates = 0 =>
    /\ edit = None
    /\ \A s \in Schedules : row[s] # None => row[s].last < row[s].next

Records == DeletedIsGone /\ ClaimedExists /\ RecordedFirst
Safe    == LaunchIsFirst /\ PolledOnce /\ ClaimedSlotIsKept /\ RowIsOrdered
IInv    == Base /\ Records /\ Safe

USE DEF dbVars, loopVars, recoveryVars, clientVars, history, vars, LoopStep, RecoveryStep,
        Time, Row, Launching, NothingDue, NoTries, CronRecoveryConfig,
        CronSchedules, CronExecutions, EmptyTables, NewScheduler, NewRecoveryService

-----------------------------------------------------------------------------
(***************************************************************************)
(* Minima and the evaluator.                                               *)
(***************************************************************************)
LEMMA MinIsLeast ==
  ASSUME NEW S \in SUBSET Nat, S # {}
  PROVE  Min(S) \in S /\ \A k \in S : Min(S) <= k
<1> DEFINE less == {p \in Nat \X Nat : p[1] < p[2]}
<1>1. IsWellFoundedOn(less, Nat)
  BY NatLessThanWellFounded, Zenon DEF OpToRel
<1>2. \A x, y \in Nat : <<y, x>> \notin less => x <= y
  OBVIOUS
<1> HIDE DEF less
<1>3. \E x \in S : \A y \in S : <<y, x>> \notin less
  BY <1>1, S \subseteq Nat, WFMin, ZenonT(30)
<1>4. \E x \in S : \A y \in S : x <= y
  BY <1>2, <1>3
<1>5. QED
  BY <1>4 DEF Min

LEMMA NextIsLater ==
  ASSUME NEW e \in Expressions, NEW t \in 0 .. MaxTime
  PROVE  NextExecution(e, t) \in 1 .. MaxTime + 1 /\ t < NextExecution(e, t)
<1> DEFINE S == {k \in Fires[e] : k > t} \cup {MaxTime + 1}
<1>1. S \in SUBSET (1 .. MaxTime + 1) /\ S # {} /\ \A k \in S : t < k
  BY CronAssumption
<1>2. S \in SUBSET Nat
  BY <1>1, CronAssumption
<1> HIDE DEF S
<1>3. Min(S) \in S
  BY <1>1, <1>2, MinIsLeast
<1>4. NextExecution(e, t) = Min(S)
  BY DEF NextExecution, S
<1>5. QED
  BY <1>1, <1>3, <1>4

LEMMA SlotsAreTimes ==
  ASSUME NEW s \in Schedules, NEW x \in Row, NEW t \in {0} \cup Time, x.next <= t
  PROVE  ExecutionTimes(s, x, t) \in SUBSET Time
<1>1. x.next \in Time
  BY CronAssumption
<1>2. \A start, end : ExecutionsBetween(x.expr, start, end) \in SUBSET Time
  BY CronAssumption DEF ExecutionsBetween
<1>3. QED
  BY <1>1, <1>2 DEF ExecutionTimes

\* The slot at hand is one of the slots left.
LEMMA CurrentIsASlot ==
  ASSUME Base, NEW r \in Runners, times[r] # {}, work[r] # None
  PROVE  /\ Current(r) \in Entry
         /\ Current(r) = <<work[r], Min(times[r])>>
         /\ Min(times[r]) \in times[r]
<1>1. times[r] \in SUBSET Nat /\ times[r] \subseteq Time /\ work[r] \in Schedules
  BY CronAssumption DEF Base, TypeOK
<1>2. Min(times[r]) \in times[r]
  BY <1>1, MinIsLeast
<1>3. QED
  BY <1>1, <1>2 DEF Current, Entry

-----------------------------------------------------------------------------
(***************************************************************************)
(* Types and the positions of loops and services.                          *)
(***************************************************************************)
LEMMA BaseInit == Init => Base
BY CronAssumption
   DEF Init, Base, TypeOK, Shape, LoopShape, RecoveryShape

LEMMA UpdatedRowType ==
  ASSUME TypeOK, NEW s \in Schedules, row[s] # None,
         NEW e \in Expressions, NEW n \in 1 .. MaxTime + 1,
         row' = [row EXCEPT ![s].expr = e, ![s].next = n]
  PROVE  row' \in [Schedules -> Row \cup {None}]
<1>1. row[s] \in Row
  BY DEF TypeOK
<1>2. row' = [row EXCEPT ![s] = [row[s] EXCEPT !.expr = e, !.next = n]]
  BY <1>1
<1>3. [row[s] EXCEPT !.expr = e, !.next = n] \in Row
  BY <1>1
<1>4. QED
  BY <1>2, <1>3 DEF TypeOK

\* What the clients, the clock and a restart do.
LEMMA ClientBase == Base /\ (Tick \/ Clients \/ \E r \in Runners : Restart(r)) => Base'
<1> SUFFICES ASSUME Base, Tick \/ Clients \/ \E r \in Runners : Restart(r) PROVE Base'
  OBVIOUS
<1> USE CronAssumption DEF Base, TypeOK, Shape, LoopShape, RecoveryShape, Client
<1>1. CASE Tick
  BY <1>1 DEF Tick
<1>2. ASSUME NEW s \in Schedules, NEW e \in Expressions, Register(s, e) PROVE Base'
  <2>1. NextExecution(e, now) \in 1 .. MaxTime + 1
    BY NextIsLater
  <2>2. row' \in [Schedules -> Row \cup {None}]
    BY <1>2, <2>1 DEF Register
  <2>3. QED
    BY <1>2, <2>2 DEF Register
<1>3. ASSUME NEW s \in Schedules, NEW b \in BOOLEAN, SetEnabled(s, b) PROVE Base'
  <2>1. row[s] \in Row
    BY <1>3 DEF SetEnabled
  <2>2. row' \in [Schedules -> Row \cup {None}]
    BY <1>3, <2>1 DEF SetEnabled
  <2>3. QED
    BY <1>3, <2>2 DEF SetEnabled
<1>4. ASSUME NEW s \in Schedules, Delete(s) PROVE Base'
  BY <1>4 DEF Delete
<1>5. ASSUME NEW s \in Schedules, NEW e \in Expressions, PrepareUpdate(s, e) PROVE Base'
  <2>1. NextExecution(e, now) \in 1 .. MaxTime + 1
    BY NextIsLater
  <2>2. QED
    BY <1>5, <2>1 DEF PrepareUpdate
<1>6. CASE WriteUpdate
  <2>1. edit.sched \in Schedules /\ edit.expr \in Expressions /\ edit.next \in 1 .. MaxTime + 1
    BY <1>6 DEF WriteUpdate
  <2>2. CASE row[edit.sched] = None
    BY <1>6, <2>2 DEF WriteUpdate
  <2>3. CASE row[edit.sched] # None
    <3>1. row' = [row EXCEPT ![edit.sched].expr = edit.expr, ![edit.sched].next = edit.next]
      BY <1>6, <2>3 DEF WriteUpdate
    <3>2. row' \in [Schedules -> Row \cup {None}]
      BY <2>1, <2>3, <3>1, UpdatedRowType
    <3>3. QED
      BY <1>6, <3>2 DEF WriteUpdate
  <2>4. QED
    BY <2>2, <2>3
<1>7. ASSUME NEW r \in Runners, Restart(r) PROVE Base'
  BY <1>7 DEF Restart
<1> HIDE DEF Base, TypeOK, Shape, LoopShape, RecoveryShape, Client
<1>8. QED
  BY <1>1, <1>2, <1>3, <1>4, <1>5, <1>6, <1>7 DEF Clients

\* The two assignments of a claim are one assignment of a row.
LEMMA ClaimedRowIs ==
  ASSUME NEW r \in Runners, NEW s \in Schedules, row \in [Schedules -> Row \cup {None}],
         row[s] \in Row, ClaimRow(r, s)
  PROVE  row' = [row EXCEPT ![s] = [row[s] EXCEPT
                   !.last = at[r], !.next = NextExecution(due[r][s].expr, at[r])]]
<1> DEFINE n == NextExecution(due[r][s].expr, at[r])
<1> HIDE DEF n
<1>1. row' = [row EXCEPT ![s].last = at[r], ![s].next = n]
  BY DEF ClaimRow, n
<1>2. row' = [row EXCEPT ![s] = [row[s] EXCEPT !.last = at[r], !.next = n]]
  BY <1>1
<1> QED
  BY <1>2 DEF n

LEMMA ClaimRowType ==
  ASSUME Base, NEW r \in Runners, NEW s \in Schedules, due[r][s] # None,
         Claimable(r, s), ClaimRow(r, s)
  PROVE  /\ row' \in [Schedules -> Row \cup {None}]
         /\ promised' \in SUBSET Entry
         /\ claims' \in SUBSET Entry
         /\ ExecutionTimes(s, due[r][s], at[r]) \in SUBSET Time
         /\ row[s] # None /\ row'[s] # None
         /\ row[s].next <= at[r] /\ row'[s].last = at[r]
         /\ at[r] < row'[s].next
<1> USE CronAssumption DEF Base, TypeOK, Shape, LoopShape, Entry
<1>1. row[s] \in Row /\ row[s].next <= at[r] /\ at[r] \in Time
  BY DEF Claimable, IsDue
<1>2. due[r][s] \in Row /\ due[r][s].next <= at[r]
  OBVIOUS
<1>3. /\ NextExecution(due[r][s].expr, at[r]) \in 1 .. MaxTime + 1
      /\ at[r] < NextExecution(due[r][s].expr, at[r])
  BY <1>1, <1>2, NextIsLater
<1>4. ExecutionTimes(s, due[r][s], at[r]) \in SUBSET Time
  BY <1>1, <1>2, SlotsAreTimes
<1>5. row' = [row EXCEPT ![s] = [row[s] EXCEPT
                !.last = at[r], !.next = NextExecution(due[r][s].expr, at[r])]]
  BY <1>1, ClaimedRowIs
<1>6. row'[s] \in Row /\ row'[s].last = at[r] /\ at[r] < row'[s].next
  BY <1>1, <1>3, <1>5, ZenonT(40)
<1>7. row' \in [Schedules -> Row \cup {None}]
  BY <1>5, <1>6
<1>8. promised' \in SUBSET Entry /\ claims' \in SUBSET Entry
  BY <1>1, <1>4 DEF ClaimRow
<1>9. QED
  BY <1>1, <1>4, <1>6, <1>7, <1>8

\* The steps at the slot at hand.
SlotStep(r) ==
  \/ Record(r) \/ RecordFails(r) \/ Launch(r) \/ PipelineEnds(r) \/ GiveUp(r)
  \/ Link(r) \/ LinkFails(r)

\* What is left of the slots after the one at hand.
LEMMA SlotBase == Base /\ (\E r \in Runners : SlotStep(r)) => Base'
<1> SUFFICES ASSUME Base, NEW r \in Runners, SlotStep(r) PROVE Base'
  OBVIOUS
<1> USE DEF Base, TypeOK, Shape, LoopShape, RecoveryShape, Loop, Goto
<1>1. Current(r) \in Entry /\ times[r] # {} /\ work[r] # None
  BY CurrentIsASlot
     DEF SlotStep, Record, RecordFails, Launch, PipelineEnds, GiveUp, Link, LinkFails
<1>2. ASSUME NextSlot(r), UNCHANGED <<due, at, work, rpc, hand>>
      PROVE  /\ times' \in [Runners -> SUBSET Time]
             /\ pc' \in [Runners -> LoopStep]
             /\ Shape'
  BY <1>1, <1>2 DEF NextSlot
<1>12. InsertRecord(Current(r)) => claimedAt' \in [Entry -> {0} \cup Time]
  BY <1>1 DEF InsertRecord
<1>3. CASE Record(r) /\ MayRecord(Current(r))
  BY <1>1, <1>3, <1>12, ZenonT(40) DEF Record
<1>4. CASE Record(r) /\ ~MayRecord(Current(r))
  BY <1>2, <1>4 DEF Record
<1>5. CASE RecordFails(r)
  BY <1>1, <1>2, <1>5, <1>12 DEF RecordFails, Fault
<1>6. CASE Launch(r)
  BY <1>1, <1>6 DEF Launch
<1>7. CASE PipelineEnds(r)
  BY <1>1, <1>7 DEF PipelineEnds
<1>8. CASE GiveUp(r)
  BY <1>2, <1>8 DEF GiveUp
<1>9. CASE Link(r)
  BY <1>1, <1>2, <1>9 DEF Link, LinkRecord
<1>10. CASE LinkFails(r)
  BY <1>1, <1>2, <1>10 DEF LinkFails, LinkRecord, Fault
<1>11. QED
  BY <1>3, <1>4, <1>5, <1>6, <1>7, <1>8, <1>9, <1>10 DEF SlotStep

\* The steps of a poll outside of a claimed schedule.
PollStep(r) ==
  \/ Wake(r) \/ Query(r) \/ QueryFails(r) \/ EndPoll(r) \/ EndSlots(r)
  \/ \E s \in Schedules : PassOver(r, s)

ClaimStep(r) == \E s \in Schedules : Claim(r, s) \/ ClaimFails(r, s)

LEMMA PollBase == Base /\ (\E r \in Runners : PollStep(r) \/ ClaimStep(r)) => Base'
<1> SUFFICES ASSUME Base, NEW r \in Runners, PollStep(r) \/ ClaimStep(r) PROVE Base'
  OBVIOUS
<1> USE CronAssumption DEF Base, TypeOK, Shape, LoopShape, RecoveryShape, Loop, Goto, Fault
<1>1. CASE Wake(r)
  BY <1>1 DEF Wake
<1>2. CASE Query(r)
  <2>1. DueRows(at[r]) \in [Schedules -> Row \cup {None}]
    BY DEF DueRows
  <2>2. \A s \in Schedules : DueRows(at[r])[s] # None => DueRows(at[r])[s].next <= at[r]
    BY DEF DueRows, IsDue
  <2>3. QED
    BY <1>2, <2>1, <2>2 DEF Query
<1>3. CASE QueryFails(r)
  BY <1>3 DEF QueryFails
<1>8. CASE EndPoll(r)
  BY <1>8 DEF EndPoll
<1>9. CASE EndSlots(r)
  BY <1>9 DEF EndSlots
<1>4. ASSUME NEW s \in Schedules, PassOver(r, s) PROVE Base'
  BY <1>4 DEF PassOver
<1>5. ASSUME NEW s \in Schedules, Claim(r, s) PROVE Base'
  <2>1. due[r][s] # None
    BY <1>5 DEF Claim, IsFirst
  <2>2. /\ row' \in [Schedules -> Row \cup {None}]
        /\ promised' \in SUBSET Entry /\ claims' \in SUBSET Entry
        /\ ExecutionTimes(s, due[r][s], at[r]) \in SUBSET Time
    BY <1>5, <2>1, ClaimRowType DEF Claim
  <2>3. QED
    BY <1>5, <2>2 DEF Claim
<1>6. ASSUME NEW s \in Schedules, ClaimFails(r, s) PROVE Base'
  <2>1. due[r][s] # None
    BY <1>6 DEF ClaimFails, IsFirst
  <2>2. /\ row' \in [Schedules -> Row \cup {None}]
        /\ promised' \in SUBSET Entry /\ claims' \in SUBSET Entry
    <3>1. CASE UNCHANGED <<row, promised, claims>>
      BY <3>1
    <3>2. CASE Claimable(r, s) /\ ClaimRow(r, s)
      BY <2>1, <3>2, ClaimRowType
    <3>3. QED
      BY <1>6, <3>1, <3>2 DEF ClaimFails
  <2>3. QED
    BY <1>6, <2>2 DEF ClaimFails
<1>7. QED
  BY <1>1, <1>2, <1>3, <1>4, <1>5, <1>6, <1>8, <1>9 DEF PollStep, ClaimStep

ServiceStep(r) ==
  \/ RecoveryNext(r) \/ LinkRecoveredFails(r) \/ \E x \in Entry : LookUpFails(r, x)

LEMMA ServiceBase == Base /\ (\E r \in Runners : ServiceStep(r)) => Base'
<1> SUFFICES ASSUME Base, NEW r \in Runners, ServiceStep(r) PROVE Base'
  OBVIOUS
<1> USE CronAssumption DEF Base, TypeOK, Shape, LoopShape, RecoveryShape, Service, RGoto, Fault
<1>1. CASE FindLost(r)
  BY <1>1 DEF FindLost, LostRecords
<1>2. CASE EndRecovery(r)
  BY <1>2 DEF EndRecovery
<1>3. ASSUME NEW x \in Entry, TakeUp(r, x) PROVE Base'
  BY <1>3 DEF TakeUp, Count
<1>4. ASSUME NEW x \in Entry, LeaveRecord(r, x) PROVE Base'
  <2>0. UNCHANGED tries \/ Count(r, x)
    BY <1>4 DEF LeaveRecord
  <2>1. tries' \in [Runners -> [Entry -> Nat]]
    <3>1. CASE UNCHANGED tries
      BY <3>1
    <3>2. CASE Count(r, x)
      BY <3>2 DEF Count
    <3>3. QED
      BY <2>0, <3>1, <3>2
  <2>2. lost' \in [Runners -> SUBSET Entry]
    BY <1>4 DEF LeaveRecord
  <2>3. UNCHANGED <<dbVars, loopVars, clientVars, history, now, rpc, hand, faults, stops>>
    BY <1>4 DEF LeaveRecord
  <2>4. QED
    BY <2>1, <2>2, <2>3
<1>9. ASSUME NEW x \in Entry, LookUpFails(r, x) PROVE Base'
  BY <1>9 DEF LookUpFails, Count
<1>5. CASE Relaunch(r)
  BY <1>5 DEF Relaunch
<1>6. CASE RecoveredEnds(r)
  BY <1>6 DEF RecoveredEnds
<1>10. CASE GiveUpRecovery(r)
  BY <1>10 DEF GiveUpRecovery, NextLost
<1>11. ASSUME LinkRecord(hand[r]), rpc[r] = "link"
       PROVE  linked' \in SUBSET Entry
  BY <1>11 DEF LinkRecord
<1>7. CASE LinkRecovered(r)
  BY <1>7, <1>11 DEF LinkRecovered, Forget, NextLost
<1>12. CASE LinkRecoveredFails(r)
  BY <1>12, <1>11 DEF LinkRecoveredFails, Forget, NextLost
<1>8. QED
  BY <1>1, <1>2, <1>3, <1>4, <1>5, <1>6, <1>7, <1>9, <1>10, <1>12 DEF ServiceStep, RecoveryNext

\* Every step is one of these.
LEMMA Steps ==
  [Next]_vars =>
    \/ Tick \/ Clients \/ UNCHANGED vars
    \/ \E r \in Runners :
         Restart(r) \/ PollStep(r) \/ ClaimStep(r) \/ SlotStep(r) \/ ServiceStep(r)
BY DEF Next, LoopNext, Failure, PollStep, ClaimStep, SlotStep, ServiceStep

LEMMA BaseStep == Base /\ [Next]_vars => Base'
<1>1. Base /\ UNCHANGED vars => Base'
  BY DEF Base, TypeOK, Shape, LoopShape, RecoveryShape
<1>2. QED
  BY <1>1, Steps, ClientBase, SlotBase, PollBase, ServiceBase

-----------------------------------------------------------------------------
(***************************************************************************)
(* Records and launches.                                                   *)
(***************************************************************************)
LEMMA SafeInit == Init => Records /\ Safe
BY CronAssumption
   DEF Init, Records, DeletedIsGone, ClaimedExists, RecordedFirst, Safe, LaunchIsFirst,
       PolledOnce, ClaimedSlotIsKept, RowIsOrdered

\* The services, the clock and time passing touch nothing of this.
LEMMA IdleSafe ==
  ASSUME Records, Safe,
         UNCHANGED <<row, deleted, claimedAt, pc, work, times, edit, updates, polled, promised>>,
         faults' = 0 => faults = 0, stops' = 0 => stops = 0
  PROVE  Records' /\ Safe'
<1>1. \A r \in Runners : Current(r)' = Current(r)
  BY DEF Current
<1>2. Records'
  BY <1>1 DEF Records, DeletedIsGone, ClaimedExists, RecordedFirst, OnRecord
<1>3. LaunchIsFirst'
  BY <1>1 DEF Safe, LaunchIsFirst
<1>4. PolledOnce' /\ ClaimedSlotIsKept' /\ RowIsOrdered'
  BY DEF Safe, PolledOnce, ClaimedSlotIsKept, Held, RowIsOrdered
<1>5. QED
  BY <1>2, <1>3, <1>4 DEF Safe

\* A schedule that exists or is deleted does not become unknown.
RowsKept ==
  \A s \in Schedules : row[s] # None \/ s \in deleted => row'[s] # None \/ s \in deleted'

\* What the clients may do to the rows and the records.
LEMMA ClientSafe ==
  ASSUME IInv, Clients
  PROVE  Records' /\ Safe'
<1> USE DEF Client
<1>1. UNCHANGED <<pc, work, times, polled, promised, faults, stops>>
  BY DEF Clients, Register, SetEnabled, Delete, PrepareUpdate, WriteUpdate
<1>2. \A r \in Runners : Current(r)' = Current(r)
  BY <1>1 DEF Current
<1>3. \A x \in Entry : OnRecord(x) => OnRecord(x)'
  BY CronAssumption DEF Clients, Register, SetEnabled, Delete, PrepareUpdate, WriteUpdate,
                        OnRecord, IInv, Base, TypeOK, Entry
<1>4. DeletedIsGone' /\ RowsKept /\ RowIsOrdered'
  <2> USE CronAssumption
      DEF IInv, Base, TypeOK, Records, DeletedIsGone, RowsKept, Safe, RowIsOrdered
  <2>1. ASSUME NEW s \in Schedules, NEW e \in Expressions, Register(s, e)
        PROVE  DeletedIsGone' /\ RowsKept /\ RowIsOrdered'
    <3>1. 0 < NextExecution(e, now)
      BY NextIsLater
    <3>2. QED
      BY <2>1, <3>1 DEF Register
  <2>2. ASSUME NEW s \in Schedules, NEW b \in BOOLEAN, SetEnabled(s, b)
        PROVE  DeletedIsGone' /\ RowsKept /\ RowIsOrdered'
    <3>1. row' = [row EXCEPT ![s] = [row[s] EXCEPT !.enabled = b]] /\ row[s] \in Row
      BY <2>2 DEF SetEnabled
    <3>2. row'[s] # None /\ row'[s].last = row[s].last /\ row'[s].next = row[s].next
      <4>1. row'[s] = [row[s] EXCEPT !.enabled = b]
        BY <3>1
      <4>2. [row[s] EXCEPT !.enabled = b] \in Row
        BY <3>1
      <4>3. row'[s] # None
        BY <4>1, <4>2
      <4>4. /\ [row[s] EXCEPT !.enabled = b].last = row[s].last
            /\ [row[s] EXCEPT !.enabled = b].next = row[s].next
        BY <3>1
      <4>5. QED
        BY <4>1, <4>3, <4>4
    <3>3. \A u \in Schedules : u # s => row'[u] = row[u]
      BY <3>1
    <3>4. UNCHANGED <<deleted, edit, updates>>
      BY <2>2 DEF SetEnabled
    <3>5. s \notin deleted
      BY <2>2 DEF SetEnabled
    <3>6. QED
      BY <3>1, <3>2, <3>3, <3>4, <3>5
  <2>3. ASSUME NEW s \in Schedules, Delete(s)
        PROVE  DeletedIsGone' /\ RowsKept /\ RowIsOrdered'
    BY <2>3 DEF Delete
  <2>4. ASSUME NEW s \in Schedules, NEW e \in Expressions, PrepareUpdate(s, e)
        PROVE  DeletedIsGone' /\ RowsKept /\ RowIsOrdered'
    BY <2>4 DEF PrepareUpdate
  <2>5. CASE WriteUpdate
    BY <2>5, ZenonT(40) DEF WriteUpdate
  <2>6. QED
    BY <2>1, <2>2, <2>3, <2>4, <2>5 DEF Clients
<1>5. ClaimedExists'
  BY <1>1, <1>4 DEF RowsKept, ClaimedExists, IInv, Records, Base, TypeOK
<1>6. RecordedFirst'
  <2>1. \A r \in Runners : pc[r] \in Launching => Current(r) \in Entry
    BY CurrentIsASlot DEF IInv, Base, Shape, LoopShape
  <2>2. QED
    BY <1>1, <1>2, <1>3, <2>1 DEF RecordedFirst, IInv, Records
<1>7. LaunchIsFirst' /\ PolledOnce'
  BY <1>1, <1>2 DEF LaunchIsFirst, PolledOnce, IInv, Safe
<1>8. ClaimedSlotIsKept'
  BY <1>1, <1>3 DEF ClaimedSlotIsKept, Held, OnRecord, IInv, Safe, Base, TypeOK
<1>9. QED
  BY <1>4, <1>5, <1>6, <1>7, <1>8 DEF Records, Safe

\* A runner that stops holds nothing any more.
LEMMA RestartSafe ==
  ASSUME IInv, NEW r \in Runners, Restart(r)
  PROVE  Records' /\ Safe'
<1>1. \A q \in Runners : q # r => Current(q)' = Current(q)
  BY DEF Restart, Current, IInv, Base, TypeOK
<1>2. Records'
  BY <1>1 DEF Restart, Records, DeletedIsGone, ClaimedExists, RecordedFirst, OnRecord,
              IInv, Base, TypeOK
<1>3. LaunchIsFirst'
  BY <1>1 DEF Restart, LaunchIsFirst, IInv, Safe, Base, TypeOK
<1>4. PolledOnce' /\ RowIsOrdered'
  BY DEF Restart, PolledOnce, RowIsOrdered, IInv, Safe
<1>5. ClaimedSlotIsKept'
  BY DEF Restart, ClaimedSlotIsKept, IInv, Base, TypeOK
<1>6. QED
  BY <1>2, <1>3, <1>4, <1>5 DEF Safe

\* A poll outside of a claimed schedule reads only.
LEMMA PollSafe ==
  ASSUME IInv, NEW r \in Runners, PollStep(r)
  PROVE  Records' /\ Safe'
<1> USE DEF Loop, Goto, Fault
<1>1. /\ UNCHANGED <<row, deleted, claimedAt, times, edit, updates, polled, promised, stops>>
      /\ faults' = 0 => faults = 0
      /\ pc' = [pc EXCEPT ![r] = pc'[r]] /\ pc'[r] \notin Launching
      /\ work' = [work EXCEPT ![r] = None]
      /\ times[r] = {}
  BY DEF PollStep, Wake, Query, QueryFails, EndPoll, EndSlots, PassOver,
         IInv, Base, TypeOK, Shape, LoopShape
<1>2. \A q \in Runners : q # r => Current(q)' = Current(q)
  BY <1>1 DEF Current, IInv, Base, TypeOK
<1>3. Records'
  BY <1>1, <1>2 DEF Records, DeletedIsGone, ClaimedExists, RecordedFirst, OnRecord,
                    IInv, Base, TypeOK
<1>4. LaunchIsFirst'
  <2>1. \A q \in Runners : pc'[q] = "launch" => q # r /\ pc[q] = "launch"
    BY <1>1 DEF IInv, Base, TypeOK
  <2>2. QED
    BY <1>1, <1>2, <2>1 DEF LaunchIsFirst, IInv, Safe
<1>5. PolledOnce' /\ RowIsOrdered'
  BY <1>1 DEF PolledOnce, RowIsOrdered, IInv, Safe
<1>6. ClaimedSlotIsKept'
  BY <1>1 DEF ClaimedSlotIsKept, Held, IInv, Safe, Base, TypeOK
<1>7. QED
  BY <1>3, <1>4, <1>5, <1>6 DEF Safe

\* A claim puts the slots it was made for in the hands of its loop.
LEMMA ClaimSafe ==
  ASSUME IInv, NEW r \in Runners, NEW s \in Schedules, Claim(r, s)
  PROVE  Records' /\ Safe'
<1> USE DEF Loop, Goto, IInv, Base, TypeOK
<1>1. due[r][s] # None /\ work[r] = None /\ times[r] = {}
  BY DEF Claim, IsFirst, Shape, LoopShape
<1>2. /\ row[s] # None /\ row'[s] # None
      /\ row'[s].last = at[r] /\ at[r] < row'[s].next
      /\ \A u \in Schedules : u # s => row'[u] = row[u]
  BY <1>1, ClaimRowType DEF Claim, ClaimRow
<1>3. \A q \in Runners : q # r => Current(q)' = Current(q)
  BY DEF Claim, Current
<1>4. Records'
  BY <1>1, <1>2, <1>3 DEF Claim, Records, DeletedIsGone, ClaimedExists, RecordedFirst, OnRecord
<1>5. LaunchIsFirst'
  BY <1>3 DEF Claim, LaunchIsFirst, Safe
<1>6. PolledOnce' /\ RowIsOrdered'
  BY <1>2 DEF Claim, PolledOnce, RowIsOrdered, Safe
<1>7. ClaimedSlotIsKept'
  <2>1. \A x \in Entry : Held(x) => Held(x)'
    BY <1>1 DEF Claim, Held
  <2>2. \A k \in ExecutionTimes(s, due[r][s], at[r]) : Held(<<s, k>>)'
    BY DEF Claim, Held
  <2>3. QED
    BY <2>1, <2>2 DEF Claim, ClaimRow, ClaimedSlotIsKept, Safe
<1>8. QED
  BY <1>4, <1>5, <1>6, <1>7 DEF Safe

LEMMA ClaimFailsSafe ==
  ASSUME IInv, NEW r \in Runners, NEW s \in Schedules, ClaimFails(r, s)
  PROVE  Records' /\ Safe'
<1> USE DEF Loop, Goto, IInv, Base, TypeOK, Fault
<1>1. /\ row[s] # None => row'[s] # None
      /\ row[s] = None => row'[s] = None
      /\ row'[s] # row[s] => row'[s].last < row'[s].next
      /\ \A u \in Schedules : u # s => row'[u] = row[u]
  <2>1. CASE UNCHANGED row
    BY <2>1
  <2>2. CASE Claimable(r, s) /\ ClaimRow(r, s)
    BY <2>2, ClaimRowType DEF ClaimFails, IsFirst, ClaimRow
  <2>3. QED
    BY <2>1, <2>2 DEF ClaimFails
<1>2. \A q \in Runners : Current(q)' = Current(q)
  BY DEF ClaimFails, Current
<1>3. Records'
  BY <1>1, <1>2 DEF ClaimFails, Records, DeletedIsGone, ClaimedExists, RecordedFirst, OnRecord
<1>4. LaunchIsFirst' /\ PolledOnce' /\ RowIsOrdered'
  BY <1>1, <1>2 DEF ClaimFails, LaunchIsFirst, PolledOnce, RowIsOrdered, Safe
<1>5. ClaimedSlotIsKept'
  BY DEF ClaimFails, ClaimedSlotIsKept
<1>6. QED
  BY <1>3, <1>4, <1>5 DEF Safe

\* At the slot at hand: what is recorded stays so, what is left behind is
\* recorded, and what is launched was never launched before.
LEMMA SlotSafe ==
  ASSUME IInv, NEW r \in Runners, SlotStep(r)
  PROVE  Records' /\ Safe'
<1> USE DEF IInv, Base, TypeOK, Loop, Goto
<1>1. /\ Current(r) \in Entry /\ Current(r) = <<work[r], Min(times[r])>>
      /\ work[r] \in Schedules /\ Current(r)[1] = work[r]
  BY CurrentIsASlot
     DEF SlotStep, Record, RecordFails, Launch, PipelineEnds, GiveUp, Link, LinkFails,
         Shape, LoopShape
<1>2. /\ UNCHANGED <<row, deleted, work, edit, updates, promised, stops>>
      /\ faults' = 0 => faults = 0 /\ ~RecordFails(r)
      /\ UNCHANGED times \/ NextSlot(r)
      /\ \A q \in Runners : q # r => pc'[q] = pc[q] /\ times'[q] = times[q]
  BY DEF SlotStep, Record, RecordFails, Launch, PipelineEnds, GiveUp, Link, LinkFails,
         NextSlot, Fault
<1>3. /\ \A q \in Runners : q # r => Current(q)' = Current(q)
      /\ UNCHANGED times => Current(r)' = Current(r)
  BY <1>2 DEF Current
<1>4. UNCHANGED claimedAt \/ InsertRecord(Current(r))
  BY DEF SlotStep, Record, RecordFails, Launch, PipelineEnds, GiveUp, Link, LinkFails
<1>5. \A y \in Entry : OnRecord(y) => OnRecord(y)'
  <2>1. CASE UNCHANGED claimedAt
    BY <1>2, <2>1 DEF OnRecord
  <2>2. CASE InsertRecord(Current(r))
    <3>1. \A y \in Entry : claimedAt'[y] = claimedAt[y] \/ claimedAt'[y] = now
      BY <2>2 DEF InsertRecord
    <3>2. now # 0
      BY CronAssumption
    <3>3. QED
      BY <1>2, <3>1, <3>2 DEF OnRecord
  <2>3. QED
    BY <1>4, <2>1, <2>2
<1>6. \A q \in Runners : pc[q] \in Launching => Current(q) \in Entry /\ OnRecord(Current(q))
  BY CurrentIsASlot DEF Shape, LoopShape, Records, RecordedFirst
<1>7. UNCHANGED polled \/ (Launch(r) /\ polled' = [polled EXCEPT ![Current(r)] = @ + 1])
  BY DEF SlotStep, Record, RecordFails, Launch, PipelineEnds, GiveUp, Link, LinkFails
<1>8. pc'[r] \in Launching => UNCHANGED times /\ OnRecord(Current(r))'
  <2>1. CASE Record(r) /\ MayRecord(Current(r))
    <3>1. UNCHANGED times /\ InsertRecord(Current(r))
      BY <2>1 DEF Record
    <3>2. claimedAt'[Current(r)] = now /\ now # 0
      BY <1>1, <3>1, CronAssumption DEF InsertRecord
    <3>3. QED
      BY <1>3, <3>1, <3>2 DEF OnRecord
  <2>2. CASE Launch(r) \/ PipelineEnds(r)
    BY <1>3, <1>5, <1>6, <2>2 DEF Launch, PipelineEnds, OnRecord
  <2>3. CASE NextSlot(r)
    BY <2>3 DEF NextSlot
  <2>4. QED
    BY <2>1, <2>2, <2>3 DEF SlotStep, Record, RecordFails, GiveUp, Link, LinkFails
<1>9. pc'[r] = "launch" => Record(r) /\ MayRecord(Current(r)) /\ UNCHANGED <<times, polled>>
  BY DEF SlotStep, Record, RecordFails, Launch, PipelineEnds, GiveUp, Link, LinkFails, NextSlot
<1>10. DeletedIsGone' /\ ClaimedExists' /\ RowIsOrdered'
  BY <1>2 DEF Records, DeletedIsGone, ClaimedExists, Safe, RowIsOrdered
<1>11. RecordedFirst'
  <2>1. ASSUME NEW y \in Entry, polled'[y] > 0 PROVE OnRecord(y)'
    BY <1>5, <1>6, <1>7, <2>1 DEF Launch, Records, RecordedFirst
  <2>2. ASSUME NEW q \in Runners, pc'[q] \in Launching PROVE OnRecord(Current(q))'
    <3>1. CASE q = r
      BY <1>8, <2>2, <3>1
    <3>2. CASE q # r
      BY <1>2, <1>3, <1>5, <1>6, <2>2, <3>2 DEF OnRecord
    <3>3. QED
      BY <3>1, <3>2
  <2>3. QED
    BY <2>1, <2>2 DEF RecordedFirst
<1>12. PolledOnce'
  <2>1. CASE UNCHANGED polled
    BY <2>1 DEF Safe, PolledOnce
  <2>2. CASE Launch(r)
    <3>1. polled[Current(r)] = 0 /\ polled' = [polled EXCEPT ![Current(r)] = @ + 1]
      BY <2>2 DEF Launch, Safe, LaunchIsFirst
    <3>2. \A y \in Entry : polled'[y] = IF y = Current(r) THEN 1 ELSE polled[y]
      BY <1>1, <3>1
    <3>3. \A y \in Entry : polled[y] <= 1
      BY DEF Safe, PolledOnce
    <3>4. ASSUME NEW y \in Entry PROVE polled'[y] <= 1
      <4>1. CASE y = Current(r)
        BY <3>2, <4>1
      <4>2. CASE y # Current(r)
        BY <3>2, <3>3, <4>2
      <4>3. QED
        BY <4>1, <4>2
    <3>5. QED
      BY <3>4 DEF PolledOnce
  <2>3. QED
    BY <1>7, <2>1, <2>2
<1>13. LaunchIsFirst'
  <2>1. MayRecord(Current(r)) => ~OnRecord(Current(r))
    BY <1>1 DEF MayRecord, OnRecord, Records, DeletedIsGone
  <2>2. ASSUME NEW q \in Runners, pc'[q] = "launch", q # r
        PROVE  /\ pc[q] = "launch" /\ Current(q)' = Current(q)
               /\ polled'[Current(q)] = 0
    BY <1>2, <1>3, <1>6, <1>7, <2>2 DEF Launch, Safe, LaunchIsFirst
  <2>3. ASSUME pc'[r] = "launch"
        PROVE  /\ Current(r)' = Current(r) /\ polled'[Current(r)] = 0
               /\ ~OnRecord(Current(r))
    <3>1. Record(r) /\ MayRecord(Current(r)) /\ UNCHANGED <<times, polled>>
      BY <1>9, <2>3
    <3>2. ~OnRecord(Current(r))
      BY <2>1, <3>1
    <3>3. polled[Current(r)] = 0
      BY <1>1, <3>2 DEF Records, RecordedFirst
    <3>4. QED
      BY <1>3, <3>1, <3>2, <3>3
  <2>4. ASSUME NEW q \in Runners, pc'[q] = "launch" PROVE polled'[Current(q)'] = 0
    BY <2>2, <2>3, <2>4
  <2>5. ASSUME NEW q \in Runners, NEW p \in Runners, p # q,
               pc'[q] = "launch", pc'[p] = "launch"
        PROVE  Current(p)' # Current(q)'
    <3>1. CASE q # r /\ p # r
      BY <2>2, <2>5, <3>1 DEF Safe, LaunchIsFirst
    <3>2. CASE q = r
      BY <1>6, <2>2, <2>3, <2>5, <3>2
    <3>3. CASE p = r
      BY <1>6, <2>2, <2>3, <2>5, <3>3
    <3>4. QED
      BY <3>1, <3>2, <3>3
  <2>6. QED
    BY <2>4, <2>5 DEF LaunchIsFirst
<1>14. ClaimedSlotIsKept'
  <2>1. faults' = 0 => UNCHANGED times \/ OnRecord(Current(r))
    <3>1. CASE Record(r)
      <4>1. MayRecord(Current(r)) => UNCHANGED times
        BY <3>1 DEF Record
      <4>2. work[r] # None
        BY <1>1, CronAssumption
      <4>3. ~MayRecord(Current(r)) => OnRecord(Current(r))
        BY <1>1, <4>2 DEF MayRecord, OnRecord, Records, ClaimedExists
      <4>4. QED
        BY <4>1, <4>3
    <3>2. CASE Launch(r) \/ PipelineEnds(r)
      BY <3>2 DEF Launch, PipelineEnds
    <3>3. CASE GiveUp(r) \/ Link(r) \/ LinkFails(r)
      BY <1>6, <3>3 DEF GiveUp, Link, LinkFails
    <3>4. QED
      BY <1>2, <3>1, <3>2, <3>3 DEF SlotStep
  <2>2. \A y \in Entry : Held(y) => Held(y)' \/ (~UNCHANGED times /\ y = Current(r))
    BY <1>1, <1>2 DEF NextSlot, Held, Entry
  <2>3. QED
    BY <1>2, <1>5, <2>1, <2>2 DEF Safe, ClaimedSlotIsKept, OnRecord
<1>15. QED
  BY <1>10, <1>11, <1>12, <1>13, <1>14 DEF Records, Safe

-----------------------------------------------------------------------------
(***************************************************************************)
(* The theorems.                                                           *)
(***************************************************************************)
LEMMA SafeStep == IInv /\ [Next]_vars => Records' /\ Safe'
<1> SUFFICES ASSUME IInv, [Next]_vars PROVE Records' /\ Safe'
  OBVIOUS
<1>1. CASE Tick \/ UNCHANGED vars
  BY <1>1, IdleSafe DEF Tick, IInv
<1>2. CASE Clients
  BY <1>2, ClientSafe
<1>3. ASSUME NEW r \in Runners, ServiceStep(r) PROVE Records' /\ Safe'
  <2>1. /\ UNCHANGED <<row, deleted, claimedAt, pc, work, times, edit, updates, polled, promised, stops>>
        /\ faults' = 0 => faults = 0
    BY <1>3 DEF ServiceStep, RecoveryNext, FindLost, EndRecovery, TakeUp, LeaveRecord, Relaunch,
                RecoveredEnds, GiveUpRecovery, LinkRecovered, LinkRecoveredFails, LookUpFails,
                Service, Fault, IInv, Base, TypeOK
  <2>2. QED
    BY <2>1, IdleSafe DEF IInv
<1>4. ASSUME NEW r \in Runners, ClaimStep(r) PROVE Records' /\ Safe'
  BY <1>4, ClaimSafe, ClaimFailsSafe DEF ClaimStep
<1>5. QED
  BY <1>1, <1>2, <1>3, <1>4, Steps, RestartSafe, PollSafe, SlotSafe

LEMMA Invariance == Spec => []IInv
<1>1. Init => IInv
  BY BaseInit, SafeInit DEF IInv
<1>2. IInv /\ [Next]_vars => IInv'
  BY BaseStep, SafeStep DEF IInv
<1>3. QED
  BY <1>1, <1>2, PTL DEF Spec

\* What the database, the loops and the services keep has its type, whatever
\* number of runners poll the same schedules: cron_scheduler.rs and
\* cron_recovery.rs never leave a minimum of nothing or a slot out of range.
THEOREM CronTypeCorrect == Spec => []TypeOK
<1>1. IInv => TypeOK
  BY DEF IInv, Base
<1>2. QED
  BY <1>1, Invariance, PTL

\* No slot is launched twice by the polling loops of any number of runners,
\* with updates, failed calls and restarts: the UNIQUE constraint that
\* create_execution_audit meets, and not the claim, is what ensures it.
THEOREM NoSecondLaunch == Spec => []PolledOnce
<1>1. IInv => PolledOnce
  BY DEF IInv, Safe
<1>2. QED
  BY <1>1, Invariance, PTL

\* Without failed calls and restarts every slot process_schedule claimed is on
\* record, or its schedule deleted, or the loop that claimed it has it in hand.
THEOREM SlotsAreKept == Spec => []ClaimedSlotIsKept
<1>1. IInv => ClaimedSlotIsKept
  BY DEF IInv, Safe
<1>2. QED
  BY <1>1, Invariance, PTL

\* A step that changes the last run of a row is a claim, and the filter of
\* claim_and_update lets it through only when the time of the poll has passed
\* the next run, which without updates lies after the last one.
LEMMA ClaimAdvances ==
  ASSUME IInv, [Next]_vars, NEW s \in Schedules, updates = 0,
         row[s] # None, row'[s] # None, row'[s].last # row[s].last
  PROVE  row[s].last < row'[s].last /\ row'[s].last < row'[s].next
<1> USE DEF IInv, Base, TypeOK
<1>1. row[s] \in Row /\ row[s].last < row[s].next
  BY DEF Safe, RowIsOrdered
<1>2. ASSUME NEW r \in Runners, NEW u \in Schedules, due[r][u] # None,
             Claimable(r, u), ClaimRow(r, u)
      PROVE  row[s].last < row'[s].last /\ row'[s].last < row'[s].next
  <2>1. u = s
    BY <1>2 DEF ClaimRow
  <2>2. /\ row[s].next <= at[r] /\ row'[s].last = at[r] /\ at[r] < row'[s].next
        /\ row' \in [Schedules -> Row \cup {None}]
    BY <1>2, <2>1, ClaimRowType
  <2>3. at[r] \in Nat /\ row'[s] \in Row
    BY <2>2, CronAssumption
  <2>4. QED
    BY <1>1, <2>2, <2>3, CronAssumption
<1>3. ASSUME NEW r \in Runners, ClaimStep(r)
      PROVE  row[s].last < row'[s].last /\ row'[s].last < row'[s].next
  BY <1>2, <1>3 DEF ClaimStep, Claim, ClaimFails, IsFirst
<1>4. ~Clients
  <2>1. ASSUME NEW u \in Schedules, NEW b \in BOOLEAN, SetEnabled(u, b) PROVE FALSE
    <3>1. row' = [row EXCEPT ![u] = [row[u] EXCEPT !.enabled = b]] /\ row[u] \in Row
      BY <2>1 DEF SetEnabled
    <3>2. [row[u] EXCEPT !.enabled = b].last = row[u].last
      BY <3>1
    <3>3. QED
      BY <3>1, <3>2
  <2>2. ASSUME NEW u \in Schedules PROVE ~Delete(u)
    BY DEF Delete
  <2>3. ASSUME NEW u \in Schedules, NEW e \in Expressions PROVE ~Register(u, e)
    BY DEF Register
  <2>4. ASSUME NEW u \in Schedules, NEW e \in Expressions PROVE ~PrepareUpdate(u, e)
    BY DEF PrepareUpdate
  <2>5. ~WriteUpdate
    BY DEF WriteUpdate, Safe, RowIsOrdered
  <2>6. QED
    BY <2>1, <2>2, <2>3, <2>4, <2>5 DEF Clients
<1>5. ~Tick /\ ~UNCHANGED vars
  BY DEF Tick
<1>6. ASSUME NEW r \in Runners
      PROVE  ~Restart(r) /\ ~PollStep(r) /\ ~SlotStep(r) /\ ~ServiceStep(r)
  <2>1. ~UNCHANGED row
    OBVIOUS
  <2>2. ~Restart(r) /\ ~PollStep(r)
    BY <2>1 DEF Restart, PollStep, Wake, Query, QueryFails, EndPoll, EndSlots, PassOver
  <2>3. ~SlotStep(r)
    BY <2>1 DEF SlotStep, Record, RecordFails, Launch, PipelineEnds, GiveUp, Link, LinkFails
  <2>4. ~ServiceStep(r)
    BY <2>1 DEF ServiceStep, RecoveryNext, FindLost, EndRecovery, TakeUp, LeaveRecord, Relaunch,
                RecoveredEnds, GiveUpRecovery, LinkRecovered, LinkRecoveredFails, LookUpFails,
                Service
  <2>5. QED
    BY <2>2, <2>3, <2>4
<1>7. QED
  BY <1>3, <1>4, <1>5, <1>6, Steps

\* As long as no client changes an expression, the last run of a schedule only
\* moves forward, and stays before the next: loops that work on copies of the
\* row taken at different times do not set one another back.
THEOREM ClaimsOnlyAdvance == Spec => ClaimsAdvance
<1> DEFINE A == \A s \in Schedules :
       updates = 0 /\ row[s] # None /\ row'[s] # None /\ row'[s].last # row[s].last =>
         row[s].last < row'[s].last /\ row'[s].last < row'[s].next
<1>1. IInv /\ [Next]_vars => A
  BY ClaimAdvances
<1>2. ClaimsAdvance <=> [][A]_vars
  BY DEF ClaimsAdvance
<1>3. QED
  BY <1>1, <1>2, Invariance, PTL DEF Spec

-----------------------------------------------------------------------------
(***************************************************************************)
(* Catching up.                                                            *)
(***************************************************************************)
\* As long as no client changes an expression, the copy a loop works on is the
\* row as it was at an earlier claim.
CopiesAreOld ==
  updates = 0 =>
    \A r \in Runners, s \in Schedules : due[r][s] # None =>
      \/ s \in deleted /\ row[s] = None
      \/ /\ row[s] # None
         /\ due[r][s].expr = row[s].expr /\ due[r][s].created = row[s].created
         /\ due[r][s].last <= row[s].last

\* The last run of a row is the time of a claim.
LastIsClaimed ==
  \A s \in Schedules : row[s] # None /\ row[s].last # 0 => <<s, row[s].last>> \in claims

CInv == CopiesAreOld /\ LastIsClaimed /\ CatchUpIsComplete

\* Without a limit the evaluator returns every slot of its range.
LEMMA RangeIsComplete ==
  ASSUME MaxTime < MaxCatchup, NEW e \in Expressions, NEW start \in Nat, NEW end \in Nat,
         NEW k \in Fires[e], start < k, k < end
  PROVE  k \in ExecutionsBetween(e, start, end)
<1> DEFINE between == {j \in Fires[e] : start < j /\ j < end}
           earlier == {l \in between : l < k}
<1>1. earlier \in SUBSET (1 .. MaxTime)
  BY CronAssumption
<1>2. IsFiniteSet(1 .. MaxTime) /\ Cardinality(1 .. MaxTime) = MaxTime
  BY FS_Interval, CronAssumption
<1>3. IsFiniteSet(earlier) /\ Cardinality(earlier) <= MaxTime
  BY <1>1, <1>2, FS_Subset
<1>4. Cardinality(earlier) \in Nat
  BY <1>3, FS_CardinalityType
<1>5. Cardinality(earlier) < MaxCatchup
  BY <1>3, <1>4, CronAssumption
<1> QED
  BY <1>5 DEF ExecutionsBetween

SameRow(s) ==
  /\ row[s] # None /\ row'[s] # None
  /\ row'[s].expr = row[s].expr /\ row'[s].created = row[s].created
  /\ row'[s].last = row[s].last

\* Where no claim is made, copies are dropped or taken, and rows go away.
LEMMA NoClaimKeepsCInv ==
  ASSUME IInv, IInv', CInv, updates' = updates,
         \A s \in Schedules : SameRow(s) \/ row'[s] = None,
         \A s \in Schedules : row[s] # None /\ row'[s] = None => s \in deleted',
         deleted \subseteq deleted', promised \subseteq promised', claims \subseteq claims',
         \A r \in Runners, s \in Schedules : due'[r][s] \in {None, due[r][s], row'[s]}
  PROVE  CInv'
<1> USE DEF CInv, SameRow
<1>1. \A s \in Schedules : row'[s] # None => row'[s].last \in Nat
  BY CronAssumption DEF IInv, Base, TypeOK
<1>2. CopiesAreOld'
  BY <1>1 DEF CopiesAreOld
<1>3. LastIsClaimed'
  BY DEF LastIsClaimed
<1>4. CatchUpIsComplete'
  <2> SUFFICES ASSUME updates' = 0, NEW s \in Schedules, row'[s] # None, Policy[s] = "RunAll"
               PROVE  {<<s, k>> : k \in Passed(s)'} \subseteq promised' \cup claims'
    BY DEF CatchUpIsComplete
  <2>1. Passed(s)' = Passed(s)
    BY DEF Passed
  <2> QED
    BY <2>1 DEF CatchUpIsComplete
<1> QED
  BY <1>2, <1>3, <1>4

LEMMA ClientsKeepCInv ==
  ASSUME IInv, IInv', CInv, Clients
  PROVE  CInv'
<1> USE DEF IInv, Base, TypeOK, Client
<1>1. ASSUME NEW s \in Schedules, NEW e \in Expressions, Register(s, e)
      PROVE  CInv'
  <2>1. /\ row'[s] # None /\ row'[s].last = 0
        /\ \A u \in Schedules : u # s => row'[u] = row[u]
        /\ UNCHANGED <<deleted, promised, claims, due, updates>>
    <3>1. row'[s] = [enabled |-> TRUE, expr |-> e, created |-> now,
                     last |-> 0, next |-> NextExecution(e, now)]
      BY <1>1 DEF Register
    <3>2. row'[s] \in Row
      BY <3>1, <1>1, NextIsLater, CronAssumption
    <3> QED
      BY <1>1, <3>1, <3>2, CronAssumption, ZenonT(40) DEF Register
  <2>2. updates = 0 => \A r \in Runners : due[r][s] = None
    BY <1>1 DEF Register, CInv, CopiesAreOld
  <2>3. LastIsClaimed'
    BY <2>1 DEF CInv, LastIsClaimed
  <2>5. CopiesAreOld'
    <3> SUFFICES ASSUME updates = 0, NEW r \in Runners, NEW u \in Schedules, due[r][u] # None
                 PROVE  \/ u \in deleted /\ row'[u] = None
                        \/ /\ row'[u] # None
                           /\ due[r][u].expr = row'[u].expr
                           /\ due[r][u].created = row'[u].created
                           /\ due[r][u].last <= row'[u].last
      BY <2>1 DEF CopiesAreOld
    <3>1. u # s
      BY <2>2
    <3> QED
      BY <2>1, <3>1 DEF CInv, CopiesAreOld
  <2>4. CatchUpIsComplete'
    <3> SUFFICES ASSUME updates' = 0, NEW u \in Schedules, row'[u] # None, Policy[u] = "RunAll"
                 PROVE  {<<u, k>> : k \in Passed(u)'} \subseteq promised' \cup claims'
      BY DEF CatchUpIsComplete
    <3>1. CASE u = s
      <4>1. \A k \in Passed(u)' : k \in Time /\ k < 0
        BY <2>1, <3>1, CronAssumption DEF Passed
      <4> QED
        BY <4>1, CronAssumption
    <3>2. CASE u # s
      <4>1. Passed(u)' = Passed(u)
        BY <2>1, <3>2 DEF Passed
      <4> QED
        BY <2>1, <3>2, <4>1 DEF CInv, CatchUpIsComplete
    <3> QED
      BY <3>1, <3>2
  <2> QED
    BY <2>3, <2>4, <2>5 DEF CInv
<1>2. ASSUME NEW s \in Schedules, NEW b \in BOOLEAN, SetEnabled(s, b)
      PROVE  CInv'
  <2>1. row' = [row EXCEPT ![s] = [row[s] EXCEPT !.enabled = b]] /\ row[s] \in Row
    BY <1>2 DEF SetEnabled
  <2>2. row'[s] = [row[s] EXCEPT !.enabled = b] /\ [row[s] EXCEPT !.enabled = b] \in Row
    BY <2>1
  <2>3. SameRow(s)
    BY <1>2, <2>1, <2>2, CronAssumption DEF SetEnabled, SameRow
  <2>4. \A u \in Schedules : SameRow(u) \/ row'[u] = None
    BY <2>1, <2>3 DEF SameRow
  <2>5. UNCHANGED <<deleted, promised, claims, due, updates>>
    BY <1>2 DEF SetEnabled
  <2> QED
    BY <1>2, <2>1, <2>3, <2>4, <2>5, NoClaimKeepsCInv DEF SameRow
<1>3. ASSUME NEW s \in Schedules, Delete(s)
      PROVE  CInv'
  <2>1. /\ \A u \in Schedules : SameRow(u) \/ row'[u] = None
        /\ \A u \in Schedules : row[u] # None /\ row'[u] = None => u \in deleted'
        /\ deleted \subseteq deleted'
        /\ UNCHANGED <<promised, claims, due, updates>>
    BY <1>3 DEF Delete, SameRow
  <2> QED
    BY <2>1, NoClaimKeepsCInv
<1>4. CASE updates' # 0 /\ UNCHANGED <<row, claims>>
  BY <1>4 DEF CInv, CopiesAreOld, LastIsClaimed, CatchUpIsComplete
<1>5. ASSUME NEW s \in Schedules, NEW e \in Expressions, PrepareUpdate(s, e)
      PROVE  CInv'
  BY <1>4, <1>5 DEF PrepareUpdate
<1>6. CASE WriteUpdate
  <2>1. updates' # 0 /\ updates' = updates /\ claims' = claims
    BY <1>6 DEF WriteUpdate, Safe, RowIsOrdered
  <2>2. ASSUME NEW s \in Schedules, row'[s] # None
        PROVE  row[s] # None /\ row'[s].last = row[s].last
    <3>1. CASE row' = row
      BY <2>2, <3>1
    <3>2. CASE row' # row
      <4>1. /\ row[edit.sched] # None
            /\ row' = [row EXCEPT ![edit.sched].expr = edit.expr, ![edit.sched].next = edit.next]
        BY <1>6, <3>2 DEF WriteUpdate
      <4>2. edit.sched \in Schedules
        BY <1>6 DEF WriteUpdate
      <4>3. row[edit.sched] \in Row
        BY <4>1, <4>2
      <4>4. row' = [row EXCEPT ![edit.sched] =
                      [row[edit.sched] EXCEPT !.expr = edit.expr, !.next = edit.next]]
        BY <4>1, <4>2, <4>3
      <4> QED
        BY <2>2, <4>1, <4>2, <4>3, <4>4
    <3> QED
      BY <3>1, <3>2
  <2> QED
    BY <2>1, <2>2 DEF CInv, CopiesAreOld, LastIsClaimed, CatchUpIsComplete
<1> QED
  BY <1>1, <1>2, <1>3, <1>5, <1>6 DEF Clients

\* A claim covers what lies between the claim before it, or the creation, and
\* its own time, however old the copy it was computed from.
LEMMA ClaimKeepsCInv ==
  ASSUME IInv, IInv', CInv, MaxTime < MaxCatchup,
         NEW r \in Runners, NEW s \in Schedules, due[r][s] # None,
         Claimable(r, s), ClaimRow(r, s),
         UNCHANGED <<deleted, updates>>, due' = [due EXCEPT ![r][s] = None]
  PROVE  CInv'
<1> USE DEF IInv, Base, TypeOK
<1>1. /\ row[s] \in Row /\ row'[s] \in Row /\ row'[s] # None /\ row[s] # None
      /\ row'[s].last = at[r] /\ row[s].next <= at[r] /\ at[r] \in Time
      /\ due[r][s] \in Row
  BY ClaimRowType, CronAssumption
<1>2. row'[s].expr = row[s].expr /\ row'[s].created = row[s].created
  <2>1. row' = [row EXCEPT ![s] = [row[s] EXCEPT
                  !.last = at[r], !.next = NextExecution(due[r][s].expr, at[r])]]
    BY <1>1, ClaimedRowIs
  <2> QED
    BY <1>1, <2>1
<1>3. \A u \in Schedules : u # s => row'[u] = row[u]
  BY DEF ClaimRow
<1>4. /\ promised' = promised \cup {<<s, k>> : k \in ExecutionTimes(s, due[r][s], at[r])}
      /\ claims' = claims \cup {<<s, at[r]>>}
  BY DEF ClaimRow
<1>5. LastIsClaimed'
  BY <1>1, <1>3, <1>4 DEF CInv, LastIsClaimed
<1>6. updates = 0 => row[s].last < at[r]
  BY <1>1, CronAssumption DEF Safe, RowIsOrdered
<1>7. s \notin deleted
  BY <1>1 DEF Records, DeletedIsGone
<1>8. CopiesAreOld'
  <2> SUFFICES ASSUME updates = 0, NEW q \in Runners, NEW u \in Schedules, due'[q][u] # None
               PROVE  \/ u \in deleted /\ row'[u] = None
                      \/ /\ row'[u] # None
                         /\ due'[q][u].expr = row'[u].expr /\ due'[q][u].created = row'[u].created
                         /\ due'[q][u].last <= row'[u].last
    BY DEF CopiesAreOld
  <2>1. due'[q][u] = due[q][u]
    OBVIOUS
  <2>2. CASE u = s
    <3>1. /\ due[q][u].expr = row[s].expr /\ due[q][u].created = row[s].created
          /\ due[q][u].last <= row[s].last
      BY <1>7, <2>1, <2>2 DEF CInv, CopiesAreOld
    <3>2. due[q][u] \in Row
      BY <2>1
    <3> QED
      BY <1>1, <1>2, <1>6, <2>1, <2>2, <3>1, <3>2, CronAssumption
  <2>3. CASE u # s
    BY <1>3, <2>1, <2>3 DEF CInv, CopiesAreOld
  <2> QED
    BY <2>2, <2>3
<1>9. CatchUpIsComplete'
  <2> SUFFICES ASSUME updates = 0, NEW u \in Schedules, row'[u] # None, Policy[u] = "RunAll",
                      NEW k \in Passed(u)'
               PROVE  <<u, k>> \in promised' \cup claims'
    BY DEF CatchUpIsComplete
  <2>1. CASE u # s
    <3>1. Passed(u)' = Passed(u)
      BY <1>3, <2>1 DEF Passed
    <3> QED
      BY <1>3, <1>4, <2>1, <3>1 DEF CInv, CatchUpIsComplete
  <2>2. CASE u = s
    <3>1. k \in Fires[row[s].expr] /\ row[s].created < k /\ k < at[r] /\ k \in Time
      BY <1>1, <1>2, <2>2, CronAssumption DEF Passed
    <3>2. CASE k < row[s].last
      <4>1. k \in Passed(s)
        BY <3>1, <3>2 DEF Passed
      <4> QED
        BY <1>1, <1>4, <2>2, <4>1 DEF CInv, CatchUpIsComplete
    <3>3. CASE k = row[s].last
      <4>1. row[s].last # 0
        BY <3>1, <3>3, CronAssumption
      <4> QED
        BY <1>1, <1>4, <2>2, <3>3, <4>1 DEF CInv, LastIsClaimed
    <3>4. CASE row[s].last < k
      <4> DEFINE start == IF due[r][s].last = 0 THEN due[r][s].created ELSE due[r][s].last
      <4>1. /\ due[r][s].expr = row[s].expr /\ due[r][s].created = row[s].created
            /\ due[r][s].last <= row[s].last
        BY <1>7 DEF CInv, CopiesAreOld
      <4>2. start \in Nat /\ start < k
        BY <1>1, <3>1, <3>4, <4>1, CronAssumption
      <4>3. k \in ExecutionsBetween(due[r][s].expr, start, at[r])
        <5>1. due[r][s].expr \in Expressions /\ k \in Fires[due[r][s].expr] /\ at[r] \in Nat
          BY <1>1, <3>1, <4>1, CronAssumption
        <5> HIDE DEF start
        <5> QED
          BY <3>1, <4>2, <5>1, RangeIsComplete
      <4>4. k \in ExecutionTimes(s, due[r][s], at[r])
        BY <2>2, <4>3 DEF ExecutionTimes
      <4> QED
        BY <1>4, <2>2, <4>4
    <3>5. k \in Nat /\ row[s].last \in Nat
      BY <1>1, <3>1, CronAssumption
    <3>6. k < row[s].last \/ k = row[s].last \/ row[s].last < k
      <4>1. \A i, j \in Nat : i < j \/ i = j \/ j < i
        BY CronAssumption
      <4> HIDE DEF IInv, Base, TypeOK
      <4> QED
        BY <3>5, <4>1, Zenon
    <3> QED
      BY <3>2, <3>3, <3>4, <3>6
  <2> QED
    BY <2>1, <2>2
<1> QED
  BY <1>5, <1>8, <1>9 DEF CInv

LEMMA CInvIsInductive ==
  ASSUME IInv, IInv', CInv, MaxTime < MaxCatchup, [Next]_vars
  PROVE  CInv'
<1> USE DEF IInv, Base, TypeOK
<1>1. CASE /\ UNCHANGED <<row, deleted, updates, promised, claims>>
           /\ \A q \in Runners, u \in Schedules : due'[q][u] \in {None, due[q][u], row'[u]}
  <2>1. \A s \in Schedules : SameRow(s) \/ row'[s] = None
    BY <1>1 DEF SameRow
  <2> QED
    BY <1>1, <2>1, NoClaimKeepsCInv
<1>2. CASE Tick \/ UNCHANGED vars
  BY <1>1, <1>2 DEF Tick
<1>3. ASSUME NEW r \in Runners, Restart(r) \/ PollStep(r) \/ SlotStep(r) \/ ServiceStep(r)
      PROVE  CInv'
  <2>1. CASE Restart(r)
    BY <1>1, <2>1 DEF Restart
  <2>2. CASE PollStep(r)
    <3>1. /\ UNCHANGED <<row, deleted, updates, promised, claims>>
          /\ \/ due' = due
             \/ due' = [due EXCEPT ![r] = DueRows(at[r])]
             \/ \E s \in Schedules : due' = [due EXCEPT ![r][s] = None]
      BY <2>2 DEF PollStep, Wake, Query, QueryFails, EndPoll, EndSlots, PassOver, Loop
    <3>2. ASSUME NEW q \in Runners, NEW u \in Schedules
          PROVE  due'[q][u] \in {None, due[q][u], row'[u]}
      <4>1. DueRows(at[r])[u] \in {None, row[u]} /\ row'[u] = row[u]
        BY <3>1 DEF DueRows
      <4>2. CASE due' = due
        BY <4>2
      <4>3. CASE due' = [due EXCEPT ![r] = DueRows(at[r])]
        <5>1. due'[q] \in {due[q], DueRows(at[r])}
          BY <4>3
        <5> QED
          BY <4>1, <5>1
      <4>4. ASSUME NEW s \in Schedules, due' = [due EXCEPT ![r][s] = None]
            PROVE  due'[q][u] \in {None, due[q][u]}
        BY <4>4
      <4> QED
        BY <3>1, <4>2, <4>3, <4>4
    <3> QED
      BY <1>1, <3>1, <3>2
  <2>3. CASE SlotStep(r)
    BY <1>1, <2>3
       DEF SlotStep, Record, RecordFails, Launch, PipelineEnds, GiveUp, Link, LinkFails, Loop
  <2>4. CASE ServiceStep(r)
    BY <1>1, <2>4
       DEF ServiceStep, RecoveryNext, FindLost, EndRecovery, TakeUp, LeaveRecord, Relaunch,
           RecoveredEnds, GiveUpRecovery, LinkRecovered, LinkRecoveredFails, LookUpFails, Service
  <2> QED
    BY <1>3, <2>1, <2>2, <2>3, <2>4
<1>4. ASSUME NEW r \in Runners, NEW s \in Schedules, Claim(r, s) \/ ClaimFails(r, s)
      PROVE  CInv'
  <2>1. /\ due[r][s] # None /\ due' = [due EXCEPT ![r][s] = None]
        /\ UNCHANGED <<deleted, updates>>
    BY <1>4 DEF Claim, ClaimFails, IsFirst, Loop
  <2>2. CASE Claimable(r, s) /\ ClaimRow(r, s)
    BY <2>1, <2>2, ClaimKeepsCInv
  <2>3. CASE UNCHANGED <<row, promised, claims>>
    BY <1>1, <2>1, <2>3
  <2> QED
    BY <1>4, <2>2, <2>3 DEF Claim, ClaimFails
<1> QED
  BY <1>2, <1>3, <1>4, ClientsKeepCInv, Steps DEF ClaimStep

\* With "RunAll" and a limit that no outage reaches, a claim has been made for
\* every slot a schedule has left behind, or at its very time: the copies the
\* loops claim from may be old, but never newer than the claim they follow.
THEOREM CatchUpLeavesNoGap == MaxTime < MaxCatchup => (Spec => []CatchUpIsComplete)
<1> SUFFICES ASSUME MaxTime < MaxCatchup
             PROVE  Spec => []CatchUpIsComplete
  OBVIOUS
<1>1. Init => CInv
  BY CronAssumption DEF Init, CInv, CopiesAreOld, LastIsClaimed, CatchUpIsComplete
<1>2. IInv /\ IInv' /\ CInv /\ [Next]_vars => CInv'
  BY CInvIsInductive
<1>3. CInv => CatchUpIsComplete
  BY DEF CInv
<1> QED
  BY <1>1, <1>2, <1>3, Invariance, PTL DEF Spec
-----------------------------------------------------------------------------
(***************************************************************************)
(* The attempts of the recovery services.  Each service has max_attempts   *)
(* launches of a record to spend.  It starts over when its runner restarts *)
(* and when it forgets the attempts of a record it has launched; the       *)
(* record is then linked, or deleted, and not found again, unless the      *)
(* link failed.                                                            *)
(***************************************************************************)

\* The record is linked, or gone with its schedule.
Done(x) == x \in linked \/ x[1] \in deleted

\* r has x in its list or in its hand.
Busy(r, x) == x \in lost[r] \/ (rpc[r] \in Launching /\ hand[r] = x)

\* r will not launch x again.
Settled(r, x) == Done(x) /\ ~Busy(r, x)

\* The attempt r has counted and not yet launched.
Pending(r, x, n) == rpc[r] = "launch" /\ hand[r] = x /\ n = tries[r][x]

MayLaunch(r, x, n) == ~Settled(r, x) /\ (tries[r][x] < n \/ Pending(r, x, n))

\* The launches of x the services have left.
Left(x) == {p \in Recovering \X (1 .. MaxTries) : MayLaunch(p[1], x, p[2])}

RecordsGoWithSchedule == \A x \in Entry : x[1] \in deleted => claimedAt[x] = 0

HandShape(r) ==
  /\ rpc[r] \in Launching => hand[r] \notin lost[r]
  /\ rpc[r] = "launch" => r \in Recovering /\ tries[r][hand[r]] \in 1 .. MaxTries
  /\ \A x \in Entry : Busy(r, x) => OnRecord(x)

BudgetShape == RecordsGoWithSchedule /\ \A r \in Runners : HandShape(r)

Lives == Cardinality(Recovering) + stops + faults

BudgetIsKept == \A x \in Entry : recovered[x] + Cardinality(Left(x)) <= MaxTries * Lives

BInv == BudgetShape /\ BudgetIsKept

LEMMA RecordsStay ==
  ASSUME IInv, [Next]_vars
  PROVE  \A x \in Entry : (OnRecord(x) => OnRecord(x)') /\ (Done(x) => Done(x)')
<1> USE CronAssumption DEF IInv, Base, TypeOK, OnRecord, Done, Entry
<1>1. CASE Tick \/ UNCHANGED vars \/ \E r \in Runners : Restart(r)
  BY <1>1 DEF Tick, Restart
<1>2. CASE Clients
  BY <1>2 DEF Clients, Client, Register, SetEnabled, Delete, PrepareUpdate, WriteUpdate
<1>3. ASSUME NEW r \in Runners, PollStep(r) \/ ClaimStep(r)
      PROVE  UNCHANGED <<deleted, claimedAt, linked>>
  BY <1>3 DEF PollStep, Wake, Query, QueryFails, EndPoll, EndSlots, PassOver, ClaimStep, Claim,
              ClaimFails, Loop
<1>4. ASSUME NEW r \in Runners, SlotStep(r)
      PROVE  \A x \in Entry : (OnRecord(x) => OnRecord(x)') /\ (Done(x) => Done(x)')
  BY <1>4 DEF SlotStep, Record, RecordFails, Launch, PipelineEnds, GiveUp, Link, LinkFails,
              InsertRecord, LinkRecord, Loop
<1>5. ASSUME NEW r \in Runners, ServiceStep(r)
      PROVE  UNCHANGED <<deleted, claimedAt>> /\ linked \subseteq linked'
  BY <1>5 DEF ServiceStep, RecoveryNext, FindLost, EndRecovery, TakeUp, LeaveRecord, Relaunch,
              RecoveredEnds, GiveUpRecovery, LinkRecovered, LinkRecoveredFails, LookUpFails,
              LinkRecord, Service
<1> QED
  BY <1>1, <1>2, <1>3, <1>4, <1>5, Steps

LEMMA GoneStaysGone ==
  ASSUME IInv, RecordsGoWithSchedule, [Next]_vars
  PROVE  RecordsGoWithSchedule'
<1> USE CronAssumption DEF IInv, Base, TypeOK, RecordsGoWithSchedule, Entry
<1>1. CASE Tick \/ UNCHANGED vars \/ \E r \in Runners : Restart(r)
  BY <1>1 DEF Tick, Restart
<1>2. CASE Clients
  BY <1>2 DEF Clients, Client, Register, SetEnabled, Delete, PrepareUpdate, WriteUpdate
<1>3. ASSUME NEW r \in Runners, PollStep(r) \/ ClaimStep(r)
      PROVE  UNCHANGED <<deleted, claimedAt>>
  BY <1>3 DEF PollStep, Wake, Query, QueryFails, EndPoll, EndSlots, PassOver, ClaimStep, Claim,
              ClaimFails, Loop
<1>4. ASSUME NEW r \in Runners, SlotStep(r) PROVE RecordsGoWithSchedule'
  <2>1. UNCHANGED deleted
    BY <1>4 DEF SlotStep, Record, RecordFails, Launch, PipelineEnds, GiveUp, Link, LinkFails, Loop
  <2>2. \/ UNCHANGED claimedAt
        \/ MayRecord(Current(r)) /\ InsertRecord(Current(r))
    BY <1>4 DEF SlotStep, Record, RecordFails, Launch, PipelineEnds, GiveUp, Link, LinkFails
  <2>3. ASSUME NEW x \in Entry, claimedAt'[x] # claimedAt[x] PROVE row[x[1]] # None
    BY <2>2, <2>3 DEF MayRecord, InsertRecord
  <2> QED
    BY <2>1, <2>3 DEF Records, DeletedIsGone
<1>5. ASSUME NEW r \in Runners, ServiceStep(r) PROVE UNCHANGED <<deleted, claimedAt>>
  BY <1>5 DEF ServiceStep, RecoveryNext, FindLost, EndRecovery, TakeUp, LeaveRecord, Relaunch,
              RecoveredEnds, GiveUpRecovery, LinkRecovered, LinkRecoveredFails, LookUpFails, Service
<1> QED
  BY <1>1, <1>2, <1>3, <1>4, <1>5, Steps

\* What a runner has in memory for its service.
Memory(r) == <<rpc[r], lost[r], hand[r], tries[r]>>

\* Only a step of its service or a restart changes it.
LEMMA MemoryIsItsOwn ==
  ASSUME IInv, [Next]_vars, NEW q \in Runners, Memory(q)' # Memory(q)
  PROVE  ServiceStep(q) \/ Restart(q)
<1> USE DEF IInv, Base, TypeOK, Memory
<1>1. CASE Tick \/ Clients \/ UNCHANGED vars
  BY <1>1 DEF Tick, Clients, Client, Register, SetEnabled, Delete, PrepareUpdate, WriteUpdate
<1>2. ASSUME NEW r \in Runners, PollStep(r) \/ ClaimStep(r) \/ SlotStep(r)
      PROVE  UNCHANGED recoveryVars
  BY <1>2 DEF PollStep, Wake, Query, QueryFails, EndPoll, EndSlots, PassOver, ClaimStep, Claim,
              ClaimFails, SlotStep, Record, RecordFails, Launch, PipelineEnds, GiveUp, Link,
              LinkFails, Loop
<1>3. ASSUME NEW r \in Runners, ServiceStep(r), r # q PROVE FALSE
  BY <1>3 DEF ServiceStep, RecoveryNext, FindLost, EndRecovery, TakeUp, LeaveRecord, Relaunch,
              RecoveredEnds, GiveUpRecovery, LinkRecovered, LinkRecoveredFails, LookUpFails,
              RGoto, Count, NextLost, Forget
<1>4. ASSUME NEW r \in Runners, Restart(r), r # q PROVE FALSE
  BY <1>4 DEF Restart
<1> QED
  BY <1>1, <1>2, <1>3, <1>4, Steps

\* Counting an attempt, under the limit.
LEMMA CountIs ==
  ASSUME Base, NEW r \in Runners, NEW x \in Entry, Count(r, x)
  PROVE  /\ tries'[r][x] = tries[r][x] + 1 /\ tries[r][x] \in Nat
         /\ \A y \in Entry : y # x => tries'[r][y] = tries[r][y]
BY DEF Base, TypeOK, Count

\* The memory of one service, step by step.
LEMMA HandShapeStays ==
  ASSUME IInv, BudgetShape, [Next]_vars, NEW r \in Runners
  PROVE  HandShape(r)'
<1> USE CronAssumption DEF IInv, Base, TypeOK, Shape, RecoveryShape, BudgetShape, HandShape, Busy,
                           RGoto, Service
<1>0. \A x \in Entry : OnRecord(x) => OnRecord(x)'
  BY RecordsStay
<1>1. CASE Memory(r)' = Memory(r)
  BY <1>0, <1>1 DEF Memory
<1>2. CASE Restart(r)
  BY <1>2 DEF Restart
<1>3. CASE FindLost(r)
  BY <1>0, <1>3 DEF FindLost, LostRecords, OnRecord
<1>4. CASE EndRecovery(r)
  BY <1>0, <1>4 DEF EndRecovery
<1>5. ASSUME NEW x \in Entry, TakeUp(r, x) PROVE HandShape(r)'
  <2>1. tries'[r][x] \in 1 .. MaxTries
    BY <1>5, CountIs DEF TakeUp
  <2> QED
    BY <1>0, <1>5, <2>1 DEF TakeUp
<1>6. ASSUME NEW x \in Entry, LeaveRecord(r, x) \/ LookUpFails(r, x) PROVE HandShape(r)'
  <2>1. /\ rpc' = rpc /\ rpc[r] = "next" /\ hand' = hand
        /\ lost'[r] = lost[r] \ {x}
    BY <1>6 DEF LeaveRecord, LookUpFails
  <2> QED
    BY <1>0, <2>1
<1>7. CASE Relaunch(r) \/ RecoveredEnds(r)
  BY <1>0, <1>7 DEF Relaunch, RecoveredEnds
<1>8. CASE GiveUpRecovery(r) \/ LinkRecovered(r) \/ LinkRecoveredFails(r)
  BY <1>0, <1>8 DEF GiveUpRecovery, LinkRecovered, LinkRecoveredFails, NextLost
<1> QED
  BY <1>1, <1>2, <1>3, <1>4, <1>5, <1>6, <1>7, <1>8, MemoryIsItsOwn DEF ServiceStep, RecoveryNext

LEMMA BudgetShapeStays ==
  ASSUME IInv, BudgetShape, [Next]_vars
  PROVE  BudgetShape'
BY GoneStaysGone, HandShapeStays DEF BudgetShape

\* The services of the other runners have no more left than before.
LEMMA OthersHaveNoMore ==
  ASSUME IInv, [Next]_vars, NEW r \in Runners, Memory(r)' = Memory(r),
         NEW x \in Entry, NEW n, MayLaunch(r, x, n)'
  PROVE  MayLaunch(r, x, n)
<1>1. Done(x) => Done(x)'
  BY RecordsStay
<1> QED
  BY <1>1 DEF MayLaunch, Settled, Busy, Pending, Memory

\* Nor has the service that makes a step, but for what it forgets when a link
\* fails: and a launch uses one up.
LEMMA ServiceHasNoMore ==
  ASSUME IInv, BudgetShape, [Next]_vars, NEW r \in Runners, ServiceStep(r), ~LinkRecoveredFails(r),
         NEW x \in Entry, NEW n \in Nat, MayLaunch(r, x, n)'
  PROVE  /\ MayLaunch(r, x, n)
         /\ ~(Relaunch(r) /\ x = hand[r] /\ n = tries[r][x])
<1> USE CronAssumption DEF IInv, Base, TypeOK, Shape, RecoveryShape, BudgetShape, HandShape, Busy,
                           RGoto, Service, MayLaunch, Settled, Pending
<1>0. Done(x) => Done(x)'
  BY RecordsStay
<1>1. CASE FindLost(r)
  <2>1. x \in LostRecords => ~Done(x)
    BY DEF LostRecords, Done, RecordsGoWithSchedule
  <2> QED
    BY <1>0, <1>1, <2>1 DEF FindLost, Relaunch
<1>2. CASE EndRecovery(r)
  BY <1>0, <1>2 DEF EndRecovery, Relaunch
<1>3. ASSUME NEW y \in Entry, TakeUp(r, y)
      PROVE  MayLaunch(r, x, n)
  <2>1. /\ rpc[r] = "next" /\ y \in lost[r] /\ Count(r, y)
        /\ rpc'[r] = "launch" /\ hand'[r] = y /\ lost'[r] = lost[r] \ {y}
    BY <1>3 DEF TakeUp
  <2>2. CASE x = y
    <3>1. tries'[r][x] = tries[r][x] + 1 /\ tries[r][x] \in Nat
      BY <2>1, <2>2, CountIs
    <3> QED
      BY <2>1, <2>2, <3>1
  <2>3. CASE x # y
    <3>1. tries'[r][x] = tries[r][x]
      BY <2>1, <2>3, CountIs
    <3> QED
      BY <1>0, <2>1, <2>3, <3>1
  <2> QED
    BY <2>2, <2>3
<1>4. ASSUME NEW y \in Entry, LeaveRecord(r, y) \/ LookUpFails(r, y)
      PROVE  MayLaunch(r, x, n)
  <2>1. /\ rpc' = rpc /\ rpc[r] = "next" /\ hand' = hand
        /\ lost'[r] = lost[r] \ {y}
        /\ UNCHANGED tries \/ Count(r, y)
    BY <1>4 DEF LeaveRecord, LookUpFails
  <2>2. tries'[r][x] >= tries[r][x] /\ tries'[r][x] \in Nat /\ tries[r][x] \in Nat
    BY <2>1, CountIs
  <2> QED
    BY <1>0, <2>1, <2>2
<1>5. CASE Relaunch(r)
  BY <1>0, <1>5 DEF Relaunch
<1>6. CASE RecoveredEnds(r) \/ GiveUpRecovery(r)
  BY <1>0, <1>6 DEF RecoveredEnds, GiveUpRecovery, NextLost, Relaunch
<1>7. CASE LinkRecovered(r)
  <2>1. rpc[r] = "link" /\ rpc'[r] = "next" /\ lost'[r] = lost[r]
    BY <1>7 DEF LinkRecovered, NextLost
  <2>2. CASE x = hand[r]
    <3>1. Done(x)'
      BY <1>7, <2>1, <2>2 DEF LinkRecovered, LinkRecord, Done, OnRecord
    <3>2. ~Busy(r, x)'
      BY <2>1, <2>2
    <3> QED
      BY <3>1, <3>2
  <2>3. CASE x # hand[r]
    BY <1>0, <1>7, <2>1, <2>3 DEF LinkRecovered, NextLost, Forget, Relaunch
  <2> QED
    BY <2>2, <2>3
<1>8. (\E y \in Entry : TakeUp(r, y) \/ LeaveRecord(r, y) \/ LookUpFails(r, y)) => ~Relaunch(r)
  BY DEF TakeUp, LeaveRecord, LookUpFails, Relaunch
<1> QED
  BY <1>1, <1>2, <1>3, <1>4, <1>5, <1>6, <1>7, <1>8 DEF ServiceStep, RecoveryNext

\* What one runner may ever have left.
LEMMA ShareIsFinite ==
  ASSUME NEW r
  PROVE  /\ IsFiniteSet({r} \X (1 .. MaxTries))
         /\ Cardinality({r} \X (1 .. MaxTries)) = MaxTries
<1>1. MaxTries \in Nat /\ 1 \in Int /\ MaxTries \in Int
  BY CronAssumption
<1>2. IsFiniteSet(1 .. MaxTries) /\ Cardinality(1 .. MaxTries) = MaxTries
  BY <1>1, FS_Interval
<1>3. IsFiniteSet({r}) /\ Cardinality({r}) = 1
  BY FS_Singleton, Zenon
<1>4. /\ IsFiniteSet({r} \X (1 .. MaxTries))
      /\ Cardinality({r} \X (1 .. MaxTries)) = Cardinality({r}) * Cardinality(1 .. MaxTries)
  BY <1>2, <1>3, FS_Product, Zenon
<1> QED
  BY <1>1, <1>2, <1>3, <1>4

LEMMA LeftIsFinite ==
  /\ IsFiniteSet(Recovering \X (1 .. MaxTries))
  /\ Cardinality(Recovering \X (1 .. MaxTries)) = MaxTries * Cardinality(Recovering)
  /\ \A x \in Entry : IsFiniteSet(Left(x)) /\ Cardinality(Left(x)) \in Nat
                      /\ Left(x) \subseteq Recovering \X (1 .. MaxTries)
<1>1. MaxTries \in Nat /\ 1 \in Int /\ MaxTries \in Int /\ IsFiniteSet(Recovering)
  BY CronAssumption
<1>2. IsFiniteSet(1 .. MaxTries) /\ Cardinality(1 .. MaxTries) = MaxTries
  BY <1>1, FS_Interval
<1>3. /\ IsFiniteSet(Recovering \X (1 .. MaxTries))
      /\ Cardinality(Recovering \X (1 .. MaxTries))
           = Cardinality(Recovering) * Cardinality(1 .. MaxTries)
  BY <1>1, <1>2, FS_Product, Zenon
<1>4. Cardinality(Recovering) \in Nat
  BY <1>1, FS_CardinalityType
<1>5. \A x \in Entry : Left(x) \subseteq Recovering \X (1 .. MaxTries)
  BY DEF Left
<1> QED
  BY <1>1, <1>2, <1>3, <1>4, <1>5, FS_Subset, FS_CardinalityType

\* What is added up of Left(x) of one state and the next, at most.
LEMMA LeftGrows ==
  ASSUME NEW x \in Entry, NEW r, Left(x)' \subseteq Left(x) \cup ({r} \X (1 .. MaxTries))
  PROVE  Cardinality(Left(x)') <= Cardinality(Left(x)) + MaxTries
<1> DEFINE A == Left(x)
           B == {r} \X (1 .. MaxTries)
<1>1. IsFiniteSet(A) /\ Cardinality(A) \in Nat
  BY LeftIsFinite
<1>2. IsFiniteSet(B) /\ Cardinality(B) = MaxTries
  BY ShareIsFinite
<1>3. IsFiniteSet(A \cup B)
      /\ Cardinality(A \cup B) = Cardinality(A) + Cardinality(B) - Cardinality(A \cap B)
  BY <1>1, <1>2, FS_Union
<1>4. Cardinality(A \cap B) \in Nat
  BY <1>1, FS_Intersection, FS_CardinalityType
<1>5. Cardinality(A') <= Cardinality(A \cup B) /\ Cardinality(A') \in Nat
  BY <1>3, FS_Subset, FS_CardinalityType
<1> HIDE DEF A, B
<1>6. Cardinality(A') <= Cardinality(A) + MaxTries
  BY <1>1, <1>2, <1>3, <1>4, <1>5, CronAssumption
<1> QED
  BY <1>6 DEF A

LEMMA LeftShrinks ==
  ASSUME NEW x \in Entry, Left(x)' \subseteq Left(x)
  PROVE  Cardinality(Left(x)') <= Cardinality(Left(x))
BY LeftIsFinite, FS_Subset

\* A service has its attempts again with every life it starts.
LEMMA LivesGrow ==
  ASSUME NEW k \in Nat
  PROVE  MaxTries * (k + 1) = MaxTries * k + MaxTries /\ MaxTries * k \in Nat
<1>1. MaxTries \in Nat
  BY CronAssumption
<1> QED
  BY <1>1

LEMMA LivesAre ==
  ASSUME TypeOK
  PROVE  Lives \in Nat /\ faults \in Nat /\ stops \in Nat /\ Cardinality(Recovering) \in Nat
<1>1. Cardinality(Recovering) \in Nat
  BY CronAssumption, FS_CardinalityType
<1>2. faults \in Nat /\ stops \in Nat
  BY DEF TypeOK
<1> QED
  BY <1>1, <1>2 DEF Lives

LEMMA CountersGrow ==
  [Next]_vars =>
    /\ \/ stops' = stops /\ faults' = faults
       \/ stops' = stops + 1 /\ faults' = faults
       \/ stops' = stops /\ faults' = faults + 1
    /\ recovered' = recovered \/ \E r \in Runners : Relaunch(r)
<1>1. CASE Tick \/ Clients \/ UNCHANGED vars
  BY <1>1 DEF Tick, Clients, Client, Register, SetEnabled, Delete, PrepareUpdate, WriteUpdate
<1>2. ASSUME NEW r \in Runners, PollStep(r) \/ ClaimStep(r) \/ SlotStep(r)
      PROVE  stops' = stops /\ (faults' = faults \/ faults' = faults + 1) /\ recovered' = recovered
  BY <1>2 DEF PollStep, Wake, Query, QueryFails, EndPoll, EndSlots, PassOver, ClaimStep, Claim,
              ClaimFails, SlotStep, Record, RecordFails, Launch, PipelineEnds, GiveUp, Link,
              LinkFails, Loop, Fault
<1>3. ASSUME NEW r \in Runners, ServiceStep(r)
      PROVE  /\ stops' = stops /\ (faults' = faults \/ faults' = faults + 1)
             /\ recovered' = recovered \/ Relaunch(r)
  BY <1>3 DEF ServiceStep, RecoveryNext, FindLost, EndRecovery, TakeUp, LeaveRecord, Relaunch,
              RecoveredEnds, GiveUpRecovery, LinkRecovered, LinkRecoveredFails, LookUpFails,
              Service, Fault
<1>4. ASSUME NEW r \in Runners, Restart(r)
      PROVE  stops' = stops + 1 /\ faults' = faults /\ recovered' = recovered
  BY <1>4 DEF Restart
<1> QED
  BY <1>1, <1>2, <1>3, <1>4, Steps

LEMMA BudgetStays ==
  ASSUME IInv, BInv, [Next]_vars, NEW x \in Entry
  PROVE  recovered'[x] + Cardinality(Left(x)') <= MaxTries * Lives'
<1> DEFINE C == Cardinality(Left(x))
           D == Cardinality(Left(x)')
<1>1. /\ TypeOK /\ MaxTries \in Nat /\ recovered[x] \in Nat /\ C \in Nat /\ D \in Nat
      /\ Lives \in Nat /\ Cardinality(Recovering) \in Nat /\ stops \in Nat /\ faults \in Nat
  <2>1. IsFiniteSet(Left(x)') /\ C \in Nat
    BY LeftIsFinite, FS_Subset DEF Left
  <2> QED
    BY <2>1, LivesAre, CronAssumption, FS_CardinalityType DEF IInv, Base, TypeOK
<1>2. /\ recovered[x] + C <= MaxTries * Lives
      /\ MaxTries * (Lives + 1) = MaxTries * Lives + MaxTries /\ MaxTries * Lives \in Nat
  BY <1>1, LivesGrow DEF BInv, BudgetIsKept
<1>3. Lives' = Lives \/ Lives' = Lives + 1
  BY <1>1, CountersGrow DEF Lives
<1>4. ASSUME NEW p \in Left(x)', Memory(p[1])' = Memory(p[1]) PROVE p \in Left(x)
  <2>1. /\ p \in Recovering \X (1 .. MaxTries) /\ p[1] \in Runners
        /\ MayLaunch(p[1], x, p[2])'
    BY CronAssumption DEF Left
  <2>2. MayLaunch(p[1], x, p[2])
    BY <1>4, <2>1, OthersHaveNoMore
  <2> QED
    BY <2>1, <2>2 DEF Left
<1>5. ASSUME NEW r \in Runners, Restart(r) \/ LinkRecoveredFails(r)
      PROVE  recovered'[x] + D <= MaxTries * Lives'
  <2>1. Left(x)' \subseteq Left(x) \cup ({r} \X (1 .. MaxTries))
    <3> SUFFICES ASSUME NEW p \in Left(x)', p[1] # r PROVE p \in Left(x)
      BY DEF Left
    <3>1. p[1] \in Runners
      BY CronAssumption DEF Left
    <3>2. Memory(p[1])' = Memory(p[1])
      BY <1>1, <1>5, <3>1 DEF TypeOK, Memory, Restart, LinkRecoveredFails, NextLost, Forget, RGoto
    <3> QED
      BY <1>4, <3>2
  <2>2. D <= C + MaxTries
    BY <2>1, LeftGrows
  <2>3. Lives' = Lives + 1 /\ recovered' = recovered
    BY <1>1, <1>5 DEF Restart, LinkRecoveredFails, Fault, Lives, Service
  <2> HIDE DEF C, D
  <2> QED
    BY <1>1, <1>2, <2>2, <2>3
<1>6. ASSUME ~\E r \in Runners : Restart(r) \/ LinkRecoveredFails(r)
      PROVE  recovered'[x] + D <= MaxTries * Lives'
  <2>1. ASSUME NEW p \in Left(x)'
        PROVE  /\ p \in Left(x)
               /\ \A r \in Runners : Relaunch(r) /\ x = hand[r] => p # <<r, tries[r][x]>>
    <3>1. /\ p \in Recovering \X (1 .. MaxTries) /\ p[1] \in Runners /\ p[2] \in Nat
          /\ p = <<p[1], p[2]>>
          /\ MayLaunch(p[1], x, p[2])'
      BY CronAssumption DEF Left
    <3>2. CASE Memory(p[1])' = Memory(p[1])
      <4>1. ~Relaunch(p[1])
        BY <1>1, <3>1, <3>2 DEF Relaunch, RGoto, Memory, TypeOK
      <4> QED
        BY <1>4, <3>1, <3>2, <4>1
    <3>3. CASE Memory(p[1])' # Memory(p[1])
      <4>1. ServiceStep(p[1]) /\ ~LinkRecoveredFails(p[1])
        BY <1>6, <3>1, <3>3, MemoryIsItsOwn
      <4>2. /\ MayLaunch(p[1], x, p[2])
            /\ ~(Relaunch(p[1]) /\ x = hand[p[1]] /\ p[2] = tries[p[1]][x])
        BY <3>1, <4>1, ServiceHasNoMore DEF BInv
      <4> QED
        BY <3>1, <4>2 DEF Left
    <3> QED
      BY <3>2, <3>3
  <2>2. D <= C
    BY <2>1, LeftShrinks
  <2>3. CASE recovered'[x] = recovered[x]
    <3> HIDE DEF C, D
    <3> QED
      BY <1>1, <1>2, <1>3, <2>2, <2>3
  <2>4. CASE recovered'[x] # recovered[x]
    <3>1. PICK r \in Runners : Relaunch(r)
      BY <2>4, CountersGrow
    <3>2. x = hand[r] /\ recovered'[x] = recovered[x] + 1
      BY <1>1, <2>4, <3>1 DEF Relaunch, TypeOK
    <3> DEFINE o == <<r, tries[r][x]>>
    <3>3. o \in Left(x)
      BY <3>1, <3>2 DEF Relaunch, BInv, BudgetShape, HandShape, Left, MayLaunch, Settled, Busy,
                        Pending
    <3>4. Left(x)' \subseteq Left(x) \ {o}
      BY <2>1, <3>1, <3>2
    <3>5. IsFiniteSet(Left(x) \ {o}) /\ Cardinality(Left(x) \ {o}) = C - 1
      BY <3>3, LeftIsFinite, FS_RemoveElement
    <3>6. D <= C - 1
      BY <3>4, <3>5, FS_Subset
    <3> HIDE DEF C, D
    <3> QED
      BY <1>1, <1>2, <1>3, <3>2, <3>6
  <2> QED
    BY <2>3, <2>4
<1> QED
  BY <1>5, <1>6

LEMMA BInvHoldsFirst == Init => BInv
<1> SUFFICES ASSUME Init PROVE BInv
  OBVIOUS
<1>1. BudgetShape
  BY CronAssumption DEF Init, BudgetShape, RecordsGoWithSchedule, HandShape, Busy
<1>2. ASSUME NEW x \in Entry PROVE recovered[x] + Cardinality(Left(x)) <= MaxTries * Lives
  <2>1. recovered[x] = 0 /\ Lives = Cardinality(Recovering)
    BY CronAssumption, FS_CardinalityType DEF Init, Lives
  <2>2. Cardinality(Left(x)) <= Cardinality(Recovering \X (1 .. MaxTries))
    BY LeftIsFinite, FS_Subset
  <2>3. Cardinality(Left(x)) \in Nat
    BY LeftIsFinite
  <2> QED
    BY <2>1, <2>2, <2>3, LeftIsFinite
<1> QED
  BY <1>1, <1>2 DEF BInv, BudgetIsKept

\* A lost execution is launched again at most max_recovery_attempts times by
\* each service, and as often again for a restart or for a link that failed:
\* neither the services that find it at once nor the attempts cron_recovery.rs
\* forgets after a launch that counted as a success exceed it.
THEOREM RecoveryStaysBounded == Spec => []RecoveryIsBounded
<1>1. IInv /\ BInv /\ [Next]_vars => BInv'
  BY BudgetShapeStays, BudgetStays DEF BInv, BudgetIsKept
<1>2. IInv /\ BInv => RecoveryIsBounded
  <2> SUFFICES ASSUME IInv, BInv, NEW x \in Entry PROVE recovered[x] <= MaxTries * Lives
    BY DEF RecoveryIsBounded, Lives
  <2>1. recovered[x] \in Nat /\ Lives \in Nat /\ MaxTries * Lives \in Nat
    BY LivesAre, LivesGrow DEF IInv, Base, TypeOK
  <2>2. Cardinality(Left(x)) \in Nat /\ recovered[x] + Cardinality(Left(x)) <= MaxTries * Lives
    BY LeftIsFinite DEF BInv, BudgetIsKept
  <2> QED
    BY <2>1, <2>2
<1> QED
  BY <1>1, <1>2, BInvHoldsFirst, Invariance, PTL DEF Spec
=============================================================================
