---------------------------- MODULE PythonProofs ----------------------------
(***************************************************************************)
(* What a shutdown promises, for any calls, bodies that call their own     *)
(* runner, and any number of shutdowns.                                    *)
(***************************************************************************)
EXTENDS PythonRunner, TLAPS

USE DEF Raised

\* A call is in the queue once.
Distinct(q) == \A i, j \in 1..Len(q) : q[i] = q[j] /\ q[i] \in Calls => i = j

\* A call has no job before its message is taken.
JobsComeLater == \A c \in Calls : call[c] = "idle" \/ c \in Range(queue) => job[c] = None

\* What the position of the thread says of everything else.
ThreadSays ==
    /\ thread = None <=> made = None
    /\ thread \in {None, "starting"} =>
           \A c \in Calls : job[c] = None /\ pipeline[c] = None /\ body[c] = None
    /\ thread \in {"dropping", "gone"} => \A c \in Calls : c \notin Cancelled
    /\ thread = "gone" => queue = <<>> /\ \A c \in Calls : body[c] # "running"

\* The first to stop the runner holds the handle until the thread is joined
\* or the time is up; the others come after it and have nothing to join.
JoinedFirst ==
    /\ \A s \in Stoppers : stop[s] = "joining" <=> lock = s
    /\ ~taken => \A s \in Stoppers : stop[s] = "idle"
    /\ lock # None => \A s \in Stoppers \ {lock} : stop[s] = "idle"
    /\ taken /\ lock = None /\ (\A s \in Stoppers : stop[s] # "timeout") => thread = "gone"

QueueOK == queue \in Seq(RuntimeMessage) /\ Distinct(queue)

RunnerInv == TypeOK /\ QueueOK /\ JobsComeLater /\ ThreadSays /\ JoinedFirst

LEMMA AppendMeans ==
    ASSUME NEW q \in Seq(RuntimeMessage), NEW m \in RuntimeMessage
    PROVE  /\ Append(q, m) \in Seq(RuntimeMessage)
           /\ \A x : x \in Range(Append(q, m)) <=> x \in Range(q) \/ x = m
           /\ Distinct(q) /\ (m \in Calls => m \notin Range(q)) => Distinct(Append(q, m))
<1>1. /\ Append(q, m) \in Seq(RuntimeMessage) /\ Len(Append(q, m)) = Len(q) + 1
      /\ Len(q) \in Nat /\ DOMAIN q = 1..Len(q)
      /\ DOMAIN Append(q, m) = 1..(Len(q) + 1)
      /\ \A i \in 1..Len(q) : Append(q, m)[i] = q[i]
      /\ Append(q, m)[Len(q) + 1] = m
  OBVIOUS
<1>2. \A x : x \in Range(Append(q, m)) <=> x \in Range(q) \/ x = m
  BY <1>1 DEF Range
<1>3. ASSUME Distinct(q), m \in Calls => m \notin Range(q)
      PROVE  Distinct(Append(q, m))
  BY <1>1, <1>3 DEF Distinct, Range
<1> QED
  BY <1>1, <1>2, <1>3

LEMMA TailMeans ==
    ASSUME NEW q \in Seq(RuntimeMessage), q # <<>>, Distinct(q)
    PROVE  /\ Tail(q) \in Seq(RuntimeMessage) /\ Head(q) \in RuntimeMessage
           /\ \A x : x \in Range(q) <=> x \in Range(Tail(q)) \/ x = Head(q)
           /\ Head(q) \in Calls => Head(q) \notin Range(Tail(q))
           /\ Distinct(Tail(q))
<1>1. /\ Len(q) \in Nat \ {0} /\ DOMAIN q = 1..Len(q)
      /\ Tail(q) \in Seq(RuntimeMessage) /\ Len(Tail(q)) = Len(q) - 1
      /\ DOMAIN Tail(q) = 1..(Len(q) - 1)
      /\ \A i \in 1..(Len(q) - 1) : Tail(q)[i] = q[i + 1]
      /\ Head(q) = q[1] /\ q[1] \in RuntimeMessage
  OBVIOUS
<1>2. ASSUME NEW x \in Range(q)
      PROVE  x \in Range(Tail(q)) \/ x = Head(q)
  <2>1. PICK i \in 1..Len(q) : q[i] = x
    BY <1>1 DEF Range
  <2>2. CASE i = 1
    BY <1>1, <2>1, <2>2
  <2>3. CASE i # 1
    <3>1. i - 1 \in 1..(Len(q) - 1) /\ Tail(q)[i - 1] = x
      BY <1>1, <2>1, <2>3
    <3> QED
      BY <1>1, <3>1 DEF Range
  <2> QED
    BY <2>2, <2>3
<1>3. Range(Tail(q)) \subseteq Range(q) /\ Head(q) \in Range(q)
  BY <1>1 DEF Range
<1>4. Head(q) \in Calls => Head(q) \notin Range(Tail(q))
  BY <1>1 DEF Range, Distinct
<1>5. Distinct(Tail(q))
  BY <1>1 DEF Distinct
<1> QED
  BY <1>1, <1>2, <1>3, <1>4, <1>5

LEMMA NothingInEmpty == \A x : x \notin Range(<<>>)
BY DEF Range
USE PythonRunnerAssumption

LEMMA RunnerInvHoldsFirst == Init => RunnerInv
<1> SUFFICES ASSUME Init PROVE RunnerInv
  OBVIOUS
<1> USE NothingInEmpty
        DEF Init, TypeOK, Alive, Runs, Answered, Cancelled, None
<1>1. TypeOK
  <2>1. \A i \in 1..Len(queue) : queue[i] \in RuntimeMessage
    OBVIOUS
  <2>2. \A c \in Calls : call[c] = "waiting" <=> (c \in Range(queue) \/ c \in Cancelled)
    OBVIOUS
  <2>3. faults \in 0..MaxFaults /\ cancels \in 0..MaxCancels
    OBVIOUS
  <2>4. /\ stop \in [Stoppers -> {"idle", "joining", "ok", "timeout", "panic"}]
        /\ kind \in [Calls -> {None, "execute", "ask"}]
        /\ call \in [Calls -> Answered \cup {"idle", "waiting"}]
        /\ job \in [Calls -> {None, "spawned", "polling", "building", "done"}]
        /\ pipeline \in [Calls -> {None, "Pending", "Completed", "Failed", "Cancelled"}]
        /\ body \in [Calls -> {None, "running", "ended"}]
    OBVIOUS
  <2> QED
    BY <2>1, <2>2, <2>3, <2>4
<1>2. QueueOK
  BY DEF QueueOK, Distinct, RuntimeMessage
<1>3. JobsComeLater /\ ThreadSays
  BY DEF JobsComeLater, ThreadSays
<1>4. JoinedFirst
  BY DEF JoinedFirst
<1> QED
  BY <1>1, <1>2, <1>3, <1>4 DEF RunnerInv

\* Making the runner.
LEMMA MakingKeepsInv ==
    ASSUME RunnerInv, New \/ WithConfig \/ WithSchema \/ Started \/ StartFails
    PROVE  RunnerInv'
<1> USE DEF RunnerInv, QueueOK, JobsComeLater, ThreadSays, JoinedFirst, TypeOK,
            Alive, Runs, Answered, Cancelled, None, handleVars, workVars, faultVars
<1>1. ASSUME NEW c, Spawn(c)
      PROVE  RunnerInv'
  BY <1>1 DEF Spawn
<1>2. CASE Started
  BY <1>2 DEF Started
<1>3. CASE StartFails
  BY <1>3, NothingInEmpty DEF StartFails, Lose, Distinct, RuntimeMessage
<1> QED
  BY <1>1, <1>2, <1>3 DEF New, WithConfig, WithSchema

\* A call, sent or refused before it is sent.
LEMMA CallingKeepsInv ==
    ASSUME RunnerInv, NEW c \in Calls, MakesCall(c) \/ AskBadly(c)
    PROVE  RunnerInv'
<1> USE DEF RunnerInv, QueueOK, JobsComeLater, ThreadSays, JoinedFirst, TypeOK,
            Alive, Runs, Answered, Cancelled, None, handleVars, workVars, faultVars
<1>1. ASSUME NEW k \in {"execute", "ask"}, Submit(c, k)
      PROVE  RunnerInv'
  <2> USE <1>1 DEF Submit, Send
  <2>1. CASE thread \in Alive
    <3>1. queue' = Append(queue, c) /\ c \in RuntimeMessage /\ c \notin Range(queue)
      BY <2>1 DEF RuntimeMessage
    <3>2. /\ queue' \in Seq(RuntimeMessage) /\ Distinct(queue)'
          /\ \A x : x \in Range(queue)' <=> x \in Range(queue) \/ x = c
      BY <3>1, AppendMeans DEF Distinct
    <3>3. /\ Len(queue') \in Nat
          /\ \A i \in 1..Len(queue') : queue'[i] \in RuntimeMessage
      BY <3>2 DEF RuntimeMessage
    <3> QED
      BY <2>1, <3>2, <3>3
  <2>2. CASE thread \notin Alive
    BY <2>2 DEF Distinct
  <2> QED
    BY <2>1, <2>2
<1>2. CASE AskBadly(c)
  BY <1>2 DEF AskBadly, Distinct
<1> QED
  BY <1>1, <1>2 DEF MakesCall, SubmitExecute, SubmitAsk, SubmitAskById, SubmitHistory

\* The message loop.
LEMMA TakingKeepsInv ==
    ASSUME RunnerInv, TakeMessage
    PROVE  RunnerInv'
<1> USE DEF RunnerInv, QueueOK, JobsComeLater, ThreadSays, JoinedFirst, TypeOK, TakeMessage,
            Alive, Runs, Answered, Cancelled, None, handleVars, workVars, faultVars
<1>1. /\ queue' \in Seq(RuntimeMessage) /\ Distinct(queue)' /\ Head(queue) \in RuntimeMessage
      /\ \A x : x \in Range(queue) <=> x \in Range(queue)' \/ x = Head(queue)
      /\ Head(queue) \in Calls => Head(queue) \notin Range(queue)'
  BY TailMeans DEF Distinct
<1>2. /\ Len(queue') \in Nat
      /\ \A i \in 1..Len(queue') : queue'[i] \in RuntimeMessage
  BY <1>1 DEF RuntimeMessage
<1> USE DEF RuntimeMessage
<1>3. CASE Head(queue) \in Calls
  <2>1. QueueOK'
    BY <1>1
  <2>2. TypeOK'
    <3> HIDE DEF QueueOK, JobsComeLater, ThreadSays, JoinedFirst
    <3>1. \A x \in Calls : x \in Range(queue) <=> x \in Range(queue)' \/ x = Head(queue)
      BY <1>1
    <3>2. Head(queue) \notin Range(queue)'
      BY <1>1, <1>3
    <3> QED
      BY <1>2, <1>3, <3>1, <3>2, SMTT(30)
  <2>3. JobsComeLater'
    BY <1>1, <1>3
  <2>4. ThreadSays' /\ JoinedFirst'
    BY <1>1, <1>3
  <2> QED
    BY <2>1, <2>2, <2>3, <2>4
<1>4. CASE Head(queue) \notin Calls
  BY <1>1, <1>2, <1>4
<1> QED
  BY <1>3, <1>4

\* The jobs, the bodies and the loop that awaits them.
LEMMA WorkKeepsInv ==
    ASSUME RunnerInv, NEW c \in Calls,
           \/ ServeAsk(c) \/ Schedule(c) \/ TimesOut(c) \/ SeesEnd(c) \/ BuildResult(c)
           \/ JobFails(c) \/ Cancel(c)
           \/ Dispatch(c) \/ BodyReturns(c) \/ TaskTimesOut(c)
           \/ \E status \in {"Completed", "Failed"} : Finish(c, status)
    PROVE  RunnerInv'
<1> USE DEF RunnerInv, QueueOK, JobsComeLater, ThreadSays, JoinedFirst, TypeOK,
            Alive, Runs, Answered, Cancelled, None, handleVars, workVars, faultVars
<1>1. CASE ServeAsk(c)
  BY <1>1 DEF ServeAsk, Reply, Distinct
<1>2. CASE Schedule(c)
  BY <1>2 DEF Schedule, Distinct
<1>3. CASE TimesOut(c)
  BY <1>3 DEF TimesOut, Reply, Distinct
<1>4. CASE SeesEnd(c)
  BY <1>4 DEF SeesEnd, Distinct
<1>5. CASE BuildResult(c)
  BY <1>5 DEF BuildResult, Reply, Distinct
<1>6. CASE JobFails(c)
  BY <1>6 DEF JobFails, Reply, Fault, Distinct
<1>7. CASE Cancel(c)
  BY <1>7 DEF Cancel, Distinct
<1>8. CASE Dispatch(c)
  BY <1>8 DEF Dispatch, Distinct
<1>9. CASE BodyReturns(c)
  BY <1>9 DEF BodyReturns, Distinct
<1>10. CASE TaskTimesOut(c)
  BY <1>10 DEF TaskTimesOut, Distinct
<1>11. ASSUME NEW status \in {"Completed", "Failed"}, Finish(c, status)
       PROVE  RunnerInv'
  BY <1>11 DEF Finish, Distinct
<1> HIDE DEF RunnerInv
<1> QED
  BY <1>1, <1>2, <1>3, <1>4, <1>5, <1>6, <1>7, <1>8, <1>9, <1>10, <1>11

\* A call of shutdown and its end.
LEMMA StoppingKeepsInv ==
    ASSUME RunnerInv, NEW s \in Stoppers, Shutdown(s) \/ Joined(s) \/ JoinTimesOut(s)
    PROVE  RunnerInv'
<1> USE DEF RunnerInv, QueueOK, JobsComeLater, ThreadSays, JoinedFirst, TypeOK,
            Alive, Runs, Answered, Cancelled, None, handleVars, workVars, faultVars
<1>1. CASE Shutdown(s)
  <2> USE <1>1 DEF Shutdown, Send, NothingToJoin
  <2>1. QueueOK' /\ \A x \in Calls : x \in Range(queue)' <=> x \in Range(queue)
    <3>1. CASE thread \in Alive
      <4>1. queue' = Append(queue, "shutdown") /\ "shutdown" \in RuntimeMessage /\ "shutdown" \notin Calls
        BY <3>1 DEF RuntimeMessage
      <4> QED
        BY <4>1, AppendMeans DEF Distinct
    <3>2. CASE thread \notin Alive
      BY <3>2 DEF Distinct
    <3> QED
      BY <3>1, <3>2
  <2>2. /\ Len(queue') \in Nat
        /\ \A i \in 1..Len(queue') : queue'[i] \in RuntimeMessage
    BY <2>1 DEF RuntimeMessage
  <2>3. TypeOK'
    <3> HIDE DEF QueueOK, JobsComeLater, ThreadSays, JoinedFirst
    <3>1. /\ lock' \in Stoppers \cup {None}
          /\ stop' \in [Stoppers -> {"idle", "joining", "ok"} \cup Raised]
          /\ taken' \in BOOLEAN
      OBVIOUS
    <3>2. \A c \in Calls : call[c] = "waiting" <=> (c \in Range(queue)' \/ c \in Cancelled)
      BY <2>1
    <3> QED
      BY <2>2, <3>1, <3>2
  <2>4. JobsComeLater'
    BY <2>1
  <2>5. ThreadSays'
    BY <2>1
  <2>6. JoinedFirst'
    BY <2>1
  <2> QED
    BY <2>1, <2>3, <2>4, <2>5, <2>6
<1>2. ASSUME NEW got \in {"ok", "panic", "timeout"}, JoinEnds(s, got),
             got = "timeout" \/ thread = "gone"
      PROVE  RunnerInv'
  BY <1>2 DEF JoinEnds, Distinct
<1> QED
  BY <1>1, <1>2 DEF Joined, JoinTimesOut

\* The end of the thread.
LEMMA EndingKeepsInv ==
    ASSUME RunnerInv, DropRuntime \/ EndThread
    PROVE  RunnerInv'
<1> USE DEF RunnerInv, QueueOK, JobsComeLater, ThreadSays, JoinedFirst, TypeOK,
            Alive, Runs, Answered, Cancelled, None, Lose, handleVars, workVars, faultVars
<1>1. CASE DropRuntime
  BY <1>1 DEF DropRuntime, Distinct
<1>2. CASE EndThread
  BY <1>2, NothingInEmpty DEF EndThread, BodiesEnded, Distinct, RuntimeMessage
<1> QED
  BY <1>1, <1>2

LEMMA RunnerInvIsInductive == RunnerInv /\ [Next]_vars => RunnerInv'
<1> SUFFICES ASSUME RunnerInv, [Next]_vars
             PROVE  RunnerInv'
  OBVIOUS
<1>1. CASE UNCHANGED vars
  BY <1>1 DEF vars, RunnerInv, QueueOK, Distinct, JobsComeLater, ThreadSays, JoinedFirst,
              TypeOK, Runs, Cancelled
<1>2. CASE Next
  BY <1>2, MakingKeepsInv, CallingKeepsInv, TakingKeepsInv, WorkKeepsInv,
     StoppingKeepsInv, EndingKeepsInv
     DEF Next, Progress, Environment, Inner,
         TakeMessageOfNew, TakeMessageOfConfig, TakeMessageOfSchema
<1> QED
  BY <1>1, <1>2

LEMMA RunnerInvHolds == Spec => []RunnerInv
BY RunnerInvHoldsFirst, RunnerInvIsInductive, PTL DEF Spec

\* Every variable of the handle, the thread, the calls and the bodies keeps
\* its type, and a call waits only while its message or its job is there.
THEOREM RunnerTypeCorrect == Spec => []TypeOK
BY RunnerInvHolds, PTL DEF RunnerInv

\* A shutdown that has not run out of time leaves nothing behind: no thread, no
\* body, no caller that waits, in whatever order calls and shutdowns come.
THEOREM StoppedStaysQuiet == Spec => []StoppedIsQuiet
<1>1. RunnerInv => StoppedIsQuiet
  <2> SUFFICES ASSUME RunnerInv, NEW s \in Stoppers, stop[s] = "ok",
                      \A u \in Stoppers : stop[u] # "timeout"
               PROVE  /\ thread = "gone"
                      /\ \A c \in Calls : body[c] # "running"
                      /\ \A c \in Calls : call[c] # "waiting"
    BY DEF StoppedIsQuiet
  <2>1. taken /\ lock = None
    BY DEF RunnerInv, TypeOK, JoinedFirst, None
  <2>2. thread = "gone"
    BY <2>1 DEF RunnerInv, JoinedFirst
  <2> QED
    BY <2>2, NothingInEmpty DEF RunnerInv, TypeOK, ThreadSays
<1> QED
  BY <1>1, RunnerInvHolds, PTL
=============================================================================
