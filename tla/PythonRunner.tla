---------------------------- MODULE PythonRunner ----------------------------
(***************************************************************************)
(* A runner as Python programs use it (bindings/cloaca-backend/runner.rs,  *)
(* task.rs) and the waiting done for them by the runner they reach         *)
(* (runner/default_runner/pipeline_executor_impl.rs, pipeline_result.rs).  *)
(*                                                                         *)
(* The runner lives on a thread of its own, with an asynchronous runtime.  *)
(* A call from Python locks the handle, puts a message with a reply        *)
(* channel in a queue, and blocks on the reply; the thread takes the       *)
(* messages one by one and spawns a job for each.  The job of an execute   *)
(* call schedules a pipeline and polls it until it has ended.  The body of *)
(* a task is a blocking call into Python, on a thread of the runtime's     *)
(* pool, which the scheduling loop awaits; a body may itself call the      *)
(* runner it runs on.  Stopping sends a message and joins the thread, for  *)
(* five seconds at most, with the handle locked.                           *)
(*                                                                         *)
(* A pipeline here is one task tried once (TaskScheduler has the rest).    *)
(* Reply channels are the call's own state: "lost" is a channel closed     *)
(* without a reply.                                                        *)
(***************************************************************************)
EXTENDS Naturals, Sequences, SequencesExt, FiniteSets

CONSTANTS
    Calls,         \* the calls made by the Python program
    Nested,        \* a function: the call the body of a call's task makes, if any
    Stoppers,      \* calls of shutdown: by hand, on leaving a with block, on drop
    Constructors,  \* how the runner is made
    PipelineTimeout, \* has the runner's configuration a pipeline timeout?
    MaxFaults,     \* bound: failures of the database
    MaxCancels     \* bound: cancellations by another program

Inner == {Nested[c] : c \in DOMAIN Nested}

None == "none"

ASSUME PythonRunnerAssumption ==
    /\ DOMAIN Nested \subseteq Calls /\ Inner \subseteq Calls
    /\ Inner \cap DOMAIN Nested = {}
    /\ \A c, d \in DOMAIN Nested : Nested[c] = Nested[d] => c = d
    /\ Stoppers \cap Calls = {}
    /\ {None, "shutdown"} \cap (Calls \cup Stoppers) = {}
    /\ Constructors \subseteq {"new", "with_config", "with_schema"}
    /\ PipelineTimeout \in BOOLEAN
    /\ MaxFaults \in Nat /\ MaxCancels \in Nat

VARIABLES
    made,      \* the constructor that has made the runner
    thread,    \* where its thread is
    panicked,  \* has the thread panicked?
    queue,     \* the messages not taken yet
    taken,     \* has the handle of the thread been taken for joining?
    lock,      \* the stopper that holds the handle
    stop,      \* what each stopper has got
    kind,      \* what each call asks for
    call,      \* what each call has got
    job,       \* the job that serves each call
    pipeline,  \* the status of the pipeline each execute call started
    body,      \* the body of its task
    loop,      \* the call whose body the scheduling loop awaits
    faults, cancels

vars == <<made, thread, panicked, queue, taken, lock, stop, kind, call, job,
          pipeline, body, loop, faults, cancels>>

handleVars == <<made, taken, lock, stop>>
workVars   == <<pipeline, body, loop>>
faultVars  == <<faults, cancels>>

\* What the queue carries: a call, or the order to stop.
RuntimeMessage == Calls \cup {"shutdown"}

\* What shutdown raises; the other thing that can come of it is "ok".
Raised == {"timeout", "panic"}

Alive == {"starting", "looping", "closing", "dropping"}  \* the queue can be reached
Runs == thread \in {"looping", "closing"}                 \* the runtime runs its jobs
Answered == {"completed", "failed", "done", "error", "timeout", "lost"}

-----------------------------------------------------------------------------
(***************************************************************************)
(* Making the runner.                                                      *)
(***************************************************************************)

Spawn(c) ==
    /\ made = None
    /\ c \in Constructors
    /\ made' = c
    /\ thread' = "starting"
    /\ UNCHANGED <<panicked, queue, taken, lock, stop, call, job, kind, workVars, faultVars>>

New        == Spawn("new")
WithConfig == Spawn("with_config")

\* with_schema makes a runner on a runtime of its own first; when that fails
\* the caller is told and there is no thread.
WithSchema == Spawn("with_schema")

\* A call whose message is dropped: its reply channel is closed.
Lose(S) == [c \in Calls |-> IF c \in S THEN "lost" ELSE call[c]]

\* The runner is made on the thread; when that fails the thread panics, and
\* the calls in the queue lose their reply.
Started ==
    /\ thread = "starting"
    /\ thread' = "looping"
    /\ UNCHANGED <<handleVars, panicked, queue, call, job, kind, workVars, faultVars>>

StartFails ==
    /\ thread = "starting"
    /\ faults < MaxFaults
    /\ faults' = faults + 1
    /\ thread' = "gone" /\ panicked' = TRUE
    /\ call' = Lose(Range(queue) \cap Calls)
    /\ queue' = <<>>
    /\ UNCHANGED <<kind, handleVars, job, workVars, cancels>>

-----------------------------------------------------------------------------
(***************************************************************************)
(* Calling it.                                                             *)
(***************************************************************************)

\* A call by the program, or by the body of a task.
MayCall(c) == \A o \in DOMAIN Nested : Nested[o] = c => body[o] = "running"

Send(m) == queue' = IF thread \in Alive THEN Append(queue, m) ELSE queue

Submit(c, k) ==
    /\ made # None
    /\ call[c] = "idle"
    /\ MayCall(c)
    /\ lock = None
    /\ Send(c)
    /\ kind' = [kind EXCEPT ![c] = k]
    /\ call' = [call EXCEPT ![c] = IF thread \in Alive THEN "waiting" ELSE "lost"]
    /\ UNCHANGED <<handleVars, thread, panicked, job, workVars, faultVars>>

SubmitExecute(c) == Submit(c, "execute")

\* The methods about schedules and their history each send a message of their
\* own: to register, list and enable a schedule; to delete, get and update one,
\* whose identifier is read by the job and not here; to ask what has been run.
SubmitAsk(c)     == Submit(c, "ask")
SubmitAskById(c) == Submit(c, "ask")
SubmitHistory(c) == Submit(c, "ask")

MakesCall(c) == SubmitExecute(c) \/ SubmitAsk(c) \/ SubmitAskById(c) \/ SubmitHistory(c)

\* A date that cannot be read is refused before anything is sent.
AskBadly(c) ==
    /\ made # None
    /\ call[c] = "idle"
    /\ MayCall(c)
    /\ call' = [call EXCEPT ![c] = "error"]
    /\ UNCHANGED <<handleVars, thread, panicked, queue, kind, job, workVars, faultVars>>

-----------------------------------------------------------------------------
(***************************************************************************)
(* The message loop: each constructor has its own copy.                    *)
(***************************************************************************)

TakeMessage ==
    /\ thread = "looping"
    /\ queue # <<>>
    /\ queue' = Tail(queue)
    /\ IF Head(queue) \in Calls
       THEN /\ job' = [job EXCEPT ![Head(queue)] = "spawned"]
            /\ UNCHANGED thread
       ELSE /\ thread' = "closing"
            /\ UNCHANGED job
    /\ UNCHANGED <<handleVars, panicked, call, kind, workVars, faultVars>>

TakeMessageOfNew    == made = "new" /\ TakeMessage
TakeMessageOfConfig == made = "with_config" /\ TakeMessage
TakeMessageOfSchema == made = "with_schema" /\ TakeMessage

-----------------------------------------------------------------------------
(***************************************************************************)
(* The jobs.                                                               *)
(***************************************************************************)

Reply(c, answer) ==
    /\ job' = [job EXCEPT ![c] = "done"]
    /\ call' = [call EXCEPT ![c] = answer]

Fault == faults < MaxFaults /\ faults' = faults + 1

\* A call of the database fails, or the workflow or the schedule is unknown.
JobFails(c) ==
    /\ Runs
    /\ job[c] \in {"spawned", "polling", "building"}
    /\ Fault
    /\ Reply(c, "error")
    /\ UNCHANGED <<kind, handleVars, thread, panicked, queue, workVars, cancels>>

\* A question is answered at once; an identifier that cannot be read is an error.
ServeAsk(c) ==
    /\ Runs
    /\ kind[c] = "ask" /\ job[c] = "spawned"
    /\ \E answer \in {"done", "error"} : Reply(c, answer)
    /\ UNCHANGED <<handleVars, thread, panicked, queue, kind, workVars, faultVars>>

\* execute: schedule the workflow ...
Schedule(c) ==
    /\ Runs
    /\ kind[c] = "execute" /\ job[c] = "spawned"
    /\ job' = [job EXCEPT ![c] = "polling"]
    /\ pipeline' = [pipeline EXCEPT ![c] = "Pending"]
    /\ UNCHANGED <<kind, handleVars, thread, panicked, queue, call, body, loop, faultVars>>

HasEnded(status) == status \in {"Completed", "Failed"}

\* Mutant of TimesOut: the time is looked at once the pipeline has ended.
TimesOutAtEnd(c) ==
    /\ Runs
    /\ PipelineTimeout
    /\ job[c] = "polling" /\ HasEnded(pipeline[c])
    /\ Reply(c, "timeout")
    /\ UNCHANGED <<handleVars, thread, panicked, queue, kind, workVars, faultVars>>

\* ... then look at it every half second: too late, ended, or not yet.
TimesOut(c) ==
    /\ Runs
    /\ PipelineTimeout
    /\ job[c] = "polling"
    /\ Reply(c, "timeout")
    /\ UNCHANGED <<handleVars, thread, panicked, queue, kind, workVars, faultVars>>

SeesEnd(c) ==
    /\ Runs
    /\ job[c] = "polling"
    /\ HasEnded(pipeline[c])
    /\ job' = [job EXCEPT ![c] = "building"]
    /\ UNCHANGED <<handleVars, thread, panicked, queue, call, kind, workVars, faultVars>>

\* build_pipeline_result reads the pipeline again.
BuildResult(c) ==
    /\ Runs
    /\ job[c] = "building"
    /\ Reply(c, IF pipeline[c] = "Completed" THEN "completed" ELSE "failed")
    /\ UNCHANGED <<handleVars, thread, panicked, queue, kind, workVars, faultVars>>

\* Another program cancels the pipeline, whatever its status.
Cancel(c) ==
    /\ cancels < MaxCancels
    /\ pipeline[c] # None
    /\ pipeline' = [pipeline EXCEPT ![c] = "Cancelled"]
    /\ cancels' = cancels + 1
    /\ UNCHANGED <<kind, handleVars, thread, panicked, queue, call, job, body, loop, faults>>

-----------------------------------------------------------------------------
(***************************************************************************)
(* The scheduling loop and the bodies it awaits.                           *)
(***************************************************************************)

Dispatch(c) ==
    /\ Runs
    /\ loop = None
    /\ pipeline[c] = "Pending" /\ body[c] = None
    /\ loop' = c
    /\ body' = [body EXCEPT ![c] = "running"]
    /\ UNCHANGED <<kind, handleVars, thread, panicked, queue, call, job, pipeline, faultVars>>

\* The body returns, to nobody when the loop or the runtime has given it up.
BodyReturns(c) ==
    /\ body[c] = "running"
    /\ c \in DOMAIN Nested => call[Nested[c]] \in Answered
    /\ body' = [body EXCEPT ![c] = "ended"]
    /\ UNCHANGED <<kind, handleVars, thread, panicked, queue, call, job, pipeline, loop, faultVars>>

\* The pass that awaited the body ends the pipeline.
Finish(c, status) ==
    /\ Runs
    /\ loop = c
    /\ body[c] = "ended"
    /\ pipeline' = [pipeline EXCEPT ![c] = status]
    /\ loop' = None
    /\ UNCHANGED <<kind, handleVars, thread, panicked, queue, call, job, body, faultVars>>

\* The task timeout: the loop stops waiting, the body goes on.
TaskTimesOut(c) ==
    /\ Runs
    /\ loop = c
    /\ body[c] = "running"
    /\ pipeline' = [pipeline EXCEPT ![c] = "Failed"]
    /\ loop' = None
    /\ UNCHANGED <<kind, handleVars, thread, panicked, queue, call, job, body, faultVars>>

-----------------------------------------------------------------------------
(***************************************************************************)
(* Stopping it.                                                            *)
(***************************************************************************)

\* A thread joined before is not joined again.
NothingToJoin == taken

\* The handle stays locked while the thread is joined.
Shutdown(s) ==
    /\ made # None
    /\ stop[s] = "idle"
    /\ lock = None
    /\ Send("shutdown")
    /\ taken' = TRUE
    /\ IF NothingToJoin
       THEN stop' = [stop EXCEPT ![s] = "ok"] /\ UNCHANGED lock
       ELSE stop' = [stop EXCEPT ![s] = "joining"] /\ lock' = s
    /\ UNCHANGED <<made, thread, panicked, call, job, kind, workVars, faultVars>>

JoinEnds(s, got) ==
    /\ stop[s] = "joining"
    /\ stop' = [stop EXCEPT ![s] = got]
    /\ lock' = None
    /\ UNCHANGED <<made, taken, thread, panicked, queue, call, job, kind, workVars, faultVars>>

Joined(s)       == thread = "gone" /\ JoinEnds(s, IF panicked THEN "panic" ELSE "ok")
JoinTimesOut(s) == thread # "gone" /\ JoinEnds(s, "timeout")

\* The thread leaves its loop and drops the runtime: what it was running
\* asynchronously is cancelled where it stands, jobs and scheduling loop, ...
Cancelled == {c \in Calls : job[c] \in {"spawned", "polling", "building"}}

DropRuntime ==
    /\ thread = "closing"
    /\ thread' = "dropping"
    /\ call' = Lose(Cancelled)
    /\ job' = [c \in Calls |-> IF c \in Cancelled THEN "done" ELSE job[c]]
    /\ loop' = None
    /\ UNCHANGED <<kind, handleVars, panicked, queue, pipeline, body, faultVars>>

\* Mutant of BodiesEnded: the blocking calls are left to themselves.
BodiesAbandoned == TRUE

\* ... it waits for the blocking calls, ...
BodiesEnded == \A c \in Calls : body[c] # "running"

\* ... and only then, with the thread, goes the receiving end of the queue.
EndThread ==
    /\ thread = "dropping"
    /\ BodiesEnded
    /\ thread' = "gone"
    /\ call' = Lose(Range(queue) \cap Calls)
    /\ queue' = <<>>
    /\ UNCHANGED <<handleVars, panicked, job, kind, workVars, faultVars>>

-----------------------------------------------------------------------------
Init ==
    /\ made = None /\ thread = None /\ panicked = FALSE
    /\ queue = <<>>
    /\ taken = FALSE /\ lock = None
    /\ stop = [s \in Stoppers |-> "idle"]
    /\ kind = [c \in Calls |-> None]
    /\ call = [c \in Calls |-> "idle"]
    /\ job = [c \in Calls |-> None]
    /\ pipeline = [c \in Calls |-> None]
    /\ body = [c \in Calls |-> None]
    /\ loop = None
    /\ faults = 0 /\ cancels = 0

\* What the runtime, the bodies and the timers do by themselves.
Progress ==
    \/ Started
    \/ TakeMessageOfNew \/ TakeMessageOfConfig \/ TakeMessageOfSchema
    \/ \E c \in Calls :
        \/ ServeAsk(c) \/ Schedule(c) \/ TimesOut(c) \/ SeesEnd(c) \/ BuildResult(c)
        \/ Dispatch(c) \/ BodyReturns(c) \/ TaskTimesOut(c)
        \/ \E status \in {"Completed", "Failed"} : Finish(c, status)
    \/ \E c \in Inner : MakesCall(c) \/ AskBadly(c)
    \/ \E s \in Stoppers : Joined(s) \/ JoinTimesOut(s)
    \/ DropRuntime \/ EndThread

\* What others do.
Environment ==
    \/ New \/ WithConfig \/ WithSchema
    \/ StartFails
    \/ \E c \in Calls \ Inner : MakesCall(c) \/ AskBadly(c)
    \/ \E c \in Calls : JobFails(c) \/ Cancel(c)
    \/ \E s \in Stoppers : Shutdown(s)

Next == Progress \/ Environment

Spec == Init /\ [][Next]_vars

\* The runtime polls every job that is ready, the threads run, the timers
\* fire: each of these steps is taken once it stays possible.  The scheduling
\* loop goes through the active pipelines in every pass.
Fairness ==
    /\ WF_vars(Started)
    /\ WF_vars(TakeMessage)
    /\ \A c \in Calls :
        /\ WF_vars(ServeAsk(c) \/ Schedule(c)) /\ WF_vars(TimesOut(c))
        /\ WF_vars(SeesEnd(c)) /\ WF_vars(BuildResult(c))
        /\ SF_vars(Dispatch(c)) /\ WF_vars(BodyReturns(c)) /\ WF_vars(TaskTimesOut(c))
        /\ WF_vars(Finish(c, "Completed") \/ Finish(c, "Failed"))
    /\ \A c \in Inner : WF_vars(MakesCall(c) \/ AskBadly(c))
    /\ \A s \in Stoppers : WF_vars(Joined(s) \/ JoinTimesOut(s))
    /\ WF_vars(DropRuntime) /\ WF_vars(EndThread)

FairSpec == Spec /\ Fairness

-----------------------------------------------------------------------------
(***************************************************************************)
(* What must hold.                                                         *)
(***************************************************************************)

\* Every variable has its type; a call waits exactly while its message or its
\* job is there; the loop awaits a body only while the runtime runs.
TypeOK ==
    /\ made \in Constructors \cup {None}
    /\ thread \in Alive \cup {None, "gone"}
    /\ panicked \in BOOLEAN /\ taken \in BOOLEAN
    /\ \A i \in 1..Len(queue) : queue[i] \in RuntimeMessage
    /\ lock \in Stoppers \cup {None}
    /\ stop \in [Stoppers -> {"idle", "joining", "ok"} \cup Raised]
    /\ kind \in [Calls -> {None, "execute", "ask"}]
    /\ call \in [Calls -> Answered \cup {"idle", "waiting"}]
    /\ job \in [Calls -> {None, "spawned", "polling", "building", "done"}]
    /\ pipeline \in [Calls -> {None, "Pending", "Completed", "Failed", "Cancelled"}]
    /\ body \in [Calls -> {None, "running", "ended"}]
    /\ loop \in Calls \cup {None}
    /\ faults \in 0..MaxFaults /\ cancels \in 0..MaxCancels
    /\ \A c \in Calls : call[c] = "waiting" <=> (c \in Range(queue) \/ c \in Cancelled)
    /\ loop # None => Runs

\* A shutdown that succeeds has stopped everything: the thread is gone, no
\* body runs and nobody is left waiting.  A second shutdown has nothing to
\* join and succeeds at once, so this needs that none has timed out before.
StoppedIsQuiet ==
    (\E s \in Stoppers : stop[s] = "ok") /\ (\A s \in Stoppers : stop[s] # "timeout") =>
        /\ thread = "gone"
        /\ \A c \in Calls : body[c] # "running"
        /\ \A c \in Calls : call[c] # "waiting"

\* The one way to be left behind: a body that calls its own runner after the
\* shutdown message, and waits in a queue that goes only when it returns.
LeftBehind ==
    /\ thread = "dropping"
    /\ \E c \in Inner : c \in Range(queue)

\* Whoever calls gets an answer, and a runner told to stop does: the reply,
\* an error, a timeout, or a closed channel, even when a body calls the
\* runner whose scheduling loop awaits it.
EveryoneReturns ==
    /\ \A c \in Calls : (call[c] = "waiting") ~> (call[c] \in Answered \/ LeftBehind)
    /\ \A s \in Stoppers : (stop[s] = "joining") ~> (stop[s] \in {"ok"} \cup Raised)
    /\ (\E s \in Stoppers : stop[s] # "idle") ~> (thread = "gone" \/ LeftBehind)
=============================================================================
