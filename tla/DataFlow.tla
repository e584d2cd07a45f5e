------------------------------ MODULE DataFlow ------------------------------
(***************************************************************************)
(* The contexts that travel along the tasks of one pipeline: what the      *)
(* scheduler reads to evaluate a trigger rule, what the executor gives to  *)
(* the body, what the body makes of it, what is saved for the tasks after  *)
(* it, and how an error is judged.                                         *)
(*                                                                         *)
(* A context is a function from its keys to JSON values: an object with    *)
(* fields, an array, or anything else, an atom.  Objects are nested one    *)
(* level deep here, so a field holds an array or an atom.  A body is the   *)
(* list of the operations it calls on its context.                         *)
(*                                                                         *)
(* What several dependencies saved under one key is put together three     *)
(* times in the code.  The scheduler and the loader of packages replace    *)
(* the whole value (TakenBack); the executor joins arrays and merges       *)
(* objects field by field (Merged).                                        *)
(***************************************************************************)
EXTENDS Naturals, Sequences, SequencesExt, FiniteSets

CONSTANTS
    Task, Key,
    Field,        \* the fields of the objects
    Depends,      \* the declared dependencies of a task, in order
    Kind,         \* "native", "packaged" or "python"
    Rule,         \* the keys its ContextValue rules ask to exist
    Policy,       \* its retry policy
    Bodies,       \* the bodies it may have
    Caller,       \* who submits the pipeline, as the writer of a value
    Inputs,       \* the contexts a caller may submit
    MaxMisses     \* bound on the tasks for which a read of a context fails

\* Task::retry_policy; a packaged task has no other, and rules only a native one.
DefaultPolicy == [max_attempts |-> 3, conditions |-> {"AllErrors"}]

\* What retry_condition of #[task] says: one of three words, or patterns.
RetryConditions == [never |-> "Never", all |-> "AllErrors",
                    transient |-> "TransientOnly", patterns |-> "ErrorPattern"]

\* The policy #[task] generates has one condition.
GeneratedPolicy(attempts, condition) ==
    [max_attempts |-> attempts, conditions |-> {RetryConditions[condition]}]

Kinds == {"native", "packaged", "python"}

Words == {"plain", "connection", "busy"}

\* The value task t writes is t itself: alone, in an array, or in an array in a
\* field of an object.
Shapes == {"atom", "array", "object"}
Leaf == [shape : {"atom", "array"}, items : Seq(Task \cup {Caller})]
Composite == [shape : {"object"}, fields : UNION {[fs -> Leaf] : fs \in SUBSET Field}]
Value == Leaf \cup Composite

IsContext(c) == DOMAIN c \subseteq Key /\ c \in [DOMAIN c -> Value]

\* A call a body makes on its context.
Operation == [call : {"insert", "update", "set", "remove"}, key : Key,
              shape : Shapes, field : Field]

ASSUME DataFlowAssumption ==
    /\ Depends \in [Task -> Seq(Task)]
    /\ Kind \in [Task -> Kinds]
    /\ Rule \in [Task -> SUBSET Key]
    /\ \A t \in Task : /\ Policy[t].max_attempts \in Nat
                       /\ Policy[t].conditions \subseteq
                              {"AllErrors", "Never", "TransientOnly", "ErrorPattern"}
                       /\ Kind[t] = "packaged" => Policy[t] = DefaultPolicy
                       /\ Kind[t] # "native" => Rule[t] = {}
    /\ \A t \in Task : \A b \in Bodies[t] : b.ops \in Seq(Operation)
    /\ \A c \in Inputs : IsContext(c)
    /\ MaxMisses \in Nat

VARIABLES
    body,         \* the body of each task
    initial,      \* the context the pipeline was submitted with
    status,
    seen,         \* what the trigger rules of a task were evaluated on
    given,        \* what the body of a task was called with
    saved,        \* the contexts of the completed tasks
    missed,       \* the tasks for which a read of a context failed
    verdict       \* what was decided on the error of a task

vars == <<body, initial, status, seen, given, saved, missed, verdict>>

Deps(t) == {Depends[t][i] : i \in DOMAIN Depends[t]}
Empty == [k \in {} |-> 0]
Settled == {"Completed", "Failed", "Skipped"}

-----------------------------------------------------------------------------
(***************************************************************************)
(* The operations of a context.                                            *)
(***************************************************************************)

Atom(v) == [shape |-> "atom", items |-> <<v>>]
Array(v) == [shape |-> "array", items |-> <<v>>]
Object(f, v) == [shape |-> "object", fields |-> [g \in {f} |-> Array(v)]]
IsObject(value) == value.shape = "object"

Written(op, v) ==
    CASE op.shape = "atom" -> Atom(v)
      [] op.shape = "array" -> Array(v)
      [] op.shape = "object" -> Object(op.field, v)

With(context, key, value) ==
    [k \in DOMAIN context \cup {key} |-> IF k = key THEN value ELSE context[k]]

Without(context, key) == [k \in DOMAIN context \ {key} |-> context[k]]

\* insert refuses a key that is there, update one that is not; set, of the
\* Python bindings, does either.
Allowed(op, context) ==
    CASE op.call = "insert" -> op.key \notin DOMAIN context
      [] op.call = "update" -> op.key \in DOMAIN context
      [] OTHER -> TRUE

Apply(op, context, t) ==
    IF op.call = "remove" THEN Without(context, op.key)
    ELSE With(context, op.key, Written(op, t))

\* The body as a Rust function on a mutable context: the first call that is
\* refused ends it with an error.
Run(ops, t, context) ==
    LET run[n \in 0 .. Len(ops)] ==
            IF n = 0 THEN [ok |-> TRUE, context |-> context]
            ELSE IF run[n - 1].ok /\ Allowed(ops[n], run[n - 1].context)
            THEN [ok |-> TRUE, context |-> Apply(ops[n], run[n - 1].context, t)]
            ELSE [ok |-> FALSE, context |-> run[n - 1].context]
    IN  run

Ran(t, context) == Run(body[t].ops, t, context)[Len(body[t].ops)]

\* Mutant of TakenBack: only the keys that are new are taken.
TakenNew(context, result) ==
    [k \in DOMAIN context \cup DOMAIN result |->
        IF k \in DOMAIN context THEN context[k] ELSE result[k]]

\* DynamicLibraryTask::execute: the context comes back as JSON, and each of its
\* keys replaces, with its whole value, that of the one that was passed.
TakenBack(context, result) ==
    [k \in DOMAIN context \cup DOMAIN result |->
        IF k \in DOMAIN result THEN result[k] ELSE context[k]]

\* What the executor gets from the task.  PythonTaskWrapper::execute takes the
\* context the function returns; when it returns None, the one it was called
\* with, as it was before the call.
Executed(t, context) ==
    LET result == Ran(t, context).context
    IN  CASE Kind[t] = "native" -> result
          [] Kind[t] = "packaged" -> TakenBack(context, result)
          [] Kind[t] = "python" -> IF body[t].returns THEN result ELSE context

-----------------------------------------------------------------------------
(***************************************************************************)
(* What a task starts from.                                                *)
(***************************************************************************)

\* Mutant of MergedLeaf: arrays are joined as they are.
Joined(old, new) ==
    IF old.shape = "array" /\ new.shape = "array"
    THEN [old EXCEPT !.items = @ \o new.items]
    ELSE new

\* merge_context_values: of an array, the items that are not there yet.
Extended(items, more) ==
    LET extended[n \in 0 .. Len(more)] ==
            IF n = 0 THEN items
            ELSE IF Contains(extended[n - 1], more[n]) THEN extended[n - 1]
            ELSE Append(extended[n - 1], more[n])
    IN  extended

MergedLeaf(old, new) ==
    IF old.shape = "array" /\ new.shape = "array"
    THEN [old EXCEPT !.items = Extended(@, new.items)[Len(new.items)]]
    ELSE new

\* Mutant of Merged: an object replaces an object, as in the scheduler.
MergedShallow(old, new) == MergedLeaf(old, new)

\* Objects are merged field by field.
Merged(old, new) ==
    IF IsObject(old) /\ IsObject(new)
    THEN [old EXCEPT !.fields =
             [f \in DOMAIN @ \cup DOMAIN new.fields |->
                 IF f \notin DOMAIN new.fields THEN @[f]
                 ELSE IF f \in DOMAIN @ THEN MergedLeaf(@[f], new.fields[f])
                 ELSE new.fields[f]]]
    ELSE MergedLeaf(old, new)

MergedInto(context, from) ==
    [k \in DOMAIN context \cup DOMAIN from |->
        IF k \notin DOMAIN from THEN context[k]
        ELSE IF k \in DOMAIN context THEN Merged(context[k], from[k]) ELSE from[k]]

\* The executor reads the rows of all dependencies with one query, which has
\* no ORDER BY: they are merged in the order the database returns them, not in
\* the declared one of docs/content/explanation/context-management.md:165.
RowOrders(t) ==
    LET rows == Deps(t) \cap DOMAIN saved
    IN  {o \in [1 .. Cardinality(rows) -> rows] : \A d \in rows : \E i \in DOMAIN o : o[i] = d}

\* build_task_context.
Merging(order) ==
    LET merged[n \in 0 .. Len(order)] ==
            IF n = 0 THEN Empty ELSE MergedInto(merged[n - 1], saved[order[n]])
    IN  merged

Built(t, order) == IF Deps(t) = {} THEN initial ELSE Merging(order)[Len(order)]

\* Mutant of Loaded: the last dependency alone is read.
LoadedLast(t, failed) ==
    LET last == Depends[t][Len(Depends[t])]
    IN  IF Deps(t) = {} THEN initial
        ELSE IF last \in DOMAIN saved \ failed THEN saved[last] ELSE Empty

\* load_context_for_task: one row at a time, in the order of declaration; the
\* value of a later dependency, whole, replaces that of an earlier one.
Loading(t, failed) ==
    LET loaded[n \in 0 .. Len(Depends[t])] ==
            IF n = 0 THEN Empty
            ELSE IF Depends[t][n] \in DOMAIN saved \ failed
            THEN TakenBack(loaded[n - 1], saved[Depends[t][n]])
            ELSE loaded[n - 1]
    IN  loaded

Loaded(t, failed) ==
    IF Deps(t) = {} THEN initial ELSE Loading(t, failed)[Len(Depends[t])]

-----------------------------------------------------------------------------
(***************************************************************************)
(* What is decided on an error: ThreadTaskExecutor::should_retry_task,     *)
(* and RetryPolicy::should_retry, which answers the same question for the  *)
(* users of the library.  An error is of a kind and has a word in its text.*)
(***************************************************************************)

\* No task is dispatched a second time: the attempt of the snapshot is 1.
FirstAttempt == 1

\* How a task that broke comes back to the scheduler.
ExecutionResult(error, retry) ==
    [status |-> IF retry THEN "Retry" ELSE "Failed", error |-> error]

Transient(error) == error.kind = "timeout" \/ error.word = "connection"

Admits(condition, error) ==
    CASE condition = "AllErrors" -> TRUE
      [] condition = "Never" -> FALSE
      [] condition = "TransientOnly" -> Transient(error)
      [] condition = "ErrorPattern" -> error.word = "connection"

\* Mutant of ShouldRetry: one attempt too many.
ShouldRetryOnce(policy, error, attempt) ==
    /\ attempt <= policy.max_attempts
    /\ \A condition \in policy.conditions : Admits(condition, error)

ShouldRetry(policy, error, attempt) ==
    /\ attempt < policy.max_attempts
    /\ \A condition \in policy.conditions : Admits(condition, error)

LibraryTransient(error) ==
    \/ error.kind = "timeout"
    \/ error.kind = "execution" /\ error.word \in {"connection", "busy"}

LibraryRetry(policy, error, attempt) ==
    /\ attempt < policy.max_attempts
    /\ \E condition \in policy.conditions :
          IF condition = "TransientOnly" THEN LibraryTransient(error)
          ELSE Admits(condition, error)

-----------------------------------------------------------------------------

\* Every variable has its type; a context is saved exactly for the tasks that
\* are Completed, a decision is recorded exactly for those that broke.
TypeOK ==
    /\ \A t \in Task : body[t] \in Bodies[t]
    /\ initial \in Inputs
    /\ status \in [Task -> Settled \cup {"NotStarted", "Ready", "Running", "Retry"}]
    /\ DOMAIN saved = {t \in Task : status[t] = "Completed"}
    /\ DOMAIN verdict = {t \in Task : status[t] \in {"Failed", "Retry"}}
    /\ DOMAIN given = {t \in Task : status[t] \notin {"NotStarted", "Ready", "Skipped"}}
    /\ DOMAIN seen = {t \in Task : status[t] # "NotStarted"}
    /\ missed \subseteq DOMAIN seen
    /\ Cardinality(missed) <= MaxMisses

Init ==
    /\ body \in {b \in [Task -> UNION {Bodies[t] : t \in Task}] :
                     \A t \in Task : b[t] \in Bodies[t]}
    /\ initial \in Inputs
    /\ status = [t \in Task |-> "NotStarted"]
    /\ seen = Empty /\ given = Empty /\ saved = Empty /\ verdict = Empty
    /\ missed = {}

MayMiss(t) == t \in missed \/ Cardinality(missed) < MaxMisses

\* check_task_dependencies, then the rules on the loaded context.  What a
\* dependency saved is left out if its row cannot be read, or, of several, its
\* context.  An error of the only context there is ends the pass: no step here.
Evaluate(t) ==
    /\ status[t] = "NotStarted"
    /\ \A d \in Deps(t) : status[d] \in Settled
    /\ \E failed \in SUBSET (Deps(t) \cap DOMAIN saved) :
          /\ failed # {} => MayMiss(t)
          /\ missed' = IF failed = {} THEN missed ELSE missed \cup {t}
          /\ seen' = With(seen, t, Loaded(t, failed))
    /\ status' = [status EXCEPT ![t] = IF Rule[t] \subseteq DOMAIN seen'[t]
                                       THEN "Ready" ELSE "Skipped"]
    /\ UNCHANGED <<body, initial, given, saved, verdict>>

\* execute, until the body is called: a read that fails gives an empty context.
Start(t) ==
    /\ status[t] = "Ready"
    /\ status' = [status EXCEPT ![t] = "Running"]
    /\ \/ /\ \E order \in RowOrders(t) : given' = With(given, t, Built(t, order))
          /\ missed' = missed
       \/ /\ MayMiss(t)
          /\ given' = With(given, t, Empty)
          /\ missed' = missed \cup {t}
    /\ UNCHANGED <<body, initial, seen, saved, verdict>>

\* complete_task_transaction; an empty context is not stored, and reads like
\* one that is.
Complete(t) ==
    /\ status[t] = "Running"
    /\ Ran(t, given[t]).ok
    /\ saved' = With(saved, t, Executed(t, given[t]))
    /\ status' = [status EXCEPT ![t] = "Completed"]
    /\ UNCHANGED <<body, initial, seen, given, missed, verdict>>

\* The body fails, of its own or in a call it makes; it exceeds task_timeout,
\* which cannot happen to a packaged one, as its call blocks; or the result of
\* a packaged one is cut off at the end of the buffer and is no JSON any more.
Errors(t) ==
    [kind : {"execution"},
     word : IF Ran(t, given[t]).ok THEN Words ELSE {"plain"}]
    \cup (IF Kind[t] = "packaged"
          THEN [kind : {"validation"}, word : {"plain", "connection"}]
          ELSE [kind : {"timeout"}, word : {"plain"}])

\* Mutant of Break: the context of a body that failed is saved too.
BreakSaving(t) ==
    /\ status[t] = "Running"
    /\ \E error \in Errors(t) :
          LET result == ExecutionResult(error, ShouldRetry(Policy[t], error, FirstAttempt))
          IN  /\ verdict' = With(verdict, t, result)
              /\ status' = [status EXCEPT ![t] = result.status]
    /\ saved' = With(saved, t, Executed(t, given[t]))
    /\ UNCHANGED <<body, initial, seen, given, missed>>

\* execute, on an error: a task put back is Ready again in the database.
Break(t) ==
    /\ status[t] = "Running"
    /\ \E error \in Errors(t) :
          LET result == ExecutionResult(error, ShouldRetry(Policy[t], error, FirstAttempt))
          IN  /\ verdict' = With(verdict, t, result)
              /\ status' = [status EXCEPT ![t] = result.status]
    /\ UNCHANGED <<body, initial, seen, given, saved, missed>>

Next == \E t \in Task : Evaluate(t) \/ Start(t) \/ Complete(t) \/ Break(t)

Spec == Init /\ [][Next]_vars

-----------------------------------------------------------------------------
(***************************************************************************)
(* Properties                                                              *)
(***************************************************************************)

Touching(k) == {t \in Task : \E i \in DOMAIN body[t].ops : body[t].ops[i].key = k}

\* What a dependency saved reaches the tasks after it, and a key that only one
\* task of the pipeline touches and the caller did not set has, wherever it is
\* seen, the value that task saved: however many ways lead from it, whatever
\* the order the rows are merged in, and through tasks of all three kinds.
SoleWriterIsSeen ==
    \A t \in DOMAIN given :
        /\ t \notin missed =>
              \A d \in Deps(t) \cap DOMAIN saved : DOMAIN saved[d] \subseteq DOMAIN given[t]
        /\ \A k \in DOMAIN given[t] \ DOMAIN initial, w \in Task :
              Touching(k) = {w} => w \in DOMAIN saved /\ given[t][k] = saved[w][k]

\* It makes no difference to the tasks after it whether a task is native,
\* packaged or written in Python, unless it removes a key or returns None.
KindIsTransparent ==
    \A t \in DOMAIN saved :
        (/\ \A i \in DOMAIN body[t].ops : body[t].ops[i].call # "remove"
         /\ body[t].returns)
        => saved[t] = Ran(t, given[t]).context

\* The dependencies of t that saved a value of key k.
Providing(t, k) == {d \in Deps(t) \cap DOMAIN saved : k \in DOMAIN saved[d]}

\* Scheduler and executor read and merge the contexts each in its own way, and
\* still the rules of a task are evaluated on the keys its body is given, with
\* the same value for a key that one of its dependencies alone provides.  If
\* several provide an object, the rules see that of one of them, the body the
\* fields of all: it never lacks a field the rules saw.
RuleAndBodyAgree ==
    \A t \in DOMAIN given \ missed :
        /\ DOMAIN seen[t] = DOMAIN given[t]
        /\ Rule[t] \subseteq DOMAIN given[t]
        /\ \A k \in DOMAIN given[t] :
              /\ Cardinality(Providing(t, k)) <= 1 => seen[t][k] = given[t][k]
              /\ Providing(t, k) # {} /\ (\A d \in Providing(t, k) : IsObject(saved[d][k])) =>
                    /\ \E d \in Providing(t, k) : seen[t][k] = saved[d][k]
                    /\ IsObject(given[t][k])
                    /\ \A d \in Providing(t, k) :
                          DOMAIN saved[d][k].fields \subseteq DOMAIN given[t][k].fields

\* The executor retries what RetryPolicy::should_retry says is to be retried,
\* for a policy of one condition, as the task macro and the bindings make it,
\* and an error whose words both of them look for in the same text.
DecisionsAgree ==
    \A t \in DOMAIN verdict :
        LET error == verdict[t].error
        IN  /\ \E condition \in DOMAIN RetryConditions :
                  Policy[t] = GeneratedPolicy(Policy[t].max_attempts, condition)
            /\ error.word # "busy"
            /\ error.kind = "validation" => error.word = "plain"
            => (verdict[t].status = "Retry") = LibraryRetry(Policy[t], error, FirstAttempt)
=============================================================================
