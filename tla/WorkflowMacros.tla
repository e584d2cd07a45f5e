--------------------------- MODULE WorkflowMacros ---------------------------
(***************************************************************************)
(* Workflows written in Rust (cloacina-macros: tasks.rs, registry.rs,      *)
(* workflow.rs).  #[task] turns a function into a task and enters its id   *)
(* in a registry of the compiler; workflow! checks a list of functions     *)
(* against that registry and becomes code that runs at two moments: before *)
(* main the workflow's constructor is registered, and when the expression  *)
(* itself is evaluated so are the constructors of its tasks.  An error of  *)
(* a macro ends the compilation, so here it disables the step.             *)
(*                                                                         *)
(* The compiler expands the items in the order of the source, and takes    *)
(* the lock of its registry only if it is free.  A function is named, a    *)
(* task has an id, and a row of the database has the full namespace        *)
(* <<workflow, id>> (tenant and package are the workflow's).               *)
(***************************************************************************)
EXTENDS Naturals, Sequences, FiniteSets

CONSTANTS
    Flow,     \* the workflow! expressions of the crate
    Name,     \* names: of functions, and task ids
    Renamed,  \* a function: a function's name, less every "_task" in it
    Written,  \* the trigger rules written in #[task]
    MaxSkips  \* bound: expansions that find the registry locked

NoBody == "none"

ASSUME MacroAssumption ==
    /\ IsFiniteSet(Name) /\ NoBody \notin Name
    /\ Renamed \in [Name -> Name]
    /\ MaxSkips \in Nat

VARIABLES
    crate,     \* the tasks: for some functions what TaskImpl makes of them
    known,     \* the registry of the compiler: for some ids the dependencies
    lists,     \* the functions each workflow! lists, {} before it is expanded
    running,   \* has the program started?
    evaluated, \* the workflow! expressions that have been evaluated
    bodies,    \* the task registry: the function behind a full name, if any
    skips

macroVars == <<crate, known, lists, running, evaluated, bodies, skips>>

-----------------------------------------------------------------------------
(***************************************************************************)
(* Trigger rules.  What is written is [fn, args]; a rule is its kind and   *)
(* its conditions, each a test of something.                               *)
(***************************************************************************)

Refused == [kind |-> "refused", conditions |-> <<>>]

Tests == [task_success  |-> "TaskSuccess",
          task_failed   |-> "TaskFailed",
          task_skipped  |-> "TaskSkipped",
          context_value |-> "ContextValue"]

Operators == {"equals", "not_equals", "greater_than", "less_than",
              "contains", "not_contains", "exists", "not_exists"}

\* A task condition takes one name, a context condition a key, an operator
\* and a value.
ConditionIsRead(e) ==
    /\ e.fn \in DOMAIN Tests
    /\ IF e.fn = "context_value" THEN Len(e.args) = 3 /\ e.args[2] \in Operators
                                 ELSE Len(e.args) = 1

Condition(e) == [test |-> Tests[e.fn], of |-> e.args[1]]

\* all, any and none take conditions only, never each other; a condition by
\* itself is all of one.
Lists == [all |-> "All", any |-> "Any", none |-> "None"]

\* Mutant of the definition below.
FirstConditionOnly(e) ==
    CASE e.fn = "always" /\ e.args = <<>> -> [kind |-> "Always", conditions |-> <<>>]
      [] e.fn \in DOMAIN Lists /\ (\A i \in DOMAIN e.args : ConditionIsRead(e.args[i])) ->
            [kind |-> Lists[e.fn],
             conditions |-> [i \in 1..(IF e.args = <<>> THEN 0 ELSE 1) |-> Condition(e.args[i])]]
      [] ConditionIsRead(e) -> [kind |-> "All", conditions |-> <<Condition(e)>>]
      [] OTHER -> Refused

ParseRule(e) ==
    CASE e.fn = "always" /\ e.args = <<>> -> [kind |-> "Always", conditions |-> <<>>]
      [] e.fn \in DOMAIN Lists /\ (\A i \in DOMAIN e.args : ConditionIsRead(e.args[i])) ->
            [kind |-> Lists[e.fn],
             conditions |-> [i \in DOMAIN e.args |-> Condition(e.args[i])]]
      [] ConditionIsRead(e) -> [kind |-> "All", conditions |-> <<Condition(e)>>]
      [] OTHER -> Refused

\* A condition on a task that is read names a task.
NamesTask(e) == ConditionIsRead(e) /\ e.fn # "context_value" => e.args[1] \in Name

ASSUME WrittenAssumption ==
    \A e \in Written :
        /\ NamesTask(e)
        /\ e.fn \in DOMAIN Lists => \A i \in DOMAIN e.args : NamesTask(e.args[i])

\* The names in the conditions on tasks become full names of the workflow.
FullName(w, c) ==
    IF c.test = "ContextValue" THEN c ELSE [c EXCEPT !.of = <<w, c.of>>]

Rewritten(w, rule) ==
    [rule EXCEPT !.conditions =
        [i \in DOMAIN rule.conditions |-> FullName(w, rule.conditions[i])]]

-----------------------------------------------------------------------------
(***************************************************************************)
(* The compiler.                                                           *)
(***************************************************************************)

\* What #[task] may be given: an id, and the dependencies and the rule if
\* any.  (The policy of retries is DataFlow's.)
TaskAttributes == [id : Name, deps : SUBSET Name, rule : Written]

\* What it becomes, beside the function: a task that answers its id, what it
\* depends on, and its rule as JSON.
TaskImpl(a) == [id |-> a.id, deps |-> a.deps, written |-> a.rule,
                trigger_rules |-> ParseRule(a.rule)]

\* What workflow! may be given: one function or more.
WorkflowAttributes == SUBSET Name \ {{}}

\* CompileTimeTaskRegistry::new: the dependencies of no id are known.
NewRegistry == <<>>

\* The registry is taken, or its lock is and the step goes on without it.
Contended == skips < MaxSkips /\ skips' = skips + 1

\* register_task: an id is taken once.
Enter(id, deps) ==
    /\ id \notin DOMAIN known
    /\ known' = [i \in DOMAIN known \cup {id} |-> IF i = id THEN deps ELSE known[i]]

ExpandTask(f, a) ==
    /\ ~running
    /\ f \notin DOMAIN crate
    /\ ParseRule(a.rule) # Refused
    /\ \/ Enter(a.id, a.deps) /\ UNCHANGED skips
       \/ Contended /\ UNCHANGED known
    /\ crate' = [g \in DOMAIN crate \cup {f} |-> IF g = f THEN TaskImpl(a) ELSE crate[g]]
    /\ UNCHANGED <<lists, running, evaluated, bodies>>

\* validate_dependencies, of a name listed by workflow!: it is looked up as
\* an id.  (A crate of tests is let through; this is any other.)
DependenciesKnown(n) == n \in DOMAIN known /\ known[n] \subseteq DOMAIN known

\* Mutant of the definition below.
MayGoRound == FALSE

\* detect_cycles, over every task known so far.
GoesRound ==
    \E S \in SUBSET DOMAIN known : S # {} /\ \A i \in S : known[i] \cap S # {}

\* The functions listed must have been expanded, or rustc finds no constructor.
ExpandWorkflow(w, L) ==
    /\ ~running
    /\ lists[w] = {} /\ L \subseteq DOMAIN crate
    /\ \/ (\A n \in L : DependenciesKnown(n)) /\ ~GoesRound /\ UNCHANGED skips
       \/ Contended
    /\ lists' = [lists EXCEPT ![w] = L]
    /\ UNCHANGED <<crate, known, running, evaluated, bodies>>

-----------------------------------------------------------------------------
(***************************************************************************)
(* The program.                                                            *)
(***************************************************************************)

\* Before main: the constructor of each workflow is registered by its name.
StartProgram ==
    /\ ~running
    /\ running' = TRUE
    /\ UNCHANGED <<crate, known, lists, evaluated, bodies, skips>>

IsRegistered(w) == running /\ lists[w] # {}

\* The rows of a workflow: its tasks by id, with the dependencies they
\* declare.  add_task fails when two of the functions have one id.
RowsOf(w) == {crate[f].id : f \in lists[w]}
DepsOf(w, id) == UNION {crate[f].deps : f \in {g \in lists[w] : crate[g].id = id}}
AddsUp(w) == \A f, g \in lists[w] : crate[f].id = crate[g].id => f = g

\* The constructor validates what it has built, and panics when it is invalid.
Builds(w) ==
    /\ AddsUp(w)
    /\ \A id \in RowsOf(w) : DepsOf(w, id) \subseteq RowsOf(w)
    /\ ~\E S \in SUBSET RowsOf(w) : S # {} /\ \A id \in S : DepsOf(w, id) \cap S # {}

\* The name a task is registered by is that of its constructor, f ++ "_task",
\* with every "_task" taken out.
TaskName(f) == Renamed[f]

\* register_task_constructor, for each function in the order of the list: what
\* was there under the name is replaced, so the last function of a name stays.
RegisterTask(w, last) ==
    bodies' = [n \in DOMAIN bodies |->
        IF n[1] = w /\ n[2] \in DOMAIN last THEN last[n[2]] ELSE bodies[n]]

\* Evaluating the expression registers the tasks, and constructs the workflow.
Evaluate(w) ==
    /\ IsRegistered(w)
    /\ evaluated' = evaluated \cup {w}
    /\ \E last \in [{TaskName(f) : f \in lists[w]} -> lists[w]] :
        /\ \A name \in DOMAIN last : TaskName(last[name]) = name
        /\ RegisterTask(w, last)
    /\ UNCHANGED <<crate, known, lists, running, skips>>

-----------------------------------------------------------------------------
MacroInit ==
    /\ crate = <<>> /\ known = NewRegistry
    /\ lists = [w \in Flow |-> {}]
    /\ running = FALSE /\ evaluated = {}
    /\ bodies = [n \in Flow \X Name |-> NoBody]
    /\ skips = 0

MacroNext ==
    \/ \E f \in Name, a \in TaskAttributes : ExpandTask(f, a)
    \/ \E w \in Flow, L \in WorkflowAttributes : ExpandWorkflow(w, L)
    \/ StartProgram
    \/ \E w \in Flow : Evaluate(w)

MacroSpec == MacroInit /\ [][MacroNext]_macroVars

-----------------------------------------------------------------------------
(***************************************************************************)
(* What must hold.                                                         *)
(***************************************************************************)

\* The functions of a list bear the ids of their tasks, without "_task", and
\* the list holds what its tasks depend on.  The macros check none of this.
AsDocumented(w) ==
    \A f \in lists[w] : /\ crate[f].id = f /\ Renamed[f] = f
                        /\ crate[f].deps \subseteq lists[w]

\* What compiles can be carried out: unless the compiler's registry was locked
\* the constructor does not panic, and once the expression has been evaluated
\* every row has the body written for it.  Before that the workflow can be
\* scheduled, and its tasks are found nowhere.
CompiledCanRun ==
    \A w \in Flow :
        IsRegistered(w) /\ AsDocumented(w) =>
            /\ skips = 0 => Builds(w)
            /\ w \in evaluated =>
                \A id \in RowsOf(w) :
                    bodies[<<w, id>>] # NoBody /\ crate[bodies[<<w, id>>]].id = id

\* What a rule says, read from what is written: outcome gives the status of
\* the tasks by id, and present the keys whose condition holds.
Says(e, outcome, present) ==
    LET Fulfilled(c) ==
          CASE c.fn = "context_value" -> c.args[1] \in present
            [] c.fn = "task_success"  -> outcome[c.args[1]] = "Completed"
            [] c.fn = "task_failed"   -> outcome[c.args[1]] = "Failed"
            [] c.fn = "task_skipped"  -> outcome[c.args[1]] = "Skipped"
    IN  CASE e.fn = "always" -> TRUE
          [] e.fn = "all"    -> \A i \in DOMAIN e.args : Fulfilled(e.args[i])
          [] e.fn = "any"    -> \E i \in DOMAIN e.args : Fulfilled(e.args[i])
          [] e.fn = "none"   -> \A i \in DOMAIN e.args : ~Fulfilled(e.args[i])
          [] OTHER           -> Fulfilled(e)

\* What the scheduler makes of the rule in the row, by the full names there.
Decides(rule, rowStatus, present) ==
    LET Status == [TaskSuccess |-> "Completed", TaskFailed |-> "Failed", TaskSkipped |-> "Skipped"]
        Met(c) == IF c.test = "ContextValue" THEN c.of \in present
                  ELSE rowStatus[c.of] = Status[c.test]
        met == {i \in DOMAIN rule.conditions : Met(rule.conditions[i])}
    IN  CASE rule.kind = "Always" -> TRUE
          [] rule.kind = "All"    -> met = DOMAIN rule.conditions
          [] rule.kind = "Any"    -> met # {}
          [] rule.kind = "None"   -> met = {}

\* The scheduler decides what the author wrote, whatever has become of the
\* tasks: nothing is lost between the attribute, the JSON in the row and the
\* names the conditions are looked up by.
RulesAreKept ==
    \A w \in Flow : \A f \in lists[w] :
        \A outcome \in [Name -> {"Completed", "Failed", "Skipped"}] :
            \A present \in SUBSET {"key"} :
                Decides(Rewritten(w, crate[f].trigger_rules),
                        [n \in {w} \X Name |-> outcome[n[2]]], present)
                  = Says(crate[f].written, outcome, present)
=============================================================================
