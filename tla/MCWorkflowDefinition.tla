------------------------ MODULE MCWorkflowDefinition ------------------------
(***************************************************************************)
(* The three ways to write a workflow: operation by operation, with the    *)
(* Rust macros, and in Python.  They share no state here, so a behaviour   *)
(* takes one of them and leaves the variables of the others alone.         *)
(*                                                                         *)
(* Operation by operation: three tasks, any dependencies, any removals; a  *)
(* workflow of three tasks is the smallest with a cycle that is neither a  *)
(* self-loop nor a pair, and with a dependency reached only through        *)
(* another task.  The states also give the algorithms of GraphAlgorithms   *)
(* every graph on three nodes.  With macros: two functions, and a name     *)
(* that changes when "_task" is taken out of it.  In Python: two threads,  *)
(* two functions, and a workflow whose builder is given a package or not,  *)
(* so that there are two contexts.                                         *)
(***************************************************************************)
EXTENDS GraphAlgorithms, WorkflowMacros, PythonAuthoring

CONSTANTS f, f_task  \* the names of functions and tasks in the crate
CONSTANTS v, pack    \* a workflow, and a package it is given, in Python

VARIABLE way  \* how this behaviour writes its workflow

MCListing == [S \in SUBSET Task |-> SetToSeq(S)]

MCRenamed == [n \in Name |-> f]

Call(fn, args) == [fn |-> fn, args |-> args]

MCWritten ==
    {Call("always", <<>>),
     Call("task_failed", <<f_task>>),
     Call("any", <<Call("task_success", <<f>>),
                   Call("context_value", <<"key", "equals", 1>>)>>),
     Call("none", <<Call("task_failed", <<f>>), Call("task_skipped", <<f_task>>)>>),
     Call("all", <<Call("any", <<>>), Call("task_success", <<f>>)>>),
     Call("context_value", <<"key", "equal", 1>>)}

MCContexts == {[package |-> Embedded, workflow |-> v], [package |-> pack, workflow |-> v]}

Ways == {"by operations", "by macros", "in Python"}

EveryInit == way \in Ways /\ Init /\ MacroInit /\ AuthoringInit

EveryNext ==
    /\ UNCHANGED way
    /\ \/ way = "by operations" /\ Next /\ UNCHANGED <<macroVars, authoringVars>>
       \/ way = "by macros" /\ MacroNext /\ UNCHANGED <<vars, authoringVars>>
       \/ way = "in Python" /\ AuthoringNext /\ UNCHANGED <<vars, macroVars>>

EverySpec == EveryInit /\ [][EveryNext]_<<way, vars, macroVars, authoringVars>>
=============================================================================
