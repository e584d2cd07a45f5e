------------------------- MODULE WorkflowDefinition -------------------------
(***************************************************************************)
(* How a workflow is put together (workflow/mod.rs, workflow/graph.rs,     *)
(* workflow/builder.rs), by the workflow! macro, by the Python builder or  *)
(* by hand, and what its validation promises to those who order its tasks. *)
(*                                                                         *)
(* The dependencies are kept twice: each task carries the list it was      *)
(* declared with, and the workflow keeps a graph of its own.  Adding a     *)
(* task writes both; removing a task or a dependency writes the graph      *)
(* only.  Cycles are looked for in the graph, missing dependencies and     *)
(* readiness in the tasks.                                                 *)
(*                                                                         *)
(* A task is the set of namespaces it depends on; the namespace of a task  *)
(* (tenant, package, workflow, name) is one member of Task.  A workflow    *)
(* has one owner, so the operations do not interleave, but they come in    *)
(* any order.                                                              *)
(***************************************************************************)
EXTENDS Naturals, FiniteSets

CONSTANT Task  \* the namespaces a task may have

ASSUME TaskAssumption == IsFiniteSet(Task)

VARIABLES
    tasks,     \* the tasks held: a function from some namespaces to the dependencies
    nodes,     \* the nodes of the graph
    edges,     \* the graph: for each node, the nodes it depends on
    pruned,    \* has something been removed from the workflow?
    remaining, \* the loop of get_execution_levels: the tasks not in a level yet
    completed  \* ... and those that are

vars == <<tasks, nodes, edges, pruned, remaining, completed>>

-----------------------------------------------------------------------------
(***************************************************************************)
(* The graph.                                                              *)
(***************************************************************************)

\* A set of nodes goes round in circles if each has a successor in the set.
Cyclic(N, G) ==
    \E S \in SUBSET N : S # {} /\ \A n \in S : G[n] \cap S # {}

\* Mutant of the definition below.
GraphWithSwapped(n, D) == [m \in Task |-> IF m \in D THEN edges[m] \cup {n} ELSE edges[m]]

\* add_edge(from, to) for each dependency of a node, after add_node(from).
GraphWith(n, D) == [edges EXCEPT ![n] = @ \cup D]

\* remove_node: the node, the edges it has and the edges that point to it.
GraphWithout(n) == [m \in Task |-> IF m = n THEN {} ELSE edges[m] \ {n}]

GraphWithoutEdge(n, d) == [edges EXCEPT ![n] = @ \ {d}]

-----------------------------------------------------------------------------
(***************************************************************************)
(* What is asked of a workflow.                                            *)
(***************************************************************************)

MissingIn(T) == (UNION {T[t] : t \in DOMAIN T}) \ DOMAIN T

\* Workflow::validate on the tasks T, the nodes N and the graph G.
Validates(T, N, G) ==
    /\ DOMAIN T # {}
    /\ MissingIn(T) = {}
    /\ ~Cyclic(N, G)

Valid == Validates(tasks, nodes, edges)

\* Mutant of the definition below.
CollectedDirect(S) == S \cup UNION {tasks[u] : u \in S \cap DOMAIN tasks}

\* collect_dependencies: the tasks reached from S along the dependencies.
Collected(S) ==
    {t \in Task : \A C \in SUBSET Task :
        (S \subseteq C /\ \A u \in C \cap DOMAIN tasks : tasks[u] \subseteq C) => t \in C}

\* Workflow::subgraph: the tasks asked for with all they depend on, and a
\* graph made anew from their dependencies.
SubgraphTasks(S) == [t \in Collected(S) \cap DOMAIN tasks |-> tasks[t]]
SubgraphEdges(S) ==
    [t \in Task |-> IF t \in Collected(S) \cap DOMAIN tasks
                    THEN tasks[t] \cap Collected(S) ELSE {}]
SubgraphOk(S) == S \subseteq DOMAIN tasks /\ Collected(S) \subseteq DOMAIN tasks

\* The tasks of the next level: every dependency is in an earlier one.
Level == {t \in remaining \cap DOMAIN tasks : tasks[t] \subseteq completed}

\* The orders DependencyGraph::topological_sort may return: any order of the
\* nodes in which each comes after its successors in the graph.
Orders ==
    {o \in [nodes -> 1..Cardinality(nodes)] :
        /\ \A m, n \in nodes : o[m] = o[n] => m = n
        /\ \A n \in nodes : \A d \in edges[n] \cap nodes : o[d] < o[n]}

-----------------------------------------------------------------------------
(***************************************************************************)
(* The operations.                                                         *)
(***************************************************************************)

\* Workflow::new.
Init ==
    /\ tasks = [t \in {} |-> {}]
    /\ nodes = {} /\ edges = [t \in Task |-> {}]
    /\ pruned = FALSE
    /\ remaining = {} /\ completed = {}

Idle == remaining = {}

\* add_task: a namespace that is taken is an error and changes nothing.
AddTask(n, D) ==
    /\ Idle
    /\ n \notin DOMAIN tasks
    /\ tasks' = [t \in DOMAIN tasks \cup {n} |-> IF t = n THEN D ELSE tasks[t]]
    /\ nodes' = nodes \cup {n} \cup D
    /\ edges' = GraphWith(n, D)
    /\ UNCHANGED <<pruned, remaining, completed>>

\* remove_task: the graph forgets the node, the tasks that depend on it keep
\* it in their lists.
RemoveTask(n) ==
    /\ Idle
    /\ nodes' = nodes \ {n}
    /\ edges' = GraphWithout(n)
    /\ tasks' = [t \in DOMAIN tasks \ {n} |-> tasks[t]]
    /\ pruned' = TRUE
    /\ UNCHANGED <<remaining, completed>>

\* remove_dependency: in the graph only.
RemoveDependency(n, d) ==
    /\ Idle
    /\ edges' = GraphWithoutEdge(n, d)
    /\ pruned' = TRUE
    /\ UNCHANGED <<tasks, nodes, remaining, completed>>

\* get_execution_levels: sort, which validates, then take every node.
StartLevels ==
    /\ Idle
    /\ Valid
    /\ remaining' = nodes
    /\ completed' = {}
    /\ UNCHANGED <<tasks, nodes, edges, pruned>>

\* One turn of its loop.
TakeLevel ==
    /\ remaining # {}
    /\ remaining' = remaining \ Level
    /\ completed' = IF remaining' = {} THEN {} ELSE completed \cup Level
    /\ UNCHANGED <<tasks, nodes, edges, pruned>>

Next ==
    \/ \E n \in Task, D \in SUBSET Task : AddTask(n, D)
    \/ \E n \in Task : RemoveTask(n)
    \/ \E n, d \in Task : RemoveDependency(n, d)
    \/ StartLevels
    \/ TakeLevel

Spec == Init /\ [][Next]_vars

-----------------------------------------------------------------------------
(***************************************************************************)
(* What must hold.                                                         *)
(***************************************************************************)

\* The graph has no edge that a task held now does not declare: a namespace
\* taken a second time does not inherit the edges of the first.
GraphIsDeclared ==
    \A t \in Task : edges[t] \subseteq IF t \in DOMAIN tasks THEN tasks[t] ELSE {}

\* Every variable has its type, and the graph has no edge that is not declared.
TypeOK ==
    /\ DOMAIN tasks \subseteq Task
    /\ \A t \in DOMAIN tasks : tasks[t] \in SUBSET Task
    /\ nodes \in SUBSET Task
    /\ edges \in [Task -> SUBSET Task]
    /\ pruned \in BOOLEAN
    /\ remaining \in SUBSET nodes
    /\ completed \in SUBSET nodes
    /\ GraphIsDeclared

\* A workflow that was only added to and that validates can be carried out:
\* the loop that splits it into levels takes at least one task each turn, so
\* it ends, and so does the scheduler, whose readiness rule is the same.
\* (After a removal neither need hold: see the README.)
LevelsProgress ==
    (remaining # {} /\ ~pruned) => Level # {}

\* Validation and ordering agree although one looks at the graph and the
\* other is used for the tasks: every order the sort may return holds exactly
\* the tasks, each after all it depends on.
OrderIsSafe ==
    (Valid /\ ~pruned) =>
        /\ nodes = DOMAIN tasks
        /\ \A o \in Orders : \A t \in DOMAIN tasks : \A d \in tasks[t] : o[d] < o[t]

\* Whatever tasks are picked from a validated workflow, the workflow cut out
\* for them holds all they need and validates.
SubgraphIsValid ==
    (Valid /\ ~pruned) =>
        \A S \in SUBSET DOMAIN tasks :
            S # {} => /\ SubgraphOk(S)
                      /\ Validates(SubgraphTasks(S), Collected(S), SubgraphEdges(S))

\* What validates is carried out, in order, whole or in part.
CarriedOutInOrder == LevelsProgress /\ OrderIsSafe /\ SubgraphIsValid
=============================================================================
