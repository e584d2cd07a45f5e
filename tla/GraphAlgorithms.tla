--------------------------- MODULE GraphAlgorithms ---------------------------
(***************************************************************************)
(* The searches and orderings the code runs over dependencies, each turn   *)
(* by turn as it is written, and what they should find.                    *)
(*                                                                         *)
(* A graph G is a function from a node to the set of nodes it depends on.  *)
(* A loop is a function from the number of its turns to what its variables *)
(* are then; a loop that has ended turns without an effect.  Where the     *)
(* code calls itself, the calls that wait are the path from the first node *)
(* to the current one, and at[n] is how far the call for n has come in the *)
(* dependencies of n: every node is entered once.                          *)
(***************************************************************************)
EXTENDS WorkflowDefinition, Sequences, SequencesExt

CONSTANT Listing  \* the order in which a list or a hash map of tasks is gone through

ASSUME ListingAssumption ==
    \A S \in SUBSET Task :
        /\ Listing[S] \in [1..Cardinality(S) -> S]
        /\ \A t \in S : \E i \in 1..Cardinality(S) : Listing[S][i] = t

\* The edges of T that stay within it: those the code can follow.
Within(T) == [t \in DOMAIN T |-> T[t] \cap DOMAIN T]

\* No loop below takes more turns (LoopsEnd).
Turns(G) == (Cardinality(DOMAIN G) + 1) * (Cardinality(DOMAIN G) + 1)

NotYet(G) == [n \in DOMAIN G |-> 0]

-----------------------------------------------------------------------------
(***************************************************************************)
(* Looking for a cycle depth first, with the nodes visited, those on the   *)
(* recursion stack and the path to the current one: the graph of a         *)
(* workflow, the task registry, the registry of the task macro and the     *)
(* packaged workflow macro each have their own copy.                       *)
(***************************************************************************)

Fresh(G) == [visited |-> {}, stack |-> {}, path |-> <<>>, cycle |-> <<>>,
             root |-> 0, at |-> NotYet(G)]

Visit(s, d) == [s EXCEPT !.visited = @ \cup {d}, !.stack = @ \cup {d}, !.path = Append(@, d)]

\* Mutant of Unwind: the node stays on the recursion stack.
UnwindPath(s, n) == [s EXCEPT !.path = Front(@)]

Unwind(s, n) == [s EXCEPT !.stack = @ \ {n}, !.path = Front(@)]

CloseCycle(s, d) ==
    LET at == {i \in 1..Len(s.path) : s.path[i] = d}
        start == IF at = {} THEN 1 ELSE CHOOSE i \in at : \A j \in at : i <= j
    IN  [s EXCEPT !.cycle = Append(SubSeq(s.path, start, Len(s.path)), d)]

Follow(s, d) ==
    IF d \notin s.visited THEN Visit(s, d)
    ELSE IF d \in s.stack THEN CloseCycle(s, d)
    ELSE s

\* One turn of the loop over the nodes.
SearchRoot(G, s) ==
    LET n == Listing[DOMAIN G][s.root + 1]
        next == [s EXCEPT !.root = @ + 1]
    IN  IF n \in s.visited THEN next ELSE Visit(next, n)

\* One turn of the loop over the dependencies of n, or the return after it.
SearchBelow(G, s, n) ==
    IF s.at[n] = Cardinality(G[n]) THEN Unwind(s, n)
    ELSE Follow([s EXCEPT !.at[n] = @ + 1], Listing[G[n]][s.at[n] + 1])

SearchEnds(G, s) == s.cycle # <<>> \/ (s.path = <<>> /\ s.root = Cardinality(DOMAIN G))

SearchTurn(G, s) ==
    IF SearchEnds(G, s) THEN s
    ELSE IF s.path = <<>> THEN SearchRoot(G, s)
    ELSE SearchBelow(G, s, Last(s.path))

Search(G) ==
    LET turn[i \in 0..Turns(G)] == IF i = 0 THEN Fresh(G) ELSE SearchTurn(G, turn[i - 1])
    IN  turn

\* The first cycle found, from a node back to itself, or none.
FindCycle(G) == Search(G)[Turns(G)].cycle

\* The task registry: a dependency that is missing, or a cycle.
RegistryRejects(T) == (\E t \in DOMAIN T : T[t] # Within(T)[t]) \/ FindCycle(Within(T)) # <<>>

\* The task macro, over all the tasks of a crate, and the packaged workflow
\* macro, over those of its module.
MacroFindsCycle(T)   == FindCycle(Within(T)) # <<>>
PackageFindsCycle(T) == FindCycle(Within(T)) # <<>>

-----------------------------------------------------------------------------
(***************************************************************************)
(* TaskRegistry::topological_sort: Kahn's algorithm.  The queue is used as *)
(* a stack.                                                                *)
(***************************************************************************)

Dependents(G, n) == {m \in DOMAIN G : n \in G[m]}

KahnStart(G) ==
    [degree |-> [n \in DOMAIN G |-> Cardinality(G[n])],
     queue  |-> Listing[{n \in DOMAIN G : G[n] = {}}],
     result |-> <<>>]

KahnTurn(G, s) ==
    IF s.queue = <<>> THEN s
    ELSE LET current == Last(s.queue)
             next == Dependents(G, current)
             left == [n \in DOMAIN G |-> IF n \in next THEN s.degree[n] - 1 ELSE s.degree[n]]
         IN  [degree |-> left,
              queue  |-> Front(s.queue) \o Listing[{n \in next : left[n] = 0}],
              result |-> Append(s.result, current)]

Sorting(G) ==
    LET turn[i \in 0..Turns(G)] == IF i = 0 THEN KahnStart(G) ELSE KahnTurn(G, turn[i - 1])
    IN  turn

Kahn(G) == Sorting(G)[Turns(G)].result

\* It is an error when some task was never reached.
KahnFails(G) == Len(Kahn(G)) # Cardinality(DOMAIN G)

-----------------------------------------------------------------------------
(***************************************************************************)
(* Workflow::has_path: follow the dependencies from a stack, until the     *)
(* target is a dependency of a node taken from it.                         *)
(***************************************************************************)

PathStart(from) == [visited |-> {}, stack |-> <<from>>, found |-> FALSE]

PathTurn(G, to, s) ==
    IF s.found \/ s.stack = <<>> THEN s
    ELSE LET current == Last(s.stack)
             deps == IF current \in s.visited THEN {} ELSE G[current]
         IN  [visited |-> s.visited \cup {current},
              stack   |-> Front(s.stack) \o Listing[deps],
              found   |-> to \in deps]

PathSearch(G, from, to) ==
    LET turn[i \in 0..Turns(G)] ==
            IF i = 0 THEN PathStart(from) ELSE PathTurn(G, to, turn[i - 1])
    IN  turn

HasPath(G, from, to) == from = to \/ PathSearch(G, from, to)[Turns(G)].found

CanRunParallel(G, a, b) == ~HasPath(G, a, b) /\ ~HasPath(G, b, a)

Roots(G) == {n \in DOMAIN G : G[n] = {}}
Leaves(G) == DOMAIN G \ UNION {G[n] : n \in DOMAIN G}

-----------------------------------------------------------------------------
(***************************************************************************)
(* The depths of a package's tasks: the number of levels the macro writes  *)
(* in the package, and the depths worked out again when it is loaded.      *)
(***************************************************************************)

\* The dependencies that are followed: those within the package.
Local(T, n) == T[n] \cap DOMAIN T

\* calculate_task_depth: the tasks seen are shared by the whole recursion, so
\* one reached a second time counts nothing.
DepthStart(T, n) ==
    [seen |-> {n}, path |-> <<n>>, at |-> NotYet(T), best |-> NotYet(T), depth |-> 0]

\* The call for n returns to the one before it on the path.  Any dependency,
\* within the package or not, makes it one more than the deepest followed.
DepthReturn(T, s, n) ==
    LET value == IF T[n] = {} THEN 0 ELSE s.best[n] + 1
        waiting == Front(s.path)
    IN  IF waiting = <<>> THEN [s EXCEPT !.path = <<>>, !.depth = value]
        ELSE [s EXCEPT !.path = waiting,
                       !.best[Last(waiting)] = IF value > @ THEN value ELSE @]

DepthBelow(T, s, n) ==
    IF s.at[n] = Cardinality(Local(T, n)) THEN DepthReturn(T, s, n)
    ELSE LET d == Listing[Local(T, n)][s.at[n] + 1]
             next == [s EXCEPT !.at[n] = @ + 1]
         IN  IF d \in s.seen THEN next
             ELSE [next EXCEPT !.seen = @ \cup {d}, !.path = Append(@, d)]

DepthTurn(T, s) == IF s.path = <<>> THEN s ELSE DepthBelow(T, s, Last(s.path))

Descent(T, n) ==
    LET turn[i \in 0..Turns(T)] ==
            IF i = 0 THEN DepthStart(T, n) ELSE DepthTurn(T, turn[i - 1])
    IN  turn

TaskDepth(T, n) == Descent(T, n)[Turns(T)].depth

Largest(S) == CHOOSE x \in S : \A y \in S : y <= x

\* calculate_max_depth.
DeclaredLevels(T) == Largest({0} \cup {TaskDepth(T, n) : n \in DOMAIN T}) + 1

\* build_package_graph_data: an edge from each dependency to the task.
PackageEdges(G) == {e \in (DOMAIN G) \X (DOMAIN G) : e[1] \in G[e[2]]}

\* WorkflowGraph::calculate_depths on such edges: in topological order, one
\* more than the deepest node with an edge coming in.
Incoming(G, n) == {d \in DOMAIN G : <<d, n>> \in PackageEdges(G)}

DepthsAlong(G, order) ==
    LET depth[i \in 0..Len(order)] ==
            IF i = 0 THEN NotYet(G)
            ELSE [depth[i - 1] EXCEPT ![order[i]] =
                     IF Incoming(G, order[i]) = {} THEN 0
                     ELSE Largest({depth[i - 1][d] : d \in Incoming(G, order[i])}) + 1]
    IN  depth

CalculateDepths(G) == DepthsAlong(G, Kahn(G))[Len(Kahn(G))]

ParallelGroups(G) ==
    LET depth == CalculateDepths(G)
    IN  {{n \in DOMAIN G : depth[n] = k} : k \in {depth[n] : n \in DOMAIN G}}

-----------------------------------------------------------------------------
(***************************************************************************)
(* What they should find.                                                  *)
(***************************************************************************)

HasCycle(G) == Cyclic(DOMAIN G, G)

\* c is a walk along the dependencies of G that ends where it began.
IsCycle(c, G) ==
    /\ Len(c) >= 2
    /\ c[1] = c[Len(c)]
    /\ \A i \in 1..(Len(c) - 1) : c[i + 1] \in G[c[i]]

IsOrder(o, G) ==
    /\ Range(o) = DOMAIN G
    /\ \A i, j \in 1..Len(o) : o[j] \in G[o[i]] => j < i

\* The loops are through before the turns counted above.
LoopsEnd(G) ==
    /\ SearchEnds(G, Search(G)[Turns(G)])
    /\ Sorting(G)[Turns(G)].queue = <<>>
    /\ \A m, n \in DOMAIN G : LET s == PathSearch(G, m, n)[Turns(G)]
                              IN  s.found \/ s.stack = <<>>

CyclesAreFound(G) ==
    /\ IF HasCycle(G) THEN IsCycle(FindCycle(G), G) ELSE FindCycle(G) = <<>>
    /\ MacroFindsCycle(G) <=> HasCycle(G)
    /\ PackageFindsCycle(G) <=> HasCycle(G)

OrderIsFound(G) ==
    /\ KahnFails(G) <=> HasCycle(G)
    /\ ~HasCycle(G) => /\ IsOrder(Kahn(G), G)
                       /\ Kahn(G)[1] \in Roots(G) /\ Last(Kahn(G)) \in Leaves(G)

\* No node of a closed set leads out of it.
Closed(C, G) == \A n \in C : G[n] \subseteq C

PathsAreFound(G) ==
    \A m, n \in DOMAIN G :
        HasPath(G, m, n) <=> \A C \in SUBSET DOMAIN G : m \in C /\ Closed(C, G) => n \in C

GroupsAreParallel(G) ==
    \A group \in ParallelGroups(G) : \A m, n \in group : m # n => CanRunParallel(G, m, n)

\* The macro declares no more levels than there are groups; where something
\* is needed from outside of the package, one more at most.
LevelsAreDeclared(T) ==
    /\ \A n \in DOMAIN T : Descent(T, n)[Turns(T)].path = <<>>
    /\ LET groups == Cardinality(ParallelGroups(Within(T)))
       IN  DeclaredLevels(T) \in 1..(IF T = Within(T) THEN groups ELSE groups + 1)

FoundAsMeant(G) ==
    /\ LoopsEnd(G)
    /\ CyclesAreFound(G)
    /\ OrderIsFound(G)
    /\ PathsAreFound(G)
    /\ ~HasCycle(G) => GroupsAreParallel(G) /\ LevelsAreDeclared(G)

\* Each hand-written search finds a cycle exactly when there is one, and what
\* it reports is a cycle; Kahn's ordering fails exactly then, and otherwise is
\* an order that starts at a root and ends at a leaf; has_path finds what can
\* be reached, which is what collect_dependencies collects; tasks the loaded
\* package puts in one group can run in parallel, and the levels the macro
\* declares are as many at most, with one more for what is needed from outside.
GraphAlgorithmsAgree ==
    /\ \A G \in {[n \in nodes |-> edges[n] \cap nodes], Within(tasks)} :
           DOMAIN G # {} => FoundAsMeant(G)
    /\ DOMAIN tasks # {} /\ ~HasCycle(Within(tasks)) => LevelsAreDeclared(tasks)
    /\ tasks = Within(tasks) =>
           /\ RegistryRejects(tasks) <=> HasCycle(tasks)
           /\ \A m, n \in DOMAIN tasks : HasPath(tasks, m, n) <=> n \in Collected({m})
=============================================================================
