-------------------------- MODULE DefinitionProofs --------------------------
(***************************************************************************)
(* What a workflow is once it is written, in each of the three ways: what  *)
(* validation promises, for any tasks and any sequence of operations; what *)
(* compiles with the macros, for any crate; and where the tasks of         *)
(* Python's with blocks go, for any threads, blocks and functions.  And    *)
(* what the searches and orderings find in the graphs of any workflow.     *)
(*                                                                         *)
(* A search is a loop.  It is proved right in the same way each time: an   *)
(* invariant of its variables that its start has and each turn keeps, and  *)
(* a measure that each turn moves as long as the loop is not through, so   *)
(* that it is through before Turns(G).                                     *)
(***************************************************************************)
EXTENDS GraphAlgorithms, WorkflowMacros, PythonAuthoring, FiniteSetTheorems, SequenceTheorems,
        WellFoundedInduction, TLAPS

-----------------------------------------------------------------------------
(***************************************************************************)
(* Workflows written operation by operation.                               *)
(***************************************************************************)

\* What is missing, task by task.
LEMMA MissingMeans ==
    ASSUME NEW T
    PROVE  /\ \A m : m \in MissingIn(T) <=> m \notin DOMAIN T /\ \E t \in DOMAIN T : m \in T[t]
           /\ MissingIn(T) = {} <=> \A t \in DOMAIN T : \A m \in T[t] : m \in DOMAIN T
<1>1. \A m : m \in MissingIn(T) <=> m \notin DOMAIN T /\ \E t \in DOMAIN T : m \in T[t]
  <2>1. ASSUME NEW m, NEW t \in DOMAIN T, m \in T[t]
        PROVE  m \in UNION {T[u] : u \in DOMAIN T}
    <3>1. T[t] \in {T[u] : u \in DOMAIN T}
      OBVIOUS
    <3> QED
      BY <2>1, <3>1
  <2>2. ASSUME NEW m, m \in UNION {T[u] : u \in DOMAIN T}
        PROVE  \E t \in DOMAIN T : m \in T[t]
    BY <2>2
  <2> QED
    BY <2>1, <2>2 DEF MissingIn
<1> QED
  BY <1>1

\* Until something is removed, the graph is what the tasks declare.
GraphIsWhole ==
    ~pruned =>
        /\ \A m \in Task :
               m \in nodes <=> m \in DOMAIN tasks \/ \E t \in DOMAIN tasks : m \in tasks[t]
        /\ \A t \in DOMAIN tasks : edges[t] = tasks[t]

\* The loop over the levels works on a workflow that has been validated, and
\* a task is in one of its two sets.
LevelsAreValid ==
    /\ Idle => completed = {}
    /\ ~Idle => Valid /\ completed = nodes \ remaining

DInv == TypeOK /\ GraphIsWhole /\ LevelsAreValid

LEMMA DInvHoldsFirst == Init => DInv
BY DEF Init, DInv, TypeOK, GraphIsDeclared, GraphIsWhole, LevelsAreValid, Idle

LEMMA AddTaskKeepsDInv ==
    ASSUME DInv, NEW n \in Task, NEW D \in SUBSET Task, AddTask(n, D)
    PROVE  DInv'
<1> USE DEF DInv, TypeOK, AddTask, Idle
<1>1. /\ DOMAIN tasks' = DOMAIN tasks \cup {n}
      /\ tasks'[n] = D
      /\ \A t \in DOMAIN tasks : tasks'[t] = tasks[t]
  OBVIOUS
<1>2. /\ edges[n] = {}
      /\ edges' \in [Task -> SUBSET Task]
      /\ edges'[n] = D
      /\ \A t \in Task \ {n} : edges'[t] = edges[t]
  BY DEF GraphWith, GraphIsDeclared
<1>3. GraphIsDeclared'
  BY <1>1, <1>2 DEF GraphIsDeclared
<1>4. TypeOK'
  BY <1>1, <1>2, <1>3
<1>5. GraphIsWhole'
  BY <1>1, <1>2 DEF GraphIsWhole
<1>6. LevelsAreValid'
  BY DEF LevelsAreValid
<1> QED
  BY <1>4, <1>5, <1>6

LEMMA RemovalKeepsDInv ==
    ASSUME DInv, NEW n \in Task,
           RemoveTask(n) \/ \E d \in Task : RemoveDependency(n, d)
    PROVE  DInv'
<1> USE DEF DInv, TypeOK, Idle
<1>1. CASE RemoveTask(n)
  <2> USE <1>1 DEF RemoveTask
  <2>1. /\ DOMAIN tasks' = DOMAIN tasks \ {n}
        /\ \A t \in DOMAIN tasks \ {n} : tasks'[t] = tasks[t]
    OBVIOUS
  <2>2. GraphIsDeclared'
    BY <2>1 DEF GraphIsDeclared, GraphWithout
  <2>3. TypeOK'
    BY <2>1, <2>2 DEF GraphWithout, LevelsAreValid
  <2> QED
    BY <2>3 DEF GraphIsWhole, LevelsAreValid
<1>2. ASSUME NEW d \in Task, RemoveDependency(n, d) PROVE DInv'
  BY <1>2 DEF RemoveDependency, GraphWithoutEdge, GraphIsDeclared, GraphIsWhole, LevelsAreValid
<1> QED
  BY <1>1, <1>2

LEMMA LevelsKeepDInv ==
    ASSUME DInv, StartLevels \/ TakeLevel
    PROVE  DInv'
<1> USE DEF DInv, TypeOK, Idle
<1>1. CASE StartLevels
  BY <1>1 DEF StartLevels, GraphIsDeclared, GraphIsWhole, LevelsAreValid, Valid
<1>2. CASE TakeLevel
  <2> USE <1>2 DEF TakeLevel
  <2>1. Level \subseteq remaining
    BY DEF Level
  <2>2. Valid' = Valid
    BY DEF Valid
  <2>3. TypeOK' /\ GraphIsWhole'
    BY <2>1 DEF GraphIsDeclared, GraphIsWhole
  <2>4. LevelsAreValid'
    BY <2>1, <2>2 DEF LevelsAreValid
  <2> QED
    BY <2>3, <2>4
<1> QED
  BY <1>1, <1>2

LEMMA DInvIsInductive == DInv /\ [Next]_vars => DInv'
<1> SUFFICES ASSUME DInv, [Next]_vars PROVE DInv'
  OBVIOUS
<1>1. CASE Next
  BY <1>1, AddTaskKeepsDInv, RemovalKeepsDInv, LevelsKeepDInv DEF Next
<1>2. CASE UNCHANGED vars
  BY <1>2 DEF vars, DInv, TypeOK, GraphIsDeclared, GraphIsWhole, LevelsAreValid, Idle, Valid
<1> QED
  BY <1>1, <1>2

LEMMA DInvHolds == Spec => []DInv
BY DInvHoldsFirst, DInvIsInductive, PTL DEF Spec

\* In a validated workflow nothing is missing, and the graph is the tasks.
LEMMA ValidIsWhole ==
    ASSUME DInv, Valid, ~pruned
    PROVE  /\ nodes = DOMAIN tasks
           /\ \A t \in DOMAIN tasks : tasks[t] \subseteq DOMAIN tasks /\ edges[t] = tasks[t]
<1>1. \A t \in DOMAIN tasks : \A m \in tasks[t] : m \in DOMAIN tasks
  BY MissingMeans DEF Valid, Validates
<1>2. /\ \A m \in Task :
             m \in nodes <=> m \in DOMAIN tasks \/ \E t \in DOMAIN tasks : m \in tasks[t]
      /\ \A t \in DOMAIN tasks : edges[t] = tasks[t]
  BY DEF DInv, GraphIsWhole
<1>3. nodes = DOMAIN tasks
  BY <1>1, <1>2 DEF DInv, TypeOK
<1> QED
  BY <1>1, <1>2, <1>3

LEMMA LevelsGoOn == DInv => LevelsProgress
<1> SUFFICES ASSUME DInv, remaining # {}, ~pruned, Level = {} PROVE FALSE
  BY DEF LevelsProgress
<1>1. Valid /\ completed = nodes \ remaining /\ remaining \subseteq nodes
  BY DEF DInv, TypeOK, LevelsAreValid, Idle
<1>2. \A t \in remaining : edges[t] \cap remaining # {}
  BY <1>1, ValidIsWhole DEF Level
<1>3. Cyclic(nodes, edges)
  BY <1>1, <1>2 DEF Cyclic
<1> QED
  BY <1>1, <1>3 DEF Valid, Validates

LEMMA OrdersAreSafe == DInv => OrderIsSafe
<1> SUFFICES ASSUME DInv, Valid, ~pruned
             PROVE  /\ nodes = DOMAIN tasks
                    /\ \A o \in Orders : \A t \in DOMAIN tasks : \A d \in tasks[t] : o[d] < o[t]
  BY DEF OrderIsSafe
<1>1. \A t \in nodes : edges[t] \cap nodes = tasks[t]
  BY ValidIsWhole
<1> QED
  BY <1>1, ValidIsWhole DEF Orders

LEMMA SubgraphsAreValid == DInv => SubgraphIsValid
<1> SUFFICES ASSUME DInv, Valid, ~pruned, NEW S \in SUBSET DOMAIN tasks, S # {}
             PROVE  /\ SubgraphOk(S)
                    /\ Validates(SubgraphTasks(S), Collected(S), SubgraphEdges(S))
  BY DEF SubgraphIsValid
<1> DEFINE T == Collected(S)
<1>1. DOMAIN tasks \subseteq Task
  BY DEF DInv, TypeOK
<1>2. T \subseteq DOMAIN tasks
  BY <1>1, ValidIsWhole DEF Collected
<1>3. S \subseteq T
  BY <1>1 DEF Collected
<1>4. ASSUME NEW t \in T, NEW d \in tasks[t] PROVE d \in T
  <2>1. d \in Task
    BY <1>1, <1>2, ValidIsWhole
  <2>2. ASSUME NEW C \in SUBSET Task, S \subseteq C,
               \A u \in C \cap DOMAIN tasks : tasks[u] \subseteq C
        PROVE  d \in C
    BY <1>2, <2>2 DEF Collected
  <2> QED
    BY <2>1, <2>2 DEF Collected
<1>5. DOMAIN SubgraphTasks(S) = T /\ \A t \in T : SubgraphTasks(S)[t] = tasks[t]
  BY <1>2 DEF SubgraphTasks
<1>6. MissingIn(SubgraphTasks(S)) = {}
  BY <1>4, <1>5, MissingMeans
<1>7. \A t \in T : SubgraphEdges(S)[t] \subseteq edges[t]
  BY <1>1, <1>2, ValidIsWhole DEF SubgraphEdges
<1>8. ~Cyclic(T, SubgraphEdges(S))
  <2>1. ASSUME NEW N \in SUBSET T, N # {}, \A n \in N : SubgraphEdges(S)[n] \cap N # {}
        PROVE  FALSE
    <3>1. \A n \in N : edges[n] \cap N # {}
      BY <1>7, <2>1
    <3>2. Cyclic(nodes, edges)
      BY <1>2, <2>1, <3>1, ValidIsWhole DEF Cyclic
    <3> QED
      BY <3>2 DEF Valid, Validates
  <2> QED
    BY <2>1 DEF Cyclic
<1> QED
  BY <1>2, <1>3, <1>5, <1>6, <1>8 DEF SubgraphOk, Validates

\* Every variable keeps its type, and the graph has no edge undeclared.
THEOREM DefinitionTypeCorrect == Spec => []TypeOK
BY DInvHolds, PTL DEF DInv

\* For any number of tasks: a workflow that was only added to and validates is
\* carried out level by level, in an order that respects every dependency, and
\* so is each of its subgraphs.
THEOREM ValidatedIsCarriedOut == Spec => []CarriedOutInOrder
<1>1. DInv => CarriedOutInOrder
  BY LevelsGoOn, OrdersAreSafe, SubgraphsAreValid DEF CarriedOutInOrder
<1> QED
  BY <1>1, DInvHolds, PTL

-----------------------------------------------------------------------------
(***************************************************************************)
(* Loops.  Each is a function of the number of turns taken (the first two  *)
(* facts are those DataProofs has about its own loops).                    *)
(***************************************************************************)

\* Induction over the turns, for a set of them.
LEMMA TurnByTurn ==
    ASSUME NEW n \in Nat, NEW S \in SUBSET (0 .. n),
           0 \in S, \A i \in 1 .. n : i - 1 \in S => i \in S
    PROVE  S = 0 .. n
<1> SUFFICES ASSUME S # 0 .. n PROVE FALSE
  OBVIOUS
<1> DEFINE T == (0 .. n) \ S
           less == {p \in Nat \X Nat : p[1] < p[2]}
<1>1. IsWellFoundedOn(less, Nat)
  BY NatLessThanWellFounded, Zenon DEF OpToRel
<1>2. \A x, y \in Nat : <<y, x>> \notin less => x <= y
  OBVIOUS
<1>3. T \subseteq Nat /\ T # {}
  <2>1. T # {}
    BY Zenon
  <2> QED
    BY <2>1
<1>4. \E x \in T : \A y \in T : <<y, x>> \notin less
  <2> HIDE DEF T, less
  <2> QED
    BY <1>1, <1>3, WFMin, ZenonT(30)
<1>5. PICK x \in T : \A y \in T : x <= y
  <2> HIDE DEF less
  <2> QED
    BY <1>2, <1>3, <1>4
<1>6. x \in 1 .. n /\ x - 1 \in 0 .. n
  OBVIOUS
<1>7. x - 1 \in S
  BY <1>5, <1>6
<1> QED
  BY <1>5, <1>6, <1>7

\* A loop whose turns stay among some values takes all its turns.
IsLoop(g, n, Vals, first, Turn) ==
    /\ g \in [0 .. n -> Vals]
    /\ g = [i \in 0 .. n |-> IF i = 0 THEN first ELSE Turn[i][g[i - 1]]]

LEMMA LoopExists ==
    ASSUME NEW n \in Nat, NEW Vals, NEW first \in Vals, NEW Turn \in [1 .. n -> [Vals -> Vals]]
    PROVE  \E g : IsLoop(g, n, Vals, first, Turn)
<1> DEFINE Loop(m) == \E g \in [0 .. m -> Vals] :
                          g = [i \in 0 .. m |-> IF i = 0 THEN first ELSE Turn[i][g[i - 1]]]
           S == {m \in 0 .. n : Loop(m)}
<1>1. 0 \in S
  <2> DEFINE g == [i \in 0 .. 0 |-> first]
  <2>1. g \in [0 .. 0 -> Vals] /\ g = [i \in 0 .. 0 |-> IF i = 0 THEN first ELSE Turn[i][g[i - 1]]]
    OBVIOUS
  <2>2. Loop(0)
    <3> HIDE DEF g
    <3> QED
      BY <2>1
  <2> QED
    BY <2>2
<1>2. ASSUME NEW m \in 1 .. n, m - 1 \in S PROVE m \in S
  <2>1. PICK g \in [0 .. (m - 1) -> Vals] :
            g = [i \in 0 .. (m - 1) |-> IF i = 0 THEN first ELSE Turn[i][g[i - 1]]]
    BY <1>2
  <2> DEFINE h == [i \in 0 .. m |-> IF i = m THEN Turn[m][g[m - 1]] ELSE g[i]]
  <2>2. m \in Nat /\ m # 0 /\ m \in 0 .. n
    OBVIOUS
  <2>3. h \in [0 .. m -> Vals]
    <3>1. \A i \in 0 .. m : i = m \/ i \in 0 .. (m - 1)
      BY <2>2
    <3>2. g[m - 1] \in Vals /\ Turn[m] \in [Vals -> Vals]
      BY <2>2
    <3> QED
      BY <3>1, <3>2
  <2>4. h[0] = first
    BY <2>1, <2>2
  <2>5. ASSUME NEW i \in 1 .. m PROVE h[i] = Turn[i][h[i - 1]]
    <3>1. h[i - 1] = g[i - 1]
      BY <2>2
    <3>2. CASE i = m
      BY <2>2, <3>1, <3>2
    <3>3. CASE i # m
      <4>1. i \in 1 .. (m - 1)
        BY <2>2, <3>3
      <4>2. g[i] = Turn[i][g[i - 1]]
        BY <2>1, <4>1
      <4> QED
        BY <2>2, <3>1, <3>3, <4>2
    <3> QED
      BY <3>2, <3>3
  <2>6. h = [i \in 0 .. m |-> h[i]]
    OBVIOUS
  <2> HIDE DEF h
  <2>7. \A i \in 0 .. m : i = 0 \/ i \in 1 .. m
    BY <2>2
  <2>8. \A i \in 0 .. m : h[i] = IF i = 0 THEN first ELSE Turn[i][h[i - 1]]
    BY <2>4, <2>5, <2>7
  <2>9. h = [i \in 0 .. m |-> IF i = 0 THEN first ELSE Turn[i][h[i - 1]]]
    BY <2>6, <2>8
  <2> QED
    BY <2>2, <2>3, <2>9
<1>3. S = 0 .. n
  <2>1. S \in SUBSET (0 .. n)
    OBVIOUS
  <2> HIDE DEF S
  <2> QED
    BY <1>1, <1>2, <2>1, TurnByTurn
<1>4. n \in 0 .. n
  OBVIOUS
<1>5. Loop(n)
  <2> HIDE DEF Loop
  <2> QED
    BY <1>3, <1>4
<1> QED
  BY <1>5 DEF IsLoop

\* A loop that turns the same way each time, and its end.
TurnsOver(n, Vals, first, Turn, Done) ==
    /\ n \in Nat /\ first \in Vals /\ Turn \in [Vals -> Vals] /\ Done \in SUBSET Vals
    /\ \A v \in Done : Turn[v] = v

\* There is such a loop, and whatever turns this way comes to its end.
Runs(n, Vals, first, Turn, Done) ==
    /\ \E g \in [0 .. n -> Vals] :
           g = [i \in 0 .. n |-> IF i = 0 THEN first ELSE Turn[g[i - 1]]]
    /\ \A h : /\ h[0] = first
              /\ \A i \in 1 .. n : h[i - 1] \in Vals => h[i] = Turn[h[i - 1]]
              => h[n] \in Done

\* It gets there when each turn brings a count down.
CountsDown(n, Vals, first, Turn, Done, Count) ==
    /\ Count \in [Vals -> Nat] /\ Count[first] <= n
    /\ \A v \in Vals \ Done : Count[Turn[v]] < Count[v]

\* It gets there when each turn makes a mark it had not made, out of no more
\* marks than it may take turns.
MarksUp(n, Vals, Turn, Done, U, Marks) ==
    /\ IsFiniteSet(U) /\ Cardinality(U) <= n
    /\ Marks \in [Vals -> SUBSET U]
    /\ \A v \in Vals \ Done : Marks[v] \subseteq Marks[Turn[v]] /\ Marks[v] # Marks[Turn[v]]

LEMMA LoopRuns ==
    ASSUME NEW n, NEW Vals, NEW first, NEW Turn, NEW Done, NEW Count,
           TurnsOver(n, Vals, first, Turn, Done),
           CountsDown(n, Vals, first, Turn, Done, Count)
    PROVE  Runs(n, Vals, first, Turn, Done)
<1>0. /\ n \in Nat /\ first \in Vals /\ Turn \in [Vals -> Vals] /\ Done \in SUBSET Vals
      /\ \A v \in Done : Turn[v] = v
      /\ Count \in [Vals -> Nat] /\ Count[first] <= n
      /\ \A v \in Vals \ Done : Count[Turn[v]] < Count[v]
  BY DEF TurnsOver, CountsDown
<1> USE <1>0
<1> DEFINE Turns_ == [i \in 1 .. n |-> Turn]
<1>1. Turns_ \in [1 .. n -> [Vals -> Vals]]
  OBVIOUS
<1>2. PICK g : IsLoop(g, n, Vals, first, Turns_)
  <2> HIDE DEF Turns_
  <2> QED
    BY <1>1, LoopExists
<1>3. g \in [0 .. n -> Vals]
  BY <1>2 DEF IsLoop
<1>4. \A i \in 1 .. n : i - 1 \in 0 .. n /\ i \in 0 .. n
  OBVIOUS
<1>5. \A i \in 1 .. n : g[i] = Turn[g[i - 1]]
  <2>1. g = [i \in 0 .. n |-> IF i = 0 THEN first ELSE Turns_[i][g[i - 1]]]
    BY <1>2 DEF IsLoop
  <2>2. \A i \in 1 .. n : g[i] = Turns_[i][g[i - 1]]
    <3> HIDE DEF Turns_
    <3> QED
      BY <1>4, <2>1
  <2> QED
    BY <2>2
<1>6. g[0] = first
  <2> HIDE DEF Turns_
  <2> QED
    BY <1>2 DEF IsLoop
<1>7. g = [i \in 0 .. n |-> IF i = 0 THEN first ELSE Turn[g[i - 1]]]
  <2>1. \A i \in 0 .. n : i = 0 \/ i \in 1 .. n
    OBVIOUS
  <2>2. \A i \in 0 .. n : g[i] = IF i = 0 THEN first ELSE Turn[g[i - 1]]
    BY <1>5, <1>6, <2>1
  <2>3. g = [i \in 0 .. n |-> g[i]]
    BY <1>3
  <2> QED
    BY <2>2, <2>3
<1> DEFINE S == {i \in 0 .. n : g[i] \in Done \/ Count[g[i]] <= n - i}
<1>8. 0 \in S
  BY <1>6
<1>9. ASSUME NEW i \in 1 .. n, i - 1 \in S PROVE i \in S
  <2> DEFINE v == g[i - 1]
  <2>1. v \in Vals /\ g[i] = Turn[v] /\ g[i] \in Vals
    BY <1>3, <1>4, <1>5
  <2>2. CASE v \in Done
    BY <2>1, <2>2
  <2>3. CASE v \notin Done
    <3>1. Count[v] <= n - (i - 1) /\ Count[g[i]] < Count[v]
      BY <1>9, <2>1, <2>3
    <3>2. Count[v] \in Nat /\ Count[g[i]] \in Nat
      BY <2>1
    <3> QED
      BY <3>1, <3>2
  <2> QED
    BY <2>2, <2>3
<1>10. S = 0 .. n
  <2>1. S \in SUBSET (0 .. n)
    OBVIOUS
  <2> HIDE DEF S
  <2> QED
    BY <1>8, <1>9, <2>1, TurnByTurn
<1>11. g[n] \in Done
  <2>1. n \in S
    <3> HIDE DEF S
    <3> QED
      BY <1>10
  <2>2. n \in 0 .. n /\ g[n] \in Vals /\ Turn[g[n]] \in Vals
    BY <1>3
  <2>3. Count[g[n]] \in Nat /\ Count[Turn[g[n]]] \in Nat
    BY <2>2
  <2> SUFFICES ASSUME g[n] \notin Done PROVE FALSE
    OBVIOUS
  <2>4. Count[Turn[g[n]]] < Count[g[n]] /\ Count[g[n]] <= n - n
    BY <2>1, <2>2
  <2> QED
    BY <2>3, <2>4
<1>12. ASSUME NEW h, h[0] = first,
              \A i \in 1 .. n : h[i - 1] \in Vals => h[i] = Turn[h[i - 1]]
       PROVE  h[n] \in Done
  <2> DEFINE R == {i \in 0 .. n : h[i] = g[i]}
  <2>1. 0 \in R
    BY <1>6, <1>12
  <2>2. ASSUME NEW i \in 1 .. n, i - 1 \in R PROVE i \in R
    <3>1. h[i - 1] = g[i - 1] /\ g[i - 1] \in Vals
      BY <1>3, <1>4, <2>2
    <3> QED
      BY <1>4, <1>5, <1>12, <3>1
  <2>3. R = 0 .. n
    <3>1. R \in SUBSET (0 .. n)
      OBVIOUS
    <3> HIDE DEF R
    <3> QED
      BY <2>1, <2>2, <3>1, TurnByTurn
  <2>4. n \in R
    <3> HIDE DEF R
    <3> QED
      BY <2>3
  <2> QED
    BY <1>11, <2>4
<1> QED
  BY <1>3, <1>7, <1>12 DEF Runs

LEMMA MarksRunOut ==
    ASSUME NEW n, NEW Vals, NEW first, NEW Turn, NEW Done, NEW U, NEW Marks,
           TurnsOver(n, Vals, first, Turn, Done),
           MarksUp(n, Vals, Turn, Done, U, Marks)
    PROVE  Runs(n, Vals, first, Turn, Done)
<1>0. /\ n \in Nat /\ first \in Vals /\ Turn \in [Vals -> Vals] /\ Done \in SUBSET Vals
      /\ IsFiniteSet(U) /\ Cardinality(U) <= n
      /\ Marks \in [Vals -> SUBSET U]
      /\ \A v \in Vals \ Done : Marks[v] \subseteq Marks[Turn[v]] /\ Marks[v] # Marks[Turn[v]]
  BY DEF TurnsOver, MarksUp
<1> USE <1>0
<1> DEFINE Count == [v \in Vals |-> Cardinality(U \ Marks[v])]
<1>1. ASSUME NEW v \in Vals
      PROVE  /\ IsFiniteSet(U \ Marks[v])
             /\ Cardinality(U \ Marks[v]) \in Nat
             /\ Cardinality(U \ Marks[v]) <= n
  <2>1. U \ Marks[v] \in SUBSET U
    OBVIOUS
  <2>2. IsFiniteSet(U \ Marks[v]) /\ Cardinality(U \ Marks[v]) <= Cardinality(U)
    BY <2>1, FS_Subset
  <2> QED
    BY <2>2, FS_CardinalityType
<1>2. Count \in [Vals -> Nat] /\ Count[first] <= n
  BY <1>1
<1>3. ASSUME NEW v \in Vals \ Done PROVE Count[Turn[v]] < Count[v]
  <2>1. Turn[v] \in Vals
    OBVIOUS
  <2> DEFINE A == U \ Marks[v]
             B == U \ Marks[Turn[v]]
  <2>2. B \in SUBSET A /\ A # B
    <3>1. PICK x \in Marks[Turn[v]] : x \notin Marks[v]
      <4>1. Marks[v] \subseteq Marks[Turn[v]] /\ Marks[v] # Marks[Turn[v]]
        OBVIOUS
      <4> QED
        BY ONLY <4>1, Zenon
    <3>2. Marks[Turn[v]] \in SUBSET U
      BY <2>1
    <3>3. x \in A /\ x \notin B
      BY <3>1, <3>2
    <3> QED
      BY <3>3
  <2>3. IsFiniteSet(A) /\ Cardinality(A) \in Nat /\ Cardinality(B) \in Nat
    BY <1>1, <2>1
  <2>4. Cardinality(B) <= Cardinality(A) /\ Cardinality(A) # Cardinality(B)
    <3> HIDE DEF A, B
    <3> QED
      BY <2>2, <2>3, FS_Subset
  <2>5. Cardinality(B) < Cardinality(A)
    <3> HIDE DEF A, B
    <3> QED
      BY <2>3, <2>4
  <2> QED
    BY <2>1, <2>5
<1>4. CountsDown(n, Vals, first, Turn, Done, Count)
  <2> HIDE DEF Count
  <2> QED
    BY <1>2, <1>3 DEF CountsDown
<1> HIDE DEF Count
<1> QED
  BY <1>4, LoopRuns

LEMMA LeastOf ==
    ASSUME NEW S \in SUBSET Nat, S # {}
    PROVE  \E x \in S : \A y \in S : x <= y
<1> DEFINE less == {p \in Nat \X Nat : p[1] < p[2]}
<1>1. IsWellFoundedOn(less, Nat)
  BY NatLessThanWellFounded, Zenon DEF OpToRel
<1>2. \A x, y \in Nat : <<y, x>> \notin less => x <= y
  OBVIOUS
<1>3. \E x \in S : \A y \in S : <<y, x>> \notin less
  <2> HIDE DEF less
  <2> QED
    BY <1>1, WFMin, ZenonT(30)
<1> HIDE DEF less
<1> QED
  BY <1>2, <1>3

LEMMA LargestMeans ==
    ASSUME NEW S \in SUBSET Nat, S # {}, IsFiniteSet(S)
    PROVE  Largest(S) \in S /\ \A y \in S : y <= Largest(S)
<1> DEFINE n == Cardinality(S)
           Topped(R) == \E x \in R : \A y \in R : y <= x
           J == {j \in 0 .. n : \A R \in SUBSET S : R # {} /\ Cardinality(R) = j => Topped(R)}
<1>1. n \in Nat
  BY FS_CardinalityType
<1>2. \A R \in SUBSET S : IsFiniteSet(R)
  BY FS_Subset
<1>3. 0 \in J
  <2>1. \A R \in SUBSET S : R # {} => Cardinality(R) # 0
    BY <1>2, FS_EmptySet
  <2> QED
    BY <1>1, <2>1
<1>4. ASSUME NEW j \in 1 .. n, j - 1 \in J PROVE j \in J
  <2> SUFFICES ASSUME NEW R \in SUBSET S, R # {}, Cardinality(R) = j PROVE Topped(R)
    OBVIOUS
  <2>1. PICK x : x \in R
    OBVIOUS
  <2> DEFINE Q == R \ {x}
  <2>2. Cardinality(Q) = j - 1
    BY <1>2, <2>1, FS_RemoveElement
  <2>3. CASE Q = {}
    BY <2>1, <2>3
  <2>4. CASE Q # {}
    <3>1. PICK z \in Q : \A y \in Q : y <= z
      BY <1>4, <2>2, <2>4
    <3>2. x \in Nat /\ z \in Nat /\ z \in R
      BY <2>1
    <3>3. CASE x <= z
      BY <2>1, <3>1, <3>2, <3>3
    <3>4. CASE z <= x
      BY <2>1, <3>1, <3>2, <3>4
    <3> QED
      BY <3>2, <3>3, <3>4
  <2> QED
    BY <2>3, <2>4
<1>5. J = 0 .. n
  <2>1. J \in SUBSET (0 .. n)
    OBVIOUS
  <2> HIDE DEF J, n
  <2> QED
    BY <1>1, <1>3, <1>4, <2>1, TurnByTurn
<1>6. Topped(S)
  <2>1. n \in J
    <3> HIDE DEF J, n
    <3> QED
      BY <1>1, <1>5
  <2> QED
    BY <2>1
<1> QED
  BY <1>6 DEF Largest

-----------------------------------------------------------------------------
(***************************************************************************)
(* Graphs, and the order in which nodes are gone through.                  *)
(***************************************************************************)

\* The graphs the code searches: over some of the tasks, with no edge that
\* leads outside.
IsGraph(G) ==
    /\ G = [n \in DOMAIN G |-> G[n]]
    /\ DOMAIN G \in SUBSET Task
    /\ \A n \in DOMAIN G : G[n] \in SUBSET DOMAIN G

LEMMA ListingMeans ==
    ASSUME NEW S \in SUBSET Task
    PROVE  /\ IsFiniteSet(S) /\ Cardinality(S) \in Nat
           /\ Listing[S] \in Seq(S) /\ Len(Listing[S]) = Cardinality(S)
           /\ \A j \in 1 .. Cardinality(S) : Listing[S][j] \in S
           /\ \A t \in S : \E j \in 1 .. Cardinality(S) : Listing[S][j] = t
           /\ \A i, j \in 1 .. Cardinality(S) : Listing[S][i] = Listing[S][j] => i = j
<1> DEFINE c == Cardinality(S)
<1>1. IsFiniteSet(S) /\ c \in Nat
  BY TaskAssumption, FS_Subset, FS_CardinalityType
<1>2. /\ Listing[S] \in [1 .. c -> S]
      /\ \A t \in S : \E j \in 1 .. c : Listing[S][j] = t
  BY ListingAssumption
<1>3. IsFiniteSet(1 .. c) /\ Cardinality(1 .. c) = c
  <2> HIDE DEF c
  <2> QED
    BY <1>1, FS_Interval
<1>4. Listing[S] \in Surjection(1 .. c, S)
  BY <1>2 DEF Surjection
<1>5. Listing[S] \in Injection(1 .. c, S)
  <2>1. Cardinality(1 .. c) = Cardinality(S)
    BY <1>3
  <2> HIDE DEF c
  <2> QED
    BY <1>3, <1>4, <2>1, FS_SurjSameCardinalityImpliesInj
<1>6. \A i, j \in 1 .. c : Listing[S][i] = Listing[S][j] => i = j
  BY <1>2, <1>5 DEF Injection, IsInjective
<1>7. Listing[S] \in Seq(S) /\ Len(Listing[S]) = c
  <2> HIDE DEF c
  <2> QED
    BY <1>1, <1>2
<1> QED
  BY <1>1, <1>2, <1>6, <1>7

LEMMA GraphMeans ==
    ASSUME NEW G, IsGraph(G)
    PROVE  /\ IsFiniteSet(DOMAIN G) /\ Cardinality(DOMAIN G) \in Nat
           /\ Turns(G) \in Nat /\ Cardinality(DOMAIN G) <= Turns(G)
           /\ \A n \in DOMAIN G : /\ G[n] \in SUBSET Task
                                  /\ IsFiniteSet(G[n])
                                  /\ Cardinality(G[n]) \in 0 .. Cardinality(DOMAIN G)
<1> DEFINE k == Cardinality(DOMAIN G)
<1>1. IsFiniteSet(DOMAIN G) /\ k \in Nat
  BY ListingMeans DEF IsGraph
<1>2. Turns(G) \in Nat /\ k <= Turns(G)
  <2>1. Turns(G) = (k + 1) * (k + 1)
    BY DEF Turns
  <2>2. (k + 1) * (k + 1) \in Nat /\ k <= (k + 1) * (k + 1)
    <3> HIDE DEF k
    <3> QED
      BY <1>1
  <2> QED
    BY <2>1, <2>2
<1>3. ASSUME NEW n \in DOMAIN G
      PROVE  G[n] \in SUBSET Task /\ IsFiniteSet(G[n]) /\ Cardinality(G[n]) \in 0 .. k
  <2>1. G[n] \in SUBSET DOMAIN G /\ G[n] \in SUBSET Task
    BY DEF IsGraph
  <2>2. IsFiniteSet(G[n]) /\ Cardinality(G[n]) \in Nat /\ Cardinality(G[n]) <= k
    BY <1>1, <2>1, FS_Subset, ListingMeans
  <2> QED
    BY <1>1, <2>1, <2>2
<1> QED
  BY <1>1, <1>2, <1>3

\* The end of a list, and what is before it.
LEMMA EndOfList ==
    ASSUME NEW S, NEW s \in Seq(S), s # <<>>
    PROVE  /\ Len(s) \in Nat /\ Len(s) >= 1
           /\ Last(s) = s[Len(s)] /\ Last(s) \in S
           /\ Front(s) \in Seq(S) /\ Len(Front(s)) = Len(s) - 1
           /\ \A i \in 1 .. (Len(s) - 1) : Front(s)[i] = s[i]
           /\ Front(s) = <<>> <=> Len(s) = 1
<1>1. Len(s) \in Nat /\ Len(s) >= 1
  OBVIOUS
<1>2. Last(s) = s[Len(s)] /\ Last(s) \in S
  BY <1>1 DEF Last
<1> DEFINE m == Len(s) - 1
<1>3. m \in Nat /\ \A i \in 1 .. m : s[i] \in S
  BY <1>1
<1>4. /\ Front(s) \in Seq(S) /\ Len(Front(s)) = m
      /\ \A i \in 1 .. m : Front(s)[i] = s[i]
  <2>1. Front(s) = SubSeq(s, 1, m)
    BY DEF Front
  <2>2. 1 \in Int /\ m \in Int
    BY <1>3
  <2> HIDE DEF m
  <2>3. /\ SubSeq(s, 1, m) \in Seq(S)
        /\ Len(SubSeq(s, 1, m)) = IF 1 <= m THEN m - 1 + 1 ELSE 0
        /\ \A i \in 1 .. m - 1 + 1 : SubSeq(s, 1, m)[i] = s[1 + i - 1]
    BY <1>3, <2>2, SubSeqProperties
  <2> QED
    BY <1>3, <2>1, <2>3
<1>5. Front(s) = <<>> <=> Len(s) = 1
  BY <1>1, <1>4
<1> QED
  BY <1>1, <1>2, <1>4, <1>5

-----------------------------------------------------------------------------
(***************************************************************************)
(* Looking for a cycle depth first.                                        *)
(***************************************************************************)

SearchStates(G) ==
    [visited : SUBSET DOMAIN G, stack : SUBSET DOMAIN G, path : Seq(DOMAIN G),
     cycle : Seq(DOMAIN G), root : 0 .. Cardinality(DOMAIN G), at : [DOMAIN G -> Nat]]

\* The nodes whose call has returned.
Finished(s) == s.visited \ s.stack

\* The recursion stack is the path, a walk without repetition.
PathIsStack(G, s) ==
    /\ s.stack \subseteq s.visited
    /\ \A i \in 1 .. Len(s.path) : s.path[i] \in s.stack
    /\ \A n \in s.stack : \E i \in 1 .. Len(s.path) : s.path[i] = n
    /\ \A i, j \in 1 .. Len(s.path) : s.path[i] = s.path[j] => i = j
    /\ \A i \in 1 .. (Len(s.path) - 1) : s.path[i + 1] \in G[s.path[i]]

\* What has returned depends on what has returned, and not in a circle.
FinishedIsStraight(G, s) ==
    /\ \A n \in Finished(s) : G[n] \subseteq Finished(s)
    /\ \A S \in SUBSET Finished(s) : S # {} => \E n \in S : G[n] \cap S = {}

CountedRight(G, s) ==
    \A n \in DOMAIN G : s.at[n] <= Cardinality(G[n]) /\ (n \notin s.visited => s.at[n] = 0)

\* What a loop has gone through has returned, or is the call it waits for.
GoneThrough(G, s) ==
    /\ \A i \in 1 .. Len(s.path) : \A j \in 1 .. s.at[s.path[i]] :
           \/ Listing[G[s.path[i]]][j] \in Finished(s)
           \/ i < Len(s.path) /\ Listing[G[s.path[i]]][j] = s.path[i + 1]
    /\ \A j \in 1 .. s.root :
           \/ Listing[DOMAIN G][j] \in Finished(s)
           \/ s.path # <<>> /\ Listing[DOMAIN G][j] = s.path[1]

SearchInv(G, s) ==
    /\ s \in SearchStates(G)
    /\ IF s.cycle = <<>>
       THEN /\ PathIsStack(G, s) /\ FinishedIsStraight(G, s)
            /\ CountedRight(G, s) /\ GoneThrough(G, s)
       ELSE IsCycle(s.cycle, G)

LEMMA FreshIsRight == ASSUME NEW G, IsGraph(G) PROVE SearchInv(G, Fresh(G))
<1> DEFINE s == Fresh(G)
<1>1. /\ s.visited = {} /\ s.stack = {} /\ s.path = <<>> /\ s.cycle = <<>>
      /\ s.root = 0 /\ s.at = NotYet(G)
  BY DEF Fresh
<1>2. NotYet(G) \in [DOMAIN G -> Nat] /\ \A n \in DOMAIN G : NotYet(G)[n] = 0
  BY DEF NotYet
<1>3. s \in SearchStates(G)
  <2>1. 0 \in 0 .. Cardinality(DOMAIN G)
    BY GraphMeans
  <2>2. <<>> \in Seq(DOMAIN G)
    OBVIOUS
  <2> QED
    BY <1>2, <2>1, <2>2 DEF Fresh, SearchStates
<1>4. Len(s.path) = 0
  BY <1>1
<1> HIDE DEF s
<1>5. PathIsStack(G, s)
  BY <1>1, <1>4 DEF PathIsStack
<1>6. FinishedIsStraight(G, s)
  BY <1>1 DEF FinishedIsStraight, Finished
<1>7. CountedRight(G, s)
  BY <1>1, <1>2, GraphMeans DEF CountedRight
<1>8. GoneThrough(G, s)
  BY <1>1, <1>4 DEF GoneThrough
<1> QED
  BY <1>1, <1>3, <1>5, <1>6, <1>7, <1>8 DEF SearchInv, s

\* A turn of the loop over the nodes.
LEMMA RootKeepsSearch ==
    ASSUME NEW G, IsGraph(G), NEW s, SearchInv(G, s), s.cycle = <<>>, s.path = <<>>,
           s.root # Cardinality(DOMAIN G)
    PROVE  LET t == SearchRoot(G, s)
           IN  /\ SearchInv(G, t)
               /\ t.root = s.root + 1 /\ t.at = s.at /\ Finished(s) \subseteq Finished(t)
<1> DEFINE k == Cardinality(DOMAIN G)
           n == Listing[DOMAIN G][s.root + 1]
           t == SearchRoot(G, s)
<1>1. s \in SearchStates(G) /\ k \in Nat /\ s.root \in Nat /\ s.root + 1 \in 1 .. k /\ Len(s.path) = 0
  BY GraphMeans DEF SearchInv, SearchStates
<1>2. n \in DOMAIN G
  <2>1. DOMAIN G \in SUBSET Task
    BY DEF IsGraph
  <2> QED
    BY <1>1, <2>1, ListingMeans
<1>3. s.stack = {} /\ Finished(s) = s.visited
  BY <1>1 DEF SearchInv, PathIsStack, Finished
<1>4. PathIsStack(G, s) /\ FinishedIsStraight(G, s) /\ CountedRight(G, s) /\ GoneThrough(G, s)
  BY DEF SearchInv
<1> HIDE DEF n, k
<1>5. CASE n \in s.visited
  <2>1. t = [s EXCEPT !.root = @ + 1]
    BY <1>5 DEF SearchRoot, n
  <2>2. /\ t \in SearchStates(G)
        /\ t.visited = s.visited /\ t.stack = s.stack /\ t.path = s.path /\ t.cycle = s.cycle
        /\ t.root = s.root + 1 /\ t.at = s.at
    <3>1. s.root + 1 \in 0 .. k
      BY <1>1
    <3> QED
      BY <1>1, <2>1, <3>1 DEF SearchStates, k
  <2> HIDE DEF t
  <2>3. Finished(t) = Finished(s)
    BY <2>2 DEF Finished
  <2>4. PathIsStack(G, t) /\ FinishedIsStraight(G, t) /\ CountedRight(G, t)
    BY <1>4, <2>2, <2>3 DEF PathIsStack, FinishedIsStraight, CountedRight
  <2>5. GoneThrough(G, t)
    <3>1. \A j \in 1 .. (s.root + 1) : j \in 1 .. s.root \/ j = s.root + 1
      BY <1>1
    <3>2. Listing[DOMAIN G][s.root + 1] \in Finished(s)
      BY <1>3, <1>5 DEF n
    <3> QED
      BY <1>1, <1>4, <2>2, <2>3, <3>1, <3>2 DEF GoneThrough
  <2> QED
    BY <2>2, <2>3, <2>4, <2>5 DEF SearchInv, t
<1>6. CASE n \notin s.visited
  <2>1. t = Visit([s EXCEPT !.root = @ + 1], n)
    BY <1>6 DEF SearchRoot, n
  <2>2. /\ t \in SearchStates(G)
        /\ t.visited = s.visited \cup {n} /\ t.stack = {n} /\ t.path = <<n>> /\ t.cycle = <<>>
        /\ t.root = s.root + 1 /\ t.at = s.at
    <3>1. s.root + 1 \in 0 .. k
      BY <1>1
    <3>2. Append(s.path, n) = <<n>> /\ <<n>> \in Seq(DOMAIN G)
      BY <1>2
    <3> DEFINE r == [s EXCEPT !.root = @ + 1]
    <3>3. /\ r \in SearchStates(G)
          /\ r.visited = s.visited /\ r.stack = {} /\ r.path = <<>> /\ r.cycle = <<>>
          /\ r.root = s.root + 1 /\ r.at = s.at
      BY <1>1, <1>3, <3>1 DEF SearchStates, k
    <3>4. t = Visit(r, n)
      BY <2>1
    <3> HIDE DEF r, t
    <3> QED
      BY <1>2, <3>2, <3>3, <3>4 DEF SearchStates, Visit
  <2> HIDE DEF t
  <2>3. Finished(t) = Finished(s)
    BY <1>3, <1>6, <2>2 DEF Finished
  <2>4. Len(t.path) = 1 /\ t.path[1] = n /\ t.path # <<>>
    BY <2>2
  <2>5. PathIsStack(G, t)
    <3>1. \A i \in 1 .. Len(t.path) : i = 1
      BY <2>4
    <3>2. 1 .. (Len(t.path) - 1) = {}
      BY <2>4
    <3> QED
      BY <2>2, <2>4, <3>1, <3>2 DEF PathIsStack
  <2>6. FinishedIsStraight(G, t) /\ CountedRight(G, t)
    BY <1>4, <2>2, <2>3 DEF FinishedIsStraight, CountedRight
  <2>7. GoneThrough(G, t)
    <3>1. \A j \in 1 .. (s.root + 1) : j \in 1 .. s.root \/ j = s.root + 1
      BY <1>1
    <3>2. \A j \in 1 .. s.root : Listing[DOMAIN G][j] \in Finished(s)
      BY <1>4 DEF GoneThrough
    <3>3. \A j \in 1 .. t.root : Listing[DOMAIN G][j] \in Finished(t) \/ Listing[DOMAIN G][j] = t.path[1]
      BY <2>2, <2>3, <2>4, <3>1, <3>2 DEF n
    <3>4. \A i \in 1 .. Len(t.path) : t.at[t.path[i]] = 0
      BY <1>2, <1>4, <1>6, <2>2, <2>4 DEF CountedRight
    <3> QED
      BY <2>4, <3>3, <3>4 DEF GoneThrough
  <2> QED
    BY <2>2, <2>3, <2>5, <2>6, <2>7 DEF SearchInv, t
<1> QED
  BY <1>5, <1>6

\* A call returns.
LEMMA ReturnKeepsSearch ==
    ASSUME NEW G, IsGraph(G), NEW s, SearchInv(G, s), s.cycle = <<>>, s.path # <<>>,
           s.at[Last(s.path)] = Cardinality(G[Last(s.path)])
    PROVE  LET t == Unwind(s, Last(s.path))
           IN  /\ SearchInv(G, t)
               /\ t.root = s.root /\ t.at = s.at
               /\ Finished(t) = Finished(s) \cup {Last(s.path)} /\ Last(s.path) \in s.stack
<1> DEFINE n == Last(s.path)
           t == Unwind(s, n)
           L == Len(s.path)
<1>1. s \in SearchStates(G) /\ s.path \in Seq(DOMAIN G)
  BY DEF SearchInv, SearchStates
<1>2. /\ L \in Nat /\ L >= 1 /\ n = s.path[L] /\ n \in DOMAIN G
      /\ Front(s.path) \in Seq(DOMAIN G) /\ Len(Front(s.path)) = L - 1
      /\ \A i \in 1 .. (L - 1) : Front(s.path)[i] = s.path[i]
      /\ Front(s.path) = <<>> <=> L = 1
      /\ L \in 1 .. L
  BY <1>1, EndOfList
<1>3. PathIsStack(G, s) /\ FinishedIsStraight(G, s) /\ CountedRight(G, s) /\ GoneThrough(G, s)
  BY DEF SearchInv
<1>a. s.stack \subseteq s.visited /\ \A i \in 1 .. L : s.path[i] \in s.stack
  BY <1>3 DEF PathIsStack
<1>b. \A m \in s.stack : \E i \in 1 .. L : s.path[i] = m
  BY <1>3 DEF PathIsStack
<1>c. \A i, j \in 1 .. L : s.path[i] = s.path[j] => i = j
  BY <1>3 DEF PathIsStack
<1>d. \A i \in 1 .. (L - 1) : s.path[i + 1] \in G[s.path[i]]
  BY <1>3 DEF PathIsStack
<1>4. /\ t \in SearchStates(G)
      /\ t.visited = s.visited /\ t.stack = s.stack \ {n} /\ t.path = Front(s.path)
      /\ t.cycle = <<>> /\ t.root = s.root /\ t.at = s.at
  BY <1>1, <1>2 DEF SearchStates, Unwind
<1> HIDE DEF n, t, L
<1>5. /\ Len(t.path) = L - 1
      /\ \A i \in 1 .. (L - 1) : t.path[i] = s.path[i]
      /\ t.path = <<>> <=> L = 1
  BY <1>2, <1>4
<1>6. n \in s.stack /\ n \in s.visited /\ n \notin Finished(s)
  BY <1>2, <1>a DEF Finished
<1>7. Finished(t) = Finished(s) \cup {n}
  BY <1>4, <1>6 DEF Finished
<1>8. PathIsStack(G, t)
  <2>1. \A i \in 1 .. (L - 1) : i \in 1 .. L /\ i # L /\ L \in 1 .. L
    BY <1>2
  <2>2. \A i \in 1 .. (L - 1) : t.path[i] \in t.stack
    <3> TAKE i \in 1 .. (L - 1)
    <3>1. s.path[i] \in s.stack /\ s.path[i] # s.path[L]
      BY <1>a, <1>c, <2>1
    <3> QED
      BY <1>2, <1>4, <1>5, <3>1
  <2>3. \A i \in 1 .. L : i = L \/ i \in 1 .. (L - 1)
    BY <1>2
  <2>4. \A m \in t.stack : \E i \in 1 .. (L - 1) : t.path[i] = m
    <3> TAKE m \in t.stack
    <3>1. PICK i \in 1 .. L : s.path[i] = m
      BY <1>b, <1>4
    <3>2. i # L
      BY <1>2, <1>4, <3>1
    <3> QED
      BY <1>5, <2>3, <3>1, <3>2
  <2>5. \A i \in 1 .. (L - 1 - 1) : t.path[i + 1] \in G[t.path[i]]
    <3>1. \A i \in 1 .. (L - 1 - 1) : i \in 1 .. (L - 1) /\ i + 1 \in 1 .. (L - 1)
      BY <1>2
    <3> QED
      BY <1>d, <1>5, <3>1
  <2>6. \A i, j \in 1 .. (L - 1) : t.path[i] = t.path[j] => i = j
    BY <1>c, <1>5, <2>1
  <2> QED
    BY <1>a, <1>4, <1>5, <2>2, <2>4, <2>5, <2>6 DEF PathIsStack
<1>9. G[n] \subseteq Finished(s)
  <2>1. G[n] \in SUBSET Task
    BY <1>2, GraphMeans
  <2>2. \A d \in G[n] : \E j \in 1 .. Cardinality(G[n]) : Listing[G[n]][j] = d
    BY <2>1, ListingMeans
  <2>3. L \in 1 .. L /\ ~(L < L)
    BY <1>2
  <2>4. \A j \in 1 .. Cardinality(G[n]) : Listing[G[n]][j] \in Finished(s)
    BY <1>2, <1>3, <2>3 DEF GoneThrough, L, n
  <2> QED
    BY <2>2, <2>4
<1>10. FinishedIsStraight(G, t)
  <2>1. \A m \in Finished(t) : G[m] \subseteq Finished(t)
    BY <1>3, <1>7, <1>9 DEF FinishedIsStraight
  <2>2. ASSUME NEW S \in SUBSET Finished(t), S # {}
        PROVE  \E m \in S : G[m] \cap S = {}
    <3> DEFINE R == S \ {n}
    <3>1. R \in SUBSET Finished(s)
      BY <1>7
    <3>2. CASE R = {}
      <4>1. S = {n}
        BY <2>2, <3>2
      <4> QED
        BY <1>6, <1>9, <4>1
    <3>3. CASE R # {}
      <4>1. PICK m \in R : G[m] \cap R = {}
        BY <1>3, <3>1, <3>3 DEF FinishedIsStraight
      <4>2. n \notin G[m]
        BY <1>3, <1>6, <3>1 DEF FinishedIsStraight
      <4> QED
        BY <4>1, <4>2
    <3> QED
      BY <3>2, <3>3
  <2> QED
    BY <2>1, <2>2 DEF FinishedIsStraight
<1>11. CountedRight(G, t)
  BY <1>3, <1>4 DEF CountedRight
<1>12. GoneThrough(G, t)
  <2>1. ASSUME NEW i \in 1 .. Len(t.path), NEW j \in 1 .. t.at[t.path[i]]
        PROVE  \/ Listing[G[t.path[i]]][j] \in Finished(t)
               \/ i < Len(t.path) /\ Listing[G[t.path[i]]][j] = t.path[i + 1]
    <3>1. i \in 1 .. L /\ i \in 1 .. (L - 1) /\ t.path[i] = s.path[i] /\ t.at = s.at
      BY <1>2, <1>4, <1>5
    <3>2. \/ Listing[G[t.path[i]]][j] \in Finished(s)
          \/ Listing[G[t.path[i]]][j] = s.path[i + 1]
      BY <1>3, <3>1 DEF GoneThrough, L
    <3>3. CASE i = L - 1
      <4>1. s.path[i + 1] = n
        BY <1>2, <3>3
      <4> QED
        BY <1>7, <3>2, <4>1
    <3>4. CASE i # L - 1
      <4>1. i < L - 1 /\ i + 1 \in 1 .. (L - 1)
        BY <1>2, <3>1, <3>4
      <4> QED
        BY <1>5, <1>7, <3>2, <4>1
    <3> QED
      BY <3>3, <3>4
  <2>2. ASSUME NEW j \in 1 .. t.root
        PROVE  \/ Listing[DOMAIN G][j] \in Finished(t)
               \/ t.path # <<>> /\ Listing[DOMAIN G][j] = t.path[1]
    <3>1. Listing[DOMAIN G][j] \in Finished(s) \/ Listing[DOMAIN G][j] = s.path[1]
      BY <1>3, <1>4 DEF GoneThrough
    <3>2. CASE L = 1
      BY <1>2, <1>7, <3>1, <3>2
    <3>3. CASE L # 1
      <4>1. 1 \in 1 .. (L - 1)
        BY <1>2, <3>3
      <4> QED
        BY <1>5, <1>7, <3>1, <3>3, <4>1
    <3> QED
      BY <3>2, <3>3
  <2> QED
    BY <2>1, <2>2 DEF GoneThrough
<1>13. SearchInv(G, t)
  BY <1>4, <1>8, <1>10, <1>11, <1>12 DEF SearchInv
<1> QED
  BY <1>4, <1>6, <1>7, <1>13 DEF n, t

\* The path from d on, closed by d, is a cycle.
LEMMA ClosedIsACycle ==
    ASSUME NEW G, IsGraph(G), NEW s \in SearchStates(G), PathIsStack(G, s),
           NEW d \in s.stack, s.path # <<>>, d \in G[Last(s.path)]
    PROVE  LET t == CloseCycle(s, d)
           IN  /\ t \in SearchStates(G) /\ t.cycle # <<>> /\ IsCycle(t.cycle, G)
               /\ t.visited = s.visited /\ t.stack = s.stack /\ t.path = s.path
               /\ t.root = s.root /\ t.at = s.at
<1> DEFINE L == Len(s.path)
           at == {i \in 1 .. L : s.path[i] = d}
           start == IF at = {} THEN 1 ELSE CHOOSE i \in at : \A j \in at : i <= j
           walk == SubSeq(s.path, start, L)
           c == Append(walk, d)
           t == CloseCycle(s, d)
<1>1. s.path \in Seq(DOMAIN G) /\ L \in Nat /\ L >= 1 /\ s.path[L] = Last(s.path)
  BY EndOfList DEF SearchStates
<1>2. start \in at
  <2>1. at # {} /\ at \in SUBSET Nat
    <3>1. \E i \in 1 .. L : s.path[i] = d
      BY DEF PathIsStack
    <3> HIDE DEF L
    <3>2. at \in SUBSET (1 .. L)
      OBVIOUS
    <3>3. 1 .. L \in SUBSET Nat
      BY <1>1
    <3> QED
      BY <3>1, <3>2, <3>3
  <2>2. \E i \in at : \A j \in at : i <= j
    <3> HIDE DEF at
    <3> QED
      BY <2>1, LeastOf
  <2> HIDE DEF at
  <2> QED
    BY <2>1, <2>2
<1> HIDE DEF start
<1>3. start \in 1 .. L /\ s.path[start] = d
  BY <1>2
<1> DEFINE m == L - start + 1
<1>4. /\ m \in Nat /\ m >= 1
      /\ walk \in Seq(DOMAIN G) /\ Len(walk) = m
      /\ \A i \in 1 .. m : walk[i] = s.path[start + i - 1]
  <2>1. start \in Int /\ L \in Int /\ start <= L /\ \A i \in start .. L : s.path[i] \in DOMAIN G
    BY <1>1, <1>3
  <2>2. /\ SubSeq(s.path, start, L) \in Seq(DOMAIN G)
        /\ Len(SubSeq(s.path, start, L)) = IF start <= L THEN L - start + 1 ELSE 0
        /\ \A i \in 1 .. L - start + 1 : SubSeq(s.path, start, L)[i] = s.path[start + i - 1]
    <3> HIDE DEF L
    <3> QED
      BY <2>1, SubSeqProperties
  <2>3. m \in Nat /\ m >= 1
    BY <1>1, <1>3
  <2> QED
    BY <2>1, <2>2, <2>3
<1>5. d \in DOMAIN G
  BY DEF SearchStates
<1> HIDE DEF walk, m
<1>6. /\ c \in Seq(DOMAIN G) /\ Len(c) = m + 1 /\ c # <<>>
      /\ \A i \in 1 .. m : c[i] = walk[i]
      /\ c[m + 1] = d
  BY <1>4, <1>5
<1> HIDE DEF c
<1>7. c[1] = c[Len(c)]
  <2>1. 1 \in 1 .. m /\ start + 1 - 1 = start
    BY <1>3, <1>4
  <2> QED
    BY <1>3, <1>4, <1>6, <2>1
<1>8. ASSUME NEW i \in 1 .. m PROVE c[i + 1] \in G[c[i]]
  <2>1. c[i] = s.path[start + i - 1]
    BY <1>4, <1>6
  <2>2. CASE i = m
    <3>1. start + i - 1 = L
      BY <1>1, <1>3, <2>2 DEF m
    <3> QED
      BY <1>1, <1>6, <2>1, <2>2, <3>1
  <2>3. CASE i # m
    <3>1. /\ i + 1 \in 1 .. m
          /\ start + (i + 1) - 1 = (start + i - 1) + 1
          /\ start + i - 1 \in 1 .. (L - 1)
      <4>1. L \in Nat /\ start \in 1 .. L /\ m = L - start + 1
        BY <1>1, <1>3 DEF m
      <4> HIDE DEF L
      <4> QED
        BY ONLY <4>1, <2>3, i \in 1 .. m
    <3>2. c[i + 1] = s.path[(start + i - 1) + 1]
      BY <1>4, <1>6, <3>1
    <3>3. s.path[(start + i - 1) + 1] \in G[s.path[start + i - 1]]
      BY <3>1 DEF PathIsStack
    <3> QED
      BY <2>1, <3>2, <3>3
  <2> QED
    BY <2>2, <2>3
<1>9. IsCycle(c, G)
  <2>1. Len(c) >= 2 /\ Len(c) - 1 = m
    BY <1>4, <1>6
  <2> QED
    BY <1>7, <1>8, <2>1 DEF IsCycle
<1>10. t = [s EXCEPT !.cycle = c]
  BY DEF CloseCycle, c, walk, start
<1> HIDE DEF t
<1>11. /\ t \in SearchStates(G) /\ t.cycle = c
       /\ t.visited = s.visited /\ t.stack = s.stack /\ t.path = s.path
       /\ t.root = s.root /\ t.at = s.at
  BY <1>6, <1>10 DEF SearchStates
<1> QED
  BY <1>6, <1>9, <1>11 DEF t

\* The call for the last node of the path has come to its edge to d.
AtEdge(G, s, d) ==
    /\ s.cycle = <<>> /\ s.path # <<>>
    /\ d \in G[Last(s.path)] /\ d \in DOMAIN G
    /\ s.at[Last(s.path)] + 1 <= Cardinality(G[Last(s.path)])
    /\ d = Listing[G[Last(s.path)]][s.at[Last(s.path)] + 1]

Enters(s, d, t) ==
    /\ t.visited = s.visited \cup {d} /\ t.stack = s.stack \cup {d}
    /\ t.path = Append(s.path, d) /\ t.cycle = s.cycle /\ t.root = s.root
    /\ t.at = [s.at EXCEPT ![Last(s.path)] = @ + 1]

Skips(s, t) ==
    /\ t.visited = s.visited /\ t.stack = s.stack /\ t.path = s.path
    /\ t.cycle = s.cycle /\ t.root = s.root
    /\ t.at = [s.at EXCEPT ![Last(s.path)] = @ + 1]

\* An edge is followed to a new node.
LEMMA EnterKeepsSearch ==
    ASSUME NEW G, IsGraph(G), NEW s, SearchInv(G, s), NEW d, AtEdge(G, s, d),
           d \notin s.visited, NEW t \in SearchStates(G), Enters(s, d, t)
    PROVE  SearchInv(G, t) /\ Finished(t) = Finished(s)
<1> DEFINE n == Last(s.path)
           L == Len(s.path)
<1>1. /\ s \in SearchStates(G) /\ s.path \in Seq(DOMAIN G) /\ s.at \in [DOMAIN G -> Nat]
      /\ s.cycle = <<>> /\ s.path # <<>>
  BY DEF SearchInv, SearchStates, AtEdge
<1>2. L \in Nat /\ L >= 1 /\ n = s.path[L] /\ n \in DOMAIN G /\ L \in 1 .. L
  BY <1>1, EndOfList
<1>3. PathIsStack(G, s) /\ FinishedIsStraight(G, s) /\ CountedRight(G, s) /\ GoneThrough(G, s)
  BY <1>1 DEF SearchInv
<1>a. s.stack \subseteq s.visited /\ \A i \in 1 .. L : s.path[i] \in s.stack
  BY <1>3 DEF PathIsStack
<1>b. \A m \in s.stack : \E i \in 1 .. L : s.path[i] = m
  BY <1>3 DEF PathIsStack
<1>c. \A i, j \in 1 .. L : s.path[i] = s.path[j] => i = j
  BY <1>3 DEF PathIsStack
<1>d. \A i \in 1 .. (L - 1) : s.path[i + 1] \in G[s.path[i]]
  BY <1>3 DEF PathIsStack
<1>e. t.visited = s.visited \cup {d} /\ t.stack = s.stack \cup {d}
  BY DEF Enters
<1>f. t.path = Append(s.path, d) /\ t.cycle = <<>> /\ t.root = s.root
  BY <1>1 DEF Enters
<1>g. d \in G[n] /\ d \in DOMAIN G
  BY DEF AtEdge
<1>h. s.at[n] + 1 <= Cardinality(G[n]) /\ d = Listing[G[n]][s.at[n] + 1]
  BY DEF AtEdge
<1>4. /\ Len(t.path) = L + 1 /\ t.path[L + 1] = d /\ t.path # <<>>
      /\ \A i \in 1 .. L : t.path[i] = s.path[i]
  <2>1. s.path \in Seq(DOMAIN G) /\ t.path = Append(s.path, d) /\ L = Len(s.path) /\ L \in Nat
    BY <1>1, <1>2, <1>f
  <2> QED
    BY ONLY <2>1, <1>g
<1>5. Finished(t) = Finished(s)
  BY <1>a, <1>e DEF Finished
<1>10. /\ t.at[n] = s.at[n] + 1
       /\ \A m \in DOMAIN G \ {n} : t.at[m] = s.at[m]
  BY <1>1, <1>2 DEF Enters
<1> HIDE DEF n, L
<1>6. \A i \in 1 .. (L + 1) : i \in 1 .. L \/ i = L + 1
  BY <1>2
<1>7. \A i \in 1 .. L : s.path[i] # d /\ i \in 1 .. (L + 1)
  BY <1>2, <1>a
<1>8. PathIsStack(G, t)
  <2>1. \A i \in 1 .. (L + 1) : t.path[i] \in t.stack
    BY <1>4, <1>6, <1>a, <1>e
  <2>2. ASSUME NEW m \in t.stack PROVE \E i \in 1 .. (L + 1) : t.path[i] = m
    <3>1. CASE m = d
      <4>1. L + 1 \in 1 .. (L + 1)
        BY <1>2
      <4> QED
        BY <1>4, <3>1, <4>1
    <3>2. CASE m # d
      <4>1. PICK i \in 1 .. L : s.path[i] = m
        BY <1>b, <1>e, <3>2
      <4> QED
        BY <1>4, <1>7, <4>1
    <3> QED
      BY <3>1, <3>2
  <2>3. ASSUME NEW i \in 1 .. (L + 1), NEW j \in 1 .. (L + 1), t.path[i] = t.path[j]
        PROVE  i = j
    BY <1>4, <1>6, <1>7, <1>c, <2>3
  <2>4. ASSUME NEW i \in 1 .. L PROVE t.path[i + 1] \in G[t.path[i]]
    <3>1. CASE i = L
      BY <1>2, <1>4, <1>g, <3>1
    <3>2. CASE i # L
      <4>1. i \in 1 .. (L - 1) /\ i + 1 \in 1 .. L
        BY <1>2, <3>2
      <4> QED
        BY <1>4, <1>d, <4>1
    <3> QED
      BY <3>1, <3>2
  <2>5. Len(t.path) = L + 1 /\ Len(t.path) - 1 = L
    BY <1>2, <1>4
  <2>6. t.stack \subseteq t.visited
    BY <1>a, <1>e
  <2> QED
    BY <2>1, <2>2, <2>3, <2>4, <2>5, <2>6 DEF PathIsStack
<1>9. FinishedIsStraight(G, t)
  BY <1>3, <1>5 DEF FinishedIsStraight
<1>11. n \in s.visited /\ n # d
  BY <1>2, <1>7, <1>a
<1>12. CountedRight(G, t)
  <2> SUFFICES ASSUME NEW m \in DOMAIN G
               PROVE  t.at[m] <= Cardinality(G[m]) /\ (m \notin t.visited => t.at[m] = 0)
    BY DEF CountedRight
  <2>1. CASE m = n
    BY <1>10, <1>11, <1>e, <1>h, <2>1
  <2>2. CASE m # n
    BY <1>3, <1>10, <1>e, <2>2 DEF CountedRight
  <2> QED
    BY <2>1, <2>2
<1>13. GoneThrough(G, t)
  <2>1. ASSUME NEW i \in 1 .. (L + 1), NEW j \in 1 .. t.at[t.path[i]]
        PROVE  \/ Listing[G[t.path[i]]][j] \in Finished(s)
               \/ i < L + 1 /\ Listing[G[t.path[i]]][j] = t.path[i + 1]
    <3>1. CASE i = L + 1
      <4>1. t.path[i] = d /\ t.at[d] = 0
        BY <1>3, <1>4, <1>10, <1>11, <1>g, <3>1 DEF CountedRight
      <4>2. 1 .. 0 = {}
        OBVIOUS
      <4> QED
        BY <4>1, <4>2
    <3>2. CASE i = L
      <4>1. t.path[i] = n /\ t.path[i + 1] = d
        BY <1>2, <1>4, <3>2
      <4>2. s.at[n] \in Nat /\ j \in 1 .. (s.at[n] + 1) /\ L < L + 1
        BY <1>1, <1>2, <1>10, <4>1
      <4>3. CASE j = s.at[n] + 1
        BY <3>2, <4>1, <4>2, <4>3, <1>h
      <4>4. CASE j # s.at[n] + 1
        <5>1. j \in 1 .. s.at[s.path[L]]
          BY <1>2, <4>2, <4>4
        <5>2. ~(L < L)
          BY <1>2
        <5>3. Listing[G[s.path[L]]][j] \in Finished(s)
          BY <1>2, <1>3, <5>1, <5>2 DEF GoneThrough, L
        <5> QED
          BY <1>2, <4>1, <5>3
      <4> QED
        BY <4>3, <4>4
    <3>3. CASE i # L /\ i # L + 1
      <4>1. i \in 1 .. L /\ i < L /\ i + 1 \in 1 .. L /\ i < L + 1
        BY <1>2, <3>3
      <4>2. s.path[i] # n /\ s.path[i] \in DOMAIN G
        BY <1>1, <1>2, <1>c, <3>3, <4>1 DEF L
      <4>3. t.path[i] = s.path[i] /\ t.path[i + 1] = s.path[i + 1] /\ t.at[t.path[i]] = s.at[s.path[i]]
        BY <1>4, <1>10, <4>1, <4>2
      <4>4. \/ Listing[G[s.path[i]]][j] \in Finished(s)
            \/ Listing[G[s.path[i]]][j] = s.path[i + 1]
        BY <1>3, <4>1, <4>3 DEF GoneThrough, L
      <4> QED
        BY <4>1, <4>3, <4>4
    <3> QED
      BY <3>1, <3>2, <3>3
  <2>2. ASSUME NEW j \in 1 .. s.root
        PROVE  \/ Listing[DOMAIN G][j] \in Finished(s)
               \/ Listing[DOMAIN G][j] = t.path[1]
    <3>1. 1 \in 1 .. L
      BY <1>2
    <3> QED
      BY <1>3, <1>4, <3>1 DEF GoneThrough
  <2> QED
    BY <1>4, <1>5, <1>f, <2>1, <2>2 DEF GoneThrough
<1> QED
  BY <1>5, <1>8, <1>9, <1>12, <1>13, <1>f DEF SearchInv

\* An edge that leads to what has returned.
LEMMA SkipKeepsSearch ==
    ASSUME NEW G, IsGraph(G), NEW s, SearchInv(G, s), NEW d, AtEdge(G, s, d),
           d \in Finished(s), NEW t \in SearchStates(G), Skips(s, t)
    PROVE  SearchInv(G, t) /\ Finished(t) = Finished(s)
<1> DEFINE n == Last(s.path)
           L == Len(s.path)
<1>1. /\ s \in SearchStates(G) /\ s.path \in Seq(DOMAIN G) /\ s.at \in [DOMAIN G -> Nat]
      /\ s.cycle = <<>> /\ s.path # <<>>
  BY DEF SearchInv, SearchStates, AtEdge
<1>2. L \in Nat /\ L >= 1 /\ n = s.path[L] /\ n \in DOMAIN G /\ L \in 1 .. L
  BY <1>1, EndOfList
<1>3. PathIsStack(G, s) /\ FinishedIsStraight(G, s) /\ CountedRight(G, s) /\ GoneThrough(G, s)
  BY <1>1 DEF SearchInv
<1>e. /\ t.visited = s.visited /\ t.stack = s.stack /\ t.path = s.path
      /\ t.cycle = <<>> /\ t.root = s.root
  BY <1>1 DEF Skips
<1>h. s.at[n] + 1 <= Cardinality(G[n]) /\ d = Listing[G[n]][s.at[n] + 1]
  BY DEF AtEdge
<1>4. Finished(t) = Finished(s)
  BY <1>e DEF Finished
<1>5. PathIsStack(G, t)
  BY <1>3, <1>e DEF PathIsStack
<1>6. FinishedIsStraight(G, t)
  BY <1>3, <1>4 DEF FinishedIsStraight
<1>7. /\ t.at[n] = s.at[n] + 1
      /\ \A m \in DOMAIN G \ {n} : t.at[m] = s.at[m]
  BY <1>1, <1>2 DEF Skips
<1> HIDE DEF n, L
<1>8. n \in s.visited
  BY <1>2, <1>3 DEF PathIsStack, L
<1>9. CountedRight(G, t)
  <2> SUFFICES ASSUME NEW m \in DOMAIN G
               PROVE  t.at[m] <= Cardinality(G[m]) /\ (m \notin t.visited => t.at[m] = 0)
    BY DEF CountedRight
  <2>1. CASE m = n
    BY <1>7, <1>8, <1>e, <1>h, <2>1
  <2>2. CASE m # n
    BY <1>3, <1>7, <1>e, <2>2 DEF CountedRight
  <2> QED
    BY <2>1, <2>2
<1>10. GoneThrough(G, t)
  <2>1. ASSUME NEW i \in 1 .. L, NEW j \in 1 .. t.at[s.path[i]]
        PROVE  \/ Listing[G[s.path[i]]][j] \in Finished(s)
               \/ i < L /\ Listing[G[s.path[i]]][j] = s.path[i + 1]
    <3>1. s.path[i] \in DOMAIN G
      BY <1>1 DEF L
    <3>2. CASE j \in 1 .. s.at[s.path[i]]
      BY <1>3, <3>2 DEF GoneThrough, L
    <3>3. CASE j \notin 1 .. s.at[s.path[i]]
      <4>1. s.path[i] = n
        BY <1>7, <3>1, <3>3
      <4>2. s.at[n] \in Nat /\ j \in 1 .. (s.at[n] + 1) /\ j \notin 1 .. s.at[n]
        BY <1>1, <1>2, <1>7, <3>3, <4>1
      <4>3. j = s.at[n] + 1
        BY <4>2
      <4> QED
        BY <4>1, <4>3, <1>h
    <3> QED
      BY <3>2, <3>3
  <2>2. \A j \in 1 .. s.root :
            \/ Listing[DOMAIN G][j] \in Finished(s)
            \/ s.path # <<>> /\ Listing[DOMAIN G][j] = s.path[1]
    BY <1>3 DEF GoneThrough
  <2> QED
    BY <1>4, <1>e, <2>1, <2>2 DEF GoneThrough, L
<1> QED
  BY <1>4, <1>5, <1>6, <1>9, <1>10, <1>e DEF SearchInv

LEMMA EdgeKeepsSearch ==
    ASSUME NEW G, IsGraph(G), NEW s, SearchInv(G, s), s.cycle = <<>>, s.path # <<>>,
           s.at[Last(s.path)] # Cardinality(G[Last(s.path)])
    PROVE  LET t == SearchBelow(G, s, Last(s.path))
           IN  /\ SearchInv(G, t)
               /\ t.root = s.root /\ Finished(t) = Finished(s)
               /\ t.at = [s.at EXCEPT ![Last(s.path)] = @ + 1]
<1> DEFINE n == Last(s.path)
           d == Listing[G[n]][s.at[n] + 1]
           r == [s EXCEPT !.at[n] = @ + 1]
           t == SearchBelow(G, s, n)
<1>1. /\ s \in SearchStates(G) /\ s.path \in Seq(DOMAIN G) /\ s.at \in [DOMAIN G -> Nat]
      /\ PathIsStack(G, s) /\ CountedRight(G, s)
  BY DEF SearchInv, SearchStates
<1>2. n \in DOMAIN G /\ n = s.path[Len(s.path)] /\ Len(s.path) \in 1 .. Len(s.path)
  BY <1>1, EndOfList
<1>3. G[n] \in SUBSET DOMAIN G /\ G[n] \in SUBSET Task /\ Cardinality(G[n]) \in Nat
  BY <1>2, GraphMeans DEF IsGraph
<1>4. s.at[n] + 1 \in 1 .. Cardinality(G[n])
  <2>1. s.at[n] \in Nat /\ s.at[n] <= Cardinality(G[n]) /\ s.at[n] # Cardinality(G[n])
    BY <1>1, <1>2 DEF CountedRight
  <2> HIDE DEF n
  <2> QED
    BY <1>3, <2>1
<1>5. d \in G[n] /\ d \in DOMAIN G
  BY <1>3, <1>4, ListingMeans
<1>6. AtEdge(G, s, d)
  BY <1>4, <1>5 DEF AtEdge
<1>7. t = Follow(r, d)
  BY DEF SearchBelow
<1>8. /\ r \in SearchStates(G)
      /\ r.visited = s.visited /\ r.stack = s.stack /\ r.path = s.path /\ r.cycle = <<>>
      /\ r.root = s.root /\ r.at = [s.at EXCEPT ![n] = @ + 1]
  <2>1. [s.at EXCEPT ![n] = @ + 1] \in [DOMAIN G -> Nat]
    BY <1>1, <1>2
  <2>2. r = [s EXCEPT !.at = [s.at EXCEPT ![n] = @ + 1]]
    BY <1>1 DEF SearchStates
  <2> HIDE DEF n, r
  <2> QED
    BY <1>1, <2>1, <2>2 DEF SearchStates
<1> HIDE DEF d, r, t
<1>9. CASE d \notin s.visited
  <2>1. t = Visit(r, d)
    BY <1>7, <1>8, <1>9 DEF Follow
  <2>2. t \in SearchStates(G) /\ Enters(s, d, t)
    <3>1. Append(s.path, d) \in Seq(DOMAIN G)
      BY <1>1, <1>5
    <3>2. /\ t \in SearchStates(G)
          /\ t.visited = r.visited \cup {d} /\ t.stack = r.stack \cup {d}
          /\ t.path = Append(s.path, d) /\ t.cycle = <<>> /\ t.root = r.root /\ t.at = r.at
      BY <1>5, <1>8, <2>1, <3>1 DEF Visit, SearchStates
    <3> QED
      BY <1>8, <3>2 DEF Enters
  <2>3. SearchInv(G, t) /\ Finished(t) = Finished(s)
    BY <1>6, <1>9, <2>2, EnterKeepsSearch
  <2> QED
    BY <2>2, <2>3 DEF Enters, t
<1>10. CASE d \in s.visited /\ d \in s.stack
  <2>1. t = CloseCycle(r, d)
    BY <1>7, <1>8, <1>10 DEF Follow
  <2>2. PathIsStack(G, r)
    BY <1>1, <1>8 DEF PathIsStack
  <2>3. r.path # <<>> /\ d \in G[Last(r.path)] /\ d \in r.stack
    BY <1>5, <1>8, <1>10
  <2>4. /\ t \in SearchStates(G) /\ t.cycle # <<>> /\ IsCycle(t.cycle, G)
        /\ t.visited = r.visited /\ t.stack = r.stack /\ t.path = r.path
        /\ t.root = r.root /\ t.at = r.at
    BY <1>8, <2>1, <2>2, <2>3, ClosedIsACycle
  <2>5. SearchInv(G, t)
    BY <2>4 DEF SearchInv
  <2>6. Finished(t) = Finished(s)
    BY <1>8, <2>4 DEF Finished
  <2> QED
    BY <1>8, <2>4, <2>5, <2>6 DEF t
<1>11. CASE d \in s.visited /\ d \notin s.stack
  <2>1. t = r
    BY <1>7, <1>8, <1>11 DEF Follow
  <2>2. t \in SearchStates(G) /\ Skips(s, t) /\ d \in Finished(s)
    BY <1>8, <1>11, <2>1 DEF Skips, Finished
  <2>3. SearchInv(G, t) /\ Finished(t) = Finished(s)
    BY <1>6, <2>2, SkipKeepsSearch
  <2> QED
    BY <2>2, <2>3 DEF Skips, t
<1> QED
  BY <1>9, <1>10, <1>11

\* What the search has done: the calls that have returned, the edges looked
\* at, the nodes the outer loop has gone through.
SearchMarks(G, s) ==
    {p \in (DOMAIN G) \X (0 .. Cardinality(DOMAIN G) + 1) :
        \/ p[2] = 0 /\ p[1] \in Finished(s)
        \/ p[2] \in 1 .. Cardinality(DOMAIN G) /\ p[2] <= s.at[p[1]]
        \/ p[2] = Cardinality(DOMAIN G) + 1 /\ \E j \in 1 .. s.root : Listing[DOMAIN G][j] = p[1]}

LEMMA MarksGrow ==
    ASSUME NEW G, IsGraph(G), NEW s \in SearchStates(G), NEW t \in SearchStates(G),
           Finished(s) \subseteq Finished(t), s.root <= t.root,
           \A n \in DOMAIN G : s.at[n] <= t.at[n]
    PROVE  SearchMarks(G, s) \subseteq SearchMarks(G, t)
<1> DEFINE k == Cardinality(DOMAIN G)
<1>1. \A n \in DOMAIN G : s.at[n] \in Nat /\ t.at[n] \in Nat
  BY DEF SearchStates
<1>2. k \in Nat /\ s.root \in Nat /\ t.root \in Nat
  BY GraphMeans DEF SearchStates
<1>3. 1 .. s.root \subseteq 1 .. t.root
  BY <1>2
<1> SUFFICES ASSUME NEW p \in SearchMarks(G, s) PROVE p \in SearchMarks(G, t)
  OBVIOUS
<1>4. p \in (DOMAIN G) \X (0 .. k + 1) /\ p[1] \in DOMAIN G /\ p[2] \in 0 .. k + 1
  BY DEF SearchMarks
<1>5. CASE p[2] = 0 /\ p[1] \in Finished(s)
  BY <1>4, <1>5 DEF SearchMarks
<1>6. CASE p[2] \in 1 .. k /\ p[2] <= s.at[p[1]]
  <2>1. p[2] <= t.at[p[1]]
    BY <1>1, <1>2, <1>4, <1>6
  <2> QED
    BY <1>4, <1>6, <2>1 DEF SearchMarks
<1>7. CASE p[2] = k + 1 /\ \E j \in 1 .. s.root : Listing[DOMAIN G][j] = p[1]
  <2>1. \E j \in 1 .. t.root : Listing[DOMAIN G][j] = p[1]
    BY <1>3, <1>7
  <2> QED
    BY <1>4, <1>7, <2>1 DEF SearchMarks
<1> QED
  BY <1>5, <1>6, <1>7 DEF SearchMarks

\* Every turn keeps the invariant and does something new.
LEMMA SearchGoesOn ==
    ASSUME NEW G, IsGraph(G), NEW s, SearchInv(G, s)
    PROVE  LET t == SearchTurn(G, s)
           IN  /\ SearchInv(G, t)
               /\ SearchEnds(G, s) => t = s
               /\ ~SearchEnds(G, s) => /\ SearchMarks(G, s) \subseteq SearchMarks(G, t)
                                       /\ SearchMarks(G, s) # SearchMarks(G, t)
<1> DEFINE t == SearchTurn(G, s)
           k == Cardinality(DOMAIN G)
           n == Last(s.path)
<1>1. s \in SearchStates(G) /\ k \in Nat /\ s.root \in 0 .. k /\ s.at \in [DOMAIN G -> Nat]
  BY GraphMeans DEF SearchInv, SearchStates
<1>2. CASE SearchEnds(G, s)
  BY <1>2 DEF SearchTurn
<1> HIDE DEF k
<1>3. CASE ~SearchEnds(G, s) /\ s.path = <<>>
  <2> DEFINE p == <<Listing[DOMAIN G][s.root + 1], k + 1>>
  <2>1. t = SearchRoot(G, s) /\ s.cycle = <<>> /\ s.root # k
    BY <1>3 DEF SearchTurn, SearchEnds, k
  <2>2. SearchInv(G, t) /\ t.root = s.root + 1 /\ t.at = s.at /\ Finished(s) \subseteq Finished(t)
    BY <1>3, <2>1, RootKeepsSearch DEF k
  <2>3. t \in SearchStates(G)
    BY <2>2 DEF SearchInv
  <2> HIDE DEF t
  <2>4. SearchMarks(G, s) \subseteq SearchMarks(G, t)
    <3>1. s.root <= t.root /\ \A m \in DOMAIN G : s.at[m] <= t.at[m]
      BY <1>1, <2>2
    <3> QED
      BY <1>1, <2>2, <2>3, <3>1, MarksGrow
  <2>5. /\ s.root + 1 \in 1 .. k /\ s.root + 1 \in 1 .. t.root
        /\ Listing[DOMAIN G][s.root + 1] \in DOMAIN G
        /\ \A j \in 1 .. s.root : Listing[DOMAIN G][j] # Listing[DOMAIN G][s.root + 1]
    <3>1. DOMAIN G \in SUBSET Task
      BY DEF IsGraph
    <3>2. /\ s.root + 1 \in 1 .. k /\ s.root + 1 \in 1 .. t.root
          /\ \A j \in 1 .. s.root : j \in 1 .. k /\ j # s.root + 1
      BY <1>1, <2>1, <2>2
    <3> QED
      BY <3>1, <3>2, ListingMeans DEF k
  <2>6. p \in SearchMarks(G, t)
    <3>1. k + 1 \in 0 .. k + 1
      BY <1>1
    <3>2. \E j \in 1 .. t.root : Listing[DOMAIN G][j] = p[1]
      BY <2>5
    <3> QED
      BY <2>5, <3>1, <3>2 DEF SearchMarks, k
  <2>7. p \notin SearchMarks(G, s)
    <3>1. k + 1 # 0 /\ k + 1 \notin 1 .. k
      BY <1>1
    <3>2. ~\E j \in 1 .. s.root : Listing[DOMAIN G][j] = p[1]
      BY <2>5
    <3>3. p[2] = k + 1
      OBVIOUS
    <3> HIDE DEF p
    <3> QED
      BY <3>1, <3>2, <3>3 DEF SearchMarks, k
  <2> QED
    BY <1>3, <2>2, <2>4, <2>6, <2>7 DEF t
<1>4. CASE ~SearchEnds(G, s) /\ s.path # <<>>
  <2>1. t = SearchBelow(G, s, n) /\ s.cycle = <<>>
    BY <1>4 DEF SearchTurn, SearchEnds
  <2>2. n \in DOMAIN G
    BY <1>1, <1>4, EndOfList DEF SearchStates
  <2>3. CASE s.at[n] = Cardinality(G[n])
    <3>1. t = Unwind(s, n)
      BY <2>1, <2>3 DEF SearchBelow
    <3>2. /\ SearchInv(G, t) /\ t.root = s.root /\ t.at = s.at
          /\ Finished(t) = Finished(s) \cup {n} /\ n \in s.stack
      BY <1>4, <2>1, <2>3, <3>1, ReturnKeepsSearch
    <3>3. t \in SearchStates(G)
      BY <3>2 DEF SearchInv
    <3> HIDE DEF t, n
    <3>4. SearchMarks(G, s) \subseteq SearchMarks(G, t)
      <4>1. s.root <= t.root /\ \A m \in DOMAIN G : s.at[m] <= t.at[m]
        BY <1>1, <3>2
      <4> QED
        BY <1>1, <3>2, <3>3, <4>1, MarksGrow
    <3>5. <<n, 0>> \in SearchMarks(G, t)
      <4>1. 0 \in 0 .. k + 1
        BY <1>1
      <4> QED
        BY <2>2, <3>2, <4>1 DEF SearchMarks, k
    <3>6. <<n, 0>> \notin SearchMarks(G, s)
      <4>1. 0 # k + 1 /\ 0 \notin 1 .. k
        BY <1>1
      <4>2. n \notin Finished(s)
        BY <3>2 DEF Finished
      <4> QED
        BY <4>1, <4>2 DEF SearchMarks, k
    <3> QED
      BY <1>4, <3>2, <3>4, <3>5, <3>6 DEF t
  <2>4. CASE s.at[n] # Cardinality(G[n])
    <3> DEFINE p == <<n, s.at[n] + 1>>
    <3>1. /\ SearchInv(G, t) /\ t.root = s.root /\ Finished(t) = Finished(s)
          /\ t.at = [s.at EXCEPT ![n] = @ + 1]
      BY <1>4, <2>1, <2>4, EdgeKeepsSearch
    <3>2. t \in SearchStates(G)
      BY <3>1 DEF SearchInv
    <3>3. s.at[n] + 1 \in 1 .. k
      <4>1. s.at[n] <= Cardinality(G[n]) /\ Cardinality(G[n]) \in 0 .. k
        BY <2>1, <2>2, GraphMeans DEF SearchInv, CountedRight, k
      <4>2. s.at[n] \in Nat
        BY <1>1, <2>2
      <4> HIDE DEF n
      <4> QED
        BY <1>1, <2>4, <4>1, <4>2
    <3> HIDE DEF t, n
    <3>4. SearchMarks(G, s) \subseteq SearchMarks(G, t)
      <4>1. s.root <= t.root /\ \A m \in DOMAIN G : s.at[m] <= t.at[m]
        BY <1>1, <3>1
      <4> QED
        BY <1>1, <3>1, <3>2, <4>1, MarksGrow
    <3>5. t.at[n] = s.at[n] + 1 /\ s.at[n] \in Nat
      BY <1>1, <2>2, <3>1
    <3>6. p \in SearchMarks(G, t)
      <4>1. s.at[n] + 1 \in 0 .. k + 1 /\ s.at[n] + 1 <= t.at[n]
        BY <1>1, <3>3, <3>5
      <4> QED
        BY <2>2, <3>3, <4>1 DEF SearchMarks, k
    <3>7. p \notin SearchMarks(G, s)
      <4>1. p[1] = n /\ p[2] # 0 /\ p[2] # k + 1 /\ ~(p[2] <= s.at[n])
        BY <1>1, <3>3, <3>5
      <4> HIDE DEF p
      <4> QED
        BY <4>1 DEF SearchMarks, k
    <3> QED
      BY <1>4, <3>1, <3>4, <3>6, <3>7 DEF t
  <2> QED
    BY <2>3, <2>4
<1> QED
  BY <1>2, <1>3, <1>4

\* The search ends, and what it has then found is right.
LEMMA SearchRuns ==
    ASSUME NEW G, IsGraph(G)
    PROVE  SearchInv(G, Search(G)[Turns(G)]) /\ SearchEnds(G, Search(G)[Turns(G)])
<1> DEFINE T == Turns(G)
           k == Cardinality(DOMAIN G)
           Vals == {s \in SearchStates(G) : SearchInv(G, s)}
           first == Fresh(G)
           Turn == [s \in Vals |-> SearchTurn(G, s)]
           Done == {s \in Vals : SearchEnds(G, s)}
           U == (DOMAIN G) \X (0 .. k + 1)
           Marks == [s \in Vals |-> SearchMarks(G, s)]
<1>1. T \in Nat /\ k \in Nat /\ IsFiniteSet(DOMAIN G)
  BY GraphMeans
<1>2. ASSUME NEW s \in Vals
      PROVE  /\ SearchTurn(G, s) \in Vals
             /\ SearchEnds(G, s) => SearchTurn(G, s) = s
             /\ ~SearchEnds(G, s) => /\ SearchMarks(G, s) \subseteq SearchMarks(G, SearchTurn(G, s))
                                     /\ SearchMarks(G, s) # SearchMarks(G, SearchTurn(G, s))
  BY SearchGoesOn DEF SearchInv
<1>3. first \in Vals
  BY FreshIsRight DEF SearchInv
<1>4. IsFiniteSet(U) /\ Cardinality(U) <= T
  <2>1. IsFiniteSet(0 .. k + 1) /\ Cardinality(0 .. k + 1) = k + 2
    <3> HIDE DEF k
    <3>1. 0 \in Int /\ k + 1 \in Int /\ ~(0 > k + 1)
      BY <1>1
    <3> QED
      BY <1>1, <3>1, FS_Interval
  <2>2. IsFiniteSet(U) /\ Cardinality(U) = k * (k + 2)
    <3>1. IsFiniteSet(U) /\ Cardinality(U) = Cardinality(DOMAIN G) * Cardinality(0 .. k + 1)
      <4> DEFINE J == 0 .. k + 1
      <4> HIDE DEF J
      <4> QED
        BY <1>1, <2>1, FS_Product DEF J
    <3> QED
      BY <2>1, <3>1
  <2>3. T = (k + 1) * (k + 1)
    BY DEF Turns
  <2>4. k * (k + 2) <= (k + 1) * (k + 1)
    <3> HIDE DEF k
    <3> QED
      BY <1>1
  <2> QED
    BY <2>2, <2>3, <2>4
<1>5. Marks \in [Vals -> SUBSET U]
  BY DEF SearchMarks
<1> HIDE DEF Vals, T, U
<1>6. TurnsOver(T, Vals, first, Turn, Done)
  BY <1>1, <1>2, <1>3 DEF TurnsOver
<1>7. MarksUp(T, Vals, Turn, Done, U, Marks)
  BY <1>2, <1>4, <1>5 DEF MarksUp
<1>8. Runs(T, Vals, first, Turn, Done)
  <2> HIDE DEF first, Turn, Done, Marks
  <2> QED
    BY <1>6, <1>7, MarksRunOut
<1> DEFINE Is(g) == g = [i \in 0 .. T |-> IF i = 0 THEN first ELSE SearchTurn(G, g[i - 1])]
<1>9. \E g : Is(g)
  <2>1. PICK g \in [0 .. T -> Vals] :
            g = [i \in 0 .. T |-> IF i = 0 THEN first ELSE Turn[g[i - 1]]]
    BY <1>8 DEF Runs
  <2>2. \A i \in 0 .. T : i = 0 \/ i - 1 \in 0 .. T
    BY <1>1
  <2>3. \A i \in 0 .. T : i # 0 => Turn[g[i - 1]] = SearchTurn(G, g[i - 1])
    BY <2>2
  <2> HIDE DEF first, Turn
  <2>4. Is(g)
    BY <2>1, <2>3
  <2> QED
    BY <2>4
<1> DEFINE h == Search(G)
<1>10. h = [i \in 0 .. T |-> IF i = 0 THEN first ELSE SearchTurn(G, h[i - 1])]
  BY <1>9 DEF Search, T
<1> HIDE DEF h, first
<1>11. h[T] \in Done
  <2>1. h[0] = first
    BY <1>1, <1>10
  <2>2. \A i \in 1 .. T : h[i - 1] \in Vals => h[i] = Turn[h[i - 1]]
    BY <1>1, <1>10
  <2> HIDE DEF Turn, Done
  <2> QED
    BY <1>8, <2>1, <2>2 DEF Runs
<1> QED
  BY <1>11 DEF h, Vals, T

LEMMA CycleIsCyclic ==
    ASSUME NEW G, IsGraph(G), NEW c \in Seq(DOMAIN G), IsCycle(c, G)
    PROVE  HasCycle(G)
<1> DEFINE m == Len(c) - 1
           S == {c[i] : i \in 1 .. m}
<1>1. Len(c) \in Nat /\ m \in Nat /\ 1 \in 1 .. m /\ m + 1 = Len(c)
  BY DEF IsCycle
<1>2. S \in SUBSET DOMAIN G
  <2>1. \A i \in 1 .. m : c[i] \in DOMAIN G
    BY <1>1
  <2> QED
    BY <2>1
<1>3. c[1] = c[m + 1] /\ \A i \in 1 .. m : c[i + 1] \in G[c[i]]
  BY <1>1 DEF IsCycle
<1> HIDE DEF m
<1>4. S # {}
  BY <1>1
<1>5. ASSUME NEW n \in S PROVE G[n] \cap S # {}
  <2>1. PICK i \in 1 .. m : n = c[i]
    OBVIOUS
  <2>2. CASE i = m
    <3>1. c[1] \in G[n] /\ c[1] \in S
      BY <1>1, <1>3, <2>1, <2>2
    <3> QED
      BY <3>1
  <2>3. CASE i # m
    <3>1. i + 1 \in 1 .. m
      BY <1>1, <2>3
    <3>2. c[i + 1] \in G[n] /\ c[i + 1] \in S
      BY <1>3, <2>1, <3>1
    <3> QED
      BY <3>2
  <2> QED
    BY <2>2, <2>3
<1> HIDE DEF S
<1> QED
  BY <1>2, <1>4, <1>5 DEF HasCycle, Cyclic

\* When the search ends without a cycle every call has returned.
LEMMA NoneMissed ==
    ASSUME NEW G, IsGraph(G), NEW s, SearchInv(G, s), SearchEnds(G, s), s.cycle = <<>>
    PROVE  ~HasCycle(G)
<1>1. s.path = <<>> /\ s.root = Cardinality(DOMAIN G)
  BY DEF SearchEnds
<1>2. FinishedIsStraight(G, s) /\ GoneThrough(G, s)
  BY DEF SearchInv
<1>3. \A n \in DOMAIN G : \E j \in 1 .. s.root : Listing[DOMAIN G][j] = n
  <2>1. DOMAIN G \in SUBSET Task
    BY DEF IsGraph
  <2> QED
    BY <1>1, <2>1, ListingMeans
<1>4. DOMAIN G \subseteq Finished(s)
  BY <1>1, <1>2, <1>3 DEF GoneThrough
<1> SUFFICES ASSUME NEW S \in SUBSET DOMAIN G, S # {}, \A n \in S : G[n] \cap S # {}
             PROVE  FALSE
  BY DEF HasCycle, Cyclic
<1>5. S \in SUBSET Finished(s)
  BY <1>4
<1> QED
  BY <1>2, <1>5 DEF FinishedIsStraight

LEMMA WithinIsItself ==
    ASSUME NEW G, IsGraph(G)
    PROVE  Within(G) = G
<1>1. \A n \in DOMAIN G : G[n] \cap DOMAIN G = G[n]
  BY DEF IsGraph
<1>2. Within(G) = [n \in DOMAIN G |-> G[n]]
  BY <1>1 DEF Within
<1> QED
  BY <1>2 DEF IsGraph

LEMMA CyclesFound ==
    ASSUME NEW G, IsGraph(G)
    PROVE  CyclesAreFound(G)
<1> DEFINE s == Search(G)[Turns(G)]
<1>1. SearchInv(G, s) /\ SearchEnds(G, s)
  BY SearchRuns
<1>2. FindCycle(G) = s.cycle
  BY DEF FindCycle
<1> HIDE DEF s
<1>3. s.cycle \in Seq(DOMAIN G)
  BY <1>1 DEF SearchInv, SearchStates
<1>4. s.cycle # <<>> => IsCycle(s.cycle, G) /\ HasCycle(G)
  BY <1>1, <1>3, CycleIsCyclic DEF SearchInv
<1>5. s.cycle = <<>> => ~HasCycle(G)
  BY <1>1, NoneMissed
<1>6. (FindCycle(Within(G)) # <<>>) <=> HasCycle(G)
  BY <1>2, <1>4, <1>5, WithinIsItself
<1> QED
  BY <1>2, <1>4, <1>5, <1>6 DEF CyclesAreFound, MacroFindsCycle, PackageFindsCycle

-----------------------------------------------------------------------------
(***************************************************************************)
(* Kahn's ordering.                                                        *)
(***************************************************************************)

NoRepeats(s) == \A i, j \in 1 .. Len(s) : s[i] = s[j] => i = j

LEMMA RangeMeans ==
    ASSUME NEW S, NEW s \in Seq(S)
    PROVE  Range(s) \in SUBSET S /\ \A x : x \in Range(s) <=> \E i \in 1 .. Len(s) : s[i] = x
BY DEF Range

\* The last of a list is taken off, and another list is put at its end.
LEMMA TakeAndPut ==
    ASSUME NEW S, NEW s \in Seq(S), s # <<>>, NEW l \in Seq(S)
    PROVE  /\ Front(s) \o l \in Seq(S)
           /\ Len(Front(s) \o l) = Len(s) - 1 + Len(l)
           /\ \A x : x \in Range(s) \/ x \in Range(l) <=> x \in Range(Front(s) \o l) \/ x = Last(s)
           /\ NoRepeats(s) => Last(s) \notin Range(Front(s))
           /\ \A x : x \in Range(Front(s) \o l) <=> x \in Range(Front(s)) \/ x \in Range(l)
           /\ NoRepeats(s) /\ NoRepeats(l) /\ Range(s) \cap Range(l) = {}
                => NoRepeats(Front(s) \o l)
<1> DEFINE f_ == Front(s)
           m == Len(s) - 1
           q == f_ \o l
<1>1. /\ Len(s) \in Nat /\ Len(s) >= 1 /\ Last(s) = s[Len(s)]
      /\ f_ \in Seq(S) /\ Len(f_) = m
      /\ \A i \in 1 .. m : f_[i] = s[i]
  BY EndOfList
<1>2. m \in Nat /\ Len(s) = m + 1 /\ Len(l) \in Nat
  BY <1>1
<1> HIDE DEF f_, m
<1>3. q \in Seq(S) /\ Len(q) = m + Len(l)
  BY <1>1, <1>2
<1>4. \A i \in 1 .. m : q[i] = s[i]
  BY <1>1, <1>2
<1>5. \A j \in 1 .. Len(l) : q[m + j] = l[j]
  BY <1>1, <1>2
<1> HIDE DEF q
<1>6. \A i \in 1 .. (m + Len(l)) : i \in 1 .. m \/ (i - m \in 1 .. Len(l) /\ i = m + (i - m))
  BY <1>2
<1>7. /\ \A i \in 1 .. (m + 1) : i = m + 1 \/ i \in 1 .. m
      /\ m + 1 \in 1 .. (m + 1)
      /\ \A i \in 1 .. m : i \in 1 .. (m + 1) /\ i \in 1 .. (m + Len(l)) /\ i # m + 1
      /\ \A j \in 1 .. Len(l) : m + j \in 1 .. (m + Len(l))
  BY <1>2
<1>8. /\ \A x : x \in Range(s) <=> \E i \in 1 .. (m + 1) : s[i] = x
      /\ \A x : x \in Range(l) <=> \E i \in 1 .. Len(l) : l[i] = x
      /\ \A x : x \in Range(q) <=> \E i \in 1 .. (m + Len(l)) : q[i] = x
      /\ \A x : x \in Range(f_) <=> \E i \in 1 .. m : s[i] = x
  <2>1. \A x : x \in Range(s) <=> \E i \in 1 .. Len(s) : s[i] = x
    BY RangeMeans
  <2>2. \A x : x \in Range(l) <=> \E i \in 1 .. Len(l) : l[i] = x
    BY RangeMeans
  <2>3. \A x : x \in Range(q) <=> \E i \in 1 .. Len(q) : q[i] = x
    BY <1>3, RangeMeans
  <2>4. \A x : x \in Range(f_) <=> \E i \in 1 .. Len(f_) : f_[i] = x
    BY <1>1, RangeMeans
  <2>5. \A x : x \in Range(f_) <=> \E i \in 1 .. m : s[i] = x
    BY <1>1, <2>4
  <2> QED
    BY <1>2, <1>3, <2>1, <2>2, <2>3, <2>5
<1>9. \A x : x \in Range(q) <=> x \in Range(f_) \/ x \in Range(l)
  <2>1. ASSUME NEW x \in Range(q) PROVE x \in Range(f_) \/ x \in Range(l)
    <3>1. PICK i \in 1 .. (m + Len(l)) : q[i] = x
      BY <1>8
    <3>2. CASE i \in 1 .. m
      BY <1>4, <1>8, <3>1, <3>2
    <3>3. CASE i - m \in 1 .. Len(l) /\ i = m + (i - m)
      <4>1. q[i] = l[i - m]
        BY <1>5, <3>3
      <4> QED
        BY <1>8, <3>1, <3>3, <4>1
    <3> QED
      BY <1>6, <3>2, <3>3
  <2>2. \A x : x \in Range(f_) => x \in Range(q)
    BY <1>4, <1>7, <1>8
  <2>3. \A x : x \in Range(l) => x \in Range(q)
    BY <1>5, <1>7, <1>8
  <2> QED
    BY <2>1, <2>2, <2>3
<1>10. \A x : x \in Range(s) <=> x \in Range(f_) \/ x = Last(s)
  BY <1>1, <1>2, <1>7, <1>8
<1>11. NoRepeats(s) => Last(s) \notin Range(f_)
  BY <1>1, <1>2, <1>7, <1>8 DEF NoRepeats
<1>12. ASSUME NoRepeats(s), NoRepeats(l), Range(s) \cap Range(l) = {}
       PROVE  NoRepeats(q)
  <2> SUFFICES ASSUME NEW i \in 1 .. (m + Len(l)), NEW j \in 1 .. (m + Len(l)), q[i] = q[j]
               PROVE  i = j
    BY <1>3 DEF NoRepeats
  <2>1. \A x \in 1 .. m : \A y \in 1 .. Len(l) : s[x] # l[y]
    BY <1>7, <1>8, <1>12
  <2>2. CASE i \in 1 .. m /\ j \in 1 .. m
    <3>1. s[i] = s[j] /\ i \in 1 .. Len(s) /\ j \in 1 .. Len(s)
      BY <1>2, <1>4, <1>7, <2>2
    <3> QED
      BY <1>12, <3>1 DEF NoRepeats
  <2>3. CASE i - m \in 1 .. Len(l) /\ i = m + (i - m) /\ j - m \in 1 .. Len(l) /\ j = m + (j - m)
    <3>1. l[i - m] = l[j - m]
      BY <1>5, <2>3
    <3>2. i - m = j - m
      BY <1>12, <2>3, <3>1 DEF NoRepeats
    <3> QED
      BY <2>3, <3>2
  <2>4. CASE i \in 1 .. m /\ j - m \in 1 .. Len(l) /\ j = m + (j - m)
    BY <1>4, <1>5, <2>1, <2>4
  <2>5. CASE j \in 1 .. m /\ i - m \in 1 .. Len(l) /\ i = m + (i - m)
    BY <1>4, <1>5, <2>1, <2>5
  <2> QED
    BY <1>6, <2>2, <2>3, <2>4, <2>5
<1> QED
  BY <1>1, <1>2, <1>3, <1>9, <1>10, <1>11, <1>12 DEF f_, q

KahnStates(G) == [degree : [DOMAIN G -> Nat], queue : Seq(DOMAIN G), result : Seq(DOMAIN G)]

\* A node is taken once, after all it depends on; it waits in the queue once
\* they have been taken, and its degree counts those that have not.
KahnInv(G, s) ==
    /\ s \in KahnStates(G)
    /\ NoRepeats(s.queue) /\ NoRepeats(s.result) /\ Range(s.queue) \cap Range(s.result) = {}
    /\ \A n \in DOMAIN G : s.degree[n] = Cardinality(G[n] \ Range(s.result))
    /\ \A n \in DOMAIN G :
           n \in Range(s.queue) \/ n \in Range(s.result) <=> G[n] \subseteq Range(s.result)
    /\ \A i \in 1 .. Len(s.result) : \A d \in G[s.result[i]] :
           \E j \in 1 .. Len(s.result) : j < i /\ s.result[j] = d

LEMMA ListingIsOnce ==
    ASSUME NEW S \in SUBSET Task
    PROVE  Listing[S] \in Seq(S) /\ Range(Listing[S]) = S /\ NoRepeats(Listing[S])
<1>1. /\ Listing[S] \in Seq(S) /\ Len(Listing[S]) = Cardinality(S)
      /\ \A t \in S : \E j \in 1 .. Cardinality(S) : Listing[S][j] = t
      /\ \A i, j \in 1 .. Cardinality(S) : Listing[S][i] = Listing[S][j] => i = j
  BY ListingMeans
<1>2. Range(Listing[S]) \in SUBSET S
  BY <1>1, RangeMeans
<1>3. \A t \in S : t \in Range(Listing[S])
  BY <1>1, RangeMeans
<1> QED
  BY <1>1, <1>2, <1>3 DEF NoRepeats

LEMMA KahnStartsRight == ASSUME NEW G, IsGraph(G) PROVE KahnInv(G, KahnStart(G))
<1> DEFINE s == KahnStart(G)
           roots == {n \in DOMAIN G : G[n] = {}}
<1>1. /\ s.degree = [n \in DOMAIN G |-> Cardinality(G[n])]
      /\ s.queue = Listing[roots] /\ s.result = <<>>
      /\ s = [degree |-> s.degree, queue |-> s.queue, result |-> s.result]
  BY DEF KahnStart
<1>2. roots \in SUBSET Task /\ roots \in SUBSET DOMAIN G
  BY DEF IsGraph
<1> HIDE DEF s
<1>3. s.queue \in Seq(roots) /\ Range(s.queue) = roots /\ NoRepeats(s.queue)
  <2> HIDE DEF roots
  <2> QED
    BY <1>1, <1>2, ListingIsOnce
<1>4. s.queue \in Seq(DOMAIN G)
  BY <1>2, <1>3
<1>5. s.result \in Seq(DOMAIN G) /\ Len(s.result) = 0 /\ Range(s.result) = {}
  <2>1. s.result \in Seq(DOMAIN G) /\ Len(s.result) = 0
    BY <1>1
  <2>2. 1 .. Len(s.result) = {}
    BY <2>1
  <2>3. \A x : x \notin Range(s.result)
    BY <2>1, <2>2, RangeMeans
  <2> QED
    BY <2>1, <2>3
<1>6. s.degree \in [DOMAIN G -> Nat]
  BY <1>1, GraphMeans
<1>7. s \in KahnStates(G)
  BY <1>1, <1>4, <1>5, <1>6 DEF KahnStates
<1>8. NoRepeats(s.result)
  BY <1>5 DEF NoRepeats
<1>9. \A n \in DOMAIN G : s.degree[n] = Cardinality(G[n] \ Range(s.result))
  <2>1. \A n \in DOMAIN G : G[n] \ Range(s.result) = G[n]
    BY <1>5
  <2> QED
    BY <1>1, <2>1
<1>10. \A n \in DOMAIN G :
           n \in Range(s.queue) \/ n \in Range(s.result) <=> G[n] \subseteq Range(s.result)
  BY <1>3, <1>5
<1> HIDE DEF roots
<1> QED
  BY <1>3, <1>5, <1>7, <1>8, <1>9, <1>10 DEF KahnInv, s

LEMMA KahnGoesOn ==
    ASSUME NEW G, IsGraph(G), NEW s, KahnInv(G, s), s.queue # <<>>
    PROVE  LET t == KahnTurn(G, s)
           IN  /\ KahnInv(G, t)
               /\ Range(s.result) \subseteq Range(t.result) /\ Range(s.result) # Range(t.result)
<1> DEFINE c == Last(s.queue)
           left == [n \in DOMAIN G |-> IF n \in Dependents(G, c) THEN s.degree[n] - 1 ELSE s.degree[n]]
           new == {n \in Dependents(G, c) : left[n] = 0}
           R == Range(s.result)
           Q == Range(s.queue)
           L == Len(s.result)
           t == KahnTurn(G, s)
<1>1. /\ s.degree \in [DOMAIN G -> Nat] /\ s.queue \in Seq(DOMAIN G) /\ s.result \in Seq(DOMAIN G)
      /\ NoRepeats(s.queue) /\ NoRepeats(s.result) /\ Q \cap R = {}
  BY DEF KahnInv, KahnStates
<1>2. \A n \in DOMAIN G : s.degree[n] = Cardinality(G[n] \ R)
  BY DEF KahnInv
<1>3. \A n \in DOMAIN G : n \in Q \/ n \in R <=> G[n] \subseteq R
  BY DEF KahnInv
<1>4. \A i \in 1 .. L : \A d \in G[s.result[i]] : \E j \in 1 .. L : j < i /\ s.result[j] = d
  BY DEF KahnInv
<1>5. c \in DOMAIN G /\ c \in Q /\ c \notin R /\ G[c] \subseteq R
  <2>1. c = s.queue[Len(s.queue)] /\ Len(s.queue) \in 1 .. Len(s.queue) /\ c \in DOMAIN G
    BY <1>1, EndOfList
  <2> HIDE DEF c
  <2>2. c \in Q
    BY <1>1, <2>1, RangeMeans
  <2> QED
    BY <1>1, <1>3, <2>1, <2>2
<1>6. t = [degree |-> left, queue |-> Front(s.queue) \o Listing[new], result |-> Append(s.result, c)]
  BY DEF KahnTurn
<1>7. Dependents(G, c) = {n \in DOMAIN G : c \in G[n]}
  BY DEF Dependents
<1> HIDE DEF c, R, Q, L, t
<1>8. ASSUME NEW n \in DOMAIN G
      PROVE  left[n] \in Nat /\ left[n] = Cardinality(G[n] \ (R \cup {c}))
  <2>1. IsFiniteSet(G[n] \ R)
    <3>1. IsFiniteSet(G[n]) /\ G[n] \ R \in SUBSET G[n]
      BY GraphMeans
    <3> QED
      BY <3>1, FS_Subset
  <2> DEFINE W == G[n] \ R
  <2>2. G[n] \ (R \cup {c}) = W \ {c}
    OBVIOUS
  <2>3. s.degree[n] = Cardinality(W) /\ Cardinality(W) \in Nat /\ Cardinality(W \ {c}) \in Nat
    BY <1>2, <2>1, FS_RemoveElement, FS_CardinalityType
  <2>4. Cardinality(W \ {c}) = IF c \in W THEN Cardinality(W) - 1 ELSE Cardinality(W)
    BY <2>1, FS_RemoveElement
  <2>5. c \in W <=> n \in Dependents(G, c)
    BY <1>5, <1>7
  <2> HIDE DEF W
  <2> QED
    BY <2>2, <2>3, <2>4, <2>5
<1>9. \A n \in DOMAIN G : left[n] = 0 <=> G[n] \subseteq R \cup {c}
  <2> TAKE n \in DOMAIN G
  <2> DEFINE W == G[n] \ (R \cup {c})
  <2>1. IsFiniteSet(W)
    <3>1. IsFiniteSet(G[n]) /\ W \in SUBSET G[n]
      BY GraphMeans
    <3> QED
      BY <3>1, FS_Subset
  <2>2. W = {} <=> G[n] \subseteq R \cup {c}
    OBVIOUS
  <2>3. left[n] = Cardinality(W)
    BY <1>8
  <2> HIDE DEF W, left
  <2> QED
    BY <2>1, <2>2, <2>3, FS_EmptySet
<1>10. left \in [DOMAIN G -> Nat]
  BY <1>8
<1> HIDE DEF left
<1>11. \A n : n \in new <=> n \in DOMAIN G /\ c \in G[n] /\ G[n] \subseteq R \cup {c}
  BY <1>7, <1>9
<1> HIDE DEF new
<1>12. /\ new \in SUBSET Task /\ new \in SUBSET DOMAIN G
       /\ \A n \in new : n \notin Q /\ n \notin R
  BY <1>3, <1>5, <1>11 DEF IsGraph
<1>13. Listing[new] \in Seq(new) /\ Range(Listing[new]) = new /\ NoRepeats(Listing[new])
  BY <1>12, ListingIsOnce
<1>14. Listing[new] \in Seq(DOMAIN G)
  BY <1>12, <1>13
<1>15. /\ t.queue \in Seq(DOMAIN G) /\ NoRepeats(t.queue)
       /\ \A x : x \in Range(t.queue) <=> (x \in Q /\ x # c) \/ x \in new
  <2>1. t.queue = Front(s.queue) \o Listing[new]
    BY <1>6
  <2>2. /\ Front(s.queue) \o Listing[new] \in Seq(DOMAIN G)
        /\ \A x : x \in Q \/ x \in new <=> x \in Range(Front(s.queue) \o Listing[new]) \/ x = c
        /\ NoRepeats(s.queue) => c \notin Range(Front(s.queue))
        /\ \A x : x \in Range(Front(s.queue) \o Listing[new]) <=> x \in Range(Front(s.queue)) \/ x \in new
        /\ NoRepeats(s.queue) /\ NoRepeats(Listing[new]) /\ Q \cap new = {}
                => NoRepeats(Front(s.queue) \o Listing[new])
    BY <1>1, <1>13, <1>14, TakeAndPut DEF Q, c
  <2>3. c \notin new /\ Q \cap new = {}
    BY <1>5, <1>12
  <2> QED
    BY <1>1, <1>13, <2>1, <2>2, <2>3
<1>16. /\ t.result \in Seq(DOMAIN G) /\ L \in Nat /\ Len(t.result) = L + 1
       /\ t.result[L + 1] = c /\ \A i \in 1 .. L : t.result[i] = s.result[i]
  <2>1. t.result = Append(s.result, c)
    BY <1>6
  <2> QED
    BY <1>1, <1>5, <2>1 DEF L
<1>17. \A i \in 1 .. (L + 1) : (i \in 1 .. L \/ i = L + 1) /\ L + 1 \in 1 .. (L + 1) /\ 1 .. L \subseteq 1 .. (L + 1)
  <2>1. L \in Nat
    BY <1>16
  <2> QED
    BY ONLY <2>1
<1>18. \A x : x \in R <=> \E i \in 1 .. L : s.result[i] = x
  <2>1. s.result \in Seq(DOMAIN G)
    BY <1>1
  <2> QED
    BY <2>1, RangeMeans DEF R, L
<1>19. Range(t.result) = R \cup {c}
  <2>1. \A x : x \in Range(t.result) <=> \E i \in 1 .. (L + 1) : t.result[i] = x
    <3>1. \A x : x \in Range(t.result) <=> \E i \in 1 .. Len(t.result) : t.result[i] = x
      BY <1>16, RangeMeans
    <3> QED
      BY <1>16, <3>1
  <2>2. ASSUME NEW x \in Range(t.result) PROVE x \in R \cup {c}
    BY <1>16, <1>17, <1>18, <2>1
  <2>3. c \in Range(t.result)
    <3>1. L + 1 \in 1 .. (L + 1)
      BY <1>16
    <3> QED
      BY <1>16, <2>1, <3>1
  <2>4. ASSUME NEW x \in R PROVE x \in Range(t.result)
    <3>1. PICK i \in 1 .. L : s.result[i] = x
      BY <1>18
    <3>2. i \in 1 .. (L + 1) /\ t.result[i] = x
      BY <1>16, <3>1
    <3> QED
      BY <2>1, <3>2
  <2> QED
    BY <2>2, <2>3, <2>4
<1>20. NoRepeats(t.result)
  <2> SUFFICES ASSUME NEW i \in 1 .. (L + 1), NEW j \in 1 .. (L + 1), t.result[i] = t.result[j]
               PROVE  i = j
    BY <1>16 DEF NoRepeats
  <2>1. \A x \in 1 .. L : t.result[x] \in R
    BY <1>16, <1>18
  <2>2. CASE i \in 1 .. L /\ j \in 1 .. L
    BY <1>1, <1>16, <2>2 DEF NoRepeats, L
  <2> QED
    BY <1>5, <1>16, <1>17, <2>1, <2>2
<1>21. t \in KahnStates(G) /\ t.degree = left
  BY <1>6, <1>10, <1>15, <1>16 DEF KahnStates
<1>22. Range(t.queue) \cap Range(t.result) = {}
  BY <1>1, <1>5, <1>12, <1>15, <1>19
<1>23. \A n \in DOMAIN G : t.degree[n] = Cardinality(G[n] \ Range(t.result))
  BY <1>8, <1>19, <1>21
<1>24. \A n \in DOMAIN G :
           n \in Range(t.queue) \/ n \in Range(t.result) <=> G[n] \subseteq Range(t.result)
  <2> TAKE n \in DOMAIN G
  <2>1. n \in Range(t.queue) \/ n \in Range(t.result) <=> n \in Q \/ n \in R \/ n \in new
    BY <1>5, <1>15, <1>19
  <2>2. G[n] \subseteq Range(t.result) <=> G[n] \subseteq R \/ (c \in G[n] /\ G[n] \subseteq R \cup {c})
    BY <1>19
  <2> QED
    BY <1>3, <1>11, <2>1, <2>2
<1>25. ASSUME NEW i \in 1 .. Len(t.result), NEW d \in G[t.result[i]]
       PROVE  \E j \in 1 .. Len(t.result) : j < i /\ t.result[j] = d
  <2>1. i \in 1 .. (L + 1) /\ Len(t.result) = L + 1
    BY <1>16
  <2>2. CASE i = L + 1
    <3>1. d \in R
      BY <1>5, <1>16, <1>25, <2>2
    <3>2. PICK j \in 1 .. L : s.result[j] = d
      BY <1>18, <3>1
    <3>3. j \in 1 .. (L + 1) /\ j < L + 1 /\ t.result[j] = d
      BY <1>16, <3>2
    <3> QED
      BY <2>1, <2>2, <3>3
  <2>3. CASE i \in 1 .. L
    <3>1. PICK j \in 1 .. L : j < i /\ s.result[j] = d
      BY <1>4, <1>16, <1>25, <2>3
    <3>2. j \in 1 .. (L + 1) /\ t.result[j] = d
      BY <1>16, <3>1
    <3> QED
      BY <2>1, <3>1, <3>2
  <2> QED
    BY <1>17, <2>1, <2>2, <2>3
<1>26. KahnInv(G, t)
  BY <1>15, <1>20, <1>21, <1>22, <1>23, <1>24, <1>25 DEF KahnInv
<1> QED
  BY <1>5, <1>19, <1>26 DEF R, t

\* The ordering ends, with the queue empty.
LEMMA KahnRuns ==
    ASSUME NEW G, IsGraph(G)
    PROVE  KahnInv(G, Sorting(G)[Turns(G)]) /\ Sorting(G)[Turns(G)].queue = <<>>
<1> DEFINE T == Turns(G)
           Vals == {s \in KahnStates(G) : KahnInv(G, s)}
           first == KahnStart(G)
           Turn == [s \in Vals |-> KahnTurn(G, s)]
           Done == {s \in Vals : s.queue = <<>>}
           U == DOMAIN G
           Marks == [s \in Vals |-> Range(s.result)]
<1>1. T \in Nat /\ IsFiniteSet(U) /\ Cardinality(U) <= T
  BY GraphMeans
<1>2. ASSUME NEW s \in Vals
      PROVE  /\ KahnTurn(G, s) \in Vals
             /\ s.queue = <<>> => KahnTurn(G, s) = s
             /\ s.queue # <<>> => /\ Range(s.result) \subseteq Range(KahnTurn(G, s).result)
                                  /\ Range(s.result) # Range(KahnTurn(G, s).result)
  <2>1. CASE s.queue = <<>>
    BY <2>1 DEF KahnTurn
  <2>2. CASE s.queue # <<>>
    BY <2>2, KahnGoesOn DEF KahnInv
  <2> QED
    BY <2>1, <2>2
<1>3. first \in Vals
  BY KahnStartsRight DEF KahnInv
<1>4. Marks \in [Vals -> SUBSET U]
  BY RangeMeans DEF KahnStates
<1> HIDE DEF Vals, T, U
<1>5. TurnsOver(T, Vals, first, Turn, Done)
  BY <1>1, <1>2, <1>3 DEF TurnsOver
<1>6. MarksUp(T, Vals, Turn, Done, U, Marks)
  BY <1>1, <1>2, <1>4 DEF MarksUp
<1>7. Runs(T, Vals, first, Turn, Done)
  <2> HIDE DEF first, Turn, Done, Marks
  <2> QED
    BY <1>5, <1>6, MarksRunOut
<1> DEFINE Is(g) == g = [i \in 0 .. T |-> IF i = 0 THEN first ELSE KahnTurn(G, g[i - 1])]
<1>8. \E g : Is(g)
  <2>1. PICK g \in [0 .. T -> Vals] :
            g = [i \in 0 .. T |-> IF i = 0 THEN first ELSE Turn[g[i - 1]]]
    BY <1>7 DEF Runs
  <2>2. \A i \in 0 .. T : i = 0 \/ i - 1 \in 0 .. T
    BY <1>1
  <2>3. \A i \in 0 .. T : i # 0 => Turn[g[i - 1]] = KahnTurn(G, g[i - 1])
    BY <2>2
  <2> HIDE DEF first, Turn
  <2>4. Is(g)
    BY <2>1, <2>3
  <2> QED
    BY <2>4
<1> DEFINE h == Sorting(G)
<1>9. h = [i \in 0 .. T |-> IF i = 0 THEN first ELSE KahnTurn(G, h[i - 1])]
  BY <1>8 DEF Sorting, T
<1> HIDE DEF h, first
<1>10. h[T] \in Done
  <2>1. h[0] = first
    BY <1>1, <1>9
  <2>2. \A i \in 1 .. T : h[i - 1] \in Vals => h[i] = Turn[h[i - 1]]
    BY <1>1, <1>9
  <2> HIDE DEF Turn, Done
  <2> QED
    BY <1>7, <2>1, <2>2 DEF Runs
<1> QED
  BY <1>10 DEF h, Vals, T

LEMMA CountedOnce ==
    ASSUME NEW S, NEW s \in Seq(S), NoRepeats(s)
    PROVE  Cardinality(Range(s)) = Len(s)
<1> DEFINE R == Range(s)
           n == Len(s)
<1>1. n \in Nat /\ s \in [1 .. n -> S] /\ \A x : x \in R <=> \E i \in 1 .. n : s[i] = x
  BY RangeMeans
<1>2. s \in [1 .. n -> R]
  BY <1>1
<1>3. s \in Bijection(1 .. n, R)
  <2> HIDE DEF n, R
  <2>1. s \in Surjection(1 .. n, R)
    BY <1>1, <1>2 DEF Surjection
  <2>2. \A i, j \in 1 .. n : s[i] = s[j] => i = j
    BY DEF NoRepeats, n
  <2>3. s \in Injection(1 .. n, R)
    BY <1>2, <2>2 DEF Injection, IsInjective
  <2> QED
    BY <2>1, <2>3 DEF Bijection
<1> HIDE DEF n, R
<1>4. ExistsBijection(1 .. n, R)
  BY <1>3 DEF ExistsBijection
<1>5. Cardinality(R) = n
  BY <1>1, <1>4, FS_CountingElements
<1> QED
  BY <1>5 DEF n, R

\* What the ordering leaves out goes round in circles, and all that does.
LEMMA LeftOutIsCyclic ==
    ASSUME NEW G, IsGraph(G), NEW s, KahnInv(G, s), s.queue = <<>>
    PROVE  HasCycle(G) <=> Range(s.result) # DOMAIN G
<1> DEFINE R == Range(s.result)
           L == Len(s.result)
<1>1. s.queue \in Seq(DOMAIN G) /\ s.result \in Seq(DOMAIN G)
  BY DEF KahnInv, KahnStates
<1>2. R \in SUBSET DOMAIN G /\ L \in Nat /\ \A x : x \in R <=> \E i \in 1 .. L : s.result[i] = x
  BY <1>1, RangeMeans
<1>3. \A n \in DOMAIN G : n \in R <=> G[n] \subseteq R
  <2>1. \A x : x \notin Range(s.queue)
    <3>1. 1 .. Len(s.queue) = {}
      OBVIOUS
    <3> QED
      BY <1>1, <3>1, RangeMeans
  <2> QED
    BY <2>1 DEF KahnInv
<1>4. \A i \in 1 .. L : \A d \in G[s.result[i]] : \E j \in 1 .. L : j < i /\ s.result[j] = d
  BY DEF KahnInv
<1> HIDE DEF R, L
<1>5. ASSUME R # DOMAIN G PROVE HasCycle(G)
  <2> DEFINE S == DOMAIN G \ R
  <2>1. S \in SUBSET DOMAIN G /\ S # {}
    BY <1>2, <1>5
  <2>2. \A n \in S : G[n] \cap S # {}
    BY <1>3 DEF IsGraph
  <2> QED
    BY <2>1, <2>2 DEF HasCycle, Cyclic
<1>6. ASSUME HasCycle(G), R = DOMAIN G PROVE FALSE
  <2>1. PICK S \in SUBSET DOMAIN G : S # {} /\ \A n \in S : G[n] \cap S # {}
    BY <1>6 DEF HasCycle, Cyclic
  <2> DEFINE I == {i \in 1 .. L : s.result[i] \in S}
  <2>2. I \in SUBSET Nat /\ I # {}
    BY <1>2, <1>6, <2>1
  <2>3. PICK i \in I : \A j \in I : i <= j
    <3> HIDE DEF I
    <3> QED
      BY <2>2, LeastOf
  <2>4. PICK d \in G[s.result[i]] : d \in S
    BY <2>1
  <2>5. PICK j \in 1 .. L : j < i /\ s.result[j] = d
    BY <1>4
  <2>6. j \in I /\ j \in Nat /\ i \in Nat
    BY <2>4, <2>5
  <2> QED
    BY <2>3, <2>5, <2>6
<1> QED
  BY <1>5, <1>6 DEF R

LEMMA OrderFound ==
    ASSUME NEW G, IsGraph(G)
    PROVE  /\ KahnFails(G) <=> HasCycle(G)
           /\ Kahn(G) \in Seq(DOMAIN G) /\ NoRepeats(Kahn(G))
           /\ ~HasCycle(G) => IsOrder(Kahn(G), G)
<1> DEFINE s == Sorting(G)[Turns(G)]
           o == Kahn(G)
           k == Cardinality(DOMAIN G)
           L == Len(o)
<1>1. KahnInv(G, s) /\ s.queue = <<>> /\ o = s.result
  BY KahnRuns DEF Kahn
<1> HIDE DEF s, o
<1>2. o \in Seq(DOMAIN G) /\ NoRepeats(o)
  BY <1>1 DEF KahnInv, KahnStates
<1>3. HasCycle(G) <=> Range(o) # DOMAIN G
  BY <1>1, LeftOutIsCyclic
<1>4. Range(o) \in SUBSET DOMAIN G /\ Cardinality(Range(o)) = L
  BY <1>2, RangeMeans, CountedOnce
<1>5. L = k <=> Range(o) = DOMAIN G
  BY <1>4, GraphMeans, FS_Subset
<1>6. ASSUME ~HasCycle(G) PROVE IsOrder(o, G)
  <2>1. ASSUME NEW i \in 1 .. L, NEW j \in 1 .. L, o[j] \in G[o[i]] PROVE j < i
    <3>1. PICK m \in 1 .. L : m < i /\ o[m] = o[j]
      <4>1. \A n \in 1 .. Len(s.result) : \A d \in G[s.result[n]] :
                \E m \in 1 .. Len(s.result) : m < n /\ s.result[m] = d
        BY <1>1 DEF KahnInv
      <4> QED
        BY <1>1, <2>1, <4>1
    <3>2. m = j
      BY <1>2, <3>1 DEF NoRepeats
    <3> QED
      BY <3>1, <3>2
  <2> QED
    BY <1>3, <1>6, <2>1 DEF IsOrder
<1>7. KahnFails(G) <=> HasCycle(G)
  BY <1>3, <1>5 DEF KahnFails, o
<1> QED
  BY <1>2, <1>6, <1>7 DEF o

LEMMA OrderFoundAtAll ==
    ASSUME NEW G, IsGraph(G), DOMAIN G # {}
    PROVE  OrderIsFound(G)
<1> DEFINE o == Kahn(G)
           L == Len(o)
<1>1. (KahnFails(G) <=> HasCycle(G)) /\ o \in Seq(DOMAIN G) /\ (~HasCycle(G) => IsOrder(o, G))
  BY OrderFound
<1> HIDE DEF o
<1>2. ASSUME ~HasCycle(G) PROVE o[1] \in Roots(G) /\ Last(o) \in Leaves(G)
  <2>1. Range(o) = DOMAIN G /\ \A i, j \in 1 .. L : o[j] \in G[o[i]] => j < i
    BY <1>1, <1>2 DEF IsOrder
  <2>2. \A x : x \in DOMAIN G <=> \E i \in 1 .. L : o[i] = x
    BY <1>1, <2>1, RangeMeans
  <2>3. L \in Nat /\ 1 \in 1 .. L /\ L \in 1 .. L /\ Last(o) = o[L]
    <3>1. L \in Nat /\ 1 .. L # {}
      BY <1>1, <2>2
    <3> QED
      BY <3>1 DEF Last
  <2>4. o[1] \in DOMAIN G /\ o[L] \in DOMAIN G
    BY <2>2, <2>3
  <2>5. G[o[1]] = {}
    <3>1. ASSUME NEW d \in G[o[1]] PROVE FALSE
      <4>1. d \in DOMAIN G
        BY <2>4 DEF IsGraph
      <4>2. PICK j \in 1 .. L : o[j] = d
        BY <2>2, <4>1
      <4>3. j < 1
        BY <2>1, <2>3, <4>2
      <4> QED
        BY <2>3, <4>3
    <3> QED
      BY <3>1
  <2>6. \A n \in DOMAIN G : o[L] \notin G[n]
    <3>1. ASSUME NEW n \in DOMAIN G, o[L] \in G[n] PROVE FALSE
      <4>1. PICK i \in 1 .. L : o[i] = n
        BY <2>2
      <4>2. L < i
        BY <2>1, <2>3, <3>1, <4>1
      <4> QED
        BY <2>3, <4>2
    <3> QED
      BY <3>1
  <2>7. o[L] \notin UNION {G[n] : n \in DOMAIN G}
    <3>1. \A D \in {G[n] : n \in DOMAIN G} : o[L] \notin D
      BY <2>6
    <3> QED
      BY <3>1
  <2> QED
    BY <2>3, <2>4, <2>5, <2>7 DEF Roots, Leaves
<1> QED
  BY <1>1, <1>2 DEF OrderIsFound, o

-----------------------------------------------------------------------------
(***************************************************************************)
(* Following the dependencies from a task to another.                      *)
(***************************************************************************)

PathStates(G) == [visited : SUBSET DOMAIN G, stack : Seq(DOMAIN G), found : BOOLEAN]

\* What is seen can be reached, and what is reached from what is seen is seen
\* or waits on the stack.
PathInv(G, from, to, s) ==
    /\ s \in PathStates(G)
    /\ \A C \in SUBSET DOMAIN G : from \in C /\ Closed(C, G) =>
           /\ s.visited \subseteq C /\ Range(s.stack) \subseteq C
           /\ s.found => to \in C
    /\ ~s.found =>
           /\ from \in s.visited \/ from \in Range(s.stack)
           /\ \A n \in s.visited : \A d \in G[n] : d \in s.visited \/ d \in Range(s.stack)
           /\ from # to => to \notin s.visited /\ to \notin Range(s.stack)

\* How much there is still to look at.
PathCount(G, s) ==
    (Cardinality(DOMAIN G) - Cardinality(s.visited)) * Cardinality(DOMAIN G) + Len(s.stack)

LEMMA PathCountIs ==
    ASSUME NEW G, IsGraph(G), NEW s \in PathStates(G)
    PROVE  /\ PathCount(G, s) \in Nat
           /\ IsFiniteSet(s.visited) /\ Cardinality(s.visited) \in 0 .. Cardinality(DOMAIN G)
<1> DEFINE k == Cardinality(DOMAIN G)
           v == Cardinality(s.visited)
<1>1. IsFiniteSet(DOMAIN G) /\ k \in Nat
  BY GraphMeans
<1>2. s.visited \in SUBSET DOMAIN G /\ Len(s.stack) \in Nat
  BY DEF PathStates
<1>3. IsFiniteSet(s.visited) /\ v \in Nat /\ v <= k
  BY <1>1, <1>2, FS_Subset, FS_CardinalityType
<1>4. k - v \in Nat
  <2> HIDE DEF k, v
  <2> QED
    BY <1>1, <1>3
<1>5. (k - v) * k \in Nat
  <2> DEFINE e == k - v
  <2> HIDE DEF e, k
  <2> QED
    BY <1>1, <1>4 DEF e
<1>6. PathCount(G, s) \in Nat
  <2> DEFINE p == (k - v) * k
  <2> HIDE DEF p
  <2>1. PathCount(G, s) = p + Len(s.stack)
    BY DEF PathCount, p
  <2> QED
    BY <1>2, <1>5, <2>1 DEF p
<1> QED
  BY <1>1, <1>3, <1>6

LEMMA PathStartsRight ==
    ASSUME NEW G, IsGraph(G), NEW from \in DOMAIN G, NEW to \in DOMAIN G
    PROVE  PathInv(G, from, to, PathStart(from)) /\ PathCount(G, PathStart(from)) <= Turns(G)
<1> DEFINE s == PathStart(from)
           k == Cardinality(DOMAIN G)
<1>1. s.visited = {} /\ s.stack = <<from>> /\ ~s.found /\ s.found = FALSE
  BY DEF PathStart
<1>2. s \in PathStates(G)
  BY DEF PathStart, PathStates
<1> HIDE DEF s
<1>3. s.stack \in Seq(DOMAIN G) /\ Len(s.stack) = 1 /\ s.stack[1] = from
  BY <1>1
<1>4. Range(s.stack) = {from}
  <2>1. 1 .. Len(s.stack) = {1}
    BY <1>3
  <2>2. \A x : x \in Range(s.stack) <=> s.stack[1] = x
    BY <1>3, <2>1, RangeMeans
  <2> QED
    BY <1>3, <2>2
<1>5. PathInv(G, from, to, s)
  BY <1>1, <1>2, <1>4 DEF PathInv
<1>6. PathCount(G, s) <= Turns(G)
  <2>1. k \in Nat /\ Cardinality({}) = 0
    BY GraphMeans, FS_EmptySet
  <2>2. PathCount(G, s) = (k - 0) * k + 1
    BY <1>1, <1>3, <2>1 DEF PathCount
  <2>3. Turns(G) = (k + 1) * (k + 1)
    BY DEF Turns
  <2> HIDE DEF k
  <2>4. (k - 0) * k + 1 <= (k + 1) * (k + 1)
    BY <2>1
  <2> QED
    BY <2>2, <2>3, <2>4
<1> QED
  BY <1>5, <1>6 DEF s

LEMMA PathGoesOn ==
    ASSUME NEW G, IsGraph(G), NEW from \in DOMAIN G, NEW to \in DOMAIN G,
           NEW s, PathInv(G, from, to, s), ~s.found, s.stack # <<>>
    PROVE  LET t == PathTurn(G, to, s)
           IN  PathInv(G, from, to, t) /\ PathCount(G, t) < PathCount(G, s)
<1> DEFINE c == Last(s.stack)
           deps == IF c \in s.visited THEN {} ELSE G[c]
           t == PathTurn(G, to, s)
           k == Cardinality(DOMAIN G)
           v == Cardinality(s.visited)
           L == Len(s.stack)
<1>1. s \in PathStates(G) /\ s.stack \in Seq(DOMAIN G) /\ s.visited \in SUBSET DOMAIN G
  BY DEF PathInv, PathStates
<1>2. L \in Nat /\ L >= 1 /\ c \in DOMAIN G /\ c = s.stack[L] /\ L \in 1 .. L
  BY <1>1, EndOfList
<1>3. c \in Range(s.stack)
  BY <1>1, <1>2, RangeMeans
<1>4. /\ t.visited = s.visited \cup {c} /\ t.stack = Front(s.stack) \o Listing[deps]
      /\ t.found = (to \in deps)
      /\ t = [visited |-> t.visited, stack |-> t.stack, found |-> t.found]
  BY DEF PathTurn
<1> HIDE DEF t
<1>5. deps \in SUBSET DOMAIN G /\ deps \in SUBSET Task /\ deps \subseteq G[c]
  BY <1>2, GraphMeans DEF IsGraph
<1>6. IsFiniteSet(deps) /\ Cardinality(deps) \in Nat /\ Len(Listing[deps]) = Cardinality(deps)
  <2> HIDE DEF deps
  <2> QED
    BY <1>5, ListingMeans
<1>7. Listing[deps] \in Seq(deps) /\ Range(Listing[deps]) = deps /\ Listing[deps] \in Seq(DOMAIN G)
  <2> HIDE DEF deps
  <2> QED
    BY <1>5, ListingIsOnce
<1>8. /\ t.stack \in Seq(DOMAIN G)
      /\ Len(t.stack) = L - 1 + Cardinality(deps)
      /\ \A x : x \in Range(s.stack) \/ x \in deps <=> x \in Range(t.stack) \/ x = c
  <2> HIDE DEF deps
  <2>1. /\ Front(s.stack) \o Listing[deps] \in Seq(DOMAIN G)
        /\ Len(Front(s.stack) \o Listing[deps]) = L - 1 + Len(Listing[deps])
        /\ \A x : x \in Range(s.stack) \/ x \in Range(Listing[deps])
                    <=> x \in Range(Front(s.stack) \o Listing[deps]) \/ x = c
    BY <1>1, <1>7, TakeAndPut
  <2> QED
    BY <1>4, <1>6, <1>7, <2>1
<1>9. deps \subseteq Range(t.stack) \cup {c}
  BY <1>8
<1>10. t \in PathStates(G) /\ t.visited \in SUBSET DOMAIN G
  <2>1. t.found \in BOOLEAN /\ t.visited \in SUBSET DOMAIN G
    BY <1>1, <1>2, <1>4
  <2> QED
    BY <1>4, <1>8, <2>1 DEF PathStates
<1>11. ASSUME NEW C \in SUBSET DOMAIN G, from \in C, Closed(C, G)
       PROVE  /\ t.visited \subseteq C /\ Range(t.stack) \subseteq C
              /\ t.found => to \in C
  <2>1. s.visited \subseteq C /\ Range(s.stack) \subseteq C
    BY <1>11 DEF PathInv
  <2>2. c \in C /\ G[c] \subseteq C
    BY <1>3, <1>11, <2>1 DEF Closed
  <2>3. deps \subseteq C
    BY <1>5, <2>2
  <2> HIDE DEF deps, c
  <2> QED
    BY <1>4, <1>8, <2>1, <2>2, <2>3
<1>12. ASSUME ~t.found
       PROVE  /\ from \in t.visited \/ from \in Range(t.stack)
              /\ \A n \in t.visited : \A d \in G[n] : d \in t.visited \/ d \in Range(t.stack)
              /\ from # to => to \notin t.visited /\ to \notin Range(t.stack)
  <2>1. \A x : x \in s.visited \/ x \in Range(s.stack) => x \in t.visited \/ x \in Range(t.stack)
    <3> HIDE DEF deps, c
    <3> QED
      BY <1>4, <1>8
  <2>2. from \in s.visited \/ from \in Range(s.stack)
    BY DEF PathInv
  <2>3. ASSUME NEW n \in t.visited, NEW d \in G[n] PROVE d \in t.visited \/ d \in Range(t.stack)
    <3>1. CASE n \in s.visited
      BY <2>1, <3>1 DEF PathInv
    <3>2. CASE n = c /\ c \notin s.visited
      <4>1. d \in deps
        BY <3>2
      <4> HIDE DEF deps, c
      <4> QED
        BY <1>4, <1>8, <4>1
    <3> QED
      BY <1>4, <3>1, <3>2
  <2>4. ASSUME from # to PROVE to \notin t.visited /\ to \notin Range(t.stack)
    <3>1. to \notin s.visited /\ to \notin Range(s.stack)
      BY <2>4 DEF PathInv
    <3>2. to \notin deps
      BY <1>4, <1>12
    <3> HIDE DEF deps, c
    <3> QED
      BY <1>3, <1>4, <1>8, <3>1, <3>2
  <2> QED
    BY <2>1, <2>2, <2>3, <2>4
<1>13. PathInv(G, from, to, t)
  BY <1>10, <1>11, <1>12 DEF PathInv
<1>14. PathCount(G, t) < PathCount(G, s)
  <2>1. /\ PathCount(G, s) = (k - v) * k + L
        /\ PathCount(G, t) = (k - Cardinality(t.visited)) * k + (L - 1 + Cardinality(deps))
    BY <1>8 DEF PathCount
  <2>2. k \in Nat /\ v \in 0 .. k /\ IsFiniteSet(s.visited) /\ Cardinality(deps) <= k
        /\ Cardinality(deps) \in Nat
    <3>1. Cardinality(deps) <= k
      <4>1. Cardinality(deps) <= Cardinality(G[c])
        BY <1>2, <1>5, GraphMeans, FS_Subset
      <4> HIDE DEF deps, c
      <4> QED
        BY <1>2, <1>6, <4>1, GraphMeans
    <3> QED
      BY <1>1, <1>6, <3>1, PathCountIs, GraphMeans
  <2>3. CASE c \in s.visited
    <3>1. deps = {} /\ t.visited = s.visited
      BY <1>4, <2>3
    <3>2. Cardinality(deps) = 0 /\ Cardinality(t.visited) = v
      BY <3>1, FS_EmptySet
    <3> DEFINE p == (k - v) * k
    <3>3. p \in Int
      BY <2>2
    <3>4. PathCount(G, s) = p + L /\ PathCount(G, t) = p + (L - 1 + 0)
      BY <2>1, <3>2
    <3> HIDE DEF p, L
    <3> QED
      BY <1>2, <3>3, <3>4
  <2>4. CASE c \notin s.visited
    <3>1. Cardinality(t.visited) = v + 1
      BY <1>4, <2>2, <2>4, FS_AddElement
    <3> DEFINE e == Cardinality(deps)
    <3>2. PathCount(G, t) = (k - (v + 1)) * k + (L - 1 + e)
      BY <2>1, <3>1
    <3>3. e \in Nat /\ e <= k
      BY <2>2
    <3> HIDE DEF e, L, v, k, deps
    <3>4. (k - (v + 1)) * k = (k - v) * k - k
      BY <2>2
    <3> DEFINE p == (k - v) * k
    <3>5. p \in Int
      BY <2>2
    <3> HIDE DEF p
    <3>6. PathCount(G, s) = p + L /\ PathCount(G, t) = p - k + (L - 1 + e)
      BY <2>1, <3>2, <3>4 DEF p
    <3> QED
      BY <1>2, <2>2, <3>3, <3>5, <3>6
  <2> QED
    BY <2>3, <2>4
<1> QED
  BY <1>13, <1>14 DEF t

LEMMA PathRuns ==
    ASSUME NEW G, IsGraph(G), NEW from \in DOMAIN G, NEW to \in DOMAIN G
    PROVE  LET s == PathSearch(G, from, to)[Turns(G)]
           IN  PathInv(G, from, to, s) /\ (s.found \/ s.stack = <<>>)
<1> DEFINE T == Turns(G)
           Vals == {s \in PathStates(G) : PathInv(G, from, to, s)}
           first == PathStart(from)
           Turn == [s \in Vals |-> PathTurn(G, to, s)]
           Done == {s \in Vals : s.found \/ s.stack = <<>>}
           Count == [s \in Vals |-> PathCount(G, s)]
<1>1. T \in Nat
  BY GraphMeans
<1>2. ASSUME NEW s \in Vals
      PROVE  /\ PathTurn(G, to, s) \in Vals
             /\ s.found \/ s.stack = <<>> => PathTurn(G, to, s) = s
             /\ ~(s.found \/ s.stack = <<>>) => PathCount(G, PathTurn(G, to, s)) < PathCount(G, s)
  <2>1. CASE s.found \/ s.stack = <<>>
    BY <2>1 DEF PathTurn
  <2>2. CASE ~(s.found \/ s.stack = <<>>)
    BY <2>2, PathGoesOn DEF PathInv
  <2> QED
    BY <2>1, <2>2
<1>3. first \in Vals /\ PathCount(G, first) <= T
  BY PathStartsRight DEF PathInv
<1>4. Count \in [Vals -> Nat]
  BY PathCountIs
<1> HIDE DEF Vals, T
<1>5. TurnsOver(T, Vals, first, Turn, Done)
  BY <1>1, <1>2, <1>3 DEF TurnsOver
<1>6. CountsDown(T, Vals, first, Turn, Done, Count)
  BY <1>1, <1>2, <1>3, <1>4 DEF CountsDown
<1>7. Runs(T, Vals, first, Turn, Done)
  <2> HIDE DEF first, Turn, Done, Count
  <2> QED
    BY <1>5, <1>6, LoopRuns
<1> DEFINE Is(g) == g = [i \in 0 .. T |-> IF i = 0 THEN first ELSE PathTurn(G, to, g[i - 1])]
<1>8. \E g : Is(g)
  <2>1. PICK g \in [0 .. T -> Vals] :
            g = [i \in 0 .. T |-> IF i = 0 THEN first ELSE Turn[g[i - 1]]]
    BY <1>7 DEF Runs
  <2>2. \A i \in 0 .. T : i = 0 \/ i - 1 \in 0 .. T
    BY <1>1
  <2>3. \A i \in 0 .. T : i # 0 => Turn[g[i - 1]] = PathTurn(G, to, g[i - 1])
    BY <2>2
  <2> HIDE DEF first, Turn
  <2>4. Is(g)
    BY <2>1, <2>3
  <2> QED
    BY <2>4
<1> DEFINE h == PathSearch(G, from, to)
<1>9. h = [i \in 0 .. T |-> IF i = 0 THEN first ELSE PathTurn(G, to, h[i - 1])]
  BY <1>8 DEF PathSearch, T
<1> HIDE DEF h, first
<1>10. h[T] \in Done
  <2>1. h[0] = first
    BY <1>1, <1>9
  <2>2. \A i \in 1 .. T : h[i - 1] \in Vals => h[i] = Turn[h[i - 1]]
    BY <1>1, <1>9
  <2> HIDE DEF Turn, Done
  <2> QED
    BY <1>7, <2>1, <2>2 DEF Runs
<1> QED
  BY <1>10 DEF h, Vals, T

\* has_path finds what can be reached.
LEMMA PathsFound ==
    ASSUME NEW G, IsGraph(G)
    PROVE  PathsAreFound(G)
<1> SUFFICES ASSUME NEW m \in DOMAIN G, NEW n \in DOMAIN G
             PROVE  HasPath(G, m, n) <=>
                        \A C \in SUBSET DOMAIN G : m \in C /\ Closed(C, G) => n \in C
  BY DEF PathsAreFound
<1> DEFINE s == PathSearch(G, m, n)[Turns(G)]
<1>1. PathInv(G, m, n, s) /\ (s.found \/ s.stack = <<>>)
  BY PathRuns
<1>2. HasPath(G, m, n) <=> m = n \/ s.found
  BY DEF HasPath
<1> HIDE DEF s
<1>3. s \in PathStates(G)
  BY <1>1 DEF PathInv
<1>4. s.found => \A C \in SUBSET DOMAIN G : m \in C /\ Closed(C, G) => n \in C
  BY <1>1 DEF PathInv
<1>5. ASSUME m # n, ~s.found PROVE \E C \in SUBSET DOMAIN G : m \in C /\ Closed(C, G) /\ n \notin C
  <2>1. Range(s.stack) = {} /\ s.visited \in SUBSET DOMAIN G
    <3>1. s.stack = <<>> /\ s.stack \in Seq(DOMAIN G) /\ s.visited \in SUBSET DOMAIN G
      BY <1>1, <1>3, <1>5 DEF PathStates
    <3>2. \A i \in 1 .. Len(s.stack) : FALSE
      BY <3>1
    <3> QED
      BY <3>1, <3>2, RangeMeans
  <2>2. m \in s.visited /\ n \notin s.visited
    BY <1>1, <1>5, <2>1 DEF PathInv
  <2>3. Closed(s.visited, G)
    BY <1>1, <1>5, <2>1 DEF PathInv, Closed
  <2> QED
    BY <2>1, <2>2, <2>3
<1> QED
  BY <1>2, <1>4, <1>5

-----------------------------------------------------------------------------
(***************************************************************************)
(* The depths of a package's tasks.                                        *)
(***************************************************************************)

\* One more than the deepest of the dependencies, or nothing without any.
LevelOf(G, v, n) == IF G[n] = {} THEN 0 ELSE Largest({v[d] : d \in G[n]}) + 1

LEMMA IncomingIs ==
    ASSUME NEW G, IsGraph(G), NEW n \in DOMAIN G
    PROVE  Incoming(G, n) = G[n]
<1>1. \A d \in DOMAIN G : <<d, n>> \in PackageEdges(G) <=> d \in G[n]
  BY DEF PackageEdges
<1>2. G[n] \in SUBSET DOMAIN G
  BY DEF IsGraph
<1> QED
  BY <1>1, <1>2 DEF Incoming

LEMMA LargestOf ==
    ASSUME NEW D, NEW v \in [D -> Nat], NEW S \in SUBSET D, S # {}, IsFiniteSet(S)
    PROVE  /\ Largest({v[d] : d \in S}) \in Nat
           /\ \E d \in S : Largest({v[d_1] : d_1 \in S}) = v[d]
           /\ \A d \in S : v[d] <= Largest({v[d_1] : d_1 \in S})
<1> DEFINE R == {v[d] : d \in S}
           r == [d \in S |-> v[d]]
<1>1. r \in Surjection(S, R)
  BY DEF Surjection
<1>2. IsFiniteSet(R)
  <2> HIDE DEF R, r
  <2> QED
    BY <1>1, FS_Surjection
<1>3. R \in SUBSET Nat /\ R # {}
  OBVIOUS
<1>4. Largest(R) \in R /\ \A y \in R : y <= Largest(R)
  <2> HIDE DEF R
  <2> QED
    BY <1>2, <1>3, LargestMeans
<1> DEFINE top == Largest(R)
<1>5. top \in R /\ \A y \in R : y <= top
  BY <1>4
<1> HIDE DEF top
<1>6. top \in Nat /\ (\E d \in S : top = v[d]) /\ \A d \in S : v[d] <= top
  BY <1>3, <1>5
<1> QED
  BY <1>6 DEF top

LEMMA LevelMeans ==
    ASSUME NEW G, IsGraph(G), NEW v \in [DOMAIN G -> Nat], NEW n \in DOMAIN G
    PROVE  /\ LevelOf(G, v, n) \in Nat
           /\ \A d \in G[n] : v[d] < LevelOf(G, v, n)
           /\ \A m \in Nat : LevelOf(G, v, n) = m + 1 => \E d \in G[n] : v[d] = m
<1>1. G[n] \in SUBSET DOMAIN G /\ IsFiniteSet(G[n])
  BY GraphMeans DEF IsGraph
<1>2. CASE G[n] = {}
  <2>1. LevelOf(G, v, n) = 0
    BY <1>2 DEF LevelOf
  <2> QED
    BY <1>2, <2>1
<1>3. CASE G[n] # {}
  <2> DEFINE top == Largest({v[d] : d \in G[n]})
  <2>1. top \in Nat /\ (\E d \in G[n] : top = v[d]) /\ \A d \in G[n] : v[d] <= top
    BY <1>1, <1>3, LargestOf
  <2>2. LevelOf(G, v, n) = top + 1
    BY <1>3 DEF LevelOf
  <2>3. \A d \in G[n] : v[d] \in Nat
    BY <1>1
  <2> HIDE DEF top
  <2> QED
    BY <2>1, <2>2, <2>3
<1> QED
  BY <1>2, <1>3

LEMMA DepthsExist ==
    ASSUME NEW G, IsGraph(G), NEW o \in Seq(DOMAIN G)
    PROVE  /\ DepthsAlong(G, o) \in [0 .. Len(o) -> [DOMAIN G -> Nat]]
           /\ \A i \in 1 .. Len(o) :
                  DepthsAlong(G, o)[i] = [DepthsAlong(G, o)[i - 1] EXCEPT
                                             ![o[i]] = LevelOf(G, DepthsAlong(G, o)[i - 1], o[i])]
<1> DEFINE L == Len(o)
           Vals == [DOMAIN G -> Nat]
           first == NotYet(G)
           Next_(v, i) == [v EXCEPT ![o[i]] = LevelOf(G, v, o[i])]
           Turn == [i \in 1 .. L |-> [v \in Vals |-> Next_(v, i)]]
<1>1. L \in Nat /\ \A i \in 1 .. L : o[i] \in DOMAIN G
  OBVIOUS
<1>2. first \in Vals
  BY DEF NotYet
<1>3. ASSUME NEW i \in 1 .. L, NEW v \in Vals PROVE Next_(v, i) \in Vals
  <2>1. LevelOf(G, v, o[i]) \in Nat
    BY <1>1, LevelMeans
  <2> QED
    BY <2>1
<1>4. Turn \in [1 .. L -> [Vals -> Vals]]
  <2> HIDE DEF Vals, Next_, L
  <2> QED
    BY <1>3
<1>5. PICK g : IsLoop(g, L, Vals, first, Turn)
  <2> HIDE DEF Vals, Turn, L, first
  <2> QED
    BY <1>1, <1>2, <1>4, LoopExists
<1> DEFINE Step(v, i) == [v EXCEPT ![o[i]] =
                             IF Incoming(G, o[i]) = {} THEN 0
                             ELSE Largest({v[d] : d \in Incoming(G, o[i])}) + 1]
           Is(f_) == f_ = [i \in 0 .. L |-> IF i = 0 THEN first ELSE Step(f_[i - 1], i)]
<1>6. ASSUME NEW i \in 1 .. L, NEW v PROVE Step(v, i) = Next_(v, i)
  <2>1. Incoming(G, o[i]) = G[o[i]]
    BY <1>1, IncomingIs
  <2> QED
    BY <2>1 DEF LevelOf
<1>7. g \in [0 .. L -> Vals] /\ g = [i \in 0 .. L |-> IF i = 0 THEN first ELSE Turn[i][g[i - 1]]]
  <2> HIDE DEF Vals, Turn, L, first
  <2> QED
    BY <1>5 DEF IsLoop
<1>8. \A i \in 0 .. L : i = 0 \/ (i \in 1 .. L /\ i - 1 \in 0 .. L)
  BY <1>1
<1>9. \A i \in 0 .. L : i # 0 => Turn[i][g[i - 1]] = Step(g[i - 1], i)
  <2> HIDE DEF Vals, Next_, Step, L
  <2> QED
    BY <1>6, <1>7, <1>8
<1>10. Is(g)
  <2> HIDE DEF Vals, Turn, Step, L, first
  <2> QED
    BY <1>7, <1>9
<1> DEFINE h == DepthsAlong(G, o)
<1>11. h = [i \in 0 .. L |-> IF i = 0 THEN first ELSE Step(h[i - 1], i)]
  <2>1. \E f_ : Is(f_)
    <3> HIDE DEF Is
    <3> QED
      BY <1>10
  <2>2. h = CHOOSE f_ : Is(f_)
    BY DEF DepthsAlong
  <2>3. Is(h)
    <3> HIDE DEF Is, h
    <3> QED
      BY <2>1, <2>2
  <2> HIDE DEF h
  <2> QED
    BY <2>3
<1> HIDE DEF h, first, Vals, L
<1> DEFINE S == {i \in 0 .. L : h[i] \in Vals}
<1>12. 0 \in S
  BY <1>1, <1>2, <1>11
<1>13. ASSUME NEW i \in 1 .. L, i - 1 \in S PROVE i \in S
  <2>1. i \in 0 .. L /\ i # 0
    BY <1>1
  <2>2. h[i] = Step(h[i - 1], i)
    <3> HIDE DEF Step
    <3> QED
      BY <1>11, <2>1
  <2>3. Step(h[i - 1], i) \in Vals
    <3> HIDE DEF Step, Next_
    <3> QED
      BY <1>3, <1>6, <1>13
  <2> HIDE DEF Step
  <2> QED
    BY <2>1, <2>2, <2>3
<1>14. S = 0 .. L
  <2>1. S \in SUBSET (0 .. L)
    OBVIOUS
  <2> HIDE DEF S
  <2> QED
    BY <1>1, <1>12, <1>13, <2>1, TurnByTurn
<1>15. h \in [0 .. L -> Vals]
  <2>1. \A i \in 0 .. L : h[i] \in Vals
    BY <1>14
  <2>2. DOMAIN h = 0 .. L /\ h = [i \in 0 .. L |-> h[i]]
    <3> HIDE DEF Step
    <3> QED
      BY <1>11
  <2> QED
    BY <2>1, <2>2
<1>16. \A i \in 1 .. L : h[i] = Next_(h[i - 1], i)
  <2>1. \A i \in 1 .. L : i \in 0 .. L /\ i # 0
    BY <1>1
  <2> HIDE DEF Step, Next_
  <2> QED
    BY <1>6, <1>11, <2>1
<1> QED
  BY <1>15, <1>16 DEF h, Vals, L

\* Along an order, every node ends one above the deepest it depends on.
LEMMA DepthsAreRight ==
    ASSUME NEW G, IsGraph(G), ~HasCycle(G)
    PROVE  /\ CalculateDepths(G) \in [DOMAIN G -> Nat]
           /\ \A n \in DOMAIN G : CalculateDepths(G)[n] = LevelOf(G, CalculateDepths(G), n)
<1> DEFINE o == Kahn(G)
           L == Len(o)
           depth == DepthsAlong(G, o)
<1>1. o \in Seq(DOMAIN G) /\ NoRepeats(o) /\ IsOrder(o, G)
  BY OrderFound
<1>2. L \in Nat /\ \A i \in 1 .. L : o[i] \in DOMAIN G
  <2> HIDE DEF o
  <2> QED
    BY <1>1
<1>3. /\ \A i, j \in 1 .. L : o[i] = o[j] => i = j
      /\ \A i, j \in 1 .. L : o[j] \in G[o[i]] => j < i
      /\ \A n \in DOMAIN G : \E i \in 1 .. L : o[i] = n
  <2> HIDE DEF o
  <2>1. Range(o) = DOMAIN G
    BY <1>1 DEF IsOrder
  <2> QED
    BY <1>1, <2>1, RangeMeans DEF NoRepeats, IsOrder
<1>4. /\ depth \in [0 .. L -> [DOMAIN G -> Nat]]
      /\ \A i \in 1 .. L :
             depth[i] = [depth[i - 1] EXCEPT ![o[i]] = LevelOf(G, depth[i - 1], o[i])]
  <2> DEFINE P(q) == /\ DepthsAlong(G, q) \in [0 .. Len(q) -> [DOMAIN G -> Nat]]
                     /\ \A i \in 1 .. Len(q) :
                            DepthsAlong(G, q)[i] =
                                [DepthsAlong(G, q)[i - 1] EXCEPT
                                    ![q[i]] = LevelOf(G, DepthsAlong(G, q)[i - 1], q[i])]
  <2>1. \A q \in Seq(DOMAIN G) : P(q)
    BY DepthsExist
  <2>2. P(o)
    <3> HIDE DEF P, o
    <3> QED
      BY <1>1, <2>1
  <2> QED
    BY <2>2
<1>5. CalculateDepths(G) = depth[L]
  BY DEF CalculateDepths
<1> HIDE DEF depth, L, o
<1> DEFINE S == {i \in 0 .. L : \A j \in 1 .. i : depth[i][o[j]] = LevelOf(G, depth[i], o[j])}
<1>6. 0 \in S
  BY <1>2
<1>7. ASSUME NEW i \in 1 .. L, i - 1 \in S PROVE i \in S
  <2> DEFINE u == depth[i - 1]
             v == depth[i]
  <2>1. i \in 0 .. L /\ i - 1 \in 0 .. L
    BY <1>2
  <2>2. u \in [DOMAIN G -> Nat] /\ v = [u EXCEPT ![o[i]] = LevelOf(G, u, o[i])]
    BY <1>4, <2>1
  <2>3. \A j \in 1 .. (i - 1) : u[o[j]] = LevelOf(G, u, o[j])
    BY <1>7
  <2> HIDE DEF u, v
  <2>4. ASSUME NEW j \in 1 .. i PROVE LevelOf(G, v, o[j]) = LevelOf(G, u, o[j])
    <3>1. j \in 1 .. L /\ o[j] \in DOMAIN G /\ j <= i
      BY <1>2
    <3>2. ASSUME NEW d \in G[o[j]] PROVE v[d] = u[d]
      <4>1. d \in DOMAIN G
        BY <3>1 DEF IsGraph
      <4>2. PICK k \in 1 .. L : o[k] = d
        BY <1>3, <4>1
      <4>3. k < j
        BY <1>3, <3>1, <4>2
      <4>4. k # i
        BY <3>1, <4>3
      <4>5. d # o[i]
        BY <1>3, <4>2, <4>4
      <4> QED
        BY <2>2, <4>1, <4>5
    <3>3. {v[d] : d \in G[o[j]]} = {u[d] : d \in G[o[j]]}
      BY <3>2
    <3> QED
      BY <3>3 DEF LevelOf
  <2>5. ASSUME NEW j \in 1 .. i PROVE v[o[j]] = LevelOf(G, v, o[j])
    <3>1. j \in 1 .. L /\ o[j] \in DOMAIN G /\ o[i] \in DOMAIN G
      BY <1>2
    <3>2. CASE j = i
      <4>1. v[o[i]] = LevelOf(G, u, o[i])
        BY <2>2, <3>1
      <4> QED
        BY <2>4, <3>2, <4>1
    <3>3. CASE j # i
      <4>1. j \in 1 .. (i - 1)
        BY <3>3
      <4>2. o[j] # o[i]
        BY <1>3, <3>1, <3>3
      <4>3. v[o[j]] = u[o[j]]
        BY <2>2, <3>1, <4>2
      <4> QED
        BY <2>3, <2>4, <4>1, <4>3
    <3> QED
      BY <3>2, <3>3
  <2> QED
    BY <2>1, <2>5 DEF v
<1>8. S = 0 .. L
  <2>1. S \in SUBSET (0 .. L)
    OBVIOUS
  <2> HIDE DEF S
  <2> QED
    BY <1>2, <1>6, <1>7, <2>1, TurnByTurn
<1>9. L \in 0 .. L /\ L \in S
  <2> HIDE DEF S
  <2> QED
    BY <1>2, <1>8
<1>10. \A n \in DOMAIN G : depth[L][n] = LevelOf(G, depth[L], n)
  BY <1>3, <1>9
<1> QED
  BY <1>4, <1>5, <1>9, <1>10

LEMMA PutAtEnd ==
    ASSUME NEW S, NEW s \in Seq(S), NEW d \in S
    PROVE  /\ Append(s, d) \in Seq(S) /\ Len(Append(s, d)) = Len(s) + 1
           /\ \A i \in 1 .. Len(s) : Append(s, d)[i] = s[i]
           /\ Append(s, d)[Len(s) + 1] = d
           /\ \A x : x \in Range(Append(s, d)) <=> x \in Range(s) \/ x = d
<1> DEFINE t == Append(s, d)
           L == Len(s)
<1>1. /\ t \in Seq(S) /\ Len(t) = L + 1 /\ L \in Nat
      /\ \A i \in 1 .. L : t[i] = s[i]
      /\ t[L + 1] = d
  OBVIOUS
<1>2. /\ \A x : x \in Range(s) <=> \E i \in 1 .. L : s[i] = x
      /\ \A x : x \in Range(t) <=> \E i \in 1 .. (L + 1) : t[i] = x
  <2>1. \A x : x \in Range(s) <=> \E i \in 1 .. L : s[i] = x
    BY RangeMeans
  <2>2. \A x : x \in Range(t) <=> \E i \in 1 .. Len(t) : t[i] = x
    <3> HIDE DEF t
    <3> QED
      BY <1>1, RangeMeans
  <2> HIDE DEF t, L
  <2> QED
    BY <1>1, <2>1, <2>2
<1> HIDE DEF t, L
<1>3. /\ \A i \in 1 .. L : i \in 1 .. (L + 1)
      /\ \A i \in 1 .. (L + 1) : i \in 1 .. L \/ i = L + 1
      /\ L + 1 \in 1 .. (L + 1)
  BY <1>1
<1>4. \A x : x \in Range(t) <=> x \in Range(s) \/ x = d
  BY <1>1, <1>2, <1>3
<1> QED
  BY <1>1, <1>4 DEF t, L

LEMMA TakeFromEnd ==
    ASSUME NEW S, NEW s \in Seq(S), s # <<>>, NoRepeats(s)
    PROVE  /\ NoRepeats(Front(s)) /\ Last(s) \notin Range(Front(s))
           /\ \A x : x \in Range(s) <=> x \in Range(Front(s)) \/ x = Last(s)
<1> DEFINE t == Front(s)
           m == Len(s) - 1
<1>1. /\ m \in Nat /\ Len(s) = m + 1 /\ Last(s) = s[m + 1]
      /\ t \in Seq(S) /\ Len(t) = m
      /\ \A i \in 1 .. m : t[i] = s[i]
  BY EndOfList
<1>2. /\ \A x : x \in Range(s) <=> \E i \in 1 .. Len(s) : s[i] = x
      /\ \A x : x \in Range(t) <=> \E i \in 1 .. Len(t) : t[i] = x
  BY <1>1, RangeMeans
<1> HIDE DEF t, m
<1>3. /\ \A i \in 1 .. m : i \in 1 .. (m + 1) /\ i # m + 1
      /\ \A i \in 1 .. (m + 1) : i \in 1 .. m \/ i = m + 1
      /\ m + 1 \in 1 .. (m + 1)
  BY <1>1
<1>4. \A i, j \in 1 .. (m + 1) : s[i] = s[j] => i = j
  BY <1>1 DEF NoRepeats
<1>5. NoRepeats(t)
  BY <1>1, <1>3, <1>4 DEF NoRepeats
<1>6. Last(s) \notin Range(t)
  BY <1>1, <1>2, <1>3, <1>4
<1>7. \A x : x \in Range(s) <=> x \in Range(t) \/ x = Last(s)
  BY <1>1, <1>2, <1>3
<1> QED
  BY <1>5, <1>6, <1>7 DEF t

\* The dependencies of some of the tasks, within them or not.
IsOpen(G) ==
    /\ DOMAIN G \in SUBSET Task
    /\ \A n \in DOMAIN G : G[n] \in SUBSET Task

LEMMA OpenMeans ==
    ASSUME NEW G, IsOpen(G)
    PROVE  /\ IsFiniteSet(DOMAIN G) /\ Cardinality(DOMAIN G) \in Nat
           /\ Turns(G) \in Nat
           /\ \A n \in DOMAIN G : /\ Local(G, n) \in SUBSET Task /\ Local(G, n) \in SUBSET DOMAIN G
                                  /\ IsFiniteSet(Local(G, n))
                                  /\ Cardinality(Local(G, n)) \in 0 .. Cardinality(DOMAIN G)
                                  /\ Local(G, n) \in SUBSET G[n]
           /\ IsGraph(Within(G)) /\ DOMAIN Within(G) = DOMAIN G
           /\ \A n \in DOMAIN G : Within(G)[n] = Local(G, n)
<1> DEFINE W == Within(G)
<1>1. DOMAIN W = DOMAIN G /\ \A n \in DOMAIN G : W[n] = Local(G, n)
  BY DEF Within, Local
<1>2. IsGraph(W)
  BY DEF IsOpen, IsGraph, Within
<1>3. Turns(W) = Turns(G)
  BY <1>1 DEF Turns
<1> HIDE DEF W
<1>4. /\ IsFiniteSet(DOMAIN W) /\ Cardinality(DOMAIN W) \in Nat /\ Turns(W) \in Nat
      /\ \A n \in DOMAIN W : /\ W[n] \in SUBSET Task
                             /\ IsFiniteSet(W[n])
                             /\ Cardinality(W[n]) \in 0 .. Cardinality(DOMAIN W)
  BY <1>2, GraphMeans
<1>5. \A n \in DOMAIN G : Local(G, n) \in SUBSET DOMAIN G /\ Local(G, n) \in SUBSET G[n]
  BY DEF Local
<1> QED
  BY <1>1, <1>2, <1>3, <1>4, <1>5 DEF W

DescentStates(G) ==
    [seen : SUBSET DOMAIN G, path : Seq(DOMAIN G), at : [DOMAIN G -> Nat],
     best : [DOMAIN G -> Nat], depth : Nat]

\* The calls that wait are a walk from the first node, each made once.
CallsWait(G, n, s) ==
    /\ \A i \in 1 .. Len(s.path) : s.path[i] \in s.seen
    /\ NoRepeats(s.path)
    /\ \A i \in 1 .. (Len(s.path) - 1) : s.path[i + 1] \in Local(G, s.path[i])
    /\ s.path # <<>> => s.path[1] = n

\* Depths that grow along every edge, also along one that leads outside.
Grows(G, D) ==
    /\ D \in [DOMAIN G -> Nat]
    /\ \A n \in DOMAIN G : /\ \A d \in Local(G, n) : D[d] < D[n]
                           /\ G[n] # {} => D[n] >= 1

\* What the call for a node would return now.
Returned(G, s, n) == IF G[n] = {} THEN 0 ELSE s.best[n] + 1

\* What is counted is never more than such a depth.
NeverTooDeep(G, n, s) ==
    \A D \in [DOMAIN G -> Nat] : Grows(G, D) =>
        s.depth <= D[n] /\ \A m \in DOMAIN G : Returned(G, s, m) <= D[m]

DescentInv(G, n, s) ==
    /\ s \in DescentStates(G)
    /\ \A m \in DOMAIN G : s.at[m] <= Cardinality(Local(G, m))
    /\ CallsWait(G, n, s)
    /\ NeverTooDeep(G, n, s)

\* The calls that have returned, and the dependencies gone through.
DescentMarks(G, s) ==
    {p \in (DOMAIN G) \X (0 .. Cardinality(DOMAIN G)) :
        IF p[2] = 0 THEN p[1] \in s.seen /\ p[1] \notin Range(s.path)
        ELSE p[2] <= s.at[p[1]]}

LEMMA DescentStartsRight ==
    ASSUME NEW G, IsOpen(G), NEW n \in DOMAIN G
    PROVE  DescentInv(G, n, DepthStart(G, n))
<1> DEFINE s == DepthStart(G, n)
<1>1. /\ s.seen = {n} /\ s.path = <<n>> /\ s.at = NotYet(G) /\ s.best = NotYet(G) /\ s.depth = 0
      /\ s = [seen |-> s.seen, path |-> s.path, at |-> s.at, best |-> s.best, depth |-> s.depth]
  BY DEF DepthStart
<1>2. NotYet(G) \in [DOMAIN G -> Nat] /\ \A m \in DOMAIN G : NotYet(G)[m] = 0
  BY DEF NotYet
<1> HIDE DEF s
<1>3. s \in DescentStates(G)
  <2>1. <<n>> \in Seq(DOMAIN G)
    OBVIOUS
  <2> QED
    BY <1>1, <1>2, <2>1 DEF DescentStates
<1>4. Len(s.path) = 1 /\ s.path[1] = n /\ \A i \in 1 .. Len(s.path) : i = 1
  BY <1>1
<1>5. CallsWait(G, n, s)
  BY <1>1, <1>4 DEF CallsWait, NoRepeats
<1>6. \A m \in DOMAIN G : s.at[m] <= Cardinality(Local(G, m))
  BY <1>1, <1>2, OpenMeans
<1>7. ASSUME NEW D \in [DOMAIN G -> Nat], Grows(G, D)
      PROVE  s.depth <= D[n] /\ \A m \in DOMAIN G : Returned(G, s, m) <= D[m]
  <2>1. ASSUME NEW m \in DOMAIN G PROVE Returned(G, s, m) <= D[m]
    <3>1. CASE G[m] = {}
      BY <3>1 DEF Returned
    <3>2. CASE G[m] # {}
      <4>1. D[m] >= 1 /\ D[m] \in Nat
        BY <1>7, <3>2 DEF Grows
      <4>3. Returned(G, s, m) = 0 + 1
        BY <1>1, <1>2, <3>2 DEF Returned
      <4> QED
        BY <4>1, <4>3
    <3> QED
      BY <3>1, <3>2
  <2> QED
    BY <1>1, <2>1
<1>8. NeverTooDeep(G, n, s)
  BY <1>7 DEF NeverTooDeep
<1> QED
  BY <1>3, <1>5, <1>6, <1>8 DEF DescentInv, s

\* The call for a node returns to the one that waits for it.
LEMMA DescentReturns ==
    ASSUME NEW G, IsOpen(G), NEW n \in DOMAIN G, NEW s, DescentInv(G, n, s), s.path # <<>>,
           s.at[Last(s.path)] = Cardinality(Local(G, Last(s.path)))
    PROVE  LET t == DepthTurn(G, s)
           IN  /\ DescentInv(G, n, t)
               /\ t.seen = s.seen /\ t.at = s.at /\ t.path = Front(s.path)
<1> DEFINE c == Last(s.path)
           L == Len(s.path)
           w == Front(s.path)
           value == Returned(G, s, c)
           p == Last(w)
           t == DepthTurn(G, s)
<1>1. /\ s \in DescentStates(G) /\ s.path \in Seq(DOMAIN G) /\ s.at \in [DOMAIN G -> Nat]
      /\ s.best \in [DOMAIN G -> Nat] /\ s.depth \in Nat /\ s.seen \in SUBSET DOMAIN G
      /\ s = [seen |-> s.seen, path |-> s.path, at |-> s.at, best |-> s.best, depth |-> s.depth]
  BY DEF DescentInv, DescentStates
<1>2. /\ L \in Nat /\ L >= 1 /\ c = s.path[L] /\ c \in DOMAIN G /\ L \in 1 .. L
      /\ w \in Seq(DOMAIN G) /\ Len(w) = L - 1 /\ \A i \in 1 .. (L - 1) : w[i] = s.path[i]
      /\ w = <<>> <=> L = 1
  BY <1>1, EndOfList
<1>3. CallsWait(G, n, s) /\ NeverTooDeep(G, n, s) /\ \A m \in DOMAIN G : s.at[m] <= Cardinality(Local(G, m))
  BY DEF DescentInv
<1>4. value \in Nat
  <2>1. c \in DOMAIN G /\ s.best \in [DOMAIN G -> Nat]
    BY <1>1, <1>2
  <2> HIDE DEF c
  <2>2. s.best[c] \in Nat
    BY <2>1
  <2> QED
    BY <2>2 DEF Returned
<1>5. t = DepthReturn(G, s, c)
  BY DEF DepthTurn, DepthBelow
<1>6. value = IF G[c] = {} THEN 0 ELSE s.best[c] + 1
  BY DEF Returned
<1> HIDE DEF t, value
<1>7. NoRepeats(w)
  BY <1>1, <1>3, TakeFromEnd DEF CallsWait
<1> HIDE DEF c
<1>8. ASSUME NEW u, u.seen = s.seen, u.path = w PROVE CallsWait(G, n, u)
  <2>1. \A i \in 1 .. (L - 1) : w[i] \in s.seen
    <3>1. \A i \in 1 .. (L - 1) : i \in 1 .. L
      BY <1>2
    <3> QED
      BY <1>2, <1>3, <3>1 DEF CallsWait
  <2>2. ASSUME NEW i \in 1 .. (L - 1 - 1) PROVE w[i + 1] \in Local(G, w[i])
    <3>1. i \in 1 .. (L - 1) /\ i + 1 \in 1 .. (L - 1)
      BY <1>2
    <3>2. s.path[i + 1] \in Local(G, s.path[i])
      BY <1>3, <3>1 DEF CallsWait
    <3> QED
      BY <1>2, <3>1, <3>2
  <2>3. w # <<>> => w[1] = n
    <3>1. CASE L = 1
      BY <1>2, <3>1
    <3>2. CASE L # 1
      <4>1. 1 \in 1 .. (L - 1)
        BY <1>2, <3>2
      <4> QED
        BY <1>2, <1>3, <4>1 DEF CallsWait
    <3> QED
      BY <3>1, <3>2
  <2> HIDE DEF w
  <2> QED
    BY <1>2, <1>7, <1>8, <2>1, <2>2, <2>3 DEF CallsWait
<1>9. CASE w = <<>>
  <2>1. t = [s EXCEPT !.path = <<>>, !.depth = value]
    BY <1>5, <1>6, <1>9 DEF DepthReturn
  <2>2. /\ t.seen = s.seen /\ t.path = w /\ t.at = s.at /\ t.best = s.best /\ t.depth = value
        /\ t = [seen |-> t.seen, path |-> t.path, at |-> t.at, best |-> t.best, depth |-> t.depth]
    <3> HIDE DEF w
    <3> QED
      BY <1>1, <1>9, <2>1
  <2>3. t \in DescentStates(G)
    <3> HIDE DEF w
    <3> QED
      BY <1>1, <1>2, <1>4, <2>2 DEF DescentStates
  <2>4. c = n
    <3>1. L = 1
      BY <1>2, <1>9
    <3> QED
      BY <1>2, <1>3, <3>1 DEF CallsWait
  <2>5. NeverTooDeep(G, n, t)
    <3>1. \A m \in DOMAIN G : Returned(G, t, m) = Returned(G, s, m)
      BY <2>2 DEF Returned
    <3>2. t.depth = Returned(G, s, n)
      BY <2>2, <2>4 DEF value
    <3> QED
      BY <1>3, <3>1, <3>2 DEF NeverTooDeep
  <2> QED
    BY <1>3, <1>8, <2>2, <2>3, <2>5 DEF DescentInv, t
<1>10. CASE w # <<>>
  <2> DEFINE b == IF value > s.best[p] THEN value ELSE s.best[p]
  <2>1. t = [s EXCEPT !.path = w, !.best[p] = b]
    <3> HIDE DEF w
    <3> QED
      BY <1>5, <1>6, <1>10 DEF DepthReturn, w
  <2>2. /\ p \in DOMAIN G /\ c \in Local(G, p)
    <3>1. p = w[L - 1] /\ p \in DOMAIN G
      <4> HIDE DEF w
      <4> QED
        BY <1>2, <1>10, EndOfList
    <3>2. L # 1 /\ L - 1 \in 1 .. (L - 1) /\ L - 1 + 1 = L
      BY <1>2, <1>10
    <3>3. p = s.path[L - 1]
      BY <1>2, <3>1, <3>2
    <3>4. s.path[L - 1 + 1] \in Local(G, s.path[L - 1])
      BY <1>3, <3>2 DEF CallsWait
    <3> QED
      BY <1>2, <3>1, <3>2, <3>3, <3>4
  <2> HIDE DEF p, w
  <2>3. b \in Nat
    BY <1>1, <1>4, <2>2
  <2> HIDE DEF b
  <2>4. /\ t.seen = s.seen /\ t.path = w /\ t.at = s.at /\ t.depth = s.depth
        /\ t.best = [s.best EXCEPT ![p] = b]
        /\ t = [seen |-> t.seen, path |-> t.path, at |-> t.at, best |-> t.best, depth |-> t.depth]
    BY <1>1, <2>1
  <2>5. t \in DescentStates(G)
    <3>1. t.best \in [DOMAIN G -> Nat]
      BY <1>1, <2>3, <2>4
    <3> QED
      BY <1>1, <1>2, <2>4, <3>1 DEF DescentStates
  <2>6. ASSUME NEW D \in [DOMAIN G -> Nat], Grows(G, D)
        PROVE  t.depth <= D[n] /\ \A m \in DOMAIN G : Returned(G, t, m) <= D[m]
    <3>1. s.depth <= D[n] /\ \A m \in DOMAIN G : Returned(G, s, m) <= D[m]
      BY <1>3, <2>6 DEF NeverTooDeep
    <3>2. Returned(G, t, p) <= D[p]
      <4>1. value <= D[c]
        BY <1>2, <3>1 DEF value
      <4>2. D[c] < D[p] /\ D[c] \in Nat /\ D[p] \in Nat
        BY <1>2, <2>2, <2>6 DEF Grows
      <4>3. G[p] # {}
        BY <2>2 DEF Local
      <4>4. Returned(G, t, p) = b + 1
        BY <1>1, <2>2, <2>4, <4>3 DEF Returned
      <4>5. s.best[p] + 1 <= D[p]
        BY <2>2, <3>1, <4>3 DEF Returned
      <4>6. s.best[p] \in Nat
        BY <1>1, <2>2
      <4> QED
        BY <1>4, <4>1, <4>2, <4>4, <4>5, <4>6 DEF b
    <3>3. ASSUME NEW m \in DOMAIN G, m # p PROVE Returned(G, t, m) = Returned(G, s, m)
      BY <1>1, <2>4, <3>3 DEF Returned
    <3> QED
      BY <2>4, <3>1, <3>2, <3>3
  <2>7. NeverTooDeep(G, n, t)
    BY <2>6 DEF NeverTooDeep
  <2> QED
    BY <1>3, <1>8, <2>4, <2>5, <2>7 DEF DescentInv, t, w
<1> QED
  BY <1>9, <1>10

\* The next dependency is looked at, and called for unless it was seen.
LEMMA DescentGoesDown ==
    ASSUME NEW G, IsOpen(G), NEW n \in DOMAIN G, NEW s, DescentInv(G, n, s), s.path # <<>>,
           NEW c, c = Last(s.path), s.at[c] # Cardinality(Local(G, c)),
           NEW t, t = DepthTurn(G, s)
    PROVE  /\ DescentInv(G, n, t)
           /\ t.at = [s.at EXCEPT ![c] = s.at[c] + 1]
           /\ \E d \in Local(G, c) : \/ t.seen = s.seen /\ t.path = s.path
                              \/ /\ d \notin s.seen
                                 /\ t.seen = s.seen \cup {d} /\ t.path = Append(s.path, d)
<1> DEFINE L == Len(s.path)
           d == Listing[Local(G, c)][s.at[c] + 1]
           next == [s EXCEPT !.at[c] = @ + 1]
<1>1. /\ s \in DescentStates(G) /\ s.path \in Seq(DOMAIN G) /\ s.at \in [DOMAIN G -> Nat]
      /\ s.best \in [DOMAIN G -> Nat] /\ s.depth \in Nat /\ s.seen \in SUBSET DOMAIN G
      /\ s = [seen |-> s.seen, path |-> s.path, at |-> s.at, best |-> s.best, depth |-> s.depth]
  BY DEF DescentInv, DescentStates
<1>2. L \in Nat /\ L >= 1 /\ c = s.path[L] /\ c \in DOMAIN G /\ L \in 1 .. L
  BY <1>1, EndOfList
<1>3. CallsWait(G, n, s) /\ NeverTooDeep(G, n, s) /\ \A m \in DOMAIN G : s.at[m] <= Cardinality(Local(G, m))
  BY DEF DescentInv
<1>4. t = IF d \in s.seen THEN next
          ELSE [next EXCEPT !.seen = @ \cup {d}, !.path = Append(@, d)]
  BY DEF DepthTurn, DepthBelow
<1>5. s.at[c] + 1 \in 1 .. Cardinality(Local(G, c)) /\ s.at[c] + 1 \in Nat
  <2>1. Cardinality(Local(G, c)) \in 0 .. Cardinality(DOMAIN G) /\ Cardinality(DOMAIN G) \in Nat
    BY <1>2, OpenMeans
  <2>2. s.at[c] \in Nat /\ s.at[c] <= Cardinality(Local(G, c))
    BY <1>1, <1>2, <1>3
  <2> QED
    BY <2>1, <2>2
<1>6. d \in Local(G, c) /\ d \in DOMAIN G
  <2>1. Local(G, c) \in SUBSET Task /\ Local(G, c) \in SUBSET DOMAIN G
    BY <1>2, OpenMeans
  <2> QED
    BY <1>5, <2>1, ListingMeans
<1> HIDE DEF d
<1>7. /\ next.seen = s.seen /\ next.path = s.path /\ next.best = s.best /\ next.depth = s.depth
      /\ next.at = [s.at EXCEPT ![c] = s.at[c] + 1] /\ next.at \in [DOMAIN G -> Nat]
      /\ next = [seen |-> next.seen, path |-> next.path, at |-> next.at, best |-> next.best,
                 depth |-> next.depth]
  <2> DEFINE a == [s.at EXCEPT ![c] = s.at[c] + 1]
  <2>1. a \in [DOMAIN G -> Nat]
    BY <1>1, <1>2, <1>5
  <2>2. next = [s EXCEPT !.at = a]
    BY <1>1
  <2> HIDE DEF next
  <2>3. next.at = a
    BY <1>1, <2>2
  <2>4. next.seen = s.seen /\ next.path = s.path /\ next.best = s.best /\ next.depth = s.depth
    BY <1>1, <2>2
  <2>5. next = [seen |-> next.seen, path |-> next.path, at |-> next.at, best |-> next.best,
                depth |-> next.depth]
    <3> HIDE DEF a
    <3> QED
      BY <1>1, <2>2
  <2> QED
    BY <2>1, <2>3, <2>4, <2>5
<1> HIDE DEF next
<1>8. /\ t.best = s.best /\ t.depth = s.depth /\ t.at = next.at
      /\ t = [seen |-> t.seen, path |-> t.path, at |-> t.at, best |-> t.best, depth |-> t.depth]
  BY <1>4, <1>7
<1>9. d \in s.seen => t.seen = s.seen /\ t.path = s.path
  BY <1>4, <1>7
<1>10. d \notin s.seen => t.seen = s.seen \cup {d} /\ t.path = Append(s.path, d)
  BY <1>4, <1>7
<1>11. \A m \in DOMAIN G : t.at[m] <= Cardinality(Local(G, m))
  <2>1. ASSUME NEW m \in DOMAIN G PROVE t.at[m] <= Cardinality(Local(G, m))
    <3>1. CASE m = c
      <4>1. t.at[c] = s.at[c] + 1
        BY <1>1, <1>2, <1>7, <1>8
      <4>2. Cardinality(Local(G, c)) \in Nat
        BY <1>2, OpenMeans
      <4> QED
        BY <1>5, <3>1, <4>1, <4>2
    <3>2. CASE m # c
      <4>1. t.at[m] = s.at[m]
        BY <1>1, <1>7, <1>8, <3>2
      <4> QED
        BY <1>3, <4>1
    <3> QED
      BY <3>1, <3>2
  <2> QED
    BY <2>1
<1>12. NeverTooDeep(G, n, t)
  <2>1. \A m \in DOMAIN G : Returned(G, t, m) = Returned(G, s, m)
    BY <1>8 DEF Returned
  <2> QED
    BY <1>3, <1>8, <2>1 DEF NeverTooDeep
<1>13. t.path \in Seq(DOMAIN G) /\ t.seen \in SUBSET DOMAIN G /\ CallsWait(G, n, t)
  <2>1. CASE d \in s.seen
    <3>1. t.seen = s.seen /\ t.path = s.path
      BY <1>9, <2>1
    <3> QED
      BY <1>1, <1>3, <3>1 DEF CallsWait
  <2>2. CASE d \notin s.seen
    <3>1. t.seen = s.seen \cup {d} /\ t.path = Append(s.path, d)
      BY <1>10, <2>2
    <3>2. /\ t.path \in Seq(DOMAIN G) /\ Len(t.path) = L + 1
          /\ \A i \in 1 .. L : t.path[i] = s.path[i]
          /\ t.path[L + 1] = d
      BY <1>1, <1>6, <3>1, PutAtEnd
    <3>3. /\ \A i \in 1 .. L : s.path[i] \in s.seen
          /\ \A i, j \in 1 .. L : s.path[i] = s.path[j] => i = j
          /\ \A i \in 1 .. (L - 1) : s.path[i + 1] \in Local(G, s.path[i])
          /\ s.path[1] = n
      BY <1>3 DEF CallsWait, NoRepeats
    <3> HIDE DEF L
    <3>4. /\ \A i \in 1 .. (L + 1) : i \in 1 .. L \/ i = L + 1
          /\ \A i \in 1 .. L : (i \in 1 .. (L - 1) /\ i + 1 \in 1 .. L) \/ i = L
          /\ 1 \in 1 .. L /\ L + 1 - 1 = L
      BY <1>2
    <3>5. \A i \in 1 .. (L + 1) : t.path[i] \in t.seen
      BY <3>1, <3>2, <3>3, <3>4
    <3>6. \A i, j \in 1 .. (L + 1) : t.path[i] = t.path[j] => i = j
      <4>1. \A i \in 1 .. L : t.path[i] # t.path[L + 1]
        BY <2>2, <3>2, <3>3
      <4>2. \A i, j \in 1 .. L : t.path[i] = t.path[j] => i = j
        BY <3>2, <3>3
      <4> QED
        BY <3>4, <4>1, <4>2
    <3>7. \A i \in 1 .. (L + 1 - 1) : t.path[i + 1] \in Local(G, t.path[i])
      <4>1. ASSUME NEW i \in 1 .. L PROVE t.path[i + 1] \in Local(G, t.path[i])
        <5>1. CASE i = L
          BY <1>2, <1>6, <3>2, <5>1
        <5>2. CASE i # L
          BY <3>2, <3>3, <3>4, <5>2
        <5> QED
          BY <5>1, <5>2
      <4> QED
        BY <3>4, <4>1
    <3>8. t.path[1] = n
      BY <3>2, <3>3, <3>4
    <3>9. t.seen \in SUBSET DOMAIN G
      BY <1>1, <1>6, <3>1
    <3>10. NoRepeats(t.path)
      BY <3>2, <3>6 DEF NoRepeats
    <3>11. /\ \A i \in 1 .. Len(t.path) : t.path[i] \in t.seen
           /\ \A i \in 1 .. (Len(t.path) - 1) : t.path[i + 1] \in Local(G, t.path[i])
      <4>1. Len(t.path) - 1 = L + 1 - 1
        BY <1>2, <3>2
      <4>2. Len(t.path) = L + 1
        BY <3>2
      <4> QED
        BY ONLY <3>5, <3>7, <4>1, <4>2, Zenon
    <3>12. CallsWait(G, n, t)
      BY <3>8, <3>10, <3>11, Zenon DEF CallsWait
    <3> QED
      BY <3>2, <3>9, <3>12
  <2> QED
    BY <2>1, <2>2
<1>14. t \in DescentStates(G)
  BY <1>1, <1>7, <1>8, <1>13 DEF DescentStates
<1>15. DescentInv(G, n, t)
  BY <1>11, <1>12, <1>13, <1>14 DEF DescentInv
<1> QED
  BY <1>6, <1>7, <1>8, <1>9, <1>10, <1>15

LEMMA DescentGoesOn ==
    ASSUME NEW G, IsOpen(G), NEW n \in DOMAIN G, NEW s, DescentInv(G, n, s), s.path # <<>>
    PROVE  /\ DescentInv(G, n, DepthTurn(G, s))
           /\ DescentMarks(G, s) \subseteq DescentMarks(G, DepthTurn(G, s))
           /\ DescentMarks(G, s) # DescentMarks(G, DepthTurn(G, s))
<1> DEFINE c == Last(s.path)
           t == DepthTurn(G, s)
           U == (DOMAIN G) \X (0 .. Cardinality(DOMAIN G))
<1>1. /\ s.path \in Seq(DOMAIN G) /\ s.at \in [DOMAIN G -> Nat] /\ s.seen \in SUBSET DOMAIN G
  BY DEF DescentInv, DescentStates
<1>2. c \in DOMAIN G /\ c \in Range(s.path) /\ c \in s.seen /\ NoRepeats(s.path)
  <2>1. Len(s.path) \in 1 .. Len(s.path) /\ c = s.path[Len(s.path)] /\ c \in DOMAIN G
    BY <1>1, EndOfList
  <2> HIDE DEF c
  <2> QED
    BY <1>1, <2>1, RangeMeans DEF DescentInv, CallsWait
<1>3. /\ \A p \in U : p \in DescentMarks(G, s) <=>
             IF p[2] = 0 THEN p[1] \in s.seen /\ p[1] \notin Range(s.path)
             ELSE p[2] <= s.at[p[1]]
      /\ \A p \in U : p \in DescentMarks(G, t) <=>
             IF p[2] = 0 THEN p[1] \in t.seen /\ p[1] \notin Range(t.path)
             ELSE p[2] <= t.at[p[1]]
      /\ DescentMarks(G, s) \subseteq U
  BY DEF DescentMarks
<1>4. CASE s.at[c] = Cardinality(Local(G, c))
  <2>1. DescentInv(G, n, t) /\ t.seen = s.seen /\ t.at = s.at /\ t.path = Front(s.path)
    BY <1>4, DescentReturns
  <2>2. \A x : x \in Range(s.path) <=> x \in Range(t.path) \/ x = c
    BY <1>1, <1>2, <2>1, TakeFromEnd
  <2>3. c \notin Range(t.path)
    BY <1>1, <1>2, <2>1, TakeFromEnd
  <2> DEFINE q == <<c, 0>>
  <2>4. q \in U /\ q[1] = c /\ q[2] = 0
    BY <1>2, OpenMeans
  <2> HIDE DEF t, c, U, q
  <2>5. q \in DescentMarks(G, t) /\ q \notin DescentMarks(G, s)
    BY <1>2, <1>3, <2>1, <2>3, <2>4
  <2>6. \A p \in DescentMarks(G, s) : p \in DescentMarks(G, t)
    BY <1>3, <2>1, <2>2
  <2> QED
    BY <2>1, <2>5, <2>6 DEF t
<1>5. CASE s.at[c] # Cardinality(Local(G, c))
  <2>1. /\ DescentInv(G, n, t)
        /\ t.at = [s.at EXCEPT ![c] = s.at[c] + 1]
        /\ \E d \in Local(G, c) : \/ t.seen = s.seen /\ t.path = s.path
                           \/ /\ d \notin s.seen
                              /\ t.seen = s.seen \cup {d} /\ t.path = Append(s.path, d)
    <3>1. c = Last(s.path) /\ t = DepthTurn(G, s)
      OBVIOUS
    <3> HIDE DEF c, t
    <3> QED
      BY <1>5, <3>1, DescentGoesDown
  <2> HIDE DEF t
  <2>2. \A x : x \in s.seen /\ x \notin Range(s.path) => x \in t.seen /\ x \notin Range(t.path)
    <3>1. CASE t.seen = s.seen /\ t.path = s.path
      BY <3>1
    <3>2. ASSUME NEW d \in Local(G, c), d \notin s.seen, t.seen = s.seen \cup {d}, t.path = Append(s.path, d)
          PROVE  \A x : x \in s.seen /\ x \notin Range(s.path) => x \in t.seen /\ x \notin Range(t.path)
      <4>1. d \in DOMAIN G
        BY <1>2, OpenMeans
      <4>2. \A x : x \in Range(t.path) <=> x \in Range(s.path) \/ x = d
        BY <1>1, <3>2, <4>1, PutAtEnd
      <4> QED
        BY <3>2, <4>2
    <3> QED
      BY <2>1, <3>1, <3>2
  <2>3. /\ s.at[c] \in Nat /\ t.at[c] = s.at[c] + 1
        /\ \A m \in DOMAIN G : m # c => t.at[m] = s.at[m]
        /\ \A m \in DOMAIN G : s.at[m] \in Nat
    BY <1>1, <1>2, <2>1
  <2>4. s.at[c] + 1 \in 0 .. Cardinality(DOMAIN G)
    <3>1. s.at[c] <= Cardinality(Local(G, c))
      BY <1>2 DEF DescentInv
    <3>2. Cardinality(Local(G, c)) \in 0 .. Cardinality(DOMAIN G) /\ Cardinality(DOMAIN G) \in Nat
      BY <1>2, OpenMeans
    <3> HIDE DEF c
    <3> QED
      BY <1>5, <2>3, <3>1, <3>2
  <2> DEFINE q == <<c, s.at[c] + 1>>
  <2>5. q \in U /\ q[1] = c /\ q[2] = s.at[c] + 1 /\ q[2] # 0
    BY <1>2, <2>3, <2>4
  <2>6. \A p \in U : p[1] \in DOMAIN G /\ p[2] \in Nat
    BY <1>2, OpenMeans
  <2> HIDE DEF c, U, q
  <2>7. q \in DescentMarks(G, t) /\ q \notin DescentMarks(G, s)
    BY <1>3, <2>3, <2>5
  <2>8. ASSUME NEW p \in DescentMarks(G, s) PROVE p \in DescentMarks(G, t)
    <3>1. p \in U /\ p[1] \in DOMAIN G /\ p[2] \in Nat
      BY <1>3, <2>6
    <3>2. CASE p[2] = 0
      BY <1>3, <2>2, <3>1, <3>2
    <3>3. CASE p[2] # 0
      <4>1. p[2] <= s.at[p[1]]
        BY <1>3, <3>1, <3>3
      <4>2. s.at[p[1]] <= t.at[p[1]] /\ s.at[p[1]] \in Nat /\ t.at[p[1]] \in Nat
        BY <2>3, <3>1
      <4>3. p[2] <= t.at[p[1]]
        BY <3>1, <4>1, <4>2
      <4> QED
        BY <1>3, <3>1, <3>3, <4>3
    <3> QED
      BY <3>2, <3>3
  <2> QED
    BY <2>1, <2>7, <2>8 DEF t
<1> QED
  BY <1>4, <1>5

LEMMA DescentRuns ==
    ASSUME NEW G, IsOpen(G), NEW n \in DOMAIN G
    PROVE  /\ DescentInv(G, n, Descent(G, n)[Turns(G)])
           /\ Descent(G, n)[Turns(G)].path = <<>>
<1> DEFINE T == Turns(G)
           k == Cardinality(DOMAIN G)
           Vals == {s \in DescentStates(G) : DescentInv(G, n, s)}
           first == DepthStart(G, n)
           Turn == [s \in Vals |-> DepthTurn(G, s)]
           Done == {s \in Vals : s.path = <<>>}
           U == (DOMAIN G) \X (0 .. k)
           Marks == [s \in Vals |-> DescentMarks(G, s)]
<1>1. T \in Nat /\ k \in Nat /\ IsFiniteSet(DOMAIN G)
  BY OpenMeans
<1>2. ASSUME NEW s \in Vals
      PROVE  /\ DepthTurn(G, s) \in Vals
             /\ s.path = <<>> => DepthTurn(G, s) = s
             /\ s.path # <<>> => /\ DescentMarks(G, s) \subseteq DescentMarks(G, DepthTurn(G, s))
                                 /\ DescentMarks(G, s) # DescentMarks(G, DepthTurn(G, s))
  <2>1. CASE s.path = <<>>
    BY <2>1 DEF DepthTurn
  <2>2. CASE s.path # <<>>
    BY <2>2, DescentGoesOn DEF DescentInv
  <2> QED
    BY <2>1, <2>2
<1>3. first \in Vals
  BY DescentStartsRight DEF DescentInv
<1>4. IsFiniteSet(U) /\ Cardinality(U) <= T
  <2>1. IsFiniteSet(0 .. k) /\ Cardinality(0 .. k) = k + 1
    <3> HIDE DEF k
    <3>1. 0 \in Int /\ k \in Int /\ ~(0 > k)
      BY <1>1
    <3> QED
      BY <1>1, <3>1, FS_Interval
  <2>2. IsFiniteSet(U) /\ Cardinality(U) = k * (k + 1)
    <3>1. IsFiniteSet(U) /\ Cardinality(U) = Cardinality(DOMAIN G) * Cardinality(0 .. k)
      <4> DEFINE J == 0 .. k
      <4> HIDE DEF J
      <4> QED
        BY <1>1, <2>1, FS_Product DEF J
    <3> QED
      BY <2>1, <3>1
  <2>3. T = (k + 1) * (k + 1)
    BY DEF Turns
  <2>4. k * (k + 1) <= (k + 1) * (k + 1)
    <3> HIDE DEF k
    <3> QED
      BY <1>1
  <2> QED
    BY <2>2, <2>3, <2>4
<1>5. Marks \in [Vals -> SUBSET U]
  BY DEF DescentMarks
<1> HIDE DEF Vals, T, U
<1>6. TurnsOver(T, Vals, first, Turn, Done)
  BY <1>1, <1>2, <1>3 DEF TurnsOver
<1>7. MarksUp(T, Vals, Turn, Done, U, Marks)
  BY <1>2, <1>4, <1>5 DEF MarksUp
<1>8. Runs(T, Vals, first, Turn, Done)
  <2> HIDE DEF first, Turn, Done, Marks
  <2> QED
    BY <1>6, <1>7, MarksRunOut
<1> DEFINE Is(g) == g = [i \in 0 .. T |-> IF i = 0 THEN first ELSE DepthTurn(G, g[i - 1])]
<1>9. \E g : Is(g)
  <2>1. PICK g \in [0 .. T -> Vals] :
            g = [i \in 0 .. T |-> IF i = 0 THEN first ELSE Turn[g[i - 1]]]
    BY <1>8 DEF Runs
  <2>2. \A i \in 0 .. T : i = 0 \/ i - 1 \in 0 .. T
    BY <1>1
  <2>3. \A i \in 0 .. T : i # 0 => Turn[g[i - 1]] = DepthTurn(G, g[i - 1])
    BY <2>2
  <2> HIDE DEF first, Turn
  <2>4. Is(g)
    BY <2>1, <2>3
  <2> QED
    BY <2>4
<1> DEFINE h == Descent(G, n)
<1>10. h = [i \in 0 .. T |-> IF i = 0 THEN first ELSE DepthTurn(G, h[i - 1])]
  BY <1>9 DEF Descent, T
<1> HIDE DEF h, first
<1>11. h[T] \in Done
  <2>1. h[0] = first
    BY <1>1, <1>10
  <2>2. \A i \in 1 .. T : h[i - 1] \in Vals => h[i] = Turn[h[i - 1]]
    BY <1>1, <1>10
  <2> HIDE DEF Turn, Done
  <2> QED
    BY <1>8, <2>1, <2>2 DEF Runs
<1> QED
  BY <1>11 DEF h, Vals, T

\* The depth the macro works out is never more than a depth that grows along
\* the edges, and one more than the depth worked out within the package.
LEMMA DeclaredDepthIsBounded ==
    ASSUME NEW T, IsOpen(T), ~HasCycle(Within(T)), NEW n \in DOMAIN T
    PROVE  /\ TaskDepth(T, n) \in Nat /\ CalculateDepths(Within(T))[n] \in Nat
           /\ TaskDepth(T, n) <= CalculateDepths(Within(T))[n] + 1
           /\ T = Within(T) => TaskDepth(T, n) <= CalculateDepths(Within(T))[n]
<1> DEFINE W == Within(T)
           D == CalculateDepths(W)
           E == [m \in DOMAIN T |-> D[m] + 1]
           s == Descent(T, n)[Turns(T)]
<1>1. /\ IsGraph(W) /\ ~HasCycle(W) /\ DOMAIN W = DOMAIN T
      /\ \A m \in DOMAIN T : W[m] = Local(T, m) /\ Local(T, m) \in SUBSET DOMAIN T
  BY OpenMeans
<1> HIDE DEF W
<1>2. D \in [DOMAIN T -> Nat] /\ \A m \in DOMAIN T : D[m] = LevelOf(W, D, m)
  BY <1>1, DepthsAreRight
<1>3. TaskDepth(T, n) = s.depth
  BY DEF TaskDepth
<1>4. DescentInv(T, n, s)
  BY DescentRuns
<1> HIDE DEF D, s
<1>5. \A m \in DOMAIN T : \A d \in Local(T, m) : D[d] < D[m] /\ D[d] \in Nat /\ D[m] \in Nat
  <2>1. ASSUME NEW m \in DOMAIN T, NEW d \in Local(T, m) PROVE D[d] < D[m]
    <3>1. D[d] < LevelOf(W, D, m)
      BY <1>1, <1>2, LevelMeans
    <3> QED
      BY <1>2, <3>1
  <2> QED
    BY <1>1, <1>2, <2>1
<1>6. s.depth \in Nat /\ \A F \in [DOMAIN T -> Nat] : Grows(T, F) => s.depth <= F[n]
  BY <1>4 DEF DescentInv, DescentStates, NeverTooDeep
<1>7. s.depth <= D[n] + 1
  <2>1. E \in [DOMAIN T -> Nat] /\ \A m \in DOMAIN T : E[m] = D[m] + 1 /\ D[m] \in Nat
    BY <1>2
  <2> HIDE DEF E
  <2>2. \A m \in DOMAIN T : (\A d \in Local(T, m) : E[d] < E[m]) /\ E[m] >= 1
    BY <1>1, <1>5, <2>1
  <2>3. Grows(T, E)
    BY <2>1, <2>2 DEF Grows
  <2> QED
    BY <1>6, <2>1, <2>3
<1>8. ASSUME T = W PROVE s.depth <= D[n]
  <2>1. ASSUME NEW m \in DOMAIN T, T[m] # {} PROVE D[m] >= 1
    <3>1. PICK d : d \in Local(T, m)
      BY <1>1, <1>8, <2>1
    <3> QED
      BY <1>5, <3>1
  <2>2. Grows(T, D)
    BY <1>2, <1>5, <2>1 DEF Grows
  <2> QED
    BY <1>2, <1>6, <2>2
<1> QED
  BY <1>2, <1>3, <1>6, <1>7, <1>8 DEF D, W

\* Nodes at the same depth cannot reach each other.
LEMMA SameDepthIsParallel ==
    ASSUME NEW G, IsGraph(G), ~HasCycle(G), NEW m \in DOMAIN G, NEW n \in DOMAIN G, m # n,
           CalculateDepths(G)[m] = CalculateDepths(G)[n]
    PROVE  ~HasPath(G, m, n)
<1> DEFINE D == CalculateDepths(G)
           C == {m} \cup {x \in DOMAIN G : D[x] < D[m]}
<1>1. D \in [DOMAIN G -> Nat] /\ \A x \in DOMAIN G : D[x] = LevelOf(G, D, x)
  BY DepthsAreRight
<1>2. D[m] = D[n]
  OBVIOUS
<1> HIDE DEF D
<1>3. \A x \in DOMAIN G : \A d \in G[x] : D[d] < D[x] /\ d \in DOMAIN G
  <2>1. ASSUME NEW x \in DOMAIN G, NEW d \in G[x] PROVE D[d] < D[x]
    <3>1. D[d] < LevelOf(G, D, x)
      BY <1>1, LevelMeans
    <3> QED
      BY <1>1, <3>1
  <2> QED
    BY <2>1 DEF IsGraph
<1>4. Closed(C, G)
  <2>1. ASSUME NEW x \in C, NEW d \in G[x] PROVE d \in C
    <3>1. x \in DOMAIN G
      OBVIOUS
    <3>2. D[d] < D[x] /\ d \in DOMAIN G
      BY <1>3, <3>1
    <3>3. D[x] \in Nat /\ D[d] \in Nat /\ D[m] \in Nat
      BY <1>1, <3>1, <3>2
    <3>4. x = m \/ D[x] < D[m]
      OBVIOUS
    <3>5. D[d] < D[m]
      BY <3>2, <3>3, <3>4
    <3> QED
      BY <3>2, <3>5
  <2> HIDE DEF C
  <2> QED
    BY <2>1 DEF Closed
<1>5. n \notin C /\ m \in C /\ C \in SUBSET DOMAIN G
  BY <1>1, <1>2
<1> HIDE DEF C
<1> QED
  BY <1>4, <1>5, PathsFound DEF PathsAreFound

LEMMA GroupsFound ==
    ASSUME NEW G, IsGraph(G), ~HasCycle(G)
    PROVE  GroupsAreParallel(G)
<1> DEFINE D == CalculateDepths(G)
<1>1. ParallelGroups(G) = {{n \in DOMAIN G : D[n] = k} : k \in {D[n] : n \in DOMAIN G}}
  BY DEF ParallelGroups
<1>2. ASSUME NEW group \in ParallelGroups(G), NEW m \in group, NEW n \in group, m # n
      PROVE  CanRunParallel(G, m, n)
  <2>1. m \in DOMAIN G /\ n \in DOMAIN G /\ D[m] = D[n]
    <3> HIDE DEF D
    <3> QED
      BY <1>1
  <2> QED
    BY <1>2, <2>1, SameDepthIsParallel DEF CanRunParallel
<1> QED
  BY <1>2 DEF GroupsAreParallel

\* There is a group for every depth up to the largest.
LEMMA GroupsHaveNoGap ==
    ASSUME NEW G, IsGraph(G), ~HasCycle(G), DOMAIN G # {}
    PROVE  \E top \in Nat : /\ Cardinality(ParallelGroups(G)) = top + 1
                            /\ \A n \in DOMAIN G : CalculateDepths(G)[n] <= top
<1> DEFINE D == CalculateDepths(G)
           V == {D[n] : n \in DOMAIN G}
           Group(k) == {n \in DOMAIN G : D[n] = k}
           groups == {Group(k) : k \in V}
           top == Largest(V)
<1>1. D \in [DOMAIN G -> Nat] /\ \A x \in DOMAIN G : D[x] = LevelOf(G, D, x)
  BY DepthsAreRight
<1>2. IsFiniteSet(DOMAIN G)
  BY GraphMeans
<1>3. ParallelGroups(G) = groups
  BY DEF ParallelGroups
<1> HIDE DEF D
<1>6. top \in Nat /\ top \in V /\ \A n \in DOMAIN G : D[n] <= top
  <2> DEFINE d_ == [n \in DOMAIN G |-> D[n]]
  <2>1. d_ \in Surjection(DOMAIN G, V)
    BY DEF Surjection
  <2>2. IsFiniteSet(V)
    <3> HIDE DEF V, d_
    <3> QED
      BY <1>2, <2>1, FS_Surjection
  <2>3. V \in SUBSET Nat /\ V # {} /\ \A n \in DOMAIN G : D[n] \in V
    BY <1>1
  <2> HIDE DEF V
  <2>4. top \in V /\ \A y \in V : y <= top
    BY <2>2, <2>3, LargestMeans
  <2> HIDE DEF top
  <2> QED
    BY <2>3, <2>4
<1> HIDE DEF top
<1>7. V = 0 .. top
  <2> DEFINE S == {i \in 0 .. top : top - i \in V}
  <2>1. 0 \in S
    BY <1>6
  <2>2. ASSUME NEW i \in 1 .. top, i - 1 \in S PROVE i \in S
    <3>1. top - i \in Nat /\ top - (i - 1) = (top - i) + 1 /\ i \in 0 .. top
      BY <1>6
    <3>2. PICK n \in DOMAIN G : D[n] = (top - i) + 1
      BY <2>2, <3>1
    <3>3. LevelOf(G, D, n) = (top - i) + 1
      BY <1>1, <3>2
    <3>4. PICK d \in G[n] : D[d] = top - i
      BY <1>1, <3>1, <3>3, LevelMeans
    <3>5. d \in DOMAIN G
      BY DEF IsGraph
    <3>6. top - i \in V
      BY <3>4, <3>5
    <3> QED
      BY <3>1, <3>6
  <2>3. S = 0 .. top
    <3>1. S \in SUBSET (0 .. top)
      OBVIOUS
    <3> HIDE DEF S, V
    <3> QED
      BY <1>6, <2>1, <2>2, <3>1, TurnByTurn
  <2>4. ASSUME NEW j \in 0 .. top PROVE j \in V
    <3>1. top - j \in 0 .. top /\ top - (top - j) = j
      BY <1>6
    <3> HIDE DEF V
    <3> QED
      BY <2>3, <3>1
  <2>5. \A j \in V : j \in 0 .. top
    BY <1>1, <1>6
  <2> HIDE DEF V
  <2> QED
    BY <2>4, <2>5
<1>8. IsFiniteSet(V) /\ Cardinality(V) = top + 1
  <2>1. 0 \in Int /\ top \in Int /\ ~(0 > top)
    BY <1>6
  <2>2. IsFiniteSet(0 .. top) /\ Cardinality(0 .. top) = top - 0 + 1
    BY <2>1, FS_Interval
  <2> HIDE DEF V
  <2> QED
    BY <1>6, <1>7, <2>2
<1>9. \A j, k \in V : Group(j) = Group(k) => j = k
  OBVIOUS
<1>10. Cardinality(groups) = Cardinality(V)
  <2> DEFINE f_ == [k \in V |-> Group(k)]
  <2>1. f_ \in Surjection(V, groups)
    <3> HIDE DEF V, Group
    <3> QED
      BY DEF Surjection
  <2>2. f_ \in Injection(V, groups)
    <3> HIDE DEF V, Group
    <3> QED
      BY <1>9 DEF Injection, IsInjective
  <2> HIDE DEF V, groups, f_
  <2> QED
    BY <1>8, <2>1, <2>2, FS_Surjection
<1> HIDE DEF groups, V
<1> QED
  BY <1>3, <1>6, <1>8, <1>10 DEF D

LEMMA LevelsFound ==
    ASSUME NEW T, IsOpen(T), ~HasCycle(Within(T)), DOMAIN T # {}
    PROVE  LevelsAreDeclared(T)
<1> DEFINE G == Within(T)
           W == {0} \cup {TaskDepth(T, n) : n \in DOMAIN T}
           most == Largest(W)
<1>1. IsGraph(G) /\ DOMAIN G = DOMAIN T /\ IsFiniteSet(DOMAIN T)
  BY OpenMeans
<1>2. PICK top \in Nat : /\ Cardinality(ParallelGroups(G)) = top + 1
                         /\ \A n \in DOMAIN T : CalculateDepths(G)[n] <= top
  <2> HIDE DEF G
  <2>1. ~HasCycle(G)
    BY DEF G
  <2> QED
    BY <1>1, <2>1, GroupsHaveNoGap
<1>3. \A n \in DOMAIN T : /\ TaskDepth(T, n) \in Nat /\ CalculateDepths(G)[n] \in Nat
                          /\ TaskDepth(T, n) <= CalculateDepths(G)[n] + 1
                          /\ T = G => TaskDepth(T, n) <= CalculateDepths(G)[n]
  BY DeclaredDepthIsBounded
<1>4. most \in W /\ \A y \in W : y <= most
  <2>1. W \in SUBSET Nat /\ W # {}
    BY <1>3
  <2>2. IsFiniteSet(W)
    <3> DEFINE R == {TaskDepth(T, n) : n \in DOMAIN T}
               r == [n \in DOMAIN T |-> TaskDepth(T, n)]
    <3>1. r \in Surjection(DOMAIN T, R)
      BY DEF Surjection
    <3>2. IsFiniteSet(R)
      <4> HIDE DEF R, r
      <4> QED
        BY <1>1, <3>1, FS_Surjection
    <3>3. W = R \cup {0}
      OBVIOUS
    <3> HIDE DEF R, W
    <3> QED
      BY <3>2, <3>3, FS_AddElement
  <2> HIDE DEF W
  <2> QED
    BY <2>1, <2>2, LargestMeans
<1> HIDE DEF G
<1>5. ASSUME NEW w \in W PROVE w \in Nat /\ w <= top + 1 /\ (T = G => w <= top)
  <2>1. CASE w = 0
    BY <2>1
  <2>2. ASSUME NEW n \in DOMAIN T, w = TaskDepth(T, n)
        PROVE  w \in Nat /\ w <= top + 1 /\ (T = G => w <= top)
    <3> DEFINE d == CalculateDepths(G)[n]
    <3>1. w \in Nat /\ d \in Nat /\ d <= top /\ w <= d + 1 /\ (T = G => w <= d)
      BY <1>2, <1>3, <2>2
    <3> HIDE DEF d
    <3> QED
      BY <3>1
  <2> QED
    BY <2>1, <2>2
<1>6. DeclaredLevels(T) = most + 1
  BY DEF DeclaredLevels
<1> HIDE DEF most, W
<1>7. most \in Nat /\ most <= top + 1 /\ (T = G => most <= top)
  BY <1>4, <1>5
<1>8. DeclaredLevels(T) \in 1 .. (IF T = G THEN top + 1 ELSE top + 1 + 1)
  BY <1>6, <1>7
<1>9. \A n \in DOMAIN T : Descent(T, n)[Turns(T)].path = <<>>
  BY DescentRuns
<1> QED
  BY <1>2, <1>8, <1>9 DEF LevelsAreDeclared, G

-----------------------------------------------------------------------------
(***************************************************************************)
(* What the searches and orderings find, in the graphs of a workflow.      *)
(***************************************************************************)

\* In every finite graph and in whatever order a list or a hash map is gone
\* through: the loops of find_cycle, topological_sort, has_path and
\* calculate_task_depth end, a cycle is found exactly when there is one, the
\* order is an order, the paths are those there are, and the groups of
\* get_parallel_groups can run in parallel.
THEOREM EveryGraphIsFoundRight ==
    ASSUME NEW G, IsGraph(G), DOMAIN G # {}
    PROVE  FoundAsMeant(G)
<1>1. LoopsEnd(G)
  <2>1. SearchEnds(G, Search(G)[Turns(G)]) /\ Sorting(G)[Turns(G)].queue = <<>>
    BY SearchRuns, KahnRuns
  <2>2. \A m, n \in DOMAIN G : PathSearch(G, m, n)[Turns(G)].found
                                 \/ PathSearch(G, m, n)[Turns(G)].stack = <<>>
    BY PathRuns
  <2> QED
    BY <2>1, <2>2 DEF LoopsEnd
<1>2. CyclesAreFound(G) /\ OrderIsFound(G) /\ PathsAreFound(G)
  BY CyclesFound, OrderFoundAtAll, PathsFound
<1>3. ~HasCycle(G) => GroupsAreParallel(G) /\ LevelsAreDeclared(G)
  <2>1. IsOpen(G)
    BY DEF IsGraph, IsOpen
  <2>2. Within(G) = G
    BY WithinIsItself
  <2> QED
    BY <2>1, <2>2, GroupsFound, LevelsFound
<1> QED
  BY <1>1, <1>2, <1>3 DEF FoundAsMeant

\* What has_path finds is what collect_dependencies collects.
LEMMA PathsAreCollected ==
    ASSUME IsGraph(tasks), NEW m \in DOMAIN tasks, NEW n \in DOMAIN tasks
    PROVE  HasPath(tasks, m, n) <=> n \in Collected({m})
<1>1. HasPath(tasks, m, n) <=>
          \A C \in SUBSET DOMAIN tasks : m \in C /\ Closed(C, tasks) => n \in C
  BY PathsFound DEF PathsAreFound
<1>2. DOMAIN tasks \in SUBSET Task /\ \A u \in DOMAIN tasks : tasks[u] \in SUBSET DOMAIN tasks
  BY DEF IsGraph
<1>3. ASSUME HasPath(tasks, m, n), NEW C \in SUBSET Task,
             {m} \subseteq C, \A u \in C \cap DOMAIN tasks : tasks[u] \subseteq C
      PROVE  n \in C
  <2> DEFINE B == C \cap DOMAIN tasks
  <2>1. m \in B /\ B \in SUBSET DOMAIN tasks
    BY <1>3
  <2>2. Closed(B, tasks)
    BY <1>2, <1>3 DEF Closed
  <2> HIDE DEF B
  <2>3. n \in B
    BY <1>1, <1>3, <2>1, <2>2
  <2> QED
    BY <2>3 DEF B
<1>4. ASSUME n \in Collected({m}), NEW C \in SUBSET DOMAIN tasks, m \in C, Closed(C, tasks)
      PROVE  n \in C
  <2>1. C \in SUBSET Task /\ {m} \subseteq C /\ \A u \in C \cap DOMAIN tasks : tasks[u] \subseteq C
    BY <1>2, <1>4 DEF Closed
  <2> QED
    BY <1>4, <2>1 DEF Collected
<1>5. n \in Task
  BY <1>2
<1> QED
  BY <1>1, <1>3, <1>4, <1>5 DEF Collected

LEMMA SearchesAgreeNow == TypeOK => GraphAlgorithmsAgree
<1> SUFFICES ASSUME TypeOK PROVE GraphAlgorithmsAgree
  OBVIOUS
<1> DEFINE A == [n \in nodes |-> edges[n] \cap nodes]
<1>1. IsGraph(A)
  BY DEF TypeOK, IsGraph
<1>2. IsGraph(Within(tasks))
  BY DEF TypeOK, IsGraph, Within
<1>3. \A G \in {A, Within(tasks)} : DOMAIN G # {} => FoundAsMeant(G)
  <2> HIDE DEF A
  <2> QED
    BY <1>1, <1>2, EveryGraphIsFoundRight
<1>5. DOMAIN tasks # {} /\ ~HasCycle(Within(tasks)) => LevelsAreDeclared(tasks)
  <2>1. IsOpen(tasks)
    BY DEF TypeOK, IsOpen
  <2> QED
    BY <2>1, LevelsFound
<1>4. ASSUME tasks = Within(tasks)
      PROVE  /\ RegistryRejects(tasks) <=> HasCycle(tasks)
             /\ \A m, n \in DOMAIN tasks : HasPath(tasks, m, n) <=> n \in Collected({m})
  <2>1. IsGraph(tasks)
    BY <1>2, <1>4
  <2>2. FindCycle(Within(tasks)) # <<>> <=> HasCycle(tasks)
    BY <2>1, CyclesFound DEF CyclesAreFound, MacroFindsCycle
  <2>3. RegistryRejects(tasks) <=> HasCycle(tasks)
    BY <1>4, <2>2 DEF RegistryRejects
  <2> QED
    BY <2>1, <2>3, PathsAreCollected
<1> QED
  BY <1>3, <1>4, <1>5 DEF GraphAlgorithmsAgree

\* However a workflow is built and changed, the searches and the orderings
\* the code runs over its graph and over its tasks find what is there, and
\* find_cycle of the registry, of the graph and of the macros agree.
THEOREM SearchesAgree == Spec => []GraphAlgorithmsAgree
<1>1. DInv => GraphAlgorithmsAgree
  BY SearchesAgreeNow DEF DInv
<1> QED
  BY <1>1, DInvHolds, PTL

-----------------------------------------------------------------------------
(***************************************************************************)
(* Workflows written with the macros.                                      *)
(***************************************************************************)

\* What the compiler and the program hold; a task keeps the rule its attribute
\* gives, and it is one that is read.
MacroTypeOK ==
    /\ DOMAIN crate \subseteq Name
    /\ \A f \in DOMAIN crate :
        /\ crate[f].id \in Name /\ crate[f].deps \subseteq Name
        /\ crate[f].written \in Written
        /\ crate[f].trigger_rules = ParseRule(crate[f].written)
        /\ crate[f].trigger_rules # Refused
    /\ lists \in [Flow -> SUBSET DOMAIN crate]
    /\ DOMAIN bodies = Flow \X Name
    /\ skips \in 0..MaxSkips

\* As long as the compiler's registry was never locked it knows every task of
\* the crate, ...
CrateIsKnown ==
    skips = 0 =>
        \A f \in DOMAIN crate :
            crate[f].id \in DOMAIN known /\ known[crate[f].id] = crate[f].deps

\* ... and no functions of a list that bear the ids of their tasks depend on
\* each other in a circle.
ListsGoStraight ==
    skips = 0 =>
        \A w \in Flow : \A S \in SUBSET lists[w] :
            (\A f \in S : crate[f].id = f /\ crate[f].deps \cap S # {}) => S = {}

\* Once the expression of a workflow has been evaluated, each name its
\* functions are registered by has one of them.
BodiesAreListed ==
    \A w \in evaluated : running /\ w \in Flow /\
        \A f \in lists[w] : \E g \in lists[w] :
            TaskName(g) = TaskName(f) /\ bodies[<<w, TaskName(f)>>] = g

MInv == MacroTypeOK /\ CrateIsKnown /\ ListsGoStraight /\ BodiesAreListed

LEMMA MInvHoldsFirst == MacroInit => MInv
<1> SUFFICES ASSUME MacroInit PROVE MInv
  OBVIOUS
<1> USE DEF MacroInit
<1>1. DOMAIN crate = {}
  OBVIOUS
<1>2. MacroTypeOK
  BY <1>1, MacroAssumption DEF MacroTypeOK
<1>3. CrateIsKnown /\ ListsGoStraight
  BY <1>1 DEF CrateIsKnown, ListsGoStraight
<1>4. BodiesAreListed
  BY DEF BodiesAreListed
<1> QED
  BY <1>2, <1>3, <1>4 DEF MInv

LEMMA ExpandTaskKeepsMInv ==
    ASSUME MInv, NEW f \in Name, NEW a \in TaskAttributes, ExpandTask(f, a)
    PROVE  MInv'
<1> USE DEF MInv, ExpandTask
<1>1. /\ a.id \in Name /\ a.deps \subseteq Name /\ a.rule \in Written
      /\ ParseRule(a.rule) # Refused
  BY DEF TaskAttributes
<1>2. /\ DOMAIN crate' = DOMAIN crate \cup {f}
      /\ crate'[f] = TaskImpl(a)
      /\ \A g \in DOMAIN crate : crate'[g] = crate[g]
  OBVIOUS
<1>3. /\ TaskImpl(a).id = a.id /\ TaskImpl(a).deps = a.deps
      /\ TaskImpl(a).written = a.rule
      /\ TaskImpl(a).trigger_rules = ParseRule(a.rule)
  BY DEF TaskImpl
<1>4. skips' \in 0..MaxSkips /\ (skips' = 0 => skips = 0 /\ Enter(a.id, a.deps))
  BY MacroAssumption DEF MacroTypeOK, Contended
<1>5. MacroTypeOK'
  <2>1. lists' \in [Flow -> SUBSET DOMAIN crate']
    BY <1>2 DEF MacroTypeOK
  <2>2. \A g \in DOMAIN crate' :
            /\ crate'[g].id \in Name /\ crate'[g].deps \subseteq Name
            /\ crate'[g].written \in Written
            /\ crate'[g].trigger_rules = ParseRule(crate'[g].written)
            /\ crate'[g].trigger_rules # Refused
    BY <1>1, <1>2, <1>3 DEF MacroTypeOK
  <2> QED
    BY <1>2, <1>4, <2>1, <2>2 DEF MacroTypeOK
<1>6. CrateIsKnown'
  <2> SUFFICES ASSUME skips' = 0, NEW g \in DOMAIN crate'
               PROVE  crate'[g].id \in DOMAIN known' /\ known'[crate'[g].id] = crate'[g].deps
    BY DEF CrateIsKnown
  <2>1. /\ a.id \notin DOMAIN known
        /\ DOMAIN known' = DOMAIN known \cup {a.id}
        /\ known'[a.id] = a.deps
        /\ \A i \in DOMAIN known : known'[i] = known[i]
    BY <1>4 DEF Enter
  <2>2. CASE g = f
    BY <1>2, <1>3, <2>1, <2>2
  <2>3. CASE g \in DOMAIN crate
    BY <1>2, <1>4, <2>1, <2>3 DEF CrateIsKnown
  <2> QED
    BY <1>2, <2>2, <2>3
<1>7. ListsGoStraight'
  <2> SUFFICES ASSUME skips' = 0, NEW w \in Flow, NEW S \in SUBSET lists[w],
                      \A g \in S : crate'[g].id = g /\ crate'[g].deps \cap S # {}
               PROVE  S = {}
    BY DEF ListsGoStraight
  <2>1. \A g \in S : crate'[g] = crate[g]
    BY <1>2 DEF MacroTypeOK
  <2>2. \A g \in S : crate[g].id = g /\ crate[g].deps \cap S # {}
    BY <2>1
  <2> QED
    BY <1>4, <2>2 DEF ListsGoStraight
<1>8. BodiesAreListed'
  BY DEF BodiesAreListed
<1> QED
  BY <1>5, <1>6, <1>7, <1>8

LEMMA ExpandWorkflowKeepsMInv ==
    ASSUME MInv, NEW w \in Flow, NEW L \in WorkflowAttributes, ExpandWorkflow(w, L)
    PROVE  MInv'
<1> USE DEF MInv, ExpandWorkflow
<1>1. /\ lists' \in [Flow -> SUBSET DOMAIN crate]
      /\ lists'[w] = L
      /\ \A v \in Flow \ {w} : lists'[v] = lists[v]
  BY DEF MacroTypeOK
<1>2. /\ skips' \in 0..MaxSkips
      /\ skips' = 0 => skips = 0 /\ ~GoesRound
  BY MacroAssumption DEF MacroTypeOK, Contended
<1>3. MacroTypeOK' /\ CrateIsKnown'
  BY <1>1, <1>2 DEF MacroTypeOK, CrateIsKnown
<1>4. ListsGoStraight'
  <2> SUFFICES ASSUME skips' = 0, NEW v \in Flow, NEW S \in SUBSET lists'[v],
                      \A f \in S : crate[f].id = f /\ crate[f].deps \cap S # {},
                      S # {}
               PROVE  FALSE
    BY DEF ListsGoStraight
  <2>1. CASE v = w
    <3>1. \A f \in S : f \in DOMAIN known /\ known[f] = crate[f].deps
      BY <1>1, <1>2, <2>1 DEF CrateIsKnown
    <3>2. GoesRound
      BY <3>1 DEF GoesRound
    <3> QED
      BY <1>2, <3>2
  <2>2. CASE v # w
    BY <1>1, <1>2, <2>2 DEF ListsGoStraight
  <2> QED
    BY <2>1, <2>2
<1>5. BodiesAreListed'
  BY DEF BodiesAreListed
<1> QED
  BY <1>3, <1>4, <1>5

LEMMA EvaluateKeepsMInv ==
    ASSUME MInv, NEW w \in Flow, Evaluate(w)
    PROVE  MInv'
<1> USE DEF MInv, Evaluate
<1>1. PICK last \in [{TaskName(f) : f \in lists[w]} -> lists[w]] :
          (\A name \in DOMAIN last : TaskName(last[name]) = name) /\ RegisterTask(w, last)
  OBVIOUS
<1>2. MacroTypeOK'
  BY <1>1 DEF MacroTypeOK, RegisterTask
<1>3. CrateIsKnown' /\ ListsGoStraight'
  BY DEF CrateIsKnown, ListsGoStraight
<1>4. BodiesAreListed'
  <2> SUFFICES ASSUME NEW v \in evaluated'
               PROVE  running' /\ v \in Flow /\
                      \A f \in lists[v] : \E g \in lists[v] :
                          TaskName(g) = TaskName(f) /\ bodies'[<<v, TaskName(f)>>] = g
    BY DEF BodiesAreListed
  <2>1. running' /\ v \in Flow
    BY DEF BodiesAreListed, IsRegistered
  <2>2. ASSUME NEW f \in lists[v]
        PROVE  \E g \in lists[v] :
                   TaskName(g) = TaskName(f) /\ bodies'[<<v, TaskName(f)>>] = g
    <3>1. <<v, TaskName(f)>> \in DOMAIN bodies
      BY <2>1, MacroAssumption DEF MacroTypeOK, TaskName
    <3>2. CASE v = w
      <4>1. TaskName(f) \in DOMAIN last
        BY <3>2
      <4>2. bodies'[<<v, TaskName(f)>>] = last[TaskName(f)]
        BY <1>1, <3>1, <3>2, <4>1 DEF RegisterTask
      <4> QED
        BY <1>1, <3>2, <4>1, <4>2
    <3>3. CASE v # w
      <4>1. bodies'[<<v, TaskName(f)>>] = bodies[<<v, TaskName(f)>>]
        BY <1>1, <3>1, <3>3 DEF RegisterTask
      <4> QED
        BY <3>3, <4>1 DEF BodiesAreListed
    <3> QED
      BY <3>2, <3>3
  <2> QED
    BY <2>1, <2>2
<1> QED
  BY <1>2, <1>3, <1>4

LEMMA MInvIsInductive == MInv /\ [MacroNext]_macroVars => MInv'
<1> SUFFICES ASSUME MInv, [MacroNext]_macroVars PROVE MInv'
  OBVIOUS
<1>1. ASSUME NEW f \in Name, NEW a \in TaskAttributes, ExpandTask(f, a) PROVE MInv'
  BY <1>1, ExpandTaskKeepsMInv
<1>2. ASSUME NEW w \in Flow, NEW L \in WorkflowAttributes, ExpandWorkflow(w, L) PROVE MInv'
  BY <1>2, ExpandWorkflowKeepsMInv
<1>3. CASE StartProgram
  BY <1>3 DEF StartProgram, MInv, MacroTypeOK, CrateIsKnown, ListsGoStraight, BodiesAreListed
<1>4. ASSUME NEW w \in Flow, Evaluate(w) PROVE MInv'
  BY <1>4, EvaluateKeepsMInv
<1>5. CASE UNCHANGED macroVars
  BY <1>5 DEF macroVars, MInv, MacroTypeOK, CrateIsKnown, ListsGoStraight, BodiesAreListed
<1> QED
  BY <1>1, <1>2, <1>3, <1>4, <1>5 DEF MacroNext

LEMMA MInvHolds == MacroSpec => []MInv
BY MInvHoldsFirst, MInvIsInductive, PTL DEF MacroSpec

\* Under the ids its functions bear, a list is a graph of its own.
LEMMA DocumentedIsPlain ==
    ASSUME MInv, NEW w \in Flow, AsDocumented(w)
    PROVE  /\ RowsOf(w) = lists[w]
           /\ AddsUp(w)
           /\ \A f \in lists[w] : DepsOf(w, f) = crate[f].deps
<1> USE DEF AsDocumented
<1>1. RowsOf(w) = lists[w] /\ AddsUp(w)
  BY DEF RowsOf, AddsUp
<1>2. ASSUME NEW f \in lists[w] PROVE DepsOf(w, f) = crate[f].deps
  <2>1. {g \in lists[w] : crate[g].id = f} = {f}
    OBVIOUS
  <2>2. DepsOf(w, f) = UNION {crate[g].deps : g \in {f}}
    BY <2>1 DEF DepsOf
  <2> QED
    BY <2>2
<1> QED
  BY <1>1, <1>2

LEMMA CompiledBuilds ==
    ASSUME MInv, NEW w \in Flow, AsDocumented(w), skips = 0
    PROVE  Builds(w)
<1>1. ASSUME NEW S \in SUBSET lists[w], S # {}, \A f \in S : DepsOf(w, f) \cap S # {}
      PROVE  FALSE
  BY <1>1, DocumentedIsPlain DEF AsDocumented, MInv, ListsGoStraight
<1> QED
  BY <1>1, DocumentedIsPlain DEF Builds, AsDocumented

LEMMA EvaluatedHasBodies ==
    ASSUME MInv, NEW w \in evaluated, AsDocumented(w), NEW id \in lists[w]
    PROVE  bodies[<<w, id>>] # NoBody /\ crate[bodies[<<w, id>>]].id = id
<1>1. w \in Flow
  BY DEF MInv, BodiesAreListed
<1>2. PICK g \in lists[w] : TaskName(g) = TaskName(id) /\ bodies[<<w, TaskName(id)>>] = g
  BY DEF MInv, BodiesAreListed
<1>3. g = id
  BY <1>2 DEF AsDocumented, TaskName
<1>4. id \in Name
  BY <1>1 DEF MInv, MacroTypeOK
<1> QED
  BY <1>2, <1>3, <1>4, MacroAssumption DEF AsDocumented, TaskName

\* The conditions of a rule in the row are the conditions written, one by one:
\* a test of a key, or a test of a task by its full name.
LEMMA RuleIsKept ==
    ASSUME NEW w, NEW e \in Written, ParseRule(e) # Refused,
           NEW outcome \in [Name -> {"Completed", "Failed", "Skipped"}],
           NEW present
    PROVE  Decides(Rewritten(w, ParseRule(e)), [n \in {w} \X Name |-> outcome[n[2]]], present)
             = Says(e, outcome, present)
<1> DEFINE rowStatus == [n \in {w} \X Name |-> outcome[n[2]]]
           Status == [TaskSuccess |-> "Completed", TaskFailed |-> "Failed",
                      TaskSkipped |-> "Skipped"]
           Met(c) == IF c.test = "ContextValue" THEN c.of \in present
                     ELSE rowStatus[c.of] = Status[c.test]
           Fulfilled(c) == CASE c.fn = "context_value" -> c.args[1] \in present
                             [] c.fn = "task_success"  -> outcome[c.args[1]] = "Completed"
                             [] c.fn = "task_failed"   -> outcome[c.args[1]] = "Failed"
                             [] c.fn = "task_skipped"  -> outcome[c.args[1]] = "Skipped"
<1>1. ASSUME NEW c, NamesTask(c), ConditionIsRead(c)
      PROVE  Met(FullName(w, Condition(c))) <=> Fulfilled(c)
  <2>1. \A n \in Name : rowStatus[<<w, n>>] = outcome[n]
    OBVIOUS
  <2>2. CASE c.fn = "context_value"
    BY <1>1, <2>2 DEF Condition, FullName, Tests
  <2>3. CASE c.fn # "context_value"
    <3>1. /\ c.args[1] \in Name
          /\ c.fn \in {"task_success", "task_failed", "task_skipped"}
      BY <1>1, <2>3 DEF NamesTask, ConditionIsRead, Tests
    <3>2. /\ FullName(w, Condition(c)).test = Tests[c.fn]
          /\ FullName(w, Condition(c)).test # "ContextValue"
          /\ FullName(w, Condition(c)).of = <<w, c.args[1]>>
      BY <3>1 DEF Condition, FullName, Tests
    <3>3. Met(FullName(w, Condition(c))) <=> outcome[c.args[1]] = Status[Tests[c.fn]]
      <4>1. rowStatus[FullName(w, Condition(c)).of] = outcome[c.args[1]]
        BY <2>1, <3>1, <3>2
      <4> HIDE DEF rowStatus, Status
      <4> QED
        BY <3>2, <4>1
    <3>4. Fulfilled(c) <=> outcome[c.args[1]] = Status[Tests[c.fn]]
      <4>1. CASE c.fn = "task_success"
        BY <4>1 DEF Tests
      <4>2. CASE c.fn = "task_failed"
        BY <4>2 DEF Tests
      <4>3. CASE c.fn = "task_skipped"
        BY <4>3 DEF Tests
      <4> QED
        BY <3>1, <4>1, <4>2, <4>3
    <3> QED
      BY <3>3, <3>4
  <2> QED
    BY <2>2, <2>3
<1> DEFINE Holding(C) == {i \in DOMAIN C : Met(FullName(w, C[i]))}
           Decision(rule) == Decides(Rewritten(w, rule), rowStatus, present)
<1>2. ASSUME NEW kind, NEW C,
             kind \in {"Always", "All", "Any", "None"}
      PROVE  /\ Decision([kind |-> kind, conditions |-> C]) \in BOOLEAN
             /\ Decision([kind |-> kind, conditions |-> C]) <=>
                    \/ kind = "Always"
                    \/ kind = "All" /\ Holding(C) = DOMAIN C
                    \/ kind = "Any" /\ Holding(C) # {}
                    \/ kind = "None" /\ Holding(C) = {}
  <2>1. Rewritten(w, [kind |-> kind, conditions |-> C])
          = [kind |-> kind, conditions |-> [i \in DOMAIN C |-> FullName(w, C[i])]]
    BY DEF Rewritten
  <2> DEFINE full == [kind |-> kind, conditions |-> [i \in DOMAIN C |-> FullName(w, C[i])]]
  <2>2. /\ Decides(full, rowStatus, present) \in BOOLEAN
        /\ Decides(full, rowStatus, present) <=>
                    \/ kind = "Always"
                    \/ kind = "All" /\ Holding(C) = DOMAIN C
                    \/ kind = "Any" /\ Holding(C) # {}
                    \/ kind = "None" /\ Holding(C) = {}
    BY <1>2 DEF Decides
  <2> HIDE DEF Holding, rowStatus
  <2> QED
    BY <2>1, <2>2
<1> DEFINE Agreed == /\ Decision(ParseRule(e)) \in BOOLEAN /\ Says(e, outcome, present) \in BOOLEAN
                     /\ Decision(ParseRule(e)) <=> Says(e, outcome, present)
<1> SUFFICES Agreed
  BY Zenon
<1> HIDE DEF Decision
<1>3. CASE e.fn = "always"
  <2> DEFINE C == <<>>
  <2>1. ParseRule(e) = [kind |-> "Always", conditions |-> C]
    BY <1>3 DEF ParseRule, ConditionIsRead, Tests, Lists
  <2>2. Says(e, outcome, present) /\ Says(e, outcome, present) \in BOOLEAN
    BY <1>3 DEF Says
  <2> HIDE DEF C, Holding
  <2> QED
    BY <1>2, <2>1, <2>2
<1>4. CASE e.fn \in DOMAIN Lists
  <2> DEFINE C == [i \in DOMAIN e.args |-> Condition(e.args[i])]
             full == {i \in DOMAIN e.args : Fulfilled(e.args[i])}
  <2>1. /\ \A i \in DOMAIN e.args : ConditionIsRead(e.args[i])
        /\ ParseRule(e) = [kind |-> Lists[e.fn], conditions |-> C]
    BY <1>4 DEF ParseRule, ConditionIsRead, Tests, Lists
  <2>2. \A i \in DOMAIN e.args : Met(FullName(w, Condition(e.args[i]))) <=> Fulfilled(e.args[i])
    BY <1>1, <1>4, <2>1, WrittenAssumption
  <2>3. DOMAIN C = DOMAIN e.args /\ Holding(C) = full
    BY <2>2
  <2>4. /\ e.fn = "all" => (Says(e, outcome, present) <=> full = DOMAIN e.args)
        /\ e.fn = "any" => (Says(e, outcome, present) <=> full # {})
        /\ e.fn = "none" => (Says(e, outcome, present) <=> full = {})
        /\ Says(e, outcome, present) \in BOOLEAN
    BY <1>4 DEF Says, Lists
  <2> HIDE DEF C, full, Holding
  <2>5. e.fn \in {"all", "any", "none"}
    BY <1>4 DEF Lists
  <2> QED
    BY <1>2, <2>1, <2>3, <2>4, <2>5 DEF Lists
<1>5. CASE e.fn # "always" /\ e.fn \notin DOMAIN Lists
  <2> DEFINE C == <<Condition(e)>>
  <2>1. ConditionIsRead(e) /\ ParseRule(e) = [kind |-> "All", conditions |-> C]
    BY <1>5 DEF ParseRule
  <2>2. Met(FullName(w, Condition(e))) <=> Fulfilled(e)
    BY <1>1, <2>1, WrittenAssumption
  <2>3. DOMAIN C = {1} /\ C[1] = Condition(e)
    OBVIOUS
  <2>4. Holding(C) = {1} <=> Fulfilled(e)
    <3> HIDE DEF C, Met
    <3> QED
      BY <2>2, <2>3
  <2>5. (Says(e, outcome, present) <=> Fulfilled(e)) /\ Says(e, outcome, present) \in BOOLEAN
    <3>1. e.fn \in {"task_success", "task_failed", "task_skipped", "context_value"}
      BY <2>1 DEF ConditionIsRead, Tests
    <3>2. CASE e.fn = "task_success"
      BY <3>2 DEF Says
    <3>3. CASE e.fn = "task_failed"
      BY <3>3 DEF Says
    <3>4. CASE e.fn = "task_skipped"
      BY <3>4 DEF Says
    <3>5. CASE e.fn = "context_value"
      BY <3>5 DEF Says
    <3> QED
      BY <3>1, <3>2, <3>3, <3>4, <3>5
  <2> HIDE DEF C, Holding
  <2>6. (Decision(ParseRule(e)) <=> Holding(C) = {1}) /\ Decision(ParseRule(e)) \in BOOLEAN
    BY <1>2, <2>1, <2>3
  <2> QED
    BY <2>4, <2>5, <2>6
<1> QED
  BY <1>3, <1>4, <1>5

\* For any crate, order of its items, list of functions and lock of the
\* registry: a workflow that compiles and is as documented can be constructed
\* unless the registry was locked, and when it has been evaluated every row
\* finds the body written for it.
THEOREM CompiledIsRun == MacroSpec => []CompiledCanRun
<1>1. MInv => CompiledCanRun
  <2> SUFFICES ASSUME MInv, NEW w \in Flow, AsDocumented(w)
               PROVE  /\ skips = 0 => Builds(w)
                      /\ w \in evaluated =>
                           \A id \in RowsOf(w) :
                               bodies[<<w, id>>] # NoBody /\ crate[bodies[<<w, id>>]].id = id
    BY DEF CompiledCanRun
  <2> QED
    BY CompiledBuilds, EvaluatedHasBodies, DocumentedIsPlain
<1> QED
  BY <1>1, MInvHolds, PTL

\* For any crate and any outcome of its tasks: the scheduler decides a rule as
\* the author wrote it.
THEOREM WrittenIsDecided == MacroSpec => []RulesAreKept
<1>1. MInv => RulesAreKept
  <2> SUFFICES ASSUME MInv, NEW w \in Flow, NEW f \in lists[w],
                      NEW outcome \in [Name -> {"Completed", "Failed", "Skipped"}],
                      NEW present \in SUBSET {"key"}
               PROVE  Decides(Rewritten(w, crate[f].trigger_rules),
                              [n \in {w} \X Name |-> outcome[n[2]]], present)
                        = Says(crate[f].written, outcome, present)
    BY DEF RulesAreKept
  <2>1. /\ crate[f].written \in Written
        /\ crate[f].trigger_rules = ParseRule(crate[f].written)
        /\ crate[f].trigger_rules # Refused
    BY DEF MInv, MacroTypeOK
  <2>2. ParseRule(crate[f].written) # Refused
    BY <2>1
  <2>3. Decides(Rewritten(w, ParseRule(crate[f].written)),
                [n \in {w} \X Name |-> outcome[n[2]]], present)
          = Says(crate[f].written, outcome, present)
    <3>1. crate[f].written \in Written
      BY <2>1
    <3> QED
      BY <2>2, <3>1, RuleIsKept
  <2> QED
    BY <2>1, <2>3
<1> QED
  BY <1>1, MInvHolds, PTL

-----------------------------------------------------------------------------
(***************************************************************************)
(* Workflows written in Python.                                            *)
(***************************************************************************)

AuthoringTypeOK ==
    /\ stack \in Seq(Context)
    /\ inside \in [Thread -> Seq(Context)]
    /\ registry \in [Names -> (SUBSET Function) \cup {Nothing}]
    /\ DOMAIN registered = Module
    /\ meant \subseteq Names
    /\ disturbed \in BOOLEAN

\* As long as no thread steps in on another, one thread has the stack to itself.
OneThreadInside ==
    ~disturbed =>
        \/ stack = <<>> /\ \A t \in Thread : inside[t] = <<>>
        \/ \E t \in Thread : stack = inside[t] /\ \A u \in Thread \ {t} : inside[u] = <<>>

AInv == AuthoringTypeOK /\ OneThreadInside /\ RegisteredCanRun /\ TasksGoWhereWritten

LEMMA AInvHoldsFirst == AuthoringInit => AInv
<1> SUFFICES ASSUME AuthoringInit PROVE AInv
  OBVIOUS
<1> USE DEF AuthoringInit
<1>1. <<>> \in Seq(Context)
  OBVIOUS
<1>2. registry \in [Names -> (SUBSET Function) \cup {Nothing}] /\ DOMAIN registered = Module
  OBVIOUS
<1>3. AuthoringTypeOK
  BY <1>1, <1>2 DEF AuthoringTypeOK
<1>4. \A w \in Module : registered[w] = Nothing
  OBVIOUS
<1>5. \A n \in Names : registry[n] = Nothing
  OBVIOUS
<1>6. OneThreadInside
  BY DEF OneThreadInside
<1>7. RegisteredCanRun
  BY <1>4 DEF RegisteredCanRun
<1>8. TasksGoWhereWritten
  BY <1>5 DEF TasksGoWhereWritten
<1> QED
  BY <1>3, <1>6, <1>7, <1>8 DEF AInv

\* Whoever is alone in a block, or outside all of them, has the stack.
LEMMA StackIsOwn ==
    ASSUME AInv, NEW t \in Thread, ~disturbed,
           inside[t] # <<>> \/ ~OthersInside(t)
    PROVE  stack = inside[t] /\ \A u \in Thread \ {t} : inside[u] = <<>>
BY DEF AInv, OneThreadInside, OthersInside

LEMMA EnterKeepsAInv ==
    ASSUME AInv, NEW t \in Thread, NEW c \in Context, EnterBlock(t, c)
    PROVE  AInv'
<1> USE DEF AInv, AuthoringTypeOK, EnterBlock
<1>1. AuthoringTypeOK' /\ RegisteredCanRun'
  BY DEF RegisteredCanRun
<1>2. inside'[t] = Append(inside[t], c) /\ inside'[t] # <<>> /\ ~disturbed' =>
        stack' = inside'[t] /\ \A u \in Thread \ {t} : inside'[u] = <<>>
  BY StackIsOwn DEF OthersInside
<1>3. inside'[t] = Append(inside[t], c) /\ inside'[t] # <<>>
  OBVIOUS
<1>4. OneThreadInside'
  BY <1>2, <1>3 DEF OneThreadInside
<1>5. TasksGoWhereWritten'
  BY <1>3 DEF TasksGoWhereWritten
<1> QED
  BY <1>1, <1>4, <1>5

LEMMA DefineKeepsAInv ==
    ASSUME AInv, NEW t \in Thread, NEW g \in Function, NEW D \in SUBSET Function,
           Define(t, g, D)
    PROVE  AInv'
<1> USE AuthoringAssumption DEF AInv, AuthoringTypeOK, Define
<1>1. Current \in Context
  BY DEF Current
<1>2. /\ registry' \in [Names -> (SUBSET Function) \cup {Nothing}]
      /\ registry'[<<Current, g>>] # Nothing
      /\ \A n \in Names \ {<<Current, g>>} : registry'[n] = registry[n]
  BY <1>1 DEF Names
<1>3. WrittenBy(t, g) \subseteq Names
  BY DEF WrittenBy, Names
<1>4. AuthoringTypeOK' /\ OneThreadInside'
  BY <1>2, <1>3 DEF OneThreadInside
<1>5. RegisteredCanRun'
  <2>1. ASSUME NEW name \in Module, registered[name] # Nothing,
               registered[name].from = registered[name].at,
               NEW h \in DOMAIN registered[name].tasks
        PROVE  registry'[<<registered[name].at, h>>] # Nothing
    <3>1. registry[<<registered[name].at, h>>] # Nothing
      BY <2>1 DEF RegisteredCanRun
    <3>2. CASE <<registered[name].at, h>> = <<Current, g>>
      BY <1>2, <3>2
    <3>3. CASE <<registered[name].at, h>> # <<Current, g>>
      BY <3>1, <3>3
    <3> QED
      BY <3>2, <3>3
  <2> QED
    BY <2>1 DEF RegisteredCanRun
<1>6. TasksGoWhereWritten'
  <2> SUFFICES ASSUME ~disturbed' PROVE TasksGoWhereWritten'
    BY DEF TasksGoWhereWritten
  \* The stack is not empty, and no other thread is inside: so this one is.
  <2>1. ~disturbed /\ ~OthersInside(t)
    OBVIOUS
  <2>2. stack = inside[t]
    BY <2>1, StackIsOwn
  <2>3. WrittenBy(t, g) = {<<Current, g>>} /\ inside[t] # <<>>
    BY <2>2 DEF WrittenBy, Current
  <2>4. {n \in Names : registry'[n] # Nothing} = meant'
    BY <1>1, <1>2, <2>1, <2>3 DEF TasksGoWhereWritten, Names
  <2> QED
    BY <2>3, <2>4 DEF TasksGoWhereWritten
<1> QED
  BY <1>4, <1>5, <1>6

LEMMA LeaveKeepsAInv ==
    ASSUME AInv, NEW t \in Thread, LeaveBlock(t)
    PROVE  AInv'
<1> USE DEF AInv, AuthoringTypeOK, LeaveBlock
<1> DEFINE c == inside[t][Len(inside[t])]
           W == Workflow(c, c, Decorated(c))
<1>1. c \in Context
  OBVIOUS
<1>2. /\ stack' = SubSeq(stack, 1, Len(stack) - 1)
      /\ \/ registered' = registered
         \/ IsValid(W) /\ registered' = [registered EXCEPT ![c.workflow] = W]
      /\ inside' = [inside EXCEPT ![t] = SubSeq(@, 1, Len(@) - 1)]
      /\ UNCHANGED <<registry, meant, disturbed>>
  BY DEF Popped, MayRegister, Register
<1>3. DOMAIN W.tasks = Decorated(c) /\ W.at = c
  BY DEF Workflow
<1> HIDE DEF c, W, LeaveBlock
<1>4. stack' \in Seq(Context) /\ inside' \in [Thread -> Seq(Context)]
  BY <1>2
<1>5. AuthoringTypeOK'
  BY <1>2, <1>4
<1>6. RegisteredCanRun'
  <2>1. \A h \in DOMAIN W.tasks : registry'[<<W.at, h>>] # Nothing
    BY <1>2, <1>3 DEF Decorated
  <2>2. ASSUME NEW name \in Module, registered'[name] # Nothing
        PROVE  registered'[name] = registered[name] \/ (registered'[name] = W /\ IsValid(W))
    BY <1>2, <2>2
  <2>3. ASSUME NEW name \in Module, registered'[name] # Nothing
        PROVE  /\ IsValid(registered'[name])
               /\ registered'[name].from = registered'[name].at =>
                     \A h \in DOMAIN registered'[name].tasks :
                         registry'[<<registered'[name].at, h>>] # Nothing
    <3>1. CASE registered'[name] = W /\ IsValid(W)
      BY <2>1, <3>1
    <3>2. CASE registered'[name] = registered[name]
      BY <1>2, <2>3, <3>2 DEF RegisteredCanRun
    <3> QED
      BY <2>2, <2>3, <3>1, <3>2
  <2> QED
    BY <2>3 DEF RegisteredCanRun
<1>7. OneThreadInside' /\ TasksGoWhereWritten'
  <2>1. ~disturbed => stack = inside[t] /\ \A u \in Thread \ {t} : inside[u] = <<>>
    BY StackIsOwn DEF LeaveBlock
  <2>2. ~disturbed' => stack' = inside'[t] /\ \A u \in Thread \ {t} : inside'[u] = <<>>
    BY <1>2, <2>1
  <2> QED
    BY <1>2, <2>2 DEF OneThreadInside, TasksGoWhereWritten
<1> QED
  BY <1>5, <1>6, <1>7

LEMMA RegisterKeepsAInv ==
    ASSUME AInv, NEW name \in Module, NEW b \in Builder, NEW S \in SUBSET Function,
           RegisterBuilt(name, b, S)
    PROVE  AInv'
<1> USE DEF AInv, AuthoringTypeOK, RegisterBuilt
<1>1. AuthoringTypeOK' /\ OneThreadInside' /\ TasksGoWhereWritten'
  BY DEF Register, OneThreadInside, TasksGoWhereWritten
<1>2. RegisteredCanRun'
  <2> DEFINE W == Workflow(BuiltAt(b), b.context, S)
  <2>1. /\ IsValid(W)
        /\ DOMAIN W.tasks = S /\ W.from = b.context
        /\ registered' = [registered EXCEPT ![name] = W]
    BY DEF Workflow, Register
  <2>2. registry' = registry /\ \A h \in S : registry[<<b.context, h>>] # Nothing
    BY DEF Adds, Decorated
  <2> HIDE DEF W
  <2> QED
    BY <2>1, <2>2 DEF RegisteredCanRun
<1> QED
  BY <1>1, <1>2

LEMMA AInvIsInductive == AInv /\ [AuthoringNext]_authoringVars => AInv'
<1> SUFFICES ASSUME AInv, [AuthoringNext]_authoringVars PROVE AInv'
  OBVIOUS
<1>1. CASE AuthoringNext
  BY <1>1, EnterKeepsAInv, DefineKeepsAInv, LeaveKeepsAInv, RegisterKeepsAInv DEF AuthoringNext
<1>2. CASE UNCHANGED authoringVars
  BY <1>2 DEF authoringVars, AInv, AuthoringTypeOK, OneThreadInside, RegisteredCanRun,
              TasksGoWhereWritten
<1> QED
  BY <1>1, <1>2

LEMMA AInvHolds == AuthoringSpec => []AInv
BY AInvHoldsFirst, AInvIsInductive, PTL DEF AuthoringSpec

\* For any threads, contexts and blocks, however they interleave: a workflow that
\* is registered is valid, and each of its tasks is found under the name its rows
\* bear, unless it was built by a builder that was given another context than its
\* own name in the package "embedded".
THEOREM RegisteredAlwaysRuns == AuthoringSpec => []RegisteredCanRun
BY AInvHolds, PTL DEF AInv

\* Unless a thread steps in while another is in a block, every task is registered
\* under the block it stands in, whatever the nesting and the failures, and none
\* is registered from outside of every block.
THEOREM TasksAreInPlace == AuthoringSpec => []TasksGoWhereWritten
BY AInvHolds, PTL DEF AInv
=============================================================================
