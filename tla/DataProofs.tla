----------------------------- MODULE DataProofs -----------------------------
(***************************************************************************)
(* What tasks leave in the database: the contexts they hand to each other, *)
(* for any graph of tasks, bodies and faults; and the rows of tenants, for *)
(* any tenants, runners, pools and calls of the administrator.             *)
(***************************************************************************)
EXTENDS DataFlow, Tenants, FiniteSetTheorems, WellFoundedInduction, TLAPS

-----------------------------------------------------------------------------
(***************************************************************************)
(* Loops over a list.  Each is a function of the number of turns taken.    *)
(***************************************************************************)

\* Induction over the turns, for a set of them.
LEMMA TurnByTurn ==
    ASSUME NEW n \in Nat, NEW S \in SUBSET (0 .. n),
           0 \in S, \A i \in 1 .. n : i - 1 \in S => i \in S
    PROVE  S = 0 .. n
<1> SUFFICES ASSUME S # 0 .. n PROVE FALSE
  OBVIOUS
<1> DEFINE T == (0 .. n) \ S
           less == {p \in Nat \X Nat : p[1] < p[2]}
<1>1. IsWellFoundedOn(less, Nat)
  BY NatLessThanWellFounded, Zenon DEF OpToRel
<1>2. \A x, y \in Nat : <<y, x>> \notin less => x <= y
  OBVIOUS
<1>3. T \subseteq Nat /\ T # {}
  <2>1. T # {}
    BY Zenon
  <2> QED
    BY <2>1
<1>4. \E x \in T : \A y \in T : <<y, x>> \notin less
  <2> HIDE DEF T, less
  <2> QED
    BY <1>1, <1>3, WFMin, ZenonT(30)
<1>5. PICK x \in T : \A y \in T : x <= y
  <2> HIDE DEF less
  <2> QED
    BY <1>2, <1>3, <1>4
<1>6. x \in 1 .. n /\ x - 1 \in 0 .. n
  OBVIOUS
<1>7. x - 1 \in S
  BY <1>5, <1>6
<1> QED
  BY <1>5, <1>6, <1>7

\* A loop whose turns stay among some values takes all its turns.
IsLoop(g, n, Vals, first, Turn) ==
    /\ g \in [0 .. n -> Vals]
    /\ g = [i \in 0 .. n |-> IF i = 0 THEN first ELSE Turn[i][g[i - 1]]]

LEMMA LoopExists ==
    ASSUME NEW n \in Nat, NEW Vals, NEW first \in Vals, NEW Turn \in [1 .. n -> [Vals -> Vals]]
    PROVE  \E g : IsLoop(g, n, Vals, first, Turn)
<1> DEFINE Loop(m) == \E g \in [0 .. m -> Vals] :
                          g = [i \in 0 .. m |-> IF i = 0 THEN first ELSE Turn[i][g[i - 1]]]
           S == {m \in 0 .. n : Loop(m)}
<1>1. 0 \in S
  <2> DEFINE g == [i \in 0 .. 0 |-> first]
  <2>1. g \in [0 .. 0 -> Vals] /\ g = [i \in 0 .. 0 |-> IF i = 0 THEN first ELSE Turn[i][g[i - 1]]]
    OBVIOUS
  <2>2. Loop(0)
    <3> HIDE DEF g
    <3> QED
      BY <2>1
  <2> QED
    BY <2>2
<1>2. ASSUME NEW m \in 1 .. n, m - 1 \in S PROVE m \in S
  <2>1. PICK g \in [0 .. (m - 1) -> Vals] :
            g = [i \in 0 .. (m - 1) |-> IF i = 0 THEN first ELSE Turn[i][g[i - 1]]]
    BY <1>2
  <2> DEFINE h == [i \in 0 .. m |-> IF i = m THEN Turn[m][g[m - 1]] ELSE g[i]]
  <2>2. m \in Nat /\ m # 0 /\ m \in 0 .. n
    OBVIOUS
  <2>3. h \in [0 .. m -> Vals]
    <3>1. \A i \in 0 .. m : i = m \/ i \in 0 .. (m - 1)
      BY <2>2
    <3>2. g[m - 1] \in Vals /\ Turn[m] \in [Vals -> Vals]
      BY <2>2
    <3> QED
      BY <3>1, <3>2
  <2>4. h[0] = first
    BY <2>1, <2>2
  <2>5. ASSUME NEW i \in 1 .. m PROVE h[i] = Turn[i][h[i - 1]]
    <3>1. h[i - 1] = g[i - 1]
      BY <2>2
    <3>2. CASE i = m
      BY <2>2, <3>1, <3>2
    <3>3. CASE i # m
      <4>1. i \in 1 .. (m - 1)
        BY <2>2, <3>3
      <4>2. g[i] = Turn[i][g[i - 1]]
        BY <2>1, <4>1
      <4> QED
        BY <2>2, <3>1, <3>3, <4>2
    <3> QED
      BY <3>2, <3>3
  <2>6. h = [i \in 0 .. m |-> h[i]]
    OBVIOUS
  <2> HIDE DEF h
  <2>7. \A i \in 0 .. m : i = 0 \/ i \in 1 .. m
    BY <2>2
  <2>8. \A i \in 0 .. m : h[i] = IF i = 0 THEN first ELSE Turn[i][h[i - 1]]
    BY <2>4, <2>5, <2>7
  <2>9. h = [i \in 0 .. m |-> IF i = 0 THEN first ELSE Turn[i][h[i - 1]]]
    BY <2>6, <2>8
  <2> QED
    BY <2>2, <2>3, <2>9
<1>3. S = 0 .. n
  <2>1. S \in SUBSET (0 .. n)
    OBVIOUS
  <2> HIDE DEF S
  <2> QED
    BY <1>1, <1>2, <2>1, TurnByTurn
<1>4. n \in 0 .. n
  OBVIOUS
<1>5. Loop(n)
  <2> HIDE DEF Loop
  <2> QED
    BY <1>3, <1>4
<1> QED
  BY <1>5 DEF IsLoop

\* The contexts, as a set.
Contexts == UNION {[keys -> Value] : keys \in SUBSET Key}

LEMMA ContextsAre ==
    /\ \A c : c \in Contexts <=> IsContext(c)
    /\ Empty \in Contexts
<1>1. ASSUME NEW c, c \in Contexts PROVE IsContext(c)
  <2>1. PICK keys \in SUBSET Key : c \in [keys -> Value]
    BY <1>1 DEF Contexts
  <2> QED
    BY <2>1 DEF IsContext
<1>2. ASSUME NEW c, IsContext(c) PROVE c \in Contexts
  BY <1>2 DEF Contexts, IsContext
<1>3. IsContext(Empty)
  BY DEF IsContext, Empty
<1> QED
  BY <1>1, <1>2, <1>3

\* What is done to a context leaves a context.
LEMMA ApplyMeans ==
    ASSUME NEW op \in Operation, NEW t \in Task, NEW c \in Contexts
    PROVE  /\ Apply(op, c, t) \in Contexts
           /\ DOMAIN Apply(op, c, t) = IF op.call = "remove" THEN DOMAIN c \ {op.key}
                                       ELSE DOMAIN c \cup {op.key}
           /\ \A k \in DOMAIN c \ {op.key} : Apply(op, c, t)[k] = c[k]
<1>1. IsContext(c)
  BY ContextsAre
<1>2. Written(op, t) \in Value
  <2>1. Atom(t) \in Leaf /\ Array(t) \in Leaf
    BY DEF Atom, Array, Leaf
  <2>2. Object(op.field, t) \in Composite
    <3>1. op.field \in Field
      BY DEF Operation
    <3>2. [g \in {op.field} |-> Array(t)] \in [{op.field} -> Leaf]
      BY <2>1
    <3> QED
      BY <3>1, <3>2 DEF Object, Composite
  <2>3. op.shape \in {"atom", "array", "object"}
    BY DEF Operation, Shapes
  <2> QED
    BY <2>1, <2>2, <2>3 DEF Written, Value
<1>3. IsContext(Apply(op, c, t))
  <2> HIDE DEF Written
  <2> QED
    BY <1>1, <1>2 DEF Apply, With, Without, IsContext, Operation
<1> QED
  BY <1>3, ContextsAre DEF Apply, With, Without, Operation

LEMMA TakenBackMeans ==
    ASSUME NEW c \in Contexts, NEW d \in Contexts
    PROVE  /\ TakenBack(c, d) \in Contexts
           /\ DOMAIN TakenBack(c, d) = DOMAIN c \cup DOMAIN d
           /\ \A k \in DOMAIN d : TakenBack(c, d)[k] = d[k]
           /\ \A k \in DOMAIN c \ DOMAIN d : TakenBack(c, d)[k] = c[k]
<1>1. IsContext(c) /\ IsContext(d)
  BY ContextsAre
<1>2. IsContext(TakenBack(c, d))
  BY <1>1 DEF TakenBack, IsContext
<1> QED
  BY <1>2, ContextsAre DEF TakenBack

\* The body, call by call.
LEMMA RunIsALoop ==
    ASSUME NEW t \in Task, NEW context \in Contexts, NEW ops \in Seq(Operation)
    PROVE  LET run == Run(ops, t, context)
           IN  /\ run[0] = [ok |-> TRUE, context |-> context]
               /\ \A n \in 1 .. Len(ops) :
                     run[n] = IF run[n - 1].ok /\ Allowed(ops[n], run[n - 1].context)
                              THEN [ok |-> TRUE, context |-> Apply(ops[n], run[n - 1].context, t)]
                              ELSE [ok |-> FALSE, context |-> run[n - 1].context]
               /\ \A n \in 0 .. Len(ops) :
                     run[n].context \in Contexts /\ run[n].ok \in BOOLEAN
<1> DEFINE L == Len(ops)
           run == Run(ops, t, context)
           Vals == [ok : BOOLEAN, context : Contexts]
           first == [ok |-> TRUE, context |-> context]
           Next_(r, n) == IF r.ok /\ Allowed(ops[n], r.context)
                          THEN [ok |-> TRUE, context |-> Apply(ops[n], r.context, t)]
                          ELSE [ok |-> FALSE, context |-> r.context]
           Turn == [n \in 1 .. L |-> [r \in Vals |-> Next_(r, n)]]
<1>1. L \in Nat /\ \A n \in 1 .. L : ops[n] \in Operation
  OBVIOUS
<1>2. \A n \in 1 .. L : \A r \in Vals : Next_(r, n) \in Vals
  BY <1>1, ApplyMeans
<1>3. first \in Vals
  OBVIOUS
<1>4. Turn \in [1 .. L -> [Vals -> Vals]]
  <2> HIDE DEF Next_, Vals, L
  <2> QED
    BY <1>2
<1>5. PICK g : IsLoop(g, L, Vals, first, Turn)
  <2> HIDE DEF Turn, Vals, first, L
  <2> QED
    BY <1>1, <1>3, <1>4, LoopExists
<1>6. g = [n \in 0 .. L |-> IF n = 0 THEN first ELSE Next_(g[n - 1], n)]
  <2> HIDE DEF Next_, Vals, first, L
  <2>1. \A n \in 1 .. L : n - 1 \in 0 .. L
    BY <1>1
  <2>2. \A n \in 1 .. L : Turn[n][g[n - 1]] = Next_(g[n - 1], n)
    BY <1>5, <2>1 DEF IsLoop
  <2>3. \A n \in 0 .. L : n = 0 \/ n \in 1 .. L
    BY <1>1
  <2> HIDE DEF Turn
  <2> QED
    BY <1>5, <2>2, <2>3 DEF IsLoop
<1>7. run = [n \in 0 .. L |-> IF n = 0 THEN first ELSE Next_(run[n - 1], n)]
  BY <1>6 DEF Run
<1> HIDE DEF run, L, first, Vals, Next_
<1>8. run[0] = first
  BY <1>1, <1>7
<1>9. \A n \in 1 .. L : run[n] = Next_(run[n - 1], n)
  BY <1>1, <1>7
<1>10. \A n \in 0 .. L : run[n] \in Vals
  <2> DEFINE S == {n \in 0 .. L : run[n] \in Vals}
  <2>1. 0 \in S
    BY <1>1, <1>3, <1>8
  <2>2. \A n \in 1 .. L : n - 1 \in S => n \in S
    BY <1>1, <1>2, <1>9
  <2>3. S \in SUBSET (0 .. L)
    OBVIOUS
  <2> HIDE DEF S
  <2>4. S = 0 .. L
    BY <1>1, <2>1, <2>2, <2>3, TurnByTurn
  <2> QED
    BY <2>4 DEF S
<1> QED
  BY <1>8, <1>9, <1>10 DEF run, L, first, Vals, Next_

\* The loop of merge_context_values.
LEMMA ExtendedIsALoop ==
    ASSUME NEW items \in Seq(Task \cup {Caller}), NEW more \in Seq(Task \cup {Caller})
    PROVE  LET extended == Extended(items, more)
           IN  /\ extended[0] = items
               /\ \A n \in 1 .. Len(more) :
                     extended[n] = IF Contains(extended[n - 1], more[n]) THEN extended[n - 1]
                                   ELSE Append(extended[n - 1], more[n])
               /\ \A n \in 0 .. Len(more) : extended[n] \in Seq(Task \cup {Caller})
<1> DEFINE L == Len(more)
           extended == Extended(items, more)
           Vals == Seq(Task \cup {Caller})
           Next_(r, n) == IF Contains(r, more[n]) THEN r ELSE Append(r, more[n])
           Turn == [n \in 1 .. L |-> [r \in Vals |-> Next_(r, n)]]
<1>1. L \in Nat /\ \A n \in 1 .. L : more[n] \in Task \cup {Caller}
  OBVIOUS
<1>2. \A n \in 1 .. L : \A r \in Vals : Next_(r, n) \in Vals
  BY <1>1
<1>3. items \in Vals
  OBVIOUS
<1>4. Turn \in [1 .. L -> [Vals -> Vals]]
  <2> HIDE DEF Next_, Vals, L
  <2> QED
    BY <1>2
<1>5. PICK g : IsLoop(g, L, Vals, items, Turn)
  <2> HIDE DEF Turn, Vals, L
  <2> QED
    BY <1>1, <1>3, <1>4, LoopExists
<1>6. g = [n \in 0 .. L |-> IF n = 0 THEN items ELSE Next_(g[n - 1], n)]
  <2> HIDE DEF Next_, Vals, L
  <2>1. \A n \in 1 .. L : n - 1 \in 0 .. L
    BY <1>1
  <2>2. \A n \in 1 .. L : Turn[n][g[n - 1]] = Next_(g[n - 1], n)
    BY <1>5, <2>1 DEF IsLoop
  <2>3. \A n \in 0 .. L : n = 0 \/ n \in 1 .. L
    BY <1>1
  <2> HIDE DEF Turn
  <2> QED
    BY <1>5, <2>2, <2>3 DEF IsLoop
<1>7. extended = [n \in 0 .. L |-> IF n = 0 THEN items ELSE Next_(extended[n - 1], n)]
  BY <1>6 DEF Extended
<1> HIDE DEF extended, L, Vals, Next_
<1>8. extended[0] = items
  BY <1>1, <1>7
<1>9. \A n \in 1 .. L : extended[n] = Next_(extended[n - 1], n)
  BY <1>1, <1>7
<1>10. \A n \in 0 .. L : extended[n] \in Vals
  <2> DEFINE S == {n \in 0 .. L : extended[n] \in Vals}
  <2>1. 0 \in S
    BY <1>1, <1>3, <1>8
  <2>2. \A n \in 1 .. L : n - 1 \in S => n \in S
    BY <1>1, <1>2, <1>9
  <2>3. S \in SUBSET (0 .. L)
    OBVIOUS
  <2> HIDE DEF S
  <2>4. S = 0 .. L
    BY <1>1, <2>1, <2>2, <2>3, TurnByTurn
  <2> QED
    BY <2>4 DEF S
<1> QED
  BY <1>8, <1>9, <1>10 DEF extended, L, Vals, Next_

\* Two values that are no objects merge to a value; a value merged with itself
\* is itself.
LEMMA MergedLeafMeans ==
    ASSUME NEW old \in Leaf, NEW new \in Leaf
    PROVE  MergedLeaf(old, new) \in Leaf /\ (old = new => MergedLeaf(old, new) = new)
<1>1. old.items \in Seq(Task \cup {Caller}) /\ new.items \in Seq(Task \cup {Caller})
  BY DEF Leaf
<1> DEFINE L == Len(new.items)
           extended == Extended(old.items, new.items)
<1>2. L \in Nat
  BY <1>1
<1>3. /\ extended[0] = old.items
      /\ \A n \in 1 .. L : extended[n] = IF Contains(extended[n - 1], new.items[n])
                                         THEN extended[n - 1]
                                         ELSE Append(extended[n - 1], new.items[n])
      /\ \A n \in 0 .. L : extended[n] \in Seq(Task \cup {Caller})
  BY <1>1, ExtendedIsALoop
<1> HIDE DEF extended
<1>4. extended[L] \in Seq(Task \cup {Caller})
  BY <1>2, <1>3
<1>5. MergedLeaf(old, new) \in Leaf
  BY <1>4 DEF MergedLeaf, Leaf, extended
<1>6. ASSUME old = new PROVE extended[L] = old.items
  <2> DEFINE S == {n \in 0 .. L : extended[n] = old.items}
  <2>1. 0 \in S
    BY <1>2, <1>3
  <2>2. ASSUME NEW n \in 1 .. L, n - 1 \in S PROVE n \in S
    <3>1. Contains(old.items, new.items[n])
      BY <1>1, <1>6 DEF Contains
    <3> QED
      BY <1>2, <1>3, <2>2, <3>1
  <2>3. S \in SUBSET (0 .. L)
    OBVIOUS
  <2>4. L \in 0 .. L
    BY <1>2
  <2> HIDE DEF S
  <2>5. S = 0 .. L
    BY <1>2, <2>1, <2>2, <2>3, TurnByTurn
  <2> QED
    BY <2>4, <2>5 DEF S
<1>7. ASSUME old = new PROVE MergedLeaf(old, new) = new
  BY <1>6, <1>7 DEF MergedLeaf, Leaf, extended
<1> QED
  BY <1>5, <1>7

\* The same of any two values; and two objects merge to one with the fields of
\* both.
LEMMA MergedMeans ==
    ASSUME NEW old \in Value, NEW new \in Value
    PROVE  /\ Merged(old, new) \in Value
           /\ old = new => Merged(old, new) = new
           /\ IsObject(old) /\ IsObject(new) =>
                 /\ IsObject(Merged(old, new))
                 /\ DOMAIN Merged(old, new).fields = DOMAIN old.fields \cup DOMAIN new.fields
<1>1. /\ IsObject(old) <=> old \in Composite
      /\ IsObject(new) <=> new \in Composite
      /\ old \in Leaf \/ old \in Composite
      /\ new \in Leaf \/ new \in Composite
  BY DEF Value, Leaf, Composite, IsObject
<1>2. CASE IsObject(old) /\ IsObject(new)
  <2> DEFINE F == DOMAIN old.fields
             G == DOMAIN new.fields
             joined == [f \in F \cup G |->
                           IF f \notin G THEN old.fields[f]
                           ELSE IF f \in F THEN MergedLeaf(old.fields[f], new.fields[f])
                           ELSE new.fields[f]]
  <2>1. /\ F \subseteq Field /\ old.fields \in [F -> Leaf]
        /\ G \subseteq Field /\ new.fields \in [G -> Leaf]
    BY <1>1, <1>2 DEF Composite
  <2>2. Merged(old, new) = [old EXCEPT !.fields = joined]
    BY <1>2 DEF Merged
  <2>3. joined \in [F \cup G -> Leaf]
    BY <2>1, MergedLeafMeans
  <2>4. old = new => joined = new.fields
    BY <2>1, MergedLeafMeans
  <2>5. DOMAIN joined = F \cup G
    OBVIOUS
  <2>6. /\ old = [shape |-> "object", fields |-> old.fields]
        /\ new = [shape |-> "object", fields |-> new.fields]
    BY <1>1, <1>2 DEF Composite
  <2> HIDE DEF joined
  <2>7. Merged(old, new) = [shape |-> "object", fields |-> joined]
    BY <2>2, <2>6
  <2>8. Merged(old, new) \in Composite
    <3>1. F \cup G \in SUBSET Field
      BY <2>1
    <3> HIDE DEF F, G
    <3>2. joined \in UNION {[fs -> Leaf] : fs \in SUBSET Field}
      BY <2>3, <3>1
    <3> QED
      BY <2>7, <3>2 DEF Composite
  <2> QED
    BY <2>4, <2>5, <2>6, <2>7, <2>8 DEF Value, IsObject
<1>3. CASE ~(IsObject(old) /\ IsObject(new))
  <2>1. Merged(old, new) = MergedLeaf(old, new)
    BY <1>3 DEF Merged
  <2>2. CASE old \in Leaf /\ new \in Leaf
    BY <1>3, <2>1, <2>2, MergedLeafMeans DEF Value
  <2>3. CASE ~(old \in Leaf /\ new \in Leaf)
    <3>1. MergedLeaf(old, new) = new
      BY <1>1, <2>3 DEF MergedLeaf, IsObject
    <3> QED
      BY <1>3, <2>1, <3>1
  <2> QED
    BY <2>2, <2>3
<1> QED
  BY <1>2, <1>3

LEMMA MergedIntoMeans ==
    ASSUME NEW c \in Contexts, NEW d \in Contexts
    PROVE  /\ MergedInto(c, d) \in Contexts
           /\ DOMAIN MergedInto(c, d) = DOMAIN c \cup DOMAIN d
           /\ \A k \in DOMAIN c \ DOMAIN d : MergedInto(c, d)[k] = c[k]
           /\ \A k \in DOMAIN d \ DOMAIN c : MergedInto(c, d)[k] = d[k]
           /\ \A k \in DOMAIN c \cap DOMAIN d :
                 c[k] = d[k] => MergedInto(c, d)[k] = d[k]
<1>1. IsContext(c) /\ IsContext(d)
  BY ContextsAre
<1>2. \A k \in DOMAIN c \cap DOMAIN d :
          Merged(c[k], d[k]) \in Value /\ (c[k] = d[k] => Merged(c[k], d[k]) = d[k])
  BY <1>1, MergedMeans DEF IsContext
<1>3. IsContext(MergedInto(c, d))
  BY <1>1, <1>2 DEF MergedInto, IsContext
<1> QED
  BY <1>2, <1>3, ContextsAre DEF MergedInto

\* An object under one key of both keeps the fields of both.
LEMMA MergedIntoJoins ==
    ASSUME NEW c \in Contexts, NEW d \in Contexts, NEW k \in DOMAIN c \cap DOMAIN d,
           IsObject(c[k]), IsObject(d[k])
    PROVE  /\ IsObject(MergedInto(c, d)[k])
           /\ DOMAIN MergedInto(c, d)[k].fields = DOMAIN c[k].fields \cup DOMAIN d[k].fields
<1>1. c[k] \in Value /\ d[k] \in Value
  BY ContextsAre DEF IsContext
<1>2. MergedInto(c, d)[k] = Merged(c[k], d[k])
  BY DEF MergedInto
<1> QED
  BY <1>1, <1>2, MergedMeans

\* The loop of the executor.
LEMMA MergingIsALoop ==
    ASSUME NEW R \in SUBSET DOMAIN saved, \A d \in R : saved[d] \in Contexts,
           NEW L \in Nat, NEW order \in [1 .. L -> R]
    PROVE  LET loop == Merging(order)
           IN  /\ Len(order) = L
               /\ loop[0] = Empty
               /\ \A n \in 1 .. L : loop[n] = MergedInto(loop[n - 1], saved[order[n]])
               /\ \A n \in 0 .. L : loop[n] \in Contexts
<1> DEFINE loop == Merging(order)
           Next_(r, n) == MergedInto(r, saved[order[n]])
           Turn == [n \in 1 .. L |-> [r \in Contexts |-> Next_(r, n)]]
<1>0. Len(order) = L
  OBVIOUS
<1>1. L \in Nat
  OBVIOUS
<1>2. \A n \in 1 .. L : \A r \in Contexts : Next_(r, n) \in Contexts
  BY MergedIntoMeans
<1>4. Turn \in [1 .. L -> [Contexts -> Contexts]]
  <2> HIDE DEF Next_
  <2> QED
    BY <1>2
<1>5. PICK g : IsLoop(g, L, Contexts, Empty, Turn)
  <2> HIDE DEF Turn
  <2> QED
    BY <1>1, <1>4, ContextsAre, LoopExists
<1>6. g = [n \in 0 .. L |-> IF n = 0 THEN Empty ELSE Next_(g[n - 1], n)]
  <2> HIDE DEF Next_
  <2>1. \A n \in 1 .. L : n - 1 \in 0 .. L
    BY <1>1
  <2>2. \A n \in 1 .. L : Turn[n][g[n - 1]] = Next_(g[n - 1], n)
    BY <1>5, <2>1 DEF IsLoop
  <2>3. \A n \in 0 .. L : n = 0 \/ n \in 1 .. L
    BY <1>1
  <2> HIDE DEF Turn
  <2> QED
    BY <1>5, <2>2, <2>3 DEF IsLoop
<1>7. loop = [n \in 0 .. L |-> IF n = 0 THEN Empty ELSE Next_(loop[n - 1], n)]
  BY <1>0, <1>6 DEF Merging
<1> HIDE DEF loop, Next_
<1>8. loop[0] = Empty
  BY <1>1, <1>7
<1>9. \A n \in 1 .. L : loop[n] = Next_(loop[n - 1], n)
  BY <1>1, <1>7
<1>10. \A n \in 0 .. L : loop[n] \in Contexts
  <2> DEFINE S == {n \in 0 .. L : loop[n] \in Contexts}
  <2>1. 0 \in S
    BY <1>1, <1>8, ContextsAre
  <2>2. \A n \in 1 .. L : n - 1 \in S => n \in S
    BY <1>1, <1>2, <1>9
  <2>3. S \in SUBSET (0 .. L)
    OBVIOUS
  <2> HIDE DEF S
  <2>4. S = 0 .. L
    BY <1>1, <2>1, <2>2, <2>3, TurnByTurn
  <2> QED
    BY <2>4 DEF S
<1> QED
  BY <1>0, <1>8, <1>9, <1>10 DEF loop, Next_

\* What the executor merges has the keys of all the rows, and what they agree
\* on.
LEMMA MergingMeans ==
    ASSUME NEW R \in SUBSET DOMAIN saved, \A d \in R : saved[d] \in Contexts,
           NEW L \in Nat, NEW order \in [1 .. L -> R],
           \A d \in R : \E i \in 1 .. L : order[i] = d
    PROVE  LET c == Merging(order)[Len(order)]
           IN  /\ c \in Contexts
               /\ \A k : k \in DOMAIN c <=> \E d \in R : k \in DOMAIN saved[d]
               /\ \A k \in DOMAIN c : \A v :
                     (\A d \in R : k \in DOMAIN saved[d] => saved[d][k] = v) => c[k] = v
<1> DEFINE loop == Merging(order)
           Sound_(n) ==
               /\ loop[n] \in Contexts
               /\ \A k : k \in DOMAIN loop[n] <=> \E i \in 1 .. n : k \in DOMAIN saved[order[i]]
               /\ \A k \in DOMAIN loop[n] : \A v :
                     (\A d \in R : k \in DOMAIN saved[d] => saved[d][k] = v) => loop[n][k] = v
<1>1. L \in Nat
  OBVIOUS
<1>2. /\ Len(order) = L
      /\ loop[0] = Empty
      /\ \A n \in 1 .. L : loop[n] = MergedInto(loop[n - 1], saved[order[n]])
      /\ \A n \in 0 .. L : loop[n] \in Contexts
  BY MergingIsALoop
<1> HIDE DEF loop
<1> DEFINE S == {n \in 0 .. L : Sound_(n)}
<1>10. 0 \in S
  <2>1. DOMAIN Empty = {}
    BY DEF Empty
  <2> QED
    BY <1>1, <1>2, <2>1, ContextsAre
<1>11. ASSUME NEW n \in 1 .. L, n - 1 \in S PROVE n \in S
  <2> DEFINE d == saved[order[n]]
  <2>1. /\ n \in 0 .. L /\ n - 1 \in 0 .. L
        /\ Sound_(n - 1)
        /\ order[n] \in R /\ d \in Contexts /\ loop[n - 1] \in Contexts
    BY <1>11
  <2>2. \A i : i \in 1 .. n <=> i \in 1 .. (n - 1) \/ i = n
    OBVIOUS
  <2>3. loop[n] = MergedInto(loop[n - 1], d)
    BY <1>2
  <2>4. /\ loop[n] \in Contexts
        /\ DOMAIN loop[n] = DOMAIN loop[n - 1] \cup DOMAIN d
    <3> HIDE DEF d, Sound_
    <3> QED
      BY <2>1, <2>3, MergedIntoMeans
  <2>5. \A k : k \in DOMAIN loop[n] <=> \E i \in 1 .. n : k \in DOMAIN saved[order[i]]
    BY <2>1, <2>2, <2>4
  <2>6. ASSUME NEW k \in DOMAIN loop[n], NEW v,
               \A e \in R : k \in DOMAIN saved[e] => saved[e][k] = v
        PROVE  loop[n][k] = v
    <3>1. k \in DOMAIN loop[n - 1] => loop[n - 1][k] = v
      BY <2>1, <2>6
    <3>2. k \in DOMAIN d => d[k] = v
      BY <2>1, <2>6
    <3> HIDE DEF d, Sound_
    <3> DEFINE l == loop[n - 1]
               m == MergedInto(l, d)
    <3>3. /\ \A j \in DOMAIN l \ DOMAIN d : m[j] = l[j]
          /\ \A j \in DOMAIN d \ DOMAIN l : m[j] = d[j]
          /\ \A j \in DOMAIN l \cap DOMAIN d : l[j] = d[j] => m[j] = d[j]
      <4>1. l \in Contexts /\ d \in Contexts
        BY <2>1
      <4> HIDE DEF l
      <4> QED
        BY <4>1, MergedIntoMeans
    <3> HIDE DEF m
    <3>4. CASE k \in DOMAIN d /\ k \in DOMAIN loop[n - 1]
      <4>1. m[k] = d[k]
        BY <3>3, <3>1, <3>2, <3>4
      <4> QED
        BY <2>3, <3>2, <3>4, <4>1 DEF m
    <3>5. CASE k \in DOMAIN d /\ k \notin DOMAIN loop[n - 1]
      <4>1. m[k] = d[k]
        BY <3>3, <3>5
      <4> QED
        BY <2>3, <3>2, <3>5, <4>1 DEF m
    <3>6. CASE k \notin DOMAIN d /\ k \in DOMAIN loop[n - 1]
      <4>1. m[k] = loop[n - 1][k]
        BY <3>3, <3>6
      <4> QED
        BY <2>3, <3>1, <3>6, <4>1 DEF m
    <3> QED
      BY <2>4, <3>4, <3>5, <3>6
  <2> QED
    BY <2>1, <2>4, <2>5, <2>6
<1>12. L \in S
  <2>1. S \in SUBSET (0 .. L) /\ L \in 0 .. L
    BY <1>1
  <2> HIDE DEF S
  <2> QED
    BY <1>1, <1>10, <1>11, <2>1, TurnByTurn
<1> QED
  <2>1. Sound_(L)
    BY <1>12
  <2>2. \A k : (\E i \in 1 .. L : k \in DOMAIN saved[order[i]])
                 <=> (\E d \in R : k \in DOMAIN saved[d])
    OBVIOUS
  <2> QED
    BY <1>2, <2>1, <2>2 DEF loop

\* All rows of R that have key k have an object there.
AllObjects(R, k) == \A d \in R : k \in DOMAIN saved[d] => IsObject(saved[d][k])

\* Context c has at k an object with the fields of that of row d.
HasFieldsOf(c, k, d) ==
    /\ k \in DOMAIN c
    /\ IsObject(c[k])
    /\ DOMAIN saved[d][k].fields \subseteq DOMAIN c[k].fields

\* Where all rows have an object, what is merged is one with their fields.
LEMMA MergingJoinsFields ==
    ASSUME NEW R \in SUBSET DOMAIN saved, \A d \in R : saved[d] \in Contexts,
           NEW L \in Nat, NEW order \in [1 .. L -> R],
           \A d \in R : \E i \in 1 .. L : order[i] = d,
           NEW k \in Key, AllObjects(R, k)
    PROVE  \A d \in R : k \in DOMAIN saved[d] => HasFieldsOf(Merging(order)[L], k, d)
<1> DEFINE loop == Merging(order)
           Object_(n) == k \in DOMAIN loop[n] => IsObject(loop[n][k])
           Joined_(i, n) ==
               k \in DOMAIN saved[order[i]] =>
                  /\ k \in DOMAIN loop[n]
                  /\ DOMAIN saved[order[i]][k].fields \subseteq DOMAIN loop[n][k].fields
           Sound_(n) == Object_(n) /\ \A i \in 1 .. n : Joined_(i, n)
           S == {n \in 0 .. L : Sound_(n)}
<1>1. L \in Nat
  OBVIOUS
<1>2. /\ Len(order) = L
      /\ loop[0] = Empty
      /\ \A n \in 1 .. L : loop[n] = MergedInto(loop[n - 1], saved[order[n]])
      /\ \A n \in 0 .. L : loop[n] \in Contexts
  BY MergingIsALoop
<1> HIDE DEF loop
<1>3. 0 \in S
  <2>1. DOMAIN Empty = {}
    BY DEF Empty
  <2> QED
    BY <1>1, <1>2, <2>1
<1>4. ASSUME NEW n \in 1 .. L, n - 1 \in S PROVE n \in S
  <2> DEFINE d == saved[order[n]]
             l == loop[n - 1]
             m == loop[n]
  <2>1. /\ n \in 0 .. L /\ n - 1 \in 0 .. L /\ order[n] \in R
        /\ Object_(n - 1) /\ \A i \in 1 .. (n - 1) : Joined_(i, n - 1)
    BY <1>4
  <2>2. d \in Contexts /\ l \in Contexts /\ (k \in DOMAIN d => IsObject(d[k]))
    BY <1>2, <2>1 DEF AllObjects
  <2>3. m = MergedInto(l, d)
    BY <1>2
  <2> HIDE DEF d, l, m
  <2>4. /\ DOMAIN m = DOMAIN l \cup DOMAIN d
        /\ k \in DOMAIN l \ DOMAIN d => m[k] = l[k]
        /\ k \in DOMAIN d \ DOMAIN l => m[k] = d[k]
        /\ k \in DOMAIN l \cap DOMAIN d /\ IsObject(l[k]) /\ IsObject(d[k]) =>
              /\ IsObject(m[k])
              /\ DOMAIN m[k].fields = DOMAIN l[k].fields \cup DOMAIN d[k].fields
    <3>1. /\ DOMAIN m = DOMAIN l \cup DOMAIN d
          /\ \A j \in DOMAIN l \ DOMAIN d : m[j] = l[j]
          /\ \A j \in DOMAIN d \ DOMAIN l : m[j] = d[j]
      BY ONLY <2>3 DEF MergedInto
    <3>2. ASSUME k \in DOMAIN l \cap DOMAIN d, IsObject(l[k]), IsObject(d[k])
          PROVE  /\ IsObject(m[k])
                 /\ DOMAIN m[k].fields = DOMAIN l[k].fields \cup DOMAIN d[k].fields
      BY <2>2, <2>3, <3>2, MergedIntoJoins
    <3> QED
      BY <3>1, <3>2
  <2>5. k \in DOMAIN l => IsObject(l[k])
    BY <2>1 DEF l
  <2>6. /\ k \in DOMAIN m => IsObject(m[k])
        /\ k \in DOMAIN d => k \in DOMAIN m /\ DOMAIN d[k].fields \subseteq DOMAIN m[k].fields
        /\ k \in DOMAIN l => k \in DOMAIN m /\ DOMAIN l[k].fields \subseteq DOMAIN m[k].fields
    BY <2>2, <2>4, <2>5
  <2>7. \A i \in 1 .. n : i \in 1 .. (n - 1) \/ i = n
    BY <2>1
  <2>8. ASSUME NEW i \in 1 .. n PROVE Joined_(i, n)
    <3>1. CASE i = n
      BY <2>6, <3>1 DEF d, m
    <3>2. CASE i \in 1 .. (n - 1)
      <4>1. Joined_(i, n - 1)
        BY <2>1, <3>2
      <4> QED
        BY <2>6, <4>1 DEF l, m
    <3> QED
      BY <2>7, <3>1, <3>2
  <2> QED
    BY <2>1, <2>6, <2>8 DEF m
<1>5. L \in S
  <2>1. S \in SUBSET (0 .. L) /\ L \in 0 .. L
    BY <1>1
  <2> HIDE DEF S
  <2> QED
    BY <1>1, <1>3, <1>4, <2>1, TurnByTurn
<1>6. Object_(L) /\ \A i \in 1 .. L : Joined_(i, L)
  BY <1>5
<1> QED
  BY <1>6 DEF loop, HasFieldsOf

\* The loop of the scheduler.
LEMMA LoadingIsALoop ==
    ASSUME NEW t \in Task, NEW failed, \A d \in DOMAIN saved : saved[d] \in Contexts
    PROVE  LET loop == Loading(t, failed)
               R == (Deps(t) \cap DOMAIN saved) \ failed
               L == Len(Depends[t])
           IN  /\ L \in Nat
               /\ \A d \in R : \E n \in 1 .. L : Depends[t][n] = d
               /\ loop[0] = Empty
               /\ \A n \in 1 .. L :
                     loop[n] = IF Depends[t][n] \in R
                               THEN TakenBack(loop[n - 1], saved[Depends[t][n]])
                               ELSE loop[n - 1]
               /\ \A n \in 0 .. L : loop[n] \in Contexts
<1> DEFINE loop == Loading(t, failed)
           L == Len(Depends[t])
           R == (Deps(t) \cap DOMAIN saved) \ failed
           Next_(r, n) == IF Depends[t][n] \in DOMAIN saved \ failed
                          THEN TakenBack(r, saved[Depends[t][n]]) ELSE r
           Turn == [n \in 1 .. L |-> [r \in Contexts |-> Next_(r, n)]]
<1>0. Depends[t] \in Seq(Task) /\ DOMAIN Depends[t] = 1 .. L
  BY DataFlowAssumption
<1>1. L \in Nat
  BY <1>0
<1>2. \A n \in 1 .. L : \A r \in Contexts : Next_(r, n) \in Contexts
  BY TakenBackMeans
<1>3. /\ \A n \in 1 .. L : Depends[t][n] \in DOMAIN saved \ failed <=> Depends[t][n] \in R
      /\ \A d \in R : \E n \in 1 .. L : Depends[t][n] = d
  BY <1>0 DEF Deps
<1> HIDE DEF R
<1>4. Turn \in [1 .. L -> [Contexts -> Contexts]]
  <2> HIDE DEF Next_, L
  <2> QED
    BY <1>2
<1>5. PICK g : IsLoop(g, L, Contexts, Empty, Turn)
  <2> HIDE DEF Turn, L
  <2> QED
    BY <1>1, <1>4, ContextsAre, LoopExists
<1>6. g = [n \in 0 .. L |-> IF n = 0 THEN Empty ELSE Next_(g[n - 1], n)]
  <2> HIDE DEF Next_, L
  <2>1. \A n \in 1 .. L : n - 1 \in 0 .. L
    BY <1>1
  <2>2. \A n \in 1 .. L : Turn[n][g[n - 1]] = Next_(g[n - 1], n)
    BY <1>5, <2>1 DEF IsLoop
  <2>3. \A n \in 0 .. L : n = 0 \/ n \in 1 .. L
    BY <1>1
  <2> HIDE DEF Turn
  <2> QED
    BY <1>5, <2>2, <2>3 DEF IsLoop
<1>7. loop = [n \in 0 .. L |-> IF n = 0 THEN Empty ELSE Next_(loop[n - 1], n)]
  BY <1>6 DEF Loading
<1> HIDE DEF loop, Next_
<1>8. loop[0] = Empty
  BY <1>1, <1>7
<1>9. \A n \in 1 .. L : loop[n] = Next_(loop[n - 1], n)
  BY <1>1, <1>7
<1>10. \A n \in 0 .. L : loop[n] \in Contexts
  <2> DEFINE S == {n \in 0 .. L : loop[n] \in Contexts}
  <2> HIDE DEF L
  <2>1. 0 \in S
    BY <1>1, <1>8, ContextsAre
  <2>2. \A n \in 1 .. L : n - 1 \in S => n \in S
    BY <1>1, <1>2, <1>9
  <2>3. S \in SUBSET (0 .. L)
    OBVIOUS
  <2> HIDE DEF S
  <2>4. S = 0 .. L
    BY <1>1, <2>1, <2>2, <2>3, TurnByTurn
  <2> QED
    BY <2>4 DEF S
<1>11. \A n \in 1 .. L :
          loop[n] = IF Depends[t][n] \in R
                    THEN TakenBack(loop[n - 1], saved[Depends[t][n]])
                    ELSE loop[n - 1]
  <2> HIDE DEF L
  <2> QED
    BY <1>3, <1>9 DEF Next_
<1> QED
  BY <1>1, <1>3, <1>8, <1>10, <1>11 DEF loop, R

\* What the scheduler loads has the keys of all the contexts it could read,
\* and what they agree on.
LEMMA LoadingMeans ==
    ASSUME NEW t \in Task, NEW failed, \A d \in DOMAIN saved : saved[d] \in Contexts
    PROVE  LET c == Loading(t, failed)[Len(Depends[t])]
               R == (Deps(t) \cap DOMAIN saved) \ failed
           IN  /\ c \in Contexts
               /\ \A k : k \in DOMAIN c <=> \E d \in R : k \in DOMAIN saved[d]
               /\ \A k \in DOMAIN c : \A v :
                     (\A d \in R : k \in DOMAIN saved[d] => saved[d][k] = v) => c[k] = v
<1> DEFINE loop == Loading(t, failed)
           L == Len(Depends[t])
           R == (Deps(t) \cap DOMAIN saved) \ failed
           Sound_(n) ==
               /\ loop[n] \in Contexts
               /\ \A k : k \in DOMAIN loop[n] <=>
                     \E i \in 1 .. n : Depends[t][i] \in R /\ k \in DOMAIN saved[Depends[t][i]]
               /\ \A k \in DOMAIN loop[n] : \A v :
                     (\A d \in R : k \in DOMAIN saved[d] => saved[d][k] = v) => loop[n][k] = v
<1>1. L \in Nat
  BY LoadingIsALoop
<1>2. /\ \A d \in R : \E n \in 1 .. L : Depends[t][n] = d
      /\ loop[0] = Empty
      /\ \A n \in 1 .. L :
            loop[n] = IF Depends[t][n] \in R
                      THEN TakenBack(loop[n - 1], saved[Depends[t][n]])
                      ELSE loop[n - 1]
      /\ \A n \in 0 .. L : loop[n] \in Contexts
  BY LoadingIsALoop
<1>3. \A d \in R : saved[d] \in Contexts
  OBVIOUS
<1> HIDE DEF R, loop
<1> DEFINE S == {n \in 0 .. L : Sound_(n)}
<1>10. 0 \in S
  <2>1. DOMAIN Empty = {}
    BY DEF Empty
  <2> HIDE DEF L
  <2> QED
    BY <1>1, <1>2, <2>1, ContextsAre
<1>11. ASSUME NEW n \in 1 .. L, n - 1 \in S PROVE n \in S
  <2> HIDE DEF L
  <2> DEFINE d == saved[Depends[t][n]]
  <2>1. /\ n \in 0 .. L /\ n - 1 \in 0 .. L
        /\ Sound_(n - 1) /\ loop[n - 1] \in Contexts
    BY <1>1, <1>11
  <2>2. \A i : i \in 1 .. n <=> i \in 1 .. (n - 1) \/ i = n
    BY <1>1
  <2>3. CASE Depends[t][n] \in R
    <3>1. loop[n] = TakenBack(loop[n - 1], d) /\ d \in Contexts
      BY <1>2, <1>3, <2>3
    <3>2. /\ loop[n] \in Contexts
          /\ DOMAIN loop[n] = DOMAIN loop[n - 1] \cup DOMAIN d
      <4> HIDE DEF d, Sound_
      <4> QED
        BY <2>1, <3>1, TakenBackMeans
    <3>3. \A k : k \in DOMAIN loop[n] <=>
              \E i \in 1 .. n : Depends[t][i] \in R /\ k \in DOMAIN saved[Depends[t][i]]
      BY <2>1, <2>2, <2>3, <3>2
    <3>4. ASSUME NEW k \in DOMAIN loop[n], NEW v,
                 \A e \in R : k \in DOMAIN saved[e] => saved[e][k] = v
          PROVE  loop[n][k] = v
      <4>1. k \in DOMAIN loop[n - 1] => loop[n - 1][k] = v
        BY <2>1, <3>4
      <4>2. k \in DOMAIN d => d[k] = v
        BY <2>3, <3>4
      <4> HIDE DEF d, Sound_
      <4>3. CASE k \in DOMAIN d
        <5>1. TakenBack(loop[n - 1], d)[k] = d[k]
          BY <2>1, <3>1, <4>3, TakenBackMeans
        <5> QED
          BY <3>1, <4>2, <4>3, <5>1
      <4>4. CASE k \notin DOMAIN d
        <5>1. k \in DOMAIN loop[n - 1]
          BY <3>2, <4>4
        <5>2. TakenBack(loop[n - 1], d)[k] = loop[n - 1][k]
          BY <2>1, <3>1, <4>4, <5>1, TakenBackMeans, ZenonT(40)
        <5> QED
          BY <3>1, <4>1, <5>1, <5>2
      <4> QED
        BY <4>3, <4>4
    <3> QED
      BY <2>1, <3>2, <3>3, <3>4
  <2>4. CASE Depends[t][n] \notin R
    <3>1. loop[n] = loop[n - 1]
      BY <1>2, <2>4
    <3>2. \A k : k \in DOMAIN loop[n] <=>
              \E i \in 1 .. n : Depends[t][i] \in R /\ k \in DOMAIN saved[Depends[t][i]]
      BY <2>1, <2>2, <2>4, <3>1
    <3> QED
      BY <2>1, <3>1, <3>2
  <2> QED
    BY <2>3, <2>4
<1>12. L \in S
  <2>1. S \in SUBSET (0 .. L) /\ L \in 0 .. L
    BY <1>1
  <2> HIDE DEF S
  <2> QED
    BY <1>1, <1>10, <1>11, <2>1, TurnByTurn
<1> QED
  <2>1. Sound_(L)
    BY <1>12
  <2>2. \A k : (\E i \in 1 .. L : Depends[t][i] \in R /\ k \in DOMAIN saved[Depends[t][i]])
                 <=> (\E d \in R : k \in DOMAIN saved[d])
    <3> HIDE DEF L
    <3> QED
      BY <1>2
  <2> QED
    BY <2>1, <2>2 DEF loop, R

\* The value of a key is, whole, that of one of the contexts.
LEMMA LoadingTakesOne ==
    ASSUME NEW t \in Task, NEW failed, \A d \in DOMAIN saved : saved[d] \in Contexts
    PROVE  LET c == Loading(t, failed)[Len(Depends[t])]
               R == (Deps(t) \cap DOMAIN saved) \ failed
           IN  \A k \in DOMAIN c : \E d \in R : k \in DOMAIN saved[d] /\ c[k] = saved[d][k]
<1> DEFINE loop == Loading(t, failed)
           L == Len(Depends[t])
           R == (Deps(t) \cap DOMAIN saved) \ failed
           Sound_(n) == \A k \in DOMAIN loop[n] :
                            \E d \in R : k \in DOMAIN saved[d] /\ loop[n][k] = saved[d][k]
           S == {n \in 0 .. L : Sound_(n)}
<1>1. L \in Nat
  BY LoadingIsALoop
<1>2. /\ loop[0] = Empty
      /\ \A n \in 1 .. L :
            loop[n] = IF Depends[t][n] \in R
                      THEN TakenBack(loop[n - 1], saved[Depends[t][n]])
                      ELSE loop[n - 1]
      /\ \A n \in 0 .. L : loop[n] \in Contexts
  BY LoadingIsALoop
<1>3. \A d \in R : saved[d] \in Contexts
  OBVIOUS
<1> HIDE DEF R, loop, L
<1>4. 0 \in S
  <2>1. DOMAIN Empty = {}
    BY DEF Empty
  <2> QED
    BY <1>1, <1>2, <2>1
<1>5. ASSUME NEW n \in 1 .. L, n - 1 \in S PROVE n \in S
  <2>1. n \in 0 .. L /\ n - 1 \in 0 .. L /\ Sound_(n - 1) /\ loop[n - 1] \in Contexts
    BY <1>1, <1>2, <1>5
  <2>2. CASE Depends[t][n] \in R
    <3> DEFINE d == saved[Depends[t][n]]
               l == loop[n - 1]
               m == loop[n]
    <3>1. m = TakenBack(l, d) /\ d \in Contexts
      BY <1>2, <1>3, <2>2
    <3> HIDE DEF l, m, d
    <3>2. /\ DOMAIN m = DOMAIN l \cup DOMAIN d
          /\ \A k \in DOMAIN d : m[k] = d[k]
          /\ \A k \in DOMAIN l \ DOMAIN d : m[k] = l[k]
      BY <2>1, <3>1, TakenBackMeans DEF l
    <3>3. ASSUME NEW k \in DOMAIN m
          PROVE  \E e \in R : k \in DOMAIN saved[e] /\ m[k] = saved[e][k]
      <4>1. CASE k \in DOMAIN d
        BY <2>2, <3>2, <4>1 DEF d
      <4>2. CASE k \notin DOMAIN d
        <5>1. k \in DOMAIN l /\ m[k] = l[k]
          BY <3>2, <3>3, <4>2
        <5> QED
          BY <2>1, <5>1 DEF l
      <4> QED
        BY <4>1, <4>2
    <3> QED
      BY <2>1, <3>3 DEF m
  <2>3. CASE Depends[t][n] \notin R
    BY <1>2, <2>1, <2>3
  <2> QED
    BY <2>2, <2>3
<1>6. L \in S
  <2>1. S \in SUBSET (0 .. L) /\ L \in 0 .. L
    BY <1>1
  <2> HIDE DEF S
  <2> QED
    BY <1>1, <1>4, <1>5, <2>1, TurnByTurn
<1>7. Sound_(L)
  BY <1>6
<1> QED
  BY <1>7 DEF loop, R, L

\* What a body leaves of a key it does not touch, and what it cannot lose.
LEMMA RanMeans ==
    ASSUME NEW t \in Task, NEW c \in Contexts, body[t].ops \in Seq(Operation)
    PROVE  LET ops == body[t].ops
               result == Ran(t, c).context
           IN  /\ result \in Contexts
               /\ \A k : (\A i \in DOMAIN ops : ops[i].key # k) =>
                            /\ k \in DOMAIN result <=> k \in DOMAIN c
                            /\ k \in DOMAIN c => result[k] = c[k]
               /\ (\A i \in DOMAIN ops : ops[i].call # "remove") => DOMAIN c \subseteq DOMAIN result
<1> DEFINE ops == body[t].ops
           L == Len(ops)
           run == Run(ops, t, c)
           Untouched(k) == \A i \in DOMAIN ops : ops[i].key # k
           Kept == \A i \in DOMAIN ops : ops[i].call # "remove"
           Sound_(n) ==
               /\ \A k : Untouched(k) =>
                            /\ k \in DOMAIN run[n].context <=> k \in DOMAIN c
                            /\ k \in DOMAIN c => run[n].context[k] = c[k]
               /\ Kept => DOMAIN c \subseteq DOMAIN run[n].context
           S == {n \in 0 .. L : Sound_(n)}
<1>1. /\ L \in Nat /\ DOMAIN ops = 1 .. L
      /\ \A n \in 1 .. L : ops[n] \in Operation
  OBVIOUS
<1>2. /\ run[0] = [ok |-> TRUE, context |-> c]
      /\ \A n \in 1 .. L :
            run[n] = IF run[n - 1].ok /\ Allowed(ops[n], run[n - 1].context)
                     THEN [ok |-> TRUE, context |-> Apply(ops[n], run[n - 1].context, t)]
                     ELSE [ok |-> FALSE, context |-> run[n - 1].context]
      /\ \A n \in 0 .. L : run[n].context \in Contexts
  BY RunIsALoop
<1> HIDE DEF run, L, ops
<1>3. 0 \in S
  BY <1>1, <1>2
<1>4. ASSUME NEW n \in 1 .. L, n - 1 \in S PROVE n \in S
  <2> DEFINE before == run[n - 1].context
             after == run[n].context
  <2>1. /\ n \in 0 .. L /\ n - 1 \in 0 .. L /\ n \in DOMAIN ops /\ ops[n] \in Operation
        /\ Sound_(n - 1) /\ before \in Contexts
    BY <1>1, <1>2, <1>4
  <2>2. after = before \/ after = Apply(ops[n], before, t)
    <3>1. run[n] = IF run[n - 1].ok /\ Allowed(ops[n], run[n - 1].context)
                   THEN [ok |-> TRUE, context |-> Apply(ops[n], run[n - 1].context, t)]
                   ELSE [ok |-> FALSE, context |-> run[n - 1].context]
      BY <1>2
    <3>2. CASE run[n - 1].ok /\ Allowed(ops[n], run[n - 1].context)
      BY <3>1, <3>2
    <3>3. CASE ~(run[n - 1].ok /\ Allowed(ops[n], run[n - 1].context))
      BY <3>1, <3>3
    <3> QED
      BY <3>2, <3>3
  <2>3. CASE after = before
    BY <2>1, <2>3
  <2>4. CASE after = Apply(ops[n], before, t)
    <3> DEFINE a == Apply(ops[n], before, t)
    <3>1. /\ DOMAIN a = IF ops[n].call = "remove" THEN DOMAIN before \ {ops[n].key}
                        ELSE DOMAIN before \cup {ops[n].key}
          /\ \A k \in DOMAIN before \ {ops[n].key} : a[k] = before[k]
      <4> HIDE DEF before
      <4> QED
        BY <2>1, ApplyMeans, ZenonT(40)
    <3> HIDE DEF a
    <3>2. \A k : Untouched(k) => k # ops[n].key
      BY <2>1
    <3>3. Kept => ops[n].call # "remove"
      BY <2>1
    <3>4. Sound_(n)
      BY <2>1, <2>4, <3>1, <3>2, <3>3 DEF a
    <3> QED
      BY <2>1, <3>4
  <2> QED
    BY <2>2, <2>3, <2>4
<1>5. L \in S
  <2>1. S \in SUBSET (0 .. L) /\ L \in 0 .. L
    BY <1>1
  <2> HIDE DEF S
  <2> QED
    BY <1>1, <1>3, <1>4, <2>1, TurnByTurn
<1>6. Ran(t, c) = run[L]
  BY DEF Ran, run, L, ops
<1> QED
  BY <1>1, <1>2, <1>5, <1>6 DEF ops

LEMMA ExecutedMeans ==
    ASSUME NEW t \in Task, NEW c \in Contexts, body[t].ops \in Seq(Operation)
    PROVE  LET ops == body[t].ops
               result == Executed(t, c)
           IN  /\ result \in Contexts
               /\ \A k : (\A i \in DOMAIN ops : ops[i].key # k) =>
                            /\ k \in DOMAIN result <=> k \in DOMAIN c
                            /\ k \in DOMAIN c => result[k] = c[k]
               /\ (\A i \in DOMAIN ops : ops[i].call # "remove") /\ body[t].returns =>
                     result = Ran(t, c).context
<1> DEFINE ops == body[t].ops
           ran == Ran(t, c).context
           Untouched(k) == \A i \in DOMAIN ops : ops[i].key # k
           Kept == \A i \in DOMAIN ops : ops[i].call # "remove"
<1>1. /\ ran \in Contexts
      /\ \A k : Untouched(k) => /\ k \in DOMAIN ran <=> k \in DOMAIN c
                                /\ k \in DOMAIN c => ran[k] = c[k]
      /\ Kept => DOMAIN c \subseteq DOMAIN ran
  BY RanMeans
<1> HIDE DEF ops, ran
<1>2. Kind[t] \in {"native", "packaged", "python"}
  BY DataFlowAssumption DEF Kinds
<1>3. CASE Kind[t] = "native"
  <2>1. Executed(t, c) = ran
    BY <1>3 DEF Executed, ran
  <2> QED
    BY <1>1, <2>1 DEF ops, ran
<1>4. CASE Kind[t] = "packaged"
  <2> DEFINE back == TakenBack(c, ran)
  <2>1. Executed(t, c) = back
    BY <1>4 DEF Executed, ran
  <2>2. /\ back \in Contexts
        /\ DOMAIN back = DOMAIN c \cup DOMAIN ran
        /\ \A k \in DOMAIN ran : back[k] = ran[k]
        /\ \A k \in DOMAIN c \ DOMAIN ran : back[k] = c[k]
    BY <1>1, TakenBackMeans
  <2>3. ASSUME Kept PROVE back = ran
    <3>1. IsContext(back) /\ IsContext(ran)
      BY <1>1, <2>2, ContextsAre
    <3>2. DOMAIN back = DOMAIN ran
      BY <1>1, <2>2, <2>3
    <3> HIDE DEF back
    <3> QED
      BY <2>2, <3>1, <3>2 DEF IsContext
  <2>4. \A k : Untouched(k) => /\ k \in DOMAIN back <=> k \in DOMAIN c
                               /\ k \in DOMAIN c => back[k] = c[k]
    BY <1>1, <2>2
  <2> HIDE DEF back
  <2> QED
    BY <2>1, <2>2, <2>3, <2>4 DEF ops, ran
<1>5. CASE Kind[t] = "python"
  <2>1. Executed(t, c) = IF body[t].returns THEN ran ELSE c
    BY <1>5 DEF Executed, ran
  <2> QED
    BY <1>1, <2>1 DEF ops, ran
<1> QED
  BY <1>2, <1>3, <1>4, <1>5

-----------------------------------------------------------------------------
(***************************************************************************)
(* The contexts of a pipeline.                                             *)
(***************************************************************************)

\* The types, with those of the contexts.
FlowTypeOK ==
    /\ TypeOK
    /\ IsFiniteSet(missed)
    /\ \A t \in Task : body[t].ops \in Seq(Operation)
    /\ initial \in Contexts
    /\ \A t \in DOMAIN given : given[t] \in Contexts
    /\ \A t \in DOMAIN saved : saved[t] \in Contexts

\* No dependency of a task that was evaluated will change any more.
SettledBefore ==
    \A t \in Task : status[t] # "NotStarted" => \A d \in Deps(t) : status[d] \in Settled

\* A key that one task alone touches has the value that task saved in every
\* context that is saved.
Lineage ==
    \A d \in DOMAIN saved : \A k \in DOMAIN saved[d] \ DOMAIN initial : \A w \in Task :
        Touching(k) = {w} => w \in DOMAIN saved /\ saved[d][k] = saved[w][k]

SavedIsExecuted ==
    \A t \in DOMAIN saved : t \in DOMAIN given /\ saved[t] = Executed(t, given[t])

\* Context c has the keys of the rows of t, and the values they agree on.
Gathered(t, c) ==
    LET before == Deps(t) \cap DOMAIN saved
    IN  IF Deps(t) = {} THEN c = initial
        ELSE /\ \A k \in Key : k \in DOMAIN c <=> \E d \in before : k \in DOMAIN saved[d]
             /\ \A d \in before : \A k \in DOMAIN saved[d] :
                   (\A e \in before : k \in DOMAIN saved[e] => saved[e][k] = saved[d][k])
                   => c[k] = saved[d][k]

\* Both sides gather what the dependencies saved, unless a read failed.
BothGather ==
    /\ \A t \in DOMAIN seen \ missed : seen[t] \in Contexts /\ Gathered(t, seen[t])
    /\ \A t \in DOMAIN given \ missed : Gathered(t, given[t])

\* Under each key context c has, whole, the value of one of the rows of t.
TakesOne(t, c) ==
    Deps(t) # {} => \A k \in DOMAIN c : \E d \in Providing(t, k) : c[k] = saved[d][k]

\* Where all rows of t have an object, context c has one with all their fields.
JoinsFields(t, c) ==
    \A k \in Key : (\A d \in Providing(t, k) : IsObject(saved[d][k])) =>
        \A d \in Providing(t, k) : HasFieldsOf(c, k, d)

\* The scheduler takes one value, the executor joins the fields of all.
EachItsOwnWay ==
    /\ \A t \in DOMAIN seen \ missed : TakesOne(t, seen[t])
    /\ \A t \in DOMAIN given \ missed : JoinsFields(t, given[t])

\* A task that was not skipped had what its rule asks for.
RulesHold ==
    \A t \in Task : status[t] \notin {"NotStarted", "Skipped"} => Rule[t] \subseteq DOMAIN seen[t]

\* What is recorded of an error is what was decided on it.
Decided ==
    \A t \in DOMAIN verdict :
        LET error == verdict[t].error
        IN  /\ error.kind \in {"execution", "timeout", "validation"}
            /\ error.word \in Words
            /\ verdict[t] = ExecutionResult(error, ShouldRetry(Policy[t], error, FirstAttempt))

FInv ==
    /\ FlowTypeOK
    /\ SettledBefore
    /\ Lineage
    /\ SavedIsExecuted
    /\ BothGather
    /\ EachItsOwnWay
    /\ RulesHold
    /\ Decided
    /\ SoleWriterIsSeen

\* A task has finitely many dependencies.
LEMMA DepsFinite ==
    ASSUME NEW t \in Task
    PROVE  IsFiniteSet(Deps(t)) /\ Deps(t) \subseteq Task
<1> DEFINE L == Len(Depends[t])
<1>1. Depends[t] \in [1 .. L -> Task] /\ L \in Nat
  BY DataFlowAssumption
<1>2. Depends[t] \in Surjection(1 .. L, Deps(t))
  BY <1>1 DEF Surjection, Deps
<1>3. IsFiniteSet(1 .. L)
  <2>1. 1 \in Int /\ L \in Int
    BY <1>1
  <2> QED
    BY <2>1, FS_Interval, Zenon
<1>4. IsFiniteSet(Deps(t))
  <2> HIDE DEF L
  <2> QED
    BY <1>2, <1>3, FS_Surjection, Zenon
<1> QED
  BY <1>1, <1>4 DEF Deps

\* What the scheduler loads without a fault, and what the executor merges in
\* whatever order, gathers what the dependencies saved.
LEMMA LoadedGathers ==
    ASSUME FlowTypeOK, NEW t \in Task
    PROVE  Loaded(t, {}) \in Contexts /\ Gathered(t, Loaded(t, {}))
<1> DEFINE c == Loading(t, {})[Len(Depends[t])]
           before == Deps(t) \cap DOMAIN saved
<1>1. CASE Deps(t) = {}
  BY <1>1 DEF Loaded, Gathered, FlowTypeOK
<1>2. CASE Deps(t) # {}
  <2>1. /\ c \in Contexts
        /\ \A k : k \in DOMAIN c <=> \E d \in before \ {} : k \in DOMAIN saved[d]
        /\ \A k \in DOMAIN c : \A v :
              (\A d \in before \ {} : k \in DOMAIN saved[d] => saved[d][k] = v) => c[k] = v
    <3>1. \A d \in DOMAIN saved : saved[d] \in Contexts
      BY DEF FlowTypeOK
    <3> QED
      BY <3>1, LoadingMeans
  <2>2. Loaded(t, {}) = c
    BY <1>2 DEF Loaded
  <2>3. before \ {} = before
    OBVIOUS
  <2> HIDE DEF c
  <2>4. Gathered(t, c)
    BY <1>2, <2>1, <2>3 DEF Gathered
  <2> QED
    BY <2>1, <2>2, <2>4
<1> QED
  BY <1>1, <1>2

LEMMA BuiltGathers ==
    ASSUME FlowTypeOK, NEW t \in Task, NEW order \in RowOrders(t)
    PROVE  Built(t, order) \in Contexts /\ Gathered(t, Built(t, order))
<1> DEFINE c == Merging(order)[Len(order)]
           before == Deps(t) \cap DOMAIN saved
           L == Cardinality(before)
<1>1. CASE Deps(t) = {}
  BY <1>1 DEF Built, Gathered, FlowTypeOK
<1>2. CASE Deps(t) # {}
  <2>1. L \in Nat
    BY DepsFinite, FS_Subset, FS_CardinalityType
  <2>2. /\ order \in [1 .. L -> before]
        /\ \A d \in before : \E i \in 1 .. L : order[i] = d
    BY DEF RowOrders
  <2>3. before \in SUBSET DOMAIN saved /\ \A d \in before : saved[d] \in Contexts
    BY DEF FlowTypeOK
  <2>4. /\ c \in Contexts
        /\ \A k : k \in DOMAIN c <=> \E d \in before : k \in DOMAIN saved[d]
        /\ \A k \in DOMAIN c : \A v :
              (\A d \in before : k \in DOMAIN saved[d] => saved[d][k] = v) => c[k] = v
    <3> HIDE DEF L, before
    <3> QED
      BY <2>1, <2>2, <2>3, MergingMeans, ZenonT(30)
  <2>5. Built(t, order) = c
    BY <1>2 DEF Built
  <2> HIDE DEF c
  <2>6. Gathered(t, c)
    BY <1>2, <2>4 DEF Gathered
  <2> QED
    BY <2>4, <2>5, <2>6
<1> QED
  BY <1>1, <1>2

LEMMA LoadedTakesOne ==
    ASSUME FlowTypeOK, NEW t \in Task
    PROVE  TakesOne(t, Loaded(t, {}))
<1> DEFINE c == Loading(t, {})[Len(Depends[t])]
           before == (Deps(t) \cap DOMAIN saved) \ {}
<1>1. \A d \in DOMAIN saved : saved[d] \in Contexts
  BY DEF FlowTypeOK
<1>2. \A k \in DOMAIN c : \E d \in before : k \in DOMAIN saved[d] /\ c[k] = saved[d][k]
  BY <1>1, LoadingTakesOne
<1>3. Deps(t) # {} => Loaded(t, {}) = c
  BY DEF Loaded
<1> HIDE DEF c
<1> QED
  BY <1>2, <1>3 DEF TakesOne, Providing

LEMMA BuiltJoinsFields ==
    ASSUME FlowTypeOK, NEW t \in Task, NEW order \in RowOrders(t)
    PROVE  JoinsFields(t, Built(t, order))
<1> DEFINE before == Deps(t) \cap DOMAIN saved
           L == Cardinality(before)
<1> SUFFICES ASSUME NEW k \in Key, \A d \in Providing(t, k) : IsObject(saved[d][k]),
                    NEW d \in Providing(t, k)
             PROVE  HasFieldsOf(Built(t, order), k, d)
  BY DEF JoinsFields
<1>1. L \in Nat
  BY DepsFinite, FS_Subset, FS_CardinalityType
<1>2. /\ order \in [1 .. L -> before]
      /\ \A e \in before : \E i \in 1 .. L : order[i] = e
  BY DEF RowOrders
<1>3. before \in SUBSET DOMAIN saved /\ \A e \in before : saved[e] \in Contexts
  BY DEF FlowTypeOK
<1>4. AllObjects(before, k)
  BY DEF Providing, AllObjects
<1>5. d \in before /\ k \in DOMAIN saved[d]
  BY DEF Providing
<1>6. Built(t, order) = Merging(order)[L]
  <2>1. Len(order) = L
    BY <1>1, <1>2
  <2> HIDE DEF L
  <2> QED
    BY <1>5, <2>1 DEF Built
<1> HIDE DEF L, before
<1>7. HasFieldsOf(Merging(order)[L], k, d)
  BY <1>1, <1>2, <1>3, <1>4, <1>5, MergingJoinsFields, ZenonT(30)
<1> QED
  BY <1>6, <1>7

LEMMA FlowStarts == Init => FInv
<1> SUFFICES ASSUME Init PROVE FInv
  OBVIOUS
<1>1. DOMAIN Empty = {}
  BY DEF Empty
<1>2. \A t \in Task : body[t] \in Bodies[t]
  BY DEF Init
<1>3. \A t \in Task : body[t].ops \in Seq(Operation)
  BY <1>2, DataFlowAssumption
<1>4. IsFiniteSet(missed) /\ Cardinality(missed) <= MaxMisses /\ missed = {}
  BY FS_EmptySet, DataFlowAssumption DEF Init
<1>5. initial \in Inputs /\ initial \in Contexts
  BY DataFlowAssumption, ContextsAre DEF Init
<1>6. /\ \A t \in Task : status[t] = "NotStarted"
      /\ status \in [Task -> Settled \cup {"NotStarted", "Ready", "Running", "Retry"}]
      /\ DOMAIN seen = {} /\ DOMAIN given = {} /\ DOMAIN saved = {} /\ DOMAIN verdict = {}
  BY <1>1 DEF Init
<1>7. FlowTypeOK
  BY <1>2, <1>3, <1>4, <1>5, <1>6 DEF FlowTypeOK, TypeOK, Settled
<1> QED
  BY <1>6, <1>7 DEF FInv, SettledBefore, Lineage, SavedIsExecuted, BothGather, EachItsOwnWay, RulesHold,
                    Decided, SoleWriterIsSeen

\* One more task may be missed.
LEMMA MissedMeans ==
    ASSUME FlowTypeOK, NEW t \in Task, MayMiss(t)
    PROVE  /\ IsFiniteSet(missed \cup {t})
           /\ Cardinality(missed \cup {t}) <= MaxMisses
<1>1. /\ IsFiniteSet(missed) /\ Cardinality(missed) \in Nat
      /\ Cardinality(missed) <= MaxMisses /\ MaxMisses \in Nat
  BY FS_CardinalityType, DataFlowAssumption DEF FlowTypeOK, TypeOK
<1>2. /\ IsFiniteSet(missed \cup {t})
      /\ Cardinality(missed \cup {t}) =
             IF t \in missed THEN Cardinality(missed) ELSE Cardinality(missed) + 1
  BY <1>1, FS_AddElement
<1> QED
  BY <1>1, <1>2 DEF MayMiss

\* What the invariant says of the state a task is in.
LEMMA WhereTasksAre ==
    ASSUME FlowTypeOK, NEW t \in Task
    PROVE  /\ status[t] \in Settled \cup {"NotStarted", "Ready", "Running", "Retry"}
           /\ t \in DOMAIN saved <=> status[t] = "Completed"
           /\ t \in DOMAIN verdict <=> status[t] \in {"Failed", "Retry"}
           /\ t \in DOMAIN given <=> status[t] \notin {"NotStarted", "Ready", "Skipped"}
           /\ t \in DOMAIN seen <=> status[t] # "NotStarted"
  BY DEF FlowTypeOK, TypeOK

LEMMA EvaluateKeeps ==
    ASSUME FInv, NEW t \in Task, Evaluate(t)
    PROVE  FInv'
<1>1. PICK failed \in SUBSET (Deps(t) \cap DOMAIN saved) :
          /\ failed # {} => MayMiss(t)
          /\ missed' = IF failed = {} THEN missed ELSE missed \cup {t}
          /\ seen' = With(seen, t, Loaded(t, failed))
  BY DEF Evaluate
<1>2. /\ status[t] = "NotStarted"
      /\ \A d \in Deps(t) : status[d] \in Settled
      /\ status' = [status EXCEPT ![t] = IF Rule[t] \subseteq DOMAIN seen'[t]
                                         THEN "Ready" ELSE "Skipped"]
      /\ UNCHANGED <<body, initial, given, saved, verdict>>
  BY DEF Evaluate
<1>3. FlowTypeOK
  BY DEF FInv
<1>4. /\ status \in [Task -> Settled \cup {"NotStarted", "Ready", "Running", "Retry"}]
      /\ t \notin DOMAIN seen /\ t \notin DOMAIN given /\ t \notin DOMAIN saved
      /\ t \notin DOMAIN verdict /\ t \notin missed /\ missed \subseteq DOMAIN seen
  BY <1>2, <1>3 DEF FlowTypeOK, TypeOK, Settled
<1>5. /\ status'[t] \in {"Ready", "Skipped"}
      /\ status'[t] = "Ready" => Rule[t] \subseteq DOMAIN seen'[t]
      /\ \A u \in Task : u # t => status'[u] = status[u]
      /\ status' \in [Task -> Settled \cup {"NotStarted", "Ready", "Running", "Retry"}]
  BY <1>2, <1>4 DEF Settled
<1>6. /\ DOMAIN seen' = DOMAIN seen \cup {t}
      /\ seen'[t] = Loaded(t, failed)
      /\ \A u \in DOMAIN seen : u # t => seen'[u] = seen[u]
  BY <1>1 DEF With
<1>7. /\ IsFiniteSet(missed') /\ Cardinality(missed') <= MaxMisses
      /\ missed \subseteq missed' /\ missed' \subseteq missed \cup {t}
      /\ t \notin missed' => failed = {}
  BY <1>1, <1>3, <1>4, MissedMeans DEF FlowTypeOK, TypeOK
<1>8. FlowTypeOK'
  <2>1. /\ DOMAIN saved' = {u \in Task : status'[u] = "Completed"}
        /\ DOMAIN verdict' = {u \in Task : status'[u] \in {"Failed", "Retry"}}
        /\ DOMAIN given' = {u \in Task : status'[u] \notin {"NotStarted", "Ready", "Skipped"}}
        /\ DOMAIN seen' = {u \in Task : status'[u] # "NotStarted"}
    BY <1>2, <1>3, <1>5, <1>6 DEF FlowTypeOK, TypeOK
  <2>2. missed' \subseteq DOMAIN seen'
    BY <1>4, <1>6, <1>7
  <2> QED
    BY <1>2, <1>3, <1>5, <1>7, <2>1, <2>2 DEF FlowTypeOK, TypeOK
<1>9. SettledBefore'
  <2> SUFFICES ASSUME NEW u \in Task, status'[u] # "NotStarted", NEW d \in Deps(u)
               PROVE  status'[d] \in Settled
    BY DEF SettledBefore
  <2>1. status[d] \in Settled /\ d \in Task
    BY <1>2, <1>5, DepsFinite DEF FInv, SettledBefore
  <2> QED
    BY <1>2, <1>5, <2>1 DEF Settled
<1>10. Lineage'
  <2>1. saved' = saved /\ initial' = initial /\ \A k : Touching(k)' = Touching(k)
    BY <1>2 DEF Touching
  <2>2. Lineage
    BY DEF FInv
  <2> QED
    BY <2>1, <2>2 DEF Lineage
<1>11. SavedIsExecuted'
  BY <1>2 DEF FInv, SavedIsExecuted, Executed, Ran
<1>12. BothGather'
  <2>1. ASSUME NEW u \in DOMAIN seen', u \notin missed'
        PROVE  seen'[u] \in Contexts /\ Gathered(u, seen[u])'
    <3>1. CASE u = t
      <4>1. seen'[t] \in Contexts /\ Gathered(t, Loaded(t, {}))
        BY <1>3, <1>6, <1>7, <2>1, <3>1, LoadedGathers
      <4>2. seen'[t] = Loaded(t, {})
        BY <1>6, <1>7, <2>1, <3>1
      <4> QED
        BY <1>2, <3>1, <4>1, <4>2 DEF Gathered
    <3>2. CASE u # t
      <4>1. seen[u] \in Contexts /\ Gathered(u, seen[u]) /\ seen'[u] = seen[u]
        BY <1>6, <1>7, <2>1, <3>2 DEF FInv, BothGather
      <4> QED
        BY <1>2, <4>1 DEF Gathered
    <3> QED
      BY <3>1, <3>2
  <2>2. ASSUME NEW u \in DOMAIN given', u \notin missed'
        PROVE  Gathered(u, given[u])'
    <3>1. Gathered(u, given[u])
      BY <1>2, <1>7, <2>2 DEF FInv, BothGather
    <3> QED
      BY <1>2, <3>1 DEF Gathered
  <2> QED
    BY <2>1, <2>2 DEF BothGather
<1>13. RulesHold'
  <2> SUFFICES ASSUME NEW u \in Task, status'[u] \notin {"NotStarted", "Skipped"}
               PROVE  Rule[u] \subseteq DOMAIN seen'[u]
    BY DEF RulesHold
  <2>1. CASE u = t
    BY <1>5, <2>1
  <2>2. CASE u # t
    BY <1>3, <1>5, <1>6, <2>2, WhereTasksAre DEF FInv, RulesHold
  <2> QED
    BY <2>1, <2>2
<1>14. Decided'
  BY <1>2 DEF FInv, Decided
<1>15. SoleWriterIsSeen'
  <2>1. \A k : Touching(k)' = Touching(k)
    BY <1>2 DEF Touching
  <2>2. SoleWriterIsSeen
    BY DEF FInv
  <2> QED
    BY <1>2, <1>7, <2>1, <2>2 DEF SoleWriterIsSeen
<1>16. EachItsOwnWay'
  <2>1. \A u, k : Providing(u, k)' = Providing(u, k)
    BY <1>2 DEF Providing, Deps
  <2>2. ASSUME NEW u \in DOMAIN seen', u \notin missed'
        PROVE  TakesOne(u, seen[u])'
    <3>1. CASE u = t
      <4>1. TakesOne(t, Loaded(t, {}))
        BY <1>3, LoadedTakesOne
      <4>2. seen'[t] = Loaded(t, {})
        BY <1>6, <1>7, <2>2, <3>1
      <4> QED
        BY <1>2, <2>1, <3>1, <4>1, <4>2 DEF TakesOne
    <3>2. CASE u # t
      <4>1. TakesOne(u, seen[u]) /\ seen'[u] = seen[u]
        BY <1>6, <1>7, <2>2, <3>2 DEF FInv, EachItsOwnWay
      <4> QED
        BY <1>2, <2>1, <4>1 DEF TakesOne
    <3> QED
      BY <3>1, <3>2
  <2>3. ASSUME NEW u \in DOMAIN given', u \notin missed'
        PROVE  JoinsFields(u, given[u])'
    <3>1. JoinsFields(u, given[u])
      BY <1>2, <1>7, <2>3 DEF FInv, EachItsOwnWay
    <3> QED
      BY <1>2, <2>1, <3>1 DEF JoinsFields, HasFieldsOf
  <2> QED
    BY <2>2, <2>3 DEF EachItsOwnWay
<1> QED
  BY <1>8, <1>9, <1>10, <1>11, <1>12, <1>13, <1>14, <1>15, <1>16 DEF FInv

LEMMA StartKeeps ==
    ASSUME FInv, NEW t \in Task, Start(t)
    PROVE  FInv'
<1>1. /\ status[t] = "Ready"
      /\ status' = [status EXCEPT ![t] = "Running"]
      /\ UNCHANGED <<body, initial, seen, saved, verdict>>
  BY DEF Start
<1>2. FlowTypeOK /\ SettledBefore /\ Lineage
  BY DEF FInv
<1>3. PICK c : /\ given' = With(given, t, c)
               /\ \/ missed' = missed /\ \E order \in RowOrders(t) : c = Built(t, order)
                  \/ MayMiss(t) /\ c = Empty /\ missed' = missed \cup {t}
  BY DEF Start
<1>4. c \in Contexts /\ (t \notin missed' => Gathered(t, c))
  <2>1. CASE \E order \in RowOrders(t) : c = Built(t, order)
    BY <1>2, <2>1, BuiltGathers
  <2>2. CASE c = Empty /\ missed' = missed \cup {t}
    BY <2>2, ContextsAre
  <2> QED
    BY <1>3, <2>1, <2>2
<1>5. /\ status \in [Task -> Settled \cup {"NotStarted", "Ready", "Running", "Retry"}]
      /\ t \in DOMAIN seen /\ t \notin DOMAIN given /\ t \notin DOMAIN saved
      /\ t \notin DOMAIN verdict /\ missed \subseteq DOMAIN seen
  BY <1>1, <1>2 DEF FlowTypeOK, TypeOK, Settled
<1>6. /\ status'[t] = "Running"
      /\ \A u \in Task : u # t => status'[u] = status[u]
      /\ status' \in [Task -> Settled \cup {"NotStarted", "Ready", "Running", "Retry"}]
  BY <1>1, <1>5 DEF Settled
<1>7. /\ DOMAIN given' = DOMAIN given \cup {t}
      /\ given'[t] = c
      /\ \A u \in DOMAIN given : u # t => given'[u] = given[u]
  BY <1>3 DEF With
<1>8. /\ IsFiniteSet(missed') /\ Cardinality(missed') <= MaxMisses
      /\ missed \subseteq missed' /\ missed' \subseteq missed \cup {t}
  BY <1>2, <1>3, MissedMeans DEF FlowTypeOK, TypeOK
<1>9. FlowTypeOK'
  <2>1. /\ DOMAIN saved' = {u \in Task : status'[u] = "Completed"}
        /\ DOMAIN verdict' = {u \in Task : status'[u] \in {"Failed", "Retry"}}
        /\ DOMAIN given' = {u \in Task : status'[u] \notin {"NotStarted", "Ready", "Skipped"}}
        /\ DOMAIN seen' = {u \in Task : status'[u] # "NotStarted"}
    BY <1>1, <1>2, <1>6, <1>7 DEF FlowTypeOK, TypeOK
  <2>2. missed' \subseteq DOMAIN seen'
    BY <1>1, <1>5, <1>8
  <2>3. \A u \in DOMAIN given' : given'[u] \in Contexts
    BY <1>2, <1>4, <1>7 DEF FlowTypeOK
  <2> QED
    BY <1>1, <1>2, <1>6, <1>8, <2>1, <2>2, <2>3 DEF FlowTypeOK, TypeOK
<1>10. SettledBefore'
  <2> SUFFICES ASSUME NEW u \in Task, status'[u] # "NotStarted", NEW d \in Deps(u)
               PROVE  status'[d] \in Settled
    BY DEF SettledBefore
  <2>1. status[d] \in Settled /\ d \in Task
    BY <1>1, <1>2, <1>6, DepsFinite DEF SettledBefore
  <2> QED
    BY <1>1, <1>6, <2>1 DEF Settled
<1>11. \A k : Touching(k)' = Touching(k)
  BY <1>1 DEF Touching
<1>12. Lineage'
  BY <1>1, <1>2, <1>11 DEF Lineage
<1>13. SavedIsExecuted'
  <2> SUFFICES ASSUME NEW u \in DOMAIN saved'
               PROVE  (u \in DOMAIN given /\ saved[u] = Executed(u, given[u]))'
    BY DEF SavedIsExecuted
  <2>1. u \in DOMAIN given /\ saved[u] = Executed(u, given[u]) /\ u # t
    BY <1>1, <1>5 DEF FInv, SavedIsExecuted
  <2>2. u \in DOMAIN given' /\ given'[u] = given[u]
    BY <1>7, <2>1
  <2> QED
    BY <1>1, <2>1, <2>2 DEF Executed, Ran
<1>14. BothGather'
  <2>1. ASSUME NEW u \in DOMAIN seen', u \notin missed'
        PROVE  seen'[u] \in Contexts /\ Gathered(u, seen[u])'
    <3>1. seen[u] \in Contexts /\ Gathered(u, seen[u])
      BY <1>1, <1>8, <2>1 DEF FInv, BothGather
    <3> QED
      BY <1>1, <3>1 DEF Gathered
  <2>2. ASSUME NEW u \in DOMAIN given', u \notin missed'
        PROVE  Gathered(u, given[u])'
    <3>1. CASE u = t
      BY <1>1, <1>4, <1>7, <2>2, <3>1 DEF Gathered
    <3>2. CASE u # t
      <4>1. Gathered(u, given[u]) /\ given'[u] = given[u]
        BY <1>7, <1>8, <2>2, <3>2 DEF FInv, BothGather
      <4> QED
        BY <1>1, <4>1 DEF Gathered
    <3> QED
      BY <3>1, <3>2
  <2> QED
    BY <2>1, <2>2 DEF BothGather
<1>15. RulesHold'
  <2> SUFFICES ASSUME NEW u \in Task, status'[u] \notin {"NotStarted", "Skipped"}
               PROVE  Rule[u] \subseteq DOMAIN seen'[u]
    BY DEF RulesHold
  <2>1. status[u] \notin {"NotStarted", "Skipped"}
    BY <1>1, <1>6
  <2> QED
    BY <1>1, <2>1 DEF FInv, RulesHold
<1>16. Decided'
  BY <1>1 DEF FInv, Decided
<1>17. SoleWriterIsSeen'
  <2>1. ASSUME NEW u \in DOMAIN given', u \notin missed', NEW d \in Deps(u) \cap DOMAIN saved'
        PROVE  DOMAIN saved'[d] \subseteq DOMAIN given'[u]
    <3>1. CASE u = t
      <4>1. /\ Gathered(t, c) /\ d \in Deps(t) \cap DOMAIN saved /\ Deps(t) # {}
            /\ saved[d] \in Contexts
        BY <1>1, <1>2, <1>4, <2>1, <3>1 DEF FlowTypeOK
      <4>2. DOMAIN saved[d] \subseteq Key
        BY <4>1, ContextsAre DEF IsContext
      <4>3. DOMAIN saved[d] \subseteq DOMAIN c
        BY <4>1, <4>2 DEF Gathered
      <4> QED
        BY <1>1, <1>7, <3>1, <4>3
    <3>2. CASE u # t
      BY <1>1, <1>7, <1>8, <2>1, <3>2 DEF FInv, SoleWriterIsSeen
    <3> QED
      BY <3>1, <3>2
  <2>2. ASSUME NEW u \in DOMAIN given', NEW k \in DOMAIN given'[u] \ DOMAIN initial', NEW w \in Task,
               Touching(k)' = {w}
        PROVE  w \in DOMAIN saved' /\ given'[u][k] = saved'[w][k]
    <3>1. Touching(k) = {w}
      BY <1>11, <2>2
    <3>2. CASE u = t
      <4>1. k \in DOMAIN c /\ k \notin DOMAIN initial
        BY <1>1, <1>7, <3>2
      <4>2. Gathered(t, c) /\ Deps(t) # {} /\ c # Empty
        <5>1. DOMAIN Empty = {}
          BY DEF Empty
        <5>2. PICK order \in RowOrders(t) : c = Built(t, order)
          BY <1>3, <4>1, <5>1
        <5>3. Gathered(t, c)
          BY <1>2, <5>2, BuiltGathers
        <5>4. Deps(t) # {}
          BY <4>1, <5>2 DEF Built
        <5> QED
          BY <4>1, <5>1, <5>3, <5>4
      <4>3. k \in Key
        BY <1>4, <4>1, ContextsAre DEF IsContext
      <4>4. PICK d \in Deps(t) \cap DOMAIN saved : k \in DOMAIN saved[d]
        BY <4>1, <4>2, <4>3 DEF Gathered
      <4>5. \A e \in Deps(t) \cap DOMAIN saved : k \in DOMAIN saved[e] =>
                w \in DOMAIN saved /\ saved[e][k] = saved[w][k]
        BY <1>2, <3>1, <4>1 DEF Lineage
      <4>6. c[k] = saved[d][k]
        BY <4>2, <4>4, <4>5 DEF Gathered
      <4> QED
        BY <1>1, <1>7, <3>2, <4>4, <4>5, <4>6
    <3>3. CASE u # t
      <4>1. u \in DOMAIN given /\ given'[u] = given[u]
        BY <1>7, <2>2, <3>3
      <4> QED
        BY <1>1, <2>2, <3>1, <4>1 DEF FInv, SoleWriterIsSeen
    <3> QED
      BY <3>2, <3>3
  <2> QED
    BY <2>1, <2>2 DEF SoleWriterIsSeen
<1>18. EachItsOwnWay'
  <2>1. \A u, k : Providing(u, k)' = Providing(u, k)
    BY <1>1 DEF Providing, Deps
  <2>2. ASSUME NEW u \in DOMAIN seen', u \notin missed'
        PROVE  TakesOne(u, seen[u])'
    <3>1. TakesOne(u, seen[u])
      BY <1>1, <1>8, <2>2 DEF FInv, EachItsOwnWay
    <3> QED
      BY <1>1, <2>1, <3>1 DEF TakesOne
  <2>3. ASSUME NEW u \in DOMAIN given', u \notin missed'
        PROVE  JoinsFields(u, given[u])'
    <3>1. CASE u = t
      <4>1. JoinsFields(t, c)
        BY <1>2, <1>3, <2>3, <3>1, BuiltJoinsFields
      <4> QED
        BY <1>1, <1>7, <2>1, <3>1, <4>1 DEF JoinsFields, HasFieldsOf
    <3>2. CASE u # t
      <4>1. JoinsFields(u, given[u]) /\ given'[u] = given[u]
        BY <1>7, <1>8, <2>3, <3>2 DEF FInv, EachItsOwnWay
      <4> QED
        BY <1>1, <2>1, <4>1 DEF JoinsFields, HasFieldsOf
    <3> QED
      BY <3>1, <3>2
  <2> QED
    BY <2>2, <2>3 DEF EachItsOwnWay
<1> QED
  BY <1>9, <1>10, <1>12, <1>13, <1>14, <1>15, <1>16, <1>17, <1>18 DEF FInv

LEMMA CompleteKeeps ==
    ASSUME FInv, NEW t \in Task, Complete(t)
    PROVE  FInv'
<1> DEFINE result == Executed(t, given[t])
<1>1. /\ status[t] = "Running"
      /\ saved' = With(saved, t, result)
      /\ status' = [status EXCEPT ![t] = "Completed"]
      /\ UNCHANGED <<body, initial, seen, given, missed, verdict>>
  BY DEF Complete
<1>2. FlowTypeOK /\ SettledBefore /\ Lineage /\ SoleWriterIsSeen
  BY DEF FInv
<1>3. /\ status \in [Task -> Settled \cup {"NotStarted", "Ready", "Running", "Retry"}]
      /\ t \in DOMAIN seen /\ t \in DOMAIN given /\ t \notin DOMAIN saved
      /\ t \notin DOMAIN verdict
      /\ \A u \in DOMAIN seen : u \in Task /\ status[u] # "NotStarted"
      /\ DOMAIN given \subseteq DOMAIN seen
  BY <1>1, <1>2 DEF FlowTypeOK, TypeOK, Settled
<1>4. /\ result \in Contexts
      /\ \A k : (\A i \in DOMAIN body[t].ops : body[t].ops[i].key # k) =>
                   /\ k \in DOMAIN result <=> k \in DOMAIN given[t]
                   /\ k \in DOMAIN given[t] => result[k] = given[t][k]
  <2>1. given[t] \in Contexts /\ body[t].ops \in Seq(Operation)
    BY <1>2, <1>3 DEF FlowTypeOK
  <2> QED
    BY <2>1, ExecutedMeans
<1> HIDE DEF result
<1>5. /\ status'[t] = "Completed"
      /\ \A u \in Task : u # t => status'[u] = status[u]
      /\ status' \in [Task -> Settled \cup {"NotStarted", "Ready", "Running", "Retry"}]
  BY <1>1, <1>3 DEF Settled
<1>6. /\ DOMAIN saved' = DOMAIN saved \cup {t}
      /\ saved'[t] = result
      /\ \A u \in DOMAIN saved : u # t /\ saved'[u] = saved[u]
  BY <1>1, <1>3 DEF With
<1>7. \A u \in DOMAIN seen : t \notin Deps(u) /\ Deps(u) \cap DOMAIN saved' = Deps(u) \cap DOMAIN saved
  <2>1. \A u \in DOMAIN seen : t \notin Deps(u)
    BY <1>1, <1>2, <1>3 DEF SettledBefore, Settled
  <2> QED
    BY <1>6, <2>1
<1>8. FlowTypeOK'
  <2>1. /\ DOMAIN saved' = {u \in Task : status'[u] = "Completed"}
        /\ DOMAIN verdict' = {u \in Task : status'[u] \in {"Failed", "Retry"}}
        /\ DOMAIN given' = {u \in Task : status'[u] \notin {"NotStarted", "Ready", "Skipped"}}
        /\ DOMAIN seen' = {u \in Task : status'[u] # "NotStarted"}
    BY <1>1, <1>2, <1>5, <1>6 DEF FlowTypeOK, TypeOK
  <2>2. \A u \in DOMAIN saved' : saved'[u] \in Contexts
    BY <1>2, <1>4, <1>6 DEF FlowTypeOK
  <2> QED
    BY <1>1, <1>2, <1>5, <2>1, <2>2 DEF FlowTypeOK, TypeOK
<1>9. SettledBefore'
  <2> SUFFICES ASSUME NEW u \in Task, status'[u] # "NotStarted", NEW d \in Deps(u)
               PROVE  status'[d] \in Settled
    BY DEF SettledBefore
  <2>1. status[d] \in Settled /\ d \in Task
    BY <1>1, <1>2, <1>5, DepsFinite DEF SettledBefore
  <2> QED
    BY <1>1, <1>5, <2>1 DEF Settled
<1>10. \A k : Touching(k)' = Touching(k)
  BY <1>1 DEF Touching
<1>11. Lineage'
  <2> SUFFICES ASSUME NEW d \in DOMAIN saved', NEW k \in DOMAIN saved'[d] \ DOMAIN initial',
                      NEW w \in Task, Touching(k)' = {w}
               PROVE  w \in DOMAIN saved' /\ saved'[d][k] = saved'[w][k]
    BY DEF Lineage
  <2>1. Touching(k) = {w} /\ k \notin DOMAIN initial
    BY <1>1, <1>10
  <2>2. CASE d = t /\ w = t
    BY <1>6, <2>2
  <2>3. CASE d = t /\ w # t
    <3>1. \A i \in DOMAIN body[t].ops : body[t].ops[i].key # k
      BY <2>1, <2>3 DEF Touching
    <3>2. k \in DOMAIN given[t] /\ result[k] = given[t][k]
      BY <1>4, <1>6, <2>3, <3>1
    <3>3. w \in DOMAIN saved /\ given[t][k] = saved[w][k]
      BY <1>2, <1>3, <2>1, <3>2 DEF SoleWriterIsSeen
    <3> QED
      BY <1>6, <2>3, <3>2, <3>3
  <2>4. CASE d # t
    <3>1. d \in DOMAIN saved /\ k \in DOMAIN saved[d] /\ saved'[d] = saved[d]
      BY <1>6, <2>4
    <3>2. w \in DOMAIN saved /\ saved[d][k] = saved[w][k]
      BY <1>2, <2>1, <3>1 DEF Lineage
    <3> QED
      BY <1>6, <3>1, <3>2
  <2> QED
    BY <2>2, <2>3, <2>4
<1>12. SavedIsExecuted'
  <2> SUFFICES ASSUME NEW u \in DOMAIN saved'
               PROVE  (u \in DOMAIN given /\ saved[u] = Executed(u, given[u]))'
    BY DEF SavedIsExecuted
  <2>1. u \in DOMAIN given /\ saved'[u] = Executed(u, given[u])
    BY <1>3, <1>6 DEF FInv, SavedIsExecuted, result
  <2> QED
    BY <1>1, <2>1 DEF Executed, Ran
<1>13. BothGather'
  <2>1. ASSUME NEW u \in DOMAIN seen', u \notin missed'
        PROVE  seen'[u] \in Contexts /\ Gathered(u, seen[u])'
    <3>1. u \in DOMAIN seen /\ seen[u] \in Contexts /\ Gathered(u, seen[u])
      BY <1>1, <2>1 DEF FInv, BothGather
    <3> QED
      BY <1>1, <1>6, <1>7, <3>1 DEF Gathered
  <2>2. ASSUME NEW u \in DOMAIN given', u \notin missed'
        PROVE  Gathered(u, given[u])'
    <3>1. u \in DOMAIN seen /\ Gathered(u, given[u])
      BY <1>1, <1>3, <2>2 DEF FInv, BothGather
    <3> QED
      BY <1>1, <1>6, <1>7, <3>1 DEF Gathered
  <2> QED
    BY <2>1, <2>2 DEF BothGather
<1>14. RulesHold'
  <2> SUFFICES ASSUME NEW u \in Task, status'[u] \notin {"NotStarted", "Skipped"}
               PROVE  Rule[u] \subseteq DOMAIN seen'[u]
    BY DEF RulesHold
  <2>1. status[u] \notin {"NotStarted", "Skipped"}
    BY <1>1, <1>5
  <2> QED
    BY <1>1, <2>1 DEF FInv, RulesHold
<1>15. Decided'
  BY <1>1 DEF FInv, Decided
<1>16. SoleWriterIsSeen'
  <2>1. ASSUME NEW u \in DOMAIN given', u \notin missed', NEW d \in Deps(u) \cap DOMAIN saved'
        PROVE  DOMAIN saved'[d] \subseteq DOMAIN given'[u]
    <3>1. u \in DOMAIN seen /\ u \in DOMAIN given /\ u \notin missed
      BY <1>1, <1>3, <2>1
    <3>2. d \in Deps(u) \cap DOMAIN saved /\ saved'[d] = saved[d]
      BY <1>6, <1>7, <3>1
    <3> QED
      BY <1>1, <1>2, <3>1, <3>2 DEF SoleWriterIsSeen
  <2>2. ASSUME NEW u \in DOMAIN given', NEW k \in DOMAIN given'[u] \ DOMAIN initial', NEW w \in Task,
               Touching(k)' = {w}
        PROVE  w \in DOMAIN saved' /\ given'[u][k] = saved'[w][k]
    <3>1. w \in DOMAIN saved /\ given[u][k] = saved[w][k]
      BY <1>1, <1>2, <1>10, <2>2 DEF SoleWriterIsSeen
    <3> QED
      BY <1>1, <1>6, <3>1
  <2> QED
    BY <2>1, <2>2 DEF SoleWriterIsSeen
<1>17. EachItsOwnWay'
  <2>1. \A u \in DOMAIN seen : \A k : /\ Providing(u, k)' = Providing(u, k)
                                     /\ \A d \in Providing(u, k) : saved'[d] = saved[d]
    <3> SUFFICES ASSUME NEW u \in DOMAIN seen, NEW k
                 PROVE  /\ Providing(u, k)' = Providing(u, k)
                        /\ \A d \in Providing(u, k) : saved'[d] = saved[d]
      OBVIOUS
    <3>1. \A d \in Deps(u) \cap DOMAIN saved : saved'[d] = saved[d]
      BY <1>6
    <3> QED
      BY <1>7, <3>1 DEF Providing, Deps
  <2>2. ASSUME NEW u \in DOMAIN seen', u \notin missed'
        PROVE  TakesOne(u, seen[u])'
    <3>1. u \in DOMAIN seen /\ TakesOne(u, seen[u])
      BY <1>1, <2>2 DEF FInv, EachItsOwnWay
    <3> QED
      BY <1>1, <2>1, <3>1 DEF TakesOne
  <2>3. ASSUME NEW u \in DOMAIN given', u \notin missed'
        PROVE  JoinsFields(u, given[u])'
    <3>1. u \in DOMAIN seen /\ JoinsFields(u, given[u])
      BY <1>1, <1>3, <2>3 DEF FInv, EachItsOwnWay
    <3> QED
      BY <1>1, <2>1, <3>1 DEF JoinsFields, HasFieldsOf
  <2> QED
    BY <2>2, <2>3 DEF EachItsOwnWay
<1> QED
  BY <1>8, <1>9, <1>11, <1>12, <1>13, <1>14, <1>15, <1>16, <1>17 DEF FInv

LEMMA BreakKeeps ==
    ASSUME FInv, NEW t \in Task, Break(t)
    PROVE  FInv'
<1>1. PICK error \in Errors(t) :
          LET result == ExecutionResult(error, ShouldRetry(Policy[t], error, FirstAttempt))
          IN  /\ verdict' = With(verdict, t, result)
              /\ status' = [status EXCEPT ![t] = result.status]
  BY DEF Break
<1> DEFINE result == ExecutionResult(error, ShouldRetry(Policy[t], error, FirstAttempt))
<1>2. /\ status[t] = "Running"
      /\ verdict' = With(verdict, t, result)
      /\ status' = [status EXCEPT ![t] = result.status]
      /\ UNCHANGED <<body, initial, seen, given, saved, missed>>
  BY <1>1 DEF Break
<1>3. FlowTypeOK /\ SettledBefore
  BY DEF FInv
<1>4. /\ status \in [Task -> Settled \cup {"NotStarted", "Ready", "Running", "Retry"}]
      /\ t \notin DOMAIN verdict
  BY <1>2, <1>3 DEF FlowTypeOK, TypeOK, Settled
<1>5. /\ result.status \in {"Failed", "Retry"}
      /\ result.error = error
      /\ error.kind \in {"execution", "timeout", "validation"}
      /\ error.word \in Words
  BY DEF ExecutionResult, Errors, Words
<1> HIDE DEF result
<1>6. /\ status'[t] \in {"Failed", "Retry"}
      /\ \A u \in Task : u # t => status'[u] = status[u]
      /\ status' \in [Task -> Settled \cup {"NotStarted", "Ready", "Running", "Retry"}]
  BY <1>2, <1>4, <1>5 DEF Settled
<1>7. /\ DOMAIN verdict' = DOMAIN verdict \cup {t}
      /\ verdict'[t] = result
      /\ \A u \in DOMAIN verdict : u # t /\ verdict'[u] = verdict[u]
  BY <1>2, <1>4 DEF With
<1>8. FlowTypeOK'
  <2>1. /\ DOMAIN saved' = {u \in Task : status'[u] = "Completed"}
        /\ DOMAIN verdict' = {u \in Task : status'[u] \in {"Failed", "Retry"}}
        /\ DOMAIN given' = {u \in Task : status'[u] \notin {"NotStarted", "Ready", "Skipped"}}
        /\ DOMAIN seen' = {u \in Task : status'[u] # "NotStarted"}
    BY <1>2, <1>3, <1>6, <1>7 DEF FlowTypeOK, TypeOK
  <2> QED
    BY <1>2, <1>3, <1>6, <2>1 DEF FlowTypeOK, TypeOK
<1>9. SettledBefore'
  <2> SUFFICES ASSUME NEW u \in Task, status'[u] # "NotStarted", NEW d \in Deps(u)
               PROVE  status'[d] \in Settled
    BY DEF SettledBefore
  <2>1. status[d] \in Settled /\ d \in Task
    BY <1>2, <1>3, <1>6, DepsFinite DEF SettledBefore
  <2> QED
    BY <1>2, <1>6, <2>1 DEF Settled
<1>10. \A k : Touching(k)' = Touching(k)
  BY <1>2 DEF Touching
<1>11. Lineage' /\ SoleWriterIsSeen'
  <2>1. Lineage /\ SoleWriterIsSeen
    BY DEF FInv
  <2> QED
    BY <1>2, <1>10, <2>1 DEF Lineage, SoleWriterIsSeen
<1>12. SavedIsExecuted'
  BY <1>2 DEF FInv, SavedIsExecuted, Executed, Ran
<1>13. BothGather'
  <2>1. BothGather
    BY DEF FInv
  <2> QED
    BY <1>2, <2>1 DEF BothGather, Gathered
<1>14. RulesHold'
  <2> SUFFICES ASSUME NEW u \in Task, status'[u] \notin {"NotStarted", "Skipped"}
               PROVE  Rule[u] \subseteq DOMAIN seen'[u]
    BY DEF RulesHold
  <2>1. status[u] \notin {"NotStarted", "Skipped"}
    BY <1>2, <1>6
  <2> QED
    BY <1>2, <2>1 DEF FInv, RulesHold
<1>15. Decided'
  <2> SUFFICES ASSUME NEW u \in DOMAIN verdict'
               PROVE  /\ verdict'[u].error.kind \in {"execution", "timeout", "validation"}
                      /\ verdict'[u].error.word \in Words
                      /\ verdict'[u] = ExecutionResult(verdict'[u].error,
                             ShouldRetry(Policy[u], verdict'[u].error, FirstAttempt))
    BY DEF Decided
  <2>1. CASE u = t
    BY <1>5, <1>7, <2>1 DEF result
  <2>2. CASE u # t
    BY <1>7, <2>2 DEF FInv, Decided
  <2> QED
    BY <2>1, <2>2
<1>16. EachItsOwnWay'
  <2>1. EachItsOwnWay
    BY DEF FInv
  <2> QED
    BY <1>2, <2>1 DEF EachItsOwnWay, TakesOne, JoinsFields, HasFieldsOf, Providing
<1> QED
  BY <1>8, <1>9, <1>11, <1>12, <1>13, <1>14, <1>15, <1>16 DEF FInv

LEMMA FlowKeeps == FInv /\ [Next]_vars => FInv'
<1> SUFFICES ASSUME FInv, [Next]_vars PROVE FInv'
  OBVIOUS
<1>1. CASE Next
  <2>1. PICK t \in Task : Evaluate(t) \/ Start(t) \/ Complete(t) \/ Break(t)
    BY <1>1 DEF Next
  <2> QED
    BY <2>1, EvaluateKeeps, StartKeeps, CompleteKeeps, BreakKeeps
<1>2. CASE UNCHANGED vars
  <2>1. \A k : Touching(k)' = Touching(k)
    BY <1>2 DEF vars, Touching
  <2>2. FlowTypeOK' /\ SettledBefore'
    BY <1>2 DEF vars, FInv, FlowTypeOK, TypeOK, SettledBefore
  <2>3. Lineage' /\ SoleWriterIsSeen'
    <3>1. Lineage /\ SoleWriterIsSeen
      BY DEF FInv
    <3> QED
      BY <1>2, <2>1, <3>1 DEF vars, Lineage, SoleWriterIsSeen
  <2>4. SavedIsExecuted'
    BY <1>2 DEF vars, FInv, SavedIsExecuted, Executed, Ran
  <2>5. BothGather'
    <3>1. BothGather
      BY DEF FInv
    <3> QED
      BY <1>2, <3>1 DEF vars, BothGather, Gathered
  <2>6. RulesHold' /\ Decided'
    BY <1>2 DEF vars, FInv, RulesHold, Decided
  <2>7. EachItsOwnWay'
    <3>1. EachItsOwnWay
      BY DEF FInv
    <3> QED
      BY <1>2, <3>1 DEF vars, EachItsOwnWay, TakesOne, JoinsFields, HasFieldsOf, Providing
  <2> QED
    BY <2>2, <2>3, <2>4, <2>5, <2>6, <2>7 DEF FInv
<1> QED
  BY <1>1, <1>2

LEMMA FlowHolds == Spec => []FInv
  BY FlowStarts, FlowKeeps, PTL DEF Spec

\* What the executor takes back of a body that removes nothing and returns its
\* context is what the body made of it.
LEMMA TransparentFromFInv == FInv => KindIsTransparent
<1> SUFFICES ASSUME FInv, NEW t \in DOMAIN saved,
                    \A i \in DOMAIN body[t].ops : body[t].ops[i].call # "remove",
                    body[t].returns
             PROVE  saved[t] = Ran(t, given[t]).context
  BY DEF KindIsTransparent
<1>1. t \in DOMAIN given /\ saved[t] = Executed(t, given[t])
  BY DEF FInv, SavedIsExecuted
<1>2. t \in Task /\ given[t] \in Contexts /\ body[t].ops \in Seq(Operation)
  BY <1>1 DEF FInv, FlowTypeOK, TypeOK
<1>3. Executed(t, given[t]) = Ran(t, given[t]).context
  BY <1>2, ExecutedMeans
<1> QED
  BY <1>1, <1>3

\* Two sides that gather the same rows have the same keys, and the same value
\* of a key that one row alone has; of objects one side takes one, the other
\* joins the fields of all.
LEMMA AgreementFromFInv == FInv => RuleAndBodyAgree
<1> SUFFICES ASSUME FInv, NEW t \in DOMAIN given \ missed
             PROVE  /\ DOMAIN seen[t] = DOMAIN given[t]
                    /\ Rule[t] \subseteq DOMAIN given[t]
                    /\ \A k \in DOMAIN given[t] :
                          /\ Cardinality(Providing(t, k)) <= 1 => seen[t][k] = given[t][k]
                          /\ Providing(t, k) # {}
                             /\ (\A d \in Providing(t, k) : IsObject(saved[d][k])) =>
                                /\ \E d \in Providing(t, k) : seen[t][k] = saved[d][k]
                                /\ IsObject(given[t][k])
                                /\ \A d \in Providing(t, k) :
                                      DOMAIN saved[d][k].fields \subseteq DOMAIN given[t][k].fields
  BY DEF RuleAndBodyAgree
<1>1. FlowTypeOK
  BY DEF FInv
<1>2. /\ t \in Task /\ t \in DOMAIN seen
      /\ status[t] \notin {"NotStarted", "Skipped"}
  BY <1>1 DEF FlowTypeOK, TypeOK
<1>3. /\ seen[t] \in Contexts /\ given[t] \in Contexts
      /\ Gathered(t, seen[t]) /\ Gathered(t, given[t])
  BY <1>1, <1>2 DEF FInv, BothGather, FlowTypeOK
<1>4. DOMAIN seen[t] \subseteq Key /\ DOMAIN given[t] \subseteq Key
  BY <1>3, ContextsAre DEF IsContext
<1>5. DOMAIN seen[t] = DOMAIN given[t]
  <2>1. CASE Deps(t) = {}
    BY <1>3, <2>1 DEF Gathered
  <2>2. CASE Deps(t) # {}
    <3>1. \A k \in Key : k \in DOMAIN seen[t] <=> k \in DOMAIN given[t]
      BY <1>3, <2>2 DEF Gathered
    <3> QED
      BY <1>4, <3>1
  <2> QED
    BY <2>1, <2>2
<1>6. Rule[t] \subseteq DOMAIN given[t]
  BY <1>2, <1>5 DEF FInv, RulesHold
<1>7. ASSUME NEW k \in DOMAIN given[t], Cardinality(Providing(t, k)) <= 1
      PROVE  seen[t][k] = given[t][k]
  <2> DEFINE having == Providing(t, k)
  <2>1. CASE Deps(t) = {}
    BY <1>3, <2>1 DEF Gathered
  <2>2. CASE Deps(t) # {}
    <3>1. PICK d \in having : TRUE
      BY <1>3, <1>4, <2>2 DEF Gathered, Providing
    <3>2. IsFiniteSet(having)
      <4>1. IsFiniteSet(Deps(t)) /\ having \in SUBSET Deps(t)
        BY <1>2, DepsFinite DEF Providing
      <4> HIDE DEF having
      <4> QED
        BY <4>1, FS_Subset
    <3>3. Cardinality(having) = 1
      <4>1. Cardinality(having) \in Nat /\ Cardinality(having) # 0
        <5> HIDE DEF having
        <5> QED
          BY <3>1, <3>2, FS_CardinalityType, FS_EmptySet
      <4> QED
        BY <1>7, <4>1
    <3>4. PICK x : having = {x}
      <4> HIDE DEF having
      <4> QED
        BY <3>2, <3>3, FS_Singleton
    <3>5. d \in Deps(t) \cap DOMAIN saved /\ k \in DOMAIN saved[d]
      BY DEF Providing
    <3>6. \A e \in Deps(t) \cap DOMAIN saved : k \in DOMAIN saved[e] => e = d
      BY <3>1, <3>4 DEF Providing
    <3>7. seen[t][k] = saved[d][k] /\ given[t][k] = saved[d][k]
      <4> HIDE DEF having
      <4> QED
        BY <1>3, <2>2, <3>5, <3>6 DEF Gathered
    <3> QED
      BY <3>7
  <2> QED
    BY <2>1, <2>2
<1>8. ASSUME NEW k \in DOMAIN given[t], Providing(t, k) # {},
             \A d \in Providing(t, k) : IsObject(saved[d][k])
      PROVE  /\ \E d \in Providing(t, k) : seen[t][k] = saved[d][k]
             /\ IsObject(given[t][k])
             /\ \A d \in Providing(t, k) :
                   DOMAIN saved[d][k].fields \subseteq DOMAIN given[t][k].fields
  <2>1. TakesOne(t, seen[t]) /\ JoinsFields(t, given[t])
    BY <1>2 DEF FInv, EachItsOwnWay
  <2>2. Deps(t) # {} /\ k \in DOMAIN seen[t] /\ k \in Key
    BY <1>4, <1>5, <1>8 DEF Providing
  <2>3. \E d \in Providing(t, k) : seen[t][k] = saved[d][k]
    BY <2>1, <2>2 DEF TakesOne
  <2>4. \A d \in Providing(t, k) :
            /\ IsObject(given[t][k])
            /\ DOMAIN saved[d][k].fields \subseteq DOMAIN given[t][k].fields
    BY <1>8, <2>1, <2>2 DEF JoinsFields, HasFieldsOf
  <2> QED
    BY <1>8, <2>3, <2>4
<1> QED
  BY <1>5, <1>6, <1>7, <1>8

\* Under one condition, and outside the words they read differently, the two
\* answers are the same.
LEMMA DecisionsFromFInv == FInv => DecisionsAgree
<1> SUFFICES ASSUME FInv, NEW t \in DOMAIN verdict, NEW condition \in DOMAIN RetryConditions,
                    Policy[t] = GeneratedPolicy(Policy[t].max_attempts, condition),
                    verdict[t].error.word # "busy",
                    verdict[t].error.kind = "validation" => verdict[t].error.word = "plain"
             PROVE  (verdict[t].status = "Retry") =
                        LibraryRetry(Policy[t], verdict[t].error, FirstAttempt)
  BY DEF DecisionsAgree
<1> DEFINE error == verdict[t].error
           one == RetryConditions[condition]
<1>1. /\ error.kind \in {"execution", "timeout", "validation"}
      /\ error.word \in {"plain", "connection"}
      /\ verdict[t] = ExecutionResult(error, ShouldRetry(Policy[t], error, FirstAttempt))
  BY DEF FInv, Decided, Words
<1>2. Policy[t].conditions = {one}
  BY DEF GeneratedPolicy
<1>3. one \in {"Never", "AllErrors", "TransientOnly", "ErrorPattern"}
  BY DEF RetryConditions
<1> HIDE DEF error, one
<1>4. verdict[t].status = "Retry" <=> ShouldRetry(Policy[t], error, FirstAttempt)
  BY <1>1 DEF ExecutionResult
<1>5. Admits(one, error) <=> IF one = "TransientOnly" THEN LibraryTransient(error) ELSE Admits(one, error)
  BY <1>1, <1>3 DEF Admits, Transient, LibraryTransient, error
<1>6. ShouldRetry(Policy[t], error, FirstAttempt) <=> LibraryRetry(Policy[t], error, FirstAttempt)
  BY <1>2, <1>5 DEF ShouldRetry, LibraryRetry
<1>7. verdict[t].status = "Retry" <=> LibraryRetry(Policy[t], error, FirstAttempt)
  BY <1>4, <1>6
<1> QED
  BY <1>7 DEF error, LibraryRetry

\* In every reachable state the contexts, decisions and states of the tasks of
\* a pipeline fit together, whatever its graph, its bodies and the reads that
\* fail.
THEOREM FlowIsTyped == Spec => []TypeOK
<1>1. FInv => TypeOK
  BY DEF FInv, FlowTypeOK
<1> QED
  BY <1>1, FlowHolds, PTL

\* A key that one task alone touches reaches every later task with the value
\* that task saved, however the rows are merged on the way.
THEOREM SoleWriterReaches == Spec => []SoleWriterIsSeen
<1>1. FInv => SoleWriterIsSeen
  BY DEF FInv
<1> QED
  BY <1>1, FlowHolds, PTL

\* What is saved of a body that removes nothing and returns its context is what
\* the body made of it, in whichever of the three ways it is called.
THEOREM KindsAreTransparent == Spec => []KindIsTransparent
  BY FlowHolds, TransparentFromFInv, PTL

\* Scheduler and executor read the same keys for a task, each merging in its
\* own order, unless a read failed.
THEOREM RulesSeeTheInput == Spec => []RuleAndBodyAgree
  BY FlowHolds, AgreementFromFInv, PTL

\* The executor retries what the library would, for the policies the macro and
\* the bindings make.
THEOREM OneRetryDecision == Spec => []DecisionsAgree
  BY FlowHolds, DecisionsFromFInv, PTL

-----------------------------------------------------------------------------
(***************************************************************************)
(* Where rows go, and that tenants are whole.                              *)
(***************************************************************************)

\* A connection leads to the schema of its runner or to the public one, and,
\* while it is checked out, to the latter only when its path could not be set.
PathsLeadHome ==
    \A r \in Runner :
        /\ \A c \in Conn : path[r][c] \in {Public, Home[r]}
        /\ stage[r] = "routed" => path[r][1] = Home[r]
        /\ \A c \in out[r] : path[r][c] = Home[r] \/ r \in unrouted

\* The schema of a runner stays as its build has left it, unless it is removed.
SchemasStay ==
    \A r \in Runner : Home[r] \notin removed =>
        /\ stage[r] \in {"created", "routed"} => tables[Home[r]] # "none"
        /\ stage[r] = "up" => tables[Home[r]] = "ready"

\* Connections are taken from a runner that is up.
OnlyUpRunnersWork == \A r \in Runner : out[r] # {} => stage[r] = "up"

TenantsInv ==
    /\ TenantsTypeOK /\ PathsLeadHome /\ SchemasStay /\ OnlyUpRunnersWork
    /\ RowsStayHome /\ TenantIsWhole

USE TenantsAssumption DEF Schema, Conn, NewPool, HasSchema, Migrated

LEMMA TenantsStart == TenantsInit => TenantsInv
BY DEF TenantsInit, TenantsInv, TenantsTypeOK, PathsLeadHome, SchemasStay, OnlyUpRunnersWork,
       RowsStayHome, TenantIsWhole

LEMMA BuildKeeps ==
    ASSUME TenantsInv, NEW r \in Runner,
           CreateSchema(r) \/ SetSearchPath(r) \/ RunMigrations(r) \/ BuildFails(r)
    PROVE  TenantsInv'
<1> USE DEF TenantsInv, TenantsTypeOK
<1>1. CASE CreateSchema(r)
  <2> USE <1>1 DEF CreateSchema
  <2>1. Home[r] \in Tenant
    OBVIOUS
  <2>2. TenantsTypeOK'
    BY <2>1
  <2>3. PathsLeadHome'
    BY DEF PathsLeadHome
  <2>4. SchemasStay'
    BY <2>1 DEF SchemasStay
  <2>5. OnlyUpRunnersWork'
    BY DEF OnlyUpRunnersWork
  <2>6. RowsStayHome' /\ TenantIsWhole'
    BY <2>1 DEF RowsStayHome, TenantIsWhole
  <2> QED
    BY <2>2, <2>3, <2>4, <2>5, <2>6
<1>2. CASE SetSearchPath(r)
  <2> USE <1>2 DEF SetSearchPath
  <2>1. TenantsTypeOK' /\ SchemasStay' /\ OnlyUpRunnersWork' /\ RowsStayHome' /\ TenantIsWhole'
    BY DEF SchemasStay, OnlyUpRunnersWork, RowsStayHome, TenantIsWhole
  <2>2. PathsLeadHome'
    BY DEF PathsLeadHome
  <2> QED
    BY <2>1, <2>2
<1>3. CASE RunMigrations(r)
  <2> DEFINE schema == CreatedIn(path[r][1])
  <2>1. /\ schema \in Schema
        /\ Home[r] \notin removed => schema = Home[r]
    BY <1>3 DEF RunMigrations, CreatedIn, PathsLeadHome, SchemasStay
  <2>2. /\ tables' = [tables EXCEPT ![schema] = "ready"]
        /\ stage' = [stage EXCEPT ![r] = "up"]
        /\ UNCHANGED <<user, path, out, rows, calls, faults, unrouted, removed>>
    BY <1>3 DEF RunMigrations
  <2> HIDE DEF schema
  <2>3. TenantsTypeOK' /\ OnlyUpRunnersWork' /\ RowsStayHome' /\ TenantIsWhole'
    BY <2>1, <2>2 DEF OnlyUpRunnersWork, RowsStayHome, TenantIsWhole
  <2>4. PathsLeadHome' /\ SchemasStay'
    BY <2>1, <2>2 DEF PathsLeadHome, SchemasStay
  <2> QED
    BY <2>3, <2>4
<1>4. CASE BuildFails(r)
  BY <1>4 DEF BuildFails, PathsLeadHome, SchemasStay, OnlyUpRunnersWork,
              RowsStayHome, TenantIsWhole
<1> QED
  BY <1>1, <1>2, <1>3, <1>4

LEMMA UseKeeps ==
    ASSUME TenantsInv, NEW r \in Runner, NEW c \in Conn, Checkout(r, c) \/ Write(r, c)
    PROVE  TenantsInv'
<1> USE DEF TenantsInv, TenantsTypeOK
<1>1. CASE Checkout(r, c)
  <2> USE <1>1 DEF Checkout
  <2>1. TenantsTypeOK'
    <3>1. faults' \in 0 .. MaxFaults
      OBVIOUS
    <3>2. path' \in [Runner -> [Conn -> Schema]]
      <4>1. path' = path \/ path' = [path EXCEPT ![r][c] = Home[r]]
        OBVIOUS
      <4>2. [path[r] EXCEPT ![c] = Home[r]] \in [Conn -> Schema]
        BY Home[r] \in Schema
      <4> QED
        BY <4>1, <4>2
    <3>3. out' \in [Runner -> SUBSET Conn] /\ unrouted' \subseteq Runner
      OBVIOUS
    <3> QED
      BY <3>1, <3>2, <3>3
  <2>2. SchemasStay' /\ OnlyUpRunnersWork' /\ RowsStayHome' /\ TenantIsWhole'
    BY DEF SchemasStay, OnlyUpRunnersWork, RowsStayHome, TenantIsWhole
  <2>3. PathsLeadHome'
    BY DEF PathsLeadHome
  <2> QED
    BY <2>1, <2>2, <2>3
<1>2. CASE Write(r, c)
  <2> DEFINE schema == FoundIn(path[r][c])
  <2>1. /\ schema \in Schema
        /\ \/ schema = Home[r]
           \/ schema = Public /\ (r \in unrouted \/ Home[r] \in removed)
    BY <1>2 DEF Write, FoundIn, PathsLeadHome, SchemasStay, OnlyUpRunnersWork
  <2>2. /\ rows' \in {rows, rows \cup {<<r, schema>>}}
        /\ out' = [out EXCEPT ![r] = @ \ {c}]
        /\ UNCHANGED <<tables, user, stage, path, calls, faults, unrouted, removed>>
    BY <1>2 DEF Write
  <2> HIDE DEF schema
  <2>3. TenantsTypeOK' /\ PathsLeadHome' /\ SchemasStay' /\ OnlyUpRunnersWork' /\ TenantIsWhole'
    BY <2>1, <2>2 DEF PathsLeadHome, SchemasStay, OnlyUpRunnersWork, TenantIsWhole
  <2>4. RowsStayHome'
    BY <2>1, <2>2 DEF RowsStayHome
  <2> QED
    BY <2>3, <2>4
<1> QED
  BY <1>1, <1>2

LEMMA AdminKeeps ==
    ASSUME TenantsInv, NEW t \in Tenant, CreateTenant(t) \/ RemoveTenant(t)
    PROVE  TenantsInv'
<1> USE DEF TenantsInv, TenantsTypeOK
<1>1. CASE CreateTenant(t)
  <2> USE <1>1 DEF CreateTenant
  <2>1. TenantsTypeOK'
    <3>1. calls' \in 0 .. MaxCalls /\ user' \in [Tenant -> 0 .. MaxCalls]
      OBVIOUS
    <3>2. tables' \in [Schema -> {"none", "bare", "ready"}] /\ tables'[Public] # "none"
      OBVIOUS
    <3> QED
      BY <3>1, <3>2
  <2>2. PathsLeadHome' /\ OnlyUpRunnersWork' /\ RowsStayHome'
    BY DEF PathsLeadHome, OnlyUpRunnersWork, RowsStayHome
  <2>3. SchemasStay' /\ TenantIsWhole'
    BY DEF SchemasStay, TenantIsWhole
  <2> QED
    BY <2>1, <2>2, <2>3
<1>2. CASE RemoveTenant(t)
  <2> USE <1>2 DEF RemoveTenant
  <2>1. TenantsTypeOK'
    <3>1. calls' \in 0 .. MaxCalls /\ user' \in [Tenant -> 0 .. MaxCalls]
      OBVIOUS
    <3>2. tables' \in [Schema -> {"none", "bare", "ready"}] /\ tables'[Public] # "none"
      OBVIOUS
    <3> QED
      BY <3>1, <3>2
  <2>2. PathsLeadHome' /\ OnlyUpRunnersWork' /\ RowsStayHome'
    BY DEF PathsLeadHome, OnlyUpRunnersWork, RowsStayHome
  <2>3. SchemasStay' /\ TenantIsWhole'
    BY DEF SchemasStay, TenantIsWhole
  <2> QED
    BY <2>1, <2>2, <2>3
<1> QED
  BY <1>1, <1>2

LEMMA TenantsKeep == TenantsInv /\ [TenantsNext]_tenantsVars => TenantsInv'
<1> SUFFICES ASSUME TenantsInv, [TenantsNext]_tenantsVars PROVE TenantsInv'
  OBVIOUS
<1>1. CASE TenantsNext
  BY <1>1, BuildKeeps, UseKeeps, AdminKeeps DEF TenantsNext
<1>2. CASE UNCHANGED tenantsVars
  BY <1>2 DEF tenantsVars, TenantsInv, TenantsTypeOK, PathsLeadHome, SchemasStay, OnlyUpRunnersWork,
              RowsStayHome, TenantIsWhole
<1> QED
  BY <1>1, <1>2

LEMMA TenantsHold == TenantsSpec => []TenantsInv
BY TenantsStart, TenantsKeep, PTL DEF TenantsSpec

\* Every variable keeps its type.
THEOREM TenantsTypeCorrect == TenantsSpec => []TenantsTypeOK
BY TenantsHold, PTL DEF TenantsInv

\* A row is in the schema of the runner that wrote it, or in the public one
\* after a failed SET search_path or a removal: never with another tenant.
THEOREM RowsAreIsolated == TenantsSpec => []RowsStayHome
BY TenantsHold, PTL DEF TenantsInv

\* Creation and removal of tenants are all or nothing, next to any number of
\* runners that set up the same schemas.
THEOREM TenantsAreWhole == TenantsSpec => []TenantIsWhole
BY TenantsHold, PTL DEF TenantsInv

=============================================================================
