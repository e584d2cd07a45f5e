---------------------------- MODULE LoadingProofs ----------------------------
(***************************************************************************)
(* One package through any number of editions, of any sources: what is     *)
(* accepted loads, and a pipeline is planned with the tasks of one edition.*)
(***************************************************************************)
EXTENDS PackageLoading, FiniteSetTheorems, TLAPS

-----------------------------------------------------------------------------
(***************************************************************************)
(* What an accepted archive is.                                            *)
(***************************************************************************)

\* With one library, whoever takes the first takes that one.
LEMMA OneLibraryForAll ==
    ASSUME NEW archive \in Seq(Entry), OneLibrary(archive),
           ExtractSo(archive) # <<>>, ExtractLibrary(archive) # <<>>
    PROVE  ExtractSo(archive) = ExtractLibrary(archive)
<1> DEFINE All  == {i \in DOMAIN archive : archive[i].ext \in Extensions}
           Ours == {i \in DOMAIN archive : archive[i].ext \in {Platform}}
<1>1. Ours # {} /\ Ours \subseteq All
  BY PlatformAssumption DEF ExtractLibrary, FirstOf
<1>2. PICK only : All = {only}
  <2>1. Cardinality(All) = 1
    BY DEF OneLibrary
  <2>2. IsFiniteSet(All)
    BY FS_Interval, FS_Subset, DOMAIN archive = 1 .. Len(archive)
  <2> QED
    BY <2>1, <2>2, FS_Singleton
<1>3. Ours = All
  BY <1>1, <1>2
<1> QED
  <2>1. ExtractSo(archive) = <<archive[CHOOSE i \in All : \A j \in All : i <= j]>>
    BY <1>1, <1>3 DEF ExtractSo, FirstOf
  <2>2. ExtractLibrary(archive) = <<archive[CHOOSE i \in Ours : \A j \in Ours : i <= j]>>
    BY <1>1 DEF ExtractLibrary, FirstOf
  <2> QED
    BY <1>3, <2>1, <2>2

LEMMA AcceptedIsLoadable ==
    ASSUME NEW archive \in Seq(Entry), IsAccepted(archive), OneLibrary(archive)
    PROVE  Loads(archive)
BY OneLibraryForAll DEF IsAccepted, IsStored, Loads, ExtractForReconciler, ExtractLibrary

LEMMA PackedIsArchive == Packed \in Seq(Entry)
<1>1. Sound(Platform) \in Entry
  BY PlatformAssumption DEF Sound, Entry, Extensions, Symbols, Made
<1>2. Manifest \in Entry
  BY DEF Manifest, Sound, Entry, Extensions, Symbols, Made
<1> QED
  BY <1>1, <1>2 DEF Packed

-----------------------------------------------------------------------------
(***************************************************************************)
(* The inductive invariant.                                                *)
(***************************************************************************)

\* The answer is given once, for the file there is.
AnswersAreTrue ==
    \A e \in Edition : answer[e] = "ok" => package[e] # None /\ IsAccepted(package[e])

\* Whatever is registered, loaded or in hand has been built.
EditionsAreBuilt == \A e \in {row, cur, loaded} \ {0} : package[e] # None

\* While nothing disturbs it, the registry of tasks follows the reconciler:
\* it holds what is loaded, nothing between two editions, and while one is
\* loaded what has been put there of it.
HostFollows ==
    ~disturbed =>
        /\ own = 0
        /\ step = "idle" => /\ host = IF loaded = 0 THEN Nothing ELSE Whole(loaded)
                            /\ registered => loaded # 0
        /\ step = "unregister" => host = Nothing /\ loaded = 0
        /\ step \in {"tasks", "workflow"} => loaded = 0 /\ ~registered
        /\ step = "tasks" => /\ todo \subseteq Exported(cur)
                             /\ host = [t \in Task |-> IF t \in Exported(cur) \ todo THEN cur ELSE 0]
        /\ step = "workflow" => host = Whole(cur)

LInv == TypeOK /\ AnswersAreTrue /\ EditionsAreBuilt /\ HostFollows

LEMMA LInvHoldsFirst == Init => LInv
<1> SUFFICES ASSUME Init PROVE LInv
  OBVIOUS
<1> USE LoadingAssumption DEF Init
<1>1. Nothing \in [Task -> Edition \cup {0}] /\ 0 \in 0 .. MaxRestarts
  BY DEF Nothing
<1>2. TypeOK
  BY <1>1 DEF TypeOK
<1>3. AnswersAreTrue /\ EditionsAreBuilt /\ HostFollows
  BY DEF AnswersAreTrue, EditionsAreBuilt, HostFollows
<1> QED
  BY <1>2, <1>3 DEF LInv

-----------------------------------------------------------------------------
(***************************************************************************)
(* Packages and clients.                                                   *)
(***************************************************************************)

LEMMA BuildingKeepsLInv ==
    ASSUME LInv, NEW e \in Edition, Compile(e) \/ Assemble(e)
    PROVE  LInv'
<1> USE LoadingAssumption, PackedIsArchive DEF LInv
<1>1. /\ package[e] = None
      /\ \E archive \in Foreign \cup {Packed} : package' = [package EXCEPT ![e] = archive]
      /\ UNCHANGED <<source, answer, row, memory, plan, restarts>>
  BY DEF Compile, Assemble
<1>2. /\ package' \in [Edition -> Foreign \cup {Packed, None}]
      /\ \A d \in Edition : package[d] # None => package'[d] = package[d]
  BY <1>1 DEF TypeOK
<1>3. TypeOK'
  BY <1>1, <1>2 DEF TypeOK, memory
<1>4. AnswersAreTrue' /\ EditionsAreBuilt'
  BY <1>1, <1>2 DEF AnswersAreTrue, EditionsAreBuilt, TypeOK, memory
<1>5. HostFollows'
  BY <1>1 DEF HostFollows, memory, Exported, Whole
<1> QED
  BY <1>3, <1>4, <1>5

LEMMA RegisteringKeepsLInv ==
    ASSUME LInv, NEW e \in Edition, Register(e) \/ RegisterHere(e)
    PROVE  LInv'
<1> USE LoadingAssumption DEF LInv, TypeOK
<1>1. package[e] # None /\ IsStored(package[e]) /\ Answer(e) \in {"ok", "error"}
      /\ (Answer(e) = "ok" => IsAccepted(package[e]))
  BY DEF Register, RegisterHere, Stores, Answer
<1>2. /\ row' = e /\ answer' = [answer EXCEPT ![e] = Answer(e)]
      /\ UNCHANGED <<source, package, host, registered, step, cur, todo, loaded, plan, restarts>>
      /\ \/ UNCHANGED <<own, ownTodo, disturbed>>
         \/ own' = e /\ ownTodo' = Exported(e) /\ disturbed' = TRUE
  BY DEF Register, RegisterHere, memory
<1>3. Exported(e) \subseteq Task /\ e # 0
  BY DEF Exported, Edition
<1>4. TypeOK'
  BY <1>1, <1>2, <1>3
<1>5. AnswersAreTrue' /\ EditionsAreBuilt'
  BY <1>1, <1>2 DEF AnswersAreTrue, EditionsAreBuilt
<1>6. HostFollows'
  BY <1>2 DEF HostFollows, Exported, Whole
<1> QED
  BY <1>4, <1>5, <1>6

LEMMA ClientsKeepLInv ==
    ASSUME LInv, Unregister \/ \E t \in Task : OwnTask(t)
    PROVE  LInv'
<1> USE DEF LInv, TypeOK
<1>1. CASE Unregister
  <2> USE <1>1 DEF Unregister, memory, files
  <2>1. TypeOK'
    OBVIOUS
  <2>2. AnswersAreTrue' /\ EditionsAreBuilt' /\ HostFollows'
    BY DEF AnswersAreTrue, EditionsAreBuilt, HostFollows, Exported, Whole
  <2> QED
    BY <2>1, <2>2
<1>2. ASSUME NEW t \in Task, OwnTask(t) PROVE LInv'
  <2> USE <1>2 DEF OwnTask, files
  <2>1. own # 0 /\ disturbed
    BY DEF HostFollows
  <2>2. TypeOK'
    BY <2>1
  <2> QED
    BY <2>1, <2>2 DEF AnswersAreTrue, EditionsAreBuilt, HostFollows
<1> QED
  BY <1>1, <1>2

-----------------------------------------------------------------------------
(***************************************************************************)
(* The reconciler.                                                         *)
(***************************************************************************)

\* It changes no file and no row.
LEMMA ReconcilerLeavesFiles ==
    ASSUME LInv, UNCHANGED <<files, row>>, cur' \in {0, cur, row}, loaded' \in {0, cur, loaded}
    PROVE  AnswersAreTrue' /\ EditionsAreBuilt'
BY DEF LInv, files, AnswersAreTrue, EditionsAreBuilt

LEMMA UnloadingKeepsLInv ==
    ASSUME LInv, UnloadTasks \/ UnloadWorkflow
    PROVE  LInv'
<1> USE DEF LInv, TypeOK, files
<1>1. CASE UnloadTasks
  <2> USE <1>1 DEF UnloadTasks, MustUnload
  <2>1. TypeOK'
    BY DEF Without
  <2>2. HostFollows'
    BY DEF HostFollows, Without, Whole, Nothing
  <2> QED
    BY <2>1, <2>2, ReconcilerLeavesFiles
<1>2. CASE UnloadWorkflow
  <2> USE <1>2 DEF UnloadWorkflow
  <2>0. cur = 0 /\ todo = {} /\ step = "unregister"
    OBVIOUS
  <2>1. TypeOK'
    BY <2>0
  <2>2. HostFollows'
    BY DEF HostFollows
  <2> QED
    BY <2>1, <2>2, ReconcilerLeavesFiles
<1> QED
  BY <1>1, <1>2

LEMMA LoadingKeepsLInv ==
    ASSUME LInv, BeginLoad \/ (\E t \in Task : LoadTask(t)) \/ LoadWorkflow
    PROVE  LInv'
<1> USE LoadingAssumption DEF LInv, TypeOK, files
<1>1. CASE BeginLoad
  <2> USE <1>1 DEF BeginLoad
  <2>1. Exported(row) \subseteq Task /\ row \in Edition /\ row # 0
    BY DEF Exported
  <2>2. TypeOK'
    BY <2>1
  <2>3. HostFollows'
    BY <2>1 DEF HostFollows, Nothing, Exported
  <2> QED
    BY <2>2, <2>3, ReconcilerLeavesFiles
<1>2. ASSUME NEW t \in Task, LoadTask(t) PROVE LInv'
  <2> USE <1>2 DEF LoadTask
  <2>1. step = "tasks" /\ cur \in Edition /\ cur # 0
    OBVIOUS
  <2>2. TypeOK'
    BY <2>1
  <2>3. HostFollows'
    BY <2>1, ZenonT(40) DEF HostFollows, Exported, Whole
  <2> QED
    BY <2>2, <2>3, ReconcilerLeavesFiles
<1>3. CASE LoadWorkflow
  <2> USE <1>3 DEF LoadWorkflow
  <2>1. TypeOK'
    OBVIOUS
  <2>2. HostFollows'
    BY DEF HostFollows, Exported, Whole
  <2> QED
    BY <2>1, <2>2, ReconcilerLeavesFiles
<1> QED
  BY <1>1, <1>2, <1>3

-----------------------------------------------------------------------------
LEMMA NothingIsInvalid == ~IsValid(Nothing)
BY DEF IsValid, Held, Nothing

LEMMA PlanningKeepsLInv ==
    ASSUME LInv, NEW p \in Pipelines, Schedule(p)
    PROVE  LInv'
<1> USE DEF LInv, TypeOK, Schedule, files, memory
<1>1. Constructed \in [Task -> Edition \cup {0}]
  BY DEF Constructed, Nothing
<1>2. TypeOK'
  BY <1>1
<1>3. AnswersAreTrue' /\ EditionsAreBuilt' /\ HostFollows'
  BY DEF AnswersAreTrue, EditionsAreBuilt, HostFollows, Exported, Whole
<1> QED
  BY <1>2, <1>3

LEMMA RestartKeepsLInv ==
    ASSUME LInv, Restart
    PROVE  LInv'
<1> USE LoadingAssumption DEF LInv, Restart, files
<1>1. Nothing \in [Task -> Edition \cup {0}] /\ restarts' \in 0 .. MaxRestarts
  BY DEF Nothing, TypeOK
<1>3. TypeOK'
  BY <1>1 DEF TypeOK
<1>2. AnswersAreTrue' /\ EditionsAreBuilt' /\ HostFollows'
  BY DEF AnswersAreTrue, EditionsAreBuilt, HostFollows
<1> QED
  BY <1>2, <1>3

LEMMA LInvIsInductive == LInv /\ [Next]_vars => LInv'
<1>1. ASSUME LInv, Next PROVE LInv'
  BY <1>1, BuildingKeepsLInv, RegisteringKeepsLInv, ClientsKeepLInv, UnloadingKeepsLInv,
     LoadingKeepsLInv, PlanningKeepsLInv, RestartKeepsLInv
     DEF Next, Reconcile
<1>2. ASSUME LInv, UNCHANGED vars PROVE LInv'
  BY <1>2 DEF vars, memory, LInv, TypeOK, AnswersAreTrue, EditionsAreBuilt, HostFollows, Exported, Whole
<1> QED
  BY <1>1, <1>2

LEMMA LInvHolds == Spec => []LInv
BY LInvHoldsFirst, LInvIsInductive, PTL DEF Spec

\* Every variable keeps its type, through every edition and restart.
THEOREM LoadingTypeCorrect == Spec => []TypeOK
BY LInvHolds, PTL DEF LInv

\* Whatever archives there are: what a client has been told is registered can
\* be loaded, if there is one library in it.
THEOREM AcceptedAlwaysLoads == Spec => []AcceptedLoads
<1>1. LInv => AcceptedLoads
  <2> SUFFICES ASSUME LInv, NEW e \in Edition, answer[e] = "ok", OneLibrary(package[e])
               PROVE  Loads(package[e])
    BY DEF AcceptedLoads
  <2>1. package[e] \in Seq(Entry) /\ IsAccepted(package[e])
    BY LoadingAssumption, PackedIsArchive DEF LInv, TypeOK, AnswersAreTrue
  <2> QED
    BY <2>1, AcceptedIsLoadable
<1> QED
  BY <1>1, LInvHolds, PTL

\* For any sources, any number of editions and pipelines: undisturbed, a plan
\* is the tasks of one edition, all of them, or none.
THEOREM PlansAreWhole == Spec => PlanIsWholeOrEmpty
<1>1. ASSUME LInv, Next, NEW p \in Pipelines, plan[p] = None, plan'[p] # None, ~disturbed
      PROVE  \/ plan'[p] = Nothing
             \/ \E e \in Edition : package[e] # None /\ plan'[p] = Whole(e)
  <2>1. Schedule(p)
    <3>1. plan' # plan
      BY <1>1
    <3>2. PICK q \in Pipelines : Schedule(q)
      BY <1>1, <3>1
         DEF Next, Reconcile, Compile, Assemble, Register, RegisterHere, OwnTask, Unregister,
             UnloadTasks, UnloadWorkflow, BeginLoad, LoadTask, LoadWorkflow, Restart
    <3>3. p = q
      BY <1>1, <3>2 DEF Schedule, LInv, TypeOK
    <3> QED
      BY <3>2, <3>3
  <2>2. plan'[p] = Constructed /\ registered
    BY <1>1, <2>1 DEF Schedule, LInv, TypeOK
  <2>3. host = Nothing \/ (loaded \in Edition /\ host = Whole(loaded))
    BY <1>1, <2>2 DEF LInv, TypeOK, HostFollows
  <2>4. loaded \in Edition => package[loaded] # None
    BY <1>1 DEF LInv, EditionsAreBuilt, Edition
  <2> QED
    BY <2>2, <2>3, <2>4 DEF Constructed
<1>2. LInv /\ [Next]_vars =>
        [\A p \in Pipelines :
            plan[p] = None /\ plan'[p] # None /\ ~disturbed =>
              \/ plan'[p] = Nothing
              \/ \E e \in Edition : package[e] # None /\ plan'[p] = Whole(e)]_vars
  BY <1>1
<1> QED
  BY <1>2, LInvHolds, PTL DEF Spec, PlanIsWholeOrEmpty
=============================================================================
