--------------------------- MODULE PackageRegistry ---------------------------
(***************************************************************************)
(* Packages of workflows.  Clients store a package as a binary and a row   *)
(* that names it, two writes without a transaction, and remove it again.   *)
(* The reconciler of every process compares the rows with what it has      *)
(* loaded, and puts the tasks and the workflow of a package into, or takes *)
(* them out of, the registries of its process.  The scheduler executes a   *)
(* pipeline only while its workflow is in there.                           *)
(*                                                                         *)
(* Every package is of version 1.0.0, whatever its manifest says: the      *)
(* loader knows no other, so that the unique (name, version) of a row is   *)
(* its name.                                                               *)
(***************************************************************************)
EXTENDS Naturals, FiniteSets

CONSTANTS
  Names,        \* package names
  WorkflowOf,   \* the workflow a package contains
  Broken,       \* packages whose workflow fails its validation
  Processes,    \* processes with a reconciler
  Clients,      \* users of a WorkflowRegistryImpl
  Home,         \* the process a client is in
  MaxIds,       \* bound: registrations
  MaxRemovals,  \* bound: removals
  MaxFaults,    \* bound: calls that fail
  MaxStops,     \* bound: times a process ends
  None

Ids == 1 .. MaxIds

ASSUME RegistryAssumption ==
  /\ Broken \subseteq Names
  /\ DOMAIN WorkflowOf = Names
  /\ Home \in [Clients -> Processes]
  /\ MaxIds \in Nat /\ MaxRemovals \in Nat /\ MaxFaults \in Nat /\ MaxStops \in Nat
  /\ None \notin Names

VARIABLES
  row,        \* workflow_packages: the binary a name refers to, 0 without a row
  blobs,      \* registry storage: the binaries that are there
  nameOf,     \* the package a binary was built from, None when not yet stored
  cpc,        \* the await a client stands at
  arg,        \* the package it is working on
  found,      \* the binary it stored or looked up, 0 for none
  rpc,        \* the await a reconciler stands at
  toUnload,   \* packages the current reconciliation has still to unload
  toLoad,     \* and those it has still to load
  cur,        \* the package it is loading, 0 for none
  fetched,    \* the binary the row of that package refers to
  loaded,     \* loaded_packages
  tasks,      \* the global task registry: the binary behind a package's tasks
  workflows,  \* the global workflow registry
  waiting,    \* pipelines to be executed, by the package of their workflow
  removals, faults, stops   \* bounds

storageVars == <<row, blobs, nameOf>>
clientVars  == <<cpc, arg, found, removals>>
passVars    == <<rpc, toUnload, toLoad, cur, fetched>>
memoryVars  == <<loaded, tasks, workflows>>
vars == <<storageVars, clientVars, passVars, memoryVars, waiting, faults, stops>>

\* The types, by who writes the variables: what the storage holds, ...
WorkflowPackages == row \in [Names -> Ids \cup {0}]

WorkflowRegistryEntries ==
  /\ blobs \in SUBSET Ids
  /\ nameOf \in [Ids -> Names \cup {None}]

StorageTypeOK == WorkflowPackages /\ WorkflowRegistryEntries

\* ... where a client is in one of its calls, ...
ClientTypeOK ==
  /\ cpc \in [Clients -> {"idle", "check", "store", "insert", "register",
                          "find", "row", "blob"}]
  /\ arg \in [Clients -> Names \cup {None}]
  /\ \A c \in Clients : (arg[c] = None) = (cpc[c] = "idle")
  /\ found \in [Clients -> Ids \cup {0}]
  /\ removals \in Nat

\* ... a reconciler in its pass, and what a process has loaded.
PassTypeOK ==
  /\ rpc \in [Processes -> {"idle", "list", "work", "get", "blob", "tasks", "workflow"}]
  /\ toUnload \in [Processes -> SUBSET Ids]
  /\ toLoad \in [Processes -> SUBSET Ids]
  /\ cur \in [Processes -> Ids \cup {0}]
  /\ \A r \in Processes : (cur[r] # 0) = (rpc[r] \in {"get", "blob", "tasks", "workflow"})
  /\ fetched \in [Processes -> Ids \cup {0}]

MemoryTypeOK ==
  /\ loaded \in [Processes -> SUBSET Ids]
  /\ tasks \in [Processes -> [Names -> Ids \cup {0}]]
  /\ workflows \in [Processes -> SUBSET {WorkflowOf[n] : n \in Names}]

TypeOK ==
  /\ StorageTypeOK /\ ClientTypeOK /\ PassTypeOK /\ MemoryTypeOK
  /\ waiting \in SUBSET Names
  /\ faults \in Nat /\ stops \in Nat

Init ==
  /\ row = [n \in Names |-> 0]
  /\ blobs = {}
  /\ nameOf = [i \in Ids |-> None]
  /\ cpc = [c \in Clients |-> "idle"]
  /\ arg = [c \in Clients |-> None]
  /\ found = [c \in Clients |-> 0]
  /\ rpc = [r \in Processes |-> "idle"]
  /\ toUnload = [r \in Processes |-> {}]
  /\ toLoad = [r \in Processes |-> {}]
  /\ cur = [r \in Processes |-> 0]
  /\ fetched = [r \in Processes |-> 0]
  /\ loaded = [r \in Processes |-> {}]
  /\ tasks = [r \in Processes |-> [n \in Names |-> 0]]
  /\ workflows = [r \in Processes |-> {}]
  /\ waiting = {}
  /\ removals = 0 /\ faults = 0 /\ stops = 0

-----------------------------------------------------------------------------
(***************************************************************************)
(* Statements.                                                             *)
(***************************************************************************)

\* Identifiers are drawn at random; a new one is a new one.
FreshIds == {i \in Ids : nameOf[i] = None /\ \A j \in 1 .. i - 1 : nameOf[j] # None}

StoreBinary(i, n) ==
  /\ blobs' = blobs \cup {i}
  /\ nameOf' = [nameOf EXCEPT ![i] = n]
  /\ UNCHANGED row

\* The index on name and version refuses a second row.
InsertRow(n, i) ==
  /\ row' = IF row[n] = 0 THEN [row EXCEPT ![n] = i] ELSE row
  /\ UNCHANGED <<blobs, nameOf>>

\* By name and version, not by the row that was looked up.
DeleteRow(n) ==
  /\ row' = [row EXCEPT ![n] = 0]
  /\ UNCHANGED <<blobs, nameOf>>

DeleteRowById(i) ==
  /\ row' = [n \in Names |-> IF row[n] = i THEN 0 ELSE row[n]]
  /\ UNCHANGED <<blobs, nameOf>>

HasBinary(i) == i \in blobs

\* A file, or a row of workflow_registry; in the latter case the rows that
\* refer to it would go with it, but there are none left.
DeleteBinary(i) ==
  /\ blobs' = blobs \ {i}
  /\ UNCHANGED <<row, nameOf>>

-----------------------------------------------------------------------------
(***************************************************************************)
(* WorkflowRegistryImpl                                                    *)
(***************************************************************************)

At(c, place)  == cpc[c] = place
Goes(c, place) == cpc' = [cpc EXCEPT ![c] = place]
Returns(c) ==
  /\ Goes(c, "idle")
  /\ arg' = [arg EXCEPT ![c] = None]
  /\ found' = [found EXCEPT ![c] = 0]

\* register_workflow, once the package has been unpacked and validated.
BeginRegister(c, n) ==
  /\ At(c, "idle")
  /\ Goes(c, "check")
  /\ arg' = [arg EXCEPT ![c] = n]
  /\ UNCHANGED <<storageVars, found, removals, passVars, memoryVars, waiting, faults, stops>>

CheckExists(c) ==
  /\ At(c, "check")
  /\ IF row[arg[c]] # 0 THEN Returns(c) ELSE Goes(c, "store") /\ UNCHANGED <<arg, found>>
  /\ UNCHANGED <<storageVars, removals, passVars, memoryVars, waiting, faults, stops>>

Store(c) ==
  /\ At(c, "store")
  /\ \E i \in FreshIds :
       /\ StoreBinary(i, arg[c])
       /\ found' = [found EXCEPT ![c] = i]
  /\ Goes(c, "insert")
  /\ UNCHANGED <<arg, removals, passVars, memoryVars, waiting, faults, stops>>

\* A package registered in between makes the insert fail: the binary stays.
Insert(c) ==
  /\ At(c, "insert")
  /\ InsertRow(arg[c], found[c])
  /\ IF row[arg[c]] # 0 THEN Returns(c) ELSE Goes(c, "register") /\ UNCHANGED <<arg, found>>
  /\ UNCHANGED <<removals, passVars, memoryVars, waiting, faults, stops>>

\* Straight into the registry of the client's process.
RegisterTasks(c) ==
  /\ At(c, "register")
  /\ tasks' = [tasks EXCEPT ![Home[c]][arg[c]] = found[c]]
  /\ Returns(c)
  /\ UNCHANGED <<storageVars, removals, passVars, loaded, workflows, waiting, faults, stops>>

\* unregister_workflow, and unregister_workflow_package_by_id.  What they remove
\* from their own loaded_packages has no effect on the task registry.
BeginUnregister(c, n) ==
  /\ At(c, "idle")
  /\ removals < MaxRemovals
  /\ removals' = removals + 1
  /\ Goes(c, "find")
  /\ arg' = [arg EXCEPT ![c] = n]
  /\ UNCHANGED <<storageVars, found, passVars, memoryVars, waiting, faults, stops>>

\* Mutant of Find: the binary goes first.
FindBinaryFirst(c) ==
  /\ At(c, "find")
  /\ IF row[arg[c]] = 0
       THEN Returns(c)
       ELSE Goes(c, "blob") /\ found' = [found EXCEPT ![c] = row[arg[c]]] /\ UNCHANGED arg
  /\ UNCHANGED <<storageVars, removals, passVars, memoryVars, waiting, faults, stops>>

Find(c) ==
  /\ At(c, "find")
  /\ IF row[arg[c]] = 0
       THEN Returns(c)
       ELSE Goes(c, "row") /\ found' = [found EXCEPT ![c] = row[arg[c]]] /\ UNCHANGED arg
  /\ UNCHANGED <<storageVars, removals, passVars, memoryVars, waiting, faults, stops>>

\* By name, or by the identifier of the row.
RemoveRow(c) ==
  /\ At(c, "row")
  /\ DeleteRow(arg[c]) \/ DeleteRowById(found[c])
  /\ Goes(c, "blob")
  /\ UNCHANGED <<arg, found, removals, passVars, memoryVars, waiting, faults, stops>>

RemoveBinary(c) ==
  /\ At(c, "blob")
  /\ DeleteBinary(found[c])
  /\ Returns(c)
  /\ UNCHANGED <<removals, passVars, memoryVars, waiting, faults, stops>>

-----------------------------------------------------------------------------
(***************************************************************************)
(* RegistryReconciler::reconcile                                           *)
(***************************************************************************)

Stored == {row[n] : n \in Names} \ {0}

Wake(r) ==
  /\ rpc[r] = "idle"
  /\ rpc' = [rpc EXCEPT ![r] = "list"]
  /\ UNCHANGED <<storageVars, clientVars, toUnload, toLoad, cur, fetched,
                 memoryVars, waiting, faults, stops>>

\* Mutant of ToUnload: nothing is ever unloaded.
KeepAll(r) == {}

\* Mutant of ToLoad: tasks that are registered already are not loaded again.
SkipKnown(r) == {i \in Stored \ loaded[r] : tasks[r][nameOf[i]] = 0}

ToLoad(r) == Stored \ loaded[r]

ToUnload(r) == loaded[r] \ Stored

List(r) ==
  /\ rpc[r] = "list"
  /\ toUnload' = [toUnload EXCEPT ![r] = ToUnload(r)]
  /\ toLoad' = [toLoad EXCEPT ![r] = ToLoad(r)]
  /\ rpc' = [rpc EXCEPT ![r] = "work"]
  /\ UNCHANGED <<storageVars, clientVars, cur, fetched, memoryVars, waiting, faults, stops>>

\* The state of the package goes, then its tasks and its workflow, by name.
Unload(r, i) ==
  /\ rpc[r] = "work"
  /\ i \in toUnload[r]
  /\ toUnload' = [toUnload EXCEPT ![r] = @ \ {i}]
  /\ loaded' = [loaded EXCEPT ![r] = @ \ {i}]
  /\ tasks' = [tasks EXCEPT ![r][nameOf[i]] = 0]
  /\ workflows' = [workflows EXCEPT ![r] = @ \ {WorkflowOf[nameOf[i]]}]
  /\ UNCHANGED <<storageVars, clientVars, rpc, toLoad, cur, fetched, waiting, faults, stops>>

\* Everything is unloaded before anything is loaded.
MayLoad(r) == toUnload[r] = {}

BeginLoad(r, i) ==
  /\ rpc[r] = "work"
  /\ MayLoad(r)
  /\ i \in toLoad[r]
  /\ toLoad' = [toLoad EXCEPT ![r] = @ \ {i}]
  /\ cur' = [cur EXCEPT ![r] = i]
  /\ rpc' = [rpc EXCEPT ![r] = "get"]
  /\ UNCHANGED <<storageVars, clientVars, toUnload, fetched, memoryVars, waiting, faults, stops>>

EndLoad(r) ==
  /\ cur' = [cur EXCEPT ![r] = 0]
  /\ fetched' = [fetched EXCEPT ![r] = 0]
  /\ rpc' = [rpc EXCEPT ![r] = "work"]
  /\ UNCHANGED <<toUnload, toLoad>>

\* get_workflow finds the row by name: it may be gone, or another one by now.
GetRow(r) ==
  /\ rpc[r] = "get"
  /\ LET i == row[nameOf[cur[r]]] IN
       IF i = 0
         THEN EndLoad(r)
         ELSE /\ fetched' = [fetched EXCEPT ![r] = i]
              /\ rpc' = [rpc EXCEPT ![r] = "blob"]
              /\ UNCHANGED <<toUnload, toLoad, cur>>
  /\ UNCHANGED <<storageVars, clientVars, memoryVars, waiting, faults, stops>>

\* "Package metadata exists but binary data is missing": removed in between.
GetBinary(r) ==
  /\ rpc[r] = "blob"
  /\ IF HasBinary(fetched[r])
       THEN rpc' = [rpc EXCEPT ![r] = "tasks"] /\ UNCHANGED <<toUnload, toLoad, cur, fetched>>
       ELSE EndLoad(r)
  /\ UNCHANGED <<storageVars, clientVars, memoryVars, waiting, faults, stops>>

LoadTasks(r) ==
  /\ rpc[r] = "tasks"
  /\ tasks' = [tasks EXCEPT ![r][nameOf[cur[r]]] = fetched[r]]
  /\ rpc' = [rpc EXCEPT ![r] = "workflow"]
  /\ UNCHANGED <<storageVars, clientVars, toUnload, toLoad, cur, fetched,
                 loaded, workflows, waiting, faults, stops>>

\* The workflow is assembled from the tasks in the registry and validated.
\* When that fails the tasks stay, and the package is not tracked.
LoadWorkflow(r) ==
  /\ rpc[r] = "workflow"
  /\ LET n == nameOf[cur[r]] IN
       IF n \in Broken \/ tasks[r][n] = 0
         THEN UNCHANGED <<workflows, loaded>>
         ELSE /\ workflows' = [workflows EXCEPT ![r] = @ \cup {WorkflowOf[n]}]
              /\ loaded' = [loaded EXCEPT ![r] = @ \cup {cur[r]}]
  /\ EndLoad(r)
  /\ UNCHANGED <<storageVars, clientVars, tasks, waiting, faults, stops>>

EndPass(r) ==
  /\ rpc[r] = "work"
  /\ toUnload[r] = {} /\ toLoad[r] = {}
  /\ rpc' = [rpc EXCEPT ![r] = "idle"]
  /\ UNCHANGED <<storageVars, clientVars, toUnload, toLoad, cur, fetched,
                 memoryVars, waiting, faults, stops>>

-----------------------------------------------------------------------------
(***************************************************************************)
(* Pipelines of packaged workflows.                                        *)
(***************************************************************************)

Executable(r, n) == WorkflowOf[n] \in workflows[r] /\ tasks[r][n] # 0

\* execute looks the workflow up in the registry of its process.
Submit(r, n) ==
  /\ Executable(r, n)
  /\ waiting' = waiting \cup {n}
  /\ UNCHANGED <<storageVars, clientVars, passVars, memoryVars, faults, stops>>

\* A pass of the scheduler of any process: without the workflow the readiness
\* update fails, and the pipeline is left for the next pass.
Advance(r, n) ==
  /\ n \in waiting
  /\ Executable(r, n)
  /\ waiting' = waiting \ {n}
  /\ UNCHANGED <<storageVars, clientVars, passVars, memoryVars, faults, stops>>

-----------------------------------------------------------------------------
(***************************************************************************)
(* Failed calls and stops.                                                 *)
(***************************************************************************)

Fault == faults < MaxFaults /\ faults' = faults + 1

\* register and unregister end at the first error, whatever is done by then.
ClientFails(c) ==
  /\ Fault
  /\ \/ cpc[c] \in {"check", "register", "find"} /\ UNCHANGED storageVars
     \/ At(c, "store")  /\ \E i \in FreshIds : StoreBinary(i, arg[c])
     \/ At(c, "store")  /\ UNCHANGED storageVars
     \/ At(c, "insert") /\ (InsertRow(arg[c], found[c]) \/ UNCHANGED storageVars)
     \/ At(c, "row")    /\ (DeleteRow(arg[c]) \/ DeleteRowById(found[c]) \/ UNCHANGED storageVars)
     \/ At(c, "blob")   /\ (DeleteBinary(found[c]) \/ UNCHANGED storageVars)
  /\ Returns(c)
  /\ UNCHANGED <<removals, passVars, memoryVars, waiting, stops>>

ListFails(r) ==
  /\ Fault
  /\ rpc[r] = "list"
  /\ rpc' = [rpc EXCEPT ![r] = "idle"]
  /\ UNCHANGED <<storageVars, clientVars, toUnload, toLoad, cur, fetched,
                 memoryVars, waiting, stops>>

\* One package that cannot be loaded does not keep the others.
LoadFails(r) ==
  /\ Fault
  /\ rpc[r] \in {"get", "blob", "tasks", "workflow"}
  /\ EndLoad(r)
  /\ UNCHANGED <<storageVars, clientVars, memoryVars, waiting, stops>>

\* The process ends with the clients in it and is started again.
Stop(r) ==
  /\ stops < MaxStops
  /\ stops' = stops + 1
  /\ cpc' = [c \in Clients |-> IF Home[c] = r THEN "idle" ELSE cpc[c]]
  /\ arg' = [c \in Clients |-> IF Home[c] = r THEN None ELSE arg[c]]
  /\ found' = [c \in Clients |-> IF Home[c] = r THEN 0 ELSE found[c]]
  /\ rpc' = [rpc EXCEPT ![r] = "idle"]
  /\ toUnload' = [toUnload EXCEPT ![r] = {}]
  /\ toLoad' = [toLoad EXCEPT ![r] = {}]
  /\ cur' = [cur EXCEPT ![r] = 0]
  /\ fetched' = [fetched EXCEPT ![r] = 0]
  /\ loaded' = [loaded EXCEPT ![r] = {}]
  /\ tasks' = [tasks EXCEPT ![r] = [n \in Names |-> 0]]
  /\ workflows' = [workflows EXCEPT ![r] = {}]
  /\ UNCHANGED <<storageVars, waiting, removals, faults>>

-----------------------------------------------------------------------------
Client(c) ==
  \/ \E n \in Names : BeginRegister(c, n) \/ BeginUnregister(c, n)
  \/ CheckExists(c) \/ Store(c) \/ Insert(c) \/ RegisterTasks(c)
  \/ Find(c) \/ RemoveRow(c) \/ RemoveBinary(c)

Reconcile(r) ==
  \/ Wake(r) \/ List(r) \/ EndPass(r)
  \/ \E i \in Ids : Unload(r, i) \/ BeginLoad(r, i)
  \/ GetRow(r) \/ GetBinary(r) \/ LoadTasks(r) \/ LoadWorkflow(r)

Schedule(n) == \E r \in Processes : Advance(r, n)

Next ==
  \/ \E c \in Clients : Client(c) \/ ClientFails(c)
  \/ \E r \in Processes : Reconcile(r) \/ ListFails(r) \/ LoadFails(r) \/ Stop(r)
  \/ \E r \in Processes, n \in Names : Submit(r, n)
  \/ \E n \in Names : Schedule(n)

Spec == Init /\ [][Next]_vars

\* The intervals of the reconcilers and of the scheduler tick for ever.
Fairness ==
  /\ \A r \in Processes : WF_vars(Reconcile(r))
  /\ \A n \in Names : WF_vars(Schedule(n))

FairSpec == Spec /\ Fairness
-----------------------------------------------------------------------------
(***************************************************************************)
(* Properties.                                                             *)
(***************************************************************************)

\* Whoever reads a row finds its binary: two clients that register, remove and
\* register again, with a failed call or a stop between any two writes, never
\* leave a name that refers to nothing.
RowHasBinary == \A n \in Names : row[n] # 0 => row[n] \in blobs

Sound == {row[n] : n \in Names \ Broken} \ {0}

\* What is loaded converges to what is stored, once clients rest: a package
\* that failed once is tried again, a broken one keeps no other from loading.
LoadedConverges ==
  <>[](\A r \in Processes :
         /\ loaded[r] = Sound
         /\ \A n \in Names \ Broken : row[n] # 0 => Executable(r, n))

\* A pipeline whose workflow disappeared from every process is executed when
\* its package is there again; it waits as long as it is not.
PackagedPipelineRuns ==
  \A n \in Names : n \in waiting ~> (n \notin waiting \/ row[n] = 0)
=============================================================================
