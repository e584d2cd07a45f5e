--------------------------- MODULE RegistryProofs ---------------------------
(***************************************************************************)
(* The storage of packages, for any number of names, clients, processes    *)
(* and registrations: whoever reads a row finds the binary it refers to.   *)
(***************************************************************************)
EXTENDS PackageRegistry, TLAPS

USE DEF WorkflowPackages, WorkflowRegistryEntries

-----------------------------------------------------------------------------
(***************************************************************************)
(* The inductive invariant.                                                *)
(***************************************************************************)

\* A row refers to a binary that was stored for its name and is there.
RowsAreGood ==
  \A n \in Names : row[n] # 0 => row[n] \in blobs /\ nameOf[row[n]] = n

\* A client works on a binary of the package it was called for.
FoundIsOwn(c) ==
  cpc[c] \in {"insert", "register", "row", "blob"} =>
    found[c] \in Ids /\ nameOf[found[c]] = arg[c]

\* What a client is about to insert is there, and in no row.
NewIsThere(c) ==
  cpc[c] = "insert" => found[c] \in blobs /\ \A n \in Names : row[n] # found[c]

\* What a client is about to remove is in no row any more.
OldIsGone(c) ==
  cpc[c] = "blob" => \A n \in Names : row[n] # found[c]

\* What one client is about to insert, no other inserts or removes.
Apart(c, d) ==
  cpc[c] = "insert" /\ cpc[d] \in {"insert", "row", "blob"} => found[d] # found[c]

ClientInv ==
  /\ RowsAreGood
  /\ \A c \in Clients : FoundIsOwn(c) /\ NewIsThere(c) /\ OldIsGone(c)
  /\ \A c, d \in Clients : c # d => Apart(c, d)

\* A reconciler knows binaries that have been stored.
NamesAreKnown ==
  \A r \in Processes, i \in Ids :
    i \in toUnload[r] \cup toLoad[r] \cup loaded[r] \/ i = cur[r] => nameOf[i] \in Names

PInv == TypeOK /\ ClientInv /\ NamesAreKnown

LEMMA TypesAreSplit ==
    TypeOK <=> /\ StorageTypeOK /\ ClientTypeOK /\ PassTypeOK /\ MemoryTypeOK
               /\ waiting \in SUBSET Names /\ faults \in Nat /\ stops \in Nat
BY DEF TypeOK,
        StorageTypeOK, ClientTypeOK, PassTypeOK, MemoryTypeOK

LEMMA TypesTogether ==
    ASSUME StorageTypeOK', ClientTypeOK', PassTypeOK', MemoryTypeOK',
           waiting' \in SUBSET Names, faults' \in Nat, stops' \in Nat
    PROVE  TypeOK'
BY DEF TypeOK,
        StorageTypeOK, ClientTypeOK, PassTypeOK, MemoryTypeOK

LEMMA PInvHoldsFirst == Init => PInv
<1> SUFFICES ASSUME Init PROVE PInv
  OBVIOUS
<1> USE RegistryAssumption DEF Init, Ids
<1>1. TypeOK
  BY DEF TypeOK,
        StorageTypeOK, ClientTypeOK, PassTypeOK, MemoryTypeOK
<1>2. ClientInv /\ NamesAreKnown
  BY DEF ClientInv, RowsAreGood, FoundIsOwn, NewIsThere, OldIsGone, Apart, NamesAreKnown
<1> QED
  BY <1>1, <1>2 DEF PInv

-----------------------------------------------------------------------------
(***************************************************************************)
(* Clients.                                                                *)
(***************************************************************************)

\* What a client may write where it stands.
Writes(c) ==
  \/ UNCHANGED storageVars
  \/ At(c, "store")  /\ \E i \in FreshIds : StoreBinary(i, arg[c])
  \/ At(c, "insert") /\ InsertRow(arg[c], found[c])
  \/ At(c, "row")    /\ (DeleteRow(arg[c]) \/ DeleteRowById(found[c]))
  \/ At(c, "blob")   /\ DeleteBinary(found[c])

LEMMA ArgIsName ==
    ASSUME PInv, NEW c \in Clients
    PROVE  cpc[c] # "idle" => arg[c] \in Names
BY DEF PInv, TypeOK,
        StorageTypeOK, ClientTypeOK, PassTypeOK, MemoryTypeOK

LEMMA WritesKeepTypes ==
    ASSUME PInv, NEW c \in Clients, Writes(c)
    PROVE  StorageTypeOK'
<1> USE RegistryAssumption, TypesAreSplit, ArgIsName
        DEF PInv, StorageTypeOK, At, Ids, ClientInv
<1>1. CASE UNCHANGED storageVars
  BY <1>1 DEF storageVars
<1>2. CASE At(c, "store") /\ \E i \in FreshIds : StoreBinary(i, arg[c])
  BY <1>2 DEF StoreBinary, FreshIds
<1>3. CASE At(c, "insert") /\ InsertRow(arg[c], found[c])
  BY <1>3 DEF InsertRow, FoundIsOwn
<1>4. CASE At(c, "row") /\ (DeleteRow(arg[c]) \/ DeleteRowById(found[c]))
  BY <1>4 DEF DeleteRow, DeleteRowById
<1>5. CASE At(c, "blob") /\ DeleteBinary(found[c])
  BY <1>5 DEF DeleteBinary
<1> QED
  BY <1>1, <1>2, <1>3, <1>4, <1>5 DEF Writes

\* Binaries keep their names.
LEMMA StoredNamesStay ==
    ASSUME PInv, NEW c \in Clients, Writes(c), NEW i \in Ids, nameOf[i] # None
    PROVE  nameOf'[i] = nameOf[i]
BY DEF PInv, TypeOK,
        StorageTypeOK, ClientTypeOK, PassTypeOK, MemoryTypeOK,
        Writes, storageVars, StoreBinary, FreshIds, InsertRow, DeleteRow,
       DeleteRowById, DeleteBinary

\* Rows stay good whatever a client writes.
LEMMA WritesKeepRows ==
    ASSUME PInv, NEW c \in Clients, Writes(c)
    PROVE  RowsAreGood'
<1> SUFFICES ASSUME NEW n \in Names, row'[n] # 0
             PROVE  row'[n] \in blobs' /\ nameOf'[row'[n]] = n
  BY DEF RowsAreGood
<1> USE RegistryAssumption, ArgIsName DEF PInv, TypeOK,
        StorageTypeOK, ClientTypeOK, PassTypeOK, MemoryTypeOK, At, ClientInv
<1>1. row[n] # 0 => row[n] \in blobs /\ nameOf[row[n]] = n /\ row[n] \in Ids
  BY DEF RowsAreGood
<1>2. CASE UNCHANGED storageVars
  BY <1>1, <1>2 DEF storageVars
<1>3. CASE At(c, "store") /\ \E i \in FreshIds : StoreBinary(i, arg[c])
  BY <1>1, <1>3 DEF StoreBinary, FreshIds
<1>4. CASE At(c, "insert") /\ InsertRow(arg[c], found[c])
  BY <1>1, <1>4 DEF InsertRow, FoundIsOwn, NewIsThere
<1>5. CASE At(c, "row") /\ (DeleteRow(arg[c]) \/ DeleteRowById(found[c]))
  BY <1>1, <1>5 DEF DeleteRow, DeleteRowById
<1>6. CASE At(c, "blob") /\ DeleteBinary(found[c])
  BY <1>1, <1>6 DEF DeleteBinary, OldIsGone
<1> QED
  BY <1>2, <1>3, <1>4, <1>5, <1>6 DEF Writes

\* The other clients are not disturbed.
LEMMA WritesKeepOthers ==
    ASSUME PInv, NEW c \in Clients, Writes(c), NEW d \in Clients \ {c},
           cpc'[d] = cpc[d], arg'[d] = arg[d], found'[d] = found[d]
    PROVE  FoundIsOwn(d)' /\ NewIsThere(d)' /\ OldIsGone(d)'
<1> USE RegistryAssumption DEF PInv, ClientInv
<1>1. FoundIsOwn(d)'
  <2>1. cpc[d] # "idle" => arg[d] # None
    BY DEF TypeOK,
        StorageTypeOK, ClientTypeOK, PassTypeOK, MemoryTypeOK
  <2> QED
    BY <2>1, StoredNamesStay DEF FoundIsOwn
<1>2. NewIsThere(d)'
  <2> SUFFICES ASSUME cpc[d] = "insert"
               PROVE  found[d] \in blobs' /\ \A n \in Names : row'[n] # found[d]
    BY DEF NewIsThere
  <2>1. found[d] \in Ids /\ found[d] \in blobs /\ \A n \in Names : row[n] # found[d]
    BY DEF FoundIsOwn, NewIsThere
  <2>2. cpc[c] \in {"insert", "row", "blob"} => found[c] # found[d]
    BY DEF Apart
  <2>3. 0 \notin Ids
    BY DEF Ids
  <2> QED
    BY <2>1, <2>2, <2>3, ArgIsName
       DEF TypeOK,
           StorageTypeOK, ClientTypeOK, PassTypeOK, MemoryTypeOK,
           Writes, At, storageVars, StoreBinary, InsertRow, DeleteRow, DeleteRowById, DeleteBinary
<1>3. OldIsGone(d)'
  <2> SUFFICES ASSUME cpc[d] = "blob" PROVE \A n \in Names : row'[n] # found[d]
    BY DEF OldIsGone
  <2>1. found[d] \in Ids /\ \A n \in Names : row[n] # found[d]
    BY DEF FoundIsOwn, OldIsGone
  <2>2. cpc[c] = "insert" => found[c] # found[d]
    BY DEF Apart
  <2>3. 0 \notin Ids
    BY DEF Ids
  <2> QED
    BY <2>1, <2>2, <2>3, ArgIsName
       DEF TypeOK,
           StorageTypeOK, ClientTypeOK, PassTypeOK, MemoryTypeOK,
           Writes, At, storageVars, StoreBinary, InsertRow, DeleteRow, DeleteRowById, DeleteBinary
<1> QED
  BY <1>1, <1>2, <1>3

OthersRest(c) ==
  \A d \in Clients \ {c} : cpc'[d] = cpc[d] /\ arg'[d] = arg[d] /\ found'[d] = found[d]

\* So what a client does is good when it is for the client itself.
LEMMA ClientInvIsLocal ==
    ASSUME PInv, NEW c \in Clients, Writes(c), OthersRest(c),
           FoundIsOwn(c)', NewIsThere(c)', OldIsGone(c)',
           \A d \in Clients \ {c} : Apart(c, d)' /\ Apart(d, c)'
    PROVE  ClientInv'
<1>1. RowsAreGood'
  BY WritesKeepRows
<1>2. \A d \in Clients : FoundIsOwn(d)' /\ NewIsThere(d)' /\ OldIsGone(d)'
  BY WritesKeepOthers DEF OthersRest
<1>3. ASSUME NEW d \in Clients \ {c}, NEW e \in Clients \ {c}, d # e PROVE Apart(d, e)'
  BY <1>3 DEF PInv, ClientInv, Apart, OthersRest
<1> QED
  BY <1>1, <1>2, <1>3 DEF ClientInv

\* A call that ends, well or not.
LEMMA ReturningIsSafe ==
    ASSUME PInv, NEW c \in Clients, Writes(c), Returns(c), UNCHANGED removals
    PROVE  ClientInv' /\ ClientTypeOK'
<1>1. /\ ClientTypeOK' /\ OthersRest(c) /\ cpc'[c] = "idle"
  BY RegistryAssumption, TypesAreSplit DEF PInv, ClientTypeOK, Returns, Goes, OthersRest
<1>2. FoundIsOwn(c)' /\ NewIsThere(c)' /\ OldIsGone(c)'
  BY <1>1 DEF FoundIsOwn, NewIsThere, OldIsGone
<1>3. \A d \in Clients \ {c} : Apart(c, d)' /\ Apart(d, c)'
  BY <1>1 DEF Apart
<1> QED
  BY <1>1, <1>2, <1>3, ClientInvIsLocal

\* A call that goes on to a place where nothing is held.
LEMMA WaitingIsSafe ==
    ASSUME PInv, NEW c \in Clients, UNCHANGED <<storageVars, found>>, removals' \in Nat,
           Goes(c, "check") \/ Goes(c, "store") \/ Goes(c, "find"),
           \/ UNCHANGED arg /\ ~At(c, "idle")
           \/ \E n \in Names : arg' = [arg EXCEPT ![c] = n]
    PROVE  ClientInv' /\ ClientTypeOK'
<1>1. /\ ClientTypeOK' /\ OthersRest(c) /\ cpc'[c] \in {"check", "store", "find"} /\ Writes(c)
  BY RegistryAssumption, TypesAreSplit DEF PInv, ClientTypeOK, Goes, OthersRest, At, Writes
<1>2. FoundIsOwn(c)' /\ NewIsThere(c)' /\ OldIsGone(c)'
  BY <1>1 DEF FoundIsOwn, NewIsThere, OldIsGone
<1>3. \A d \in Clients \ {c} : Apart(c, d)' /\ Apart(d, c)'
  BY <1>1 DEF Apart
<1> QED
  BY <1>1, <1>2, <1>3, ClientInvIsLocal

\* register_workflow: what is stored is fresh, what is inserted was stored.
LEMMA StoringIsSafe ==
    ASSUME PInv, NEW c \in Clients, Store(c)
    PROVE  Writes(c) /\ ClientInv' /\ ClientTypeOK'
<1> USE DEF Store, At, Goes
<1>1. PICK i \in FreshIds : StoreBinary(i, arg[c]) /\ found' = [found EXCEPT ![c] = i]
  OBVIOUS
<1>2. Writes(c) /\ OthersRest(c) /\ cpc'[c] = "insert" /\ found'[c] = i /\ arg'[c] = arg[c]
  BY <1>1, TypesAreSplit DEF PInv, ClientTypeOK, Writes, OthersRest
<1>3. i \in Ids /\ nameOf[i] = None /\ nameOf'[i] = arg[c] /\ i \in blobs' /\ row' = row
  BY <1>1, TypesAreSplit DEF PInv, StorageTypeOK, FreshIds, StoreBinary
<1>4. ClientTypeOK'
  BY <1>1, <1>3, TypesAreSplit DEF PInv, ClientTypeOK
<1>5. ASSUME NEW n \in Names PROVE row'[n] # i
  BY <1>3, RegistryAssumption DEF PInv, ClientInv, RowsAreGood, Ids
<1>6. FoundIsOwn(c)' /\ NewIsThere(c)' /\ OldIsGone(c)'
  BY <1>2, <1>3, <1>5 DEF FoundIsOwn, NewIsThere, OldIsGone
<1>7. ASSUME NEW d \in Clients \ {c} PROVE Apart(c, d)' /\ Apart(d, c)'
  <2>1. cpc[d] \in {"insert", "row", "blob"} => found[d] # i
    BY <1>3, ZenonT(40) DEF PInv, TypeOK,
        StorageTypeOK, ClientTypeOK, PassTypeOK, MemoryTypeOK, ClientInv, FoundIsOwn
  <2> QED
    BY <1>2, <2>1 DEF Apart, OthersRest
<1> QED
  BY <1>2, <1>4, <1>6, <1>7, ClientInvIsLocal

LEMMA InsertingIsSafe ==
    ASSUME PInv, NEW c \in Clients, Insert(c)
    PROVE  Writes(c) /\ ClientInv' /\ ClientTypeOK'
<1> USE DEF Insert, At, Goes
<1>1. Writes(c)
  BY DEF Writes
<1>2. CASE row[arg[c]] # 0
  BY <1>1, <1>2, ReturningIsSafe
<1>3. CASE row[arg[c]] = 0
  <2>1. /\ ClientTypeOK' /\ OthersRest(c) /\ cpc'[c] = "register"
        /\ found'[c] = found[c] /\ arg'[c] = arg[c]
    BY <1>3, TypesAreSplit DEF PInv, ClientTypeOK, OthersRest
  <2>2. FoundIsOwn(c)' /\ NewIsThere(c)' /\ OldIsGone(c)'
    BY <2>1 DEF InsertRow, PInv, ClientInv, FoundIsOwn, NewIsThere, OldIsGone
  <2>3. \A d \in Clients \ {c} : Apart(c, d)' /\ Apart(d, c)'
    BY <2>1 DEF Apart
  <2> QED
    BY <1>1, <2>1, <2>2, <2>3, ClientInvIsLocal
<1> QED
  BY <1>2, <1>3

\* unregister_workflow: what was looked up is in a row, and then in none.
LEMMA FindingIsSafe ==
    ASSUME PInv, NEW c \in Clients, Find(c)
    PROVE  Writes(c) /\ ClientInv' /\ ClientTypeOK'
<1> USE DEF Find, At, Goes
<1>1. Writes(c) /\ arg[c] \in Names
  BY ArgIsName DEF Writes
<1>2. CASE row[arg[c]] = 0
  BY <1>1, <1>2, ReturningIsSafe
<1>3. CASE row[arg[c]] # 0
  <2>1. row[arg[c]] \in Ids /\ nameOf[row[arg[c]]] = arg[c]
    BY <1>1, <1>3 DEF PInv, TypeOK,
        StorageTypeOK, ClientTypeOK, PassTypeOK, MemoryTypeOK, ClientInv, RowsAreGood
  <2>2. /\ ClientTypeOK' /\ OthersRest(c) /\ cpc'[c] = "row"
        /\ found'[c] = row[arg[c]] /\ arg'[c] = arg[c]
    BY <1>3, <2>1, TypesAreSplit DEF PInv, ClientTypeOK, OthersRest
  <2>3. FoundIsOwn(c)' /\ NewIsThere(c)' /\ OldIsGone(c)'
    BY <2>1, <2>2 DEF storageVars, FoundIsOwn, NewIsThere, OldIsGone
  <2>4. ASSUME NEW d \in Clients \ {c} PROVE Apart(c, d)' /\ Apart(d, c)'
    <3>1. cpc[d] = "insert" => found[d] # row[arg[c]]
      BY <1>1 DEF PInv, ClientInv, NewIsThere
    <3> QED
      BY <2>2, <3>1 DEF Apart, OthersRest
  <2> QED
    BY <1>1, <2>2, <2>3, <2>4, ClientInvIsLocal
<1> QED
  BY <1>2, <1>3

LEMMA RemovingIsSafe ==
    ASSUME PInv, NEW c \in Clients, RemoveRow(c)
    PROVE  Writes(c) /\ ClientInv' /\ ClientTypeOK'
<1> USE DEF RemoveRow, At, Goes
<1>1. Writes(c) /\ arg[c] \in Names
  BY ArgIsName DEF Writes
<1>2. /\ ClientTypeOK' /\ OthersRest(c) /\ cpc'[c] = "blob"
      /\ found'[c] = found[c] /\ arg'[c] = arg[c]
  BY TypesAreSplit DEF PInv, ClientTypeOK, OthersRest
<1>3. found[c] \in Ids /\ nameOf[found[c]] = arg[c] /\ nameOf' = nameOf
  BY DEF PInv, ClientInv, FoundIsOwn, DeleteRow, DeleteRowById
<1>4. ASSUME NEW n \in Names PROVE row'[n] # found[c]
  <2>1. row[n] = found[c] => n = arg[c]
    BY <1>3 DEF PInv, ClientInv, RowsAreGood, Ids
  <2> QED
    BY <1>1, <1>3, <2>1 DEF PInv, TypeOK,
        StorageTypeOK, ClientTypeOK, PassTypeOK, MemoryTypeOK,
        DeleteRow, DeleteRowById, Ids
<1>5. FoundIsOwn(c)' /\ NewIsThere(c)' /\ OldIsGone(c)'
  BY <1>2, <1>3, <1>4 DEF FoundIsOwn, NewIsThere, OldIsGone
<1>6. \A d \in Clients \ {c} : Apart(c, d)' /\ Apart(d, c)'
  BY <1>2 DEF PInv, ClientInv, Apart, OthersRest
<1> QED
  BY <1>1, <1>2, <1>5, <1>6, ClientInvIsLocal

\* Every step of a client.
LEMMA ClientIsSafe ==
    ASSUME PInv, NEW c \in Clients, Client(c) \/ ClientFails(c)
    PROVE  Writes(c) /\ ClientInv' /\ ClientTypeOK'
<1>1. ASSUME NEW n \in Names, BeginRegister(c, n) \/ BeginUnregister(c, n)
      PROVE  Writes(c) /\ ClientInv' /\ ClientTypeOK'
  BY <1>1, WaitingIsSafe DEF BeginRegister, BeginUnregister, Writes, PInv, TypeOK,
        StorageTypeOK, ClientTypeOK, PassTypeOK, MemoryTypeOK
<1>2. CASE CheckExists(c)
  BY <1>2, WaitingIsSafe, ReturningIsSafe DEF CheckExists, Writes, PInv, TypeOK,
        StorageTypeOK, ClientTypeOK, PassTypeOK, MemoryTypeOK, At
<1>3. CASE RegisterTasks(c) \/ RemoveBinary(c)
  BY <1>3, ReturningIsSafe DEF RegisterTasks, RemoveBinary, Writes
<1>4. CASE ClientFails(c)
  BY <1>4, ReturningIsSafe DEF ClientFails, Writes
<1> QED
  BY <1>1, <1>2, <1>3, <1>4, StoringIsSafe, InsertingIsSafe, FindingIsSafe, RemovingIsSafe
     DEF Client

LEMMA ClientsKeepPInv ==
    ASSUME PInv, NEW c \in Clients, Client(c) \/ ClientFails(c)
    PROVE  PInv'
<1> USE DEF passVars, memoryVars
<1>1. Writes(c) /\ ClientInv' /\ ClientTypeOK'
  BY ClientIsSafe
<1>2. /\ UNCHANGED <<passVars, loaded, workflows, waiting, stops>>
      /\ faults' \in Nat
      /\ UNCHANGED tasks \/ RegisterTasks(c)
  <2>1. CASE Client(c)
    BY <2>1 DEF Client, BeginRegister, BeginUnregister, CheckExists, Store, Insert, RegisterTasks,
                Find, RemoveRow, RemoveBinary, PInv, TypeOK,
                    StorageTypeOK, ClientTypeOK, PassTypeOK, MemoryTypeOK
  <2>2. CASE ClientFails(c)
    BY <2>2 DEF ClientFails, Fault, PInv, TypeOK,
        StorageTypeOK, ClientTypeOK, PassTypeOK, MemoryTypeOK
  <2> QED
    BY <2>1, <2>2
<1>3. MemoryTypeOK'
  <2>1. CASE UNCHANGED tasks
    BY <1>2, <2>1, TypesAreSplit DEF PInv, MemoryTypeOK
  <2>2. CASE RegisterTasks(c)
    <3>1. Home[c] \in Processes /\ arg[c] \in Names /\ found[c] \in Ids
      BY <2>2, ArgIsName, RegistryAssumption DEF RegisterTasks, At, PInv, ClientInv, FoundIsOwn
    <3>2. tasks' \in [Processes -> [Names -> Ids \cup {0}]]
      BY <2>2, <3>1, TypesAreSplit DEF RegisterTasks, PInv, MemoryTypeOK
    <3> QED
      BY <1>2, <3>2, TypesAreSplit DEF PInv, MemoryTypeOK
  <2> QED
    BY <1>2, <2>1, <2>2
<1>4. TypeOK'
  BY <1>1, <1>2, <1>3, WritesKeepTypes, TypesAreSplit, TypesTogether DEF PInv, PassTypeOK
<1>5. NamesAreKnown'
  BY <1>1, <1>2, StoredNamesStay, RegistryAssumption DEF PInv, NamesAreKnown
<1> QED
  BY <1>1, <1>4, <1>5 DEF PInv

-----------------------------------------------------------------------------
(***************************************************************************)
(* Reconcilers and the scheduler leave the storage alone.                  *)
(***************************************************************************)

LEMMA RestingClientsAreSafe ==
    ASSUME PInv, UNCHANGED <<storageVars, clientVars>>
    PROVE  ClientInv' /\ StorageTypeOK' /\ ClientTypeOK'
BY TypesAreSplit
   DEF storageVars, clientVars, PInv, ClientInv, RowsAreGood, FoundIsOwn, NewIsThere, OldIsGone,
       Apart, StorageTypeOK, ClientTypeOK

\* What is stored has a name.
LEMMA StoredAreNamed ==
    ASSUME PInv
    PROVE  Stored \in SUBSET Ids /\ \A i \in Stored : nameOf[i] \in Names
BY DEF PInv, TypeOK,
        StorageTypeOK, ClientTypeOK, PassTypeOK, MemoryTypeOK,
        ClientInv, RowsAreGood, Stored

LEMMA PassesKeepPInv ==
    ASSUME PInv, NEW r \in Processes, Wake(r) \/ List(r) \/ EndPass(r) \/ ListFails(r)
    PROVE  PInv'
<1> USE DEF memoryVars
<1>1. /\ UNCHANGED <<storageVars, clientVars, memoryVars, waiting, stops, cur, fetched>>
      /\ faults' \in Nat
  BY DEF Wake, List, EndPass, ListFails, Fault, PInv, TypeOK,
        StorageTypeOK, ClientTypeOK, PassTypeOK, MemoryTypeOK
<1>2. PassTypeOK'
  <2>1. loaded[r] \in SUBSET Ids
    BY DEF PInv, TypeOK,
        StorageTypeOK, ClientTypeOK, PassTypeOK, MemoryTypeOK
  <2> QED
    BY <2>1, StoredAreNamed, TypesAreSplit
       DEF Wake, List, EndPass, ListFails, ToLoad, ToUnload, PInv, PassTypeOK
<1>3. NamesAreKnown'
  <2>1. ASSUME NEW q \in Processes, NEW i \in Ids,
               i \in toUnload'[q] \cup toLoad'[q] \cup loaded'[q] \/ i = cur'[q]
        PROVE  i \in toUnload[q] \cup toLoad[q] \cup loaded[q] \cup Stored \/ i = cur[q]
    <3>1. CASE Wake(r) \/ EndPass(r) \/ ListFails(r)
      BY <1>1, <2>1, <3>1 DEF Wake, EndPass, ListFails
    <3>2. CASE List(r)
      BY <1>1, <2>1, <3>2 DEF List, ToLoad, ToUnload, PInv, TypeOK,
          StorageTypeOK, ClientTypeOK, PassTypeOK, MemoryTypeOK
    <3> QED
      BY <3>1, <3>2
  <2> QED
    BY <1>1, <2>1, StoredAreNamed DEF PInv, NamesAreKnown, storageVars
<1> QED
  BY <1>1, <1>2, <1>3, RestingClientsAreSafe, TypesAreSplit, TypesTogether DEF PInv, MemoryTypeOK

LEMMA UnloadingKeepsPInv ==
    ASSUME PInv, NEW r \in Processes, NEW i \in Ids, Unload(r, i)
    PROVE  PInv'
<1> USE DEF Unload
<1>1. nameOf[i] \in Names
  BY DEF PInv, NamesAreKnown
<1>2. PassTypeOK'
  BY TypesAreSplit DEF PInv, PassTypeOK
<1>3. MemoryTypeOK'
  <2>1. tasks' \in [Processes -> [Names -> Ids \cup {0}]]
    BY <1>1, TypesAreSplit DEF PInv, MemoryTypeOK
  <2>2. loaded' \in [Processes -> SUBSET Ids]
    BY TypesAreSplit DEF PInv, MemoryTypeOK
  <2>3. workflows' \in [Processes -> SUBSET {WorkflowOf[n] : n \in Names}]
    BY TypesAreSplit DEF PInv, MemoryTypeOK
  <2> QED
    BY <2>1, <2>2, <2>3 DEF MemoryTypeOK
<1>4. NamesAreKnown'
  BY DEF PInv, TypeOK,
        StorageTypeOK, ClientTypeOK, PassTypeOK, MemoryTypeOK,
        NamesAreKnown, storageVars
<1> QED
  BY <1>2, <1>3, <1>4, RestingClientsAreSafe, TypesAreSplit, TypesTogether DEF PInv

LEMMA EndLoadKeepsPass ==
    ASSUME PInv, NEW r \in Processes, EndLoad(r)
    PROVE  PassTypeOK' /\ \A q \in Processes : cur'[q] = cur[q] \/ cur'[q] = 0
BY TypesAreSplit DEF EndLoad, PInv, PassTypeOK

LEMMA LookupsKeepPInv ==
    ASSUME PInv, NEW r \in Processes,
           (\E i \in Ids : BeginLoad(r, i)) \/ GetRow(r) \/ GetBinary(r) \/ LoadFails(r)
    PROVE  PInv'
<1> USE DEF memoryVars
<1>1. UNCHANGED <<storageVars, clientVars, memoryVars, waiting, stops>> /\ faults' \in Nat
  BY DEF BeginLoad, GetRow, GetBinary, LoadFails, Fault, PInv, TypeOK,
        StorageTypeOK, ClientTypeOK, PassTypeOK, MemoryTypeOK
<1>2. ASSUME NEW i \in Ids, BeginLoad(r, i)
      PROVE  PassTypeOK' /\ NamesAreKnown'
  <2>1. i # 0
    BY RegistryAssumption DEF Ids
  <2>2. PassTypeOK'
    BY <1>2, <2>1, TypesAreSplit DEF BeginLoad, PInv, PassTypeOK
  <2>3. NamesAreKnown'
    BY <1>1, <1>2 DEF BeginLoad, PInv, TypeOK,
        StorageTypeOK, ClientTypeOK, PassTypeOK, MemoryTypeOK,
        NamesAreKnown, storageVars
  <2> QED
    BY <2>2, <2>3
<1>3. ASSUME EndLoad(r) PROVE PassTypeOK' /\ NamesAreKnown'
  <2>1. 0 \notin Ids
    BY DEF Ids
  <2> QED
    BY <1>1, <1>3, <2>1, EndLoadKeepsPass DEF EndLoad, PInv, NamesAreKnown, storageVars
<1>4. ASSUME rpc[r] \in {"get", "blob"}, UNCHANGED <<toUnload, toLoad, cur>>,
             \/ rpc' = [rpc EXCEPT ![r] = "blob"] /\ (\E i \in Ids : fetched' = [fetched EXCEPT ![r] = i])
             \/ rpc' = [rpc EXCEPT ![r] = "tasks"] /\ UNCHANGED fetched
      PROVE  PassTypeOK' /\ NamesAreKnown'
  BY <1>1, <1>4, TypesAreSplit DEF PInv, PassTypeOK, NamesAreKnown, storageVars
<1>5. CASE GetRow(r)
  <2>1. nameOf[cur[r]] \in Names
    BY <1>5 DEF GetRow, PInv, TypeOK,
        StorageTypeOK, ClientTypeOK, PassTypeOK, MemoryTypeOK, NamesAreKnown
  <2>2. row[nameOf[cur[r]]] \in Ids \cup {0}
    BY <2>1 DEF PInv, TypeOK,
        StorageTypeOK, ClientTypeOK, PassTypeOK, MemoryTypeOK
  <2> QED
    BY <1>1, <1>3, <1>4, <1>5, <2>2, RestingClientsAreSafe, TypesAreSplit, TypesTogether
       DEF GetRow, PInv, MemoryTypeOK
<1> QED
  BY <1>1, <1>2, <1>3, <1>4, <1>5, RestingClientsAreSafe, TypesAreSplit, TypesTogether
     DEF GetBinary, LoadFails, PInv, MemoryTypeOK

LEMMA LoadingKeepsPInv ==
    ASSUME PInv, NEW r \in Processes, LoadTasks(r) \/ LoadWorkflow(r)
    PROVE  PInv'
<1>1. cur[r] \in Ids /\ nameOf[cur[r]] \in Names /\ fetched[r] \in Ids \cup {0}
  BY DEF LoadTasks, LoadWorkflow, PInv, TypeOK,
        StorageTypeOK, ClientTypeOK, PassTypeOK, MemoryTypeOK, NamesAreKnown
<1>2. CASE LoadTasks(r)
  <2>1. PassTypeOK'
    BY <1>2, TypesAreSplit DEF LoadTasks, PInv, PassTypeOK
  <2>2. tasks' \in [Processes -> [Names -> Ids \cup {0}]]
    BY <1>1, <1>2, TypesAreSplit DEF LoadTasks, PInv, MemoryTypeOK
  <2>3. NamesAreKnown'
    BY <1>2 DEF LoadTasks, PInv, NamesAreKnown, storageVars
  <2> QED
    BY <1>2, <2>1, <2>2, <2>3, RestingClientsAreSafe, TypesAreSplit, TypesTogether DEF LoadTasks, PInv, MemoryTypeOK
<1>3. CASE LoadWorkflow(r)
  <2>1. EndLoad(r)
    BY <1>3 DEF LoadWorkflow
  <2>2. MemoryTypeOK'
    <3>1. loaded' \in [Processes -> SUBSET Ids]
      BY <1>1, <1>3, TypesAreSplit DEF LoadWorkflow, PInv, MemoryTypeOK
    <3>2. workflows' \in [Processes -> SUBSET {WorkflowOf[n] : n \in Names}]
      <4> DEFINE W == {WorkflowOf[n] : n \in Names}
                 w == WorkflowOf[nameOf[cur[r]]]
      <4>1. w \in W /\ workflows \in [Processes -> SUBSET W]
        BY <1>1, TypesAreSplit DEF PInv, MemoryTypeOK
      <4>2. UNCHANGED workflows \/ workflows' = [workflows EXCEPT ![r] = @ \cup {w}]
        BY <1>3 DEF LoadWorkflow
      <4> HIDE DEF W, w
      <4>3. workflows' \in [Processes -> SUBSET W]
        BY <4>1, <4>2
      <4> QED
        BY <4>3 DEF W
    <3> QED
      BY <1>3, <3>1, <3>2, TypesAreSplit DEF LoadWorkflow, PInv, MemoryTypeOK
  <2>3. NamesAreKnown'
    <3>1. 0 \notin Ids
      BY DEF Ids
    <3>2. \A q \in Processes : loaded'[q] \subseteq loaded[q] \cup {cur[q]}
      BY <1>3 DEF LoadWorkflow, PInv, TypeOK,
          StorageTypeOK, ClientTypeOK, PassTypeOK, MemoryTypeOK
    <3> QED
      BY <1>3, <2>1, <3>1, <3>2, EndLoadKeepsPass DEF LoadWorkflow, EndLoad, PInv, NamesAreKnown, storageVars
  <2> QED
    BY <1>3, <2>1, <2>2, <2>3, RestingClientsAreSafe, EndLoadKeepsPass, TypesAreSplit, TypesTogether
       DEF LoadWorkflow, PInv
<1> QED
  BY <1>2, <1>3

LEMMA SchedulingKeepsPInv ==
    ASSUME PInv, NEW r \in Processes, NEW n \in Names, Submit(r, n) \/ Advance(r, n)
    PROVE  PInv'
<1>1. /\ UNCHANGED <<storageVars, clientVars, passVars, memoryVars, faults, stops>>
      /\ waiting' \in SUBSET Names
  BY DEF Submit, Advance, PInv, TypeOK,
        StorageTypeOK, ClientTypeOK, PassTypeOK, MemoryTypeOK
<1>2. NamesAreKnown'
  BY <1>1 DEF PInv, NamesAreKnown, storageVars, passVars, memoryVars
<1> QED
  BY <1>1, <1>2, RestingClientsAreSafe, TypesAreSplit, TypesTogether
     DEF PInv, PassTypeOK, MemoryTypeOK, passVars, memoryVars

\* The clients of a process that ends hold nothing, the others what they held.
LEMMA StoppingKeepsPInv ==
    ASSUME PInv, NEW r \in Processes, Stop(r)
    PROVE  PInv'
<1> USE DEF Stop, storageVars
<1>1. ASSUME NEW c \in Clients
      PROVE  cpc'[c] = "idle" \/ (cpc'[c] = cpc[c] /\ arg'[c] = arg[c] /\ found'[c] = found[c])
  OBVIOUS
<1>2. ClientInv'
  BY <1>1 DEF PInv, ClientInv, RowsAreGood, FoundIsOwn, NewIsThere, OldIsGone, Apart
<1>3. StorageTypeOK' /\ ClientTypeOK'
  BY TypesAreSplit, RegistryAssumption DEF PInv, StorageTypeOK, ClientTypeOK
<1>4. PassTypeOK' /\ MemoryTypeOK'
  BY TypesAreSplit DEF PInv, PassTypeOK, MemoryTypeOK
<1>5. NamesAreKnown'
  <2>1. 0 \notin Ids
    BY DEF Ids
  <2> QED
    BY <2>1 DEF PInv, TypeOK,
        StorageTypeOK, ClientTypeOK, PassTypeOK, MemoryTypeOK, NamesAreKnown
<1>6. waiting' \in SUBSET Names /\ faults' \in Nat /\ stops' \in Nat
  BY DEF PInv, TypeOK,
        StorageTypeOK, ClientTypeOK, PassTypeOK, MemoryTypeOK
<1> QED
  BY <1>2, <1>3, <1>4, <1>5, <1>6, TypesTogether DEF PInv

-----------------------------------------------------------------------------
LEMMA PInvIsInductive == PInv /\ [Next]_vars => PInv'
<1>1. ASSUME PInv, Next PROVE PInv'
  BY <1>1, ClientsKeepPInv, PassesKeepPInv, UnloadingKeepsPInv, LookupsKeepPInv, LoadingKeepsPInv,
     SchedulingKeepsPInv, StoppingKeepsPInv
     DEF Next, Reconcile, Schedule
<1>2. ASSUME PInv, UNCHANGED vars PROVE PInv'
  <2>1. NamesAreKnown'
    BY <1>2 DEF vars, PInv, NamesAreKnown, storageVars, passVars, memoryVars
  <2> QED
    BY <1>2, <2>1, RestingClientsAreSafe, TypesAreSplit, TypesTogether
       DEF vars, PInv, PassTypeOK, MemoryTypeOK, passVars, memoryVars
<1> QED
  BY <1>1, <1>2

LEMMA PInvHolds == Spec => []PInv
BY PInvHoldsFirst, PInvIsInductive, PTL DEF Spec

\* The rows, the binaries and the memory of every process keep their types.
THEOREM RegistryTypeCorrect == Spec => []TypeOK
BY PInvHolds, PTL DEF PInv

\* For any number of clients and processes, and any call that fails or process
\* that ends between two writes: a row always has its binary.
THEOREM RowsHaveBinaries == Spec => []RowHasBinary
<1>1. PInv => RowHasBinary
  BY DEF PInv, ClientInv, RowsAreGood, RowHasBinary
<1> QED
  BY <1>1, PInvHolds, PTL
=============================================================================
