-------------------------- MODULE VaultStoreProofs --------------------------
(***************************************************************************)
(* Proofs about VaultStore, for every set of processes, every set of       *)
(* failing system calls, every kind of crash and every number of calls.    *)
(***************************************************************************)
EXTENDS VaultStore, TLAPS

-----------------------------------------------------------------------------
(***************************************************************************)
(* Facts about images and records.                                         *)
(***************************************************************************)

\* The named records, tables and images have their types.
LEMMA ImageTypes ==
    /\ NoRecord \in Record
    /\ EmptyTable \in Table
    /\ Absent \in Image /\ Empty \in Image /\ Torn \in Image
    /\ \A n \in Calls : /\ NewVault(n) \in Image
                        /\ Item(n) \in Record
                        /\ Tombstone(n) \in Record
  <1> USE MaxCallsAssumption
  <1>1. NoRecord \in Record
    BY DEF NoRecord, Record
  <1>2. EmptyTable \in Table
    BY <1>1 DEF EmptyTable, Table
  <1>3. Absent \in Image /\ Empty \in Image /\ Torn \in Image
    BY <1>2 DEF Absent, Empty, Torn, Image
  <1>4. ASSUME NEW n \in Calls
        PROVE  NewVault(n) \in Image /\ Item(n) \in Record /\ Tombstone(n) \in Record
    BY <1>2 DEF NewVault, Item, Tombstone, Image, Record, Calls
  <1> QED
    BY <1>1, <1>2, <1>3, <1>4

\* Staging one record keeps the vault and changes that record only.
LEMMA StageFacts ==
    ASSUME NEW img \in Image, NEW id \in Calls, NEW rec \in Record
    PROVE  /\ StageRecord(img, id, rec) \in Image
           /\ StageRecord(img, id, rec).kind = img.kind
           /\ StageRecord(img, id, rec).vid = img.vid
           /\ \A i \in Calls : StageRecord(img, id, rec).recs[i]
                                 = IF i = id THEN rec ELSE img.recs[i]
  <1> DEFINE tab == [img.recs EXCEPT ![id] = rec]
  <1>1. img.recs \in [Calls -> Record]
    BY DEF Image, Table
  <1>2. tab \in [Calls -> Record] /\ \A i \in Calls : tab[i] = IF i = id THEN rec ELSE img.recs[i]
    BY <1>1
  <1>3. StageRecord(img, id, rec) = [img EXCEPT !.recs = tab]
    BY DEF StageRecord
  <1> HIDE DEF tab
  <1> QED
    BY <1>2, <1>3 DEF Image, Table

\* Temporary files have their types, and so has what a rename makes visible.
LEMMA TempTypes ==
    /\ NoTemp \in Temp /\ PartialTemp \in Temp
    /\ \A img \in Image : [st |-> "written", img |-> img] \in Temp
    /\ \A tmp \in Temp : /\ Litter(tmp) \in Temp
                         /\ Visible(tmp) \in Image
                         /\ Survivors(tmp) \subseteq Image
                         /\ [tmp EXCEPT !.st = "synced"] \in Temp
  BY ImageTypes DEF NoTemp, PartialTemp, Temp, Litter, Visible, Survivors

-----------------------------------------------------------------------------
(***************************************************************************)
(* Type correctness and the absence of torn vaults.                        *)
(***************************************************************************)

\* Init establishes the invariant.
LEMMA InitInv == Init => Inv
  <1> SUFFICES ASSUME Init PROVE Inv
    OBVIOUS
  <1> USE DEF Init
  <1>1. TypeOK
    BY ImageTypes, TempTypes, MaxCallsAssumption DEF TypeOK, EmptyTable, Table, Calls
  <1>2. CallsOK /\ SeedsDistinct /\ TempsOK
    BY DEF CallsOK, SeedsDistinct, TempsOK
  <1>3. NoTornVault
    BY DEF NoTornVault, Absent
  <1> QED
    BY <1>1, <1>2, <1>3 DEF Inv

\* A step that draws identifiers for process p (create, add, update, delete)
\* keeps the invariants of the running calls.
LEMMA BeginCallInv ==
    ASSUME Inv, NEW p \in Procs, NEW id \in 0 .. MaxCalls, NEW img \in Image,
           CanCall(p), BeginCall(p, id, img), img.kind = "vault",
           UNCHANGED <<temps, session, history>>,
           path' \in Image, disk' \subseteq Image,
           \A i \in disk' \cup {path'} : i.kind # "torn"
    PROVE  Inv'
  <1> USE MaxCallsAssumption DEF Inv, CanCall, BeginCall, Goto, history
  <1>1. fresh + 1 \in Calls /\ fresh' \in 0 .. MaxCalls
    BY DEF TypeOK, Calls
  <1>2. TypeOK'
    BY <1>1 DEF TypeOK, Syscalls, Calls
  <1>3. CallsOK'
    BY <1>1 DEF TypeOK, CallsOK, Calls
  <1>4. SeedsDistinct'
    BY <1>1 DEF TypeOK, CallsOK, SeedsDistinct, Calls
  <1>5. TempsOK'
    BY DEF TypeOK, TempsOK, TmpOf, UniqueTmpPath
  <1>6. NoTornVault'
    BY DEF NoTornVault
  <1> QED
    BY <1>2, <1>3, <1>4, <1>5, <1>6

\* When process p returns from its call, leaving the temps of others alone, the
\* invariants of the running calls are kept.
LEMMA ReturnInv ==
    ASSUME Inv, NEW p \in Procs, Return(p),
           UNCHANGED fresh,
           session' \in [Procs -> 0 .. MaxCalls],
           temps' \in [Calls -> Temp],
           \A n \in Calls : n # seed[p] => temps'[n] = temps[n],
           pc[p] # "idle",
           acked' \in [Calls -> Record], deleted' \subseteq Calls,
           path' \in Image, disk' \subseteq Image,
           \A i \in disk' \cup {path'} : i.kind # "torn"
    PROVE  Inv'
  <1> USE MaxCallsAssumption DEF Inv, Return
  <1>0. 0 \in 0 .. MaxCalls /\ Absent \in Image
    BY ImageTypes
  <1>1. TypeOK'
    BY <1>0 DEF TypeOK
  <1>2. CallsOK'
    BY DEF TypeOK, CallsOK
  <1>3. SeedsDistinct'
    BY DEF TypeOK, SeedsDistinct
  <1>4. TempsOK'
    <2> SUFFICES ASSUME NEW q \in Procs, pc'[q] # "idle"
                 PROVE  /\ TmpOf(q)' = TmpOf(q)
                        /\ pc'[q] = pc[q] /\ stage'[q] = stage[q]
      BY DEF TempsOK, TypeOK
    <2>1. q # p /\ pc[q] # "idle"
      BY DEF TypeOK
    <2>2. seed[q] \in Calls /\ seed[q] # seed[p] /\ seed'[q] = seed[q]
      BY <2>1 DEF SeedsDistinct, CallsOK, TypeOK, Calls
    <2> QED
      BY <2>1, <2>2 DEF TmpOf, UniqueTmpPath, TypeOK
  <1>5. NoTornVault'
    BY DEF NoTornVault
  <1> QED
    BY <1>1, <1>2, <1>3, <1>4, <1>5

\* A system call of process p that only moves p on, possibly changing p's temp.
LEMMA GotoInv ==
    ASSUME Inv, NEW p \in Procs, NEW step \in Syscalls, Goto(p, step),
           pc[p] # "idle",
           UNCHANGED <<session, callVars, fresh, history>>,
           temps' \in [Calls -> Temp],
           \A n \in Calls : n # seed[p] => temps'[n] = temps[n],
           step = "sync" => TmpOf(p)' = [st |-> "written", img |-> stage[p]],
           step = "rename" => TmpOf(p)' = [st |-> "synced", img |-> stage[p]],
           path' \in Image, disk' \subseteq Image,
           \A i \in disk' \cup {path'} : i.kind # "torn"
    PROVE  Inv'
  <1> USE MaxCallsAssumption DEF Inv, Goto, callVars, history
  <1>1. TypeOK'
    BY DEF TypeOK
  <1>2. CallsOK'
    BY DEF TypeOK, CallsOK
  <1>3. SeedsDistinct'
    BY DEF TypeOK, SeedsDistinct
  <1>4. TempsOK'
    <2> SUFFICES ASSUME NEW q \in Procs
                 PROVE  /\ pc'[q] = "sync" => TmpOf(q)' = [st |-> "written", img |-> stage'[q]]
                        /\ pc'[q] = "rename" => TmpOf(q)' = [st |-> "synced", img |-> stage'[q]]
      BY DEF TempsOK
    <2>1. CASE q = p
      BY <2>1 DEF TypeOK
    <2>2. CASE q # p /\ pc[q] # "idle"
      <3>1. seed[q] \in Calls /\ seed[q] # seed[p]
        BY <2>2 DEF SeedsDistinct, CallsOK, TypeOK, Calls
      <3>2. TmpOf(q)' = TmpOf(q) /\ pc'[q] = pc[q]
        BY <2>2, <3>1 DEF TmpOf, UniqueTmpPath, TypeOK
      <3> QED
        BY <3>2 DEF TempsOK
    <2>3. CASE q # p /\ pc[q] = "idle"
      BY <2>3 DEF TypeOK
    <2> QED
      BY <2>1, <2>2, <2>3
  <1>5. NoTornVault'
    BY DEF NoTornVault
  <1> QED
    BY <1>1, <1>2, <1>3, <1>4, <1>5

\* Power loss leaves one of the surviving images and idle processes.
LEMMA PowerLossInv == Inv /\ PowerLoss => Inv'
  <1> SUFFICES ASSUME Inv, PowerLoss PROVE Inv'
    OBVIOUS
  <1> USE DEF Inv, PowerLoss, history
  <1>1. TypeOK'
    <2>1. 0 \in 0 .. MaxCalls /\ Absent \in Image
      BY ImageTypes, MaxCallsAssumption
    <2>2. temps' \in [Calls -> Temp]
      BY TempTypes DEF TypeOK
    <2>3. path' \in Image /\ disk' \subseteq Image
      BY DEF TypeOK
    <2> QED
      BY <2>1, <2>2, <2>3 DEF TypeOK
  <1>2. CallsOK' /\ SeedsDistinct' /\ TempsOK'
    BY DEF CallsOK, SeedsDistinct, TempsOK
  <1>3. NoTornVault'
    BY DEF NoTornVault
  <1> QED
    BY <1>1, <1>2, <1>3

\* The records a call writes carry its own revision.
LEMMA WrittenRecords ==
    ASSUME NEW n \in Calls
    PROVE  /\ Item(n) \in Record /\ Item(n).rev = n /\ Item(n).kind = "item"
           /\ Tombstone(n) \in Record /\ Tombstone(n).rev = n
           /\ Tombstone(n).kind = "tombstone"
  BY ImageTypes DEF Item, Tombstone

\* The image a mutation stages from a loaded vault is a complete vault.
LEMMA StagedVault ==
    ASSUME TypeOK, NEW p \in Procs, CanCall(p), LoadVault(p)
    PROVE  /\ fresh + 1 \in Calls
           /\ \A id \in Calls, rec \in Record :
                /\ StageRecord(path, id, rec) \in Image
                /\ StageRecord(path, id, rec).kind = "vault"
  <1>1. fresh + 1 \in Calls
    BY MaxCallsAssumption DEF TypeOK, CanCall, Calls
  <1>2. path \in Image /\ path.kind = "vault"
    BY DEF TypeOK, LoadVault
  <1> QED
    BY <1>1, <1>2, StageFacts

\* Every step preserves the invariant.
LEMMA NextInv == Inv /\ [Next]_vars => Inv'
  <1> SUFFICES ASSUME Inv, [Next]_vars PROVE Inv'
    OBVIOUS
  <1>0. TypeOK /\ NoTornVault /\ CallsOK
    BY DEF Inv
  <1>a. ASSUME NEW p \in Procs, pc[p] # "idle"
        PROVE  /\ seed[p] \in Calls
               /\ TmpOf(p) \in Temp
               /\ stage[p] \in Image /\ stage[p].kind = "vault"
               /\ \A tmp \in Temp : SetTmp(p, tmp) =>
                    /\ temps' \in [Calls -> Temp]
                    /\ \A n \in Calls : n # seed[p] => temps'[n] = temps[n]
                    /\ temps'[seed[p]] = tmp
    <2>1. seed[p] \in Calls /\ stage[p].kind = "vault"
      BY <1>0, <1>a, MaxCallsAssumption DEF TypeOK, CallsOK, Calls
    <2> QED
      BY <1>0, <2>1 DEF TypeOK, TmpOf, SetTmp, UniqueTmpPath
  <1>b. path \in Image /\ disk \subseteq Image /\ \A i \in disk \cup {path} : i.kind # "torn"
    BY <1>0 DEF TypeOK, NoTornVault
  <1>c. Empty.kind # "torn" /\ Absent.kind # "torn"
    BY DEF Empty, Absent
  <1>1. ASSUME NEW p \in Procs, Create(p) PROVE Inv'
    <2>1. fresh + 1 \in Calls
      BY <1>0, <1>1, MaxCallsAssumption DEF Create, CanCall, TypeOK, Calls
    <2>2. NewVault(fresh + 1) \in Image /\ NewVault(fresh + 1).kind = "vault"
      BY <2>1, ImageTypes DEF NewVault
    <2>3. path' \in Image /\ disk' \subseteq Image /\ \A i \in disk' \cup {path'} : i.kind # "torn"
      BY <1>1, <1>b, <1>c, ImageTypes DEF Create
    <2> QED
      BY <1>1, <2>2, <2>3, BeginCallInv, MaxCallsAssumption DEF Create
  <1>2. ASSUME NEW p \in Procs, Unlock(p) \/ Lock(p) PROVE Inv'
    <2>1. TypeOK'
      <3>1. path.vid \in 0 .. MaxCalls /\ 0 \in 0 .. MaxCalls
        BY <1>b, MaxCallsAssumption DEF Image
      <3>2. session' \in [Procs -> 0 .. MaxCalls]
        BY <1>0, <1>2, <3>1 DEF Unlock, Lock, TypeOK
      <3> QED
        BY <1>0, <1>2, <3>2 DEF Unlock, Lock, TypeOK, callVars, history
    <2> QED
      BY <1>2, <2>1 DEF Unlock, Lock, Inv, CallsOK, SeedsDistinct, TempsOK, TmpOf,
                        NoTornVault, callVars
  <1>3. ASSUME NEW p \in Procs, Add(p) PROVE Inv'
    <2>1. fresh + 1 \in Calls
      BY <1>0, <1>3, MaxCallsAssumption DEF Add, CanCall, TypeOK, Calls
    <2> QED
      BY <1>0, <1>3, <1>b, <2>1, WrittenRecords, StagedVault, BeginCallInv, MaxCallsAssumption
         DEF Add, Calls
  <1>4. ASSUME NEW p \in Procs, NEW id \in Calls, Update(p, id) \/ Delete(p, id) PROVE Inv'
    <2>1. id \in 0 .. MaxCalls
      BY MaxCallsAssumption DEF Calls
    <2>2. CanCall(p) /\ LoadVault(p) /\ UNCHANGED <<path, disk, temps, session, history>>
      BY <1>4 DEF Update, Delete
    <2>3. fresh + 1 \in Calls
      BY <1>0, <2>2, StagedVault
    <2>4. PICK rec \in Record : BeginCall(p, id, StageRecord(path, id, rec))
      BY <1>4, <2>3, WrittenRecords DEF Update, Delete
    <2>5. StageRecord(path, id, rec) \in Image /\ StageRecord(path, id, rec).kind = "vault"
      BY <1>0, <2>2, StagedVault
    <2> QED
      BY <1>b, <2>1, <2>2, <2>4, <2>5, BeginCallInv
  <1>5. ASSUME NEW p \in Procs, NEW id \in Calls, DeleteAgain(p, id) PROVE Inv'
    <2>1. TypeOK'
      BY <1>0, <1>5 DEF DeleteAgain, TypeOK, callVars
    <2> QED
      BY <1>5, <2>1 DEF DeleteAgain, Inv, CallsOK, SeedsDistinct, TempsOK, TmpOf,
                        NoTornVault, callVars
  <1>6. ASSUME NEW p \in Procs, OpenTmp(p) PROVE Inv'
    BY <1>6, <1>a, <1>b, TempTypes, GotoInv DEF OpenTmp, Syscalls
  <1>7. ASSUME NEW p \in Procs, WriteTmp(p) PROVE Inv'
    <2>1. [st |-> "written", img |-> stage[p]] \in Temp
      BY <1>7, <1>a, TempTypes DEF WriteTmp
    <2>2. TmpOf(p)' = [st |-> "written", img |-> stage[p]]
      BY <1>7, <1>a, <2>1 DEF WriteTmp, TmpOf, UniqueTmpPath, callVars
    <2> QED
      BY <1>7, <1>a, <1>b, <2>1, <2>2, GotoInv DEF WriteTmp, Syscalls
  <1>8. ASSUME NEW p \in Procs, SyncTmp(p) PROVE Inv'
    <2>1. TmpOf(p) = [st |-> "written", img |-> stage[p]]
      BY <1>8 DEF SyncTmp, Inv, TempsOK
    <2>2. /\ [TmpOf(p) EXCEPT !.st = "synced"] \in Temp
          /\ [TmpOf(p) EXCEPT !.st = "synced"] = [st |-> "synced", img |-> stage[p]]
      BY <1>8, <1>a, <2>1, TempTypes DEF SyncTmp
    <2>3. TmpOf(p)' = [st |-> "synced", img |-> stage[p]]
      BY <1>8, <1>a, <2>2 DEF SyncTmp, TmpOf, UniqueTmpPath, callVars
    <2> QED
      BY <1>8, <1>a, <1>b, <2>2, <2>3, GotoInv DEF SyncTmp, Syscalls
  <1>9. ASSUME NEW p \in Procs, RenameTmp(p) PROVE Inv'
    <2>1. TmpOf(p) = [st |-> "synced", img |-> stage[p]]
      BY <1>9 DEF RenameTmp, Inv, TempsOK
    <2>2. Visible(TmpOf(p)) = stage[p] /\ Survivors(TmpOf(p)) = {stage[p]}
      BY <2>1 DEF Visible, Survivors
    <2>3. path' \in Image /\ disk' \subseteq Image /\ \A i \in disk' \cup {path'} : i.kind # "torn"
      BY <1>9, <1>a, <1>b, <2>2 DEF RenameTmp
    <2> QED
      BY <1>9, <1>a, <2>3, TempTypes, GotoInv DEF RenameTmp, Syscalls
  <1>10. ASSUME NEW p \in Procs, FsyncParent(p) PROVE Inv'
    <2>1. acked' \in [Calls -> Record] /\ deleted' \subseteq Calls
      <3>1. CASE Creating(p)
        BY <1>0, <1>10, <3>1 DEF FsyncParent, Acknowledge, history, TypeOK
      <3>2. CASE ~Creating(p)
        <4>1. target[p] \in Calls
          BY <1>0, <3>2, MaxCallsAssumption DEF TypeOK, Creating, Calls
        <4>2. stage[p].recs[target[p]] \in Record
          BY <1>a, <1>10, <4>1 DEF FsyncParent, Image, Table
        <4> QED
          BY <1>0, <1>10, <3>2, <4>1, <4>2 DEF FsyncParent, Acknowledge, TypeOK
      <3> QED
        BY <3>1, <3>2
    <2> QED
      BY <1>0, <1>10, <1>b, <2>1, ReturnInv DEF FsyncParent, TypeOK
  <1>11. ASSUME NEW p \in Procs, StepFails(p) PROVE Inv'
    BY <1>0, <1>11, <1>b, GotoInv DEF StepFails, Syscalls, TypeOK
  <1>12. ASSUME NEW p \in Procs, CleanupTmp(p) PROVE Inv'
    <2>1. /\ temps' \in [Calls -> Temp]
          /\ \A n \in Calls : n # seed[p] => temps'[n] = temps[n]
      BY <1>0, <1>12, <1>a, TempTypes DEF CleanupTmp, TypeOK
    <2>2. CASE Creating(p)
      BY <1>12, <1>b, <2>1, <2>2, GotoInv DEF CleanupTmp, Syscalls
    <2>3. CASE ~Creating(p)
      BY <1>0, <1>12, <1>b, <2>1, <2>3, ReturnInv DEF CleanupTmp, TypeOK, history
    <2> QED
      BY <2>2, <2>3
  <1>13. ASSUME NEW p \in Procs, CleanupPath(p) PROVE Inv'
    <2>1. path' \in Image /\ disk' \subseteq Image /\ \A i \in disk' \cup {path'} : i.kind # "torn"
      BY <1>13, <1>b, <1>c, ImageTypes DEF CleanupPath, RemovesPath
    <2> QED
      BY <1>0, <1>13, <2>1, ReturnInv DEF CleanupPath, TypeOK, history
  <1>14. ASSUME NEW p \in Procs, Kill(p) PROVE Inv'
    <2>1. /\ temps' \in [Calls -> Temp]
          /\ \A n \in Calls : n # seed[p] => temps'[n] = temps[n]
      <3>1. seed[p] \in Calls /\ temps[seed[p]] \in Temp
        BY <1>a, <1>14 DEF Kill, TmpOf, UniqueTmpPath
      <3> QED
        BY <1>0, <1>14, <3>1, TempTypes DEF Kill, UniqueTmpPath, TypeOK
    <2>2. session' \in [Procs -> 0 .. MaxCalls]
      <3>1. 0 \in 0 .. MaxCalls
        BY MaxCallsAssumption
      <3> QED
        BY <1>0, <1>14, <3>1 DEF Kill, TypeOK
    <2> QED
      BY <1>0, <1>14, <1>b, <2>1, <2>2, ReturnInv DEF Kill, TypeOK, history
  <1>15. CASE UNCHANGED vars
    BY <1>15 DEF vars, Inv, TypeOK, CallsOK, SeedsDistinct, TempsOK, TmpOf, NoTornVault
  <1> QED
    BY <1>1, <1>2, <1>3, <1>4, <1>5, <1>6, <1>7, <1>8, <1>9, <1>10, <1>11, <1>12,
       <1>13, <1>14, <1>15, PowerLossInv
       DEF Next, ProcessStep, CreateStep, MutationStep, PersistStep, Cleanup

\* The invariant holds throughout every behaviour.
LEMMA Invariance == Spec => []Inv
  BY InitInv, NextInv, PTL DEF Spec

\* Type correctness of the store, for every number of processes and calls.
THEOREM TypeCorrect == Spec => []TypeOK
  <1>1. Inv => TypeOK
    BY DEF Inv
  <1> QED
    BY <1>1, Invariance, PTL

\* CONTRACT G-01: no interleaving of processes, failed system call, kill or power
\* loss ever leaves a torn file at the vault path.
THEOREM CrashSafe == Spec => []NoTornVault
  <1>1. Inv => NoTornVault
    BY DEF Inv
  <1> QED
    BY <1>1, Invariance, PTL

-----------------------------------------------------------------------------
(***************************************************************************)
(* Temporary files are private to the call that created them.              *)
(***************************************************************************)

\* A step of process q changes no temp but its own, and no other call's state.
LEMMA StepIsLocal ==
    ASSUME Inv, NEW q \in Procs, ProcessStep(q)
    PROVE  /\ \A n \in Calls : n # seed[q] => temps'[n] = temps[n]
           /\ \A p \in Procs : p # q =>
                /\ seed'[p] = seed[p] /\ pc'[p] = pc[p]
                /\ target'[p] = target[p] /\ stage'[p] = stage[p]
  <1> USE DEF Inv, TypeOK, Goto, Return, BeginCall, callVars, SetTmp, UniqueTmpPath
  <1>1. CASE Create(q) \/ Add(q) \/ \E id \in Calls : Update(q, id) \/ Delete(q, id)
    BY <1>1 DEF Create, Add, Update, Delete
  <1>2. CASE Unlock(q) \/ Lock(q) \/ \E id \in Calls : DeleteAgain(q, id)
    BY <1>2 DEF Unlock, Lock, DeleteAgain
  <1>3. CASE OpenTmp(q) \/ WriteTmp(q) \/ SyncTmp(q) \/ RenameTmp(q) \/ FsyncParent(q)
    BY <1>3 DEF OpenTmp, WriteTmp, SyncTmp, RenameTmp, FsyncParent
  <1>4. CASE StepFails(q) \/ CleanupTmp(q) \/ CleanupPath(q) \/ Kill(q)
    BY <1>4 DEF StepFails, CleanupTmp, CleanupPath, Kill
  <1> QED
    BY <1>1, <1>2, <1>3, <1>4
       DEF ProcessStep, CreateStep, MutationStep, PersistStep, Cleanup

\* A process that is writing, syncing or renaming its temp moves on by its own step.
LEMMA OwnStepMoves ==
    ASSUME Inv, NEW p \in Procs, ProcessStep(p), pc[p] \in {"write", "sync", "rename"}
    PROVE  pc'[p] # pc[p]
  <1> USE DEF Inv, TypeOK, Goto, Return
  <1>1. CASE OpenTmp(p) \/ WriteTmp(p) \/ SyncTmp(p) \/ RenameTmp(p) \/ FsyncParent(p)
    BY <1>1 DEF OpenTmp, WriteTmp, SyncTmp, RenameTmp, FsyncParent
  <1>2. CASE StepFails(p) \/ CleanupTmp(p) \/ CleanupPath(p) \/ Kill(p)
    BY <1>2 DEF StepFails, CleanupTmp, CleanupPath, Kill
  <1> QED
    BY <1>1, <1>2
       DEF ProcessStep, CreateStep, MutationStep, PersistStep, Cleanup,
           Create, Add, Update, Delete, DeleteAgain, Unlock, Lock, CanCall

\* persist_vault's unique temp name: no step of another process touches the temp
\* of a call that is between creating it and renaming it.
THEOREM TempsArePrivate == Spec => TempsPrivate
  <1>1. ASSUME Inv, Next, NEW p \in Procs,
               pc[p] \in {"write", "sync", "rename"}, pc'[p] = pc[p]
        PROVE  TmpOf(p)' = TmpOf(p)
    <2>1. ~PowerLoss
      BY <1>1 DEF PowerLoss
    <2>2. PICK q \in Procs : ProcessStep(q)
      BY <1>1, <2>1 DEF Next
    <2>3. q # p
      BY <1>1, <2>2, OwnStepMoves
    <2>4. pc[q] = "idle" \/ seed[q] # seed[p]
      BY <1>1, <2>3 DEF Inv, SeedsDistinct
    <2>5. seed[p] \in Calls /\ seed'[p] = seed[p]
      BY <1>1, <2>2, <2>3, StepIsLocal, MaxCallsAssumption DEF Inv, CallsOK, TypeOK, Calls
    <2>6. CASE pc[q] = "idle"
      <3>1. UNCHANGED temps
        BY <2>2, <2>6 DEF ProcessStep, CreateStep, MutationStep, PersistStep, Cleanup,
             Create, Add, Update, Delete, DeleteAgain, Unlock, Lock, CanCall,
             OpenTmp, WriteTmp, SyncTmp, RenameTmp, FsyncParent,
             StepFails, CleanupTmp, CleanupPath, Kill
      <3> QED
        BY <2>5, <3>1 DEF TmpOf, UniqueTmpPath
    <2>7. CASE seed[q] # seed[p]
      BY <1>1, <2>2, <2>5, <2>7, StepIsLocal DEF TmpOf, UniqueTmpPath
    <2> QED
      BY <2>4, <2>6, <2>7
  <1>2. Inv /\ [Next]_vars => [OthersKeepTemps]_vars
    BY <1>1 DEF OthersKeepTemps
  <1> QED
    BY <1>2, Invariance, PTL DEF Spec, TempsPrivate

-----------------------------------------------------------------------------
(***************************************************************************)
(* The exclusive claim: nothing replaces a vault but its own revisions.    *)
(***************************************************************************)

\* Init establishes the invariant of the claim.
LEMMA InitClaim == Init => ClaimInv
  BY DEF Init, ClaimInv, Claiming, BeforeRename

\* A step of process q that leaves the path alone, and q within the invariant,
\* keeps it.
LEMMA ClaimKept ==
    ASSUME Inv, ClaimInv, NEW q \in Procs, ProcessStep(q), UNCHANGED path,
           Claiming(q)' => Claiming(q),
           pc'[q] = "rmpath" => Creating(q)',
           pc'[q] \in BeforeRename /\ ~Creating(q)' =>
               path.kind = "vault" /\ stage'[q].vid = path.vid
    PROVE  ClaimInv'
  <1>1. \A p \in Procs : p # q =>
            pc'[p] = pc[p] /\ target'[p] = target[p] /\ stage'[p] = stage[p]
    BY StepIsLocal
  <1>2. \A p \in Procs : Claiming(p)' => Claiming(p)
    BY <1>1 DEF Claiming, Creating
  <1> QED
    BY <1>1, <1>2 DEF ClaimInv, Creating

\* The process that completes or gives up its claim is the only one concerned by
\* the path: no other claims it, and no other has loaded a vault from it.
LEMMA ClaimAlone ==
    ASSUME ClaimInv, NEW q \in Procs, Claiming(q)
    PROVE  /\ path.kind = "empty"
           /\ \A p \in Procs : p # q => ~Claiming(p) /\ (pc[p] \in BeforeRename => Creating(p))
  BY DEF ClaimInv, Empty

\* Every step keeps the invariant of the claim, and a vault at the path.
LEMMA ClaimStep ==
    ASSUME "dirsync" \notin Faults, "power" \notin Crashes, Inv, ClaimInv, [Next]_vars
    PROVE  /\ ClaimInv'
           /\ path.kind = "vault" => path'.kind = "vault" /\ path'.vid = path.vid
  <1> DEFINE Stays == path.kind = "vault" => path'.kind = "vault" /\ path'.vid = path.vid
  <1>0. TypeOK
    BY DEF Inv
  <1>1. ASSUME NEW p \in Procs, Create(p) PROVE ClaimInv' /\ Stays
    <2>1. path.kind = "absent" /\ path' = Empty /\ target'[p] = 0 /\ pc'[p] = "open"
      BY <1>0, <1>1 DEF Create, BeginCall, Goto, TypeOK
    <2>2. \A q \in Procs : ~Claiming(q) /\ (pc[q] \in BeforeRename => Creating(q))
      BY <2>1 DEF ClaimInv, Empty
    <2>3. \A q \in Procs : q # p =>
              pc'[q] = pc[q] /\ target'[q] = target[q] /\ stage'[q] = stage[q]
      BY <1>1, StepIsLocal DEF ProcessStep
    <2>4. \A q \in Procs : q # p => ~Claiming(q)' /\ (pc'[q] \in BeforeRename => Creating(q)')
      BY <2>2, <2>3 DEF Claiming, Creating
    <2>5. \A q \in Procs : pc'[q] = "rmpath" => Creating(q)'
      BY <2>1, <2>3 DEF ClaimInv, Creating
    <2> QED
      BY <2>1, <2>4, <2>5 DEF ClaimInv, Creating
  <1>2. ASSUME NEW p \in Procs,
               Add(p) \/ \E id \in Calls : Update(p, id) \/ Delete(p, id)
        PROVE  ClaimInv' /\ Stays
    <2>1. CanCall(p) /\ LoadVault(p) /\ UNCHANGED path
      BY <1>2 DEF Add, Update, Delete
    <2>2. fresh + 1 \in Calls /\ path \in Image
      BY <1>0, <2>1, StagedVault DEF TypeOK
    <2>3. PICK id \in Calls, rec \in Record : BeginCall(p, id, StageRecord(path, id, rec))
      BY <1>2, <2>2, WrittenRecords DEF Add, Update, Delete
    <2>4. stage'[p].vid = path.vid /\ target'[p] # 0 /\ pc'[p] = "open"
      <3>1. StageRecord(path, id, rec).vid = path.vid
        BY <2>2, StageFacts
      <3>2. id # 0
        BY MaxCallsAssumption DEF Calls
      <3> QED
        BY <1>0, <2>3, <3>1, <3>2 DEF BeginCall, Goto, TypeOK
    <2> QED
      BY <1>2, <2>1, <2>4, ClaimKept DEF ProcessStep, LoadVault, Claiming, Creating
  <1>3. ASSUME NEW p \in Procs,
               Unlock(p) \/ Lock(p) \/ \E id \in Calls : DeleteAgain(p, id)
        PROVE  ClaimInv' /\ Stays
    <2>1. UNCHANGED <<path, pc, target, stage>>
      BY <1>3 DEF Unlock, Lock, DeleteAgain, callVars
    <2> QED
      BY <2>1 DEF ClaimInv, Claiming, Creating
  <1>4. ASSUME NEW p \in Procs, ProcessStep(p),
               OpenTmp(p) \/ WriteTmp(p) \/ SyncTmp(p) \/ StepFails(p)
        PROVE  ClaimInv' /\ Stays
    <2>1. UNCHANGED <<path, target, stage>>
      BY <1>4 DEF OpenTmp, WriteTmp, SyncTmp, StepFails, callVars
    <2>2. pc[p] \in BeforeRename /\ pc'[p] \in BeforeRename \cup {"rmtmp"}
      BY <1>0, <1>4 DEF OpenTmp, WriteTmp, SyncTmp, StepFails, Goto, TypeOK, BeforeRename
    <2> QED
      BY <1>4, <2>1, <2>2, ClaimKept DEF ClaimInv, Claiming, Creating, BeforeRename
  <1>5. ASSUME NEW p \in Procs, ProcessStep(p), RenameTmp(p) PROVE ClaimInv' /\ Stays
    <2>1. /\ pc[p] = "rename" /\ pc[p] \in BeforeRename
          /\ TmpOf(p) = [st |-> "synced", img |-> stage[p]] /\ stage[p].kind = "vault"
      BY <1>5 DEF RenameTmp, Inv, TempsOK, CallsOK, BeforeRename
    <2>2. path' = stage[p] /\ pc'[p] = "dirsync" /\ UNCHANGED <<target, stage>>
      BY <1>0, <1>5, <2>1 DEF RenameTmp, Visible, Goto, callVars, TypeOK
    <2>3. \A q \in Procs : q # p => pc'[q] = pc[q]
      BY <1>5, StepIsLocal
    <2>4. CASE Creating(p)
      <3>1. /\ path.kind = "empty"
            /\ \A q \in Procs : q # p =>
                  ~Claiming(q) /\ (pc[q] \in BeforeRename => Creating(q))
        BY <2>1, <2>4, ClaimAlone DEF Claiming
      <3> QED
        BY <2>2, <2>3, <3>1 DEF ClaimInv, Claiming, Creating, BeforeRename
    <2>5. CASE ~Creating(p)
      <3>1. path.kind = "vault" /\ stage[p].vid = path.vid
        BY <2>1, <2>5 DEF ClaimInv
      <3>2. \A q \in Procs : ~Claiming(q)
        BY <3>1 DEF ClaimInv, Empty
      <3> QED
        BY <2>1, <2>2, <2>3, <3>1, <3>2 DEF ClaimInv, Claiming, Creating, BeforeRename
    <2> QED
      BY <2>4, <2>5
  <1>6. ASSUME NEW p \in Procs, ProcessStep(p), FsyncParent(p) \/ Kill(p)
        PROVE  ClaimInv' /\ Stays
    <2>1. UNCHANGED path /\ pc'[p] = "idle"
      BY <1>0, <1>6 DEF FsyncParent, Kill, Return, TypeOK
    <2> QED
      BY <1>6, <2>1, ClaimKept DEF Claiming, BeforeRename
  <1>7. ASSUME NEW p \in Procs, ProcessStep(p), CleanupTmp(p) PROVE ClaimInv' /\ Stays
    <2>1. UNCHANGED path /\ pc[p] = "rmtmp"
      BY <1>7 DEF CleanupTmp
    <2>2. /\ Creating(p) => pc'[p] = "rmpath" /\ Creating(p)'
          /\ ~Creating(p) => pc'[p] = "idle"
      BY <1>0, <1>7 DEF CleanupTmp, Goto, Return, callVars, Creating, TypeOK
    <2> QED
      BY <1>7, <2>1, <2>2, ClaimKept DEF Claiming, BeforeRename
  <1>8. ASSUME NEW p \in Procs, ProcessStep(p), CleanupPath(p) PROVE ClaimInv' /\ Stays
    <2>1. pc[p] = "rmpath" /\ pc'[p] = "idle"
      BY <1>0, <1>8 DEF CleanupPath, Return, TypeOK
    <2>2. CASE UNCHANGED path
      BY <1>8, <2>1, <2>2, ClaimKept DEF Claiming, BeforeRename
    <2>3. CASE RemovesPath(p)
      <3>1. Claiming(p)
        BY <2>1 DEF ClaimInv, Claiming
      <3>2. \A q \in Procs : q # p =>
                pc'[q] = pc[q] /\ target'[q] = target[q] /\ stage'[q] = stage[q]
        BY <1>8, StepIsLocal
      <3>3. /\ path.kind = "empty"
            /\ \A q \in Procs : q # p =>
                  ~Claiming(q) /\ (pc[q] \in BeforeRename => Creating(q))
        BY <3>1, ClaimAlone
      <3> QED
        BY <2>1, <3>2, <3>3 DEF ClaimInv, Claiming, Creating, BeforeRename
    <2> QED
      BY <1>8, <2>2, <2>3 DEF CleanupPath
  <1>9. ~PowerLoss
    BY DEF PowerLoss
  <1>10. CASE UNCHANGED vars
    BY <1>10 DEF vars, ClaimInv, Claiming, Creating
  <1> QED
    BY <1>1, <1>2, <1>3, <1>4, <1>5, <1>6, <1>7, <1>8, <1>9, <1>10
       DEF Next, ProcessStep, CreateStep, MutationStep, PersistStep, Cleanup

\* persist_vault's create_new claim is the no-overwrite gate: whatever create()
\* calls, mutations, failures and kills race, only revisions of the vault at the
\* path replace it, unless fsync_parent fails or power is lost.
THEOREM ClaimIsExclusive ==
    ASSUME "dirsync" \notin Faults, "power" \notin Crashes
    PROVE  Spec => VaultNeverReplaced
  <1>1. Inv /\ ClaimInv /\ [Next]_vars => ClaimInv'
    BY ClaimStep
  <1>2. Inv /\ ClaimInv /\ [Next]_vars =>
            [path.kind = "vault" => path'.kind = "vault" /\ path'.vid = path.vid]_path
    BY ClaimStep
  <1> QED
    BY <1>1, <1>2, InitClaim, Invariance, PTL DEF Spec, VaultNeverReplaced

\* Of the steps that may find a claim at the path, a rename or a removal by its
\* owner is the only one that changes it.
LEMMA OwnerStep ==
    ASSUME "power" \notin Crashes, Inv, ClaimInv, [Next]_vars
    PROVE  [path = Empty => OwnerEndsClaim]_path
  <1> SUFFICES ASSUME path = Empty, path' # path
               PROVE  OwnerEndsClaim
    OBVIOUS
  <1>0. TypeOK /\ path.kind = "empty"
    BY DEF Inv, Empty
  <1>1. ASSUME NEW p \in Procs, Claiming(p), pc'[p] # pc[p], path' \in {stage[p], Absent}
        PROVE  OwnerEndsClaim
    <2>1. \A q \in Procs : Claiming(q) <=> q = p
      BY <1>1 DEF ClaimInv
    <2> QED
      BY <1>1, <2>1 DEF OwnerEndsClaim
  <1>2. ASSUME NEW p \in Procs, RenameTmp(p) PROVE OwnerEndsClaim
    <2>1. /\ pc[p] = "rename" /\ pc'[p] = "dirsync"
          /\ TmpOf(p) = [st |-> "synced", img |-> stage[p]]
      BY <1>0, <1>2 DEF RenameTmp, Goto, TypeOK, Inv, TempsOK
    <2>2. Claiming(p)
      BY <1>0, <2>1 DEF ClaimInv, Claiming, BeforeRename
    <2> QED
      BY <1>1, <1>2, <2>1, <2>2 DEF RenameTmp, Visible
  <1>3. ASSUME NEW p \in Procs, CleanupPath(p) PROVE OwnerEndsClaim
    <2>1. pc[p] = "rmpath" /\ pc'[p] = "idle" /\ path' = Absent
      BY <1>0, <1>3 DEF CleanupPath, RemovesPath, Return, TypeOK
    <2>2. Claiming(p)
      BY <2>1 DEF ClaimInv, Claiming
    <2> QED
      BY <1>1, <2>1, <2>2
  <1>4. ASSUME NEW p \in Procs, Create(p) PROVE FALSE
    BY <1>0, <1>4 DEF Create
  <1>5. ASSUME NEW p \in Procs,
               \/ Unlock(p) \/ Lock(p) \/ Add(p)
               \/ \E id \in Calls : Update(p, id) \/ Delete(p, id) \/ DeleteAgain(p, id)
        PROVE  FALSE
    BY <1>5 DEF Unlock, Lock, Add, Update, Delete, DeleteAgain
  <1>6. ASSUME NEW p \in Procs,
               \/ OpenTmp(p) \/ WriteTmp(p) \/ SyncTmp(p) \/ FsyncParent(p)
               \/ StepFails(p) \/ CleanupTmp(p) \/ Kill(p)
        PROVE  FALSE
    BY <1>6 DEF OpenTmp, WriteTmp, SyncTmp, FsyncParent, StepFails, CleanupTmp, Kill
  <1>7. ~PowerLoss /\ ~UNCHANGED vars
    BY DEF PowerLoss, vars
  <1> QED
    BY <1>2, <1>3, <1>4, <1>5, <1>6, <1>7
       DEF Next, ProcessStep, CreateStep, MutationStep, PersistStep, Cleanup

\* persist_vault's cleanup removes the target "only if this call won the create-new
\* claim": however creates, mutations, failures and kills race, an empty claim is
\* completed or removed by its owner alone, and one whose owner was killed stays.
THEOREM ClaimIsOwned ==
    ASSUME "dirsync" \notin Faults, "power" \notin Crashes
    PROVE  Spec => ClaimEndsByOwner
  <1>1. Inv /\ ClaimInv /\ [Next]_vars => ClaimInv'
    BY ClaimStep
  <1>2. Inv /\ ClaimInv /\ [Next]_vars => [path = Empty => OwnerEndsClaim]_path
    BY OwnerStep
  <1> QED
    BY <1>1, <1>2, InitClaim, Invariance, PTL DEF Spec, ClaimEndsByOwner

-----------------------------------------------------------------------------
(***************************************************************************)
(* A process that uses the vault alone: acknowledged writes are durable,   *)
(* and the store implements the atomic vault.                              *)
(***************************************************************************)

\* Facts about the named images that the cases below use.
LEMMA ImageFields ==
    /\ Empty.kind = "empty" /\ Empty.recs = EmptyTable
    /\ Absent.kind = "absent" /\ Absent.recs = EmptyTable
    /\ \A n : NewVault(n).kind = "vault" /\ NewVault(n).recs = EmptyTable
    /\ \A id \in Calls : EmptyTable[id] = NoRecord
    /\ NoRecord.rev = 0 /\ NoRecord.kind = "none"
  BY DEF Empty, Absent, NewVault, EmptyTable, NoRecord

\* The instance's copies of the image operators are the ones used here.
LEMMA AbstractNames ==
    /\ Abstract!Calls = Calls /\ Abstract!Record = Record
    /\ Abstract!EmptyTable = EmptyTable
    /\ Abstract!Empty = Empty /\ Abstract!Absent = Absent
    /\ \A n : Abstract!NewVault(n) = NewVault(n)
    /\ \A img, id, rec : Abstract!StageRecord(img, id, rec) = StageRecord(img, id, rec)
    /\ \A old, new : Abstract!LegalRevision(old, new) = LegalRevision(old, new)
  BY DEF Abstract!Calls, Calls, Abstract!Record, Record, Abstract!EmptyTable, EmptyTable,
         Abstract!NoRecord, NoRecord, Abstract!Empty, Empty, Abstract!Absent, Absent,
         Abstract!NewVault, NewVault, Abstract!StageRecord, StageRecord,
         Abstract!LegalRevision, LegalRevision

\* The staged image of a lone mutation is at least as new as the path everywhere.
LEMMA StageIsNewer ==
    ASSUME Inv, NEW p \in Procs, pc[p] \in BeforeRename, MutateAlone(p)
    PROVE  /\ stage[p].kind = "vault"
           /\ \A id \in Calls : /\ stage[p].recs[id].rev >= path.recs[id].rev
                                /\ \/ stage[p].recs[id].rev = path.recs[id].rev
                                   \/ stage[p].recs[id].rev = seed[p]
  <1>1. path \in Image /\ target[p] \in Calls /\ path.recs[target[p]].rev < seed[p]
    BY MaxCallsAssumption DEF Inv, TypeOK, MutateAlone, Calls
  <1>2. PICK rec \in Record : rec.rev = seed[p] /\ stage[p] = StageRecord(path, target[p], rec)
    BY DEF MutateAlone
  <1>3. \A id \in Calls : stage[p].recs[id] = IF id = target[p] THEN rec ELSE path.recs[id]
    BY <1>1, <1>2, StageFacts
  <1>4. stage[p].kind = "vault"
    BY DEF Inv, CallsOK, BeforeRename
  <1>5. \A id \in Calls : path.recs[id].rev \in Nat /\ seed[p] \in Nat
    BY <1>1, MaxCallsAssumption DEF Inv, TypeOK, Image, Table, Record
  <1> QED
    BY <1>1, <1>2, <1>3, <1>4, <1>5

\* Init establishes the lone-process invariant.
LEMMA InitSolo == Init => SoloInv
  <1> SUFFICES ASSUME Init PROVE SoloInv
    OBVIOUS
  <1> QED
    BY ImageFields DEF Init, SoloInv, AckedDurable

\* add, update and delete by a lone process stage one legal revision of the path.
LEMMA LoneMutation ==
    ASSUME Inv, SoloInv, NEW p \in Procs,
           Add(p) \/ \E id \in Calls : Update(p, id) \/ Delete(p, id)
    PROVE  /\ path.kind = "vault" /\ pc[p] = "idle" /\ fresh + 1 \in Calls
           /\ UNCHANGED <<path, disk, session, history>>
           /\ \E id \in 1 .. fresh + 1, rec \in Record :
                /\ rec.rev = fresh + 1
                /\ path.recs[id].rev < fresh + 1
                /\ LegalRevision(path.recs[id], rec)
                /\ BeginCall(p, id, StageRecord(path, id, rec))
  <1>1. /\ CanCall(p) /\ LoadVault(p)
        /\ UNCHANGED <<path, disk, session, history>>
    BY DEF Add, Update, Delete
  <1>2. fresh + 1 \in Calls /\ path.kind = "vault" /\ pc[p] = "idle"
    BY <1>1, StagedVault DEF Inv, LoadVault, CanCall
  <1>3. /\ fresh \in Nat
        /\ \A id \in Calls : /\ path.recs[id].rev \in Nat
                             /\ path.recs[id].rev <= fresh
                             /\ id > fresh => path.recs[id] = NoRecord
    BY MaxCallsAssumption DEF Inv, TypeOK, SoloInv, Image, Table, Record
  <1>4. CASE Add(p)
    <2>1. path.recs[fresh + 1] = NoRecord
      BY <1>2, <1>3, MaxCallsAssumption DEF Calls
    <2>2. LegalRevision(path.recs[fresh + 1], Item(fresh + 1))
      BY <1>2, <1>3, <2>1, WrittenRecords, ImageFields DEF LegalRevision
    <2> QED
      <3>1. /\ Item(fresh + 1) \in Record /\ Item(fresh + 1).rev = fresh + 1
            /\ BeginCall(p, fresh + 1, StageRecord(path, fresh + 1, Item(fresh + 1)))
        BY <1>2, <1>4, WrittenRecords DEF Add
      <3>2. fresh + 1 \in 1 .. fresh + 1 /\ path.recs[fresh + 1].rev < fresh + 1
        BY <1>3, <2>1, ImageFields
      <3> QED
        BY <1>1, <1>2, <2>2, <3>1, <3>2
  <1>5. ASSUME NEW id \in Calls, Update(p, id) \/ Delete(p, id)
        PROVE  \E rec \in Record :
                /\ rec.rev = fresh + 1
                /\ path.recs[id].rev < fresh + 1
                /\ id \in 1 .. fresh + 1
                /\ LegalRevision(path.recs[id], rec)
                /\ BeginCall(p, id, StageRecord(path, id, rec))
    <2>1. path.recs[id].kind = "item"
      BY <1>5 DEF Update, Delete, LiveItem
    <2>2. id \in 1 .. fresh + 1
      <3>1. path.recs[id] # NoRecord
        BY <2>1, ImageFields
      <3>2. ~(id > fresh) /\ id \in Nat /\ id >= 1
        BY <1>3, <3>1, MaxCallsAssumption DEF Calls
      <3> QED
        BY <1>3, <3>2
    <2>3. PICK rec \in Record : /\ rec.rev = fresh + 1 /\ rec.kind # "none"
                                /\ BeginCall(p, id, StageRecord(path, id, rec))
      BY <1>2, <1>5, WrittenRecords DEF Update, Delete
    <2>4. path.recs[id].rev < fresh + 1 /\ LegalRevision(path.recs[id], rec)
      <3>1. path.recs[id].rev \in Nat /\ path.recs[id].rev <= fresh /\ fresh \in Nat
        BY <1>3
      <3>2. path.recs[id].rev < fresh + 1 /\ rec.rev > path.recs[id].rev
        BY <2>3, <3>1
      <3> QED
        BY <2>1, <2>3, <3>2 DEF LegalRevision
    <2> QED
      BY <2>2, <2>3, <2>4
  <1> QED
    BY <1>1, <1>2, <1>4, <1>5

\* Every step of a lone process preserves its invariant and is a step of the
\* atomic vault, or leaves it unchanged.
LEMMA SoloStep ==
    ASSUME Solo, Inv, Inv', SoloInv, [Next]_vars
    PROVE  SoloInv' /\ [Abstract!AbstractNext]_<<path, disk>>
  <1> DEFINE Busy(p) == IF Creating(p) THEN CreateAlone(p) ELSE MutateAlone(p)
  <1> DEFINE Revs == \A img \in disk : \A id \in Calls :
                        img.recs[id].rev <= fresh /\ (id > fresh => img.recs[id] = NoRecord)
  <1>a. /\ path \in disk /\ Revs /\ AckedDurable
        /\ \A p \in Procs : pc[p] # "idle" => Busy(p)
    BY DEF SoloInv
  <1>b. \A p, q \in Procs : p = q
    BY DEF Solo
  <1>c. TypeOK /\ TypeOK' /\ fresh \in Nat /\ fresh' \in Nat
    BY MaxCallsAssumption DEF Inv, TypeOK
  <1>d. ASSUME path' \in disk', Revs', AckedDurable',
               \A p \in Procs : pc'[p] # "idle" => Busy(p)'
        PROVE  SoloInv'
    BY <1>d DEF SoloInv
  <1>1. ASSUME NEW p \in Procs, Create(p)
        PROVE  SoloInv' /\ Abstract!AbstractNext
    <2>1. \A id \in Calls : acked[id].kind = "none" /\ acked' = acked
      BY <1>a, <1>1 DEF AckedDurable, Create, history
    <2>2. /\ path' = Empty /\ disk' = disk \cup {Empty} /\ fresh' = fresh + 1
          /\ stage'[p] = NewVault(fresh + 1) /\ seed'[p] = fresh + 1 /\ target'[p] = 0
      BY <1>1, <1>c DEF Create, BeginCall, TypeOK
    <2>3. Revs'
      <3> SUFFICES ASSUME NEW img \in disk', NEW id \in Calls
                   PROVE  /\ img.recs[id].rev <= fresh + 1
                          /\ id > fresh + 1 => img.recs[id] = NoRecord
        BY <2>2
      <3>1. CASE img = Empty
        BY <1>c, <3>1, ImageFields
      <3>2. CASE img \in disk
        <4>1. /\ img.recs[id].rev \in Nat /\ img.recs[id].rev <= fresh
              /\ id > fresh => img.recs[id] = NoRecord
          BY <1>a, <1>c, <3>2, MaxCallsAssumption DEF TypeOK, Image, Table, Record
        <4> QED
          BY <1>c, <4>1, MaxCallsAssumption DEF Calls
      <3> QED
        BY <2>2, <3>1, <3>2
    <2>4. Busy(p)'
      BY <2>1, <2>2, ImageFields DEF Creating, CreateAlone
    <2>5. AckedDurable'
      BY <2>1 DEF AckedDurable
    <2>6. Abstract!Reserve
      BY <1>1, AbstractNames DEF Create, Abstract!Reserve, Abstract!Become
    <2> QED
      BY <1>b, <1>d, <2>2, <2>3, <2>4, <2>5, <2>6 DEF Abstract!AbstractNext
  <1>e. ASSUME UNCHANGED <<path, disk, acked>>, fresh' = fresh \/ fresh' = fresh + 1,
               \A p \in Procs : pc'[p] # "idle" => Busy(p)'
        PROVE  SoloInv' /\ UNCHANGED <<path, disk>>
    <2>1. Revs'
      <3> SUFFICES ASSUME NEW img \in disk, NEW id \in Calls
                   PROVE  /\ img.recs[id].rev <= fresh'
                          /\ id > fresh' => img.recs[id] = NoRecord
        BY <1>e
      <3>1. /\ img.recs[id].rev \in Nat /\ img.recs[id].rev <= fresh
            /\ id > fresh => img.recs[id] = NoRecord
        BY <1>a, <1>c, MaxCallsAssumption DEF TypeOK, Image, Table, Record
      <3> QED
        BY <1>c, <1>e, <3>1, MaxCallsAssumption DEF Calls
    <2>2. AckedDurable'
      BY <1>a, <1>e DEF AckedDurable
    <2> QED
      BY <1>a, <1>d, <1>e, <2>1, <2>2
  <1>2. ASSUME NEW p \in Procs,
               Add(p) \/ \E id \in Calls : Update(p, id) \/ Delete(p, id)
        PROVE  SoloInv' /\ UNCHANGED <<path, disk>>
    <2>1. UNCHANGED <<path, disk, acked>> /\ path.kind = "vault" /\ fresh + 1 \in Calls
      BY <1>2, LoneMutation DEF history
    <2>2. PICK id \in 1 .. fresh + 1, rec \in Record :
                /\ rec.rev = fresh + 1
                /\ path.recs[id].rev < fresh + 1
                /\ LegalRevision(path.recs[id], rec)
                /\ BeginCall(p, id, StageRecord(path, id, rec))
      BY <1>2, LoneMutation
    <2>3. /\ fresh' = fresh + 1 /\ seed'[p] = fresh + 1 /\ target'[p] = id
          /\ stage'[p] = StageRecord(path, id, rec) /\ pc'[p] = "open"
      BY <1>c, <2>2 DEF BeginCall, Goto, TypeOK
    <2>4. ~Creating(p)'
      BY <1>c, <2>3 DEF Creating
    <2>5. MutateAlone(p)'
      BY <2>1, <2>2, <2>3 DEF MutateAlone
    <2> QED
      BY <1>b, <1>e, <2>1, <2>3, <2>4, <2>5
  <1>3. ASSUME NEW p \in Procs,
               Unlock(p) \/ Lock(p) \/ \E id \in Calls : DeleteAgain(p, id)
        PROVE  SoloInv' /\ UNCHANGED <<path, disk>>
    <2>1. UNCHANGED <<path, disk, acked, fresh, pc, seed, target, stage>>
      BY <1>3 DEF Unlock, Lock, DeleteAgain, callVars, history
    <2>2. \A q \in Procs : pc'[q] # "idle" => Busy(q)'
      BY <1>a, <2>1 DEF Creating, CreateAlone, MutateAlone
    <2> QED
      BY <1>e, <2>1, <2>2
  <1>4. ASSUME NEW p \in Procs, OpenTmp(p) \/ WriteTmp(p) \/ SyncTmp(p) \/ StepFails(p)
        PROVE  SoloInv' /\ UNCHANGED <<path, disk>>
    <2>1. UNCHANGED <<path, disk, acked, fresh, seed, target, stage>>
      BY <1>4 DEF OpenTmp, WriteTmp, SyncTmp, StepFails, callVars, history
    <2>2. /\ pc[p] # "idle"
          /\ pc'[p] \in BeforeRename => pc[p] \in BeforeRename
          /\ pc'[p] # "dirsync" /\ pc'[p] # "rmpath"
      BY <1>4, <1>c DEF OpenTmp, WriteTmp, SyncTmp, StepFails, Goto, TypeOK, BeforeRename
    <2>3. Busy(p)'
      BY <1>a, <2>1, <2>2 DEF Creating, CreateAlone, MutateAlone
    <2> QED
      BY <1>b, <1>e, <2>1, <2>3
  <1>5. ASSUME NEW p \in Procs, RenameTmp(p)
        PROVE  SoloInv' /\ Abstract!AbstractNext
    <2>1. pc[p] = "rename" /\ Busy(p) /\ pc[p] \in BeforeRename
      BY <1>5, <1>a DEF RenameTmp, BeforeRename
    <2>2. Visible(TmpOf(p)) = stage[p] /\ Survivors(TmpOf(p)) = {stage[p]}
      BY <2>1 DEF Inv, TempsOK, Visible, Survivors
    <2>3. /\ path' = stage[p] /\ disk' = disk \cup {stage[p]} /\ pc'[p] = "dirsync"
          /\ UNCHANGED <<acked, fresh, seed, target, stage>>
      BY <1>5, <1>c, <2>2 DEF RenameTmp, Goto, callVars, history, TypeOK
    <2>4. seed[p] \in Nat /\ seed[p] <= fresh /\ seed[p] \in Calls /\ stage[p].kind = "vault"
      BY <1>c, <2>1, MaxCallsAssumption DEF Inv, CallsOK, TypeOK, Calls
    <2>5. CASE Creating(p)
      <3>1. CreateAlone(p)
        BY <2>1, <2>5
      <3>2. Revs'
        BY <1>a, <1>c, <2>3, <3>1, ImageFields DEF CreateAlone
      <3>3. Busy(p)'
        BY <2>3, <2>5, <3>1, ImageFields DEF Creating, CreateAlone, BeforeRename
      <3>4. AckedDurable'
        BY <2>3, <3>1 DEF CreateAlone, AckedDurable
      <3>5. Abstract!Fill
        <4>1. path.kind = "empty" /\ path' = NewVault(seed[p]) /\ disk' = disk \cup {NewVault(seed[p])}
          BY <2>1, <2>3, <3>1, ImageFields DEF CreateAlone
        <4> QED
          BY <2>4, <4>1, AbstractNames DEF Abstract!Fill, Abstract!Become
      <3> QED
        BY <1>b, <1>d, <2>3, <3>2, <3>3, <3>4, <3>5 DEF Abstract!AbstractNext
    <2>6. CASE ~Creating(p)
      <3>1. MutateAlone(p)
        BY <2>1, <2>6
      <3>2. \A id \in Calls : /\ stage[p].recs[id].rev >= path.recs[id].rev
                              /\ \/ stage[p].recs[id].rev = path.recs[id].rev
                                 \/ stage[p].recs[id].rev = seed[p]
        BY <2>1, <3>1, StageIsNewer
      <3>3. PICK rec \in Record :
                /\ LegalRevision(path.recs[target[p]], rec)
                /\ stage[p] = StageRecord(path, target[p], rec)
        BY <2>1, <3>1 DEF MutateAlone
      <3>4. target[p] \in Calls /\ target[p] <= fresh /\ path.kind = "vault"
        BY <1>c, <2>1, <3>1, MaxCallsAssumption DEF MutateAlone, TypeOK, Calls
      <3>5. \A id \in Calls : id # target[p] => stage[p].recs[id] = path.recs[id]
        <4>1. path \in Image
          BY <1>c DEF TypeOK
        <4>2. \A id \in Calls : StageRecord(path, target[p], rec).recs[id]
                                = IF id = target[p] THEN rec ELSE path.recs[id]
          BY <3>4, <4>1, StageFacts
        <4> QED
          BY <3>3, <4>2
      <3>6. Revs'
        <4> SUFFICES ASSUME NEW id \in Calls
                     PROVE  /\ stage[p].recs[id].rev <= fresh
                            /\ id > fresh => stage[p].recs[id] = NoRecord
          BY <1>a, <2>3
        <4>1. stage[p].recs[id].rev <= fresh
          BY <1>a, <2>4, <3>2
        <4>2. id > fresh => id # target[p]
          BY <1>c, <3>4, MaxCallsAssumption DEF Calls
        <4> QED
          BY <1>a, <3>5, <4>1, <4>2
      <3>7. Busy(p)'
        BY <2>3, <2>6, <3>1 DEF Creating, MutateAlone, BeforeRename
      <3>8. AckedDurable'
        <4> SUFFICES ASSUME NEW id \in Calls, acked[id].kind # "none"
                     PROVE  stage[p].kind = "vault" /\ stage[p].recs[id].rev >= acked[id].rev
          BY <1>a, <2>3 DEF AckedDurable
        <4>1. path.recs[id].rev >= acked[id].rev
          BY <1>a DEF AckedDurable
        <4>2. path.recs[id].rev \in Nat /\ acked[id].rev \in Nat /\ stage[p].recs[id].rev \in Nat
          BY <1>c, MaxCallsAssumption DEF TypeOK, Image, Table, Record
        <4> QED
          BY <2>4, <3>2, <4>1, <4>2
      <3>9. Abstract!Revise
        BY <2>3, <3>3, <3>4, AbstractNames DEF Abstract!Revise, Abstract!Become
      <3> QED
        BY <1>b, <1>d, <2>3, <3>6, <3>7, <3>8, <3>9 DEF Abstract!AbstractNext
    <2> QED
      BY <2>5, <2>6
  <1>6. ASSUME NEW p \in Procs, FsyncParent(p)
        PROVE  SoloInv' /\ Abstract!AbstractNext
    <2>1. /\ disk' = {path} /\ UNCHANGED <<path, fresh>> /\ pc'[p] = "idle"
          /\ pc[p] = "dirsync" /\ Busy(p) /\ Acknowledge(p)
      BY <1>6, <1>a, <1>c DEF FsyncParent, Return, TypeOK
    <2>2. AckedDurable'
      <3>1. CASE Creating(p)
        BY <1>a, <2>1, <3>1 DEF Acknowledge, history, AckedDurable
      <3>2. CASE ~Creating(p)
        <4>1. /\ path = stage[p] /\ target[p] \in Calls /\ path.kind = "vault"
              /\ acked' = [acked EXCEPT ![target[p]] = path.recs[target[p]]]
          BY <1>c, <2>1, <3>2, MaxCallsAssumption
             DEF MutateAlone, Acknowledge, Inv, CallsOK, TypeOK, Calls
        <4>2. \A id \in Calls : path.recs[id].rev \in Nat
          BY <1>c, MaxCallsAssumption DEF TypeOK, Image, Table, Record
        <4> QED
          BY <1>a, <1>c, <2>1, <4>1, <4>2 DEF AckedDurable, TypeOK
      <3> QED
        BY <3>1, <3>2
    <2>3. Abstract!Sync
      BY <2>1 DEF Abstract!Sync
    <2> QED
      BY <1>a, <1>b, <1>d, <2>1, <2>2, <2>3 DEF Abstract!AbstractNext
  <1>7. ASSUME NEW p \in Procs, CleanupTmp(p)
        PROVE  SoloInv' /\ UNCHANGED <<path, disk>>
    <2>1. UNCHANGED <<path, disk, fresh, acked>> /\ pc[p] = "rmtmp" /\ Busy(p)
      BY <1>7, <1>a DEF CleanupTmp, history
    <2>2. CASE Creating(p)
      <3>1. pc'[p] = "rmpath" /\ UNCHANGED <<seed, target, stage>>
        BY <1>7, <1>c, <2>2 DEF CleanupTmp, Goto, callVars, TypeOK
      <3>2. Busy(p)'
        BY <2>1, <2>2, <3>1 DEF Creating, CreateAlone, BeforeRename
      <3> QED
        BY <1>b, <1>e, <2>1, <3>2
    <2>3. CASE ~Creating(p)
      <3>1. pc'[p] = "idle"
        BY <1>7, <1>c, <2>3 DEF CleanupTmp, Return, TypeOK
      <3> QED
        BY <1>b, <1>e, <2>1, <3>1
    <2> QED
      BY <2>2, <2>3
  <1>8. ASSUME NEW p \in Procs, CleanupPath(p)
        PROVE  SoloInv' /\ (Abstract!AbstractNext \/ UNCHANGED <<path, disk>>)
    <2>1. /\ UNCHANGED <<fresh, acked>> /\ pc[p] = "rmpath" /\ pc'[p] = "idle" /\ Busy(p)
      BY <1>8, <1>a, <1>c DEF CleanupPath, Return, history, TypeOK
    <2>2. CreateAlone(p)
      BY <2>1 DEF MutateAlone
    <2>3. CASE UNCHANGED <<path, disk>>
      BY <1>b, <1>e, <2>1, <2>3
    <2>4. CASE RemovesPath(p)
      <3>1. path' = Absent /\ disk' = disk \cup {Absent}
        BY <2>4 DEF RemovesPath
      <3>2. Revs'
        BY <1>a, <1>c, <2>1, <3>1, ImageFields
      <3>3. AckedDurable'
        BY <2>1, <2>2 DEF CreateAlone, AckedDurable
      <3>4. Abstract!Discard
        BY <2>2, <3>1, AbstractNames DEF CreateAlone, Abstract!Discard, Abstract!Become
      <3> QED
        BY <1>b, <1>d, <2>1, <3>1, <3>2, <3>3, <3>4 DEF Abstract!AbstractNext
    <2> QED
      BY <1>8, <2>3, <2>4 DEF CleanupPath
  <1>9. ASSUME NEW p \in Procs, Kill(p)
        PROVE  SoloInv' /\ UNCHANGED <<path, disk>>
    <2>1. UNCHANGED <<path, disk, fresh, acked>> /\ pc'[p] = "idle"
      BY <1>9, <1>c DEF Kill, Return, history, TypeOK
    <2> QED
      BY <1>b, <1>e, <2>1
  <1>10. ASSUME PowerLoss PROVE SoloInv' /\ Abstract!AbstractNext
    <2>1. path' \in disk /\ disk' = {path'} /\ UNCHANGED <<fresh, acked>>
      BY <1>10 DEF PowerLoss, history
    <2>2. AckedDurable'
      BY <1>a, <2>1 DEF AckedDurable
    <2>3. Abstract!Lose
      BY <2>1 DEF Abstract!Lose
    <2>4. \A p \in Procs : pc'[p] = "idle"
      BY <1>10 DEF PowerLoss
    <2> QED
      BY <1>a, <1>d, <2>1, <2>2, <2>3, <2>4 DEF Abstract!AbstractNext
  <1>11. CASE UNCHANGED vars
    <2>1. \A q \in Procs : pc'[q] # "idle" => Busy(q)'
      BY <1>a, <1>11 DEF vars, Creating, CreateAlone, MutateAlone
    <2> QED
      BY <1>e, <1>11, <2>1 DEF vars
  <1> QED
    BY <1>1, <1>2, <1>3, <1>4, <1>5, <1>6, <1>7, <1>8, <1>9, <1>10, <1>11
       DEF Next, ProcessStep, CreateStep, MutationStep, PersistStep, Cleanup

\* Durability of acknowledged writes: used by one process at a time, the store
\* loses no write that returned Ok after fsync_parent, whatever system calls fail
\* and whenever the process is killed or power is lost.
THEOREM SoloDurable == ASSUME Solo PROVE Spec => []AckedDurable
  <1>1. Inv /\ Inv' /\ SoloInv /\ [Next]_vars => SoloInv'
    BY SoloStep
  <1>2. SoloInv => AckedDurable
    BY DEF SoloInv
  <1> QED
    BY <1>1, <1>2, InitSolo, Invariance, PTL DEF Spec

\* Used by one process at a time, the store implements the atomic vault.
THEOREM SoloRefines == ASSUME Solo PROVE Spec => ImplementsAtomicVault
  <1>1. Inv /\ Inv' /\ SoloInv /\ [Next]_vars => SoloInv'
    BY SoloStep
  <1>2. Inv /\ Inv' /\ SoloInv /\ [Next]_vars => [Abstract!AbstractNext]_<<path, disk>>
    BY SoloStep
  <1>3. Init => Abstract!AbstractInit
    BY AbstractNames DEF Init, Abstract!AbstractInit
  <1> QED
    BY <1>1, <1>2, <1>3, InitSolo, Invariance, PTL
       DEF Spec, ImplementsAtomicVault, Abstract!AbstractSpec, Abstract!avars

-----------------------------------------------------------------------------
(***************************************************************************)
(* Processes that share the path: what a call puts there is one legal      *)
(* revision of what it loaded.                                             *)
(***************************************************************************)

\* The instance's copies of the image operators are the ones used here.
LEMMA SharedNames ==
    /\ Shared!Calls = Calls /\ Shared!Record = Record
    /\ Shared!Empty = Empty /\ Shared!Absent = Absent
    /\ \A n : Shared!NewVault(n) = NewVault(n)
    /\ \A img, id, rec : Shared!StageRecord(img, id, rec) = StageRecord(img, id, rec)
    /\ \A old, new : Shared!LegalRevision(old, new) = LegalRevision(old, new)
  BY DEF Shared!Calls, Calls, Shared!Record, Record, Shared!EmptyTable, EmptyTable,
         Shared!NoRecord, NoRecord, Shared!Empty, Empty, Shared!Absent, Absent,
         Shared!NewVault, NewVault, Shared!StageRecord, StageRecord,
         Shared!LegalRevision, LegalRevision

\* What a call is about to do, by the system call it has reached.
LEMMA PendingIs ==
    ASSUME NEW id, NEW img
    PROVE  /\ Pending("idle", id, img) = Shared!NoCall
           /\ \A step \in BeforeRename :
                Pending(step, id, img) =
                    [does |-> IF id = 0 THEN "make" ELSE "edit", img |-> img]
           /\ \A step \in {"dirsync", "rmtmp", "rmpath"} :
                Pending(step, id, img) = IF id = 0 THEN Shared!Ending ELSE Shared!NoCall
  BY SharedNames DEF Pending, BeforeRename, Shared!NoCall, Shared!Ending

\* A step of process p changes its own call at most.
LEMMA OwnCall ==
    ASSUME Inv, NEW p \in Procs, ProcessStep(p)
    PROVE  /\ CallOf[p] = Pending(pc[p], target[p], stage[p])
           /\ \A c : c = Pending(pc'[p], target'[p], stage'[p]) => Shared!Now(p, c)
  <1>1. \A q \in Procs : q # p =>
            pc'[q] = pc[q] /\ target'[q] = target[q] /\ stage'[q] = stage[q]
    BY StepIsLocal
  <1>2. CallOf' = [CallOf EXCEPT ![p] = Pending(pc'[p], target'[p], stage'[p])]
    BY <1>1 DEF CallOf
  <1> QED
    BY <1>2 DEF CallOf, Shared!Now

\* Records drawn by the n-th call at the latest, and those of the call after it.
LEMMA DrawnFacts ==
    ASSUME NEW n \in Nat
    PROVE  /\ DrawnBy(Absent, n) /\ DrawnBy(Empty, n) /\ \A v : DrawnBy(NewVault(v), n)
           /\ \A img \in Image : DrawnBy(img, n) => DrawnBy(img, n + 1)
           /\ \A img \in Image, id \in Calls, rec \in Record :
                DrawnBy(img, n) /\ id <= n + 1 /\ rec.rev = n + 1 =>
                    DrawnBy(StageRecord(img, id, rec), n + 1)
  <1>1. DrawnBy(Absent, n) /\ DrawnBy(Empty, n) /\ \A v : DrawnBy(NewVault(v), n)
    BY ImageFields DEF DrawnBy
  <1>2. ASSUME NEW img \in Image, DrawnBy(img, n) PROVE DrawnBy(img, n + 1)
    <2>1. \A id \in Calls : id \in Nat /\ img.recs[id].rev \in Nat
      BY MaxCallsAssumption DEF Image, Table, Record, Calls
    <2> QED
      BY <1>2, <2>1 DEF DrawnBy
  <1>3. ASSUME NEW img \in Image, NEW id \in Calls, NEW rec \in Record,
               DrawnBy(img, n), id <= n + 1, rec.rev = n + 1
        PROVE  DrawnBy(StageRecord(img, id, rec), n + 1)
    <2>1. \A i \in Calls : StageRecord(img, id, rec).recs[i] = IF i = id THEN rec ELSE img.recs[i]
      BY StageFacts
    <2>2. \A i \in Calls : img.recs[i].rev <= n + 1 /\ (i > n + 1 => img.recs[i] = NoRecord)
      BY <1>2, <1>3 DEF DrawnBy
    <2>3. ASSUME NEW i \in Calls
          PROVE  /\ StageRecord(img, id, rec).recs[i].rev <= n + 1
                 /\ i > n + 1 => StageRecord(img, id, rec).recs[i] = NoRecord
      <3>1. CASE i = id
        <4>1. ~(i > n + 1)
          BY <1>3, <3>1, MaxCallsAssumption DEF Calls
        <4> QED
          BY <1>3, <2>1, <3>1, <4>1
      <3>2. CASE i # id
        BY <2>1, <2>2, <3>2
      <3> QED
        BY <3>1, <3>2
    <2> QED
      BY <2>3 DEF DrawnBy
  <1> QED
    BY <1>1, <1>2, <1>3

\* Init establishes the invariant.
LEMMA InitShared == Init => SharedInv /\ Shared!SharedInit
  <1> SUFFICES ASSUME Init PROVE SharedInv /\ Shared!SharedInit
    OBVIOUS
  <1>1. SharedInv
    BY DrawnFacts DEF Init, SharedInv
  <1>2. CallOf = [p \in Procs |-> Shared!NoCall]
    BY PendingIs DEF Init, CallOf
  <1> QED
    BY <1>1, <1>2, SharedNames DEF Init, Shared!SharedInit

\* A step of process p that draws nothing, and puts at most its stage or nothing
\* at the path, keeps the invariant.
LEMMA SharedKept ==
    ASSUME Inv, SharedInv, NEW p \in Procs, ProcessStep(p), UNCHANGED fresh,
           path' \in {path, stage[p], Absent},
           disk' \subseteq disk \cup {path, stage[p], Absent},
           stage'[p] \in {stage[p], Absent},
           pc'[p] = "rmpath" => Creating(p)'
    PROVE  SharedInv'
  <1>1. fresh \in Nat
    BY MaxCallsAssumption DEF Inv, TypeOK
  <1>2. \A img \in disk \cup {path, stage[p], Absent} : DrawnBy(img, fresh)
    BY <1>1, DrawnFacts DEF SharedInv
  <1>3. \A img \in disk' \cup {path'} : DrawnBy(img, fresh)
    BY <1>2
  <1>4. \A q \in Procs : q # p =>
            pc'[q] = pc[q] /\ target'[q] = target[q] /\ stage'[q] = stage[q]
    BY StepIsLocal
  <1>5. ASSUME NEW q \in Procs
        PROVE  DrawnBy(stage'[q], fresh) /\ (pc'[q] = "rmpath" => Creating(q)')
    <2>1. CASE q = p
      BY <1>2, <2>1
    <2>2. CASE q # p
      BY <1>4, <2>2 DEF SharedInv, Creating
    <2> QED
      BY <2>1, <2>2
  <1> QED
    BY <1>3, <1>5 DEF SharedInv, DrawnBy

\* A call that draws the next number keeps the invariant.
LEMMA SharedBegins ==
    ASSUME Inv, SharedInv, NEW p \in Procs, ProcessStep(p), CanCall(p),
           NEW id, NEW img, BeginCall(p, id, img), DrawnBy(img, fresh + 1),
           path' \in {path, Empty}, disk' \subseteq disk \cup {Empty}
    PROVE  SharedInv'
  <1>0. TypeOK
    BY DEF Inv
  <1>1. fresh \in Nat /\ fresh' = fresh + 1
    BY <1>0, MaxCallsAssumption DEF TypeOK, BeginCall
  <1>2. stage'[p] = img /\ pc'[p] = "open"
    BY <1>0 DEF TypeOK, BeginCall, Goto
  <1>3. \A i \in disk \cup {path} : DrawnBy(i, fresh + 1)
    BY <1>0, <1>1, DrawnFacts DEF SharedInv, TypeOK
  <1>4. DrawnBy(Empty, fresh + 1)
    BY <1>1, DrawnFacts
  <1>5. \A q \in Procs : q # p =>
            pc'[q] = pc[q] /\ target'[q] = target[q] /\ stage'[q] = stage[q]
    BY StepIsLocal
  <1>6. ASSUME NEW q \in Procs
        PROVE  DrawnBy(stage'[q], fresh + 1) /\ (pc'[q] = "rmpath" => Creating(q)')
    <2>1. CASE q = p
      BY <1>2, <2>1
    <2>2. CASE q # p
      <3>1. stage[q] \in Image /\ DrawnBy(stage[q], fresh)
        BY <1>0 DEF SharedInv, TypeOK
      <3>2. DrawnBy(stage[q], fresh + 1)
        BY <1>1, <3>1, DrawnFacts
      <3> QED
        BY <1>5, <2>2, <3>2 DEF SharedInv, Creating
    <2> QED
      BY <2>1, <2>2
  <1>7. \A i \in disk' \cup {path'} : DrawnBy(i, fresh + 1)
    BY <1>3, <1>4
  <1> QED
    BY <1>1, <1>6, <1>7 DEF SharedInv, DrawnBy

\* Every step keeps the invariant, and is a step of the shared vault or of nobody there.
LEMMA SharedStep ==
    ASSUME Inv, SharedInv, [Next]_vars
    PROVE  SharedInv' /\ [Shared!SharedNext]_<<path, disk, CallOf>>
  <1> DEFINE Mapped == [Shared!SharedNext]_<<path, disk, CallOf>>
             Seen == \E p \in Procs : \/ Shared!Reserve(p) \/ Shared!Edit(p) \/ Shared!Commit(p)
                                     \/ Shared!GiveUp(p) \/ Shared!Withdraw(p) \/ Shared!Sync(p)
  <1>0. TypeOK
    BY DEF Inv
  <1>a. Seen => Mapped
    BY DEF Shared!SharedNext
  <1>b. fresh \in Nat
    BY <1>0, MaxCallsAssumption DEF TypeOK
  <1>c. ASSUME NEW p \in Procs, ProcessStep(p), UNCHANGED <<path, disk>>,
               Pending(pc'[p], target'[p], stage'[p]) = Pending(pc[p], target[p], stage[p])
        PROVE  Mapped
    <2>1. CallOf' = [CallOf EXCEPT ![p] = CallOf[p]]
      BY <1>c, OwnCall DEF Shared!Now
    <2>2. CallOf' = CallOf
      BY <2>1 DEF CallOf
    <2> QED
      BY <1>c, <2>2
  <1> HIDE DEF Mapped, Seen
  <1>1. ASSUME NEW p \in Procs, ProcessStep(p), Create(p) PROVE SharedInv' /\ Mapped
    <2>1. /\ CanCall(p) /\ path.kind = "absent" /\ path' = Empty /\ disk' = disk \cup {Empty}
          /\ BeginCall(p, 0, NewVault(fresh + 1))
      BY <1>1 DEF Create
    <2>2. pc[p] = "idle" /\ pc'[p] = "open" /\ target'[p] = 0 /\ stage'[p] = NewVault(fresh + 1)
      BY <1>0, <2>1 DEF CanCall, BeginCall, Goto, TypeOK
    <2>3. SharedInv'
      BY <1>1, <1>b, <2>1, DrawnFacts, SharedBegins
    <2>4. fresh + 1 \in Calls
      BY <1>0, <2>1, MaxCallsAssumption DEF CanCall, TypeOK, Calls
    <2>5. CallOf[p] = Shared!NoCall
      BY <1>1, <2>2, OwnCall, PendingIs
    <2>6. Shared!Now(p, Shared!Making(fresh + 1))
      <3>1. Pending(pc'[p], target'[p], stage'[p]) = Shared!Making(fresh + 1)
        BY <2>2, PendingIs, SharedNames DEF Shared!Making, BeforeRename
      <3> QED
        BY <1>1, <3>1, OwnCall
    <2>7. Shared!Reserve(p)
      BY <2>1, <2>4, <2>5, <2>6, SharedNames DEF Shared!Reserve, Shared!Become
    <2> QED
      BY <1>a, <2>3, <2>7 DEF Seen
  <1>2. ASSUME NEW p \in Procs, ProcessStep(p),
               Add(p) \/ \E id \in Calls : Update(p, id) \/ Delete(p, id)
        PROVE  SharedInv' /\ Mapped
    <2>1. /\ CanCall(p) /\ LoadVault(p) /\ UNCHANGED <<path, disk>>
          /\ path \in Image /\ path.kind = "vault" /\ DrawnBy(path, fresh)
      BY <1>0, <1>2 DEF Add, Update, Delete, LoadVault, TypeOK, SharedInv
    <2>2. fresh + 1 \in Calls
      BY <1>0, <2>1, StagedVault
    <2>3. PICK id \in Calls, rec \in Record :
            /\ BeginCall(p, id, StageRecord(path, id, rec))
            /\ id <= fresh + 1 /\ rec.rev = fresh + 1 /\ LegalRevision(path.recs[id], rec)
      <3>1. CASE Add(p)
        <4>1. BeginCall(p, fresh + 1, StageRecord(path, fresh + 1, Item(fresh + 1)))
          BY <3>1 DEF Add
        <4>2. path.recs[fresh + 1] = NoRecord
          BY <1>b, <2>1, <2>2 DEF DrawnBy
        <4>3. LegalRevision(path.recs[fresh + 1], Item(fresh + 1))
          BY <1>b, <2>2, <4>2, WrittenRecords, ImageFields DEF LegalRevision
        <4>4. fresh + 1 <= fresh + 1
          BY <1>b
        <4> QED
          BY <2>2, <4>1, <4>3, <4>4, WrittenRecords
      <3>2. ASSUME NEW id \in Calls, Update(p, id) \/ Delete(p, id)
            PROVE  \E rec \in Record :
                    /\ BeginCall(p, id, StageRecord(path, id, rec))
                    /\ id <= fresh + 1 /\ rec.rev = fresh + 1 /\ LegalRevision(path.recs[id], rec)
        <4>1. path.recs[id].kind = "item"
          BY <3>2 DEF Update, Delete, LiveItem
        <4>2. PICK rec \in Record :
                /\ BeginCall(p, id, StageRecord(path, id, rec))
                /\ rec.rev = fresh + 1 /\ rec.kind \in {"item", "tombstone"}
          BY <2>2, <3>2, WrittenRecords DEF Update, Delete
        <4>3. path.recs[id].rev <= fresh /\ ~(id > fresh)
          BY <2>1, <4>1, ImageFields DEF DrawnBy
        <4>4. id \in Nat /\ path.recs[id].rev \in Nat
          BY <2>1, MaxCallsAssumption DEF Image, Table, Record, Calls
        <4>5. id <= fresh + 1 /\ fresh + 1 > path.recs[id].rev
          BY <1>b, <4>3, <4>4
        <4> QED
          BY <4>1, <4>2, <4>5 DEF LegalRevision
      <3> QED
        BY <1>2, <3>1, <3>2
    <2> DEFINE img == StageRecord(path, id, rec)
    <2>4. DrawnBy(img, fresh + 1)
      BY <1>b, <2>1, <2>3, DrawnFacts
    <2> HIDE DEF img
    <2>5. BeginCall(p, id, img)
      BY <2>3 DEF img
    <2>6. pc[p] = "idle" /\ pc'[p] = "open" /\ target'[p] = id /\ stage'[p] = img
      BY <1>0, <2>1, <2>5 DEF CanCall, BeginCall, Goto, TypeOK
    <2>7. SharedInv'
      BY <1>2, <2>1, <2>4, <2>5, SharedBegins
    <2>8. CallOf[p] = Shared!NoCall
      BY <1>2, <2>6, OwnCall, PendingIs
    <2>9. Shared!Now(p, Shared!Editing(img))
      <3>1. id # 0
        BY MaxCallsAssumption DEF Calls
      <3>2. Pending(pc'[p], target'[p], stage'[p]) = Shared!Editing(img)
        BY <2>6, <3>1, PendingIs DEF Shared!Editing, BeforeRename
      <3> QED
        BY <1>2, <3>2, OwnCall
    <2>10. Shared!Edit(p)
      BY <2>1, <2>3, <2>8, <2>9, SharedNames DEF Shared!Edit, img
    <2> QED
      BY <1>a, <2>7, <2>10 DEF Seen
  <1>3. ASSUME NEW p \in Procs, ProcessStep(p),
               \/ Unlock(p) \/ Lock(p) \/ \E id \in Calls : DeleteAgain(p, id)
        PROVE  SharedInv' /\ Mapped
    <2>1. UNCHANGED <<path, disk, pc, target, stage, fresh>>
      BY <1>3 DEF Unlock, Lock, DeleteAgain, callVars
    <2>2. SharedInv'
      BY <2>1 DEF SharedInv, DrawnBy, Creating
    <2> QED
      BY <1>3, <1>c, <2>1, <2>2
  <1>4. ASSUME NEW p \in Procs, ProcessStep(p), OpenTmp(p) \/ WriteTmp(p) \/ SyncTmp(p)
        PROVE  SharedInv' /\ Mapped
    <2>1. UNCHANGED <<path, disk, target, stage, fresh>>
      BY <1>4 DEF OpenTmp, WriteTmp, SyncTmp, callVars
    <2>2. pc[p] \in BeforeRename /\ pc'[p] \in BeforeRename
      BY <1>0, <1>4 DEF OpenTmp, WriteTmp, SyncTmp, Goto, TypeOK, BeforeRename
    <2>3. SharedInv'
      BY <1>4, <2>1, <2>2, SharedKept DEF BeforeRename
    <2>4. Pending(pc'[p], target'[p], stage'[p]) = Pending(pc[p], target[p], stage[p])
      <3>1. Pending(pc'[p], target[p], stage[p]) = Pending(pc[p], target[p], stage[p])
        BY <2>2 DEF Pending
      <3> QED
        BY <2>1, <3>1
    <2> QED
      BY <1>4, <1>c, <2>1, <2>3, <2>4
  <1>5. ASSUME NEW p \in Procs, ProcessStep(p), RenameTmp(p) PROVE SharedInv' /\ Mapped
    <2>1. pc[p] = "rename" /\ TmpOf(p) = [st |-> "synced", img |-> stage[p]]
      BY <1>5 DEF RenameTmp, Inv, TempsOK
    <2>2. /\ path' = stage[p] /\ disk' = disk \cup {stage[p]} /\ pc'[p] = "dirsync"
          /\ UNCHANGED <<target, stage, fresh>>
      BY <1>0, <1>5, <2>1 DEF RenameTmp, Visible, Survivors, Goto, callVars, TypeOK
    <2>3. SharedInv'
      BY <1>5, <2>2, SharedKept
    <2>4. CallOf[p] = [does |-> IF target[p] = 0 THEN "make" ELSE "edit", img |-> stage[p]]
      BY <1>5, <2>1, OwnCall, PendingIs DEF BeforeRename
    <2>5. Shared!Now(p, IF target[p] = 0 THEN Shared!Ending ELSE Shared!NoCall)
      <3>1. Pending(pc'[p], target'[p], stage'[p])
              = IF target[p] = 0 THEN Shared!Ending ELSE Shared!NoCall
        BY <2>2, PendingIs
      <3> QED
        BY <1>5, <3>1, OwnCall
    <2>6. Shared!Commit(p)
      BY <2>2, <2>4, <2>5 DEF Shared!Commit, Shared!Become
    <2> QED
      BY <1>a, <2>3, <2>6 DEF Seen
  <1>6. ASSUME NEW p \in Procs, ProcessStep(p), FsyncParent(p) PROVE SharedInv' /\ Mapped
    <2>1. /\ pc[p] = "dirsync" /\ pc'[p] = "idle" /\ stage'[p] = Absent
          /\ path' = path /\ disk' = {path} /\ UNCHANGED fresh
      BY <1>0, <1>6 DEF FsyncParent, Return, TypeOK
    <2>2. SharedInv'
      BY <1>6, <2>1, SharedKept
    <2>3. CallOf[p] \in {Shared!NoCall, Shared!Ending} /\ Shared!Now(p, Shared!NoCall)
      BY <1>6, <2>1, OwnCall, PendingIs
    <2>4. Shared!Sync(p)
      BY <2>1, <2>3 DEF Shared!Sync
    <2> QED
      BY <1>a, <2>2, <2>4 DEF Seen
  <1>7. ASSUME NEW p \in Procs, ProcessStep(p), StepFails(p) PROVE SharedInv' /\ Mapped
    <2>1. /\ pc[p] \in BeforeRename \cup {"dirsync"} /\ pc'[p] = "rmtmp"
          /\ UNCHANGED <<path, disk, target, stage, fresh>>
      BY <1>0, <1>7 DEF StepFails, Goto, callVars, TypeOK, BeforeRename
    <2>2. SharedInv'
      BY <1>7, <2>1, SharedKept
    <2>3. CASE pc[p] = "dirsync"
      <3>1. Pending(pc'[p], target'[p], stage'[p]) = Pending(pc[p], target[p], stage[p])
        BY <2>1, <2>3, PendingIs
      <3> QED
        BY <1>7, <1>c, <2>1, <2>2, <3>1
    <2>4. CASE pc[p] \in BeforeRename
      <3>1. CallOf[p] = [does |-> IF target[p] = 0 THEN "make" ELSE "edit", img |-> stage[p]]
        <4>1. Pending(pc[p], target[p], stage[p])
                = [does |-> IF target[p] = 0 THEN "make" ELSE "edit", img |-> stage[p]]
          BY <2>4 DEF Pending
        <4> QED
          BY <1>7, <4>1, OwnCall
      <3>2. Shared!Now(p, IF target[p] = 0 THEN Shared!Ending ELSE Shared!NoCall)
        <4>1. Pending(pc'[p], target'[p], stage'[p])
                = IF target[p] = 0 THEN Shared!Ending ELSE Shared!NoCall
          BY <2>1, PendingIs
        <4> QED
          BY <1>7, <4>1, OwnCall
      <3>3. Shared!GiveUp(p)
        BY <2>1, <3>1, <3>2 DEF Shared!GiveUp
      <3> QED
        BY <1>a, <2>2, <3>3 DEF Seen
    <2> QED
      BY <2>1, <2>3, <2>4
  <1>8. ASSUME NEW p \in Procs, ProcessStep(p), CleanupTmp(p) PROVE SharedInv' /\ Mapped
    <2>1. pc[p] = "rmtmp" /\ UNCHANGED <<path, disk, fresh>>
      BY <1>8 DEF CleanupTmp
    <2>2. CASE Creating(p)
      <3>1. pc'[p] = "rmpath" /\ UNCHANGED <<target, stage>>
        BY <1>0, <1>8, <2>2 DEF CleanupTmp, Goto, callVars, TypeOK
      <3>2. SharedInv'
        BY <1>8, <2>1, <2>2, <3>1, SharedKept DEF Creating
      <3>3. Pending(pc'[p], target'[p], stage'[p]) = Pending(pc[p], target[p], stage[p])
        BY <2>1, <3>1, PendingIs
      <3> QED
        BY <1>8, <1>c, <2>1, <3>2, <3>3
    <2>3. CASE ~Creating(p)
      <3>1. pc'[p] = "idle" /\ stage'[p] = Absent
        BY <1>0, <1>8, <2>3 DEF CleanupTmp, Return, TypeOK
      <3>2. SharedInv'
        BY <1>8, <2>1, <3>1, SharedKept
      <3>3. Pending(pc'[p], target'[p], stage'[p]) = Pending(pc[p], target[p], stage[p])
        BY <2>1, <2>3, <3>1, PendingIs DEF Creating
      <3> QED
        BY <1>8, <1>c, <2>1, <3>2, <3>3
    <2> QED
      BY <2>2, <2>3
  <1>9. ASSUME NEW p \in Procs, ProcessStep(p), CleanupPath(p) PROVE SharedInv' /\ Mapped
    <2>1. /\ pc[p] = "rmpath" /\ target[p] = 0 /\ pc'[p] = "idle" /\ stage'[p] = Absent
          /\ UNCHANGED fresh
      BY <1>0, <1>9 DEF CleanupPath, Return, TypeOK, SharedInv, Creating
    <2>2. CallOf[p] = Shared!Ending /\ Shared!Now(p, Shared!NoCall)
      BY <1>9, <2>1, OwnCall, PendingIs
    <2>3. CASE RemovesPath(p)
      <3>1. path' = Absent /\ disk' = disk \cup {Absent}
        BY <2>3 DEF RemovesPath
      <3>2. SharedInv'
        BY <1>9, <2>1, <3>1, SharedKept
      <3>3. Shared!Withdraw(p)
        BY <2>2, <3>1, SharedNames DEF Shared!Withdraw, Shared!Become
      <3> QED
        BY <1>a, <3>2, <3>3 DEF Seen
    <2>4. CASE UNCHANGED <<path, disk>>
      <3>1. SharedInv'
        BY <1>9, <2>1, <2>4, SharedKept
      <3>2. Shared!GiveUp(p)
        BY <2>2, <2>4 DEF Shared!GiveUp
      <3> QED
        BY <1>a, <3>1, <3>2 DEF Seen
    <2> QED
      BY <1>9, <2>3, <2>4 DEF CleanupPath
  <1>10. ASSUME NEW p \in Procs, ProcessStep(p), Kill(p) PROVE SharedInv' /\ Mapped
    <2>1. pc'[p] = "idle" /\ stage'[p] = Absent /\ UNCHANGED <<path, disk, fresh>>
      BY <1>0, <1>10 DEF Kill, Return, TypeOK
    <2>2. SharedInv'
      BY <1>10, <2>1, SharedKept
    <2>3. Shared!Now(p, Shared!NoCall)
      BY <1>10, <2>1, OwnCall, PendingIs
    <2>4. Shared!GiveUp(p)
      BY <2>1, <2>3 DEF Shared!GiveUp
    <2> QED
      BY <1>a, <2>2, <2>4 DEF Seen
  <1>11. CASE PowerLoss
    <2>1. /\ path' \in disk /\ disk' = {path'} /\ fresh' = fresh
          /\ pc' = [p \in Procs |-> "idle"] /\ stage' = [p \in Procs |-> Absent]
      BY <1>11 DEF PowerLoss
    <2>2. \A img \in disk' \cup {path'} : DrawnBy(img, fresh)
      BY <2>1 DEF SharedInv
    <2>3. SharedInv'
      BY <1>b, <2>1, <2>2, DrawnFacts DEF SharedInv, DrawnBy
    <2>4. CallOf' = [p \in Procs |-> Shared!NoCall]
      BY <2>1, PendingIs DEF CallOf
    <2>5. Shared!Lose
      BY <2>1, <2>4 DEF Shared!Lose
    <2> QED
      BY <2>3, <2>5 DEF Shared!SharedNext, Mapped
  <1>12. CASE UNCHANGED vars
    BY <1>12 DEF vars, callVars, SharedInv, DrawnBy, Creating, CallOf, Mapped
  <1> QED
    BY <1>1, <1>2, <1>3, <1>4, <1>5, <1>6, <1>7, <1>8, <1>9, <1>10, <1>11, <1>12
       DEF Next, ProcessStep, CreateStep, MutationStep, PersistStep, Cleanup, Mapped

\* Whatever processes use one path, and whichever of their system calls fail, are killed
\* or lose power, the store implements the shared vault.
THEOREM SharedRefines == Spec => ImplementsSharedVault
  <1>1. Inv /\ SharedInv /\ [Next]_vars => SharedInv'
    BY SharedStep
  <1>2. Inv /\ SharedInv /\ [Next]_vars => [Shared!SharedNext]_<<path, disk, CallOf>>
    BY SharedStep
  <1> QED
    BY <1>1, <1>2, InitShared, Invariance, PTL
       DEF Spec, ImplementsSharedVault, Shared!SharedSpec, Shared!svars
=============================================================================
