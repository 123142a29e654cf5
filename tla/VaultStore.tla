----------------------------- MODULE VaultStore -----------------------------
(***************************************************************************)
(* The vault engine's persistence path (vault/engine.rs) and the item      *)
(* store on top of it (item/store.rs), run by several processes that share *)
(* one vault path, with I/O failures at every system call, killed          *)
(* processes and power loss.                                               *)
(*                                                                         *)
(* Every mutation is a read-modify-write: the table is loaded once, a new  *)
(* image is staged, and the image replaces the file through               *)
(* temp -> fsync -> rename -> fsync parent.  No lock is held between load  *)
(* and rename.                                                             *)
(*                                                                         *)
(* The file system: `path` is what open(2) sees; `disk` is the set of      *)
(* directory states a power loss may leave, i.e. every state of the entry  *)
(* since the parent directory was last synced.  A file renamed into place  *)
(* before its own fsync may come back torn.                                *)
(***************************************************************************)
EXTENDS VaultImage, FiniteSets

CONSTANTS
    Procs,      \* processes using the vault path
    Faults,     \* system calls that may fail, named by the step that issues them
    Crashes     \* subset of {"kill", "power"}

Syscalls == {"open", "write", "sync", "rename", "dirsync", "rmtmp", "rmpath"}

ASSUME FaultsAssumption == Faults \subseteq Syscalls
ASSUME CrashesAssumption == Crashes \subseteq {"kill", "power"}

VARIABLES
    path,       \* content of the vault path
    disk,       \* contents of the path that power loss may leave
    temps,      \* temporary siblings, by the seed of their name
    pc,         \* next system call of each process; "idle" between API calls
    session,    \* vault id whose keys the process holds unlocked, 0 if locked
    seed,       \* call number of the running API call, 0 if none
    target,     \* record id the running call writes, 0 for create()
    stage,      \* vault_bytes of the running call
    fresh,      \* last call number drawn
    acked,      \* history: last record each id was acknowledged with after fsync_parent
    deleted     \* history: ids for which delete() returned Ok

vars == <<path, disk, temps, pc, session, seed, target, stage, fresh, acked, deleted>>
callVars == <<seed, target, stage>>
history == <<acked, deleted>>

Temp == [st : {"none", "partial", "written", "synced"}, img : Image]
NoTemp == [st |-> "none", img |-> Absent]
PartialTemp == [st |-> "partial", img |-> Absent]

TypeOK ==
    /\ path \in Image
    /\ disk \subseteq Image
    /\ temps \in [Calls -> Temp]
    /\ pc \in [Procs -> Syscalls \cup {"idle"}]
    /\ session \in [Procs -> 0 .. MaxCalls]
    /\ seed \in [Procs -> 0 .. MaxCalls]
    /\ target \in [Procs -> 0 .. MaxCalls]
    /\ stage \in [Procs -> Image]
    /\ fresh \in 0 .. MaxCalls
    /\ acked \in [Calls -> Record]
    /\ deleted \subseteq Calls

Init ==
    /\ path = Absent
    /\ disk = {Absent}
    /\ temps = [n \in Calls |-> NoTemp]
    /\ pc = [p \in Procs |-> "idle"]
    /\ session = [p \in Procs |-> 0]
    /\ seed = [p \in Procs |-> 0]
    /\ target = [p \in Procs |-> 0]
    /\ stage = [p \in Procs |-> Absent]
    /\ fresh = 0
    /\ acked = EmptyTable
    /\ deleted = {}

-----------------------------------------------------------------------------
(***************************************************************************)
(* Per-call temporary name: derived from the call's CSPRNG seed.           *)
(***************************************************************************)
\* Bug form: the fixed sibling name path.with_extension("msv.tmp").
SharedTmpPath(n) == 1

UniqueTmpPath(n) == n

TmpOf(p) == temps[UniqueTmpPath(seed[p])]

SetTmp(p, tmp) == temps' = [temps EXCEPT ![UniqueTmpPath(seed[p])] = tmp]

\* What readers see, and what may survive power loss, once a temp is renamed.
Visible(tmp) == IF tmp.st = "partial" THEN Torn ELSE tmp.img
Survivors(tmp) == {Visible(tmp)} \cup (IF tmp.st = "synced" THEN {} ELSE {Torn})

Creating(p) == target[p] = 0

Return(p) ==
    /\ pc' = [pc EXCEPT ![p] = "idle"]
    /\ seed' = [seed EXCEPT ![p] = 0]
    /\ target' = [target EXCEPT ![p] = 0]
    /\ stage' = [stage EXCEPT ![p] = Absent]

Goto(p, step) == pc' = [pc EXCEPT ![p] = step]

\* The running call draws its identifiers and has `img` to persist for `id`.
BeginCall(p, id, img) ==
    /\ fresh' = fresh + 1
    /\ seed' = [seed EXCEPT ![p] = fresh + 1]
    /\ target' = [target EXCEPT ![p] = id]
    /\ stage' = [stage EXCEPT ![p] = img]
    /\ Goto(p, "open")

CanCall(p) == pc[p] = "idle" /\ fresh < MaxCalls

-----------------------------------------------------------------------------
(***************************************************************************)
(* Vault<Locked>::create: derive keys, then claim the path exclusively.    *)
(* A lost claim returns Err before anything is written.                    *)
(***************************************************************************)
\* Bug form: OpenOptions::create(true).truncate(true) instead of create_new.
CreateTruncating(p) ==
    /\ CanCall(p)
    /\ path' = Empty
    /\ disk' = disk \cup {Empty}
    /\ BeginCall(p, 0, NewVault(fresh + 1))
    /\ UNCHANGED <<temps, session, history>>

\* Bug form: the cleanup after a lost claim does not look at target_claimed.
CreateUnownedCleanup(p) ==
    /\ CanCall(p)
    /\ path' = IF path.kind = "absent" THEN Empty ELSE path
    /\ disk' = disk \cup {path'}
    /\ fresh' = fresh + 1
    /\ seed' = [seed EXCEPT ![p] = fresh + 1]
    /\ stage' = [stage EXCEPT ![p] = NewVault(fresh + 1)]
    /\ Goto(p, IF path.kind = "absent" THEN "open" ELSE "rmtmp")
    /\ UNCHANGED <<target, temps, session, history>>

Create(p) ==
    /\ CanCall(p)
    /\ path.kind = "absent"
    /\ path' = Empty
    /\ disk' = disk \cup {Empty}
    /\ BeginCall(p, 0, NewVault(fresh + 1))
    /\ UNCHANGED <<temps, session, history>>

(***************************************************************************)
(* Vault<Locked>::unlock: only a complete vault parses and authenticates.  *)
(***************************************************************************)
Unlock(p) ==
    /\ pc[p] = "idle"
    /\ session[p] = 0
    /\ path.kind = "vault"
    /\ session' = [session EXCEPT ![p] = path.vid]
    /\ UNCHANGED <<path, disk, temps, pc, callVars, fresh, history>>

Lock(p) ==
    /\ pc[p] = "idle"
    /\ session[p] # 0
    /\ session' = [session EXCEPT ![p] = 0]
    /\ UNCHANGED <<path, disk, temps, pc, callVars, fresh, history>>

-----------------------------------------------------------------------------
(***************************************************************************)
(* load_vault reads the file afresh in every call and opens the sealed     *)
(* table under the session's metadata key: only the vault that was         *)
(* unlocked authenticates.                                                 *)
(***************************************************************************)
LoadVault(p) ==
    /\ path.kind = "vault"
    /\ path.vid = session[p]

\* Ids list() returns to process p; with_item() succeeds on exactly these.
List(p) == IF LoadVault(p) THEN {i \in Calls : LiveItem(path, i)} ELSE {}

Add(p) ==
    /\ CanCall(p)
    /\ LoadVault(p)
    /\ BeginCall(p, fresh + 1, StageRecord(path, fresh + 1, Item(fresh + 1)))
    /\ UNCHANGED <<path, disk, temps, session, history>>

\* Bug form: update() looks the id up without checking the record kind.
UpdateAnyKind(p, id) ==
    /\ CanCall(p)
    /\ LoadVault(p)
    /\ path.recs[id].kind # "none"
    /\ BeginCall(p, id, StageRecord(path, id, Item(fresh + 1)))
    /\ UNCHANGED <<path, disk, temps, session, history>>

Update(p, id) ==
    /\ CanCall(p)
    /\ LoadVault(p)
    /\ LiveItem(path, id)
    /\ BeginCall(p, id, StageRecord(path, id, Item(fresh + 1)))
    /\ UNCHANGED <<path, disk, temps, session, history>>

Delete(p, id) ==
    /\ CanCall(p)
    /\ LoadVault(p)
    /\ LiveItem(path, id)
    /\ BeginCall(p, id, StageRecord(path, id, Tombstone(fresh + 1)))
    /\ UNCHANGED <<path, disk, temps, session, history>>

(***************************************************************************)
(* delete() of an id that is already tombstoned returns Ok and writes      *)
(* nothing: no rename, and no fsync of the parent either.                  *)
(***************************************************************************)
DeleteAgain(p, id) ==
    /\ pc[p] = "idle"
    /\ LoadVault(p)
    /\ IsTombstoned(path, id)
    /\ deleted' = deleted \cup {id}
    /\ UNCHANGED <<path, disk, temps, pc, session, callVars, fresh, acked>>

-----------------------------------------------------------------------------
(***************************************************************************)
(* persist_vault_mutation_v2 and the tail of persist_vault_inner: the same *)
(* five system calls.                                                      *)
(***************************************************************************)
OpenTmp(p) ==
    /\ pc[p] = "open"
    /\ TmpOf(p).st = "none"
    /\ SetTmp(p, PartialTemp)
    /\ Goto(p, "write")
    /\ UNCHANGED <<path, disk, session, callVars, fresh, history>>

WriteTmp(p) ==
    /\ pc[p] = "write"
    /\ SetTmp(p, [st |-> "written", img |-> stage[p]])
    /\ Goto(p, "sync")
    /\ UNCHANGED <<path, disk, session, callVars, fresh, history>>

\* Bug form: the temp file is not fsynced before the rename.
SkipSync(p) ==
    /\ pc[p] = "sync"
    /\ Goto(p, "rename")
    /\ UNCHANGED <<path, disk, temps, session, callVars, fresh, history>>

SyncTmp(p) ==
    /\ pc[p] = "sync"
    /\ SetTmp(p, [TmpOf(p) EXCEPT !.st = "synced"])
    /\ Goto(p, "rename")
    /\ UNCHANGED <<path, disk, session, callVars, fresh, history>>

RenameTmp(p) ==
    /\ pc[p] = "rename"
    /\ TmpOf(p).st # "none"
    /\ path' = Visible(TmpOf(p))
    /\ disk' = disk \cup Survivors(TmpOf(p))
    /\ SetTmp(p, NoTemp)
    /\ Goto(p, "dirsync")
    /\ UNCHANGED <<session, callVars, fresh, history>>

\* The call returns Ok: what it wrote is acknowledged.
Acknowledge(p) ==
    IF Creating(p)
    THEN UNCHANGED history
    ELSE LET rec == stage[p].recs[target[p]] IN
         /\ acked' = [acked EXCEPT ![target[p]] = rec]
         /\ deleted' = IF rec.kind = "tombstone" THEN deleted \cup {target[p]} ELSE deleted

\* Bug form: success is returned without syncing the parent directory.
ReturnWithoutDirSync(p) ==
    /\ pc[p] = "dirsync"
    /\ Acknowledge(p)
    /\ Return(p)
    /\ UNCHANGED <<path, disk, temps, session, fresh>>

FsyncParent(p) ==
    /\ pc[p] = "dirsync"
    /\ disk' = {path}
    /\ Acknowledge(p)
    /\ Return(p)
    /\ UNCHANGED <<path, temps, session, fresh>>

(***************************************************************************)
(* A system call fails; the closure returns Err and cleanup starts.        *)
(* create_new fails on an existing name and rename on a missing one.       *)
(***************************************************************************)
StepFails(p) ==
    /\ pc[p] \in {"open", "write", "sync", "rename", "dirsync"}
    /\ \/ pc[p] \in Faults
       \/ pc[p] = "open" /\ TmpOf(p).st # "none"
       \/ pc[p] = "rename" /\ TmpOf(p).st = "none"
    /\ Goto(p, "rmtmp")
    /\ UNCHANGED <<path, disk, temps, session, callVars, fresh, history>>

(***************************************************************************)
(* Error cleanup: remove the call's temp; create() then removes the path   *)
(* it claimed.  remove_file results are ignored.                           *)
(***************************************************************************)
CleanupTmp(p) ==
    /\ pc[p] = "rmtmp"
    /\ \/ SetTmp(p, NoTemp)
       \/ "rmtmp" \in Faults /\ UNCHANGED temps
    /\ IF Creating(p) THEN Goto(p, "rmpath") /\ UNCHANGED callVars ELSE Return(p)
    /\ UNCHANGED <<path, disk, session, fresh, history>>

RemovesPath(p) ==
    /\ pc[p] = "rmpath"
    /\ path' = Absent
    /\ disk' = disk \cup {Absent}

CleanupPath(p) ==
    /\ pc[p] = "rmpath"
    /\ \/ RemovesPath(p)
       \/ "rmpath" \in Faults /\ UNCHANGED <<path, disk>>
    /\ Return(p)
    /\ UNCHANGED <<temps, session, fresh, history>>

-----------------------------------------------------------------------------
(***************************************************************************)
(* Crashes.  Temporary files left behind are never read again: no code     *)
(* looks for them and their names are never drawn again.                   *)
(***************************************************************************)
Litter(tmp) == IF tmp.st = "none" THEN NoTemp ELSE PartialTemp

Kill(p) ==
    /\ "kill" \in Crashes
    /\ pc[p] # "idle"
    /\ temps' = [temps EXCEPT ![UniqueTmpPath(seed[p])] = Litter(@)]
    /\ session' = [session EXCEPT ![p] = 0]
    /\ Return(p)
    /\ UNCHANGED <<path, disk, fresh, history>>

PowerLoss ==
    /\ "power" \in Crashes
    /\ path' \in disk
    /\ disk' = {path'}
    /\ temps' = [n \in Calls |-> Litter(temps[n])]
    /\ pc' = [p \in Procs |-> "idle"]
    /\ session' = [p \in Procs |-> 0]
    /\ seed' = [p \in Procs |-> 0]
    /\ target' = [p \in Procs |-> 0]
    /\ stage' = [p \in Procs |-> Absent]
    /\ UNCHANGED <<fresh, history>>

PersistStep(p) ==
    OpenTmp(p) \/ WriteTmp(p) \/ SyncTmp(p) \/ RenameTmp(p) \/ FsyncParent(p)

\* The tail of persist_vault_inner, and the closure of persist_vault_mutation_v2.
CreateStep(p) == Creating(p) /\ PersistStep(p)
MutationStep(p) == ~Creating(p) /\ PersistStep(p)

Cleanup(p) == StepFails(p) \/ CleanupTmp(p) \/ CleanupPath(p)

ProcessStep(p) ==
    \/ Create(p) \/ Unlock(p) \/ Lock(p) \/ Add(p)
    \/ \E id \in Calls : Update(p, id) \/ Delete(p, id) \/ DeleteAgain(p, id)
    \/ CreateStep(p) \/ MutationStep(p) \/ Cleanup(p) \/ Kill(p)

Next == PowerLoss \/ \E p \in Procs : ProcessStep(p)

Spec == Init /\ [][Next]_vars

-----------------------------------------------------------------------------
BeforeRename == {"open", "write", "sync", "rename"}

\* A create() that has claimed the path and not completed the vault there.
Claiming(p) == Creating(p) /\ pc[p] \in BeforeRename \cup {"rmtmp", "rmpath"}

(***************************************************************************)
(* Properties.                                                             *)
(***************************************************************************)
\* CONTRACT G-01, vault writes are crash-safe: whatever interleaving, failed
\* system call or power loss, the vault path never holds a torn file, and no
\* power loss can leave one there (the temp is fsynced before its rename).
NoTornVault == \A img \in disk \cup {path} : img.kind # "torn"

\* persist_vault: the per-call unique temp name "prevents a failed concurrent
\* writer from deleting another writer's in-flight temp file".  While a call is
\* between creating its temp and renaming it, no step of another process, its
\* error cleanup included, touches that temp.
OthersKeepTemps ==
    \A p \in Procs :
        pc[p] \in {"write", "sync", "rename"} /\ pc'[p] = pc[p] => TmpOf(p)' = TmpOf(p)

TempsPrivate == [][OthersKeepTemps]_vars

\* persist_vault's exclusive claim is the no-overwrite gate: once a vault is at
\* the path, it stays there and only revisions of the same vault (same vault_id)
\* replace it, whatever create() calls race with it.  (For no power loss and no
\* failing fsync_parent: create() then removes what it finds at the path it claimed.)
VaultNeverReplaced ==
    [][path.kind = "vault" => path'.kind = "vault" /\ path'.vid = path.vid]_path

\* persist_vault: cleanup removes "the target only if this call won the create-new
\* claim", and a claim whose create crashed is fail-safe.  Until its vault is there
\* the empty file at the path has one owner; only that create completes it or takes
\* it away, and once the owner is killed no call ever does.  (For no power loss and
\* no failing fsync_parent.)
OwnerEndsClaim ==
    \E p \in Procs :
        /\ \A q \in Procs : Claiming(q) <=> q = p
        /\ pc'[p] # pc[p]
        /\ path' \in {stage[p], Absent}

ClaimEndsByOwner == [][path = Empty => OwnerEndsClaim]_path

\* Durability of acknowledged writes: for every id whose add, update or delete
\* went through fsync_parent and returned Ok, the vault at the path, and every
\* vault a power loss may leave, has that revision of the record or a later one.
AckedDurable ==
    \A id \in Calls :
        acked[id].kind # "none" =>
            \A img \in disk \cup {path} :
                img.kind = "vault" /\ img.recs[id].rev >= acked[id].rev

\* delete()'s contract: "After success, `list` omits the deleted item and
\* `with_item` returns `Err` for `item_id`".
DeletedUnreadable == \A p \in Procs : List(p) \cap deleted = {}

(***************************************************************************)
(* The single-user promise: the path is the abstract vault, `disk` what may *)
(* survive power loss.                                                     *)
(***************************************************************************)
Abstract == INSTANCE AtomicVault WITH vault <- path, stable <- disk

\* A process that uses the vault alone implements the atomic vault: every API
\* call changes at most one record, at its rename, from the state it had when it
\* was loaded, in spite of failed system calls, kills and power loss in between.
ImplementsAtomicVault == Abstract!AbstractSpec

(***************************************************************************)
(* The promise to processes that share the path.  Until its rename a call  *)
(* is going to put its stage there; from then on a create may still remove *)
(* what it finds.                                                          *)
(***************************************************************************)
Pending(step, id, img) ==
    IF step \in BeforeRename THEN [does |-> IF id = 0 THEN "make" ELSE "edit", img |-> img]
    ELSE [does |-> IF step # "idle" /\ id = 0 THEN "withdraw" ELSE "nothing", img |-> Absent]

CallOf == [p \in Procs |-> Pending(pc[p], target[p], stage[p])]

Shared == INSTANCE SharedVault
            WITH Users <- Procs, vault <- path, stable <- disk, call <- CallOf

\* Whatever processes, failures and crashes: a call changes the vault at its rename
\* only, from what it loaded by one legal revision, so that all it can undo is what
\* others committed since.
ImplementsSharedVault == Shared!SharedSpec

-----------------------------------------------------------------------------
(***************************************************************************)
(* The inductive invariants behind the properties above.                   *)
(***************************************************************************)
\* A running call holds identifiers that were drawn, and a complete image.
CallsOK ==
    \A p \in Procs : pc[p] # "idle" =>
        seed[p] \in 1 .. fresh /\ stage[p].kind = "vault"

\* Two running calls never share their identifiers.
SeedsDistinct ==
    \A p, q \in Procs :
        p # q /\ pc[p] # "idle" /\ pc[q] # "idle" => seed[p] # seed[q]

\* A call that is about to sync or rename its temp finds its own image in it.
TempsOK ==
    \A p \in Procs :
        /\ pc[p] = "sync" => TmpOf(p) = [st |-> "written", img |-> stage[p]]
        /\ pc[p] = "rename" => TmpOf(p) = [st |-> "synced", img |-> stage[p]]

\* The strengthening of NoTornVault that every step preserves.
Inv == TypeOK /\ CallsOK /\ SeedsDistinct /\ TempsOK /\ NoTornVault

Solo == \A p, q \in Procs : p = q

\* While the only process creates the vault, nothing was acknowledged and the
\* path holds its claim or its new, empty vault.
CreateAlone(p) ==
    /\ path.recs = EmptyTable
    /\ stage[p] = NewVault(seed[p])
    /\ \A id \in Calls : acked[id].kind = "none"
    /\ pc[p] \in BeforeRename => path = Empty

\* While the only process rewrites the vault, its stage is one legal revision of
\* the vault still at the path, or already is the vault at the path.
MutateAlone(p) ==
    /\ target[p] \in 1 .. fresh
    /\ pc[p] # "rmpath"
    /\ pc[p] = "dirsync" => path = stage[p]
    /\ pc[p] \in BeforeRename =>
        /\ path.kind = "vault"
        /\ path.recs[target[p]].rev < seed[p]
        /\ \E rec \in Record :
            /\ rec.rev = seed[p]
            /\ LegalRevision(path.recs[target[p]], rec)
            /\ stage[p] = StageRecord(path, target[p], rec)

\* The strengthening of AckedDurable for a process that uses the vault alone.
SoloInv ==
    /\ path \in disk
    /\ \A img \in disk : \A id \in Calls :
        img.recs[id].rev <= fresh /\ (id > fresh => img.recs[id] = NoRecord)
    /\ \A p \in Procs : pc[p] # "idle" =>
        IF Creating(p) THEN CreateAlone(p) ELSE MutateAlone(p)
    /\ AckedDurable

\* The strengthening of VaultNeverReplaced: a claim is exclusive and what is at the
\* path is the claim; a mutation persists the vault that is at the path.
ClaimInv ==
    /\ \A p \in Procs : Claiming(p) => path = Empty
    /\ \A p, q \in Procs : Claiming(p) /\ Claiming(q) => p = q
    /\ \A p \in Procs :
        /\ pc[p] = "rmpath" => Creating(p)
        /\ pc[p] \in BeforeRename /\ ~Creating(p) =>
            path.kind = "vault" /\ stage[p].vid = path.vid

\* No record of `img` was drawn by a call after the n-th.
DrawnBy(img, n) ==
    \A id \in Calls : img.recs[id].rev <= n /\ (id > n => img.recs[id] = NoRecord)

\* The strengthening of ImplementsSharedVault: the revision a call draws is new to
\* every vault there is or will be, and only a create removes the path.
SharedInv ==
    /\ \A img \in disk \cup {path} : DrawnBy(img, fresh)
    /\ \A p \in Procs : DrawnBy(stage[p], fresh)
    /\ \A p \in Procs : pc[p] = "rmpath" => Creating(p)
=============================================================================
