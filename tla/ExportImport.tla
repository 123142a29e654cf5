---------------------------- MODULE ExportImport ----------------------------
(***************************************************************************)
(* Encrypted export and import (export.rs) on top of the item store.       *)
(*                                                                         *)
(* export() lists the live items once and then reads them one by one, each *)
(* read loading the vault file again, while another process may change the *)
(* vault.  import() authenticates a whole bundle, adds its items one by    *)
(* one and deletes what it added if an add fails.                          *)
(*                                                                         *)
(* An add or a delete is atomic (module AtomicVault) but has three         *)
(* outcomes: Ok, Err with nothing changed, and Err although the rename was *)
(* done (a failing fsync_parent).  Either call may be killed between any   *)
(* two of them; import() keeps no record of what it was doing.  A bundle   *)
(* is symbolic: it is exactly the sequence of items sealed into it, or     *)
(* does not authenticate.                                                  *)
(***************************************************************************)
EXTENDS Naturals, Sequences, FiniteSets, Functions

CONSTANTS
    Ids,                \* item ids of the source vault, in table order
    MaxRev,             \* bound: revisions of one source item
    MaxExportItemCount, \* MAX_EXPORT_ITEM_COUNT, checked by import only
    MaxImports,         \* bound: import() calls
    WriterActive,       \* whether another process changes the source vault
    AddFailures         \* subset of {"before", "after"} the rename

ASSUME IdsAssumption == Ids \subseteq Nat /\ IsFiniteSet(Ids)
ASSUME BoundsAssumption == {MaxRev, MaxExportItemCount, MaxImports} \subseteq Nat
ASSUME FailuresAssumption == WriterActive \in BOOLEAN /\ AddFailures \subseteq {"before", "after"}

VARIABLES
    source,     \* source vault: revision and liveness of each item
    epc,        \* exporter: "idle" or "read"
    todo,       \* summaries it still has to read
    out,        \* items it has serialized
    moments,    \* history: live sets of the source since the export listed it
    bundle,     \* the last bundle written, with the moments of its export
    ipc,        \* importer: "idle", "add" or "rollback"
    queue,      \* items still to add
    undo,       \* records still to delete in a rollback
    imported,   \* imported_ids
    target,     \* target vault: the records of each import() call
    calls,      \* import() calls so far
    result      \* what each import() call returned

exportVars == <<epc, todo, out, moments, bundle>>
importVars == <<ipc, queue, undo, imported, target, calls, result>>
vars == <<source, exportVars, importVars>>

NoBundle == [items |-> <<>>, moments |-> {}, sealed |-> FALSE]

LiveItems(src) == {[id |-> i, rev |-> src[i].rev] : i \in {j \in Ids : src[j].live}}

Init ==
    /\ source = [i \in Ids |-> [rev |-> 1, live |-> TRUE]]
    /\ epc = "idle" /\ todo = <<>> /\ out = <<>> /\ moments = {} /\ bundle = NoBundle
    /\ ipc = "idle" /\ queue = <<>> /\ undo = <<>> /\ imported = <<>>
    /\ target = [n \in 1 .. MaxImports |-> {}]
    /\ calls = 0
    /\ result = [n \in 1 .. MaxImports |-> "none"]

-----------------------------------------------------------------------------
(***************************************************************************)
(* Another process updates or deletes an item of the source vault.         *)
(***************************************************************************)
WriteItem(live) ==
    /\ WriterActive
    /\ \E i \in Ids :
        /\ source[i].live
        /\ source[i].rev < MaxRev
        /\ source' = [source EXCEPT ![i] = [rev |-> @.rev + 1, live |-> live]]
    /\ moments' = IF epc = "idle" THEN {} ELSE moments \cup {LiveItems(source')}
    /\ UNCHANGED <<epc, todo, out, bundle, importVars>>

UpdateItem == WriteItem(TRUE)
DeleteItem == WriteItem(FALSE)

(***************************************************************************)
(* export and serialize_live_item_set.                                     *)
(***************************************************************************)
LiveIds == {i \in Ids : source[i].live}

\* The members of S in table order (one sequence).
Ordered(S) ==
    {s \in [1 .. Cardinality(S) -> S] :
        Range(s) = S /\ \A j, k \in DOMAIN s : j < k => s[j] < s[k]}

ListLive ==
    /\ epc = "idle"
    /\ ~bundle.sealed
    /\ epc' = "read"
    /\ todo' \in Ordered(LiveIds)
    /\ out' = <<>>
    /\ moments' = {LiveItems(source)}
    /\ UNCHANGED <<source, bundle, importVars>>

EndExport == epc' = "idle" /\ todo' = <<>> /\ out' = <<>> /\ moments' = {}

\* Bug form: the record kind is not looked at, a tombstone is exported.
WithItemAnyKind ==
    /\ epc = "read" /\ todo # <<>>
    /\ out' = Append(out, [id |-> Head(todo), rev |-> source[Head(todo)].rev])
    /\ todo' = Tail(todo)
    /\ UNCHANGED <<source, epc, moments, bundle, importVars>>

WithItem ==
    /\ epc = "read" /\ todo # <<>>
    /\ source[Head(todo)].live
    /\ out' = Append(out, [id |-> Head(todo), rev |-> source[Head(todo)].rev])
    /\ todo' = Tail(todo)
    /\ UNCHANGED <<source, epc, moments, bundle, importVars>>

\* Bug form: an item that is gone is looked up again instead of failing.
RetryItem ==
    /\ epc = "read" /\ todo # <<>>
    /\ ~source[Head(todo)].live
    /\ UNCHANGED vars

\* The item was deleted after list(): with_item returns NotFound.
ItemGone ==
    /\ epc = "read" /\ todo # <<>>
    /\ ~source[Head(todo)].live
    /\ EndExport
    /\ UNCHANGED <<source, bundle, importVars>>

\* Any other error while the items are read, or a kill: no bundle comes of it.
ExportAborted ==
    /\ epc = "read"
    /\ EndExport
    /\ UNCHANGED <<source, bundle, importVars>>

SealBundle ==
    /\ epc = "read" /\ todo = <<>>
    /\ bundle' = [items |-> out, moments |-> moments, sealed |-> TRUE]
    /\ EndExport
    /\ UNCHANGED <<source, importVars>>

-----------------------------------------------------------------------------
(***************************************************************************)
(* import.  Records of the n-th call are named by their position.          *)
(***************************************************************************)
Returns(outcome) ==
    /\ ipc' = "idle" /\ queue' = <<>> /\ undo' = <<>> /\ imported' = <<>>
    /\ result' = [result EXCEPT ![calls] = outcome]

\* deserialize_item_set over a decrypted bundle: the count limit.
DeserializesItemSet == Len(bundle.items) <= MaxExportItemCount

\* UntrustedExportBundle::authenticate decrypts and parses everything first.
Authenticate ==
    /\ ipc = "idle"
    /\ bundle.sealed
    /\ calls < MaxImports
    /\ DeserializesItemSet
    /\ calls' = calls + 1
    /\ ipc' = "add"
    /\ queue' = bundle.items
    /\ UNCHANGED <<source, exportVars, undo, imported, target, result>>

NewRecord == Len(imported) + 1

AddOk ==
    /\ ipc = "add" /\ queue # <<>>
    /\ target' = [target EXCEPT ![calls] = @ \cup {<<NewRecord, Head(queue)>>}]
    /\ imported' = Append(imported, NewRecord)
    /\ queue' = Tail(queue)
    /\ UNCHANGED <<source, exportVars, ipc, undo, calls, result>>

\* Bug form: the failed import returns without deleting what it added.
AddFailsNoRollback ==
    /\ ipc = "add" /\ queue # <<>>
    /\ "before" \in AddFailures
    /\ Returns("rolled back")
    /\ UNCHANGED <<source, exportVars, target, calls>>

\* Bug form: an item that cannot be added is skipped.
AddFailsSkipped ==
    /\ ipc = "add" /\ queue # <<>>
    /\ "before" \in AddFailures
    /\ queue' = Tail(queue)
    /\ UNCHANGED <<source, exportVars, ipc, undo, imported, target, calls, result>>

AddFails ==
    /\ ipc = "add" /\ queue # <<>>
    /\ \/ "before" \in AddFailures /\ UNCHANGED target
       \/ "after" \in AddFailures
          /\ target' = [target EXCEPT ![calls] = @ \cup {<<NewRecord, Head(queue)>>}]
    /\ ipc' = "rollback"
    /\ undo' = imported
    /\ UNCHANGED <<source, exportVars, queue, imported, calls, result>>

ImportDone ==
    /\ ipc = "add" /\ queue = <<>>
    /\ Returns("ok")
    /\ UNCHANGED <<source, exportVars, target, calls>>

WithoutHead == {t \in target[calls] : t[1] # Head(undo)}

\* Bug form: the loop does not advance; deleting a tombstone again is Ok.
DeleteSameAgain ==
    /\ ipc = "rollback" /\ undo # <<>>
    /\ target' = [target EXCEPT ![calls] = WithoutHead]
    /\ UNCHANGED <<source, exportVars, ipc, queue, undo, imported, calls, result>>

DeleteOk ==
    /\ ipc = "rollback" /\ undo # <<>>
    /\ target' = [target EXCEPT ![calls] = WithoutHead]
    /\ undo' = Tail(undo)
    /\ UNCHANGED <<source, exportVars, ipc, queue, imported, calls, result>>

\* `all` stops at the first delete that fails.
DeleteFails ==
    /\ ipc = "rollback" /\ undo # <<>>
    /\ \/ "before" \in AddFailures /\ UNCHANGED target
       \/ "after" \in AddFailures /\ target' = [target EXCEPT ![calls] = WithoutHead]
    /\ Returns("partial")
    /\ UNCHANGED <<source, exportVars, calls>>

RolledBack ==
    /\ ipc = "rollback" /\ undo = <<>>
    /\ Returns("rolled back")
    /\ UNCHANGED <<source, exportVars, target, calls>>

\* The importing process is killed: what it has added, or not yet deleted, stays.
KillImport ==
    /\ ipc # "idle"
    /\ Returns("killed")
    /\ UNCHANGED <<source, exportVars, target, calls>>

ExportProgress == WithItem \/ ItemGone \/ SealBundle
ImportProgress == AddOk \/ ImportDone \/ DeleteOk \/ RolledBack

Next ==
    \/ UpdateItem \/ DeleteItem
    \/ ListLive \/ ExportProgress \/ ExportAborted
    \/ Authenticate \/ ImportProgress \/ AddFails \/ DeleteFails \/ KillImport

Spec == Init /\ [][Next]_vars

\* A call that was started keeps running, it waits for nothing; no call has to
\* be started and nothing has to fail.
FairSpec == Spec /\ WF_vars(ExportProgress) /\ WF_vars(ImportProgress)

-----------------------------------------------------------------------------
(***************************************************************************)
(* Properties.                                                             *)
(***************************************************************************)
ImportedItems(n) == {t[2] : t \in target[n]}

\* import(): Ok means that exactly the bundle's items were added, each once; an
\* error that reports a successful rollback means that none of them is left.
\* Anything else must be reported as PartialImport.
AllOrNothing(n) ==
    /\ result[n] = "ok" =>
        /\ ImportedItems(n) = Range(bundle.items)
        /\ Cardinality(target[n]) = Len(bundle.items)
    /\ result[n] = "rolled back" => target[n] = {}

ImportAllOrNothing == \A n \in 1 .. calls : AllOrNothing(n)

\* import() adds a bundle from its first item on and undoes it from there: whatever
\* fails before or after its rename, and wherever the process is killed, what an
\* import has put into the vault is at every moment one stretch of the bundle, in
\* which no item is missing, none is there twice and none is another's.
Stretch(items, from, to) == {<<j, items[j]>> : j \in from .. to}

LeavesStretch(n) ==
    \E from \in 1 .. Len(bundle.items) + 1, to \in 0 .. Len(bundle.items) :
        target[n] = Stretch(bundle.items, from, to)

ImportLeavesStretch == \A n \in 1 .. calls : LeavesStretch(n)

\* export() under a concurrent writer: every exported item was live, with the
\* exported revision, at some moment of the export, no item twice, and every item
\* that was live and unchanged throughout is there.
ExportSound ==
    bundle.sealed =>
        /\ Range(bundle.items) \subseteq UNION bundle.moments
        /\ IsInjective([k \in DOMAIN bundle.items |-> bundle.items[k].id])
        /\ {x \in UNION bundle.moments : \A m \in bundle.moments : x \in m}
             \subseteq Range(bundle.items)

\* Why ExportSound holds, as an invariant: of an export with the items o written,
\* the ids t still to read, and M the live sets of the source since the listing.
Sound(o, t, M) ==
    /\ \A k \in DOMAIN o : \E m \in M : o[k] \in m
    /\ \A j, k \in DOMAIN o : o[j].id = o[k].id => j = k
    /\ \A j, k \in DOMAIN t : t[j] = t[k] => j = k
    /\ \A j \in DOMAIN o, k \in DOMAIN t : o[j].id # t[k]
    /\ \A x \in UNION M :
        (\A m \in M : x \in m) =>
            \/ \E k \in DOMAIN t : t[k] = x.id
            \/ \E k \in DOMAIN o : o[k] = x

Items == [id : Ids, rev : Nat]

ExportTypes ==
    /\ source \in [Ids -> [rev : Nat, live : BOOLEAN]]
    /\ epc \in {"idle", "read"}
    /\ todo \in Seq(Ids) /\ out \in Seq(Items)
    /\ moments \subseteq SUBSET Items
    /\ bundle \in [items : Seq(Items), moments : SUBSET SUBSET Items, sealed : BOOLEAN]

ExportInv ==
    /\ ExportTypes
    /\ epc = "read" => /\ ~bundle.sealed
                       /\ LiveItems(source) \in moments
                       /\ Sound(out, todo, moments)
    /\ bundle.sealed => Sound(bundle.items, <<>>, bundle.moments)

\* Why ImportLeavesStretch holds, and ImportAllOrNothing when no failing add renames:
\* the records of the running call are those of the first Len(imported) items, and
\* a rollback that has deleted the first d has still to delete every record there
\* is, but for the one that an add may have left although it failed.
Records == Nat \X Items
Outcomes == {"none", "ok", "rolled back", "partial", "killed"}

ImportTypes ==
    /\ ipc \in {"idle", "add", "rollback"}
    /\ queue \in Seq(Items)
    /\ undo \in Seq(Nat) /\ imported \in Seq(Nat)
    /\ target \in [1 .. MaxImports -> SUBSET Records]
    /\ calls \in 0 .. MaxImports
    /\ result \in [1 .. MaxImports -> Outcomes]

AddRunning ==
    /\ Len(imported) + Len(queue) = Len(bundle.items)
    /\ \A j \in 1 .. Len(queue) : queue[j] = bundle.items[Len(imported) + j]
    /\ \A j \in 1 .. Len(imported) : imported[j] = j
    /\ target[calls] = Stretch(bundle.items, 1, Len(imported))

RollbackFrom(d, last) ==
    /\ \A m \in 1 .. Len(undo) : undo[m] = d + m
    /\ last \in {d + Len(undo), d + Len(undo) + 1}
    /\ last <= Len(bundle.items)
    /\ "after" \notin AddFailures => last = d + Len(undo)
    /\ target[calls] = Stretch(bundle.items, d + 1, last)

RollbackRunning == \E d, last \in Nat : RollbackFrom(d, last)

CallSound(n) == LeavesStretch(n) /\ ("after" \notin AddFailures => AllOrNothing(n))
CallsSound == \A n \in 1 .. calls : CallSound(n)

NotYetCalled ==
    \A n \in 1 .. MaxImports : n > calls => target[n] = {} /\ result[n] = "none"

ImportInv ==
    /\ ImportTypes
    /\ calls > 0 => bundle.sealed
    /\ ipc = "idle" => imported = <<>>
    /\ ipc # "idle" => calls > 0 /\ result[calls] = "none"
    /\ ipc = "add" => AddRunning
    /\ ipc = "rollback" => RollbackRunning
    /\ NotYetCalled
    /\ CallsSound

\* An export comes to an end, with a bundle or an error, however often the other
\* process changes the vault meanwhile: the list is read once, not retried.
ExportEnds == (epc = "read") ~> (epc = "idle")

\* An import comes to an end with one of its three outcomes.
ImportEnds == (ipc # "idle") ~> (ipc = "idle")
=============================================================================
