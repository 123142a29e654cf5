----------------------------- MODULE VaultImage -----------------------------
(***************************************************************************)
(* What a vault file can hold, as far as the persistence path and the item *)
(* store tell contents apart: nothing, the empty file create() claims the  *)
(* path with, a torn file, or a complete serialized vault.                 *)
(*                                                                         *)
(* The record table of a complete vault maps a record id to the entry kind *)
(* (item, tombstone) and the revision that wrote it.  The table rejects    *)
(* duplicate ids (open_sealed_record_table_v2), so a function is exact;    *)
(* byte layout and encryption are abstracted.                              *)
(*                                                                         *)
(* 128-bit CSPRNG identifiers are modelled by the number of the API call   *)
(* that drew them: call n draws vault id, record id, revision id and temp  *)
(* file seed n.  They are distinct by assumption, as in the code.          *)
(***************************************************************************)
EXTENDS Naturals

CONSTANT MaxCalls   \* bound: identifier-drawing API calls in one behaviour

ASSUME MaxCallsAssumption == MaxCalls \in Nat \ {0}

Calls == 1 .. MaxCalls

(***************************************************************************)
(* A table entry: RecordTableEntry without frame_offset and frame_len.     *)
(***************************************************************************)
Record == [kind : {"none", "item", "tombstone"}, rev : 0 .. MaxCalls]

NoRecord == [kind |-> "none", rev |-> 0]
Item(n) == [kind |-> "item", rev |-> n]

\* Bug form: a record kind the table parser does not know.
UnknownKind(n) == [kind |-> "unknown", rev |-> n]

Tombstone(n) == [kind |-> "tombstone", rev |-> n]

Table == [Calls -> Record]

EmptyTable == [i \in Calls |-> NoRecord]

Image ==
    [kind : {"absent", "empty", "torn", "vault"}, vid : 0 .. MaxCalls, recs : Table]

Absent == [kind |-> "absent", vid |-> 0, recs |-> EmptyTable]
Empty == [kind |-> "empty", vid |-> 0, recs |-> EmptyTable]
Torn == [kind |-> "torn", vid |-> 0, recs |-> EmptyTable]

NewVault(n) == [kind |-> "vault", vid |-> n, recs |-> EmptyTable]

(***************************************************************************)
(* Staging (stage_records): one entry is replaced in place or appended,    *)
(* every other entry keeps its frame verbatim.                             *)
(***************************************************************************)
StageRecord(img, id, rec) == [img EXCEPT !.recs = [@ EXCEPT ![id] = rec]]

LiveItem(img, id) == img.recs[id].kind = "item"
IsTombstoned(img, id) == img.recs[id].kind = "tombstone"

\* An item appears with a revision of its own, may be revised, and may become a
\* tombstone, which is final; revisions of a record only grow.
LegalRevision(old, new) ==
    /\ old.kind # "tombstone"
    /\ old.kind = "none" => new.kind = "item"
    /\ new.kind # "none"
    /\ new.rev > old.rev
=============================================================================
