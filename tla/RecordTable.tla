----------------------------- MODULE RecordTable -----------------------------
(***************************************************************************)
(* The layout of a V2 vault file: rewrite_vault and stage_records          *)
(* (item/store.rs) place the sealed record table and the frames;           *)
(* open_sealed_record_table_v2 (vault/format.rs), existing_frame_bytes and *)
(* read_item find them again.                                              *)
(*                                                                         *)
(* A file is its sections in file order: prefix and header, the wrapped    *)
(* root key frame, the sealed table, the record frames.  A section or a    *)
(* frame is what it encodes and the number of bytes it takes; lengths are  *)
(* the format's own numbers.  The loop of rewrite_vault takes a step for   *)
(* each record.  A rewrite runs to completion: crashes and concurrent      *)
(* writers are VaultStore's subject.                                       *)
(***************************************************************************)
EXTENDS Naturals, Sequences, FiniteSets, Functions

CONSTANTS
    WrkEnd,             \* end of the header and the wrapped root key frame
    SecretLens,         \* lengths of the secrets items are written with
    MaxSecretLen,       \* MAX_SECRET_LEN
    MaxVaultFileLen,    \* MAX_VAULT_FILE_LEN
    MaxRecords,         \* bound: records in the table
    MaxWrites           \* bound: mutations in one behaviour

\* Bucket sizes up to the first that no file within MAX_VAULT_FILE_LEN can fill.
PowersOfTwo == {1, 2, 4, 8, 16, 32, 64, 128, 256, 512, 1024, 2048, 4096, 8192, 16384,
                32768, 65536, 131072, 262144, 524288}
LargestBucket == 524288

ASSUME LayoutAssumption ==
    /\ {WrkEnd, MaxSecretLen, MaxVaultFileLen, MaxRecords, MaxWrites} \subseteq Nat
    /\ MaxRecords <= LargestBucket
    /\ SecretLens \subseteq Nat

VARIABLES
    file,       \* the vault file
    unlocked,   \* whether a session holds the keys
    rewrite,    \* the running rewrite_vault: its records and what its loop has made
    writes,     \* mutations so far; the n-th draws revision id n
    contents    \* history: for each record id, what was last written for it

vars == <<file, unlocked, rewrite, writes, contents>>

EntryLen == 46          \* RECORD_TABLE_ENTRY_LEN
CountLen == 4           \* RECORD_TABLE_COUNT_LEN
NonceLen == 24
TagLen == 16
AadLen == 79

-----------------------------------------------------------------------------
(***************************************************************************)
(* Frames.  The plaintext payload is kind, label, tags and secret, each    *)
(* with its length; label and tags are empty here.  An item frame holds    *)
(* the wrapped record key and the sealed payload, a tombstone frame an     *)
(* empty ciphertext.                                                       *)
(***************************************************************************)
PayloadLen(secret) == 2 + 4 + 4 + 4 + secret
EnvelopeLen(secret) == NonceLen + 4 + (32 + TagLen) + NonceLen + 4 + (PayloadLen(secret) + TagLen)
RecordFrameLen(ciphertext) == (2 + 16 + 16 + 2 + 1) + NonceLen + 4 + AadLen + 4 + ciphertext

ItemFrame(id, rev, secret) ==
    [kind |-> "item", id |-> id, rev |-> rev, secret |-> secret,
     len |-> RecordFrameLen(EnvelopeLen(secret))]

TombstoneFrame(id, rev) ==
    [kind |-> "tombstone", id |-> id, rev |-> rev, secret |-> 0, len |-> RecordFrameLen(0)]

\* Bytes that are not one whole frame.
Garbage(len) == [kind |-> "garbage", id |-> 0, rev |-> 0, secret |-> 0, len |-> len]

\* A string of frames one after the other: its length, and where each begins in it.
NoBytes == [len |-> 0, pieces |-> <<>>]
Extend(bytes, frame) ==
    [len |-> bytes.len + frame.len,
     pieces |-> Append(bytes.pieces, [start |-> bytes.len, frame |-> frame])]

-----------------------------------------------------------------------------
(***************************************************************************)
(* The sealed table: entry count and entries, padded with zeros to a power *)
(* of two of entries, sealed, and prefixed with its length.                *)
(***************************************************************************)
\* Bug form: room for the entries only, no padding bucket.
ExactCapacity(n) == IF n = 0 THEN 1 ELSE n

\* checked_next_power_of_two; an empty table gets room for one entry.
BucketCapacity(n) ==
    CHOOSE c \in PowersOfTwo : c >= n /\ \A d \in PowersOfTwo : d >= n => c <= d

PaddedPlaintextLen(n) == CountLen + BucketCapacity(n) * EntryLen

\* serialize_sealed_record_table_v2
SealedTableLen(entries) == 4 + NonceLen + PaddedPlaintextLen(Len(entries)) + TagLen

\* rewrite_vault: SEALED_TABLE_SECTION_OVERHEAD plus the padded plaintext.
TableSectionLen(records) == (4 + NonceLen + TagLen) + PaddedPlaintextLen(Len(records))

(***************************************************************************)
(* The loop of rewrite_vault over the staged records, each an id, a kind,  *)
(* a revision and the bytes of its frame.                                  *)
(***************************************************************************)
NoRewrite == [records |-> <<>>, written |-> Garbage(0), next_offset |-> 0, entries |-> <<>>,
              frames_concat |-> NoBytes]

\* Where the frames will begin is known before the table is sealed.
NewRewrite(records, frame) ==
    [records |-> records, written |-> frame,
     next_offset |-> WrkEnd + TableSectionLen(records),
     entries |-> <<>>, frames_concat |-> NoBytes]

LayRecord(r) ==
    LET record == r.records[Len(r.entries) + 1]
    IN  [records |-> r.records, written |-> r.written,
         next_offset |-> r.next_offset + record.frame.len,
         entries |-> Append(r.entries,
            [id |-> record.id, kind |-> record.kind, rev |-> record.rev,
             offset |-> r.next_offset, len |-> record.frame.len]),
         frames_concat |-> Extend(r.frames_concat, record.frame)]

VaultFile(entries, frames_concat) ==
    [tableLen |-> SealedTableLen(entries), entries |-> entries, frames |-> frames_concat]

-----------------------------------------------------------------------------
(***************************************************************************)
(* Reading.  Where the bytes of the k-th frame really start, and what the  *)
(* byte range of a table entry holds.                                      *)
(***************************************************************************)
TableEnd(f) == WrkEnd + f.tableLen
FileLen(f) == TableEnd(f) + f.frames.len

FrameAt(f, offset, len) ==
    LET pieces == f.frames.pieces
        here == {k \in DOMAIN pieces :
                    TableEnd(f) + pieces[k].start = offset /\ pieces[k].frame.len = len}
    IN  IF here = {} THEN Garbage(len) ELSE pieces[CHOOSE k \in here : TRUE].frame

\* The windows(2) check over the extents sorted by start: no frame is empty, so of two
\* in this order the first must end before the second begins.
ExtentsDisjoint(entries) ==
    \A j, k \in DOMAIN entries :
        j # k /\ entries[j].offset <= entries[k].offset =>
            entries[j].offset + entries[j].len <= entries[k].offset

\* open_sealed_record_table_v2, over a table that authenticates.
TableAccepted(f) ==
    LET payload == f.tableLen - 4 - NonceLen - TagLen - CountLen
        capacity == payload \div EntryLen
    IN  /\ f.tableLen >= 4 + NonceLen + TagLen + CountLen
        /\ payload % EntryLen = 0
        /\ capacity \in PowersOfTwo
        /\ Len(f.entries) <= capacity
        /\ \A k \in DOMAIN f.entries :
            /\ f.entries[k].kind \in {"item", "tombstone"}
            /\ f.entries[k].offset >= WrkEnd
            /\ f.entries[k].offset + f.entries[k].len <= FileLen(f)
            /\ f.entries[k].offset >= TableEnd(f)
        /\ IsInjective([k \in DOMAIN f.entries |-> f.entries[k].id])
        /\ ExtentsDisjoint(f.entries)

\* Bug form: the length limit is exclusive.
PayloadBelowLimit(secret) == secret < MaxSecretLen

\* deserialize_item_payload over an authenticated payload.
PayloadReadable(secret) == secret <= MaxSecretLen

\* read_item: the frame must be the one the entry names, and decrypt.
ReadItem(f, entry) ==
    LET frame == FrameAt(f, entry.offset, entry.len) IN
    /\ frame.kind = "item"
    /\ frame.id = entry.id /\ frame.rev = entry.rev
    /\ PayloadReadable(frame.secret)

\* list() succeeds only if every live item can be read.
ListSucceeds(f) ==
    \A k \in DOMAIN f.entries : f.entries[k].kind = "item" => ReadItem(f, f.entries[k])

-----------------------------------------------------------------------------
(***************************************************************************)
(* The operations.  persist_vault, with no table entry, then unlock, lock  *)
(* and the mutations of the item store.                                    *)
(***************************************************************************)
NoContents == [kind |-> "none", rev |-> 0, secret |-> 0]

Init ==
    /\ file = VaultFile(<<>>, NoBytes)
    /\ unlocked = FALSE
    /\ rewrite = NoRewrite
    /\ writes = 0
    /\ contents = [id \in 1 .. MaxRecords |-> NoContents]

\* Only unlock looks at the size of the file; load_vault does not.
Unlock ==
    /\ ~unlocked /\ rewrite = NoRewrite
    /\ FileLen(file) <= MaxVaultFileLen
    /\ TableAccepted(file)
    /\ unlocked' = TRUE
    /\ UNCHANGED <<file, rewrite, writes, contents>>

Lock ==
    /\ unlocked /\ rewrite = NoRewrite
    /\ unlocked' = FALSE
    /\ UNCHANGED <<file, rewrite, writes, contents>>

\* Bug form: frame_offset taken as relative to the sealed table, not to the file.
KeptFromTable(entry) ==
    [id |-> entry.id, kind |-> entry.kind, rev |-> entry.rev,
     frame |-> FrameAt(file, WrkEnd + entry.offset, entry.len)]

\* existing_frame_bytes copies the bytes an entry points to, unread.
KeptRecord(entry) ==
    [id |-> entry.id, kind |-> entry.kind, rev |-> entry.rev,
     frame |-> FrameAt(file, entry.offset, entry.len)]

WrittenRecord(frame) == [id |-> frame.id, kind |-> frame.kind, rev |-> frame.rev, frame |-> frame]

\* stage_records: the record at `position` is replaced, or a record appended.
StageRecords(position, frame) ==
    LET kept == [k \in DOMAIN file.entries |-> KeptRecord(file.entries[k])]
    IN  IF position \in DOMAIN kept
        THEN [kept EXCEPT ![position] = WrittenRecord(frame)]
        ELSE Append(kept, WrittenRecord(frame))

LoadVault == unlocked /\ TableAccepted(file)

CanWrite == rewrite = NoRewrite /\ LoadVault /\ writes < MaxWrites

RewriteVault(position, frame) ==
    /\ rewrite' = NewRewrite(StageRecords(position, frame), frame)
    /\ UNCHANGED <<file, unlocked, writes, contents>>

LiveItemAt(position) == file.entries[position].kind = "item"

Add ==
    /\ CanWrite /\ Len(file.entries) < MaxRecords
    /\ \E secret \in SecretLens :
        RewriteVault(0, ItemFrame(Len(file.entries) + 1, writes + 1, secret))

Update ==
    /\ CanWrite
    /\ \E position \in DOMAIN file.entries, secret \in SecretLens :
        /\ LiveItemAt(position)
        /\ RewriteVault(position, ItemFrame(file.entries[position].id, writes + 1, secret))

Delete ==
    /\ CanWrite
    /\ \E position \in DOMAIN file.entries :
        /\ LiveItemAt(position)
        /\ RewriteVault(position, TombstoneFrame(file.entries[position].id, writes + 1))

\* One turn of the loop.
LayNext ==
    /\ rewrite # NoRewrite
    /\ Len(rewrite.entries) < Len(rewrite.records)
    /\ rewrite' = LayRecord(rewrite)
    /\ UNCHANGED <<file, unlocked, writes, contents>>

\* After the loop: the table is sealed, its length compared, the file replaced.
PersistRewrite ==
    LET frame == rewrite.written IN
    /\ rewrite # NoRewrite
    /\ Len(rewrite.entries) = Len(rewrite.records)
    /\ SealedTableLen(rewrite.entries) = TableSectionLen(rewrite.records)
    /\ file' = VaultFile(rewrite.entries, rewrite.frames_concat)
    /\ rewrite' = NoRewrite
    /\ writes' = writes + 1
    /\ contents' = [contents EXCEPT ![frame.id] =
                      [kind |-> frame.kind, rev |-> frame.rev, secret |-> frame.secret]]
    /\ UNCHANGED unlocked

Next == Unlock \/ Lock \/ Add \/ Update \/ Delete \/ LayNext \/ PersistRewrite

Spec == Init /\ [][Next]_vars

-----------------------------------------------------------------------------
(***************************************************************************)
(* Properties.                                                             *)
(***************************************************************************)
\* rewrite_vault computes the frame offsets before the table is sealed.  Every
\* file it writes passes every check of open_sealed_record_table_v2, also when
\* the table grows into the next padding bucket and when frames change length.
TableOpens == TableAccepted(file)

\* After any sequence of mutations every record id ever written has exactly one
\* table entry, with the kind and revision last written, and the bytes the entry
\* points to are the frame written then, although each rewrite moved it.
FramesIntact ==
    \A id \in DOMAIN contents :
        LET at == {k \in DOMAIN file.entries : file.entries[k].id = id} IN
        IF contents[id].kind = "none" THEN at = {}
        ELSE /\ Cardinality(at) = 1
             /\ \A k \in at :
                LET entry == file.entries[k]
                    frame == FrameAt(file, entry.offset, entry.len)
                IN  /\ entry.kind = contents[id].kind /\ entry.rev = contents[id].rev
                    /\ frame.kind = entry.kind /\ frame.id = id /\ frame.rev = entry.rev
                    /\ frame.secret = contents[id].secret

\* deserialize_item_payload is the "Inverse of [`serialize_item_payload`]": what
\* add and update accept, list and with_item can read back.
WrittenItemsReadable == ListSucceeds(file)
=============================================================================
