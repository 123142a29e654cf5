----------------------------- MODULE SealedVault -----------------------------
(***************************************************************************)
(* Which key seals what.  The key hierarchy (keys/hierarchy.rs over the    *)
(* crypto crate) from a password to the keys of a session, the sections of *)
(* a vault file each sealed under one of them, and the operations of       *)
(* engine and item store over such files.                                  *)
(*                                                                         *)
(* Cryptography is symbolic: a derived key is the tuple of what it was     *)
(* derived from, and a sealed box opens under its own key and associated   *)
(* data only.  The n-th call that draws randomness draws n for every id,   *)
(* key and nonce.  A file can change under the program at any time: it is  *)
(* restored from a copy, replaced by another vault, or a mixture of the    *)
(* parts of files the program wrote.  add, update and delete load the file *)
(* in one step and put their new one in its place in another, and nothing  *)
(* keeps two clients apart; the system calls between are in module         *)
(* VaultStore.  Offsets are positions (module RecordTable).                *)
(***************************************************************************)
EXTENDS Naturals, Sequences, FiniteSets

CONSTANTS
    Passwords,      \* non-empty passwords
    Secrets,        \* Secrets[n]: secrets that the n-th call to draw may store
    Clients,        \* processes that may hold a session
    MaxDraws,       \* bound: calls that draw randomness
    MaxChanges,     \* bound: changes of the file from outside
    NoFile,         \* no file at the path
    NoSession       \* a client without keys

ASSUME BoundsAssumption == {MaxDraws, MaxChanges} \subseteq Nat

VARIABLES
    file,       \* the vault file
    session,    \* what each client's Vault<Unlocked> holds
    call,       \* each client's running mutation: file loaded, item, file to come
    draws,      \* calls that drew randomness so far
    changes,    \* changes from outside so far
    created,    \* history: vault id, password and root key of each create
    written,    \* history: every file the program wrote
    stored      \* history: every item revision sealed, with its secret

sealedVars == <<file, session, call, draws, changes, created, written, stored>>

-----------------------------------------------------------------------------
(***************************************************************************)
(* The key hierarchy.  The program writes one set of KDF parameters and    *)
(* accepts others within limits; the profile ids have one legal value.     *)
(***************************************************************************)
CanonicalKdf == 1
KdfParams == {CanonicalKdf, 2}

\* The AEAD profile is part of the info string of the two keys that need it.
AeadOf(purpose) == IF purpose \in {"item-wrap", "metadata"} THEN 1 ELSE 0

MasterUnlockKey(password, vid, kdf) == <<"muk", password, vid, kdf>>
VaultKek(muk, vid) == <<"vkek", muk, vid>>
RootPrk(vrk, vid, nonce) == <<"root", vrk, vid, nonce>>
Subkey(prk, purpose, vid) == <<"subkey", prk, purpose, vid, AeadOf(purpose)>>

\* derive_subkeys makes five more keys in the same way, which nothing uses yet.
UnlockedKeys(prk, vid) ==
    [itemWrap |-> Subkey(prk, "item-wrap", vid), metadata |-> Subkey(prk, "metadata", vid)]

RecordKey(drawn) == <<"rek", drawn>>

Encrypt(key, aad, msg) == [key |-> key, aad |-> aad, msg |-> msg]
Decrypts(box, key, aad) == box.key = key /\ box.aad = aad

\* build_aad and build_table_aad_v2; versions and profiles are constant.
RecordAad(vid, rid, rev, kind) == <<"record", vid, rid, rev, kind>>
TableAad(vid) == <<"table", vid>>

-----------------------------------------------------------------------------
(***************************************************************************)
(* Files.                                                                  *)
(***************************************************************************)
RootKeyFrame(password, vid, n) ==
    [rid |-> n, rev |-> n, aad |-> RecordAad(vid, n, n, "root"),
     box |-> Encrypt(VaultKek(MasterUnlockKey(password, vid, CanonicalKdf), vid),
                     RecordAad(vid, n, n, "root"), n)]

ItemFrame(keys, vid, rid, rev, secret) ==
    [rid |-> rid, rev |-> rev, tombstone |-> FALSE,
     wrapped |-> Encrypt(keys.itemWrap, RecordAad(vid, rid, rev, "item"), rev),
     payload |-> Encrypt(RecordKey(rev), RecordAad(vid, rid, rev, "item"), secret)]

\* A tombstone's ciphertext is empty.
TombstoneFrame(rid, rev) ==
    [rid |-> rid, rev |-> rev, tombstone |-> TRUE,
     wrapped |-> Encrypt(<<>>, <<>>, 0), payload |-> Encrypt(<<>>, <<>>, "")]

Entry(rid, kind, rev) == [rid |-> rid, kind |-> kind, rev |-> rev]

SealTable(keys, vid, entries) == Encrypt(keys.metadata, TableAad(vid), entries)

NewFile(password, n) ==
    [header |-> [vid |-> n, kdf |-> CanonicalKdf, nonce |-> n],
     wrk    |-> RootKeyFrame(password, n, n),
     table  |-> SealTable(UnlockedKeys(RootPrk(n, n, n), n), n, <<>>),
     frames |-> <<>>]

\* An item frame takes about twice the bytes of a tombstone frame.
ExpectedEnd(f) ==
    2 * Len(f.table.msg) - Cardinality({k \in DOMAIN f.table.msg : f.table.msg[k].kind = "tombstone"})
FileEnd(f) ==
    2 * Len(f.frames) - Cardinality({k \in DOMAIN f.frames : f.frames[k].tombstone})

\* open_sealed_record_table_v2: authentic, and every entry within the file.
TableOpens(f, keys) ==
    /\ Decrypts(f.table, keys.metadata, TableAad(f.header.vid))
    /\ ExpectedEnd(f) <= FileEnd(f)

\* unlock_impl up to the wrapped root key.
RootKeyOpens(f, password) ==
    LET vid == f.header.vid
        aad == RecordAad(vid, f.wrk.rid, f.wrk.rev, "root")
    IN  /\ f.wrk.aad = aad
        /\ Decrypts(f.wrk.box, VaultKek(MasterUnlockKey(password, vid, f.header.kdf), vid), aad)

SessionKeys(f) ==
    UnlockedKeys(RootPrk(f.wrk.box.msg, f.header.vid, f.header.nonce), f.header.vid)

\* Bug form: the table is left to the first operation that needs it.
UnlockableByRootKey(f, password) == f # NoFile /\ RootKeyOpens(f, password)

Unlockable(f, password) ==
    /\ f # NoFile
    /\ RootKeyOpens(f, password)
    /\ TableOpens(f, SessionKeys(f))

\* load_vault takes the vault id from the file and the keys from the session.
Loads(f, s) == f # NoFile /\ s # NoSession /\ TableOpens(f, s.keys)

\* The offset of the k-th entry is where the k-th frame is: the frames up to it
\* have the lengths the offset was computed from.
InPlace(f, k) ==
    /\ k <= Len(f.frames)
    /\ \A j \in 1 .. k : f.frames[j].tombstone = (f.table.msg[j].kind = "tombstone")

\* Bug form: the ids of the frame are believed.
ReadsFrame(f, s, k) ==
    LET entry == f.table.msg[k]
        frame == f.frames[k]
        aad == RecordAad(f.header.vid, frame.rid, frame.rev, "item")
    IN  /\ entry.kind = "item" /\ InPlace(f, k)
        /\ Decrypts(frame.wrapped, s.keys.itemWrap, aad)
        /\ Decrypts(frame.payload, RecordKey(frame.wrapped.msg), aad)

\* read_item of the k-th entry.
ReadsItem(f, s, k) ==
    LET entry == f.table.msg[k]
        frame == f.frames[k]
        aad == RecordAad(f.header.vid, entry.rid, entry.rev, "item")
    IN  /\ entry.kind = "item" /\ InPlace(f, k)
        /\ frame.rid = entry.rid /\ frame.rev = entry.rev
        /\ Decrypts(frame.wrapped, s.keys.itemWrap, aad)
        /\ Decrypts(frame.payload, RecordKey(frame.wrapped.msg), aad)

Item(rid, secret) == [rid |-> rid, secret |-> secret]
ItemAt(f, k) == Item(f.table.msg[k].rid, f.frames[k].payload.msg)
LiveAt(f) == {k \in DOMAIN f.table.msg : f.table.msg[k].kind = "item"}
ReadableAt(f, s) == {k \in LiveAt(f) : ReadsItem(f, s, k)}

\* list: one item that cannot be read makes it fail.
Lists(f, s) == Loads(f, s) /\ ReadableAt(f, s) = LiveAt(f)

-----------------------------------------------------------------------------
(***************************************************************************)
(* The operations.                                                         *)
(***************************************************************************)
NoCall == [loaded |-> NoFile, target |-> 0, next |-> NoFile]
Running(c) == call[c] # NoCall

SealedInit ==
    /\ file = NoFile
    /\ session = [c \in Clients |-> NoSession]
    /\ call = [c \in Clients |-> NoCall]
    /\ draws = 0 /\ changes = 0
    /\ created = {} /\ written = {} /\ stored = {}

Write(f) == file' = f /\ written' = written \cup {f}

\* create claims the path, so nothing may be there.
CreateVault(password) ==
    /\ draws < MaxDraws
    /\ file = NoFile
    /\ Write(NewFile(password, draws + 1))
    /\ draws' = draws + 1
    /\ created' = created \cup {[vid |-> draws + 1, password |-> password]}
    /\ UNCHANGED <<session, call, changes, stored>>

Unlock(c, password) ==
    /\ session[c] = NoSession
    /\ Unlockable(file, password)
    /\ session' = [session EXCEPT ![c] =
            [password |-> password, vid |-> file.header.vid, keys |-> SessionKeys(file)]]
    /\ UNCHANGED <<file, call, draws, changes, created, written, stored>>

\* lock takes the vault, so no call of its own is running.
LockVault(c) ==
    /\ session[c] # NoSession
    /\ ~Running(c)
    /\ session' = [session EXCEPT ![c] = NoSession]
    /\ UNCHANGED <<file, call, draws, changes, created, written, stored>>

\* A mutation has loaded the file and made the one to come.
Prepare(c, target, next) ==
    /\ call' = [call EXCEPT ![c] = [loaded |-> file, target |-> target, next |-> next]]
    /\ draws' = draws + 1
    /\ UNCHANGED <<file, session, changes, created, written>>

\* Bug form: a rewritten vault gets a new header nonce.
RewriteVaultFreshNonce(c, target, entries, frames) ==
    Prepare(c, target,
        [header |-> [vid |-> file.header.vid, kdf |-> file.header.kdf, nonce |-> draws + 1],
         wrk |-> file.wrk,
         table |-> SealTable(session[c].keys, file.header.vid, entries), frames |-> frames])

\* rewrite_vault up to the rename: header and root key frame are those of the file
\* it loaded, and the table is sealed under the session's key.
RewriteVault(c, target, entries, frames) ==
    Prepare(c, target,
        [header |-> file.header, wrk |-> file.wrk,
         table |-> SealTable(session[c].keys, file.header.vid, entries), frames |-> frames])

CanWrite(c) == draws < MaxDraws /\ ~Running(c) /\ Loads(file, session[c])

\* existing_frame_bytes copies what is at the offset, unread.
Garbage(kind) ==
    [rid |-> 0, rev |-> 0, tombstone |-> kind = "tombstone",
     wrapped |-> Encrypt(<<>>, <<>>, 0), payload |-> Encrypt(<<>>, <<>>, "")]

\* Bug form: the frames of tombstones are dropped, their entries kept.
LiveFrames(f) == SelectSeq(f.frames, LAMBDA frame : ~frame.tombstone)

KeptFrames(f) ==
    [k \in DOMAIN f.table.msg |->
        IF InPlace(f, k) THEN f.frames[k] ELSE Garbage(f.table.msg[k].kind)]

Stores(vid, rid, secret) ==
    stored' = stored \cup {[vid |-> vid, rid |-> rid, rev |-> draws + 1, secret |-> secret]}

AddItem(c, secret) ==
    /\ CanWrite(c)
    /\ LET n == draws + 1
       IN RewriteVault(c, n, Append(file.table.msg, Entry(n, "item", n)),
                       Append(KeptFrames(file),
                              ItemFrame(session[c].keys, file.header.vid, n, n, secret)))
    /\ Stores(file.header.vid, draws + 1, secret)

UpdateItem(c, k, secret) ==
    /\ CanWrite(c)
    /\ k \in LiveAt(file)
    /\ LET n == draws + 1
           rid == file.table.msg[k].rid
       IN RewriteVault(c, rid, [file.table.msg EXCEPT ![k] = Entry(rid, "item", n)],
                       [KeptFrames(file) EXCEPT ![k] =
                            ItemFrame(session[c].keys, file.header.vid, rid, n, secret)])
    /\ Stores(file.header.vid, file.table.msg[k].rid, secret)

DeleteItem(c, k) ==
    /\ CanWrite(c)
    /\ k \in LiveAt(file)
    /\ LET n == draws + 1
           rid == file.table.msg[k].rid
       IN RewriteVault(c, rid, [file.table.msg EXCEPT ![k] = Entry(rid, "tombstone", n)],
                       [KeptFrames(file) EXCEPT ![k] = TombstoneFrame(rid, n)])
    /\ UNCHANGED stored

\* The rename: it asks neither what is at the path by now nor whether anything is.
Replace(c) ==
    /\ Running(c)
    /\ Write(call[c].next)
    /\ call' = [call EXCEPT ![c] = NoCall]
    /\ UNCHANGED <<session, draws, changes, created, stored>>

\* A mutation that fails, or is killed, before its rename.
GiveUp(c) ==
    /\ Running(c)
    /\ call' = [call EXCEPT ![c] = NoCall]
    /\ UNCHANGED <<file, session, draws, changes, created, written, stored>>

(***************************************************************************)
(* Changes from outside.                                                   *)
(***************************************************************************)
\* Bounds: so many changes, and none after the last draw.
Outside == changes < MaxChanges /\ draws < MaxDraws /\ changes' = changes + 1
           /\ UNCHANGED <<session, call, draws, created, written, stored>>

Remove == file # NoFile /\ file' = NoFile
          /\ UNCHANGED <<session, call, draws, changes, created, written, stored>>

Restore == Outside /\ file' \in written \ {file}

\* One part of the file comes from another file the program wrote.
With(h, wrk, table, frames) ==
    [header |-> h, wrk |-> wrk, table |-> table, frames |-> frames]

MixHeader ==
    /\ Outside
    /\ file # NoFile
    /\ \E g \in written, kdf \in KdfParams :
        \E h \in {[vid |-> g.header.vid, kdf |-> file.header.kdf, nonce |-> file.header.nonce],
                  [vid |-> file.header.vid, kdf |-> kdf, nonce |-> file.header.nonce],
                  [vid |-> file.header.vid, kdf |-> file.header.kdf, nonce |-> g.header.nonce]} :
            file' = With(h, file.wrk, file.table, file.frames)

MixSection ==
    /\ Outside
    /\ file # NoFile
    /\ \E g \in written :
        \/ file' = With(file.header, g.wrk, file.table, file.frames)
        \/ file' = With(file.header, file.wrk, g.table, file.frames)
        \/ file' = With(file.header, file.wrk, file.table, g.frames)

MixFrame ==
    /\ Outside
    /\ file # NoFile
    /\ \E g \in written, k \in DOMAIN file.frames :
        \E j \in DOMAIN g.frames :
            file' = With(file.header, file.wrk, file.table,
                         [file.frames EXCEPT ![k] = g.frames[j]])

ChangeFile == Remove \/ Restore \/ MixHeader \/ MixSection \/ MixFrame

\* What a client of the core library does, but for the renames.
CoreCall(c) ==
    \/ \E password \in Passwords : Unlock(c, password)
    \/ LockVault(c)
    \/ \E secret \in Secrets[draws + 1] : AddItem(c, secret)
    \/ file # NoFile /\ \E k \in LiveAt(file) :
        DeleteItem(c, k) \/ \E secret \in Secrets[draws + 1] : UpdateItem(c, k, secret)
    \/ GiveUp(c)

SealedNext ==
    \/ \E password \in Passwords : CreateVault(password)
    \/ \E c \in Clients : CoreCall(c) \/ Replace(c)
    \/ ChangeFile

SealedSpec == SealedInit /\ [][SealedNext]_sealedVars

-----------------------------------------------------------------------------
(***************************************************************************)
(* Properties.                                                             *)
(***************************************************************************)
Genuine(s) ==
    \E v \in created :
        /\ s.password = v.password /\ s.vid = v.vid /\ s.password \in Passwords
        /\ s.keys = UnlockedKeys(RootPrk(v.vid, v.vid, v.vid), v.vid)

\* unlock succeeds only with the password a vault was created with, never an empty
\* one, and then holds the keys create derived, whatever mixture of files it was given:
\* the header nonce is authenticated by nothing but the table that opens under its keys.
SessionIsGenuine == \A c \in Clients : session[c] # NoSession => Genuine(session[c])

LiveRevisions(f) == {[rid |-> f.table.msg[k].rid, rev |-> f.table.msg[k].rev] : k \in LiveAt(f)}

StoredAt(f, vid, k) ==
    [vid |-> vid, rid |-> f.table.msg[k].rid, rev |-> f.table.msg[k].rev,
     secret |-> f.frames[k].payload.msg]

\* What list returns from any mixture of files are the live items of one version of
\* the session's own vault that the program wrote, and what list or with_item shows
\* is the secret that was stored as that revision of that item: items are never
\* exchanged, dropped or taken from two versions, although a rewrite copies frames
\* without reading them.
ReadsOneVersion ==
    \A c \in Clients :
        Loads(file, session[c]) =>
            /\ Lists(file, session[c]) => \E v \in written :
                v.header.vid = session[c].vid /\ LiveRevisions(v) = LiveRevisions(file)
            /\ \A k \in ReadableAt(file, session[c]) : StoredAt(file, session[c].vid, k) \in stored

\* A mutation leaves every item but its own, of the file it loaded, readable to every
\* session that could read it there, with the same secret, and whoever could unlock that
\* file can unlock the new one with the same password, although the table was sealed
\* again and the header and root key copied unread.
WriteKeepsOthers ==
    [][\A c, d \in Clients :
        LET old == call[c].loaded
        IN (Replace(c) /\ Loads(old, session[d])) =>
            /\ \A k \in ReadableAt(old, session[d]) :
                old.table.msg[k].rid # call[c].target =>
                    k \in ReadableAt(file', session[d]) /\ ItemAt(file', k) = ItemAt(old, k)
            /\ \A password \in Passwords :
                Unlockable(old, password) => Unlockable(file', password)]_sealedVars
=============================================================================
