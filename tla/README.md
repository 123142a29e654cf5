# A TLA+ model of MeissnerSeal

MeissnerSeal is a local encrypted vault: a command line program on top of a core
library that keeps items in one encrypted file (`.msv`), exports and imports them
as encrypted bundles, and sends secrets between devices in signed, hybrid-encrypted
envelopes. This directory holds TLA+ modules for the parts of it whose correctness
depends on order, failure and sharing, the TLC configurations that check them, and
TLAPS proofs in six proof modules. Paths below are relative to
`src/crates/`; `core` is `meissnerseal-core/src`, `cli` is `meissnerseal-cli/src`.

## 1. The system

| component | state it keeps | operations | what is hard |
| --- | --- | --- | --- |
| vault engine, `core/vault/engine.rs` | the vault file, a temporary sibling per call, the session's keys | create, open, unlock, lock, `persist_vault`, `persist_vault_mutation_v2` | a crash or failed system call between any two steps; two processes on one path; cleanup by file name |
| item store, `core/item/store.rs` | nothing of its own: every call loads the file | add, list, with_item, update, delete | load, change, replace without a lock; whole-file rewrite with computed offsets |
| file formats, `core/vault/format.rs` and a writer and a parser in each of `item/store.rs`, `export.rs`, `transfer/`, `keys/device.rs` | header, root-key frame, sealed padded table, frames; bundle, replay store, envelope, key file, identity text | serialize and parse each | padding buckets, offsets that move, limits checked by readers only, TLV lists, files torn by in-place writes |
| export/import, `core/export.rs` | a bundle | export, import | export reads item by item; import adds item by item and rolls back |
| transfer, `core/transfer/envelope.rs`, `replay.rs`, `cli/main.rs` | the replay store file | create, open, receive | four clock readings, eviction, in-place write of the store, when the id is recorded |
| devices, `core/keys/device.rs`, `pairing.rs` | identity, key pair, trust state, sealed key file | generate, seal, open, pair | three separate in-place writes, a new identity per pairing |
| key hierarchy, `core/keys/hierarchy.rs`, crypto crate's `kdf/` | derived keys of a session | derive, create | which key seals what, over files mixed from several versions or vaults |
| command line, `cli/main.rs` | the output files | init, add, list, get, export, import, device pair, transfer create and receive | a command loads the file several times, and others may change it before each load and before the rename; kills in between; prompts at the end of the input |
| crypto and PQC crates | none | AEAD, KDF, hash, signatures, KEM | numeric; symbolic here |
| placeholders | none | none | audit, policy, recovery, sync, migration, FFI and the sync server are stubs at this commit |

Interaction: the CLI makes one core call per command. The item store calls the
engine to replace the file; export and import call the item store; receive calls
`open_envelope`, which calls the replay store. There are no threads, callbacks or
messages inside the process. Concurrency is between *processes* that share files,
and failure is that of system calls, of processes and of the machine. The documents
limit the first release to one writer (ADR-029), but no code enforces it, so the
modules say for each property whether it needs that assumption.

What makes each part correct:

- engine and store: an acknowledged write survives every crash; the path never holds
  a torn file; a failed call leaves nobody else's file damaged; no vault replaces another;
- layout: every file a mutation writes opens again, and each table entry points at the
  frame written last for its id;
- export/import: bundles hold real item states; a failed import leaves nothing or says so,
  and a killed one leaves a part of the bundle with no gap;
- sessions: only the right password gives keys, they are the keys of that create, and nothing
  is read with them that was not stored as that revision in that vault;
- commands: what was reported as added can be had back, but for a lost update, and a bundle has
  one true secret for every item of the version that was listed;
- formats: what was written parses to what it was written from, a torn file is rejected, and
  no two files mean the same;
- receive: no payload is handed out twice, and only verified messages use up an id;
- devices: what a paired device sends opens at the other, exactly as it was created,
  and no identity is shared whose key was not stored.

## 2. Modules

| module | models |
| --- | --- |
| `VaultImage` | contents of the vault file as the item store sees them: a table of records |
| `VaultStore` | engine and item store, one step per system call, many processes, failures, kills, power loss |
| `AtomicVault` | the promise to a single user, with no temporary files and no system calls |
| `SharedVault` | the promise to users who share a vault without a lock: lost updates, and nothing worse |
| `VaultStoreProofs` | theorems about `VaultStore` |
| `TransferReceive` | the `transfer receive` command, `open_envelope`, the replay store and its file |
| `ReplayGuard` | what replay protection promises, with no store files and no eviction |
| `TransferReceiveProofs` | theorems about `TransferReceive` |
| `RecordTable` | byte layout of the vault file: frames, padded sealed table, offsets, limits, and the loop that rewrites it |
| `RecordTableProofs` | theorems about `RecordTable` |
| `ByteFields` | fields of the byte formats: how they are written, and one reader for the parsers |
| `FileFormats` | every file and payload format, its writer and its parser, and files torn or damaged |
| `SealedVault` | the key hierarchy and what each key seals, symbolically, and a vault file mixed from parts of others |
| `Commands` | the vault commands over `SealedVault`, killed at any step, beside other clients, load by load |
| `CommandsProofs` | theorems about `SealedVault` and `Commands` |
| `ExportImport` | export against a concurrent writer, import with rollback |
| `ExportImportProofs` | theorems about `ExportImport` |
| `DeviceTransfer` | `device pair` and its files, envelope creation, transcript, and what a receive accepts |
| `AuthenticChannel` | what pairing, creation and receipt promise together, with no files and no envelopes |
| `DeviceTransferProofs` | theorems about `DeviceTransfer` |
| `MC*` | constants for TLC |

Definitions marked "Bug form" are mutations of the definition that follows them. Each
property of each passing run is violated when the matching definition is replaced by
its bug form, so no property holds for lack of anything that could break it.

### VaultStore

`path` is what `open` would find; `disk` is the set of contents a power loss may leave:
every content of the directory entry since the last successful `fsync_parent`. `temps`
are the temporary siblings, indexed by the seed of their name. Each process has a
program counter `pc`, the next system call, and the image it is persisting (`stage`).
A call number (`fresh`) stands for everything drawn from the CSPRNG: vault ids, record
ids, revisions, seeds. Collisions of 128-bit values are left out.

`Create` covers key derivation and the exclusive claim of the path; `Add`, `Update` and
`Delete` are `load_vault` and `stage_records` in one step, since the code reads the file
once and works on the copy; then `OpenTmp`, `WriteTmp`, `SyncTmp`, `RenameTmp`,
`FsyncParent` are the system calls of `persist_vault_mutation_v2` and of the end of
`persist_vault_inner`. `StepFails` is the early return of any of them, `CleanupTmp` and
`CleanupPath` the error cleanup. `DeleteAgain` is the early `Ok` of `delete` for a
tombstone. `Kill` and `PowerLoss` come from outside. A temporary file renamed without
its own fsync may come back torn after a power loss.

A path claimed by a create that was killed holds the empty file for ever (`engine.rs` calls this
fail-safe). `Claiming` are the creates whose claim is at the path; `ClaimEndsByOwner` says that
the file changes by the step of the only one of them, and that without one it never changes.

A claim that loses, an unlock of something that is not a vault and an operation on a
missing item return an error and change nothing, so they are stutters.

Two abstract specifications say what this amounts to. `AtomicVault` is for one process: every
change is made to the vault as it is now. `SharedVault` is for any number, without the lock
the code does not have: a call prepares one legal revision of the vault it loaded, and commits
it whole, once, or gives it up. What others committed in between is overwritten, so a stale
commit may even bring a deleted item back; but a torn vault, a mixture of two, a
revision that nobody prepared, or a vault changed by a call that was given up, is excluded. A
create that fails takes away what is at the path, as the code does by name.

### TransferReceive

The steps of one command are: load the store, parse and validate the envelope, open it
(validate again, decrypt, verify the signature), evict, check and insert, truncate the
store file, write it, hand out the payload. `Live` is the expiry test, made against the
clock of the moment, four times per receive. A message is an envelope id together with
whether it is authentic. The store file is absent, torn or a set of ids; it is never
fsynced, so `disk` keeps every content until the kernel writes it back.

`ReplayGuard` is what one receiver gets from this: an id is accepted, live, authenticated and
new, in one step, and then handed out or given up. The mapping `Guard` takes `check_and_insert`
for that step; parsing, loading, eviction and the writes of the file are stutters, but for one
thing: `closed` is a store that `load_seen_ids` rejects, because a rewrite was interrupted or left
more ids than `from_bytes` reads. The guard may close only while something it accepted is being
recorded, and it never opens again.

### RecordTable

Here numbers matter. A frame is its identity plus its length, computed from the format's
own constants; the file is the length of the sealed table, its entries, and the pieces that
follow, each a frame and where it starts. A mutation is the loop of `rewrite_vault`: it begins
(`NewRewrite`) with the records and the length of a table padded for one entry each; every
`LayNext` appends the next record's frame at the running offset and its entry; `PersistRewrite`
replaces the file when all are laid. `rewrite` is the state of that loop. The capacity of the
table is the least power of two that holds its records, up to `LargestBucket`, the first that no
file within `MAX_VAULT_FILE_LEN` can fill. `FrameAt` returns what a byte range holds: the
frame that starts there with that length, or garbage. `TableAccepted` makes every check of
`open_sealed_record_table_v2` that does not concern the cipher. Padding bytes, always zero, are
not represented.

### ByteFields and FileFormats

`RecordTable` knows lengths and offsets; `FileFormats` knows bytes. Each writer of the code is
a concatenation of the fields it pushes, and each parser a list of fields with what it accepts
in them, read by the one cursor of `ByteFields`. The two are translated separately, from the
two functions of the code, so a field that one of them has in another place or width shows up.

What is scaled: a byte has `HexDigits` squared values, 9 in the run, and integers keep their
width in bytes and their order; ids, keys, nonces, hashes and tags are opaque arrays of one
byte, since no parser looks into them; limits on counts and texts shrink to 3 and 4. One
byte value stands for what is not UTF-8. The identity text is a sequence of symbols: a key with
its equals sign is one symbol, digits and characters are one each.

The machine writes a file and then damages it: `CutShort` at any length, `ChangeByte` at any
place to any value, `ChangeEnd` by a byte more or any number less (also after a changed byte in
the small formats), `EditHeader` and `EditKdf` drop, repeat, move or insert an element of the TLV
lists under lengths that fit. Encryption is left out on purpose: what a parser rejects here it
rejects before a key is used.

`Canonical` says how loose the vault header is: order, flags, unknown non-critical tags and a
missing PQC profile may differ between two files of one meaning, and nothing else.

`MCFormats` is `RecordTable` and `FileFormats` side by side in one run; they share no state.

### SealedVault and Commands

A derived key is the tuple of what it was derived from, a sealed box the record of its key,
associated data and content; it opens under that key and that data and gives nothing
otherwise. `SealedVault` follows the chain from the password over the key-encrypting key, the
root key and its PRK to the subkeys of `derive_subkeys`, and puts into every box what the code
puts into its associated data. A file is a header, the root key frame, the sealed table and the
frames in place. Besides what a client of the core library does (`CreateVault`, `Unlock`,
`LockVault`, and the mutations) the file may be removed, restored from any version there was, or
mixed from parts of two versions or two vaults (`MixHeader`, `MixSection`, `MixFrame`). Sessions
keep the keys they were given while the file changes below them.

A mutation is two steps. `AddItem`, `UpdateItem` and `DeleteItem` are `load_vault`,
`stage_records` and `rewrite_vault` up to the rename: they leave the file they loaded, the item
they are about and the file to come in `call`. `Replace` is the rename, which asks neither what
is at the path by then nor whether anything is; `GiveUp` is any error or kill before it. Between
the two every other client may load and rename and the file may change, so stale renames and lost
updates are behaviours of the model. The system calls around the rename are `VaultStore`'s.

`Commands` runs `init`, `add`, `list`, `get`, `export` and `import` over it, one at a time:
prompts, unlock, work, output file, end. Each load is a step: `AddLoad` and `ImportLoad` end
before the rename of `AddReplace` and `ImportReplace`; an export is `ExportList`, then one
`ExportItem` per item, which loads the file again as `with_item` does, then `ExportSeal` and the
two steps of the output file. Each step may be the last (`End` is any error or kill). Other
clients (`OtherCall`, `OtherReplace`) and changes from outside come between any two steps. Adds of
an import do not fail; failures are `VaultStore`'s and `ExportImport`'s.

Two histories state the properties. `kept` holds what adds put in place, and forgets an item that
is changed or deleted, everything when the file changes from outside, and what another client's
rename drops because it had loaded the file before the item was there: that is the lost update
which ADR-029 leaves to the single writer. `steady` says whether the file is still the one the
running export listed. It separates what `BundleComplete` says of every bundle (one secret for
each listed item, each of some version of this vault) from what it says of an undisturbed one
(all of the listed version); bundles with items of two versions are reachable.

### ExportImport

An add or delete is one step with three outcomes: done; failed, nothing changed; failed
after the rename (a failing `fsync_parent`). The source vault is a set of items another
process may update or delete between any two reads of the export. `ExportAborted` and
`KillImport` end either call before any of its steps; import keeps no journal, so what it added
or had still to delete stays.

### DeviceTransfer

Identities are numbered as `generate` makes them. Each device has three files, each absent,
torn or whole with an identity number. `Generate`, `PastePeer` and `ConfirmSas` are the
dialogue of `device pair`; `TruncateFile`, `WriteFile` and `WriteLastFile` its three
`std::fs::write` calls in `FileOrder`; `AbortPairing` is any way to stop: an unconfirmed
string, an error, a kill. A user pastes what another device has shown, at any time.

`Envelope` is `create_envelope`: a clear header, its `Transcript`, and a body sealed under
`TransferKey` with a signature on the transcript inside. What arrives is any mixture of the
header fields, hashes and bodies of envelopes sent, with any expiry. `Accepts` collects what
`transfer receive` demands, in two parts as in the code: `ValidateForOpen` when the envelope
is parsed (without the recipient's key, hence not for the transcript of anonymous envelopes)
and `Opens` with it. A receive is one step here, since `TransferReceive` already covers its
steps; the replay store keeps ids with the expiry the header claims.

`AuthenticChannel` is what this is for: users make identities, hold one, trust one of another,
and a message sealed by one identity to another is handed out while it is live, once, by the
device that holds its addressee and trusts its sender. It knows no files, keys, signatures,
headers or replay stores. The mapping `Channel` in `DeviceTransfer` reads the held identity off
a key file that is whole, the trusted one off the peer file, and the messages off the envelopes
that were created, not off what arrives. Each file write is a visible step or a stutter.
An anonymous envelope carries its recipient in the transcript only, so that it is handed out to
its addressee alone is part of what the refinement says.

## 3. Runs

| run | shows | bounds |
| --- | --- | --- |
| `solo` | type invariant; `AckedDurable`; `ImplementsAtomicVault` | 1 process, 5 calls, every system call may fail, kills and power loss |
| `race` | `NoTornVault`, `TempsPrivate`, `VaultNeverReplaced`, `ClaimEndsByOwner`; `ImplementsSharedVault` | 2 processes, 4 calls, all failures but that of the parent fsync, kills |
| `receive` | type invariant; `AtMostOnce`; `ImplementsReplayGuard` | 1 receiver, 1 store of 2 entries, 3 envelopes with expiry none, 2 and 3, clock to 3, failures and kills |
| `receive_hostile` | `VerifiedOnly` | 2 receivers, 1 store, 2 envelopes, every anomaly, clock to 2 |
| `layout` | `TableOpens`, `FramesIntact`, `WrittenItemsReadable`; `RoundTrip`, `TornRejected`, `Canonical`, `TornText` | 5 records, 7 writes, secrets of 0 and 65536 bytes; 12 formats with 1 to 4 values each, bytes of 9 values, every place of damage, two damages in the 9 smaller formats |
| `import` | `ImportAllOrNothing`, `ImportLeavesStretch`, `ExportSound`, `ExportEnds`, `ImportEnds` | 3 items, 2 revisions each, one import, kills; an add that fails leaves nothing |
| `devices` | type invariant; `DeliveredAsCreated`, `DeliveredOnce`, `SharedIdentityHasKey`, `PairedCanExchange`; `ImplementsAuthenticChannel` | 2 devices (symmetric), 3 identities, 2 envelopes, expiry none, 1 or 2, clock to 1 |
| `commands` | `SessionIsGenuine`, `ReadsOneVersion`, `KeptRetrievable`, `BundleComplete`, `WriteKeepsOthers` | 4 calls that draw (each with a secret of its own, the first item's empty), 1 change of the file from outside besides removals and none after the last draw, 1 password and the empty line, 2 passphrases and the empty line, 2 clients |
| `delete_power_loss` | `DeletedUnreadable` is violated | 1 process, 3 calls |
| `replay_paths` | `AtMostOnce` is violated with two stores | 1 receiver |
| `oversized_item` | `WrittenItemsReadable` is violated | secrets of 0 and 65537 bytes |
| `import_rollback` | `ImportAllOrNothing` is violated | adds may fail after their rename |

Why the bounds are enough to be interesting. Five calls let one process create, add,
update, delete and retry, with a crash in each; four let two processes race a create
against a create and a mutation. Three expiries give an id that never expires, one that
expires during the run and one at its end, so eviction, expiry between steps and
redelivery all occur; with two entries for three envelopes the store also overflows. Five records
cross the padding buckets 1, 2, 4 and 8 (`LargestBucket` is never near), seven writes leave room for
updates that change frame lengths and for tombstones after that. Three items allow an export in which one vanishes, one changes and one stays, and an import
that fails with two items already added. Three identities let both devices pair and one pair
again, with an envelope before and after; two envelopes give fields to mix up, and clock and
expiries one id that expires and is evicted, one that does not and one without expiry. Four
draws create one vault with up to three items or two vaults with one or two each, and one change
from outside puts a part of one into the other; two clients can both have loaded before either
renames, and an export of two items can see the file change between any two of its loads. With one
password, that a wrong one opens nothing rests on the proof of `SessionIsGenuine`. The formats' values have every optional field present and
absent, empty and non-empty lists and texts, and numbers that need more than one byte; with 9 byte
values a changed length can point anywhere into a file and past its end.

Deadlock is not checked for `VaultStore`, `ExportImport`, `DeviceTransfer` and `Commands`: their calls are finitely
many and a process may simply stop, and a killed create leaves an empty claim on which
nothing works any more, as `engine.rs` documents. It is checked in
the others.

Fairness appears in one place. `FairSpec` of `ExportImport` asks that a running export
and a running import keep taking steps. Each is straight-line code in one thread, so the
scheduler's progress is all it needs. Nothing requires the other process to write, a call
to be started or a call to succeed.

### What the violated runs say

- `delete_power_loss`: a delete whose process dies (or whose `fsync_parent` fails) after
  the rename leaves a tombstone that is visible but not durable. A retry finds it and
  returns `Ok` without a sync. A power loss then restores the item.
- `replay_paths`: without `--seen-ids`, the store's path is derived from `--output`, so
  the same envelope is accepted once per output path.
- `oversized_item`: `add` accepts a secret that `deserialize_item_payload` rejects; after
  that `list` fails for the whole vault.
- `import_rollback`: an add that fails after its rename leaves an item import does not
  know of, and import reports a successful rollback.

Nine more behaviours follow from the modules and have no run. With two writers an
acknowledged change can be overwritten by a process that loaded earlier (`AckedDurable`
and `DeletedUnreadable` fail for two processes). Export under a concurrent writer may
seal a set that was never the live set of any one moment, with items of several versions
(`BundleComplete` says what is left). Only import limits the number
of items of a bundle, and only unlock the length of the file. A replay store can be saved
with more entries than `from_bytes` accepts, after which no receive loads it. An interrupted
second pairing leaves the key of one pairing beside the peer of another, or no key. When only
the last `fsync_parent` of a create fails, its cleanup removes the vault by name, with what another
process may have added to it. An export killed while it writes leaves an output that makes the
next export to the same name fail. An identity text that lost the last digits of its last line,
the time of creation, still parses (`TornText` says that nothing else can be lost unnoticed).

## 4. Proofs

The six proof modules are checked by TLAPS from the assumptions stated in the modules they
extend: bounds are natural numbers, failures and crashes are subsets of those named. The
theorems hold for any number of processes, calls, envelopes, stores and devices.

`VaultStoreProofs`:

- `TypeCorrect`, `CrashSafe`, `TempsArePrivate` hold with no further assumption. The
  inductive invariant `Inv` adds to the type invariant that a running call has a target
  and a staged vault (`CallsOK`), that running calls have distinct seeds, none above
  `fresh` (`SeedsDistinct`), and that the temporary file of a call is in the state its
  program counter implies (`TempsOK`). `NoTornVault` alone is not inductive: that a rename
  moves a synced file needs `TempsOK`, and that another call did not disturb the file in
  between needs `SeedsDistinct`.
- `ClaimIsExclusive` (`VaultNeverReplaced`) assumes that `fsync_parent` does not fail and that
  there is no power loss; with either, a create may remove or lose what stands at the path it
  claimed. `ClaimInv` says that what is at a claimed path is the empty claim, that one call at
  most holds a claim, and that a mutation stages the vault id at the path. It uses `Inv`: the
  renamed file is the caller's own stage.
- `ClaimIsOwned` (`ClaimEndsByOwner`) follows from the same invariant for each step, under
  the same assumptions: once a vault can vanish after others have loaded it, a mutation of it may
  be renamed over the claim of a later create.
- `SoloDurable` and `SoloRefines` assume one process (`Solo`). `SoloInv` adds how the staged
  image relates to the file while a call runs: before its rename the file is still the one
  it loaded, after it the file is the staged image. This is what a second process breaks.
  The refinement maps `path` and `disk` to the abstract vault and its stable states; claim,
  rename, removal, parent fsync and power loss are the visible steps, all others stutter.
- `SharedRefines` (`ImplementsSharedVault`) assumes nothing: any processes, failures, kills and
  power losses. The mapping reads off the next system call and the stage what a call is about to
  do (`Pending`): to make or to edit until its rename, then at most to withdraw. `SharedInv`
  says that no vault at the path, on the disk or staged holds a record drawn later than the last
  number, so that a call's revision is newer than all it finds; that a rename moves the call's
  own stage is `TempsOK` of `Inv`.

`TransferReceiveProofs`:

- `ReceiveTypeCorrect` and `VerifiedBeforeRecorded` hold for any receivers, stores and
  anomalies; `VerifiedInv` adds that a receive past the signature check, and every id it
  has in memory or a power loss may restore, is verified.
- `NoReplay` assumes one receiver, one store, no power loss and a clock that never goes
  back. `OnceInv` says that a delivered id is in the store file, or the file is torn
  (and then never loads), or the id has expired for good; and that a receive past its
  check has an id not delivered before. Eviction makes the third case necessary, in-place
  writing the second.
- `ReceiveIsAGuard` (`ImplementsReplayGuard`), under the same assumptions, goes through the actions
  one by one. `GuardInv` adds to `OnceInv` that until a receive truncates its store, that is still
  the readable store it loaded (`LoadedReadable`). So an accepted id comes from a store that was
  not closed, it was not handed out before (`OnceInv`), and the file can become unreadable only
  at a step of the receive that holds an id. Two receivers break it: one may leave the store torn
  after the other has loaded it.

`ExportImportProofs`, for any items, any writer beside the export and any number of revisions:

- `ExportIsSound` rests on `ExportInv`: each item read was live at some moment since the listing,
  no id was read twice or is both read and still to read, and an item that was live and the same
  all along has either been read or is still to be.
- `ImportIsAStretch` (`ImportLeavesStretch`) assumes nothing: adds and deletes may fail before or
  after their rename, and a kill may end any of them. `ImportInv` says that a running import has
  added the first items of its bundle, in order, and that a rollback which has deleted the first
  `d` of them has the others still before it, but for one at the end that an add left although it
  failed (`RollbackFrom`). Deletes go from the first item on, so what is left has no gap.
- `ImportIsAllOrNothing` follows from the same invariant. It assumes that an add that fails leaves
  nothing (`"after"` is not among `AddFailures`), and the run `import_rollback` shows that this
  is needed.

`CommandsProofs`, for any passwords, clients, draws and changes of the file (all through
`Commands`, the first also for `SealedVault` alone):

- `SessionsGenuine` and `CommandSessionsGenuine` rest on `SessionInv`: every part of every file
  there was, and so of every mixture, was sealed by some create or write with the keys of its own
  vault (`FilesGood`). Lemmas about the hierarchy say that equal keys come from equal inputs, so
  a root key frame and a table that both open belong to the same create and password.
- `CommandsReadOneVersion` rests on `ContentInv`: a sealed table names the vault it was sealed
  for and lists a set of revisions that was once written, and a frame in place of another opens
  nothing, because its associated data names record and revision. Neither is inductive without
  the other half of the file: a write copies frames it does not open.
- These invariants speak of `Files`: the versions written and those that running calls have
  prepared and not yet put in place, because a rename may bring any of the latter to the path
  long after the file it was made from is gone.
- `WritesKeepOthers` rests on `ChangesOne`: the file to come differs from the file loaded in one
  entry and one frame; each other frame that is in place is copied, and one of the entry's kind
  is put for one that is not, so that afterwards all are in place. `CallsGood` carries this from
  the load to the rename, and `VaultInv` adds that ids were drawn before and that no table lists
  an id twice; without it an update could not be told from the item before.
- `KeptIsRetrievable` rests on `KeptInv`, which speaks of three files at once: what is kept can be
  had from the file at the path; a running call of any client keeps in its file to come all that
  was in the file it loaded, but for its target; and the running call of a command keeps all and
  shows what it adds. That a later rename of another client cannot bring the new id with another
  content needs its last part: the id of a running add is in no file but its own.
- Both assume `FilesAreFiles`: `NoFile`, the value that stands for an absent file, is not a file.
- `BundleIsComplete` rests on `BundleInv`, and while an export reads on `Reading`: the secrets read
  and the ids still queued together follow the list of one version, and each secret read was one
  that some version of the vault shows for its id (`ReadFrom`), that very version as long as the
  file is steady. `IdsOnce` says that the list is a bijection onto the live ids, counted without
  induction by the rank of each entry (`RankInjective`, `RankSurjective`). That the history only
  grows keeps a bundle complete after it is sealed.

`RecordTableProofs`, for any header length, any secret lengths and any sequence of mutations:

- `LayoutHolds` states the inductive invariant `LayoutInv`: the pieces of the file and of a
  running rewrite follow each other from the end of the table without a gap, piece by piece at
  the offset and with the length of the entry at the same place; no id has two entries; and
  what is laid so far is a prefix of what the rewrite was asked for. Distinct starts and
  positive lengths then make `FrameAt` unambiguous.
- `TableAlwaysOpens` and `FramesStayIntact` follow from it with no assumption beyond the
  bounds of the constants, among them that there are no more records than `LargestBucket`.
- `ItemsReadable` assumes that no secret is longer than `MAX_SECRET_LEN`, which the reader
  demands and the writer does not check; the run `oversized_item` shows that this is needed.

`DeviceTransferProofs`:

- `DeviceTypeCorrect` and `IdentityAfterKey` rest on `PairInv`: the identity of a running
  pairing is the latest of its device, and once the first write is over the key file holds
  its key. The order of the writes alone does not give `SharedIdentityHasKey`; it also needs
  that the files left by earlier, interrupted pairings name older identities.
- `HeaderBound` rests on `MailInv`, which says that everything sent came out of
  `create_envelope`, and on the lemma `TranscriptInjective`: the transcript determines every
  header field and whether the recipient is named.
- `PayloadOnce` (`DeliveredOnce`) rests on `OnceInv`: an envelope id is used once, and a device
  remembers the id of every envelope it delivered for as long as that envelope is live. An
  expiry changed in transit does not help, since `HeaderBound` applies to the second copy too.
- `PairingSuffices` (`PairedCanExchange`) rests on `ExchangeInv`: the key file and the peer file
  a completed pairing leaves are whole and name the identities that were confirmed.
- `TransferIsChannel` (`ImplementsAuthenticChannel`) goes through the actions one by one: a step
  maps to a step of `AuthenticChannel` or to a stutter. A file write is `Hold`, `Trust` or none
  of both, by the file and by whether it comes out whole (`FileStep`); a creation is `Seal`,
  because the sender's files name the two identities it seals between; a receipt is `Take`,
  because by `HeaderBound`'s argument the accepted copy has the header of the message created,
  by `PayloadOnce` it was not taken before, and its expiry was checked against the same clock.

Left to TLC: the liveness properties `ExportEnds` and `ImportEnds`, since the prover handles
neither fairness nor `ENABLED`; and `FileFormats` (`RoundTrip`, `TornRejected`, `Canonical`,
`TornText`), whose parsers are recursive operators over bytes and would need induction over
their input. Every other property of a passing run is a theorem.

## 5. Not modelled

Cryptography is symbolic everywhere: AEAD, HKDF, Argon2id, signatures, ML-KEM and the hybrid
combiner are terms that are equal when their inputs are. Their arithmetic and parameters belong
to other tools (the repository has Kani harnesses and test vectors for some). Identifiers never
collide. Error wording, permissions and zeroization are left out, as are argument parsing and
the layout of what commands print. A display name with a line break, which gives an identity
text that does not parse, is outside the bounds of the formats.

`PairingSession`, `validate_trust_transition` and the enrollment signatures are called by tests
only; `transfer receive` sets the trust state to `Verified` for the file it is given. Audit,
policy, recovery, sync, migration, FFI and the sync server are stubs. More than half of the lines
of most source files are inline tests, which no definition maps.

## 6. Plan

1. The file of the replay store of `TransferReceive` composed with the channel, so that one
   module says what a torn store costs a paired device; power loss for pairing's files.
2. Pairing's library functions that no command calls (`validate_trust_transition`, pairing
   payloads and their transcript), once a command uses them.
