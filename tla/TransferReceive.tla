--------------------------- MODULE TransferReceive ---------------------------
(***************************************************************************)
(* Receiving a transfer envelope: the `transfer receive` command (CLI      *)
(* main.rs), open_envelope (transfer/envelope.rs) and the replay store     *)
(* SeenEnvelopeIds (transfer/replay.rs) it loads, extends and saves.       *)
(*                                                                         *)
(* A receive loads the store file, validates the envelope, decrypts and    *)
(* verifies it, evicts expired ids, checks and inserts the envelope's id,  *)
(* overwrites the store file in place and only then hands out the payload. *)
(* The wall clock is read four times on the way and may move in between.   *)
(*                                                                         *)
(* An envelope stands for its envelope_id and the expiry its transcript    *)
(* binds; cryptography is symbolic: a message is authentic if its          *)
(* transcript, ciphertext and sender signature verify.  Expiry 0 is the    *)
(* encoding of "never expires" (to_bytes, from_bytes).  A serialized       *)
(* expiry of zero milliseconds cannot be confused with it: such an         *)
(* envelope is expired for every clock.                                    *)
(***************************************************************************)
EXTENDS Naturals, FiniteSets

CONSTANTS
    Receivers,          \* processes running `transfer receive`
    Stores,             \* replay store files they name
    Envelopes,          \* envelope ids
    Expiry,             \* expires_at of each envelope, 0 for none
    MaxReplayEntries,   \* MAX_REPLAY_ENTRIES: what from_bytes accepts
    MaxTime,            \* bound: last clock reading
    None,
    Anomalies           \* subset of {"fault", "kill", "power", "setback"}

ASSUME ExpiryAssumption == Expiry \in [Envelopes -> Nat]
ASSUME TimeAssumption == MaxTime \in Nat /\ MaxReplayEntries \in Nat
ASSUME NoneAssumption == None \notin Envelopes \cup Stores
ASSUME AnomaliesAssumption == Anomalies \subseteq {"fault", "kill", "power", "setback"}

VARIABLES
    clock,      \* wall clock, milliseconds
    file,       \* content of each store file
    disk,       \* contents of each file that power loss may leave
    pc,         \* next step of each receiver
    store,      \* store file of the running receive
    env,        \* envelope of the running receive
    authentic,  \* whether the message it read is authentic
    seen,       \* its SeenEnvelopeIds value
    verified,   \* history: ids of messages that decrypted and verified
    delivered,  \* history: ids whose payload was handed out
    replayed    \* history: ids whose payload was handed out again

callVars == <<store, env, authentic, seen>>
history == <<verified, delivered, replayed>>
vars == <<clock, file, disk, pc, callVars, history>>

Steps == {"idle", "parse", "open", "evict", "insert", "truncate", "write", "output"}

\* A store file: absent, cut short by an unfinished write, or a serialized store.
File == [kind : {"absent", "torn", "store"}, ids : SUBSET Envelopes]
AbsentFile == [kind |-> "absent", ids |-> {}]
TornFile == [kind |-> "torn", ids |-> {}]

ReceiveTypeOK ==
    /\ clock \in 0 .. MaxTime
    /\ file \in [Stores -> File]
    /\ disk \in [Stores -> SUBSET File]
    /\ pc \in [Receivers -> Steps]
    /\ store \in [Receivers -> Stores \cup {None}]
    /\ env \in [Receivers -> Envelopes \cup {None}]
    /\ authentic \in [Receivers -> BOOLEAN]
    /\ seen \in [Receivers -> SUBSET Envelopes]
    /\ verified \subseteq Envelopes
    /\ delivered \subseteq Envelopes
    /\ replayed \subseteq Envelopes

Init ==
    /\ clock = 0
    /\ file = [s \in Stores |-> AbsentFile]
    /\ disk = [s \in Stores |-> {AbsentFile}]
    /\ pc = [r \in Receivers |-> "idle"]
    /\ store = [r \in Receivers |-> None]
    /\ env = [r \in Receivers |-> None]
    /\ authentic = [r \in Receivers |-> FALSE]
    /\ seen = [r \in Receivers |-> {}]
    /\ verified = {}
    /\ delivered = {}
    /\ replayed = {}

-----------------------------------------------------------------------------
Live(e) == Expiry[e] = 0 \/ Expiry[e] > clock

(***************************************************************************)
(* Serialization keeps every id and expiry; parsing rejects what is cut    *)
(* short and what counts more than MAX_REPLAY_ENTRIES ids.                 *)
(***************************************************************************)
\* Bug form: the entries without the leading count.
ToBytesHeadless(ids) == [kind |-> "headless", ids |-> ids]

ToBytes(ids) == [kind |-> "store", ids |-> ids]
FromBytesOK(f) == f.kind = "store" /\ Cardinality(f.ids) <= MaxReplayEntries

\* Bug form: a store that does not parse is taken for an empty one.
LoadAnything(s) == file[s].kind # "headless"

\* load_seen_ids: a missing file is an empty store, a malformed one is an error.
LoadOK(s) == file[s].kind = "absent" \/ FromBytesOK(file[s])

Goto(r, step) == pc' = [pc EXCEPT ![r] = step]

Return(r) ==
    /\ Goto(r, "idle")
    /\ store' = [store EXCEPT ![r] = None]
    /\ env' = [env EXCEPT ![r] = None]
    /\ authentic' = [authentic EXCEPT ![r] = FALSE]
    /\ seen' = [seen EXCEPT ![r] = {}]

SetFile(s, f) ==
    /\ file' = [file EXCEPT ![s] = f]
    /\ disk' = [disk EXCEPT ![s] = @ \cup {f}]

-----------------------------------------------------------------------------
(***************************************************************************)
(* The command is run on some message, with a store path given or derived  *)
(* from its other arguments, and loads the store.                          *)
(***************************************************************************)
LoadSeenIds(r) ==
    /\ pc[r] = "idle"
    /\ \E s \in Stores, e \in Envelopes, ok \in BOOLEAN :
        /\ LoadOK(s)
        /\ store' = [store EXCEPT ![r] = s]
        /\ env' = [env EXCEPT ![r] = e]
        /\ authentic' = [authentic EXCEPT ![r] = ok]
        /\ seen' = [seen EXCEPT ![r] = file[s].ids]
    /\ Goto(r, "parse")
    /\ UNCHANGED <<clock, file, disk, history>>

\* envelope_from_bytes, then validate_for_open: the first look at the clock.
\* The recipient key file and the sender identity are loaded after it.
ValidateForOpen(r) ==
    /\ pc[r] = "parse"
    /\ Live(env[r])
    /\ Goto(r, "open")
    /\ UNCHANGED <<clock, file, disk, callVars, history>>

\* Bug form: the id is checked and recorded before the message is authenticated.
OpenUnverified(r) ==
    /\ pc[r] = "open"
    /\ Live(env[r])
    /\ verified' = IF authentic[r] THEN verified \cup {env[r]} ELSE verified
    /\ Goto(r, "evict")
    /\ UNCHANGED <<clock, file, disk, callVars, delivered, replayed>>

\* open_envelope up to the signature check; validate_envelope reads the clock.
OpenEnvelope(r) ==
    /\ pc[r] = "open"
    /\ Live(env[r])
    /\ authentic[r]
    /\ verified' = verified \cup {env[r]}
    /\ Goto(r, "evict")
    /\ UNCHANGED <<clock, file, disk, callVars, delivered, replayed>>

EvictExpired(r) ==
    /\ pc[r] = "evict"
    /\ seen' = [seen EXCEPT ![r] = {e \in @ : Live(e)}]
    /\ Goto(r, "insert")
    /\ UNCHANGED <<clock, file, disk, store, env, authentic, history>>

\* Bug form: check_and_insert does not look at the expiry again after eviction.
InsertIgnoringExpiry(r) ==
    /\ pc[r] = "insert"
    /\ env[r] \notin seen[r]
    /\ seen' = [seen EXCEPT ![r] = @ \cup {env[r]}]
    /\ Goto(r, "truncate")
    /\ UNCHANGED <<clock, file, disk, store, env, authentic, history>>

\* The rest of check_and_insert, with a clock reading of its own.
CheckAndInsert(r) ==
    /\ pc[r] = "insert"
    /\ Live(env[r])
    /\ env[r] \notin seen[r]
    /\ seen' = [seen EXCEPT ![r] = @ \cup {env[r]}]
    /\ Goto(r, "truncate")
    /\ UNCHANGED <<clock, file, disk, store, env, authentic, history>>

(***************************************************************************)
(* An expired envelope, a message that does not parse, decrypt or verify,  *)
(* and a replayed id are errors; nothing has been written yet.             *)
(***************************************************************************)
Reject(r) ==
    /\ \/ pc[r] \in {"parse", "open"} /\ ~(Live(env[r]) /\ authentic[r])
       \/ pc[r] = "insert" /\ ~Live(env[r])
       \/ pc[r] = "insert" /\ env[r] \in seen[r]
    /\ Return(r)
    /\ UNCHANGED <<clock, file, disk, history>>

(***************************************************************************)
(* std::fs::write truncates the store file and then writes it.             *)
(***************************************************************************)
TruncateStore(r) ==
    /\ pc[r] = "truncate"
    /\ SetFile(store[r], TornFile)
    /\ Goto(r, "write")
    /\ UNCHANGED <<clock, callVars, history>>

WriteStore(r) ==
    /\ pc[r] = "write"
    /\ SetFile(store[r], ToBytes(seen[r]))
    /\ Goto(r, "output")
    /\ UNCHANGED <<clock, callVars, history>>

\* restrict_owner_only and the output write; the payload is handed out.
Deliver(r) ==
    /\ pc[r] = "output"
    /\ replayed' = IF env[r] \in delivered THEN replayed \cup {env[r]} ELSE replayed
    /\ delivered' = delivered \cup {env[r]}
    /\ Return(r)
    /\ UNCHANGED <<clock, file, disk, verified>>

\* Any file operation may fail: reading the envelope, the key file or the sender
\* identity, writing the store (which leaves it truncated), the permissions and
\* the output.
IOFails(r) ==
    /\ "fault" \in Anomalies
    /\ pc[r] \in {"parse", "open", "truncate", "write", "output"}
    /\ Return(r)
    /\ UNCHANGED <<clock, file, disk, history>>

-----------------------------------------------------------------------------
(***************************************************************************)
(* The environment: time, a clock set back, killed processes, power loss.  *)
(* The store file is never fsynced; Writeback is the kernel's.             *)
(***************************************************************************)
Tick == clock < MaxTime /\ clock' = clock + 1 /\ UNCHANGED <<file, disk, pc, callVars, history>>

SetBack ==
    /\ "setback" \in Anomalies
    /\ clock > 0
    /\ clock' = clock - 1
    /\ UNCHANGED <<file, disk, pc, callVars, history>>

Kill(r) ==
    /\ "kill" \in Anomalies
    /\ pc[r] # "idle"
    /\ Return(r)
    /\ UNCHANGED <<clock, file, disk, history>>

Writeback(s) ==
    /\ disk' = [disk EXCEPT ![s] = {file[s]}]
    /\ UNCHANGED <<clock, file, pc, callVars, history>>

PowerLoss ==
    /\ "power" \in Anomalies
    /\ file' \in [Stores -> UNION {disk[s] : s \in Stores}]
    /\ \A s \in Stores : file'[s] \in disk[s]
    /\ disk' = [s \in Stores |-> {file'[s]}]
    /\ pc' = [r \in Receivers |-> "idle"]
    /\ store' = [r \in Receivers |-> None]
    /\ env' = [r \in Receivers |-> None]
    /\ authentic' = [r \in Receivers |-> FALSE]
    /\ seen' = [r \in Receivers |-> {}]
    /\ UNCHANGED <<clock, history>>

ReceiveStep(r) ==
    \/ LoadSeenIds(r) \/ ValidateForOpen(r) \/ OpenEnvelope(r) \/ EvictExpired(r)
    \/ CheckAndInsert(r) \/ Reject(r) \/ TruncateStore(r) \/ WriteStore(r)
    \/ Deliver(r) \/ IOFails(r)

Next ==
    \/ \E r \in Receivers : ReceiveStep(r) \/ Kill(r)
    \/ \E s \in Stores : Writeback(s)
    \/ Tick \/ SetBack \/ PowerLoss

Spec == Init /\ [][Next]_vars

-----------------------------------------------------------------------------
(***************************************************************************)
(* Properties.                                                             *)
(***************************************************************************)
\* transfer_profile_v1.md, what a recipient must reject: "Replay of a previously
\* accepted envelope_id".  No payload is handed out twice.  Holds for one
\* receiver at a time that always names the same store, in spite of failures
\* and kills between any two steps and of eviction, as long as the clock never
\* goes back.
AtMostOnce == replayed = {}

\* check_and_insert is called only "after AEAD decryption and sender signature
\* verification": whatever else happens, an id is recorded in a store, or its
\* payload handed out, only if an authentic message with that id was opened, so
\* a forged message never makes the genuine one count as a replay.
VerifiedOnly ==
    /\ delivered \subseteq verified
    /\ \A s \in Stores : file[s].ids \subseteq verified

\* What a receive has accepted and has still to record or to hand out.
Accepted(r) == pc[r] \in {"truncate", "write", "output"}
HeldBy == [r \in Receivers |-> IF Accepted(r) THEN env[r] ELSE None]

\* A store that load_seen_ids rejects, other than while it is being rewritten.
Unloadable == \E s \in Stores : ~LoadOK(s) /\ \A r \in Receivers : pc[r] = "write" => store[r] # s

Guard == INSTANCE ReplayGuard WITH
    Recipients <- Receivers, Ids <- Envelopes, Deadline <- Expiry, Nothing <- None,
    now <- clock, opened <- verified, held <- HeldBy, taken <- delivered, closed <- Unloadable

\* One receiver and one store, in spite of failures and kills, behave as a guard
\* that checks authenticity, expiry and novelty in one step, the check_and_insert.
\* A store left torn, or with more ids than from_bytes accepts, is never taken
\* for an empty one: it ends all receiving.
ImplementsReplayGuard == Guard!GuardSpec

-----------------------------------------------------------------------------
(***************************************************************************)
(* The inductive invariants behind the properties above.                   *)
(***************************************************************************)
\* A running receive works on a store and an envelope.
CallsOK == \A r \in Receivers : pc[r] # "idle" => store[r] \in Stores /\ env[r] \in Envelopes

Opened == {"evict", "insert", "truncate", "write", "output"}

\* The strengthening of VerifiedOnly: also in memory and after power loss.
VerifiedInv ==
    /\ ReceiveTypeOK
    /\ CallsOK
    /\ VerifiedOnly
    /\ \A s \in Stores : file[s] \in disk[s] /\ \A f \in disk[s] : f.ids \subseteq verified
    /\ \A r \in Receivers : seen[r] \subseteq verified
    /\ \A r \in Receivers : pc[r] \in Opened => env[r] \in verified

\* Every envelope that was delivered and could still be accepted is known to the
\* running receive and is in the store, unless the store is unreadable.
DeliveredKnown ==
    \A e \in delivered : Live(e) =>
        /\ \A s \in Stores : file[s].kind = "torn" \/ e \in file[s].ids
        /\ \A r \in Receivers : pc[r] # "idle" => e \in seen[r]

\* Between its check and its delivery a receive has its id in memory, the id is
\* undelivered, and before the delivery the store file holds it.
AcceptedOnce ==
    \A r \in Receivers :
        /\ pc[r] \in {"truncate", "write", "output"} =>
            env[r] \in seen[r] /\ env[r] \notin delivered
        /\ pc[r] = "output" => file[store[r]] = ToBytes(seen[r])

\* The strengthening of AtMostOnce for one receiver and one store.
OnceInv == VerifiedInv /\ AtMostOnce /\ DeliveredKnown /\ AcceptedOnce

\* Until a receive truncates its store, that is the readable store it loaded.
LoadedReadable ==
    \A r \in Receivers : pc[r] \in {"parse", "open", "evict", "insert", "truncate"} => LoadOK(store[r])

\* The strengthening under which every step is a step of the guard, or none.
GuardInv == OnceInv /\ LoadedReadable

OneReceiver == \A r, q \in Receivers : r = q
OneStore == \A s, t \in Stores : s = t
SteadyClock == Anomalies \cap {"setback", "power"} = {}
=============================================================================
