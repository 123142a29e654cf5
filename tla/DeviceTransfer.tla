--------------------------- MODULE DeviceTransfer ---------------------------
(***************************************************************************)
(* Devices that pair and then send each other envelopes: `device pair`     *)
(* with the three files it writes, `transfer create`, and what             *)
(* `transfer receive` accepts (CLI main.rs, keys/device.rs,                *)
(* keys/pairing.rs, transfer/envelope.rs, transfer/replay.rs).             *)
(*                                                                         *)
(* Identities are numbered in the order in which `generate` made them; the *)
(* number stands for the device id, the three key pairs and the name.      *)
(* Cryptography is symbolic: hashes are injective, a ciphertext opens with *)
(* the key it was made with, a signature verifies for its signer and text. *)
(* The k-th envelope draws k for its envelope id, its ephemeral key and    *)
(* its ML-KEM ciphertext.  Between devices, envelopes may be lost,         *)
(* repeated, reordered, and damaged: any mixture of the fields of          *)
(* envelopes sent may arrive, with a transcript hash that fits or not.     *)
(*                                                                         *)
(* A receive is one step here and uses one replay store per device;        *)
(* TransferReceive models its steps, the store file and its failures.      *)
(***************************************************************************)
EXTENDS Naturals, Sequences

CONSTANTS
    Devices,
    MaxIdentities,  \* bound: identities generated
    MaxEnvelopes,   \* bound: envelopes created
    Expiries,       \* expiry times a sender may choose
    MaxTime         \* bound: last clock reading

ASSUME BoundsAssumption == MaxIdentities \in Nat /\ MaxEnvelopes \in Nat /\ MaxTime \in Nat
ASSUME ExpiriesAssumption == Expiries \subseteq Nat \ {0}

VARIABLES
    clock,
    owner,      \* device of each identity generated so far
    file,       \* key, self identity and peer identity file of each device
    pairing,    \* the running `device pair` of each device
    paired,     \* history: identities of the last "Pairing complete."
    sent,       \* envelopes created so far
    seen,       \* replay store of each device: ids with their expiry
    delivered   \* history: payloads handed out, in order

pairVars == <<file, pairing, paired>>
mailVars == <<seen, delivered>>
vars == <<clock, owner, pairVars, sent, mailVars>>

NoIdentity == 0
Anonymous == 0
Never == 0      \* expires_at absent, also in the transcript

Identities == 1 .. MaxIdentities
Names == {"key", "self", "peer"}
At(step, own, peer, out) == [step |-> step, own |-> own, peer |-> peer, out |-> out]
Idle == At("idle", NoIdentity, NoIdentity, 1)
Unpaired == [own |-> NoIdentity, peer |-> NoIdentity]

\* A file is absent, cut short, or holds an identity (its private keys, sealed,
\* in the key file).  Every field of either format is required and the last one
\* of an identity text is its creation time, which nothing here depends on.
Files == [kind : {"absent", "torn", "whole"}, id : Identities \cup {NoIdentity}]
Absent == [kind |-> "absent", id |-> NoIdentity]
Torn == [kind |-> "torn", id |-> NoIdentity]

\* Bug form: the identity is written without its version line.
SerializeHeadless(n) == [kind |-> "headless", id |-> n]

Serialize(n) == [kind |-> "whole", id |-> n]
Parses(f) == f.kind = "whole"

Init ==
    /\ clock = 0
    /\ owner = <<>>
    /\ file = [d \in Devices |-> [f \in Names |-> Absent]]
    /\ pairing = [d \in Devices |-> Idle]
    /\ paired = [d \in Devices |-> Unpaired]
    /\ sent = <<>>
    /\ seen = [d \in Devices |-> {}]
    /\ delivered = <<>>

-----------------------------------------------------------------------------
(***************************************************************************)
(* device pair.  A new identity is generated and shown, the peer's pasted, *)
(* the authentication string shown and confirmed; only then the key file,  *)
(* the own and the peer's identity file are written, each in place.        *)
(***************************************************************************)
Generate(d) ==
    /\ pairing[d] = Idle
    /\ Len(owner) < MaxIdentities
    /\ owner' = Append(owner, d)
    /\ pairing' = [pairing EXCEPT ![d] = At("paste", Len(owner'), NoIdentity, 1)]
    /\ UNCHANGED <<clock, file, paired, sent, mailVars>>

\* Any identity another device has shown, also one it gave up since.
PastePeer(d) ==
    /\ pairing[d].step = "paste"
    /\ \E n \in DOMAIN owner :
        /\ owner[n] # d
        /\ pairing' = [pairing EXCEPT ![d] = At("confirm", @.own, n, 1)]
    /\ UNCHANGED <<clock, owner, file, paired, sent, mailVars>>

\* The authentication string is shown and accepted.  It is derived from the peer's
\* identity and a nonce of this device only, so the two devices show different
\* strings (main.rs says so); what the user answers is not constrained.
ConfirmSas(d) ==
    /\ pairing[d].step = "confirm"
    /\ pairing' = [pairing EXCEPT ![d] = At("truncate", @.own, @.peer, 1)]
    /\ UNCHANGED <<clock, owner, file, paired, sent, mailVars>>

\* Text that does not parse, a string that is not confirmed, an I/O error or a kill.
AbortPairing(d) ==
    /\ pairing[d] # Idle
    /\ pairing' = [pairing EXCEPT ![d] = Idle]
    /\ UNCHANGED <<clock, owner, file, paired, sent, mailVars>>

\* Bug form: the identity can be shared before its key is stored.
IdentityFirst == <<"self", "key", "peer">>

\* The order of the writes; the key file's permissions are set after the first.
FileOrder == <<"key", "self", "peer">>

\* std::fs::write truncates a file before it writes it.
TruncateFile(d) ==
    /\ pairing[d].step = "truncate"
    /\ file' = [file EXCEPT ![d][FileOrder[pairing[d].out]] = Torn]
    /\ paired' = [paired EXCEPT ![d] = Unpaired]
    /\ pairing' = [pairing EXCEPT ![d] = At("write", @.own, @.peer, @.out)]
    /\ UNCHANGED <<clock, owner, sent, mailVars>>

WriteFile(d) ==
    LET p == pairing[d]
        name == FileOrder[p.out]
    IN  /\ p.step = "write"
        /\ file' = [file EXCEPT ![d][name] = Serialize(IF name = "peer" THEN p.peer ELSE p.own)]
        /\ p.out < Len(FileOrder)
        /\ pairing' = [pairing EXCEPT ![d] = At("truncate", p.own, p.peer, p.out + 1)]
        /\ UNCHANGED <<clock, owner, paired, sent, mailVars>>

\* The last file, then "Pairing complete."
WriteLastFile(d) ==
    LET p == pairing[d]
    IN  /\ p.step = "write"
        /\ p.out = Len(FileOrder)
        /\ file' = [file EXCEPT ![d][FileOrder[p.out]] = Serialize(p.peer)]
        /\ pairing' = [pairing EXCEPT ![d] = Idle]
        /\ paired' = [paired EXCEPT ![d] = [own |-> p.own, peer |-> p.peer]]
        /\ UNCHANGED <<clock, owner, sent, mailVars>>

-----------------------------------------------------------------------------
(***************************************************************************)
(* Envelopes.  The header fields travel in clear; the transcript binds     *)
(* them, the transfer key and the signature bind the transcript.           *)
(***************************************************************************)
\* Bug form: the expiry is left out of the transcript.
TranscriptWithoutExpiry(h, key) ==
    <<h.sender, h.eph, IF h.rcpt # Anonymous THEN <<"id", h.rcpt>> ELSE <<"key", key>>, h.kem, h.id>>

\* compute_transcript_hash.  A device id has 16 bytes and a public key 32, so the
\* two ways to name the recipient never give the same text.
Transcript(h, key) ==
    <<h.sender, h.eph, IF h.rcpt # Anonymous THEN <<"id", h.rcpt>> ELSE <<"key", key>>, h.kem, h.id, h.exp>>

\* hybrid::derive_transfer_key and receive_transfer_key agree on these inputs: the
\* key exchange of an ephemeral key, and the secret of an ML-KEM ciphertext, with
\* the keys of one identity, and the transcript.
TransferKey(eph, kem, n, hash) == [eph |-> eph, kem |-> kem, for |-> n, hash |-> hash]

\* create_envelope: header h, sealed for the keys of identity n, signed by the
\* sender inside the ciphertext (encode_signed_payload).
Envelope(h, n) ==
    LET hash == Transcript(h, n)
    IN  [header |-> h, hash |-> hash,
         body |-> [key |-> TransferKey(h.eph, h.kem, n, hash), signer |-> h.sender,
                   signed |-> hash, payload |-> h.id]]

\* Bug form: an envelope is still good at the moment it expires.
LiveAtExpiry(exp) == exp = Never \/ exp >= clock

Live(exp) == exp = Never \/ exp > clock

\* transfer create, from the sealed key file to the identity in the peer file.
\* The command names the recipient; create_signed_transfer_envelope also allows
\* anonymous ones.
CreateEnvelope(d) ==
    /\ Parses(file[d]["key"]) /\ Parses(file[d]["peer"])
    /\ Len(sent) < MaxEnvelopes
    /\ \E exp \in Expiries \cup {Never}, rcpt \in {file[d]["peer"].id, Anonymous} :
        LET k == Len(sent) + 1
            h == [id |-> k, sender |-> file[d]["key"].id, rcpt |-> rcpt,
                  eph |-> k, kem |-> k, exp |-> exp]
        IN  Live(exp) /\ sent' = Append(sent, Envelope(h, file[d]["peer"].id))
    /\ UNCHANGED <<clock, owner, pairVars, mailVars>>

\* Bug form: anonymous envelopes are not treated apart, their transcript is
\* compared before the recipient's key is known.
ValidateWithoutKey(e) == Live(e.header.exp) /\ e.hash = Transcript(e.header, NoIdentity)

\* validate_for_open, when the envelope is parsed.
ValidateForOpen(e) ==
    /\ Live(e.header.exp)
    /\ e.header.rcpt = Anonymous \/ e.hash = Transcript(e.header, NoIdentity)

\* validate_envelope with the recipient's key, decryption, sender signature.
Opens(e, own, peer) ==
    /\ Live(e.header.exp)
    /\ e.hash = Transcript(e.header, own)
    /\ e.body.key = TransferKey(e.header.eph, e.header.kem, own, e.hash)
    /\ e.body.signer = peer /\ e.body.signed = e.hash

\* Bug form: an absent expiry, stored as zero, counts as past.
EvictZero(entries) == {s \in entries : s.exp > clock}

EvictExpired(entries) == {s \in entries : Live(s.exp)}

\* Everything transfer receive asks of an envelope: the key file and the sender's
\* identity load, the envelope opens, its id is new.
Accepts(d, e) ==
    /\ Parses(file[d]["key"]) /\ Parses(file[d]["peer"])
    /\ ValidateForOpen(e)
    /\ Opens(e, file[d]["key"].id, file[d]["peer"].id)
    /\ \A s \in EvictExpired(seen[d]) : s.id # e.header.id

\* What may arrive: fields of envelopes sent, in any mixture and with any expiry.
Headers ==
    LET field(f) == {sent[k].header[f] : k \in DOMAIN sent}
    IN  [id : field("id"), sender : field("sender"), rcpt : field("rcpt") \cup {Anonymous},
         eph : field("eph"), kem : field("kem"), exp : Expiries \cup {Never}]

Hashes(h, own) == {sent[k].hash : k \in DOMAIN sent} \cup {Transcript(h, own)}

\* A body for another key or from another signer opens with no header (Opens).
Openable(own, peer) ==
    {k \in DOMAIN sent : sent[k].body.key.for = own /\ sent[k].body.signer = peer}

\* An envelope that is not accepted changes nothing.
ReceiveEnvelope(d) ==
    LET own == file[d]["key"].id
        peer == file[d]["peer"].id
    IN  /\ \E k \in Openable(own, peer), h \in Headers : \E hash \in Hashes(h, own) :
            /\ Accepts(d, [header |-> h, hash |-> hash, body |-> sent[k].body])
            /\ seen' = [seen EXCEPT ![d] = EvictExpired(@) \cup {[id |-> h.id, exp |-> h.exp]}]
            /\ delivered' = Append(delivered, [header |-> h, payload |-> sent[k].body.payload,
                                               own |-> own, peer |-> peer])
        /\ UNCHANGED <<clock, owner, pairVars, sent>>

Tick == clock < MaxTime /\ clock' = clock + 1 /\ UNCHANGED <<owner, pairVars, sent, mailVars>>

PairStep(d) ==
    \/ Generate(d) \/ PastePeer(d) \/ ConfirmSas(d) \/ AbortPairing(d)
    \/ TruncateFile(d) \/ WriteFile(d) \/ WriteLastFile(d)

Next ==
    \/ \E d \in Devices : PairStep(d) \/ CreateEnvelope(d) \/ ReceiveEnvelope(d)
    \/ Tick

Spec == Init /\ [][Next]_vars

-----------------------------------------------------------------------------
(***************************************************************************)
(* Properties.                                                             *)
(***************************************************************************)
\* Files hold what they are meant to: identities generated on this device in the
\* first two, of another in the third, whatever was interrupted.
DeviceTypeOK ==
    /\ clock \in 0 .. MaxTime
    /\ file \in [Devices -> [Names -> Files]]
    /\ \A d \in Devices, f \in Names :
        Parses(file[d][f]) =>
            file[d][f].id \in DOMAIN owner /\ (owner[file[d][f].id] = d <=> f # "peer")

\* transfer_profile_v1.md section 4: the transcript binds the clear fields.  A
\* payload handed out comes with the header it was created with, was made by
\* the identity the receiver trusts and for the identity whose key it holds.
DeliveredAsCreated ==
    \A i \in DOMAIN delivered : \E k \in DOMAIN sent :
        LET r == delivered[i]
            e == sent[k]
        IN  /\ e.header = r.header /\ e.body.payload = r.payload
            /\ r.header.sender = r.peer
            /\ r.header.rcpt \in {r.own, Anonymous} /\ e.body.key.for = r.own

\* "Replay of a previously accepted envelope_id" (transfer_profile_v1.md:116): the
\* replay store knows the id and expiry an arriving header claims; still no
\* payload is handed out twice, after eviction and re-pairing either.
DeliveredOnce ==
    \A i, j \in DOMAIN delivered : delivered[i].payload = delivered[j].payload => i = j

\* device pair stores the key before the identity that others encrypt to: a self
\* identity file never names an identity whose key was not stored.  The key
\* file has its key or a later one, or the write of a later one was cut short.
SharedIdentityHasKey ==
    \A d \in Devices : Parses(file[d]["self"]) =>
        file[d]["key"].kind = "torn" \/ file[d]["key"].id >= file[d]["self"].id

\* After "Pairing complete." on both sides with each other's identities, and until
\* one of them writes again, either side can send, and whatever it sends,
\* anonymous or not, opens at the other unless it is expired or known.
PairedCanExchange ==
    \A a, b \in Devices :
        paired[a].own # NoIdentity /\ paired[a].own = paired[b].peer /\ paired[a].peer = paired[b].own =>
            /\ Parses(file[b]["key"]) /\ Parses(file[b]["peer"])
            /\ \A k \in DOMAIN sent :
                /\ sent[k].header.sender = paired[b].own
                /\ sent[k].body.key.for = paired[a].own
                /\ Live(sent[k].header.exp)
                /\ \A s \in seen[a] : s.id # sent[k].header.id
                => Accepts(a, sent[k])

(***************************************************************************)
(* The promise to the users: a device holds the identity of its key file   *)
(* and trusts that of its peer file, while they parse.                     *)
(***************************************************************************)
IdentityIn(f) == IF Parses(f) THEN f.id ELSE NoIdentity
HeldBy == [d \in Devices |-> IdentityIn(file[d]["key"])]
TrustedBy == [d \in Devices |-> IdentityIn(file[d]["peer"])]

SealedMessages ==
    [k \in DOMAIN sent |->
        [from |-> sent[k].header.sender, for |-> sent[k].body.key.for,
         until |-> sent[k].header.exp]]

HandedOut ==
    [i \in DOMAIN delivered |->
        [message |-> delivered[i].payload, by |-> delivered[i].own, from |-> delivered[i].peer]]

Channel == INSTANCE AuthenticChannel WITH
    now <- clock, identity <- HeldBy, trusted <- TrustedBy,
    messages <- SealedMessages, taken <- HandedOut

\* transfer create and transfer receive implement an authentic channel: whatever
\* mixture of fields arrives, a secret is handed out only while it is live, once,
\* and where the identity it was sealed for is held and its sender trusted.
ImplementsAuthenticChannel == Channel!ChannelSpec

-----------------------------------------------------------------------------
(***************************************************************************)
(* The inductive invariants behind the properties.                         *)
(***************************************************************************)
Steps == {"idle", "paste", "confirm", "truncate", "write"}
Pairings == [step : Steps, own : Nat, peer : Nat, out : 1 .. 3]

PairingTypes ==
    /\ owner \in Seq(Devices) /\ Len(owner) <= MaxIdentities
    /\ pairing \in [Devices -> Pairings]

\* A running pairing has an identity of this device and, once pasted, one of another.
PairingOK ==
    \A d \in Devices :
        /\ pairing[d].step # "idle" => pairing[d].own \in DOMAIN owner /\ owner[pairing[d].own] = d
        /\ pairing[d].step \in {"confirm", "truncate", "write"} =>
            pairing[d].peer \in DOMAIN owner /\ owner[pairing[d].peer] # d

\* Every file names an identity that exists.
FilesOK == \A d \in Devices, f \in Names : file[d][f].id <= Len(owner)

\* A running pairing's identity is the latest of its device, and once the key
\* file is written it holds the key of that identity.
LatestOwn ==
    \A d \in Devices : pairing[d].step # "idle" =>
        /\ file[d]["key"].id <= pairing[d].own /\ file[d]["self"].id <= pairing[d].own
        /\ pairing[d].out > 1 => file[d]["key"] = Serialize(pairing[d].own)

PairInv ==
    /\ PairingTypes /\ DeviceTypeOK
    /\ PairingOK /\ FilesOK /\ LatestOwn /\ SharedIdentityHasKey

Header == [id : Nat, sender : Nat, rcpt : Nat, eph : Nat, kem : Nat, exp : Nat]
Delivery == [header : Header, payload : Nat, own : Nat, peer : Nat]

\* Whatever was sent came out of create_envelope, named or anonymous.
SentOK ==
    /\ sent \in Seq({Envelope(h, n) : h \in Header, n \in Nat})
    /\ \A k \in DOMAIN sent : sent[k].header.rcpt \in {sent[k].body.key.for, Anonymous}

MailInv == PairInv /\ SentOK /\ delivered \in Seq(Delivery) /\ DeliveredAsCreated

\* An id is used for one envelope, and the device that took an envelope remembers
\* its id as long as the envelope is live, whatever it pairs with meanwhile.
Numbered == \A k \in DOMAIN sent : sent[k].header.id = k

Remembered ==
    \A i \in DOMAIN delivered :
        LET r == delivered[i]
        IN  /\ r.own \in DOMAIN owner
            /\ r.payload = r.header.id
            /\ Live(r.header.exp) =>
                [id |-> r.header.id, exp |-> r.header.exp] \in seen[owner[r.own]]

OnceInv ==
    /\ MailInv /\ Numbered /\ Remembered /\ DeliveredOnce
    /\ DOMAIN seen = Devices

\* While a device counts as paired it is not writing, and its files are those of
\* the pairing it completed.
PairedFiles ==
    \A d \in Devices :
        /\ pairing[d].step = "write" => paired[d] = Unpaired
        /\ pairing[d].step = "truncate" /\ pairing[d].out > 1 => paired[d] = Unpaired
        /\ paired[d].own # NoIdentity =>
            /\ paired[d].peer # NoIdentity
            /\ file[d]["key"] = Serialize(paired[d].own)
            /\ file[d]["peer"] = Serialize(paired[d].peer)

ExchangeInv == MailInv /\ DOMAIN paired = Devices /\ PairedFiles
=============================================================================
