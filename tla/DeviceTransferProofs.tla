------------------------ MODULE DeviceTransferProofs ------------------------
(***************************************************************************)
(* Proofs about DeviceTransfer, for every set of devices, every choice of  *)
(* expiries and every bound.                                               *)
(***************************************************************************)
EXTENDS DeviceTransfer, TLAPS

USE BoundsAssumption, ExpiriesAssumption

-----------------------------------------------------------------------------
(***************************************************************************)
(* Pairing: what the three files of a device hold.                         *)
(***************************************************************************)
LEMMA InitPair == Init => PairInv
<1> SUFFICES ASSUME Init PROVE PairInv
    OBVIOUS
<1> USE DEF Init, Idle, At, Absent, NoIdentity
<1>1. PairingTypes
      BY DEF PairingTypes, Pairings, Steps
<1>2. DeviceTypeOK
      BY DEF DeviceTypeOK, Files, Parses
<1>3. PairingOK /\ FilesOK /\ LatestOwn
      BY DEF PairingOK, FilesOK, LatestOwn, Names
<1>4. SharedIdentityHasKey
      BY DEF SharedIdentityHasKey, Parses, Names
<1>5. QED BY <1>1, <1>2, <1>3, <1>4 DEF PairInv

\* Steps of the mail and of the clock leave pairing alone.
LEMMA MailKeepsPair ==
    ASSUME PairInv, UNCHANGED <<owner, file, pairing>>, clock' \in 0 .. MaxTime
    PROVE  PairInv'
<1> USE DEF PairInv
<1>1. PairingTypes' /\ DeviceTypeOK'
      BY DEF PairingTypes, DeviceTypeOK
<1>2. PairingOK' /\ FilesOK' /\ LatestOwn' /\ SharedIdentityHasKey'
      BY DEF PairingOK, FilesOK, LatestOwn, SharedIdentityHasKey
<1>3. QED BY <1>1, <1>2

LEMMA GeneratePair ==
    ASSUME PairInv, NEW d \in Devices, Generate(d)
    PROVE  PairInv'
<1> USE DEF PairInv
<1> DEFINE n == Len(owner) + 1
<1>1. /\ owner' = Append(owner, d) /\ file' = file /\ clock' = clock
      /\ Len(owner') = n /\ n \in Nat /\ n <= MaxIdentities
      /\ owner' \in Seq(Devices) /\ owner'[n] = d
      /\ \A i \in 1 .. Len(owner) : owner'[i] = owner[i]
      BY DEF Generate, PairingTypes
<1>2. pairing' = [pairing EXCEPT ![d] = [step |-> "paste", own |-> n, peer |-> 0, out |-> 1]]
      BY <1>1 DEF Generate, At, NoIdentity
<1>3. PairingTypes'
      BY <1>1, <1>2 DEF PairingTypes, Pairings, Steps
<1>4. DOMAIN owner = 1 .. Len(owner) /\ DOMAIN owner' = 1 .. n
      BY <1>1 DEF PairingTypes
<1>5. PairingOK'
      BY <1>1, <1>2, <1>4 DEF PairingOK, PairingTypes
<1>6. ASSUME NEW e \in Devices, NEW f \in Names
      PROVE  file[e][f] \in Files /\ file[e][f].id \in Nat /\ file[e][f].id <= Len(owner)
      BY DEF DeviceTypeOK, Files, Identities, FilesOK, NoIdentity
<1>7. FilesOK'
      BY <1>1, <1>6 DEF FilesOK, PairingTypes
<1>8. ASSUME NEW e \in Devices, NEW f \in Names, Parses(file[e][f])
      PROVE  owner'[file[e][f].id] = e <=> f # "peer"
      BY <1>1, <1>4, <1>8 DEF DeviceTypeOK, PairingTypes
<1>9. DeviceTypeOK'
      BY <1>1, <1>4, <1>8 DEF DeviceTypeOK, PairingTypes
<1>10. LatestOwn'
      BY <1>1, <1>2, <1>6 DEF LatestOwn, Names, PairingTypes
<1>11. SharedIdentityHasKey'
      BY <1>1 DEF SharedIdentityHasKey
<1>12. QED BY <1>3, <1>5, <1>7, <1>9, <1>10, <1>11

\* PastePeer, ConfirmSas and AbortPairing touch only the pairing of their device.
LEMMA PromptPair ==
    ASSUME PairInv, NEW d \in Devices, PastePeer(d) \/ ConfirmSas(d) \/ AbortPairing(d)
    PROVE  PairInv'
<1> USE DEF PairInv
<1>1. owner' = owner /\ file' = file /\ clock' = clock
      BY DEF PastePeer, ConfirmSas, AbortPairing
<1>2. PICK q \in Pairings :
        /\ pairing' = [pairing EXCEPT ![d] = q]
        /\ q.step # "idle" =>
            /\ q.own = pairing[d].own /\ q.out = 1
            /\ pairing[d].step # "idle"
            /\ q.step \in {"confirm", "truncate", "write"} =>
                q.peer \in DOMAIN owner /\ owner[q.peer] # d
  <2> USE DEF At, PairingTypes, Pairings, Steps
  <2>1. CASE PastePeer(d)
    <3>1. PICK n \in DOMAIN owner :
            owner[n] # d /\ pairing' = [pairing EXCEPT ![d] = At("confirm", pairing[d].own, n, 1)]
          BY <2>1 DEF PastePeer
    <3> DEFINE q == At("confirm", pairing[d].own, n, 1)
    <3>2. /\ q \in Pairings /\ q.step = "confirm" /\ q.peer = n /\ q.out = 1
          /\ q.own = pairing[d].own /\ pairing[d].step = "paste"
          BY <2>1 DEF PastePeer
    <3>3. pairing' = [pairing EXCEPT ![d] = q]
          BY <3>1
    <3> HIDE DEF q
    <3>4. QED BY <3>1, <3>2, <3>3
  <2>2. CASE ConfirmSas(d)
    <3> DEFINE q == At("truncate", pairing[d].own, pairing[d].peer, 1)
    <3>1. /\ q \in Pairings /\ q.step = "truncate" /\ q.peer = pairing[d].peer /\ q.out = 1
          /\ q.own = pairing[d].own /\ pairing[d].step = "confirm"
          BY <2>2 DEF ConfirmSas
    <3>2. pairing' = [pairing EXCEPT ![d] = q]
          BY <2>2 DEF ConfirmSas
    <3>3. q.peer \in DOMAIN owner /\ owner[q.peer] # d
          BY <3>1 DEF PairingOK
    <3> HIDE DEF q
    <3>4. QED BY <3>1, <3>2, <3>3
  <2>3. CASE AbortPairing(d)
    <3>1. Idle \in Pairings /\ Idle.step = "idle"
          BY DEF Idle, NoIdentity
    <3>2. QED BY <2>3, <3>1 DEF AbortPairing
  <2>4. QED BY <2>1, <2>2, <2>3
<1>3. PairingTypes' /\ DeviceTypeOK' /\ FilesOK' /\ SharedIdentityHasKey'
      BY <1>1, <1>2 DEF PairingTypes, DeviceTypeOK, FilesOK, SharedIdentityHasKey
<1>4. PairingOK'
      BY <1>1, <1>2 DEF PairingOK, PairingTypes
<1>5. LatestOwn'
      BY <1>1, <1>2 DEF LatestOwn, PairingTypes
<1>6. QED BY <1>3, <1>4, <1>5

LEMMA Order ==
    /\ Len(FileOrder) = 3 /\ FileOrder[1] = "key" /\ FileOrder[2] = "self" /\ FileOrder[3] = "peer"
    /\ \A i \in 1 .. 3 : FileOrder[i] \in Names
BY DEF FileOrder, Names

\* A write into one file keeps the invariant if the file gets a well-typed value and
\* the order of the writes is respected.
LEMMA FileWritten ==
    ASSUME PairInv, NEW d \in Devices, NEW name \in Names, NEW q \in Pairings, NEW v \in Files,
           owner' = owner, clock' = clock,
           pairing' = [pairing EXCEPT ![d] = q],
           file' = [file EXCEPT ![d][name] = v],
           v.id <= Len(owner),
           Parses(v) => v.id \in DOMAIN owner /\ (owner[v.id] = d <=> name # "peer"),
           pairing[d].step # "idle",
           q.step # "idle" =>
                /\ pairing[d].step \in {"confirm", "truncate", "write"}
                /\ q.own = pairing[d].own /\ q.peer = pairing[d].peer
                /\ name # "peer" => v.id <= q.own
                /\ q.out > 1 => IF name = "key" THEN v = Serialize(q.own)
                                ELSE file[d]["key"] = Serialize(q.own),
           name = "key" /\ v.kind # "torn" => v.id = pairing[d].own,
           name = "self" /\ Parses(v) => file[d]["key"] = Serialize(v.id)
    PROVE  PairInv'
<1> USE DEF PairInv
<1>1. PairingTypes'
      BY DEF PairingTypes
<1>2. /\ file' \in [Devices -> [Names -> Files]]
      /\ \A e \in Devices, f \in Names : file'[e][f] = IF e = d /\ f = name THEN v ELSE file[e][f]
      BY DEF DeviceTypeOK
<1>3. DeviceTypeOK'
      BY <1>2 DEF DeviceTypeOK
<1>4. FilesOK'
      BY <1>2 DEF FilesOK
<1>5. \A e \in Devices : pairing'[e] = IF e = d THEN q ELSE pairing[e]
      BY DEF PairingTypes
<1>6. PairingOK'
      BY <1>5 DEF PairingOK
<1>7. {"key", "self"} \subseteq Names
      BY DEF Names
<1>8. LatestOwn'
      BY <1>2, <1>5, <1>7 DEF LatestOwn
<1>9. SharedIdentityHasKey'
  <2> SUFFICES ASSUME NEW e \in Devices, Parses(file'[e]["self"])
               PROVE  file'[e]["key"].kind = "torn" \/ file'[e]["key"].id >= file'[e]["self"].id
      BY DEF SharedIdentityHasKey
  <2>1. CASE e # d \/ name = "peer"
        BY <1>2, <1>7, <2>1 DEF SharedIdentityHasKey
  <2>2. CASE e = d /\ name = "key"
    <3>1. file'[d]["key"] = v /\ file'[d]["self"] = file[d]["self"]
          BY <1>2, <1>7, <2>2
    <3>2. file[d]["self"].id <= pairing[d].own
          BY DEF LatestOwn
    <3>3. file[d]["self"] \in Files /\ pairing[d] \in Pairings
          BY <1>7 DEF DeviceTypeOK, PairingTypes
    <3>4. file[d]["self"].id \in Nat /\ pairing[d].own \in Nat
          BY <3>3 DEF Files, Identities, NoIdentity, Pairings
    <3>5. QED BY <2>2, <3>1, <3>2, <3>4
  <2>3. CASE e = d /\ name = "self"
    <3>1. file'[d]["self"] = v /\ file'[d]["key"] = file[d]["key"]
          BY <1>2, <1>7, <2>3
    <3>2. v.id \in Nat
          BY DEF Files, Identities, NoIdentity
    <3>3. QED BY <2>3, <3>1, <3>2 DEF Serialize
  <2>4. QED BY <2>1, <2>2, <2>3 DEF Names
<1>10. QED BY <1>1, <1>3, <1>4, <1>6, <1>8, <1>9

LEMMA TruncatePair ==
    ASSUME PairInv, NEW d \in Devices, TruncateFile(d)
    PROVE  PairInv'
<1> DEFINE name == FileOrder[pairing[d].out]
           q == At("write", pairing[d].own, pairing[d].peer, pairing[d].out)
<1>1. /\ pairing[d].step = "truncate" /\ owner' = owner /\ clock' = clock
      /\ pairing' = [pairing EXCEPT ![d] = q]
      /\ file' = [file EXCEPT ![d][name] = Torn]
      BY DEF TruncateFile
<1>2. pairing[d] \in Pairings /\ Len(owner) \in Nat
      BY DEF PairInv, PairingTypes
<1>3. /\ q \in Pairings /\ q.step = "write" /\ q.own = pairing[d].own
      /\ q.peer = pairing[d].peer /\ q.out = pairing[d].out
      BY <1>2 DEF At, Pairings, Steps
<1>4. name \in Names /\ (name = "key" <=> q.out = 1)
      BY <1>2, <1>3, Order DEF Pairings
<1>5. Torn \in Files /\ Torn.id = 0 /\ Torn.kind = "torn" /\ ~Parses(Torn)
      BY DEF Torn, Files, NoIdentity, Parses
<1>6. q.out > 1 => file[d]["key"] = Serialize(q.own)
      BY <1>1, <1>3 DEF PairInv, LatestOwn
<1>7. q.own \in Nat
      BY <1>3 DEF Pairings
<1> HIDE DEF name, q
<1>8. /\ Torn.id <= Len(owner) /\ Torn.id <= q.own
      /\ q.out > 1 => IF name = "key" THEN Torn = Serialize(q.own) ELSE file[d]["key"] = Serialize(q.own)
      BY <1>2, <1>4, <1>5, <1>6, <1>7
<1>9. QED BY <1>1, <1>3, <1>4, <1>5, <1>8, FileWritten

\* The identities a pairing writes.
LEMMA Written ==
    ASSUME PairInv, NEW d \in Devices, pairing[d].step = "write"
    PROVE  /\ pairing[d] \in Pairings
           /\ \A n \in {pairing[d].own, pairing[d].peer} :
                /\ n \in DOMAIN owner /\ n <= Len(owner) /\ Serialize(n) \in Files
                /\ Serialize(n).id = n /\ Serialize(n).kind = "whole" /\ Parses(Serialize(n))
           /\ owner[pairing[d].own] = d /\ owner[pairing[d].peer] # d
<1>1. pairing[d] \in Pairings /\ DOMAIN owner = 1 .. Len(owner) /\ Len(owner) \in Nat
      BY DEF PairInv, PairingTypes
<1>2. /\ pairing[d].own \in DOMAIN owner /\ owner[pairing[d].own] = d
      /\ pairing[d].peer \in DOMAIN owner /\ owner[pairing[d].peer] # d
      BY DEF PairInv, PairingOK
<1>3. Len(owner) <= MaxIdentities
      BY DEF PairInv, PairingTypes
<1>4. ASSUME NEW n \in DOMAIN owner
      PROVE  /\ n <= Len(owner) /\ Serialize(n) \in Files
             /\ Serialize(n).id = n /\ Serialize(n).kind = "whole" /\ Parses(Serialize(n))
      BY <1>1, <1>3 DEF Serialize, Files, Identities, Parses
<1>5. QED BY <1>1, <1>2, <1>4

LEMMA WritePair ==
    ASSUME PairInv, NEW d \in Devices, WriteFile(d)
    PROVE  PairInv'
<1> DEFINE name == FileOrder[pairing[d].out]
           q == At("truncate", pairing[d].own, pairing[d].peer, pairing[d].out + 1)
           v == Serialize(pairing[d].own)
<1>1. pairing[d].step = "write" /\ pairing[d].out < 3
      BY Order DEF WriteFile
<1>2. pairing[d] \in Pairings /\ pairing[d].out \in 1 .. 2
      BY <1>1, Written DEF Pairings
<1>3. name \in Names /\ name # "peer" /\ (name = "key" <=> pairing[d].out = 1)
      BY <1>2, Order
<1>4. /\ owner' = owner /\ clock' = clock
      /\ pairing' = [pairing EXCEPT ![d] = q]
      /\ file' = [file EXCEPT ![d][name] = v]
      BY <1>3 DEF WriteFile
<1>5. /\ q \in Pairings /\ q.step = "truncate" /\ q.own = pairing[d].own
      /\ q.peer = pairing[d].peer /\ q.out = pairing[d].out + 1
      BY <1>2 DEF At, Pairings, Steps
<1>6. /\ v \in Files /\ v.id = pairing[d].own /\ v.id <= Len(owner) /\ v.id \in DOMAIN owner
      /\ owner[v.id] = d /\ v.id \in Nat
      BY <1>1, <1>2, Written DEF Pairings
<1>7. name # "key" => file[d]["key"] = Serialize(pairing[d].own)
      BY <1>1, <1>2, <1>3 DEF PairInv, LatestOwn
<1>8. IF name = "key" THEN v = Serialize(q.own) ELSE file[d]["key"] = Serialize(q.own)
      BY <1>5, <1>7
<1>9. /\ v.id <= q.own
      /\ name = "self" => file[d]["key"] = Serialize(v.id)
      BY <1>5, <1>6, <1>7
<1> HIDE DEF name, q, v
<1>10. QED BY <1>1, <1>3, <1>4, <1>5, <1>6, <1>8, <1>9, FileWritten

LEMMA WriteLastPair ==
    ASSUME PairInv, NEW d \in Devices, WriteLastFile(d)
    PROVE  PairInv'
<1> DEFINE v == Serialize(pairing[d].peer)
<1>1. /\ pairing[d].step = "write" /\ owner' = owner /\ clock' = clock
      /\ pairing' = [pairing EXCEPT ![d] = Idle]
      /\ file' = [file EXCEPT ![d]["peer"] = v]
      BY Order DEF WriteLastFile
<1>2. Idle \in Pairings /\ Idle.step = "idle" /\ "peer" \in Names
      BY DEF Idle, At, Pairings, Steps, NoIdentity, Names
<1>3. v \in Files /\ v.id <= Len(owner) /\ v.id \in DOMAIN owner /\ owner[v.id] # d
      BY <1>1, Written
<1>4. QED BY <1>1, <1>2, <1>3, FileWritten

LEMMA NextPair == PairInv /\ [Next]_vars => PairInv'
<1> SUFFICES ASSUME PairInv, [Next]_vars
             PROVE  PairInv'
    OBVIOUS
<1>1. ASSUME NEW d \in Devices, PairStep(d)
      PROVE  PairInv'
      BY <1>1, GeneratePair, PromptPair, TruncatePair, WritePair, WriteLastPair DEF PairStep
<1>2. clock \in 0 .. MaxTime
      BY DEF PairInv, DeviceTypeOK
<1>3. ASSUME NEW d \in Devices, CreateEnvelope(d) \/ ReceiveEnvelope(d)
      PROVE  PairInv'
      BY <1>2, <1>3, MailKeepsPair DEF CreateEnvelope, ReceiveEnvelope, pairVars
<1>4. CASE Tick
      BY <1>2, <1>4, MailKeepsPair DEF Tick, pairVars
<1>5. CASE UNCHANGED vars
      BY <1>2, <1>5, MailKeepsPair DEF vars, pairVars
<1>6. QED BY <1>1, <1>3, <1>4, <1>5 DEF Next

\* Whatever `device pair` was interrupted, each file is well formed, the first two
\* name identities of this device and the third one of another.
THEOREM DeviceTypeCorrect == Spec => []DeviceTypeOK
<1>1. PairInv => DeviceTypeOK
      BY DEF PairInv
<1>2. QED BY <1>1, InitPair, NextPair, PTL DEF Spec

\* device pair never leaves a self identity file whose private key was not stored,
\* for any number of devices and pairings, given up or killed at any step.
THEOREM IdentityAfterKey == Spec => []SharedIdentityHasKey
<1>1. PairInv => SharedIdentityHasKey
      BY DEF PairInv
<1>2. QED BY <1>1, InitPair, NextPair, PTL DEF Spec

-----------------------------------------------------------------------------
(***************************************************************************)
(* Envelopes: what is handed out is what was created.                      *)
(***************************************************************************)
\* The transcript determines every header field, the recipient's included.
LEMMA TranscriptInjective ==
    ASSUME NEW g \in Header, NEW h \in Header, NEW n \in Nat,
           Transcript(g, n) = Transcript(h, n)
    PROVE  g = h
<1>1. /\ g.sender = h.sender /\ g.eph = h.eph /\ g.kem = h.kem /\ g.id = h.id /\ g.exp = h.exp
      /\ (IF g.rcpt # Anonymous THEN <<"id", g.rcpt>> ELSE <<"key", n>>)
            = (IF h.rcpt # Anonymous THEN <<"id", h.rcpt>> ELSE <<"key", n>>)
      BY DEF Transcript
<1>2. g.rcpt = h.rcpt
      BY <1>1
<1>3. QED BY <1>1, <1>2 DEF Header

LEMMA EnvelopeFields ==
    ASSUME NEW h, NEW n
    PROVE  /\ Envelope(h, n).header = h
           /\ Envelope(h, n).hash = Transcript(h, n)
           /\ Envelope(h, n).body.key = TransferKey(h.eph, h.kem, n, Transcript(h, n))
           /\ Envelope(h, n).body.key.for = n
           /\ Envelope(h, n).body.key.hash = Transcript(h, n)
           /\ Envelope(h, n).body.signer = h.sender
           /\ Envelope(h, n).body.payload = h.id
BY DEF Envelope, TransferKey

LEMMA SentEnvelope ==
    ASSUME SentOK, NEW k \in DOMAIN sent
    PROVE  \E h \in Header, n \in Nat : sent[k] = Envelope(h, n)
BY DEF SentOK

LEMMA FileIds ==
    ASSUME PairInv, NEW d \in Devices
    PROVE  file[d]["key"].id \in Nat /\ file[d]["peer"].id \in Nat
<1>1. file[d]["key"] \in Files /\ file[d]["peer"] \in Files
      BY DEF PairInv, DeviceTypeOK, Names
<1>2. QED BY <1>1 DEF Files, Identities, NoIdentity

LEMMA HeadersTyped ==
    ASSUME SentOK, NEW h \in Headers
    PROVE  h \in Header
<1>1. ASSUME NEW k \in DOMAIN sent
      PROVE  sent[k].header \in Header
      BY SentEnvelope, EnvelopeFields
<1>2. /\ h \in [id : {sent[k].header.id : k \in DOMAIN sent},
                 sender : {sent[k].header.sender : k \in DOMAIN sent},
                 rcpt : {sent[k].header.rcpt : k \in DOMAIN sent} \cup {Anonymous},
                 eph : {sent[k].header.eph : k \in DOMAIN sent},
                 kem : {sent[k].header.kem : k \in DOMAIN sent},
                 exp : Expiries \cup {Never}]
      BY DEF Headers
<1>3. ASSUME NEW k \in DOMAIN sent
      PROVE  /\ sent[k].header.id \in Nat /\ sent[k].header.sender \in Nat
             /\ sent[k].header.rcpt \in Nat /\ sent[k].header.eph \in Nat
             /\ sent[k].header.kem \in Nat
      BY <1>1 DEF Header
<1>4. /\ h.id \in Nat /\ h.sender \in Nat /\ h.rcpt \in Nat /\ h.eph \in Nat
      /\ h.kem \in Nat /\ h.exp \in Nat
  <2>1. h.id \in Nat /\ h.sender \in Nat
        BY <1>2, <1>3
  <2>2. h.rcpt \in Nat
        BY <1>2, <1>3 DEF Anonymous
  <2>3. h.eph \in Nat /\ h.kem \in Nat
        BY <1>2, <1>3
  <2>4. h.exp \in Nat
    <3>1. h.exp \in Expiries \cup {Never}
          BY <1>2
    <3>2. \A x \in Expiries \cup {Never} : x \in Nat
          BY ExpiriesAssumption DEF Never
    <3> HIDE ExpiriesAssumption
    <3>3. QED BY <3>1, <3>2
  <2>5. QED BY <2>1, <2>2, <2>3, <2>4
<1>5. h = [id |-> h.id, sender |-> h.sender, rcpt |-> h.rcpt, eph |-> h.eph,
           kem |-> h.kem, exp |-> h.exp]
      BY <1>2
<1>6. QED BY <1>4, <1>5 DEF Header

LEMMA CreateMail ==
    ASSUME MailInv, NEW d \in Devices, CreateEnvelope(d)
    PROVE  SentOK' /\ delivered' = delivered /\ DeliveredAsCreated'
<1> DEFINE n == file[d]["peer"].id
<1>1. PICK exp \in Expiries \cup {Never}, rcpt \in {n, Anonymous} :
        sent' = Append(sent, Envelope([id |-> Len(sent) + 1, sender |-> file[d]["key"].id,
                    rcpt |-> rcpt, eph |-> Len(sent) + 1, kem |-> Len(sent) + 1, exp |-> exp], n))
      BY DEF CreateEnvelope
<1> DEFINE h == [id |-> Len(sent) + 1, sender |-> file[d]["key"].id, rcpt |-> rcpt,
                 eph |-> Len(sent) + 1, kem |-> Len(sent) + 1, exp |-> exp]
           S == {Envelope(g, m) : g \in Header, m \in Nat}
<1>2. n \in Nat /\ file[d]["key"].id \in Nat
      BY FileIds DEF MailInv
<1>3. sent \in Seq(S) /\ Len(sent) \in Nat
      BY DEF MailInv, SentOK
<1>4. h \in Header /\ h.rcpt \in {n, Anonymous}
  <2>1. exp \in Nat /\ rcpt \in Nat
        BY <1>2 DEF Anonymous, Never
  <2>2. Len(sent) + 1 \in Nat
        BY <1>3
  <2>3. h \in Header
        BY <1>2, <2>1, <2>2 DEF Header
  <2>4. QED BY <2>3
<1> HIDE DEF h, n
<1>5. Envelope(h, n) \in S /\ sent' = Append(sent, Envelope(h, n))
      BY <1>1, <1>2, <1>4 DEF h
<1> HIDE DEF S
<1>6. /\ sent' \in Seq(S) /\ Len(sent') = Len(sent) + 1 /\ sent'[Len(sent) + 1] = Envelope(h, n)
      /\ \A k \in 1 .. Len(sent) : sent'[k] = sent[k]
      /\ DOMAIN sent = 1 .. Len(sent) /\ DOMAIN sent' = 1 .. (Len(sent) + 1)
      BY <1>3, <1>5
<1>7. \A k \in DOMAIN sent' : sent'[k].header.rcpt \in {sent'[k].body.key.for, Anonymous}
  <2> SUFFICES ASSUME NEW k \in DOMAIN sent'
               PROVE  sent'[k].header.rcpt \in {sent'[k].body.key.for, Anonymous}
      OBVIOUS
  <2>1. CASE k \in DOMAIN sent
        BY <1>6, <2>1 DEF MailInv, SentOK
  <2>2. CASE k = Len(sent) + 1
    <3>1. sent'[k] = Envelope(h, n)
          BY <1>6, <2>2
    <3>2. sent'[k].header = h /\ sent'[k].body.key.for = n
          BY <3>1, EnvelopeFields
    <3>3. QED BY <1>4, <3>2
  <2>3. QED BY <1>3, <1>6, <2>1, <2>2
<1>8. SentOK'
      BY <1>6, <1>7 DEF SentOK, S
<1>9. delivered' = delivered
      BY DEF CreateEnvelope, mailVars
<1>10. DeliveredAsCreated'
  <2>1. \A k \in DOMAIN sent : k \in DOMAIN sent' /\ sent'[k] = sent[k]
        BY <1>3, <1>6
  <2>2. QED BY <1>9, <2>1 DEF MailInv, DeliveredAsCreated
<1>11. QED BY <1>8, <1>9, <1>10

\* What an accepted envelope is: one that was sent, with its own header.
LEMMA Received ==
    ASSUME MailInv, NEW d \in Devices, ReceiveEnvelope(d)
    PROVE  \E k \in DOMAIN sent, h \in Header :
            /\ sent[k] = Envelope(h, file[d]["key"].id) /\ h.sender = file[d]["peer"].id
            /\ Parses(file[d]["key"]) /\ Live(h.exp)
            /\ \A s \in EvictExpired(seen[d]) : s.id # h.id
            /\ seen' = [seen EXCEPT ![d] = EvictExpired(seen[d]) \cup {[id |-> h.id, exp |-> h.exp]}]
            /\ delivered' = Append(delivered, [header |-> h, payload |-> h.id,
                    own |-> file[d]["key"].id, peer |-> file[d]["peer"].id])
<1> DEFINE own == file[d]["key"].id
           peer == file[d]["peer"].id
           Entry(h) == [id |-> h.id, exp |-> h.exp]
           Taken(k, h, hash) ==
               /\ Accepts(d, [header |-> h, hash |-> hash, body |-> sent[k].body])
               /\ seen' = [seen EXCEPT ![d] = EvictExpired(seen[d]) \cup {Entry(h)}]
               /\ delivered' = Append(delivered, [header |-> h, payload |-> sent[k].body.payload,
                                                  own |-> own, peer |-> peer])
<1>1. PICK k \in DOMAIN sent, h \in Headers : \E hash \in Hashes(h, own) : Taken(k, h, hash)
      BY DEF ReceiveEnvelope, Openable
<1>2. PICK hash \in Hashes(h, own) : Taken(k, h, hash)
      BY <1>1
<1>3. own \in Nat /\ h \in Header
      BY FileIds, HeadersTyped DEF MailInv
<1>4. PICK g \in Header, n \in Nat : sent[k] = Envelope(g, n)
      BY SentEnvelope DEF MailInv
<1>5. /\ hash = Transcript(h, own)
      /\ sent[k].body.key = TransferKey(h.eph, h.kem, own, hash)
      /\ sent[k].body.signer = peer
      /\ Parses(file[d]["key"]) /\ Live(h.exp)
      /\ \A s \in EvictExpired(seen[d]) : s.id # h.id
      BY <1>2 DEF Accepts, Opens
<1> HIDE DEF own, peer
<1>6. n = own /\ Transcript(g, n) = hash /\ g.sender = peer
  <2>1. sent[k].body.key.for = own /\ sent[k].body.key.hash = hash
        BY <1>5 DEF TransferKey
  <2>2. /\ sent[k].body.key.for = n /\ sent[k].body.key.hash = Transcript(g, n)
        /\ sent[k].body.signer = g.sender
        BY <1>4, EnvelopeFields
  <2>3. QED BY <1>5, <2>1, <2>2
<1>7. g = h
      BY <1>3, <1>4, <1>5, <1>6, TranscriptInjective
<1>8. sent[k] = Envelope(h, own) /\ sent[k].body.payload = h.id /\ h.sender = peer
      BY <1>4, <1>6, <1>7, EnvelopeFields
<1>9. QED BY <1>2, <1>3, <1>5, <1>8 DEF own, peer

LEMMA ReceiveMail ==
    ASSUME MailInv, NEW d \in Devices, ReceiveEnvelope(d)
    PROVE  sent' = sent /\ delivered' \in Seq(Delivery) /\ DeliveredAsCreated'
<1> DEFINE own == file[d]["key"].id
           peer == file[d]["peer"].id
<1>1. PICK k \in DOMAIN sent, h \in Header :
        /\ sent[k] = Envelope(h, own) /\ h.sender = peer
        /\ delivered' = Append(delivered, [header |-> h, payload |-> h.id, own |-> own, peer |-> peer])
      BY Received
<1>2. own \in Nat /\ peer \in Nat
      BY FileIds DEF MailInv
<1> HIDE DEF own, peer
<1> DEFINE r == [header |-> h, payload |-> h.id, own |-> own, peer |-> peer]
<1>3. /\ sent[k].header = r.header /\ sent[k].body.payload = r.payload
      /\ r.header.sender = r.peer
      /\ r.header.rcpt \in {r.own, Anonymous} /\ sent[k].body.key.for = r.own
      BY <1>1, EnvelopeFields DEF MailInv, SentOK
<1>4. r \in Delivery
      BY <1>1, <1>2 DEF Delivery, Header
<1>5. delivered' = Append(delivered, r) /\ delivered \in Seq(Delivery) /\ sent' = sent
      BY <1>1 DEF MailInv, ReceiveEnvelope
<1> HIDE DEF r
<1>6. /\ delivered' \in Seq(Delivery) /\ Len(delivered) \in Nat
      /\ DOMAIN delivered = 1 .. Len(delivered) /\ DOMAIN delivered' = 1 .. (Len(delivered) + 1)
      /\ delivered'[Len(delivered) + 1] = r
      /\ \A i \in DOMAIN delivered : delivered'[i] = delivered[i]
      BY <1>4, <1>5
<1>7. DeliveredAsCreated'
  <2> SUFFICES ASSUME NEW i \in DOMAIN delivered'
               PROVE  \E j \in DOMAIN sent :
                        /\ sent[j].header = delivered'[i].header
                        /\ sent[j].body.payload = delivered'[i].payload
                        /\ delivered'[i].header.sender = delivered'[i].peer
                        /\ delivered'[i].header.rcpt \in {delivered'[i].own, Anonymous}
                        /\ sent[j].body.key.for = delivered'[i].own
      BY <1>5 DEF DeliveredAsCreated
  <2>1. CASE i \in DOMAIN delivered
        BY <1>6, <2>1 DEF MailInv, DeliveredAsCreated
  <2>2. CASE i = Len(delivered) + 1
        BY <1>3, <1>6, <2>2
  <2>3. QED BY <1>6, <2>1, <2>2
<1>8. QED BY <1>5, <1>6, <1>7

LEMMA InitMail == Init => MailInv
<1> SUFFICES ASSUME Init PROVE MailInv
    OBVIOUS
<1>1. sent = <<>> /\ delivered = <<>>
      BY DEF Init
<1>2. QED BY <1>1, InitPair DEF MailInv, SentOK, DeliveredAsCreated

LEMMA NextMail == MailInv /\ [Next]_vars => MailInv'
<1> SUFFICES ASSUME MailInv, [Next]_vars
             PROVE  MailInv'
    OBVIOUS
<1>1. PairInv'
      BY NextPair DEF MailInv
<1>2. ASSUME sent' = sent
      PROVE  SentOK'
      BY <1>2 DEF MailInv, SentOK
<1>3. ASSUME sent' = sent, delivered' = delivered
      PROVE  MailInv'
      BY <1>1, <1>2, <1>3 DEF MailInv, DeliveredAsCreated
<1>4. ASSUME NEW d \in Devices, PairStep(d)
      PROVE  MailInv'
      BY <1>3, <1>4 DEF PairStep, Generate, PastePeer, ConfirmSas, AbortPairing, TruncateFile,
                        WriteFile, WriteLastFile, mailVars
<1>5. ASSUME NEW d \in Devices, CreateEnvelope(d)
      PROVE  MailInv'
      BY <1>1, <1>5, CreateMail DEF MailInv
<1>6. ASSUME NEW d \in Devices, ReceiveEnvelope(d)
      PROVE  MailInv'
      BY <1>1, <1>2, <1>6, ReceiveMail DEF MailInv
<1>7. CASE Tick \/ UNCHANGED vars
      BY <1>3, <1>7 DEF Tick, vars, mailVars
<1>8. QED BY <1>4, <1>5, <1>6, <1>7 DEF Next

\* For any devices, pairings and mixtures of fields in transit, a payload handed out
\* by `transfer receive` comes with the header it was created with, from the
\* identity the receiver trusts and for the identity whose key it holds.
THEOREM HeaderBound == Spec => []DeliveredAsCreated
<1>1. Init => MailInv
      BY InitMail
<1>2. MailInv => DeliveredAsCreated
      BY DEF MailInv
<1>3. QED BY <1>1, <1>2, NextMail, PTL DEF Spec

-----------------------------------------------------------------------------
(***************************************************************************)
(* No payload is handed out twice.                                         *)
(***************************************************************************)
\* Steps that hand nothing out: identities and envelopes are only added, and time
\* only passes, so a live delivery was live before and is still remembered.
LEMMA NothingDelivered ==
    ASSUME OnceInv, MailInv', Numbered', UNCHANGED mailVars,
           clock' \in Nat, clock \in Nat, clock <= clock',
           \A n \in DOMAIN owner : n \in DOMAIN owner' /\ owner'[n] = owner[n]
    PROVE  OnceInv'
<1> USE DEF OnceInv, mailVars
<1>1. ASSUME NEW i \in DOMAIN delivered
      PROVE  LET r == delivered[i]
             IN  /\ r.own \in DOMAIN owner' /\ owner'[r.own] = owner[r.own]
                 /\ r.payload = r.header.id
                 /\ Live(r.header.exp)' =>
                       [id |-> r.header.id, exp |-> r.header.exp] \in seen[owner[r.own]]
  <2> DEFINE r == delivered[i]
  <2>1. /\ r.own \in DOMAIN owner /\ r.payload = r.header.id
        /\ Live(r.header.exp) =>
              [id |-> r.header.id, exp |-> r.header.exp] \in seen[owner[r.own]]
        BY DEF Remembered
  <2>2. r.header.exp \in Nat
    <3>1. r \in Delivery
          BY DEF MailInv
    <3>2. QED BY <3>1 DEF Delivery, Header
  <2> HIDE DEF r
  <2>3. Live(r.header.exp)' => Live(r.header.exp)
    <3>1. r' = r
          BY DEF r
    <3>2. QED BY <2>2, <3>1 DEF Live
  <2>4. QED BY <2>1, <2>3 DEF r
<1>2. Remembered'
  <2>1. \A i \in DOMAIN delivered :
          LET r == delivered[i]
          IN  /\ r.own \in DOMAIN owner'
              /\ r.payload = r.header.id
              /\ Live(r.header.exp)' =>
                    [id |-> r.header.id, exp |-> r.header.exp] \in seen[owner'[r.own]]
        BY <1>1
  <2>2. QED BY <2>1 DEF Remembered, Live
<1>3. DeliveredOnce' /\ (DOMAIN seen = Devices)'
      BY DEF DeliveredOnce
<1>4. QED BY <1>2, <1>3

LEMMA CreateNumbered ==
    ASSUME MailInv, Numbered, NEW d \in Devices, CreateEnvelope(d)
    PROVE  Numbered'
<1>1. PICK exp \in Expiries \cup {Never}, rcpt \in {file[d]["peer"].id, Anonymous} :
        sent' = Append(sent, Envelope([id |-> Len(sent) + 1, sender |-> file[d]["key"].id,
                    rcpt |-> rcpt, eph |-> Len(sent) + 1, kem |-> Len(sent) + 1, exp |-> exp],
                    file[d]["peer"].id))
      BY DEF CreateEnvelope
<1> DEFINE h == [id |-> Len(sent) + 1, sender |-> file[d]["key"].id, rcpt |-> rcpt,
                 eph |-> Len(sent) + 1, kem |-> Len(sent) + 1, exp |-> exp]
           e == Envelope(h, file[d]["peer"].id)
<1>2. e.header.id = Len(sent) + 1
      BY EnvelopeFields
<1>3. sent' = Append(sent, e)
      BY <1>1
<1> HIDE DEF e
<1>4. sent \in Seq({Envelope(g, n) : g \in Header, n \in Nat})
      BY DEF MailInv, SentOK
<1>5. /\ Len(sent) \in Nat /\ DOMAIN sent = 1 .. Len(sent)
      /\ DOMAIN sent' = 1 .. (Len(sent) + 1) /\ sent'[Len(sent) + 1] = e
      /\ \A k \in 1 .. Len(sent) : sent'[k] = sent[k]
      BY <1>3, <1>4
<1>6. ASSUME NEW k \in DOMAIN sent'
      PROVE  sent'[k].header.id = k
  <2>1. CASE k \in 1 .. Len(sent)
        BY <1>5, <2>1 DEF Numbered
  <2>2. CASE k = Len(sent) + 1
        BY <1>2, <1>5, <2>2
  <2>3. QED BY <1>5, <2>1, <2>2
<1>7. QED BY <1>6 DEF Numbered

\* The id of what is handed out was not in the store, so it was not handed out
\* before: the same id means the same envelope, hence the same device, and the
\* device forgets no id of a live envelope.
LEMMA ReceiveOnce ==
    ASSUME OnceInv, MailInv', NEW d \in Devices, ReceiveEnvelope(d)
    PROVE  OnceInv'
<1> USE DEF OnceInv
<1> DEFINE own == file[d]["key"].id
           peer == file[d]["peer"].id
           Entry(h) == [id |-> h.id, exp |-> h.exp]
<1>1. PICK k \in DOMAIN sent, h \in Header :
        /\ sent[k] = Envelope(h, own) /\ h.sender = peer
        /\ Parses(file[d]["key"]) /\ Live(h.exp)
        /\ \A s \in EvictExpired(seen[d]) : s.id # h.id
        /\ seen' = [seen EXCEPT ![d] = EvictExpired(seen[d]) \cup {Entry(h)}]
        /\ delivered' = Append(delivered, [header |-> h, payload |-> h.id, own |-> own, peer |-> peer])
      BY Received
<1>2. UNCHANGED <<clock, owner, sent>>
      BY DEF ReceiveEnvelope
<1>3. own \in DOMAIN owner /\ owner[own] = d
      BY <1>1 DEF MailInv, PairInv, DeviceTypeOK, Names
<1>4. sent[k].header = h /\ sent[k].body.key.for = own /\ h.id = k
  <2>1. sent[k].header = h /\ sent[k].body.key.for = own
        BY <1>1, EnvelopeFields
  <2>2. QED BY <2>1 DEF Numbered
<1> HIDE DEF own, peer
<1> DEFINE r == [header |-> h, payload |-> h.id, own |-> own, peer |-> peer]
<1>5. r.own = own /\ r.header = h /\ r.payload = h.id /\ delivered' = Append(delivered, r)
      BY <1>1
<1> HIDE DEF r
<1>6. /\ Len(delivered) \in Nat /\ DOMAIN delivered = 1 .. Len(delivered)
      /\ DOMAIN delivered' = 1 .. (Len(delivered) + 1)
      /\ delivered'[Len(delivered) + 1] = r
      /\ \A i \in DOMAIN delivered : delivered'[i] = delivered[i]
      BY <1>5 DEF MailInv
<1>7. /\ seen'[d] = EvictExpired(seen[d]) \cup {Entry(h)}
      /\ \A e \in Devices \ {d} : seen'[e] = seen[e]
      /\ DOMAIN seen' = Devices
      BY <1>1
<1>8. ASSUME NEW i \in DOMAIN delivered
      PROVE  delivered[i].payload # h.id
  <2> SUFFICES ASSUME delivered[i].payload = h.id PROVE FALSE
      OBVIOUS
  <2> DEFINE q == delivered[i]
  <2>1. PICK j \in DOMAIN sent :
          sent[j].header = q.header /\ sent[j].body.key.for = q.own
        BY DEF MailInv, DeliveredAsCreated
  <2>2. /\ q.payload = q.header.id
        /\ Live(q.header.exp) => Entry(q.header) \in seen[owner[q.own]]
        BY DEF Remembered
  <2>3. sent[j].header.id = j
        BY DEF Numbered
  <2>4. j = k
        BY <1>4, <2>1, <2>2, <2>3
  <2>5. q.header = h /\ q.own = own
        BY <1>4, <2>1, <2>4
  <2>6. Entry(h) \in seen[d]
        BY <1>1, <1>3, <2>2, <2>5
  <2>7. Entry(h) \in EvictExpired(seen[d])
        BY <1>1, <2>6 DEF EvictExpired
  <2>8. QED BY <1>1, <2>7
<1>9. Remembered'
  <2> SUFFICES ASSUME NEW i \in DOMAIN delivered'
               PROVE  /\ delivered'[i].own \in DOMAIN owner
                      /\ delivered'[i].payload = delivered'[i].header.id
                      /\ Live(delivered'[i].header.exp) =>
                            Entry(delivered'[i].header) \in seen'[owner[delivered'[i].own]]
      BY <1>2 DEF Remembered, Live
  <2>1. CASE i \in DOMAIN delivered
    <3> DEFINE q == delivered[i]
    <3>1. /\ q.own \in DOMAIN owner /\ q.payload = q.header.id
          /\ Live(q.header.exp) => Entry(q.header) \in seen[owner[q.own]]
          BY <2>1 DEF Remembered
    <3>2. owner[q.own] \in Devices
          BY <3>1 DEF MailInv, PairInv, PairingTypes
    <3>3. ASSUME Live(q.header.exp)
          PROVE  Entry(q.header) \in seen'[owner[q.own]]
      <4>1. Entry(q.header) \in seen[owner[q.own]] /\ Entry(q.header).exp = q.header.exp
            BY <3>1, <3>3
      <4>2. CASE owner[q.own] = d
            BY <1>7, <3>3, <4>1, <4>2 DEF EvictExpired
      <4>3. CASE owner[q.own] # d
            BY <1>7, <3>2, <4>1, <4>3
      <4>4. QED BY <4>2, <4>3
    <3>4. delivered'[i] = q
          BY <1>6, <2>1
    <3>5. QED BY <3>1, <3>3, <3>4
  <2>2. CASE i = Len(delivered) + 1
        BY <1>3, <1>5, <1>6, <1>7, <2>2
  <2>3. QED BY <1>6, <2>1, <2>2
<1>10. DeliveredOnce'
  <2> SUFFICES ASSUME NEW i \in DOMAIN delivered', NEW j \in DOMAIN delivered',
                      delivered'[i].payload = delivered'[j].payload
               PROVE  i = j
      BY DEF DeliveredOnce
  <2>1. CASE i \in DOMAIN delivered /\ j \in DOMAIN delivered
        BY <1>6, <2>1 DEF DeliveredOnce
  <2>2. CASE i \in DOMAIN delivered /\ j = Len(delivered) + 1
        BY <1>5, <1>6, <1>8, <2>2
  <2>3. CASE i = Len(delivered) + 1 /\ j \in DOMAIN delivered
        BY <1>5, <1>6, <1>8, <2>3
  <2>4. QED BY <1>6, <2>1, <2>2, <2>3
<1>11. Numbered'
       BY <1>2 DEF Numbered
<1>12. QED BY <1>7, <1>9, <1>10, <1>11

LEMMA InitOnce == Init => OnceInv
<1> SUFFICES ASSUME Init PROVE OnceInv
    OBVIOUS
<1>1. sent = <<>> /\ delivered = <<>> /\ DOMAIN seen = Devices
      BY DEF Init
<1>2. QED BY <1>1, InitMail DEF OnceInv, Numbered, Remembered, DeliveredOnce

LEMMA NextOnce == OnceInv /\ [Next]_vars => OnceInv'
<1> SUFFICES ASSUME OnceInv, [Next]_vars
             PROVE  OnceInv'
    OBVIOUS
<1>1. MailInv /\ MailInv' /\ Numbered
      BY NextMail DEF OnceInv
<1>2. clock \in Nat /\ owner \in Seq(Devices)
      BY <1>1 DEF MailInv, PairInv, DeviceTypeOK, PairingTypes
<1>3. sent' = sent => Numbered'
      BY <1>1 DEF Numbered
<1>4. ASSUME NEW d \in Devices, PairStep(d)
      PROVE  OnceInv'
  <2>1. UNCHANGED mailVars /\ sent' = sent /\ clock' = clock
        BY <1>4 DEF PairStep, Generate, PastePeer, ConfirmSas, AbortPairing, TruncateFile,
                    WriteFile, WriteLastFile
  <2>2. \A n \in DOMAIN owner : n \in DOMAIN owner' /\ owner'[n] = owner[n]
    <3>1. owner' = owner \/ owner' = Append(owner, d)
          BY <1>4 DEF PairStep, Generate, PastePeer, ConfirmSas, AbortPairing, TruncateFile,
                      WriteFile, WriteLastFile
    <3>2. QED BY <1>2, <3>1
  <2>3. QED BY <1>1, <1>2, <1>3, <2>1, <2>2, NothingDelivered
<1>5. ASSUME NEW d \in Devices, CreateEnvelope(d)
      PROVE  OnceInv'
  <2>1. UNCHANGED <<clock, owner, mailVars>>
        BY <1>5 DEF CreateEnvelope
  <2>2. QED BY <1>1, <1>2, <1>5, <2>1, CreateNumbered, NothingDelivered
<1>6. ASSUME NEW d \in Devices, ReceiveEnvelope(d)
      PROVE  OnceInv'
      BY <1>1, <1>6, ReceiveOnce
<1>7. CASE Tick
  <2>1. UNCHANGED <<owner, sent, mailVars>> /\ clock' = clock + 1
        BY <1>7 DEF Tick
  <2>2. QED BY <1>1, <1>2, <1>3, <2>1, NothingDelivered
<1>8. CASE UNCHANGED vars
      BY <1>1, <1>2, <1>3, <1>8, NothingDelivered DEF vars
<1>9. QED BY <1>4, <1>5, <1>6, <1>7, <1>8 DEF Next

\* `transfer receive` with a store that is saved and a clock that never goes back:
\* no payload is handed out twice by any device, for any mixture of fields in
\* transit, after eviction and after pairing again.
THEOREM PayloadOnce == Spec => []DeliveredOnce
<1>1. OnceInv => DeliveredOnce
      BY DEF OnceInv
<1>2. QED BY <1>1, InitOnce, NextOnce, PTL DEF Spec

-----------------------------------------------------------------------------
(***************************************************************************)
(* What two paired devices send each other opens.                          *)
(***************************************************************************)
\* Steps that write no file and complete no pairing.
LEMMA FilesKept ==
    ASSUME ExchangeInv, MailInv', UNCHANGED <<file, paired>>,
           NEW d \in Devices, NEW q \in Pairings,
           pairing' = [pairing EXCEPT ![d] = q],
           q.step # "write" /\ q.out = 1
    PROVE  ExchangeInv'
<1> USE DEF ExchangeInv
<1>1. pairing \in [Devices -> Pairings]
      BY DEF MailInv, PairInv, PairingTypes
<1>2. \A e \in Devices : pairing'[e] = pairing[e] \/ pairing'[e] = q
      BY <1>1
<1>3. PairedFiles'
      BY <1>2 DEF PairedFiles
<1>4. QED BY <1>3

LEMMA PromptExchange ==
    ASSUME ExchangeInv, MailInv', NEW d \in Devices,
           Generate(d) \/ PastePeer(d) \/ ConfirmSas(d) \/ AbortPairing(d)
    PROVE  ExchangeInv'
<1>1. UNCHANGED <<file, paired>>
      BY DEF Generate, PastePeer, ConfirmSas, AbortPairing
<1>2. pairing \in [Devices -> Pairings] /\ pairing' \in [Devices -> Pairings]
      BY DEF ExchangeInv, MailInv, PairInv, PairingTypes
<1>3. /\ pairing'[d].step # "write" /\ pairing'[d].out = 1
      /\ pairing' = [pairing EXCEPT ![d] = pairing'[d]]
  <2> USE <1>2
  <2>1. CASE Generate(d)
        BY <2>1 DEF Generate, At
  <2>2. CASE PastePeer(d)
        BY <2>2 DEF PastePeer, At
  <2>3. CASE ConfirmSas(d)
        BY <2>3 DEF ConfirmSas, At
  <2>4. CASE AbortPairing(d)
        BY <2>4 DEF AbortPairing, Idle, At
  <2>5. QED BY <2>1, <2>2, <2>3, <2>4
<1>4. pairing'[d] \in Pairings
      BY <1>2
<1>5. QED BY <1>1, <1>3, <1>4, FilesKept

\* The first write of a pairing ends the one before, the others find it ended.
LEMMA WriteExchange ==
    ASSUME ExchangeInv, MailInv', NEW d \in Devices, TruncateFile(d) \/ WriteFile(d)
    PROVE  ExchangeInv'
<1> USE DEF ExchangeInv
<1>1. /\ DOMAIN paired = Devices /\ pairing \in [Devices -> Pairings]
      /\ file \in [Devices -> [Names -> Files]]
      BY DEF MailInv, PairInv, PairingTypes, DeviceTypeOK
<1>2. /\ paired' = [paired EXCEPT ![d] = Unpaired] \/ (paired' = paired /\ paired[d] = Unpaired)
      /\ \A e \in Devices \ {d} : pairing'[e] = pairing[e] /\ file'[e] = file[e]
  <2>1. CASE TruncateFile(d)
        BY <1>1, <2>1 DEF TruncateFile
  <2>2. CASE WriteFile(d)
        BY <1>1, <2>2 DEF WriteFile, PairedFiles
  <2>3. QED BY <2>1, <2>2
<1>3. paired'[d] = Unpaired /\ DOMAIN paired' = Devices
      BY <1>1, <1>2
<1>4. \A e \in Devices \ {d} : paired'[e] = paired[e]
      BY <1>1, <1>2
<1>5. Unpaired.own = NoIdentity
      BY DEF Unpaired
<1>6. PairedFiles'
      BY <1>2, <1>3, <1>4, <1>5 DEF PairedFiles
<1>7. QED BY <1>3, <1>6

\* "Pairing complete.": the key file was written by this pairing (LatestOwn).
LEMMA CompleteExchange ==
    ASSUME ExchangeInv, MailInv', NEW d \in Devices, WriteLastFile(d)
    PROVE  ExchangeInv'
<1> USE DEF ExchangeInv
<1> DEFINE p == pairing[d]
<1>1. /\ DOMAIN paired = Devices /\ pairing \in [Devices -> Pairings]
      /\ file \in [Devices -> [Names -> Files]] /\ owner \in Seq(Devices)
      BY DEF MailInv, PairInv, PairingTypes, DeviceTypeOK
<1>2. /\ p.step = "write" /\ p.out = 3
      /\ file' = [file EXCEPT ![d]["peer"] = Serialize(p.peer)]
      /\ pairing' = [pairing EXCEPT ![d] = Idle]
      /\ paired' = [paired EXCEPT ![d] = [own |-> p.own, peer |-> p.peer]]
      BY Order DEF WriteLastFile
<1>3. file[d]["key"] = Serialize(p.own) /\ p.peer # NoIdentity
  <2>1. file[d]["key"] = Serialize(p.own)
    <3>1. LatestOwn /\ p.step # "idle" /\ p.out > 1
          BY <1>2 DEF MailInv, PairInv
    <3>2. QED BY <3>1 DEF LatestOwn
  <2>2. p.peer \in DOMAIN owner
    <3>1. PairInv /\ p.step = "write"
          BY <1>2 DEF MailInv
    <3>2. QED BY <3>1, Written
  <2>3. owner \in Seq(Devices)
        BY <1>1
  <2>4. 0 \notin DOMAIN owner
        BY <2>3
  <2>5. QED BY <2>1, <2>2, <2>4 DEF NoIdentity
<1>4. "peer" \in Names /\ "key" \in Names
      BY DEF Names
<1>5. /\ file'[d]["peer"] = Serialize(p.peer) /\ file'[d]["key"] = Serialize(p.own)
      /\ \A e \in Devices \ {d} : file'[e] = file[e]
      BY <1>1, <1>2, <1>3, <1>4
<1>6. /\ paired'[d].own = p.own /\ paired'[d].peer = p.peer /\ DOMAIN paired' = Devices
      /\ \A e \in Devices \ {d} : paired'[e] = paired[e]
      BY <1>1, <1>2
<1>7. /\ pairing'[d].step = "idle"
      /\ \A e \in Devices \ {d} : pairing'[e] = pairing[e]
      BY <1>1, <1>2 DEF Idle, At
<1> HIDE DEF p
<1>8. PairedFiles'
      BY <1>3, <1>5, <1>6, <1>7 DEF PairedFiles
<1>9. QED BY <1>6, <1>8

LEMMA NextExchange == ExchangeInv /\ [Next]_vars => ExchangeInv'
<1> SUFFICES ASSUME ExchangeInv, [Next]_vars
             PROVE  ExchangeInv'
    OBVIOUS
<1>1. MailInv'
      BY NextMail DEF ExchangeInv
<1>2. ASSUME NEW d \in Devices, PairStep(d)
      PROVE  ExchangeInv'
      BY <1>1, <1>2, PromptExchange, WriteExchange, CompleteExchange DEF PairStep
<1>3. ASSUME UNCHANGED pairVars
      PROVE  ExchangeInv'
      BY <1>1, <1>3 DEF ExchangeInv, PairedFiles, pairVars
<1>4. QED BY <1>2, <1>3 DEF Next, CreateEnvelope, ReceiveEnvelope, Tick, vars

\* An envelope that was sent opens with the keys it was made for and the identity
\* that made it.
LEMMA SentOpens ==
    ASSUME SentOK, NEW k \in DOMAIN sent, Live(sent[k].header.exp)
    PROVE  /\ ValidateForOpen(sent[k])
           /\ Opens(sent[k], sent[k].body.key.for, sent[k].header.sender)
<1>1. PICK h \in Header, n \in Nat : sent[k] = Envelope(h, n)
      BY SentEnvelope
<1>2. /\ sent[k].header = h /\ sent[k].body.key.for = n /\ sent[k].hash = Transcript(h, n)
      /\ sent[k].body.key = TransferKey(h.eph, h.kem, n, Transcript(h, n))
      /\ sent[k].body.signer = h.sender
      BY <1>1, EnvelopeFields
<1>3. sent[k].body.signed = Transcript(h, n)
      BY <1>1 DEF Envelope
<1>4. Opens(sent[k], n, h.sender)
      BY <1>2, <1>3 DEF Opens
<1>5. h.rcpt # Anonymous => Transcript(h, n) = Transcript(h, NoIdentity)
      BY DEF Transcript
<1>6. ValidateForOpen(sent[k])
      BY <1>2, <1>5 DEF ValidateForOpen
<1>7. QED BY <1>2, <1>4, <1>6

LEMMA ExchangeImplied == ExchangeInv => PairedCanExchange
<1> SUFFICES ASSUME ExchangeInv, NEW a \in Devices, NEW b \in Devices,
                    paired[a].own # NoIdentity,
                    paired[a].own = paired[b].peer, paired[a].peer = paired[b].own
             PROVE  /\ Parses(file[b]["key"]) /\ Parses(file[b]["peer"])
                    /\ \A k \in DOMAIN sent :
                        /\ sent[k].header.sender = paired[b].own
                        /\ sent[k].body.key.for = paired[a].own
                        /\ Live(sent[k].header.exp)
                        /\ \A s \in seen[a] : s.id # sent[k].header.id
                        => Accepts(a, sent[k])
    BY DEF PairedCanExchange
<1>1. \A n : Parses(Serialize(n)) /\ Serialize(n).id = n
      BY DEF Parses, Serialize
<1>2. /\ file[a]["key"] = Serialize(paired[a].own)
      /\ file[a]["peer"] = Serialize(paired[a].peer)
      /\ paired[a].peer # NoIdentity
      BY DEF ExchangeInv, PairedFiles
<1>3. Parses(file[b]["key"]) /\ Parses(file[b]["peer"])
      BY <1>1, <1>2 DEF ExchangeInv, PairedFiles
<1>4. ASSUME NEW k \in DOMAIN sent,
             sent[k].header.sender = paired[b].own,
             sent[k].body.key.for = paired[a].own,
             Live(sent[k].header.exp),
             \A s \in seen[a] : s.id # sent[k].header.id
      PROVE  Accepts(a, sent[k])
  <2>1. SentOK
        BY DEF ExchangeInv, MailInv
  <2>2. ValidateForOpen(sent[k]) /\ Opens(sent[k], file[a]["key"].id, file[a]["peer"].id)
        BY <1>1, <1>2, <1>4, <2>1, SentOpens
  <2>3. \A s \in EvictExpired(seen[a]) : s.id # sent[k].header.id
        BY <1>4 DEF EvictExpired
  <2>4. QED BY <1>1, <1>2, <2>2, <2>3 DEF Accepts
<1>5. QED BY <1>3, <1>4

\* Two devices whose `device pair` was completed with each other's identities can
\* exchange envelopes until one of them writes again, for any history before.
THEOREM PairingSuffices == Spec => []PairedCanExchange
<1>1. Init => ExchangeInv
  <2> SUFFICES ASSUME Init PROVE ExchangeInv
      OBVIOUS
  <2>1. DOMAIN paired = Devices /\ PairedFiles
        BY DEF Init, PairedFiles, Unpaired, Idle, At, NoIdentity
  <2>2. QED BY <2>1, InitMail DEF ExchangeInv
<1>2. QED BY <1>1, NextExchange, ExchangeImplied, PTL DEF Spec

-----------------------------------------------------------------------------
(***************************************************************************)
(* Devices, files and envelopes implement the authentic channel.           *)
(***************************************************************************)
LEMMA ChannelNames ==
    /\ Channel!NoIdentity = 0 /\ NoIdentity = 0
    /\ Channel!Never = 0 /\ Never = 0
    /\ \A until : Channel!Live(until) <=> Live(until)
BY DEF Channel!NoIdentity, NoIdentity, Channel!Never, Never, Channel!Live, Live

LEMMA SameFiles ==
    ASSUME file' = file
    PROVE  HeldBy' = HeldBy /\ TrustedBy' = TrustedBy
BY DEF HeldBy, TrustedBy

LEMMA SameMail ==
    /\ sent' = sent => SealedMessages' = SealedMessages
    /\ delivered' = delivered => HandedOut' = HandedOut
BY DEF SealedMessages, HandedOut

\* A write into a file of one device is a change of one identity there, or of none
\* that counts.
LEMMA FileStep ==
    ASSUME PairInv, PairInv', NEW d \in Devices, NEW name \in Names, NEW v,
           file' = [file EXCEPT ![d][name] = v],
           UNCHANGED <<clock, owner, sent, delivered>>
    PROVE  [Channel!Hold(d) \/ Channel!Trust(d)]_Channel!cvars
<1>1. file \in [Devices -> [Names -> Files]]
      BY DEF PairInv, DeviceTypeOK
<1>2. /\ \A e \in Devices, f \in Names : file'[e][f] = IF e = d /\ f = name THEN v ELSE file[e][f]
      /\ {"key", "peer"} \subseteq Names
      BY <1>1 DEF Names
<1>3. /\ name # "key" => HeldBy' = HeldBy
      /\ name # "peer" => TrustedBy' = TrustedBy
      BY <1>2 DEF HeldBy, TrustedBy, IdentityIn, Parses
<1>4. \A e \in Devices \ {d} : HeldBy'[e] = HeldBy[e] /\ TrustedBy'[e] = TrustedBy[e]
      BY <1>2 DEF HeldBy, TrustedBy, IdentityIn, Parses
<1>5. /\ HeldBy' = [HeldBy EXCEPT ![d] = HeldBy'[d]]
      /\ TrustedBy' = [TrustedBy EXCEPT ![d] = TrustedBy'[d]]
  <2>1. HeldBy = [e \in Devices |-> HeldBy[e]] /\ TrustedBy = [e \in Devices |-> TrustedBy[e]]
        BY DEF HeldBy, TrustedBy
  <2>2. HeldBy' = [e \in Devices |-> HeldBy'[e]] /\ TrustedBy' = [e \in Devices |-> TrustedBy'[e]]
        BY DEF HeldBy, TrustedBy
  <2>3. QED BY <1>4, <2>1, <2>2
<1>6. /\ HeldBy'[d] \in Channel!Mine(d) \cup {0}
      /\ TrustedBy'[d] \in Channel!Others(d) \cup {0}
  <2>1. \A f \in Names : Parses(file'[d][f]) =>
          file'[d][f].id \in DOMAIN owner /\ (owner[file'[d][f].id] = d <=> f # "peer")
        BY DEF PairInv, DeviceTypeOK, Parses
  <2>2. QED BY <1>2, <2>1 DEF HeldBy, TrustedBy, IdentityIn, Parses, NoIdentity,
                              Channel!Mine, Channel!Others
<1>7. SealedMessages' = SealedMessages /\ HandedOut' = HandedOut
      BY SameMail
<1>8. CASE name = "key"
      BY <1>3, <1>5, <1>6, <1>7, <1>8, ChannelNames DEF Channel!Hold, Channel!mail
<1>9. CASE name # "key"
      BY <1>3, <1>5, <1>6, <1>7, <1>9, ChannelNames DEF Channel!Trust, Channel!mail
<1>10. QED BY <1>8, <1>9

LEMMA PairChannel ==
    ASSUME PairInv, PairInv', NEW d \in Devices, PairStep(d)
    PROVE  [Channel!ChannelNext]_Channel!cvars
<1>1. sent' = sent /\ delivered' = delivered /\ clock' = clock
      BY DEF PairStep, Generate, PastePeer, ConfirmSas, AbortPairing, TruncateFile, WriteFile,
             WriteLastFile, mailVars
<1>2. SealedMessages' = SealedMessages /\ HandedOut' = HandedOut
      BY <1>1, SameMail
<1>3. CASE Generate(d)
  <2>1. owner' = Append(owner, d) /\ file' = file
        BY <1>3 DEF Generate
  <2>2. Channel!MakeIdentity(d)
        BY <1>1, <1>2, <2>1, SameFiles DEF Channel!MakeIdentity, Channel!mail
  <2>3. QED BY <2>2 DEF Channel!ChannelNext
<1>4. CASE PastePeer(d) \/ ConfirmSas(d) \/ AbortPairing(d)
  <2>1. owner' = owner /\ file' = file
        BY <1>4 DEF PastePeer, ConfirmSas, AbortPairing
  <2>2. QED BY <1>1, <1>2, <2>1, SameFiles DEF Channel!cvars, Channel!users, Channel!mail
<1>5. CASE TruncateFile(d) \/ WriteFile(d) \/ WriteLastFile(d)
  <2>1. pairing[d] \in Pairings /\ owner' = owner
        BY <1>5 DEF PairInv, PairingTypes, TruncateFile, WriteFile, WriteLastFile
  <2>2. FileOrder[pairing[d].out] \in Names
        BY <2>1, Order DEF Pairings
  <2>3. \E v : file' = [file EXCEPT ![d][FileOrder[pairing[d].out]] = v]
        BY <1>5 DEF TruncateFile, WriteFile, WriteLastFile
  <2>4. [Channel!Hold(d) \/ Channel!Trust(d)]_Channel!cvars
        BY <1>1, <2>1, <2>2, <2>3, FileStep
  <2>5. QED BY <2>4 DEF Channel!ChannelNext
<1>6. QED BY <1>3, <1>4, <1>5 DEF PairStep

\* transfer create seals between the identities the two files name.
LEMMA CreateChannel ==
    ASSUME MailInv, NEW d \in Devices, CreateEnvelope(d)
    PROVE  Channel!Seal(d)
<1> DEFINE n == file[d]["peer"].id
           own == file[d]["key"].id
<1>1. PICK exp \in Expiries \cup {Never}, rcpt \in {n, Anonymous} :
        /\ Live(exp)
        /\ sent' = Append(sent, Envelope([id |-> Len(sent) + 1, sender |-> own,
                    rcpt |-> rcpt, eph |-> Len(sent) + 1, kem |-> Len(sent) + 1, exp |-> exp], n))
      BY DEF CreateEnvelope
<1>2. HeldBy[d] = own /\ TrustedBy[d] = n
      BY DEF CreateEnvelope, HeldBy, TrustedBy, IdentityIn
<1>3. own # 0 /\ n # 0
  <2>1. "key" \in Names /\ "peer" \in Names
        BY DEF Names
  <2>2. own \in DOMAIN owner /\ n \in DOMAIN owner /\ owner \in Seq(Devices)
        BY <2>1 DEF CreateEnvelope, MailInv, PairInv, DeviceTypeOK, PairingTypes
  <2>3. QED BY <2>2
<1> DEFINE h == [id |-> Len(sent) + 1, sender |-> own, rcpt |-> rcpt,
                 eph |-> Len(sent) + 1, kem |-> Len(sent) + 1, exp |-> exp]
           e == Envelope(h, n)
           m == [from |-> own, for |-> n, until |-> exp]
<1>4. e.header.sender = own /\ e.body.key.for = n /\ e.header.exp = exp
      BY EnvelopeFields
<1>5. sent' = Append(sent, e)
      BY <1>1
<1>6. sent \in Seq({Envelope(g, i) : g \in Header, i \in Nat})
      BY DEF MailInv, SentOK
<1> HIDE DEF e, own, n
<1>7. /\ Len(sent) \in Nat /\ DOMAIN sent = 1 .. Len(sent)
      /\ DOMAIN sent' = 1 .. (Len(sent) + 1) /\ sent'[Len(sent) + 1] = e
      /\ \A k \in 1 .. Len(sent) : sent'[k] = sent[k]
      BY <1>5, <1>6
<1>8. SealedMessages' = Append(SealedMessages, m)
  <2>1. /\ Len(SealedMessages) = Len(sent) /\ DOMAIN SealedMessages = 1 .. Len(sent)
        /\ \A k \in 1 .. Len(sent) : SealedMessages'[k] = SealedMessages[k]
        BY <1>7 DEF SealedMessages
  <2>2. SealedMessages'[Len(sent) + 1] = m /\ DOMAIN SealedMessages' = 1 .. (Len(sent) + 1)
        BY <1>4, <1>7 DEF SealedMessages
  <2>3. SealedMessages' = [k \in 1 .. (Len(sent) + 1) |->
                              IF k = Len(sent) + 1 THEN m ELSE SealedMessages[k]]
        BY <1>7, <2>1, <2>2 DEF SealedMessages
  <2>4. QED BY <1>7, <2>1, <2>3
<1>9. /\ UNCHANGED <<clock, owner>> /\ HandedOut' = HandedOut
      /\ HeldBy' = HeldBy /\ TrustedBy' = TrustedBy
      BY SameFiles, SameMail DEF CreateEnvelope, pairVars, mailVars
<1>10. exp \in Expiries \cup {0} /\ Channel!Live(exp)
      BY <1>1, ChannelNames
<1> HIDE DEF m
<1>11. \E until \in Expiries \cup {0} :
        /\ Channel!Live(until)
        /\ SealedMessages' = Append(SealedMessages, [from |-> own, for |-> n, until |-> until])
      BY <1>8, <1>10 DEF m
<1>12. QED BY <1>2, <1>3, <1>9, <1>11, ChannelNames DEF Channel!Seal, Channel!users

\* transfer receive hands out one sealed message, for the identities the two files
\* name, and never one that was handed out before.
LEMMA ReceiveChannel ==
    ASSUME OnceInv, OnceInv', NEW d \in Devices, ReceiveEnvelope(d)
    PROVE  Channel!Take(d)
<1> USE DEF OnceInv
<1> DEFINE own == file[d]["key"].id
           peer == file[d]["peer"].id
<1>1. PICK k \in DOMAIN sent, h \in Header :
        /\ sent[k] = Envelope(h, own) /\ h.sender = peer /\ Live(h.exp)
        /\ delivered' = Append(delivered, [header |-> h, payload |-> h.id, own |-> own, peer |-> peer])
      BY Received
<1>2. HeldBy[d] = own /\ TrustedBy[d] = peer
      BY DEF ReceiveEnvelope, Accepts, HeldBy, TrustedBy, IdentityIn
<1> HIDE DEF own, peer
<1>3. /\ k \in DOMAIN SealedMessages
      /\ SealedMessages[k].from = peer /\ SealedMessages[k].for = own
      /\ SealedMessages[k].until = h.exp /\ h.id = k
  <2>1. sent[k].header = h /\ sent[k].body.key.for = own
        BY <1>1, EnvelopeFields
  <2>2. QED BY <1>1, <2>1 DEF SealedMessages, Numbered
<1> DEFINE r == [header |-> h, payload |-> k, own |-> own, peer |-> peer]
           m == [message |-> k, by |-> own, from |-> peer]
<1>4. r.payload = k /\ r.own = own /\ r.peer = peer /\ delivered' = Append(delivered, r)
      BY <1>1, <1>3
<1> HIDE DEF r
<1>5. /\ Len(delivered) \in Nat /\ DOMAIN delivered = 1 .. Len(delivered)
      /\ DOMAIN delivered' = 1 .. (Len(delivered) + 1)
      /\ delivered'[Len(delivered) + 1] = r
      /\ \A i \in 1 .. Len(delivered) : delivered'[i] = delivered[i]
      BY <1>4 DEF MailInv
<1>6. HandedOut' = Append(HandedOut, m)
  <2>1. /\ Len(HandedOut) = Len(delivered) /\ DOMAIN HandedOut = 1 .. Len(delivered)
        /\ \A i \in 1 .. Len(delivered) : HandedOut'[i] = HandedOut[i]
        BY <1>5 DEF HandedOut
  <2>2. HandedOut'[Len(delivered) + 1] = m /\ DOMAIN HandedOut' = 1 .. (Len(delivered) + 1)
        BY <1>4, <1>5 DEF HandedOut
  <2>3. HandedOut' = [i \in 1 .. (Len(delivered) + 1) |->
                        IF i = Len(delivered) + 1 THEN m ELSE HandedOut[i]]
        BY <1>5, <2>1, <2>2 DEF HandedOut
  <2>4. QED BY <1>5, <2>1, <2>3
<1>7. \A i \in DOMAIN HandedOut : HandedOut[i].message # k
  <2> SUFFICES ASSUME NEW i \in DOMAIN delivered PROVE delivered[i].payload # k
      BY DEF HandedOut
  <2>1. /\ i \in DOMAIN delivered' /\ delivered'[i] = delivered[i]
        /\ Len(delivered) + 1 \in DOMAIN delivered' /\ i # Len(delivered) + 1
        BY <1>5
  <2>2. QED BY <1>4, <1>5, <2>1 DEF DeliveredOnce
<1>8. /\ UNCHANGED <<clock, owner>> /\ SealedMessages' = SealedMessages
      /\ HeldBy' = HeldBy /\ TrustedBy' = TrustedBy
      BY SameFiles, SameMail DEF ReceiveEnvelope, pairVars
<1>9. Channel!Live(SealedMessages[k].until)
      BY <1>1, <1>3, ChannelNames
<1>10. \E n \in DOMAIN SealedMessages :
        /\ SealedMessages[n].for = HeldBy[d] /\ SealedMessages[n].from = TrustedBy[d]
        /\ Channel!Live(SealedMessages[n].until)
        /\ \A i \in DOMAIN HandedOut : HandedOut[i].message # n
        /\ HandedOut' = Append(HandedOut, [message |-> n, by |-> HeldBy[d], from |-> TrustedBy[d]])
      BY <1>2, <1>3, <1>6, <1>7, <1>9
<1>11. QED BY <1>8, <1>10 DEF Channel!Take, Channel!users

LEMMA NextChannel == OnceInv /\ OnceInv' /\ [Next]_vars => [Channel!ChannelNext]_Channel!cvars
<1> SUFFICES ASSUME OnceInv, OnceInv', [Next]_vars
             PROVE  [Channel!ChannelNext]_Channel!cvars
    OBVIOUS
<1>1. MailInv /\ PairInv /\ PairInv'
      BY DEF OnceInv, MailInv
<1>2. ASSUME NEW d \in Devices, PairStep(d)
      PROVE  [Channel!ChannelNext]_Channel!cvars
      BY <1>1, <1>2, PairChannel
<1>3. ASSUME NEW d \in Devices, CreateEnvelope(d)
      PROVE  [Channel!ChannelNext]_Channel!cvars
      BY <1>1, <1>3, CreateChannel DEF Channel!ChannelNext
<1>4. ASSUME NEW d \in Devices, ReceiveEnvelope(d)
      PROVE  [Channel!ChannelNext]_Channel!cvars
      BY <1>4, ReceiveChannel DEF Channel!ChannelNext
<1>5. CASE Tick
      BY <1>5, SameFiles, SameMail
         DEF Tick, pairVars, mailVars, Channel!ChannelNext, Channel!Pass, Channel!users, Channel!mail
<1>6. CASE UNCHANGED vars
      BY <1>6, SameFiles, SameMail
         DEF vars, pairVars, mailVars, Channel!cvars, Channel!users, Channel!mail
<1>7. QED BY <1>2, <1>3, <1>4, <1>5, <1>6 DEF Next

LEMMA InitChannel == Init => Channel!ChannelInit
<1> SUFFICES ASSUME Init PROVE Channel!ChannelInit
    OBVIOUS
<1>1. HeldBy = [d \in Devices |-> 0] /\ TrustedBy = [d \in Devices |-> 0]
      BY DEF Init, HeldBy, TrustedBy, IdentityIn, Parses, Absent, Names, NoIdentity
<1>2. SealedMessages = <<>> /\ HandedOut = <<>>
      BY DEF Init, SealedMessages, HandedOut
<1>3. QED BY <1>1, <1>2, ChannelNames DEF Init, Channel!ChannelInit

\* For any devices, pairings interrupted anywhere and mixtures of fields in transit,
\* pairing, transfer create and transfer receive implement the authentic channel.
THEOREM TransferIsChannel == Spec => ImplementsAuthenticChannel
<1>1. QED BY InitOnce, NextOnce, InitChannel, NextChannel, PTL
             DEF Spec, ImplementsAuthenticChannel, Channel!ChannelSpec
=============================================================================
