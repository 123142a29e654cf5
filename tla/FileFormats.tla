---------------------------- MODULE FileFormats -----------------------------
(***************************************************************************)
(* Every byte format of the program, its writer and its parser each        *)
(* translated from its own code: the vault file with its header and frame  *)
(* (vault/format.rs, vault/engine.rs), item payloads and record envelopes  *)
(* (item/store.rs, vault/format.rs), export bundles (export.rs), the       *)
(* replay store (transfer/replay.rs), transfer envelopes and the signed    *)
(* payload in them (transfer/envelope.rs), the key file and the identity   *)
(* text of a device (keys/device.rs).                                      *)
(*                                                                         *)
(* A file is written from a value and may then be damaged: cut short, a    *)
(* byte changed or added, both of these in the small formats, or, in the   *)
(* TLV lists of a vault, a field dropped, repeated, moved or inserted.     *)
(* Ciphertexts, keys, ids, nonces and hashes are opaque arrays of Opaque   *)
(* bytes; that they are authenticated is left out, so what a parser        *)
(* rejects it rejects unaided.                                             *)
(***************************************************************************)
EXTENDS ByteFields

CONSTANTS
    Opaque,         \* bound: bytes of an id, key, nonce, hash or AEAD tag
    PqcLen,         \* bound: bytes of an ML-KEM ciphertext, 1088 in the code
    MaxList,        \* bound: MAX_TAG_COUNT, MAX_EXPORT_ITEM_COUNT, MAX_REPLAY_ENTRIES
    MaxText,        \* bound: MAX_LABEL_LEN, MAX_TAG_LEN and MAX_SECRET_LEN
    MaxMCost,       \* bound: ARGON2_MAX_M_COST_KIB
    MinMCost,       \* bound: ARGON2_MIN_M_COST_KIB
    TwiceDamaged    \* bound: formats damaged at a byte and at the end

ASSUME FormatAssumption ==
    /\ {Opaque, PqcLen, MaxList, MaxText, MinMCost, MaxMCost} \subseteq Nat \ {0}
    /\ MinMCost <= MaxMCost

Positive == Nat \ {0}

\* An opaque array, all of its bytes b.
Bytes(b) == [i \in 1 .. Opaque |-> b]

-----------------------------------------------------------------------------
(***************************************************************************)
(* KDF parameters: a profile id and a list of tagged parameters.           *)
(***************************************************************************)
KdfArgon2id == 1
Argon2Version == 19

\* TAG_KDF_*: 0x0101 and up.
KdfTag == [m_cost |-> Base + 1, t_cost |-> Base + 2, p_lanes |-> Base + 3,
           output_len |-> Base + 4, version |-> Base + 5]
KdfTagWidth == [m_cost |-> 4, t_cost |-> 4, p_lanes |-> 4, output_len |-> 2, version |-> 4]

ValidArgon2(p) ==
    /\ p.m_cost \in MinMCost .. MaxMCost
    /\ p.t_cost \in 3 .. 16
    /\ p.p_lanes \in 4 .. 16
    /\ p.output_len = 32

KdfParam(tag, value) == U16(tag) \o U16(Len(value)) \o value

\* Bug form: t_cost and p_lanes written under each other's tags.
SerializeKdfSwapped(p) ==
    U16(KdfArgon2id) \o WithLen(
        KdfParam(KdfTag.m_cost, U32(p.m_cost)) \o
        KdfParam(KdfTag.p_lanes, U32(p.t_cost)) \o
        KdfParam(KdfTag.t_cost, U32(p.p_lanes)) \o
        KdfParam(KdfTag.output_len, U16(p.output_len)) \o
        KdfParam(KdfTag.version, U32(Argon2Version)))

SerializeKdf(p) ==
    U16(KdfArgon2id) \o WithLen(
        KdfParam(KdfTag.m_cost, U32(p.m_cost)) \o
        KdfParam(KdfTag.t_cost, U32(p.t_cost)) \o
        KdfParam(KdfTag.p_lanes, U32(p.p_lanes)) \o
        KdfParam(KdfTag.output_len, U16(p.output_len)) \o
        KdfParam(KdfTag.version, U32(Argon2Version)))

KdfFields == <<Number("profile", 2, {KdfArgon2id}), Counted("params", 4, Nat)>>
KdfParamFields == <<TillEnd("tlvs", <<Number("tag", 2, Nat), Counted("value", 2, Nat)>>)>>

\* A tag comes at most once; mark_seen_header_tag, or an Option already Some.
Distinct(tlvs, tags) ==
    \A i, j \in DOMAIN tlvs : tlvs[i].tag \in tags /\ tlvs[i].tag = tlvs[j].tag => i = j

Tags(tlvs) == {tlvs[i].tag : i \in DOMAIN tlvs}
ValueOf(tlvs, tag) == tlvs[CHOOSE i \in DOMAIN tlvs : tlvs[i].tag = tag].value
NumberIn(tlvs, tag) == LET v == ValueOf(tlvs, tag) IN NumberAt(v, 0, Len(v))

\* The parameter set that a list of parameter TLVs stands for.
KdfOf(tlvs) ==
    [m_cost |-> NumberIn(tlvs, KdfTag.m_cost), t_cost |-> NumberIn(tlvs, KdfTag.t_cost),
     p_lanes |-> NumberIn(tlvs, KdfTag.p_lanes),
     output_len |-> NumberIn(tlvs, KdfTag.output_len)]

KdfTlvs(bytes) ==
    LET Params(r) == IF r.ok THEN ReadAll(KdfParamFields, r.out.params) ELSE Rejected
    IN  Params(ReadAll(KdfFields, bytes))

\* The checks of the loop of parse_kdf_profile_params and after it.
AcceptKdf(tlvs) ==
    LET tags == {KdfTag[p] : p \in DOMAIN KdfTag}
    IN  /\ Tags(tlvs) = tags
        /\ Distinct(tlvs, tags)
        /\ \A p \in DOMAIN KdfTag : Len(ValueOf(tlvs, KdfTag[p])) = KdfTagWidth[p]
        /\ NumberIn(tlvs, KdfTag.version) = Argon2Version
        /\ ValidArgon2(KdfOf(tlvs))

Unparsed == [ok |-> FALSE, out |-> <<>>]

ParseKdf(bytes) ==
    LET Params(r) == IF r.ok /\ AcceptKdf(r.out.tlvs)
                     THEN [ok |-> TRUE, out |-> KdfOf(r.out.tlvs)] ELSE Unparsed
    IN  Params(KdfTlvs(bytes))

-----------------------------------------------------------------------------
(***************************************************************************)
(* The vault header, a list of TLVs.  Profiles have one supported value.   *)
(***************************************************************************)
FormatVersion == 1
VaultMagic == <<1>>
AeadProfile == 1
PqcNone == 0
SchemaV2 == 2

HeaderTag == [vault_id |-> 1, created_at |-> 2, kdf |-> 3, aead |-> 4, pqc |-> 5,
              schema |-> 6, nonce |-> 7]
HeaderTags == {HeaderTag[f] : f \in DOMAIN HeaderTag}

HeaderTlv(tag, flags, value) == U16(tag) \o U8(flags) \o WithLen(value)
Critical(flags) == flags % 2 = 1

SerializeHeader(h) ==
    HeaderTlv(HeaderTag.vault_id, 1, h.vault_id) \o
    HeaderTlv(HeaderTag.created_at, 1, U64(h.created_at)) \o
    HeaderTlv(HeaderTag.kdf, 1, SerializeKdf(h.kdf)) \o
    HeaderTlv(HeaderTag.aead, 1, U16(AeadProfile)) \o
    HeaderTlv(HeaderTag.pqc, 0, U16(PqcNone)) \o
    HeaderTlv(HeaderTag.schema, 1, U16(SchemaV2)) \o
    HeaderTlv(HeaderTag.nonce, 1, h.nonce)

HeaderFields ==
    <<TillEnd("tlvs", <<Number("tag", 2, Nat), Number("flags", 1, Nat), Counted("value", 4, Nat)>>)>>

\* Bug form: a repeated tag is not noticed, and one of the two values used.
AcceptHeaderRepeated(tlvs) ==
    /\ \A i \in DOMAIN tlvs : Critical(tlvs[i].flags) => tlvs[i].tag \in HeaderTags
    /\ HeaderTags \ {HeaderTag.pqc} \subseteq Tags(tlvs)
    /\ ParseKdf(ValueOf(tlvs, HeaderTag.kdf)).ok

(***************************************************************************)
(* The checks of the loop of parse_header, of the fields missing after it, *)
(* and of validate_profile_set.  A missing PQC profile means none.         *)
(***************************************************************************)
AcceptHeader(tlvs) ==
    LET Is(tag, value) == ValueOf(tlvs, tag) = value
    IN  /\ \A i \in DOMAIN tlvs : tlvs[i].tag \in HeaderTags \/ ~Critical(tlvs[i].flags)
        /\ Distinct(tlvs, HeaderTags)
        /\ HeaderTags \ {HeaderTag.pqc} \subseteq Tags(tlvs)
        /\ Len(ValueOf(tlvs, HeaderTag.vault_id)) = Opaque
        /\ Len(ValueOf(tlvs, HeaderTag.created_at)) = 8
        /\ Len(ValueOf(tlvs, HeaderTag.nonce)) = Opaque
        /\ Is(HeaderTag.aead, U16(AeadProfile))
        /\ Is(HeaderTag.schema, U16(SchemaV2))
        /\ HeaderTag.pqc \in Tags(tlvs) => Is(HeaderTag.pqc, U16(PqcNone))
        /\ ParseKdf(ValueOf(tlvs, HeaderTag.kdf)).ok

HeaderOf(tlvs) ==
    [vault_id |-> ValueOf(tlvs, HeaderTag.vault_id),
     created_at |-> NumberIn(tlvs, HeaderTag.created_at),
     kdf |-> ParseKdf(ValueOf(tlvs, HeaderTag.kdf)).out,
     nonce |-> ValueOf(tlvs, HeaderTag.nonce)]

-----------------------------------------------------------------------------
(***************************************************************************)
(* The wrapped root key frame and the vault file: prefix, header, frame,   *)
(* sealed table, item frames.  header_len, record_table_len and body_len   *)
(* are in the prefix, body_len counting everything after the header.       *)
(***************************************************************************)
AadDomain == <<3>>
AadLen79 == 3 * Opaque + 5 * 2 + 2 + Len(AadDomain)
WrappedRootKey == 2

BuildAad(h, recordId, revisionId, kind) ==
    AadDomain \o h.vault_id \o U16(FormatVersion) \o U16(SchemaV2) \o U16(AeadProfile)
    \o U16(KdfArgon2id) \o U16(PqcNone) \o recordId \o revisionId \o U16(kind)

SerializeFrame(f, aad) ==
    U16(FormatVersion) \o f.record_id \o f.revision_id \o U16(AeadProfile)
    \o U8(Opaque) \o f.nonce \o WithLen(aad) \o WithLen(f.ciphertext)

FrameFields ==
    <<Number("version", 2, {FormatVersion}), Array("record_id", Opaque),
      Array("revision_id", Opaque), Number("aead", 2, {AeadProfile}),
      Number("nonce_len", 1, {Opaque}), Array("nonce", Opaque),
      Counted("aad", 4, {AadLen79}), Counted("ciphertext", 4, Nat \ (0 .. (Opaque - 1)))>>

\* record_frame_end_offset: where a frame ends, from its lengths alone.
FrameExtent ==
    <<Array("fixed", 2 + 2 * Opaque + 2), Counted("nonce", 1, Nat),
      Counted("aad", 4, Nat), Counted("ciphertext", 4, Nat)>>

SerializePrefix(headerLen, tableLen, bodyLen) ==
    VaultMagic \o U16(FormatVersion) \o U32(headerLen) \o U32(tableLen) \o U64(bodyLen)

\* rewrite_vault, and serialize_vault_file for a vault without frames: the
\* sections under a prefix that measures them.
AssembleVault(header, v) ==
    LET aad == BuildAad(v.header, v.wrk.record_id, v.wrk.revision_id, WrappedRootKey)
        table == WithLen(v.table)
        body == SerializeFrame(v.wrk, aad) \o table \o v.frames
    IN  SerializePrefix(Len(header), Len(table), Len(body)) \o header \o body

SerializeVault(v) == AssembleVault(SerializeHeader(v.header), v)

PrefixFields ==
    <<Magic(VaultMagic), Number("version", 2, {FormatVersion}), Number("header_len", 4, Nat),
      Number("table_len", 4, Nat), Number("body_len", 8, Nat)>>

\* What the prefix declares is all of the file and nothing else.
SectionsFill(bytes, prefix) ==
    /\ prefix.ok
    /\ prefix.out.table_len <= prefix.out.body_len
    /\ prefix.at + prefix.out.header_len + prefix.out.body_len = Len(bytes)

HeaderTlvs(bytes) ==
    LET Header(prefix) ==
            IF SectionsFill(bytes, prefix)
            THEN ReadAll(HeaderFields, Slice(bytes, prefix.at, prefix.out.header_len))
            ELSE Rejected
    IN  Header(ReadFields(PrefixFields, bytes, 0))

\* Where the root key frame starts.
WrkAt(prefix) == prefix.at + prefix.out.header_len

\* The parts of a vault: root key frame, sealed table, frames.
VaultOf(header, wrk, table, frames) ==
    IF /\ wrk.ok /\ table.ok
       /\ wrk.out.aad = BuildAad(header, wrk.out.record_id, wrk.out.revision_id, WrappedRootKey)
    THEN [ok |-> TRUE,
          out |-> [header |-> header,
                   wrk |-> [record_id |-> wrk.out.record_id, revision_id |-> wrk.out.revision_id,
                            nonce |-> wrk.out.nonce, ciphertext |-> wrk.out.ciphertext],
                   table |-> table.out.sealed, frames |-> frames]]
    ELSE Unparsed

TableFields == <<Counted("sealed", 4, Nat \ (0 .. (2 * Opaque - 1)))>>

\* parse_and_validate, and what unlock parses before and after it has keys.
ParseVault(bytes) ==
    LET Sections(header, at, extent, tableLen) ==
            IF ~extent.ok \/ ~Fits(bytes, extent.at, tableLen) THEN Unparsed
            ELSE VaultOf(header,
                    ReadAll(FrameFields, Slice(bytes, at, extent.at - at)),
                    ReadAll(TableFields, Slice(bytes, extent.at, tableLen)),
                    SubSeq(bytes, extent.at + tableLen + 1, Len(bytes)))
        Body(header, prefix) ==
            Sections(header, WrkAt(prefix), ReadFields(FrameExtent, bytes, WrkAt(prefix)),
                     prefix.out.table_len)
        Whole(r) == IF r.ok /\ AcceptHeader(r.out.tlvs)
                    THEN Body(HeaderOf(r.out.tlvs), ReadFields(PrefixFields, bytes, 0))
                    ELSE Unparsed
    IN  Whole(HeaderTlvs(bytes))

-----------------------------------------------------------------------------
(***************************************************************************)
(* Items: the payload sealed in a record, the envelope that holds it with  *)
(* its wrapped key, and the item set sealed in an export bundle.           *)
(***************************************************************************)
ItemKinds == 1 .. 5

SerializeItem(i) ==
    U16(i.kind) \o WithLen(i.label) \o WithCount([t \in DOMAIN i.tags |-> WithLen(i.tags[t].tag)])
    \o WithLen(i.secret)

\* deserialize_item_payload
ItemFields ==
    <<Number("kind", 2, ItemKinds), Text("label", 0 .. MaxText),
      Repeated("tags", 0 .. MaxList, <<Text("tag", 0 .. MaxText)>>),
      Counted("secret", 4, 0 .. MaxText)>>

SerializeItemSet(s) == WithCount([i \in DOMAIN s.items |-> SerializeItem(s.items[i])])

\* deserialize_item_set, which bounds the counts only.
ItemSetFields ==
    <<Repeated("items", 0 .. MaxList,
        <<Number("kind", 2, ItemKinds), Text("label", Nat),
          Repeated("tags", 0 .. MaxList, <<Text("tag", Nat)>>), Counted("secret", 4, Nat)>>)>>

SerializeItemEnvelope(e) ==
    e.rek_wrap_nonce \o WithLen(e.wrapped_rek) \o e.payload_nonce \o WithLen(e.encrypted_payload)

ItemEnvelopeFields ==
    <<Array("rek_wrap_nonce", Opaque), Counted("wrapped_rek", 4, Positive),
      Array("payload_nonce", Opaque), Counted("encrypted_payload", 4, Positive)>>

-----------------------------------------------------------------------------
(***************************************************************************)
(* Export bundles.                                                         *)
(***************************************************************************)
BundleMagic == <<4>>

SerializeBundle(b) ==
    BundleMagic \o U16(1) \o b.source_vault_id \o WithLen(SerializeKdf(b.kdf)) \o b.nonce
    \o WithLen(b.ciphertext)

\* Bug form: the ciphertext is what follows its length.
BundleFieldsToEnd ==
    <<Magic(BundleMagic), Number("version", 2, {1}), Array("source_vault_id", Opaque),
      Counted("kdf", 4, Nat), Array("nonce", Opaque), Number("ciphertext_len", 4, Nat),
      Rest("ciphertext")>>

\* parse_bundle
BundleFields ==
    <<Magic(BundleMagic), Number("version", 2, {1}), Array("source_vault_id", Opaque),
      Counted("kdf", 4, Nat), Array("nonce", Opaque), Counted("ciphertext", 4, Nat)>>

\* UntrustedExportBundle::authenticate up to the decryption.
ParseBundle(bytes) ==
    LET With(r, kdf) == IF kdf.ok THEN [ok |-> TRUE, out |-> [r.out EXCEPT !.kdf = kdf.out]]
                        ELSE Unparsed
        Whole(r) == IF r.ok THEN With(r, ParseKdf(r.out.kdf)) ELSE Unparsed
    IN  Whole(ReadAll(BundleFields, bytes))

-----------------------------------------------------------------------------
(***************************************************************************)
(* Transfer: the replay store, the envelope, and the signature and payload *)
(* sealed in it.                                                           *)
(***************************************************************************)

\* SeenEnvelopeIds: ids with an optional expiry, written as 0 when absent.
SerializeReplay(s) ==
    WithCount([i \in DOMAIN s.entries |->
        s.entries[i].id \o U64(IF s.entries[i].expires = <<>> THEN 0 ELSE s.entries[i].expires[1])])

ReplayFields ==
    <<Repeated("entries", 0 .. MaxList, <<Array("id", Opaque), Number("expires", 8, Nat)>>)>>

ParseReplay(bytes) ==
    LET Expiry(n) == IF n = 0 THEN <<>> ELSE <<n>>
        Ids(raw) ==
            IF \A i, j \in DOMAIN raw : raw[i].id = raw[j].id => i = j
            THEN [ok |-> TRUE,
                  out |-> [entries |-> [i \in DOMAIN raw |->
                              [id |-> raw[i].id, expires |-> Expiry(raw[i].expires)]]]]
            ELSE Unparsed
        Whole(r) == IF r.ok THEN Ids(r.out.entries) ELSE Unparsed
    IN  Whole(ReadAll(ReplayFields, bytes))

TransferMagic == <<5>>

SerializeTransfer(e) ==
    TransferMagic \o U16(1) \o U16(1) \o e.envelope_id \o e.sender
    \o Flagged([i \in DOMAIN e.recipient |-> e.recipient[i].device_id])
    \o e.ephemeral \o WithLen(e.pqc_ciphertext) \o e.transcript_hash \o e.nonce
    \o Flagged([i \in DOMAIN e.expires |-> U64(e.expires[i].at)])
    \o WithLen(e.payload)

\* parse_envelope_bytes
TransferFields ==
    <<Magic(TransferMagic), Number("version", 2, {1}), Number("profile", 2, {1}),
      Array("envelope_id", Opaque), Array("sender", Opaque),
      Maybe("recipient", <<Array("device_id", Opaque)>>),
      Array("ephemeral", Opaque), Counted("pqc_ciphertext", 4, {PqcLen}),
      Array("transcript_hash", Opaque), Array("nonce", Opaque),
      Maybe("expires", <<Number("at", 8, Nat)>>), Counted("payload", 4, Positive)>>

\* SigningAlgorithmId: Ed25519V1 and Ed25519MlDsa87HybridV1.
SigningAlgorithms == {1, 2}

SerializeSigned(s) == U16(s.algorithm) \o WithLen(s.signature) \o s.payload

SignedFields ==
    <<Number("algorithm", 2, SigningAlgorithms), Counted("signature", 4, Nat), Rest("payload")>>

-----------------------------------------------------------------------------
(***************************************************************************)
(* Devices: the identity and the key pair in bytes, and the file that      *)
(* seals the latter beside the former.                                     *)
(***************************************************************************)

\* x25519_public_from_private: some injection.
PublicOf(private) == [i \in DOMAIN private |-> (private[i] + 1) % Base]

SerializeIdentity(d) ==
    U8(1) \o d.device_id \o WithLen(d.display_name) \o d.classical \o d.pqc
    \o Flagged([i \in DOMAIN d.signing |-> U16(d.signing[i].algorithm) \o WithLen(d.signing[i].key)])
    \o U64(d.created_at) \o U8(d.trust_state)

\* Only Ed25519 public keys can be made, of one length; DeviceTrustState is 0 to 6.
IdentityFields ==
    <<Number("version", 1, {1}), Array("device_id", Opaque), Text("display_name", Nat),
      Array("classical", Opaque), Array("pqc", Opaque),
      Maybe("signing", <<Number("algorithm", 2, {1}), Counted("key", 4, {Opaque})>>),
      Number("created_at", 8, Nat), Number("trust_state", 1, 0 .. 6)>>

\* DeviceIdentity::validate; 3 and 4 are Verified and Approved.
ValidIdentity(d) ==
    /\ d.display_name # <<>>
    /\ d.trust_state \in {3, 4} => d.signing # <<>>

ParseIdentity(bytes) ==
    LET Valid(r) == IF r.ok /\ ValidIdentity(r.out) THEN r ELSE Rejected
    IN  Valid(ReadAll(IdentityFields, bytes))

SerializeKeypair(k) ==
    U8(1) \o k.device_id \o k.public \o k.classical \o k.pqc
    \o U16(k.algorithm) \o WithLen(k.signing)

KeypairFields ==
    <<Number("version", 1, {1}), Array("device_id", Opaque), Array("public", Opaque),
      Array("classical", Opaque), Array("pqc", Opaque),
      Number("algorithm", 2, SigningAlgorithms), Counted("signing", 4, Nat)>>

ParseKeypair(bytes) ==
    LET Valid(r) == IF /\ r.ok
                       /\ r.out.algorithm = 1 => Len(r.out.signing) = Opaque
                       /\ r.out.public = PublicOf(r.out.classical)
                    THEN r ELSE Rejected
    IN  Valid(ReadAll(KeypairFields, bytes))

KeyFileMagic == <<6>>

\* save_sealed_keypair: the salt before what seal() makes.
SerializeKeyFile(k) ==
    k.salt \o KeyFileMagic \o U8(1) \o WithLen(SerializeIdentity(k.identity))
    \o k.fingerprint \o k.nonce \o WithLen(k.ciphertext)

KeyFileFields ==
    <<Array("salt", Opaque), Magic(KeyFileMagic), Number("version", 1, {1}),
      Counted("identity", 4, Nat), Array("fingerprint", Opaque), Array("nonce", Opaque),
      Counted("ciphertext", 4, Nat)>>

\* load_sealed_keypair up to the decryption, and the identity beside it.
ParseKeyFile(bytes) ==
    LET With(r, identity) ==
            IF identity.ok THEN [ok |-> TRUE, out |-> [r.out EXCEPT !.identity = identity.out]]
            ELSE Unparsed
        Whole(r) == IF r.ok THEN With(r, ParseIdentity(r.out.identity)) ELSE Unparsed
    IN  Whole(ReadAll(KeyFileFields, bytes))

-----------------------------------------------------------------------------
(***************************************************************************)
(* The identity text.  A line is a key, which stands for the name and the  *)
(* equals sign, and a value.  Symbols below Base are characters, of which  *)
(* the first HexDigits are the digits; numbers are written to that base.   *)
(***************************************************************************)
Newline == Base
Plus == Base + 1
Title == Base + 2
Ed25519Name == Base + 3
TextKey == [device_id |-> Base + 4, display_name |-> Base + 5, classical |-> Base + 6,
            pqc |-> Base + 7, algorithm |-> Base + 8, signing |-> Base + 9,
            created_at |-> Base + 10]
TextKeys == DOMAIN TextKey

HexEncode(bytes) ==
    FlattenSeq([i \in DOMAIN bytes |-> <<bytes[i] \div HexDigits, bytes[i] % HexDigits>>])

\* to_string of a number below HexDigits ^ 8.
Decimal(n) ==
    LET width == CHOOSE w \in 1 .. 8 : n < HexDigits ^ w /\ (w = 1 \/ n >= HexDigits ^ (w - 1))
    IN  [i \in 1 .. width |-> (n \div HexDigits ^ (width - i)) % HexDigits]

SerializeIdentityText(d) ==
    LET Line(key, value) == <<TextKey[key]>> \o value \o <<Newline>>
    IN  <<Title, Newline>> \o Line("device_id", HexEncode(d.device_id))
        \o Line("display_name", d.display_name) \o Line("classical", HexEncode(d.classical))
        \o Line("pqc", HexEncode(d.pqc)) \o Line("algorithm", <<Ed25519Name>>)
        \o Line("signing", HexEncode(d.signing[1].key)) \o Line("created_at", Decimal(d.created_at))

\* str::lines: the text between newlines, without an empty rest after the last.
Lines(text) ==
    LET Split(ls, c) == IF c = Newline THEN Append(ls, <<>>)
                        ELSE [ls EXCEPT ![Len(ls)] = Append(@, c)]
        all == FoldLeft(Split, << <<>> >>, text)
    IN  IF Last(all) = <<>> THEN Front(all) ELSE all

IsDigits(s) == \A i \in DOMAIN s : s[i] \in 0 .. (HexDigits - 1)
Unsigned(s) == IF s # <<>> /\ Head(s) = Plus THEN Tail(s) ELSE s
DigitsValue(s) == FoldLeft(LAMBDA n, c : HexDigits * n + c, 0, Unsigned(s))
IsNumber(s) == Unsigned(s) # <<>> /\ IsDigits(Unsigned(s))

HexPairs(s) == [i \in 1 .. Len(s) \div 2 |-> SubSeq(s, 2 * i - 1, 2 * i)]
IsHex(s) == Len(s) % 2 = 0 /\ \A i \in 1 .. Len(s) \div 2 : IsNumber(HexPairs(s)[i])
HexDecode(s) == [i \in 1 .. Len(s) \div 2 |-> DigitsValue(HexPairs(s)[i])]

\* Whether the match arm of a key takes the value.
TextValue(key, value) ==
    CASE key \in {"device_id", "classical", "pqc"} -> IsHex(value) /\ Len(value) = 2 * Opaque
      [] key = "signing" -> IsHex(value)
      [] key = "display_name" -> TRUE
      [] key = "algorithm" -> value = <<Ed25519Name>>
      [] key = "created_at" -> IsNumber(value)

\* Bug form: the time of creation is not needed.
MostTextKeys == TextKeys \ {"created_at"}

\* The keys that must have come when the text ends.
RequiredTextKeys == TextKeys

\* deserialize_identity_text: of a repeated key the last line counts.
ParseIdentityText(text) ==
    LET At(body, key) == {i \in DOMAIN body : Head(body[i]) = TextKey[key]}
        ValueIn(body, key) ==
            Tail(body[CHOOSE i \in At(body, key) : \A j \in At(body, key) : j <= i])
        KnownLines(body) ==
            \A i \in DOMAIN body : body[i] # <<>> /\
                \E key \in TextKeys : Head(body[i]) = TextKey[key] /\ TextValue(key, Tail(body[i]))
        Identity(v) ==
            IF Len(v.signing) = 2 * Opaque /\ v.display_name # <<>>
            THEN [ok |-> TRUE,
                  out |-> [device_id |-> HexDecode(v.device_id), display_name |-> v.display_name,
                           classical |-> HexDecode(v.classical), pqc |-> HexDecode(v.pqc),
                           signing |-> <<[algorithm |-> 1, key |-> HexDecode(v.signing)]>>,
                           created_at |-> DigitsValue(v.created_at), trust_state |-> 0]]
            ELSE Unparsed
        Body(body) ==
            IF KnownLines(body) /\ \A key \in RequiredTextKeys : At(body, key) # {}
            THEN Identity([key \in TextKeys |->
                              IF At(body, key) = {} THEN <<>> ELSE ValueIn(body, key)])
            ELSE Unparsed
        Whole(lines) == IF lines # <<>> /\ lines[1] = <<Title>> THEN Body(Tail(lines)) ELSE Unparsed
    IN  Whole(Lines(text))

-----------------------------------------------------------------------------
(***************************************************************************)
(* The formats by name, and the values written in a behaviour.             *)
(***************************************************************************)
DiskFormats == {"vault", "bundle", "replay", "transfer", "key_file"}
SealedFormats == {"item", "item_set", "item_envelope", "signed", "identity", "keypair"}
Formats == DiskFormats \cup SealedFormats \cup {"text"}

Serialize(format, v) ==
    CASE format = "vault" -> SerializeVault(v)
      [] format = "item" -> SerializeItem(v)
      [] format = "item_set" -> SerializeItemSet(v)
      [] format = "item_envelope" -> SerializeItemEnvelope(v)
      [] format = "bundle" -> SerializeBundle(v)
      [] format = "replay" -> SerializeReplay(v)
      [] format = "transfer" -> SerializeTransfer(v)
      [] format = "signed" -> SerializeSigned(v)
      [] format = "identity" -> SerializeIdentity(v)
      [] format = "keypair" -> SerializeKeypair(v)
      [] format = "key_file" -> SerializeKeyFile(v)
      [] format = "text" -> SerializeIdentityText(v)

Parse(format, b) ==
    CASE format = "vault" -> ParseVault(b)
      [] format = "item" -> ReadAll(ItemFields, b)
      [] format = "item_set" -> ReadAll(ItemSetFields, b)
      [] format = "item_envelope" -> ReadAll(ItemEnvelopeFields, b)
      [] format = "bundle" -> ParseBundle(b)
      [] format = "replay" -> ParseReplay(b)
      [] format = "transfer" -> ReadAll(TransferFields, b)
      [] format = "signed" -> ReadAll(SignedFields, b)
      [] format = "identity" -> ParseIdentity(b)
      [] format = "keypair" -> ParseKeypair(b)
      [] format = "key_file" -> ParseKeyFile(b)
      [] format = "text" -> ParseIdentityText(b)

Kdf == [m_cost |-> MinMCost, t_cost |-> 3, p_lanes |-> 4, output_len |-> 32]

Items ==
    {[kind |-> 1, label |-> <<>>, tags |-> <<>>, secret |-> <<>>],
     [kind |-> 5, label |-> <<0, 1>>, tags |-> << [tag |-> <<2>>], [tag |-> <<>>] >>,
      secret |-> <<NotUtf8>>]}

Identities ==
    {[device_id |-> Bytes(1), display_name |-> <<3, 0>>, classical |-> Bytes(2), pqc |-> Bytes(0),
      signing |-> <<[algorithm |-> 1, key |-> Bytes(4)]>>, created_at |-> HexDigits + 2,
      trust_state |-> trust] : trust \in {0, 3}}

Values(format) ==
    CASE format = "vault" ->
            {[header |-> [vault_id |-> Bytes(1), created_at |-> 10, kdf |-> Kdf, nonce |-> Bytes(2)],
              wrk |-> [record_id |-> Bytes(3), revision_id |-> Bytes(4), nonce |-> Bytes(5),
                       ciphertext |-> Bytes(6) \o <<0>>],
              table |-> Bytes(7) \o Bytes(0), frames |-> frames] : frames \in {<<>>, <<1, 2>>}}
      [] format = "item" -> Items
      [] format = "item_set" -> {[items |-> s] : s \in {<<>>} \cup (Items \X Items)}
      [] format = "item_envelope" ->
            {[rek_wrap_nonce |-> Bytes(1), wrapped_rek |-> Bytes(2), payload_nonce |-> Bytes(3),
              encrypted_payload |-> Bytes(4) \o <<0>>]}
      [] format = "bundle" ->
            {[version |-> 1, source_vault_id |-> Bytes(1), kdf |-> Kdf, nonce |-> Bytes(2),
              ciphertext |-> Bytes(3)]}
      [] format = "replay" ->
            {[entries |-> s] : s \in {<<>>, << [id |-> Bytes(1), expires |-> <<>>],
                                               [id |-> Bytes(2), expires |-> <<Base>>] >>}}
      [] format = "transfer" ->
            {[version |-> 1, profile |-> 1, envelope_id |-> Bytes(1), sender |-> Bytes(2),
              recipient |-> recipient, ephemeral |-> Bytes(3),
              pqc_ciphertext |-> [i \in 1 .. PqcLen |-> i], transcript_hash |-> Bytes(4),
              nonce |-> Bytes(5), expires |-> expires, payload |-> Bytes(6)] :
                recipient \in {<<>>, <<[device_id |-> Bytes(1)]>>},
                expires \in {<<>>, <<[at |-> Base + 1]>>}}
      [] format = "signed" ->
            {[algorithm |-> 1, signature |-> Bytes(1), payload |-> p] : p \in {<<>>, <<0, 1>>}}
      [] format = "identity" ->
            {[version |-> 1] @@ d : d \in Identities}
      [] format = "keypair" ->
            {[version |-> 1, device_id |-> Bytes(1), public |-> PublicOf(Bytes(2)),
              classical |-> Bytes(2), pqc |-> Bytes(3), algorithm |-> 1, signing |-> Bytes(4)]}
      [] format = "key_file" ->
            {[salt |-> Bytes(1), version |-> 1, identity |-> [version |-> 1] @@ d,
              fingerprint |-> Bytes(2), nonce |-> Bytes(3), ciphertext |-> Bytes(4)] :
                d \in Identities}
      [] format = "text" -> {d \in Identities : d.trust_state = 0}

-----------------------------------------------------------------------------
(***************************************************************************)
(* The machine: a file is written, and at most one thing happens to it.    *)
(***************************************************************************)
VARIABLES
    format,     \* what the file is
    written,    \* the value it was written from
    bytes,      \* the file
    damage      \* none, cut, changed, fitted (a change that also moves the end) or edited

formatVars == <<format, written, bytes, damage>>

FormatInit ==
    /\ format \in Formats
    /\ written \in Values(format)
    /\ bytes = Serialize(format, written)
    /\ damage = "none"

\* A file of the same format replaces this one.
WriteFile ==
    /\ written' \in Values(format)
    /\ bytes' = Serialize(format, written')
    /\ damage' = "none"
    /\ UNCHANGED format

Damage(kind, b) ==
    /\ damage' = kind
    /\ bytes' = b
    /\ UNCHANGED <<format, written>>

\* A write that a kill, an error or a power loss cut short.
CutShort ==
    /\ damage = "none"
    /\ \E n \in 0 .. (Len(bytes) - 1) : Damage("cut", SubSeq(bytes, 1, n))

ChangeByte ==
    /\ damage = "none" /\ format # "text"
    /\ \E i \in DOMAIN bytes : \E b \in Byte \ {bytes[i]} :
            Damage("changed", [bytes EXCEPT ![i] = b])

\* Changed bytes, perhaps a length, that also end elsewhere.
ChangeEnd ==
    /\ \/ damage = "none" /\ format # "text"
       \/ damage = "changed" /\ format \in TwiceDamaged
    /\ \/ \E b \in Byte : Damage("fitted", Append(bytes, b))
       \/ \E n \in 0 .. (Len(bytes) - 1) : Damage("fitted", SubSeq(bytes, 1, n))

\* A list with one element dropped, repeated or moved, or a new one put in.
Edits(list, new) ==
    LET I == DOMAIN list IN
    {RemoveAt(list, i) : i \in I}
    \cup {InsertAt(list, i, list[j]) : i, j \in I}
    \cup {InsertAt(RemoveAt(list, i), j, list[i]) : i, j \in I \ {Len(list)}}
    \cup {InsertAt(list, i, x) : i \in I, x \in new}

HeaderBytes(tlvs) ==
    FlattenSeq([i \in DOMAIN tlvs |-> HeaderTlv(tlvs[i].tag, tlvs[i].flags, tlvs[i].value)])

KdfBytes(tlvs) ==
    U16(KdfArgon2id)
    \o WithLen(FlattenSeq([i \in DOMAIN tlvs |-> KdfParam(tlvs[i].tag, tlvs[i].value)]))

\* Tags that no version knows, critical and not.
UnknownHeaderTlvs == {[tag |-> 8, flags |-> flags, value |-> <<1>>] : flags \in {0, 1}}
UnknownKdfParams == {[tag |-> Base + 6, value |-> <<1>>]}

EditHeader ==
    /\ format = "vault" /\ damage = "none"
    /\ \E tlvs \in Edits(HeaderTlvs(bytes).out.tlvs, UnknownHeaderTlvs) :
            Damage("edited", AssembleVault(HeaderBytes(tlvs), written))

EditKdf ==
    /\ format = "vault" /\ damage = "none"
    /\ LET tlvs == HeaderTlvs(bytes).out.tlvs
            at == CHOOSE i \in DOMAIN tlvs : tlvs[i].tag = HeaderTag.kdf
        IN  \E params \in Edits(KdfTlvs(tlvs[at].value).out.tlvs, UnknownKdfParams) :
                Damage("edited",
                    AssembleVault(HeaderBytes([tlvs EXCEPT ![at].value = KdfBytes(params)]), written))

FormatNext == WriteFile \/ CutShort \/ ChangeByte \/ ChangeEnd \/ EditHeader \/ EditKdf

FormatSpec == FormatInit /\ [][FormatNext]_formatVars

-----------------------------------------------------------------------------
(***************************************************************************)
(* Properties.                                                             *)
(***************************************************************************)
Parsed ==
    LET Outcome(r) == [ok |-> r.ok, out |-> r.out]
    IN  Outcome(Parse(format, bytes))

(***************************************************************************)
(* A file as it was written parses to the value it was written from,       *)
(* through parsers that share no field order with the writers.             *)
(***************************************************************************)
RoundTrip == damage = "none" => Parsed = [ok |-> TRUE, out |-> written]

(***************************************************************************)
(* A file that a write left incomplete is rejected by its parser alone,    *)
(* before any key or signature is checked: what a torn file is in the      *)
(* modules about crashes.                                                  *)
(***************************************************************************)
TornRejected == format \in DiskFormats /\ damage = "cut" => ~Parsed.ok

(***************************************************************************)
(* A header in the form serialize_header gives it: TLVs in the order of    *)
(* their tags, with its flags, unknown ones left out, the PQC profile put  *)
(* in if missing, and the KDF parameters in order.                         *)
(***************************************************************************)
NormalList(tlvs, tags, Encode(_)) ==
    FlattenSeq([i \in 1 .. Len(tags) |->
        LET same == SelectSeq(tlvs, LAMBDA x : x.tag = tags[i])
        IN  FlattenSeq([j \in DOMAIN same |-> Encode(same[j])])])

NormalKdf(value) ==
    U16(KdfArgon2id) \o WithLen(
        NormalList(KdfTlvs(value).out.tlvs, [i \in 1 .. 5 |-> Base + i],
                   LAMBDA x : KdfParam(x.tag, x.value)))

NormalHeader(tlvs) ==
    LET noPqc == [tag |-> HeaderTag.pqc, flags |-> 0, value |-> U16(PqcNone)]
        full == IF HeaderTag.pqc \in Tags(tlvs) THEN tlvs ELSE Append(tlvs, noPqc)
    IN  NormalList(full, [i \in 1 .. 7 |-> i],
            LAMBDA x : HeaderTlv(x.tag, IF x.tag = HeaderTag.pqc THEN 0 ELSE 1,
                                 IF x.tag = HeaderTag.kdf THEN NormalKdf(x.value) ELSE x.value))

\* What follows the header.
BodyOf(b) == SubSeq(b, WrkAt(ReadFields(PrefixFields, b, 0)) + 1, Len(b))

(***************************************************************************)
(* Whatever was done to a file, if its parser accepts it, it is what the   *)
(* writer makes of the value the parser found: no two files mean the same  *)
(* and none means two things.  The vault header alone is looser, by the    *)
(* flags of known tags, unknown non-critical tags, the order and a missing *)
(* PQC profile; nothing else of a vault is.                                *)
(***************************************************************************)
Canonical ==
    LET SameVault(again, v, tlvs) ==
            /\ SerializeHeader(v.header) = NormalHeader(tlvs)
            /\ BodyOf(again) = BodyOf(bytes)
        SameFile(p) ==
            p.ok => IF format = "vault"
                    THEN SameVault(SerializeVault(p.out), p.out, HeaderTlvs(bytes).out.tlvs)
                    ELSE Serialize(format, p.out) = bytes
    IN  format # "text" => SameFile(Parsed)

(***************************************************************************)
(* An identity text that was cut short and still parses names the same     *)
(* device and keys.  Only its last line, the time of creation, can have    *)
(* lost digits, which no parser of the text can notice.                    *)
(***************************************************************************)
TornText ==
    LET FewerDigits(p) ==
            p.ok => \E k \in 0 .. 7 :
                        /\ written.created_at \div HexDigits ^ k > 0
                        /\ p.out = [written EXCEPT !.created_at = @ \div HexDigits ^ k]
    IN  format = "text" /\ damage = "cut" => FewerDigits(Parsed)
=============================================================================
