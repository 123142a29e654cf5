-------------------------- MODULE RecordTableProofs -------------------------
(***************************************************************************)
(* Theorems about RecordTable: the layout rewrite_vault computes, for any  *)
(* number of records and any lengths of the secrets.                       *)
(***************************************************************************)
EXTENDS RecordTable, FiniteSetTheorems, TLAPS

Kinds == {"item", "tombstone"}
FrameSet == [kind : Kinds, id : Nat, rev : Nat, secret : SecretLens \cup {0}, len : Nat]
Pieces == [start : Nat, frame : FrameSet]
Entries == [id : Nat, kind : Kinds, rev : Nat, offset : Nat, len : Nat]
Records == [id : Nat, kind : Kinds, rev : Nat, frame : FrameSet]

-----------------------------------------------------------------------------
(***************************************************************************)
(* The inductive invariant.                                                *)
(***************************************************************************)
\* Frames follow one another without overlap.
Stacked(bytes) ==
    /\ bytes.len \in Nat /\ bytes.pieces \in Seq(Pieces)
    /\ \A k \in DOMAIN bytes.pieces :
        LET piece == bytes.pieces[k]
        IN  /\ piece.frame.len > 0
            /\ piece.start + piece.frame.len <= bytes.len
            /\ \A j \in DOMAIN bytes.pieces :
                j < k => bytes.pieces[j].start + bytes.pieces[j].frame.len <= piece.start

\* The k-th entry is about the k-th frame, if the frames begin at base.
PointsTo(entries, bytes, base) ==
    /\ entries \in Seq(Entries) /\ Len(entries) = Len(bytes.pieces)
    /\ \A k \in DOMAIN entries :
        LET frame == bytes.pieces[k].frame
        IN  /\ entries[k].id = k /\ frame.id = k
            /\ entries[k].kind = frame.kind /\ entries[k].rev = frame.rev
            /\ entries[k].offset = base + bytes.pieces[k].start
            /\ entries[k].len = frame.len

FileGood(f) ==
    /\ f.tableLen = SealedTableLen(f.entries)
    /\ Stacked(f.frames)
    /\ PointsTo(f.entries, f.frames, TableEnd(f))
    /\ Len(f.entries) <= MaxRecords

ContentOf(frame) == [kind |-> frame.kind, rev |-> frame.rev, secret |-> frame.secret]

\* The frames of the file are what was last written for each id.
ContentsGood ==
    /\ DOMAIN contents = 1 .. MaxRecords
    /\ \A k \in DOMAIN file.entries : contents[k] = ContentOf(file.frames.pieces[k].frame)
    /\ \A id \in (1 .. MaxRecords) \ DOMAIN file.entries : contents[id] = NoContents

\* The records being laid are those of the file but for the one that is written.
RecordsGood(r) ==
    /\ r.records \in Seq(Records)
    /\ Len(r.records) <= MaxRecords /\ Len(file.entries) <= Len(r.records)
    /\ \A k \in DOMAIN r.records :
        LET record == r.records[k]
        IN  /\ record.id = k /\ record.frame.id = k
            /\ record.kind = record.frame.kind /\ record.rev = record.frame.rev
            /\ record.frame.len > 0
            /\ k # r.written.id =>
                k \in DOMAIN file.entries /\ record.frame = file.frames.pieces[k].frame
    /\ r.written.id \in DOMAIN r.records /\ r.records[r.written.id].frame = r.written

\* What the loop has made of the records so far.
LoopGood(r) ==
    LET base == WrkEnd + TableSectionLen(r.records)
    IN  /\ Stacked(r.frames_concat)
        /\ PointsTo(r.entries, r.frames_concat, base)
        /\ r.next_offset = base + r.frames_concat.len
        /\ Len(r.entries) <= Len(r.records)
        /\ \A k \in DOMAIN r.entries : r.frames_concat.pieces[k].frame = r.records[k].frame

RewriteGood == rewrite # NoRewrite => RecordsGood(rewrite) /\ LoopGood(rewrite)

LayoutInv == writes \in Nat /\ FileGood(file) /\ ContentsGood /\ RewriteGood

-----------------------------------------------------------------------------
(***************************************************************************)
(* Lengths.                                                                *)
(***************************************************************************)
\* A bucket is a power of two with room for the entries.
LEMMA BucketHolds ==
    ASSUME NEW n \in Nat, n <= LargestBucket
    PROVE  BucketCapacity(n) \in PowersOfTwo /\ BucketCapacity(n) \in Nat /\ n <= BucketCapacity(n)
<1>1. \E c \in PowersOfTwo : c >= n /\ \A d \in PowersOfTwo : d >= n => c <= d
    <2> DEFINE Least(c) == c \in PowersOfTwo /\ c >= n /\ \A d \in PowersOfTwo : d >= n => c <= d
    <2>1. CASE n <= 16
        <3>1. Least(1) \/ Least(2) \/ Least(4) \/ Least(8) \/ Least(16)
            BY <2>1 DEF PowersOfTwo
        <3> QED BY <3>1
    <2>2. CASE n > 16 /\ n <= 512
        <3>1. Least(32) \/ Least(64) \/ Least(128) \/ Least(256) \/ Least(512)
            BY <2>2 DEF PowersOfTwo
        <3> QED BY <3>1
    <2>3. CASE n > 512 /\ n <= 16384
        <3>1. Least(1024) \/ Least(2048) \/ Least(4096) \/ Least(8192) \/ Least(16384)
            BY <2>3 DEF PowersOfTwo
        <3> QED BY <3>1
    <2>4. CASE n > 16384
        <3>1. Least(32768) \/ Least(65536) \/ Least(131072) \/ Least(262144) \/ Least(524288)
            BY <2>4 DEF PowersOfTwo, LargestBucket
        <3> QED BY <3>1
    <2> QED BY <2>1, <2>2, <2>3, <2>4
<1>2. BucketCapacity(n) \in PowersOfTwo /\ BucketCapacity(n) >= n
    BY <1>1 DEF BucketCapacity
<1>3. \A c \in PowersOfTwo : c \in Nat
    BY DEF PowersOfTwo
<1> QED BY <1>2, <1>3

\* The section length rewrite_vault counts on is the one the sealed table takes.
LEMMA SectionLen ==
    ASSUME NEW s, NEW t, Len(s) = Len(t), Len(s) \in Nat, Len(s) <= LargestBucket
    PROVE  SealedTableLen(s) = TableSectionLen(t) /\ SealedTableLen(s) \in Nat
<1>1. BucketCapacity(Len(s)) \in Nat
    BY BucketHolds
<1> QED BY <1>1 DEF SealedTableLen, TableSectionLen, PaddedPlaintextLen, NonceLen, TagLen,
                    CountLen, EntryLen

LEMMA FrameTypes ==
    ASSUME NEW id \in Nat, NEW rev \in Nat
    PROVE  /\ TombstoneFrame(id, rev) \in FrameSet /\ TombstoneFrame(id, rev).len > 0
           /\ \A secret \in SecretLens :
                ItemFrame(id, rev, secret) \in FrameSet /\ ItemFrame(id, rev, secret).len > 0
<1>1. RecordFrameLen(0) \in Nat /\ RecordFrameLen(0) > 0
    BY DEF RecordFrameLen, NonceLen, AadLen
<1>2. ASSUME NEW secret \in SecretLens
      PROVE  RecordFrameLen(EnvelopeLen(secret)) \in Nat /\ RecordFrameLen(EnvelopeLen(secret)) > 0
    <2>1. secret \in Nat
        BY LayoutAssumption
    <2> QED BY <2>1 DEF RecordFrameLen, EnvelopeLen, PayloadLen, NonceLen, AadLen, TagLen
<1>3. TombstoneFrame(id, rev) \in FrameSet /\ TombstoneFrame(id, rev).len > 0
    BY <1>1 DEF TombstoneFrame, FrameSet, Kinds
<1>4. ASSUME NEW secret \in SecretLens
      PROVE  ItemFrame(id, rev, secret) \in FrameSet /\ ItemFrame(id, rev, secret).len > 0
    BY <1>2 DEF ItemFrame, FrameSet, Kinds
<1> QED BY <1>3, <1>4

LEMMA AppendFacts ==
    ASSUME NEW S, NEW s \in Seq(S), NEW e \in S
    PROVE  /\ Append(s, e) \in Seq(S) /\ Len(Append(s, e)) = Len(s) + 1 /\ Len(s) \in Nat
           /\ DOMAIN Append(s, e) = DOMAIN s \cup {Len(s) + 1} /\ DOMAIN s = 1 .. Len(s)
           /\ Append(s, e)[Len(s) + 1] = e
           /\ \A k \in DOMAIN s : Append(s, e)[k] = s[k] /\ s[k] \in S /\ k # Len(s) + 1
<1>1. \A n \in Nat : 1 .. n + 1 = (1 .. n) \cup {n + 1}
    OBVIOUS
<1>2. Len(s) \in Nat /\ DOMAIN s = 1 .. Len(s)
    OBVIOUS
<1>3. Append(s, e) \in Seq(S) /\ Len(Append(s, e)) = Len(s) + 1
    OBVIOUS
<1>4. DOMAIN Append(s, e) = 1 .. Len(s) + 1
    BY <1>3
<1>5. Append(s, e)[Len(s) + 1] = e /\ \A k \in DOMAIN s : Append(s, e)[k] = s[k] /\ s[k] \in S
    OBVIOUS
<1>6. \A k \in DOMAIN s : k # Len(s) + 1
    BY <1>2
<1> QED BY <1>1, <1>2, <1>3, <1>4, <1>5, <1>6

-----------------------------------------------------------------------------
(***************************************************************************)
(* Reading a good file.                                                    *)
(***************************************************************************)
\* Frames are not empty, so no two begin at the same place: an entry finds its own.
LEMMA FrameFound ==
    ASSUME NEW f, FileGood(f), TableEnd(f) \in Nat, NEW k \in DOMAIN f.entries
    PROVE  /\ FrameAt(f, f.entries[k].offset, f.entries[k].len) = f.frames.pieces[k].frame
           /\ f.frames.pieces[k].frame \in FrameSet /\ k \in DOMAIN f.frames.pieces
<1> DEFINE pieces == f.frames.pieces
           base == TableEnd(f)
           offset == f.entries[k].offset
           len == f.entries[k].len
           here == {j \in DOMAIN pieces : base + pieces[j].start = offset /\ pieces[j].frame.len = len}
<1>1. pieces \in Seq(Pieces) /\ f.entries \in Seq(Entries) /\ Len(f.entries) = Len(pieces)
    BY DEF FileGood, Stacked, PointsTo
<1>2. DOMAIN f.entries = DOMAIN pieces /\ DOMAIN pieces = 1 .. Len(pieces) /\ Len(pieces) \in Nat
    BY <1>1
<1>3. \A j \in DOMAIN pieces : pieces[j].start \in Nat /\ pieces[j].frame \in FrameSet
                               /\ pieces[j].frame.len \in Nat
    <2>1. \A j \in DOMAIN pieces : pieces[j] \in Pieces
        BY <1>1
    <2>2. \A frame \in FrameSet : frame.len \in Nat
        BY DEF FrameSet
    <2> QED BY <2>1, <2>2 DEF Pieces
<1>4. offset = base + pieces[k].start /\ len = pieces[k].frame.len
    BY DEF FileGood, PointsTo
<1>5. \A i, j \in DOMAIN pieces : i < j => pieces[i].start + pieces[i].frame.len <= pieces[j].start
    BY DEF FileGood, Stacked
<1>6. \A j \in DOMAIN pieces : pieces[j].frame.len > 0
    BY DEF FileGood, Stacked
<1>7. ASSUME NEW j \in DOMAIN pieces, j # k PROVE pieces[j].start # pieces[k].start
    <2>1. j < k \/ k < j
        BY <1>2, <1>7
    <2>2. k \in DOMAIN pieces
        BY <1>2
    <2>3. CASE j < k
        BY <1>3, <1>5, <1>6, <2>2, <2>3
    <2>4. CASE k < j
        BY <1>3, <1>5, <1>6, <2>2, <2>4
    <2> QED BY <2>1, <2>3, <2>4
<1>8. here = {k}
    <2>1. k \in here
        BY <1>2, <1>4
    <2>2. ASSUME NEW j \in here, j # k PROVE FALSE
        <3>1. base + pieces[j].start = base + pieces[k].start /\ j \in DOMAIN pieces
            BY <1>4, <2>2
        <3>2. base \in Nat /\ pieces[j].start \in Nat /\ pieces[k].start \in Nat
            BY <1>2, <1>3, <3>1
        <3>3. pieces[j].start = pieces[k].start
            BY <3>1, <3>2
        <3> QED BY <1>7, <2>2, <3>1, <3>3
    <2> QED BY <2>1, <2>2
<1>9. FrameAt(f, offset, len) =
        IF here = {} THEN Garbage(len) ELSE pieces[CHOOSE j \in here : TRUE].frame
    BY DEF FrameAt
<1> HIDE DEF here
<1>10. (CHOOSE j \in here : TRUE) = k
    BY <1>8
<1> QED BY <1>2, <1>3, <1>8, <1>9, <1>10

\* A good file passes every check of the reader.
LEMMA GoodAccepted ==
    ASSUME NEW f, FileGood(f)
    PROVE  TableAccepted(f) /\ TableEnd(f) \in Nat
<1> DEFINE n == Len(f.entries)
           cap == BucketCapacity(n)
           pieces == f.frames.pieces
           base == TableEnd(f)
           payload == f.tableLen - 4 - NonceLen - TagLen - CountLen
<1>1. n \in Nat /\ n <= LargestBucket
    BY LayoutAssumption DEF FileGood, PointsTo, LargestBucket
<1>2. cap \in PowersOfTwo /\ cap \in Nat /\ n <= cap
    BY <1>1, BucketHolds
<1>3. f.tableLen = 4 + 24 + (4 + cap * 46) + 16
    BY DEF FileGood, SealedTableLen, PaddedPlaintextLen, NonceLen, TagLen, CountLen, EntryLen
<1> HIDE DEF cap
<1>4. payload = cap * 46 /\ f.tableLen \in Nat /\ f.tableLen >= 48
    BY <1>2, <1>3 DEF NonceLen, TagLen, CountLen
<1>5. payload % 46 = 0 /\ payload \div 46 = cap
    BY <1>2, <1>4
<1>6. base \in Nat /\ base = WrkEnd + f.tableLen /\ WrkEnd \in Nat
    BY <1>4, LayoutAssumption DEF TableEnd
<1>7. pieces \in Seq(Pieces) /\ f.entries \in Seq(Entries) /\ Len(f.entries) = Len(pieces)
    BY DEF FileGood, Stacked, PointsTo
<1>8. DOMAIN f.entries = DOMAIN pieces /\ DOMAIN pieces = 1 .. Len(pieces) /\ Len(pieces) \in Nat
    BY <1>7
<1>9. \A j \in DOMAIN pieces : pieces[j].start \in Nat /\ pieces[j].frame.kind \in Kinds
                               /\ pieces[j].frame.len \in Nat
    <2>1. \A j \in DOMAIN pieces : pieces[j] \in Pieces
        BY <1>7
    <2>2. \A frame \in FrameSet : frame.len \in Nat /\ frame.kind \in Kinds
        BY DEF FrameSet
    <2> QED BY <2>1, <2>2 DEF Pieces
<1>10. \A k \in DOMAIN pieces : /\ f.entries[k].offset = base + pieces[k].start
                                /\ f.entries[k].len = pieces[k].frame.len
                                /\ f.entries[k].kind = pieces[k].frame.kind
                                /\ f.entries[k].id = k
    BY <1>8 DEF FileGood, PointsTo
<1>11. f.frames.len \in Nat /\ \A k \in DOMAIN pieces : /\ pieces[k].frame.len > 0
                                /\ pieces[k].start + pieces[k].frame.len <= f.frames.len
    BY DEF FileGood, Stacked
<1>12. \A i, j \in DOMAIN pieces : i < j => pieces[i].start + pieces[i].frame.len <= pieces[j].start
    BY DEF FileGood, Stacked
<1>13. FileLen(f) = base + f.frames.len
    BY DEF FileLen
<1> HIDE DEF base, pieces, payload, n
<1>14. ASSUME NEW k \in DOMAIN f.entries
       PROVE  /\ f.entries[k].kind \in {"item", "tombstone"}
              /\ f.entries[k].offset >= WrkEnd
              /\ f.entries[k].offset + f.entries[k].len <= FileLen(f)
              /\ f.entries[k].offset >= base
    <2>1. f.entries[k].kind \in {"item", "tombstone"}
        BY <1>8, <1>9, <1>10 DEF Kinds
    <2>2. /\ f.entries[k].offset = base + pieces[k].start
          /\ f.entries[k].len = pieces[k].frame.len
          /\ pieces[k].start \in Nat /\ pieces[k].frame.len \in Nat
          /\ pieces[k].start + pieces[k].frame.len <= f.frames.len
        BY <1>8, <1>9, <1>10, <1>11
    <2> HIDE DEF TableEnd
    <2> QED BY <1>4, <1>6, <1>11, <1>13, <2>1, <2>2
<1>15. IsInjective([k \in DOMAIN f.entries |-> f.entries[k].id])
    BY <1>8, <1>10 DEF IsInjective
<1>16. ExtentsDisjoint(f.entries)
    <2>1. ASSUME NEW j \in DOMAIN pieces, NEW k \in DOMAIN pieces, j # k,
                 f.entries[j].offset <= f.entries[k].offset
          PROVE  f.entries[j].offset + f.entries[j].len <= f.entries[k].offset
        <3>1. /\ f.entries[j].offset = base + pieces[j].start
              /\ f.entries[k].offset = base + pieces[k].start
              /\ f.entries[j].len = pieces[j].frame.len
              /\ pieces[j].start \in Nat /\ pieces[k].start \in Nat
              /\ pieces[j].frame.len \in Nat /\ pieces[k].frame.len \in Nat
              /\ pieces[k].frame.len > 0
            BY <1>9, <1>10, <1>11
        <3>2. pieces[j].start <= pieces[k].start
            BY <1>6, <2>1, <3>1
        <3>3. ~(k < j)
            BY <1>12, <3>1, <3>2
        <3>4. j < k
            BY <1>8, <2>1, <3>3
        <3>5. pieces[j].start + pieces[j].frame.len <= pieces[k].start
            BY <1>12, <3>4
        <3> QED BY <1>6, <3>1, <3>5
    <2> QED BY <1>8, <2>1 DEF ExtentsDisjoint
<1>17. /\ f.tableLen >= 4 + NonceLen + TagLen + CountLen
       /\ payload % EntryLen = 0 /\ payload \div EntryLen = cap
    BY <1>4, <1>5 DEF NonceLen, TagLen, CountLen, EntryLen
<1>18. TableAccepted(f)
    BY <1>2, <1>14, <1>15, <1>16, <1>17 DEF TableAccepted, payload, n, base
<1> QED BY <1>6, <1>18 DEF base

-----------------------------------------------------------------------------
(***************************************************************************)
(* The steps of a rewrite.                                                 *)
(***************************************************************************)
LEMMA InitLayout == Init => LayoutInv
<1> SUFFICES ASSUME Init PROVE LayoutInv
    OBVIOUS
<1>1. /\ file.entries = <<>> /\ file.frames.pieces = <<>> /\ file.frames.len = 0
      /\ file.tableLen = SealedTableLen(file.entries)
    BY DEF Init, VaultFile, NoBytes
<1>2. \A S : <<>> \in Seq(S)
    OBVIOUS
<1>3. Len(<<>>) = 0 /\ DOMAIN <<>> = {}
    OBVIOUS
<1>4. Stacked(file.frames)
    BY <1>1, <1>2, <1>3 DEF Stacked
<1>5. PointsTo(file.entries, file.frames, TableEnd(file))
    BY <1>1, <1>2, <1>3 DEF PointsTo
<1>6. FileGood(file)
    BY <1>1, <1>3, <1>4, <1>5, LayoutAssumption DEF FileGood
<1>7. ContentsGood
    BY <1>1, <1>3 DEF Init, ContentsGood
<1> QED BY <1>6, <1>7 DEF Init, LayoutInv, RewriteGood

\* stage_records: a record at position p, or one more, and the others as they are.
LEMMA StagedGood ==
    ASSUME LayoutInv, NEW p, NEW frame \in FrameSet, frame.len > 0,
           frame.id \in 1 .. MaxRecords,
           \/ p \in DOMAIN file.entries /\ frame.id = p
           \/ p \notin DOMAIN file.entries /\ frame.id = Len(file.entries) + 1,
           RewriteVault(p, frame)
    PROVE  RecordsGood(rewrite') /\ LoopGood(rewrite')
<1> DEFINE entries == file.entries
           n == Len(entries)
           kept == [k \in DOMAIN entries |-> KeptRecord(entries[k])]
           new == WrittenRecord(frame)
           records == StageRecords(p, frame)
<1>1. FileGood(file) /\ TableEnd(file) \in Nat
    BY GoodAccepted DEF LayoutInv
<1>2. entries \in Seq(Entries) /\ n \in Nat /\ n <= MaxRecords /\ DOMAIN entries = 1 .. n
    BY <1>1 DEF FileGood, PointsTo
<1>3. MaxRecords \in Nat
    BY LayoutAssumption
<1>4. ASSUME NEW k \in DOMAIN entries
      PROVE  /\ kept[k] \in Records /\ kept[k].id = k /\ kept[k].frame.id = k
             /\ kept[k].kind = kept[k].frame.kind /\ kept[k].rev = kept[k].frame.rev
             /\ kept[k].frame.len > 0 /\ kept[k].frame = file.frames.pieces[k].frame
    <2>1. /\ kept[k].id = entries[k].id /\ kept[k].kind = entries[k].kind
          /\ kept[k].rev = entries[k].rev
          /\ kept[k].frame = FrameAt(file, entries[k].offset, entries[k].len)
          /\ kept[k] = [id |-> kept[k].id, kind |-> kept[k].kind, rev |-> kept[k].rev,
                        frame |-> kept[k].frame]
        BY DEF KeptRecord
    <2>2. /\ kept[k].frame = file.frames.pieces[k].frame /\ kept[k].frame \in FrameSet
          /\ k \in DOMAIN file.frames.pieces
        BY <1>1, <2>1, FrameFound
    <2> HIDE DEF kept
    <2>3. /\ entries[k].id = k /\ kept[k].frame.id = k /\ entries[k].kind = kept[k].frame.kind
          /\ entries[k].rev = kept[k].frame.rev
        BY <1>1, <2>2 DEF FileGood, PointsTo
    <2>4. kept[k].frame.len > 0
        BY <1>1, <2>2 DEF FileGood, Stacked
    <2>5. entries[k] \in Entries
        BY <1>2
    <2>6. kept[k].id \in Nat /\ kept[k].kind \in Kinds /\ kept[k].rev \in Nat
        BY <2>1, <2>5 DEF Entries
    <2>7. kept[k] \in Records
        BY <2>1, <2>2, <2>6 DEF Records
    <2> QED BY <2>1, <2>2, <2>3, <2>4, <2>7
<1>5. /\ new \in Records /\ new.id = frame.id /\ new.frame = frame
      /\ new.kind = frame.kind /\ new.rev = frame.rev
    <2>1. frame.id \in Nat /\ frame.kind \in Kinds /\ frame.rev \in Nat
        BY DEF FrameSet
    <2> QED BY <2>1 DEF WrittenRecord, Records
<1>6. DOMAIN kept = 1 .. n /\ kept \in Seq(Records)
    <2>1. kept \in [1 .. n -> Records]
        BY <1>2, <1>4
    <2> HIDE DEF kept
    <2> QED BY <1>2, <2>1
<1>7. Len(kept) = n
    BY <1>2, <1>6
<1>8. StageRecords(p, frame) = IF p \in DOMAIN kept THEN [kept EXCEPT ![p] = new] ELSE Append(kept, new)
    BY DEF StageRecords
<1> HIDE DEF kept, new
<1>9. /\ records \in Seq(Records) /\ Len(records) \in Nat
      /\ Len(records) <= MaxRecords /\ n <= Len(records)
      /\ frame.id \in DOMAIN records /\ records[frame.id] = new
      /\ \A k \in DOMAIN records : k # frame.id => k \in DOMAIN entries /\ records[k] = kept[k]
    <2>1. CASE p \in DOMAIN entries
        <3>1. records = [kept EXCEPT ![p] = new]
            BY <1>2, <1>6, <1>8, <2>1
        <3>2. records \in [1 .. n -> Records]
            BY <1>2, <1>5, <1>6, <2>1, <3>1
        <3>3. Len(records) = n /\ DOMAIN records = 1 .. n /\ records \in Seq(Records)
            BY <1>2, <3>2
        <3>4. frame.id = p /\ records[p] = new /\ \A k \in 1 .. n : k # p => records[k] = kept[k]
            BY <1>2, <1>6, <2>1, <3>1
        <3> QED BY <1>2, <2>1, <3>3, <3>4
    <2>2. CASE p \notin DOMAIN entries
        <3>1. records = Append(kept, new) /\ frame.id = n + 1
            BY <1>2, <1>6, <1>8, <2>2
        <3>2. /\ records \in Seq(Records) /\ Len(records) = n + 1
              /\ DOMAIN records = DOMAIN kept \cup {n + 1} /\ records[n + 1] = new
              /\ \A k \in DOMAIN kept : records[k] = kept[k]
            BY <1>5, <1>6, <1>7, <3>1, AppendFacts
        <3>3. n + 1 <= MaxRecords
            BY <1>2, <1>3, <3>1
        <3> QED BY <1>2, <1>6, <3>1, <3>2, <3>3
    <2> QED BY <2>1, <2>2
<1> HIDE DEF records
<1>10. rewrite' = NewRewrite(records, frame) /\ file' = file
    BY DEF RewriteVault, records
<1>11. /\ rewrite'.records = records /\ rewrite'.written = frame
       /\ rewrite'.next_offset = WrkEnd + TableSectionLen(records)
       /\ rewrite'.entries = <<>> /\ rewrite'.frames_concat = NoBytes
    BY <1>10 DEF NewRewrite
<1>12. RecordsGood(rewrite')
    <2>1. ASSUME NEW k \in DOMAIN records
          PROVE  /\ records[k].id = k /\ records[k].frame.id = k
                 /\ records[k].kind = records[k].frame.kind /\ records[k].rev = records[k].frame.rev
                 /\ records[k].frame.len > 0
                 /\ k # frame.id =>
                        k \in DOMAIN file.entries /\ records[k].frame = file.frames.pieces[k].frame
        <3>1. CASE k = frame.id
            BY <1>5, <1>9, <3>1
        <3>2. CASE k # frame.id
            BY <1>4, <1>9, <3>2
        <3> QED BY <3>1, <3>2
    <2>2. records[frame.id].frame = frame
        BY <1>5, <1>9
    <2> QED BY <1>9, <1>11, <2>1, <2>2 DEF RecordsGood
<1>13. LoopGood(rewrite')
    <2>1. NoBytes.len = 0 /\ NoBytes.pieces = <<>>
        BY DEF NoBytes
    <2>2. Len(<<>>) = 0 /\ DOMAIN <<>> = {} /\ \A S : <<>> \in Seq(S)
        OBVIOUS
    <2>3. Stacked(NoBytes) /\ PointsTo(<<>>, NoBytes, WrkEnd + TableSectionLen(records))
        BY <2>1, <2>2 DEF Stacked, PointsTo
    <2>4. WrkEnd + TableSectionLen(records) = WrkEnd + TableSectionLen(records) + 0
        <3>1. TableSectionLen(records) \in Nat
            BY <1>3, <1>9, SectionLen, LayoutAssumption DEF LargestBucket
        <3> QED BY <3>1, LayoutAssumption
    <2> QED BY <1>9, <1>11, <2>1, <2>2, <2>3, <2>4 DEF LoopGood
<1> QED BY <1>12, <1>13

\* One turn of the loop puts the next entry and frame where next_offset says.
LEMMA LayGood ==
    ASSUME NEW r, RecordsGood(r), LoopGood(r), Len(r.entries) < Len(r.records)
    PROVE  RecordsGood(LayRecord(r)) /\ LoopGood(LayRecord(r))
<1> DEFINE q == LayRecord(r)
           k == Len(r.entries) + 1
           record == r.records[k]
           base == WrkEnd + TableSectionLen(r.records)
           old == r.frames_concat
           new == q.frames_concat
           entry == [id |-> record.id, kind |-> record.kind, rev |-> record.rev,
                     offset |-> r.next_offset, len |-> record.frame.len]
           piece == [start |-> old.len, frame |-> record.frame]
<1>1. /\ q.records = r.records /\ q.written = r.written
      /\ q.next_offset = r.next_offset + record.frame.len
      /\ q.entries = Append(r.entries, entry)
      /\ new.len = old.len + record.frame.len
      /\ new.pieces = Append(old.pieces, piece)
    BY DEF LayRecord, Extend
<1> HIDE DEF q, entry, piece
<1>2. RecordsGood(q)
    <2>1. q.records = r.records /\ q.written = r.written
        BY <1>1
    <2> QED BY <2>1 DEF RecordsGood
<1>3. /\ r.records \in Seq(Records) /\ Len(r.records) <= MaxRecords
      /\ r.entries \in Seq(Entries) /\ old.pieces \in Seq(Pieces)
      /\ Len(r.entries) = Len(old.pieces) /\ old.len \in Nat
      /\ r.next_offset = base + old.len
    BY DEF RecordsGood, LoopGood, Stacked, PointsTo
<1>4. Len(r.entries) \in Nat /\ Len(r.records) \in Nat /\ k \in DOMAIN r.records /\ k \in Nat
    BY <1>3
<1>5. base \in Nat
    <2>1. TableSectionLen(r.records) \in Nat
        BY <1>3, <1>4, SectionLen, LayoutAssumption DEF LargestBucket
    <2> QED BY <2>1, LayoutAssumption
<1>6. /\ record \in Records /\ record.id = k /\ record.frame.id = k
      /\ record.kind = record.frame.kind /\ record.rev = record.frame.rev
      /\ record.frame.len > 0
    <2>1. record \in Records
        BY <1>3, <1>4
    <2> QED BY <1>4, <2>1 DEF RecordsGood
<1>7. /\ record.kind \in Kinds /\ record.rev \in Nat /\ record.frame \in FrameSet
      /\ record.frame.len \in Nat
    BY <1>6 DEF Records, FrameSet
<1> HIDE DEF record, base
<1>8. entry \in Entries /\ piece \in Pieces
    BY <1>3, <1>4, <1>5, <1>6, <1>7 DEF entry, piece, Entries, Pieces
<1>9. /\ q.entries \in Seq(Entries) /\ Len(q.entries) = k /\ q.entries[k] = entry
      /\ DOMAIN q.entries = DOMAIN r.entries \cup {k}
      /\ \A j \in DOMAIN r.entries : q.entries[j] = r.entries[j] /\ j # k
    BY <1>1, <1>3, <1>8, AppendFacts
<1>10. /\ new.pieces \in Seq(Pieces) /\ Len(new.pieces) = k /\ new.pieces[k] = piece
       /\ DOMAIN new.pieces = DOMAIN old.pieces \cup {k}
       /\ \A j \in DOMAIN old.pieces : new.pieces[j] = old.pieces[j] /\ j # k /\ old.pieces[j] \in Pieces
    BY <1>1, <1>3, <1>8, AppendFacts
<1>11. DOMAIN r.entries = DOMAIN old.pieces /\ \A j \in DOMAIN old.pieces : j < k /\ j \in Nat
    BY <1>3
<1>12. /\ piece.start = old.len /\ piece.frame = record.frame
       /\ entry.id = k /\ entry.kind = record.frame.kind /\ entry.rev = record.frame.rev
       /\ entry.offset = base + piece.start /\ entry.len = record.frame.len
    BY <1>3, <1>6 DEF entry, piece
<1>13. \A j \in DOMAIN old.pieces :
            old.pieces[j].start \in Nat /\ old.pieces[j].frame.len \in Nat
    <2>1. \A frame \in FrameSet : frame.len \in Nat
        BY DEF FrameSet
    <2> QED BY <1>10, <2>1 DEF Pieces
<1>14. Stacked(new)
    <2>1. new.len \in Nat
        BY <1>1, <1>3, <1>7
    <2>2. ASSUME NEW j \in DOMAIN new.pieces
          PROVE  /\ new.pieces[j].frame.len > 0
                 /\ new.pieces[j].start + new.pieces[j].frame.len <= new.len
                 /\ \A i \in DOMAIN new.pieces :
                      i < j => new.pieces[i].start + new.pieces[i].frame.len <= new.pieces[j].start
        <3>1. CASE j = k
            <4>1. new.pieces[j].frame.len > 0 /\ new.pieces[j].start + new.pieces[j].frame.len <= new.len
                <5>1. new.pieces[j].start = old.len /\ new.pieces[j].frame = record.frame
                    BY <1>10, <1>12, <3>1
                <5>2. /\ new.len = old.len + record.frame.len /\ old.len \in Nat
                      /\ record.frame.len \in Nat /\ record.frame.len > 0
                    BY <1>1, <1>3, <1>6, <1>7
                <5> QED BY <5>1, <5>2
            <4>2. ASSUME NEW i \in DOMAIN new.pieces, i < j
                  PROVE  new.pieces[i].start + new.pieces[i].frame.len <= new.pieces[j].start
                <5>1. i \in DOMAIN old.pieces /\ new.pieces[i] = old.pieces[i]
                    BY <1>4, <1>10, <3>1, <4>2
                <5>2. old.pieces[i].start + old.pieces[i].frame.len <= old.len
                    BY <5>1 DEF LoopGood, Stacked
                <5> QED BY <1>10, <1>12, <3>1, <5>1, <5>2
            <4> QED BY <4>1, <4>2
        <3>2. CASE j # k
            <4>1. j \in DOMAIN old.pieces /\ new.pieces[j] = old.pieces[j]
                BY <1>10, <3>2
            <4>2. /\ old.pieces[j].frame.len > 0
                  /\ old.pieces[j].start + old.pieces[j].frame.len <= old.len
                  /\ \A i \in DOMAIN old.pieces :
                      i < j => old.pieces[i].start + old.pieces[i].frame.len <= old.pieces[j].start
                BY <4>1 DEF LoopGood, Stacked
            <4>3. new.pieces[j].start + new.pieces[j].frame.len <= new.len
                <5>1. old.len <= new.len
                    <6>1. new.len = old.len + record.frame.len
                        BY <1>1
                    <6> QED BY <1>3, <1>7, <6>1
                <5>2. old.pieces[j].start \in Nat /\ old.pieces[j].frame.len \in Nat
                    BY <1>13, <4>1
                <5>3. /\ old.pieces[j].start + old.pieces[j].frame.len <= old.len
                      /\ old.len \in Nat
                    BY <1>3, <4>2
                <5>4. old.pieces[j].start + old.pieces[j].frame.len <= new.len
                    BY <2>1, <5>1, <5>2, <5>3
                <5> QED BY <4>1, <5>4
            <4>4. ASSUME NEW i \in DOMAIN new.pieces, i < j
                  PROVE  i \in DOMAIN old.pieces /\ new.pieces[i] = old.pieces[i]
                BY <1>4, <1>10, <1>11, <4>1, <4>4
            <4> QED BY <4>1, <4>2, <4>3, <4>4
        <3> QED BY <3>1, <3>2
    <2> QED BY <1>10, <2>1, <2>2 DEF Stacked
<1>15. PointsTo(q.entries, new, base)
    <2>1. ASSUME NEW j \in DOMAIN q.entries
          PROVE  /\ q.entries[j].id = j /\ new.pieces[j].frame.id = j
                 /\ q.entries[j].kind = new.pieces[j].frame.kind
                 /\ q.entries[j].rev = new.pieces[j].frame.rev
                 /\ q.entries[j].offset = base + new.pieces[j].start
                 /\ q.entries[j].len = new.pieces[j].frame.len
        <3>1. CASE j = k
            BY <1>6, <1>9, <1>10, <1>12, <3>1
        <3>2. CASE j # k
            <4>1. /\ j \in DOMAIN r.entries /\ q.entries[j] = r.entries[j]
                  /\ new.pieces[j] = old.pieces[j]
                BY <1>9, <1>10, <1>11, <3>2
            <4> QED BY <4>1 DEF LoopGood, PointsTo, base
        <3> QED BY <3>1, <3>2
    <2> QED BY <1>9, <1>10, <2>1 DEF PointsTo
<1>16. q.next_offset = base + new.len
    BY <1>1, <1>3, <1>5, <1>7
<1>17. Len(q.entries) <= Len(q.records)
    BY <1>1, <1>4, <1>9
<1>18. \A j \in DOMAIN q.entries : new.pieces[j].frame = q.records[j].frame
    <2>1. ASSUME NEW j \in DOMAIN q.entries PROVE new.pieces[j].frame = r.records[j].frame
        <3>1. CASE j = k
            BY <1>10, <1>12, <3>1 DEF record
        <3>2. CASE j # k
            <4>1. j \in DOMAIN r.entries /\ new.pieces[j] = old.pieces[j]
                BY <1>9, <1>10, <1>11, <3>2
            <4> QED BY <4>1 DEF LoopGood
        <3> QED BY <3>1, <3>2
    <2> QED BY <1>1, <2>1
<1>19. LoopGood(q)
    BY <1>1, <1>14, <1>15, <1>16, <1>17, <1>18 DEF LoopGood, base
<1> QED BY <1>2, <1>19 DEF q

\* What is persisted is a good file with the frame that was written.
LEMMA PersistGood ==
    ASSUME LayoutInv, PersistRewrite
    PROVE  LayoutInv'
<1> DEFINE r == rewrite
           n == Len(r.entries)
           frame == r.written
           pieces == file'.frames.pieces
<1>1. /\ RecordsGood(r) /\ LoopGood(r) /\ Len(r.entries) = Len(r.records)
      /\ SealedTableLen(r.entries) = TableSectionLen(r.records)
      /\ file' = VaultFile(r.entries, r.frames_concat)
      /\ rewrite' = NoRewrite /\ writes' = writes + 1
      /\ contents' = [contents EXCEPT ![frame.id] = ContentOf(frame)]
    BY DEF LayoutInv, RewriteGood, PersistRewrite, ContentOf
<1>2. /\ file'.entries = r.entries /\ file'.frames = r.frames_concat
      /\ file'.tableLen = SealedTableLen(r.entries)
    BY <1>1 DEF VaultFile
<1>3. TableEnd(file') = WrkEnd + TableSectionLen(r.records)
    BY <1>1, <1>2 DEF TableEnd
<1>4. FileGood(file')
    <2>1. Len(r.entries) <= MaxRecords
        BY <1>1 DEF RecordsGood
    <2>2. Stacked(r.frames_concat) /\ PointsTo(r.entries, r.frames_concat, TableEnd(file'))
        BY <1>1, <1>3 DEF LoopGood
    <2> QED BY <1>2, <2>1, <2>2 DEF FileGood
<1>5. /\ r.entries \in Seq(Entries) /\ r.records \in Seq(Records)
      /\ DOMAIN contents = 1 .. MaxRecords /\ MaxRecords \in Nat
      /\ n <= MaxRecords /\ Len(file.entries) <= n
    BY <1>1, LayoutAssumption DEF RecordsGood, LoopGood, PointsTo, LayoutInv, ContentsGood
<1>6. n \in Nat /\ DOMAIN r.entries = 1 .. n /\ DOMAIN r.records = 1 .. n
    BY <1>1, <1>5
<1>7. /\ frame.id \in 1 .. n /\ frame.id \in DOMAIN contents
      /\ DOMAIN contents' = DOMAIN contents
      /\ contents'[frame.id] = ContentOf(frame)
      /\ \A id \in DOMAIN contents : id # frame.id => contents'[id] = contents[id]
    <2>1. frame.id \in 1 .. n
        BY <1>1, <1>6 DEF RecordsGood
    <2>2. frame.id \in DOMAIN contents
        BY <1>5, <1>6, <2>1
    <2> QED BY <1>1, <2>1, <2>2
<1>8. ContentsGood'
    <2>1. ASSUME NEW k \in DOMAIN r.entries
          PROVE  contents'[k] = ContentOf(r.frames_concat.pieces[k].frame)
        <3>1. r.frames_concat.pieces[k].frame = r.records[k].frame
            BY <1>1 DEF LoopGood
        <3>2. CASE k = frame.id
            BY <1>1, <1>7, <3>1, <3>2 DEF RecordsGood
        <3>3. CASE k # frame.id
            <4>1. k \in DOMAIN file.entries /\ r.records[k].frame = file.frames.pieces[k].frame
                BY <1>1, <1>6, <3>3 DEF RecordsGood
            <4>2. contents[k] = ContentOf(file.frames.pieces[k].frame)
                BY <4>1 DEF LayoutInv, ContentsGood
            <4>3. k \in DOMAIN contents
                BY <1>5, <1>6
            <4> QED BY <1>7, <3>1, <3>3, <4>1, <4>2, <4>3
        <3> QED BY <3>2, <3>3
    <2>2. ASSUME NEW id \in (1 .. MaxRecords) \ DOMAIN r.entries PROVE contents'[id] = NoContents
        <3>1. id # frame.id
            BY <1>6, <1>7, <2>2
        <3>2. id \notin DOMAIN file.entries
            <4>1. file.entries \in Seq(Entries)
                BY DEF LayoutInv, FileGood, PointsTo
            <4> QED BY <1>5, <1>6, <2>2, <4>1
        <3>3. contents[id] = NoContents
            BY <2>2, <3>2 DEF LayoutInv, ContentsGood
        <3> QED BY <1>5, <1>7, <2>2, <3>1, <3>3
    <2> QED BY <1>2, <1>5, <1>7, <2>1, <2>2 DEF ContentsGood
<1>9. RewriteGood'
    BY <1>1 DEF RewriteGood
<1>10. (writes \in Nat)'
    BY <1>1 DEF LayoutInv
<1> QED BY <1>4, <1>8, <1>9, <1>10 DEF LayoutInv

LEMMA StepLayout == LayoutInv /\ [Next]_vars => LayoutInv'
<1> SUFFICES ASSUME LayoutInv, [Next]_vars PROVE LayoutInv'
    OBVIOUS
<1>1. ASSUME UNCHANGED <<file, rewrite, writes, contents>> PROVE LayoutInv'
    BY <1>1 DEF LayoutInv, ContentsGood, RewriteGood, RecordsGood
<1>2. ASSUME UNCHANGED <<file, writes, contents>>,
             RecordsGood(rewrite') /\ LoopGood(rewrite')
      PROVE  LayoutInv'
    BY <1>2 DEF LayoutInv, ContentsGood, RewriteGood, RecordsGood
<1>3. file.entries \in Seq(Entries) /\ Len(file.entries) <= MaxRecords /\ writes + 1 \in Nat
    BY DEF LayoutInv, FileGood, PointsTo
<1>4. Len(file.entries) \in Nat /\ MaxRecords \in Nat /\ DOMAIN file.entries = 1 .. Len(file.entries)
    BY <1>3, LayoutAssumption
<1>5. CASE Unlock \/ Lock \/ UNCHANGED vars
    BY <1>1, <1>5 DEF Unlock, Lock, vars
<1>6. CASE Add
    <2> DEFINE id == Len(file.entries) + 1
    <2>1. PICK secret \in SecretLens : RewriteVault(0, ItemFrame(id, writes + 1, secret))
        BY <1>6 DEF Add
    <2> DEFINE frame == ItemFrame(id, writes + 1, secret)
    <2>2. frame \in FrameSet /\ frame.len > 0
        BY <1>3, <1>4, FrameTypes
    <2>3. frame.id = id
        BY DEF ItemFrame
    <2>4. id \in 1 .. MaxRecords /\ 0 \notin DOMAIN file.entries
        BY <1>4, <1>6 DEF Add
    <2> HIDE DEF frame
    <2>5. RecordsGood(rewrite') /\ LoopGood(rewrite')
        BY <2>1, <2>2, <2>3, <2>4, StagedGood DEF frame
    <2> QED BY <1>2, <2>1, <2>5 DEF RewriteVault
<1>7. ASSUME NEW p \in DOMAIN file.entries, NEW frame, RewriteVault(p, frame),
             \/ \E secret \in SecretLens : frame = ItemFrame(file.entries[p].id, writes + 1, secret)
             \/ frame = TombstoneFrame(file.entries[p].id, writes + 1)
      PROVE  LayoutInv'
    <2>1. file.entries[p].id = p /\ p \in Nat /\ p \in 1 .. MaxRecords
        BY <1>3, <1>4 DEF LayoutInv, FileGood, PointsTo
    <2>2. frame \in FrameSet /\ frame.len > 0
        BY <1>3, <1>7, <2>1, FrameTypes
    <2>3. frame.id = p
        BY <1>7, <2>1 DEF ItemFrame, TombstoneFrame
    <2>4. RecordsGood(rewrite') /\ LoopGood(rewrite')
        BY <1>7, <2>1, <2>2, <2>3, StagedGood
    <2> QED BY <1>2, <1>7, <2>4 DEF RewriteVault
<1>8. CASE Update
    BY <1>7, <1>8 DEF Update
<1>9. CASE Delete
    BY <1>7, <1>9 DEF Delete
<1>10. CASE LayNext
    <2>1. /\ RecordsGood(rewrite) /\ LoopGood(rewrite) /\ rewrite' = LayRecord(rewrite)
          /\ Len(rewrite.entries) < Len(rewrite.records)
        BY <1>10 DEF LayNext, LayoutInv, RewriteGood
    <2>2. RecordsGood(LayRecord(rewrite)) /\ LoopGood(LayRecord(rewrite))
        BY <2>1, LayGood
    <2> QED BY <1>2, <1>10, <2>1, <2>2 DEF LayNext
<1>11. CASE PersistRewrite
    BY <1>11, PersistGood
<1> QED BY <1>5, <1>6, <1>8, <1>9, <1>10, <1>11 DEF Next

\* Every table and every frame of the file is in place, at any time.
THEOREM LayoutHolds == Spec => []LayoutInv
<1> QED BY InitLayout, StepLayout, PTL DEF Spec

-----------------------------------------------------------------------------
\* rewrite_vault computes offsets before it seals the table: whatever the number of
\* records and the lengths of their frames, the reader accepts every file it writes.
THEOREM TableAlwaysOpens == Spec => []TableOpens
<1>1. LayoutInv => TableOpens
    BY GoodAccepted DEF LayoutInv, TableOpens
<1> QED BY <1>1, LayoutHolds, PTL

\* After any sequence of add, update and delete each entry leads to the frame that was
\* last written for its record, although every rewrite moves the frames.
THEOREM FramesStayIntact == Spec => []FramesIntact
<1>1. ASSUME LayoutInv PROVE FramesIntact
    <2>0. FileGood(file) /\ TableEnd(file) \in Nat /\ ContentsGood
        BY <1>1, GoodAccepted DEF LayoutInv
    <2>1. ASSUME NEW id \in DOMAIN contents,
                 NEW at, at = {k \in DOMAIN file.entries : file.entries[k].id = id}
          PROVE  IF contents[id].kind = "none" THEN at = {}
                 ELSE /\ Cardinality(at) = 1
                      /\ \A k \in at :
                         LET entry == file.entries[k]
                             frame == FrameAt(file, entry.offset, entry.len)
                         IN  /\ entry.kind = contents[id].kind /\ entry.rev = contents[id].rev
                             /\ frame.kind = entry.kind /\ frame.id = id /\ frame.rev = entry.rev
                             /\ frame.secret = contents[id].secret
        <3>1. \A k \in DOMAIN file.entries : file.entries[k].id = k
            BY <2>0 DEF FileGood, PointsTo
        <3>2. CASE id \notin DOMAIN file.entries
            <4>1. contents[id].kind = "none"
                BY <2>0, <2>1, <3>2 DEF ContentsGood, NoContents
            <4> QED BY <2>1, <3>1, <3>2, <4>1
        <3>3. CASE id \in DOMAIN file.entries
            <4> DEFINE entry == file.entries[id]
                       frame == FrameAt(file, entry.offset, entry.len)
            <4>1. at = {id}
                BY <2>1, <3>1, <3>3
            <4>2. Cardinality(at) = 1
                BY <4>1, FS_Singleton
            <4>3. frame = file.frames.pieces[id].frame /\ frame \in FrameSet
                BY <2>0, <3>3, FrameFound
            <4> HIDE DEF frame
            <4>4. contents[id] = ContentOf(frame)
                BY <2>0, <3>3, <4>3 DEF ContentsGood
            <4>5. contents[id].kind = frame.kind /\ contents[id].rev = frame.rev
                  /\ contents[id].secret = frame.secret
                BY <4>4 DEF ContentOf
            <4>6. entry.kind = frame.kind /\ entry.rev = frame.rev /\ frame.id = id
                BY <2>0, <3>3, <4>3 DEF FileGood, PointsTo
            <4>7. frame.kind # "none"
                BY <4>3 DEF FrameSet, Kinds
            <4> QED BY <4>1, <4>2, <4>5, <4>6, <4>7 DEF frame
        <3> QED BY <3>2, <3>3
    <2> QED BY <2>1 DEF FramesIntact
<1> QED BY <1>1, LayoutHolds, PTL

\* If the secrets are no longer than deserialize_item_payload accepts (add does not
\* check), list and with_item can read every item, whatever was written around it.
THEOREM ItemsReadable ==
    ASSUME SecretLens \subseteq 0 .. MaxSecretLen
    PROVE  Spec => []WrittenItemsReadable
<1>1. ASSUME LayoutInv PROVE WrittenItemsReadable
    <2>0. FileGood(file) /\ TableEnd(file) \in Nat
        BY <1>1, GoodAccepted DEF LayoutInv
    <2>1. ASSUME NEW k \in DOMAIN file.entries, file.entries[k].kind = "item"
          PROVE  ReadItem(file, file.entries[k])
        <3> DEFINE frame == FrameAt(file, file.entries[k].offset, file.entries[k].len)
        <3>1. frame = file.frames.pieces[k].frame /\ frame \in FrameSet
            BY <2>0, FrameFound
        <3> HIDE DEF frame
        <3>2. frame.kind = "item" /\ frame.id = file.entries[k].id /\ frame.rev = file.entries[k].rev
            BY <2>0, <2>1, <3>1 DEF FileGood, PointsTo
        <3>3. frame.secret \in SecretLens \cup {0}
            BY <3>1 DEF FrameSet
        <3>4. \A secret \in SecretLens \cup {0} : secret <= MaxSecretLen
            <4>1. MaxSecretLen \in Nat
                BY LayoutAssumption
            <4>2. \A secret \in SecretLens : secret <= MaxSecretLen
                OBVIOUS
            <4>3. 0 <= MaxSecretLen
                BY <4>1
            <4> QED BY <4>2, <4>3
        <3>5. PayloadReadable(frame.secret)
            BY <3>3, <3>4 DEF PayloadReadable
        <3> QED BY <3>2, <3>5 DEF ReadItem, frame
    <2> QED BY <2>1 DEF WrittenItemsReadable, ListSucceeds
<1> QED BY <1>1, LayoutHolds, PTL
=============================================================================
