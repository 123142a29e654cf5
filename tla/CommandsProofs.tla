--------------------------- MODULE CommandsProofs ---------------------------
(***************************************************************************)
(* Theorems about SealedVault and Commands.                                *)
(***************************************************************************)
EXTENDS Commands, FiniteSetTheorems, FunctionTheorems, TLAPS

-----------------------------------------------------------------------------
(***************************************************************************)
(* The key hierarchy is injective: what a box opens under tells what the   *)
(* keys were derived from.                                                 *)
(***************************************************************************)
KeysOf(vid) == UnlockedKeys(RootPrk(vid, vid, vid), vid)

\* derive_vkek over derive: a root key that opens was sealed for this password and vault.
LEMMA VaultKekInjective ==
    ASSUME NEW p, NEW v, NEW kdf, NEW q, NEW w, NEW kdf2,
           VaultKek(MasterUnlockKey(p, v, kdf), v) = VaultKek(MasterUnlockKey(q, w, kdf2), w)
    PROVE  p = q /\ v = w
<1>1. MasterUnlockKey(p, v, kdf) = MasterUnlockKey(q, w, kdf2) /\ v = w
    BY DEF VaultKek
<1> QED BY <1>1 DEF MasterUnlockKey

\* derive_subkey over derive_root_prk: equal subkeys come from one root key, vault and nonce.
LEMMA SubkeyInjective ==
    ASSUME NEW r, NEW v, NEW n, NEW purpose, NEW r2, NEW v2, NEW n2, NEW w, NEW w2,
           Subkey(RootPrk(r, v, n), purpose, w) = Subkey(RootPrk(r2, v2, n2), purpose, w2)
    PROVE  r = r2 /\ v = v2 /\ n = n2 /\ w = w2
<1>1. RootPrk(r, v, n) = RootPrk(r2, v2, n2) /\ w = w2
    BY DEF Subkey
<1> QED BY <1>1 DEF RootPrk

LEMMA RecordAadInjective ==
    ASSUME NEW v, NEW rid, NEW rev, NEW kind, NEW v2, NEW rid2, NEW rev2, NEW kind2,
           RecordAad(v, rid, rev, kind) = RecordAad(v2, rid2, rev2, kind2)
    PROVE  v = v2 /\ rid = rid2 /\ rev = rev2
BY DEF RecordAad

LEMMA TableAadInjective ==
    ASSUME NEW v, NEW w, TableAad(v) = TableAad(w)
    PROVE  v = w
BY DEF TableAad

-----------------------------------------------------------------------------
(***************************************************************************)
(* The steps of a vault, whoever takes them.                               *)
(***************************************************************************)
\* add, update or delete up to the rename, for any secret.
Mutates(c) ==
    \/ \E secret : AddItem(c, secret)
    \/ \E k : DeleteItem(c, k)
    \/ \E k, secret : UpdateItem(c, k, secret)

\* Nothing happens but that sessions or calls end.
Quiet ==
    /\ UNCHANGED <<file, draws, created, written, stored>>
    /\ DOMAIN call' = DOMAIN call /\ DOMAIN session' = DOMAIN session
    /\ \A c \in Clients :
        session'[c] \in {session[c], NoSession} /\ call'[c] \in {call[c], NoCall}

VaultStep ==
    \/ \E password \in Passwords : CreateVault(password)
    \/ \E c \in Clients, password \in Passwords : Unlock(c, password)
    \/ \E c \in Clients : Mutates(c) \/ Replace(c)
    \/ ChangeFile
    \/ Quiet

MapsTyped == DOMAIN call = Clients /\ DOMAIN session = Clients

LEMMA CoreCallKind ==
    ASSUME MapsTyped, NEW c \in Clients, CoreCall(c)
    PROVE  VaultStep
<1>1. CASE LockVault(c) \/ GiveUp(c)
    BY <1>1 DEF LockVault, GiveUp, VaultStep, Quiet, MapsTyped
<1> QED BY <1>1 DEF CoreCall, Mutates, VaultStep

LEMMA SealedStepKind ==
    ASSUME MapsTyped, [SealedNext]_sealedVars
    PROVE  VaultStep
<1>1. CASE UNCHANGED sealedVars
    BY <1>1 DEF sealedVars, VaultStep, Quiet
<1> QED BY <1>1, CoreCallKind DEF SealedNext, VaultStep

\* Every step of the commands is one, and calls and sessions stay with their clients.
LEMMA CommandStepKind ==
    ASSUME MapsTyped, [Next]_vars
    PROVE  VaultStep
<1>a. Cli \in Clients /\ \A password \in Lines : password # EmptyLine => password \in Passwords
    BY LinesAssumption DEF Lines
<1>0. ASSUME UNCHANGED sealedVars PROVE VaultStep
    BY <1>0 DEF sealedVars, VaultStep, Quiet
<1>1. CASE InitCommand
    BY <1>1, <1>a DEF InitCommand, VaultStep
<1>2. CASE AddCommand \/ ListCommand \/ GetCommand \/ ExportCommand \/ ImportCommand
    <2>1. PICK password \in Lines : \E name, text : UnlockSession(name, password, text)
        BY <1>2 DEF AddCommand, ListCommand, GetCommand, ExportCommand, ImportCommand
    <2> QED BY <1>a, <2>1 DEF UnlockSession, VaultStep
<1>3. CASE AddLoad \/ ImportLoad
    BY <1>3, <1>a DEF AddLoad, ImportLoad, VaultStep, Mutates
<1>4. CASE AddReplace \/ ImportReplace
    BY <1>4, <1>a DEF AddReplace, ImportReplace, VaultStep
<1>5. CASE \/ ListWork \/ GetWork \/ ExportList \/ ExportItem \/ ExportSeal
           \/ ClaimOutput \/ WriteOutput \/ ImportWork \/ ImportDone
    BY <1>0, <1>5 DEF ListWork, GetWork, ExportList, ExportItem, ExportSeal, ClaimOutput,
                      WriteOutput, ImportWork, ImportDone
<1>6. CASE End
    BY <1>6, <1>a DEF End, VaultStep, Quiet, MapsTyped
<1>7. CASE OtherCall
    BY <1>7, CoreCallKind DEF OtherCall
<1>8. CASE OtherReplace
    BY <1>8 DEF OtherReplace, VaultStep
<1>9. CASE FileChanges
    BY <1>9 DEF FileChanges, VaultStep
<1>10. CASE UNCHANGED vars
    BY <1>0, <1>10 DEF vars
<1> QED BY <1>1, <1>2, <1>3, <1>4, <1>5, <1>6, <1>7, <1>8, <1>9, <1>10 DEF Next

LEMMA MapsStep ==
    ASSUME MapsTyped, VaultStep
    PROVE  MapsTyped'
<1>1. ASSUME NEW c, Mutates(c) PROVE MapsTyped'
    BY <1>1 DEF Mutates, AddItem, DeleteItem, UpdateItem, RewriteVault, Prepare, MapsTyped
<1>2. CASE ChangeFile
    BY <1>2 DEF ChangeFile, Remove, Restore, MixHeader, MixSection, MixFrame, Outside, MapsTyped
<1> QED BY <1>1, <1>2 DEF VaultStep, CreateVault, Unlock, Replace, Quiet, MapsTyped

-----------------------------------------------------------------------------
(***************************************************************************)
(* The files of the program: those it wrote and those it is about to put   *)
(* in place.                                                               *)
(***************************************************************************)
Coming == {call[c].next : c \in {d \in Clients : Running(d)}}
Files == written \cup Coming

LEMMA FilesKept ==
    ASSUME written' = written, \A c \in Clients : call'[c] \in {call[c], NoCall}
    PROVE  Files' \subseteq Files
BY DEF Files, Coming, Running

LEMMA FilesPrepared ==
    ASSUME MapsTyped, NEW c \in Clients, NEW target, NEW next, Prepare(c, target, next)
    PROVE  /\ Files' \subseteq Files \cup {next} /\ written' = written
           /\ call'[c] = [loaded |-> file, target |-> target, next |-> next]
           /\ \A d \in Clients \ {c} : call'[d] = call[d]
<1>1. /\ call'[c] = [loaded |-> file, target |-> target, next |-> next]
      /\ \A d \in Clients \ {c} : call'[d] = call[d]
      /\ written' = written
    BY DEF Prepare, MapsTyped
<1> QED BY <1>1 DEF Files, Coming, Running

LEMMA FilesReplaced ==
    ASSUME MapsTyped, NEW c \in Clients, Replace(c)
    PROVE  /\ file' = call[c].next /\ file' \in Files /\ file' \in written'
           /\ Files' \subseteq Files /\ written' = written \cup {file'}
           /\ call'[c] = NoCall /\ \A d \in Clients \ {c} : call'[d] = call[d]
<1>1. /\ file' = call[c].next /\ written' = written \cup {call[c].next}
      /\ call'[c] = NoCall /\ \A d \in Clients \ {c} : call'[d] = call[d]
      /\ Running(c)
    BY DEF Replace, Write, MapsTyped
<1> QED BY <1>1 DEF Files, Coming, Running

LEMMA FilesCreated ==
    ASSUME NEW password, CreateVault(password)
    PROVE  /\ file' = NewFile(password, draws + 1) /\ file' \in written'
           /\ Files' \subseteq Files \cup {NewFile(password, draws + 1)}
BY DEF CreateVault, Write, Files, Coming, Running

-----------------------------------------------------------------------------
(***************************************************************************)
(* The inductive invariant: root key frames and tables, at the path or in  *)
(* any file of the program, were sealed by create and rewrite_vault for    *)
(* one created vault.                                                      *)
(***************************************************************************)
GoodRootKey(f, vaults) == \E v \in vaults : f.wrk = RootKeyFrame(v.password, v.vid, v.vid)

GoodTable(f, vaults) ==
    \E v \in vaults : f.table.key = KeysOf(v.vid).metadata /\ f.table.aad = TableAad(v.vid)

GoodFile(f, vaults) == GoodRootKey(f, vaults) /\ GoodTable(f, vaults)

FilesGood ==
    /\ file # NoFile => GoodFile(file, created)
    /\ \A f \in Files : GoodFile(f, created)

SessionInv == MapsTyped /\ FilesGood /\ SessionIsGenuine

LEMMA GoodStays ==
    ASSUME NEW vaults, NEW more, vaults \subseteq more, NEW f, GoodFile(f, vaults)
    PROVE  GoodFile(f, more)
BY DEF GoodFile, GoodRootKey, GoodTable

\* What unlock accepts was made by one create, with this password.
LEMMA UnlockGenuine ==
    ASSUME FilesGood, NEW password, Unlockable(file, password)
    PROVE  \E v \in created :
               /\ password = v.password /\ file.header.vid = v.vid
               /\ SessionKeys(file) = KeysOf(v.vid)
<1>1. PICK v \in created : file.wrk = RootKeyFrame(v.password, v.vid, v.vid)
    BY DEF FilesGood, GoodFile, GoodRootKey, Unlockable
<1>2. PICK w \in created :
        file.table.key = KeysOf(w.vid).metadata /\ file.table.aad = TableAad(w.vid)
    BY DEF FilesGood, GoodFile, GoodTable, Unlockable
<1>3. /\ file.wrk.box.msg = v.vid
      /\ file.wrk.box.key = VaultKek(MasterUnlockKey(v.password, v.vid, CanonicalKdf), v.vid)
    BY <1>1 DEF RootKeyFrame, Encrypt
<1>4. file.wrk.box.key =
        VaultKek(MasterUnlockKey(password, file.header.vid, file.header.kdf), file.header.vid)
    BY DEF Unlockable, RootKeyOpens, Decrypts
<1>a. VaultKek(MasterUnlockKey(password, file.header.vid, file.header.kdf), file.header.vid) =
        VaultKek(MasterUnlockKey(v.password, v.vid, CanonicalKdf), v.vid)
    BY <1>3, <1>4
<1>5. password = v.password /\ file.header.vid = v.vid
    BY <1>a, VaultKekInjective
<1>6. file.table.key = SessionKeys(file).metadata
    BY DEF Unlockable, TableOpens, Decrypts
<1>7. SessionKeys(file) = UnlockedKeys(RootPrk(v.vid, v.vid, file.header.nonce), v.vid)
    BY <1>3, <1>5 DEF SessionKeys
<1>8. Subkey(RootPrk(v.vid, v.vid, file.header.nonce), "metadata", v.vid) =
        Subkey(RootPrk(w.vid, w.vid, w.vid), "metadata", w.vid)
    BY <1>2, <1>6, <1>7 DEF KeysOf, UnlockedKeys
<1>9. file.header.nonce = v.vid
    BY <1>8, SubkeyInjective
<1> QED BY <1>5, <1>7, <1>9 DEF KeysOf

\* load_vault with a genuine session: the file's header names the session's vault.
LEMMA LoadGenuine ==
    ASSUME SessionInv, NEW c \in Clients, Loads(file, session[c])
    PROVE  \E v \in created :
               /\ session[c].keys = KeysOf(v.vid)
               /\ session[c].vid = v.vid /\ file.header.vid = v.vid
<1>1. PICK v \in created : session[c].vid = v.vid /\ session[c].keys = KeysOf(v.vid)
    BY DEF SessionInv, SessionIsGenuine, Genuine, Loads, KeysOf
<1>2. PICK w \in created :
        file.table.key = KeysOf(w.vid).metadata /\ file.table.aad = TableAad(w.vid)
    BY DEF SessionInv, FilesGood, GoodFile, GoodTable, Loads
<1>3. file.table.key = session[c].keys.metadata /\ file.table.aad = TableAad(file.header.vid)
    BY DEF Loads, TableOpens, Decrypts
<1>4. file.header.vid = w.vid
    BY <1>2, <1>3, TableAadInjective
<1>5. Subkey(RootPrk(v.vid, v.vid, v.vid), "metadata", v.vid) =
        Subkey(RootPrk(w.vid, w.vid, w.vid), "metadata", w.vid)
    BY <1>1, <1>2, <1>3 DEF KeysOf, UnlockedKeys
<1>6. v.vid = w.vid
    BY <1>5, SubkeyInjective
<1> QED BY <1>1, <1>4, <1>6

\* rewrite_vault: the file to come has the old root key frame and a table sealed for
\* the vault its header names.
LEMMA RewriteGood ==
    ASSUME SessionInv, NEW c \in Clients, NEW target, NEW entries, NEW frames,
           Loads(file, session[c]), RewriteVault(c, target, entries, frames)
    PROVE  \E next : Prepare(c, target, next) /\ GoodFile(next, created)
<1> DEFINE next == [header |-> file.header, wrk |-> file.wrk,
                    table |-> SealTable(session[c].keys, file.header.vid, entries),
                    frames |-> frames]
<1>1. Prepare(c, target, next)
    BY DEF RewriteVault
<1>2. GoodRootKey(next, created)
    BY DEF SessionInv, FilesGood, GoodFile, GoodRootKey, Loads
<1>3. GoodTable(next, created)
    BY LoadGenuine DEF GoodTable, SealTable, Encrypt
<1> HIDE DEF next
<1> QED BY <1>1, <1>2, <1>3 DEF GoodFile

LEMMA MutatesGood ==
    ASSUME SessionInv, NEW c \in Clients, Mutates(c)
    PROVE  \E target, next : Prepare(c, target, next) /\ GoodFile(next, created)
<1>1. Loads(file, session[c]) /\ \E target, entries, frames : RewriteVault(c, target, entries, frames)
    BY DEF Mutates, AddItem, DeleteItem, UpdateItem, CanWrite
<1> QED BY <1>1, RewriteGood

LEMMA SealedInitInv == SealedInit => SessionInv
<1> SUFFICES ASSUME SealedInit PROVE SessionInv
    OBVIOUS
<1>1. Files = {}
    BY DEF SealedInit, Files, Coming, Running
<1> QED BY <1>1 DEF SealedInit, SessionInv, MapsTyped, FilesGood, SessionIsGenuine

\* create: the new file is that of the new vault.
LEMMA CreateGood ==
    ASSUME FilesGood, NEW password, CreateVault(password)
    PROVE  FilesGood' /\ created \subseteq created'
<1> PICK n : n = draws + 1 OBVIOUS
<1> PICK f : f = NewFile(password, n) OBVIOUS
<1> PICK v : v = [vid |-> n, password |-> password] OBVIOUS
<1>1. file' = f /\ created' = created \cup {v} /\ Files' \subseteq Files \cup {f}
    BY FilesCreated DEF CreateVault
<1>2. f.wrk = RootKeyFrame(password, n, n) /\ f.table = SealTable(KeysOf(n), n, <<>>)
    BY DEF NewFile, KeysOf
<1>3. f.table.key = KeysOf(n).metadata /\ f.table.aad = TableAad(n)
    BY <1>2 DEF SealTable, Encrypt
<1>4. v \in created' /\ v.vid = n /\ v.password = password
    BY <1>1
<1>5. GoodFile(f, created')
    <2>1. GoodRootKey(f, created')
        BY <1>2, <1>4 DEF GoodRootKey
    <2>2. GoodTable(f, created')
        BY <1>3, <1>4 DEF GoodTable
    <2> QED BY <2>1, <2>2 DEF GoodFile
<1>6. ASSUME NEW g \in Files PROVE GoodFile(g, created')
    BY <1>1, GoodStays DEF FilesGood
<1> QED BY <1>1, <1>5, <1>6 DEF FilesGood

\* A change from outside moves parts of written files.
LEMMA ChangeFileGood ==
    ASSUME FilesGood, ChangeFile
    PROVE  FilesGood'
<1>1. /\ written' = written /\ created' = created /\ call' = call
    BY DEF ChangeFile, Remove, Restore, MixHeader, MixSection, MixFrame, Outside
<1>2. file' # NoFile => GoodFile(file', created)
    <2>0. \A g \in written : GoodFile(g, created)
        BY DEF FilesGood, Files
    <2>1. CASE Remove BY <2>1 DEF Remove
    <2>2. CASE Restore BY <2>0, <2>2 DEF Restore
    <2>3. ASSUME NEW h, NEW frames, file # NoFile,
                 file' = With(h, file.wrk, file.table, frames)
          PROVE  GoodFile(file', created)
        BY <2>3 DEF With, FilesGood, GoodFile, GoodRootKey, GoodTable
    <2>4. CASE MixHeader BY <2>3, <2>4 DEF MixHeader
    <2>5. CASE MixFrame BY <2>3, <2>5 DEF MixFrame
    <2>6. CASE MixSection
        <3>1. PICK g \in written :
                \/ file' = With(file.header, g.wrk, file.table, file.frames)
                \/ file' = With(file.header, file.wrk, g.table, file.frames)
                \/ file' = With(file.header, file.wrk, file.table, g.frames)
            BY <2>6 DEF MixSection
        <3>2. GoodFile(g, created) /\ GoodFile(file, created)
            BY <2>0, <2>6 DEF MixSection, FilesGood
        <3> QED BY <3>1, <3>2 DEF With, GoodFile, GoodRootKey, GoodTable
    <2> QED BY <2>1, <2>2, <2>4, <2>5, <2>6 DEF ChangeFile
<1>3. Files' = Files
    BY <1>1 DEF Files, Coming, Running
<1> QED BY <1>1, <1>2, <1>3 DEF FilesGood

LEMMA FilesGoodStep ==
    ASSUME SessionInv, VaultStep
    PROVE  FilesGood' /\ created \subseteq created'
<1>1. CASE ChangeFile
    BY <1>1, ChangeFileGood
       DEF SessionInv, ChangeFile, Remove, Restore, MixHeader, MixSection, MixFrame, Outside
<1>2. ASSUME NEW c \in Clients, Mutates(c) PROVE FilesGood' /\ created' = created
    <2>1. PICK target, next : Prepare(c, target, next) /\ GoodFile(next, created)
        BY <1>2, MutatesGood
    <2>2. Files' \subseteq Files \cup {next} /\ file' = file /\ created' = created
        BY <2>1, FilesPrepared DEF SessionInv, Prepare
    <2> QED BY <2>1, <2>2 DEF SessionInv, FilesGood
<1>3. ASSUME NEW c \in Clients, Replace(c) PROVE FilesGood' /\ created' = created
    <2>1. Files' \subseteq Files /\ file' \in Files /\ created' = created
        BY <1>3, FilesReplaced DEF SessionInv, Replace
    <2> QED BY <2>1 DEF SessionInv, FilesGood
<1>4. ASSUME UNCHANGED <<file, created, written>>,
             \A c \in Clients : call'[c] \in {call[c], NoCall}
      PROVE  FilesGood' /\ created' = created
    BY <1>4, FilesKept DEF SessionInv, FilesGood
<1>5. ASSUME NEW c, NEW password, Unlock(c, password) PROVE FilesGood' /\ created' = created
    BY <1>4, <1>5 DEF Unlock
<1>6. CASE Quiet
    BY <1>4, <1>6 DEF Quiet
<1> QED BY <1>1, <1>2, <1>3, <1>5, <1>6, CreateGood DEF VaultStep, SessionInv

\* A session is genuine from unlock on.
LEMMA SessionStep ==
    ASSUME SessionInv, VaultStep
    PROVE  SessionInv'
<1>1. created \subseteq created' /\ FilesGood'
    BY FilesGoodStep
<1>2. ASSUME \A c \in Clients : session'[c] \in {session[c], NoSession} PROVE SessionIsGenuine'
    BY <1>1, <1>2 DEF SessionInv, SessionIsGenuine, Genuine
<1>3. ASSUME NEW c \in Clients, NEW password \in Passwords, Unlock(c, password)
      PROVE  SessionIsGenuine'
    <2>1. PICK v \in created : /\ password = v.password /\ file.header.vid = v.vid
                               /\ SessionKeys(file) = KeysOf(v.vid)
        BY <1>3, UnlockGenuine DEF SessionInv, Unlock
    <2>2. ASSUME NEW d \in Clients, session'[d] # NoSession PROVE Genuine(session[d])'
        BY <1>3, <2>1, <2>2 DEF SessionInv, MapsTyped, Unlock, SessionIsGenuine, Genuine, KeysOf
    <2> QED BY <2>2 DEF SessionIsGenuine
<1>4. ASSUME NEW c, Mutates(c) PROVE session' = session
    BY <1>4 DEF Mutates, AddItem, DeleteItem, UpdateItem, RewriteVault, Prepare
<1>5. ASSUME ChangeFile PROVE session' = session
    BY <1>5 DEF ChangeFile, Remove, Restore, MixHeader, MixSection, MixFrame, Outside
<1>6. SessionIsGenuine'
    BY <1>2, <1>3, <1>4, <1>5 DEF VaultStep, CreateVault, Replace, Quiet
<1> QED BY <1>1, <1>6, MapsStep DEF SessionInv

\* For any passwords, clients and mixtures of files: a session that unlock returned
\* holds the keys create derived for this password, and no others.
THEOREM SessionsGenuine == SealedSpec => []SessionIsGenuine
<1>1. SealedInit => SessionInv
    BY SealedInitInv
<1>2. SessionInv /\ [SealedNext]_sealedVars => SessionInv'
    BY SealedStepKind, SessionStep DEF SessionInv
<1>3. SessionInv => SessionIsGenuine
    BY DEF SessionInv
<1> QED BY <1>1, <1>2, <1>3, PTL DEF SealedSpec

\* No interleaving of the commands with other clients and with changes of the file
\* gives a command the keys of a vault whose password was not typed.
THEOREM CommandSessionsGenuine == Spec => []SessionIsGenuine
<1>1. Init => SessionInv
    BY SealedInitInv DEF Init
<1>2. SessionInv /\ [Next]_vars => SessionInv'
    BY CommandStepKind, SessionStep DEF SessionInv
<1>3. SessionInv => SessionIsGenuine
    BY DEF SessionInv
<1> QED BY <1>1, <1>2, <1>3, PTL DEF Spec

-----------------------------------------------------------------------------
(***************************************************************************)
(* What is in tables and frames.  Every table was written, at the path     *)
(* names the vault it was sealed for; every frame is that of a stored      *)
(* revision, sealed under the keys of its vault, or holds nothing that     *)
(* opens.  The mixtures at the path need not fit together.                 *)
(***************************************************************************)
Kinds == {"item", "tombstone"}
Entries == [rid : Nat, kind : Kinds, rev : Nat]

ItemFrames(all) == {ItemFrame(KeysOf(x.vid), x.vid, x.rid, x.rev, x.secret) : x \in all}
DeadFrames == {TombstoneFrame(rid, rev) : rid \in Nat, rev \in Nat} \cup {Garbage(kind) : kind \in Kinds}
Frames(all) == ItemFrames(all) \cup DeadFrames

GoodContent(f, all) == f.table.msg \in Seq(Entries) /\ f.frames \in Seq(Frames(all))

StoredGood == \A x \in stored :
    x = [vid |-> x.vid, rid |-> x.rid, rev |-> x.rev, secret |-> x.secret]

ContentInv ==
    /\ draws \in Nat
    /\ StoredGood
    /\ \A f \in Files : GoodContent(f, stored) /\ f.table.aad = TableAad(f.header.vid)
    /\ file # NoFile => GoodContent(file, stored) /\ \E g \in written : file.table = g.table

LEMMA SeqMonotone ==
    ASSUME NEW S, NEW T, S \subseteq T, NEW s \in Seq(S)
    PROVE  s \in Seq(T)
OBVIOUS

LEMMA AppendIsSeq ==
    ASSUME NEW S, NEW s \in Seq(S), NEW e \in S
    PROVE  Append(s, e) \in Seq(S)
OBVIOUS

LEMMA ExceptIsSeq ==
    ASSUME NEW S, NEW s \in Seq(S), NEW k, NEW e \in S
    PROVE  [s EXCEPT ![k] = e] \in Seq(S)
<1>1. Len(s) \in Nat /\ DOMAIN s = 1 .. Len(s) /\ \A i \in 1 .. Len(s) : s[i] \in S
    OBVIOUS
<1>2. [s EXCEPT ![k] = e] \in [1 .. Len(s) -> S]
    BY <1>1
<1> QED BY <1>1, <1>2

\* A rewrite carries over frames of stored revisions, or nothing that opens.
LEMMA KeptFramesGood ==
    ASSUME NEW f, NEW all, GoodContent(f, all)
    PROVE  KeptFrames(f) \in Seq(Frames(all))
<1> DEFINE kept1 == KeptFrames(f)
<1>1. /\ Len(f.table.msg) \in Nat /\ DOMAIN f.table.msg = 1 .. Len(f.table.msg)
      /\ \A k \in DOMAIN f.table.msg : f.table.msg[k] \in Entries
    BY DEF GoodContent
<1>2. /\ Len(f.frames) \in Nat
      /\ \A k \in 1 .. Len(f.frames) : f.frames[k] \in Frames(all)
    BY DEF GoodContent
<1>3. ASSUME NEW k \in DOMAIN f.table.msg PROVE kept1[k] \in Frames(all)
    <2>1. CASE InPlace(f, k)
        BY <1>1, <1>2, <2>1 DEF KeptFrames, InPlace
    <2>2. CASE ~InPlace(f, k)
        <3>1. kept1[k] = Garbage(f.table.msg[k].kind)
            BY <2>2 DEF KeptFrames
        <3>2. f.table.msg[k].kind \in Kinds
            BY <1>1 DEF Entries
        <3> QED BY <3>1, <3>2 DEF Frames, DeadFrames
    <2> QED BY <2>1, <2>2
<1>4. kept1 = [k \in 1 .. Len(f.table.msg) |-> kept1[k]]
    BY <1>1 DEF KeptFrames
<1> HIDE DEF kept1
<1>5. kept1 \in Seq(Frames(all))
    BY <1>1, <1>3, <1>4
<1> QED BY <1>5 DEF kept1

LEMMA FramesGrow ==
    ASSUME NEW all, NEW more, all \subseteq more
    PROVE  /\ Frames(all) \subseteq Frames(more)
           /\ \A f : GoodContent(f, all) => GoodContent(f, more)
<1>1. Frames(all) \subseteq Frames(more)
    BY DEF Frames, ItemFrames, DeadFrames
<1> QED BY <1>1, SeqMonotone DEF GoodContent

LEMMA LoadedContent ==
    ASSUME ContentInv, NEW s, Loads(file, s)
    PROVE  /\ file.table.msg \in Seq(Entries) /\ KeptFrames(file) \in Seq(Frames(stored))
           /\ \A k \in LiveAt(file) : file.table.msg[k].rid \in Nat
<1>1. GoodContent(file, stored)
    BY DEF ContentInv, Loads
<1>2. \A k \in DOMAIN file.table.msg : file.table.msg[k] \in Entries
    BY <1>1 DEF GoodContent
<1> QED BY <1>1, <1>2, KeptFramesGood DEF GoodContent, LiveAt, Entries

\* rewrite_vault with entries and frames that are good.
LEMMA RewriteContent ==
    ASSUME SessionInv, ContentInv, NEW c \in Clients, NEW target, NEW entries \in Seq(Entries),
           NEW frames, RewriteVault(c, target, entries, frames), stored \subseteq stored',
           StoredGood', frames \in Seq(Frames(stored'))
    PROVE  ContentInv'
<1> PICK f : f = [header |-> file.header, wrk |-> file.wrk,
                  table |-> SealTable(session[c].keys, file.header.vid, entries),
                  frames |-> frames] OBVIOUS
<1>1. Prepare(c, target, f)
    BY DEF RewriteVault
<1>2. f.table.msg = entries /\ f.frames = frames /\ f.table.aad = TableAad(f.header.vid)
    BY DEF SealTable, Encrypt
<1>3. Files' \subseteq Files \cup {f} /\ UNCHANGED <<file, written>> /\ draws' = draws + 1
    BY <1>1, FilesPrepared DEF SessionInv, Prepare
<1>4. GoodContent(f, stored')
    BY <1>2 DEF GoodContent
<1>5. \A g : GoodContent(g, stored) => GoodContent(g, stored')
    BY FramesGrow
<1> QED BY <1>2, <1>3, <1>4, <1>5 DEF ContentInv

\* A stored revision is one more good frame.
LEMMA StoresGood ==
    ASSUME SessionInv, ContentInv, NEW c \in Clients, Loads(file, session[c]), NEW rid, NEW secret,
           Stores(file.header.vid, rid, secret)
    PROVE  /\ stored \subseteq stored' /\ StoredGood'
           /\ ItemFrame(session[c].keys, file.header.vid, rid, draws + 1, secret) \in Frames(stored')
<1> PICK x : x = [vid |-> file.header.vid, rid |-> rid, rev |-> draws + 1, secret |-> secret] OBVIOUS
<1>1. stored' = stored \cup {x}
    BY DEF Stores
<1>2. StoredGood'
    BY <1>1 DEF ContentInv, StoredGood
<1>3. session[c].keys = KeysOf(file.header.vid)
    BY LoadGenuine
<1>4. ItemFrame(session[c].keys, file.header.vid, rid, draws + 1, secret)
        = ItemFrame(KeysOf(x.vid), x.vid, x.rid, x.rev, x.secret)
    BY <1>3
<1> QED BY <1>1, <1>2, <1>4 DEF Frames, ItemFrames

LEMMA MutatesContent ==
    ASSUME SessionInv, ContentInv, NEW c \in Clients, Mutates(c)
    PROVE  ContentInv'
<1> DEFINE keys == session[c].keys
           vid == file.header.vid
           n == draws + 1
<1>0. n \in Nat
    BY DEF ContentInv
<1>1. ASSUME NEW secret, AddItem(c, secret) PROVE ContentInv'
    <2> DEFINE frame == ItemFrame(keys, vid, n, n, secret)
    <2>1. Loads(file, session[c]) /\ Stores(vid, n, secret)
        BY <1>1 DEF AddItem, CanWrite
    <2>2. RewriteVault(c, n, Append(file.table.msg, Entry(n, "item", n)),
                       Append(KeptFrames(file), frame))
        BY <1>1 DEF AddItem
    <2>3. stored \subseteq stored' /\ StoredGood' /\ frame \in Frames(stored')
        BY <2>1, StoresGood
    <2>4. Append(file.table.msg, Entry(n, "item", n)) \in Seq(Entries)
        BY <2>1, <1>0, LoadedContent, AppendIsSeq DEF Entry, Entries, Kinds
    <2>5. KeptFrames(file) \in Seq(Frames(stored'))
        BY <2>1, <2>3, LoadedContent, FramesGrow, SeqMonotone
    <2>6. Append(KeptFrames(file), frame) \in Seq(Frames(stored'))
        BY <2>3, <2>5, AppendIsSeq
    <2> QED BY <2>2, <2>3, <2>4, <2>6, RewriteContent
<1>2. ASSUME NEW k, DeleteItem(c, k) PROVE ContentInv'
    <2> DEFINE rid == file.table.msg[k].rid
    <2>1. Loads(file, session[c]) /\ k \in LiveAt(file) /\ stored' = stored
        BY <1>2 DEF DeleteItem, CanWrite
    <2>2. RewriteVault(c, rid, [file.table.msg EXCEPT ![k] = Entry(rid, "tombstone", n)],
                       [KeptFrames(file) EXCEPT ![k] = TombstoneFrame(rid, n)])
        BY <1>2 DEF DeleteItem
    <2>3. stored \subseteq stored' /\ StoredGood'
        BY <2>1 DEF ContentInv, StoredGood
    <2>4. rid \in Nat
        BY <2>1, LoadedContent
    <2>5. [file.table.msg EXCEPT ![k] = Entry(rid, "tombstone", n)] \in Seq(Entries)
        BY <2>1, <2>4, <1>0, LoadedContent, ExceptIsSeq DEF Entry, Entries, Kinds
    <2>6. TombstoneFrame(rid, n) \in Frames(stored')
        BY <2>4, <1>0 DEF Frames, DeadFrames
    <2>7. KeptFrames(file) \in Seq(Frames(stored'))
        BY <2>1, <2>3, LoadedContent, FramesGrow, SeqMonotone
    <2>8. [KeptFrames(file) EXCEPT ![k] = TombstoneFrame(rid, n)] \in Seq(Frames(stored'))
        BY <2>6, <2>7, ExceptIsSeq
    <2> QED BY <2>2, <2>3, <2>5, <2>8, RewriteContent
<1>3. ASSUME NEW k, NEW secret, UpdateItem(c, k, secret) PROVE ContentInv'
    <2> DEFINE rid == file.table.msg[k].rid
               frame == ItemFrame(keys, vid, rid, n, secret)
    <2>1. Loads(file, session[c]) /\ k \in LiveAt(file) /\ Stores(vid, rid, secret)
        BY <1>3 DEF UpdateItem, CanWrite
    <2>2. RewriteVault(c, rid, [file.table.msg EXCEPT ![k] = Entry(rid, "item", n)],
                       [KeptFrames(file) EXCEPT ![k] = frame])
        BY <1>3 DEF UpdateItem
    <2>3. stored \subseteq stored' /\ StoredGood' /\ frame \in Frames(stored')
        BY <2>1, StoresGood
    <2>4. rid \in Nat
        BY <2>1, LoadedContent
    <2>5. [file.table.msg EXCEPT ![k] = Entry(rid, "item", n)] \in Seq(Entries)
        BY <2>1, <2>4, <1>0, LoadedContent, ExceptIsSeq DEF Entry, Entries, Kinds
    <2>6. KeptFrames(file) \in Seq(Frames(stored'))
        BY <2>1, <2>3, LoadedContent, FramesGrow, SeqMonotone
    <2>7. [KeptFrames(file) EXCEPT ![k] = frame] \in Seq(Frames(stored'))
        BY <2>3, <2>6, ExceptIsSeq
    <2> QED BY <2>2, <2>3, <2>5, <2>7, RewriteContent
<1> QED BY <1>1, <1>2, <1>3 DEF Mutates

LEMMA CreateContent ==
    ASSUME ContentInv, NEW password, CreateVault(password)
    PROVE  ContentInv'
<1> PICK f : f = NewFile(password, draws + 1) OBVIOUS
<1>1. /\ file' = f /\ f \in written' /\ Files' \subseteq Files \cup {f}
      /\ draws' = draws + 1 /\ stored' = stored
    BY FilesCreated DEF CreateVault, Write
<1>2. f.table.msg = <<>> /\ f.frames = <<>> /\ f.table.aad = TableAad(f.header.vid)
    BY DEF NewFile, SealTable, Encrypt
<1>3. GoodContent(f, stored)
    <2>1. \A S : <<>> \in Seq(S)
        OBVIOUS
    <2> QED BY <1>2, <2>1 DEF GoodContent
<1> QED BY <1>1, <1>2, <1>3 DEF ContentInv, StoredGood

LEMMA ChangeFileContent ==
    ASSUME ContentInv, ChangeFile
    PROVE  ContentInv'
<1>1. draws' = draws /\ written' = written /\ stored' = stored /\ call' = call
    BY DEF ChangeFile, Remove, Restore, MixHeader, MixSection, MixFrame, Outside
<1> DEFINE Good(f) == GoodContent(f, stored) /\ \E g \in written : f.table = g.table
<1>2. file' # NoFile => Good(file')
    <2>0. \A g \in written : Good(g)
        BY DEF ContentInv, Files
    <2>1. file # NoFile => Good(file)
        BY DEF ContentInv
    <2>2. CASE Remove BY <2>2 DEF Remove
    <2>3. CASE Restore BY <2>3, <2>0 DEF Restore
    <2>4. ASSUME NEW f, NEW g, NEW e, Good(f), Good(g), NEW h, NEW wrk,
                 e = With(h, wrk, f.table, g.frames)
          PROVE  Good(e)
        BY <2>4 DEF With, GoodContent
    <2> HIDE DEF Good
    <2>5. CASE MixHeader
        BY <2>1, <2>4, <2>5 DEF MixHeader
    <2>6. CASE MixSection
        BY <2>0, <2>1, <2>4, <2>6 DEF MixSection
    <2>7. CASE MixFrame
        <3>1. PICK g \in written, k \in DOMAIN file.frames :
                \E j \in DOMAIN g.frames :
                    file' = With(file.header, file.wrk, file.table,
                                 [file.frames EXCEPT ![k] = g.frames[j]])
            BY <2>7 DEF MixFrame
        <3>2. PICK j \in DOMAIN g.frames :
                    file' = With(file.header, file.wrk, file.table,
                                 [file.frames EXCEPT ![k] = g.frames[j]])
            BY <3>1
        <3>3. Good(file) /\ Good(g)
            BY <2>0, <2>1, <2>7 DEF MixFrame
        <3>4. file.frames \in Seq(Frames(stored)) /\ g.frames \in Seq(Frames(stored))
            BY <3>3 DEF Good, GoodContent
        <3>5. g.frames[j] \in Frames(stored)
            BY <3>4
        <3>6. [file.frames EXCEPT ![k] = g.frames[j]] \in Seq(Frames(stored))
            BY <3>4, <3>5, ExceptIsSeq
        <3>7. file'.table = file.table /\ file'.frames \in Seq(Frames(stored))
            BY <3>2, <3>6 DEF With
        <3> QED BY <3>3, <3>7 DEF Good, GoodContent
    <2> QED BY <2>2, <2>3, <2>5, <2>6, <2>7 DEF ChangeFile
<1>3. Files' = Files
    BY <1>1 DEF Files, Coming, Running
<1> QED BY <1>1, <1>2, <1>3 DEF ContentInv, StoredGood

LEMMA ContentStep ==
    ASSUME SessionInv, ContentInv, VaultStep
    PROVE  ContentInv'
<1>1. ASSUME NEW c \in Clients, Replace(c) PROVE ContentInv'
    <2>1. /\ Files' \subseteq Files /\ file' \in Files /\ file' \in written'
          /\ UNCHANGED <<draws, stored>>
        BY <1>1, FilesReplaced DEF SessionInv, Replace
    <2> QED BY <2>1 DEF ContentInv, StoredGood
<1>2. ASSUME UNCHANGED <<file, draws, written, stored>>,
             \A c \in Clients : call'[c] \in {call[c], NoCall}
      PROVE  ContentInv'
    BY <1>2, FilesKept DEF ContentInv, StoredGood
<1>3. ASSUME NEW c, NEW password, Unlock(c, password) PROVE ContentInv'
    BY <1>2, <1>3 DEF Unlock
<1>4. CASE Quiet
    BY <1>2, <1>4 DEF Quiet
<1> QED BY <1>1, <1>3, <1>4, CreateContent, MutatesContent, ChangeFileContent DEF VaultStep

\* What opens at the k-th entry was stored as its revision.
LEMMA ReadIsStored ==
    ASSUME SessionInv, ContentInv, NEW c \in Clients, Loads(file, session[c]),
           NEW k \in ReadableAt(file, session[c])
    PROVE  StoredAt(file, session[c].vid, k) \in stored
<1> DEFINE entry == file.table.msg[k]
           frame == file.frames[k]
           aad == RecordAad(file.header.vid, entry.rid, entry.rev, "item")
<1>1. /\ GoodContent(file, stored) /\ ReadsItem(file, session[c], k)
      /\ k \in DOMAIN file.table.msg
    BY DEF ContentInv, Loads, ReadableAt, LiveAt
<1>2. frame \in Frames(stored)
    <2>1. k \in 1 .. Len(file.frames)
        BY <1>1 DEF GoodContent, ReadsItem, InPlace
    <2> QED BY <1>1, <2>1 DEF GoodContent
<1>3. /\ frame.rid = entry.rid /\ frame.rev = entry.rev
      /\ frame.wrapped.aad = aad
    BY <1>1 DEF ReadsItem, Decrypts
<1>4. frame \notin DeadFrames
    <2>1. aad # <<>>
        BY DEF RecordAad
    <2>2. \A rid, rev : TombstoneFrame(rid, rev).wrapped.aad = <<>>
        BY DEF TombstoneFrame, Encrypt
    <2>3. \A kind : Garbage(kind).wrapped.aad = <<>>
        BY DEF Garbage, Encrypt
    <2>4. \A d \in DeadFrames : d.wrapped.aad = <<>>
        BY <2>2, <2>3 DEF DeadFrames
    <2> QED BY <1>3, <2>1, <2>4
<1>5. PICK x \in stored : frame = ItemFrame(KeysOf(x.vid), x.vid, x.rid, x.rev, x.secret)
    BY <1>2, <1>4 DEF Frames, ItemFrames
<1>6. /\ frame.rid = x.rid /\ frame.rev = x.rev /\ frame.payload.msg = x.secret
      /\ frame.wrapped.aad = RecordAad(x.vid, x.rid, x.rev, "item")
    BY <1>5 DEF ItemFrame, Encrypt
<1>7. RecordAad(x.vid, x.rid, x.rev, "item") = RecordAad(file.header.vid, entry.rid, entry.rev, "item")
    BY <1>3, <1>6
<1>8. x.vid = file.header.vid
    BY <1>7, RecordAadInjective
<1>9. session[c].vid = file.header.vid
    BY LoadGenuine
<1> QED BY <1>3, <1>6, <1>8, <1>9 DEF StoredAt, ContentInv, StoredGood

\* The table a session loads is that of a version of its vault.
LEMMA LoadedVersion ==
    ASSUME SessionInv, ContentInv, NEW c \in Clients, Loads(file, session[c])
    PROVE  \E g \in written : file.table = g.table /\ g.header.vid = session[c].vid
<1>1. PICK g \in written : file.table = g.table
    BY DEF ContentInv, Loads
<1>2. g.table.aad = TableAad(g.header.vid)
    BY DEF ContentInv, Files
<1>3. g.table.aad = TableAad(file.header.vid)
    BY <1>1 DEF Loads, TableOpens, Decrypts
<1>4. TableAad(g.header.vid) = TableAad(file.header.vid)
    BY <1>2, <1>3
<1>5. g.header.vid = session[c].vid
    BY <1>4, TableAadInjective, LoadGenuine
<1> QED BY <1>1, <1>5

LEMMA ContentReads == SessionInv /\ ContentInv => ReadsOneVersion
<1> SUFFICES ASSUME SessionInv, ContentInv, NEW c \in Clients, Loads(file, session[c])
             PROVE  /\ \E v \in written :
                        v.header.vid = session[c].vid /\ LiveRevisions(v) = LiveRevisions(file)
                    /\ \A k \in ReadableAt(file, session[c]) :
                        StoredAt(file, session[c].vid, k) \in stored
    BY DEF ReadsOneVersion
<1>1. PICK g \in written : file.table = g.table /\ g.header.vid = session[c].vid
    BY LoadedVersion
<1>2. LiveRevisions(g) = LiveRevisions(file)
    BY <1>1 DEF LiveRevisions, LiveAt
<1> QED BY <1>1, <1>2, ReadIsStored

\* However files are mixed, list, get and export never take items of another vault, an
\* exchanged item, or a part of the items of a version.
THEOREM CommandsReadOneVersion == Spec => []ReadsOneVersion
<1> DEFINE Inv == SessionInv /\ ContentInv
<1>1. Init => Inv
    <2> SUFFICES ASSUME Init PROVE Inv
        OBVIOUS
    <2>1. Files = {}
        BY DEF Init, SealedInit, Files, Coming, Running
    <2> QED BY <2>1, SealedInitInv DEF Init, SealedInit, ContentInv, StoredGood
<1>2. Inv /\ [Next]_vars => Inv'
    BY CommandStepKind, SessionStep, ContentStep DEF SessionInv
<1>3. Inv => ReadsOneVersion
    BY ContentReads
<1> QED BY <1>1, <1>2, <1>3, PTL DEF Spec

-----------------------------------------------------------------------------
(***************************************************************************)
(* What a write leaves of the rest of the vault.  The file to come differs *)
(* from the file loaded in the entry and the frame at one place; every     *)
(* other entry stays, and so does every frame that is in place.            *)
(***************************************************************************)
\* No file of the program is the value that stands for none.
FilesAreFiles == \A h, wrk, table, frames : With(h, wrk, table, frames) # NoFile

\* f loaded with these keys, and g to come, differ at place p, that of the target.
ChangesOne(f, g, keys, p, target) ==
    LET old == f.table.msg
        new == g.table.msg
    IN  /\ TableOpens(f, keys)
        /\ g = With(f.header, f.wrk, SealTable(keys, f.header.vid, new), g.frames)
        /\ DOMAIN g.frames = DOMAIN new /\ Len(g.frames) = Len(new) /\ Len(new) \in Nat
        /\ DOMAIN new = 1 .. Len(new) /\ 1 .. Len(new) = DOMAIN old \cup {p}
        /\ new[p].rid = target
        /\ p \in DOMAIN old => old[p].rid = target
        /\ g.frames[p].tombstone = (new[p].kind = "tombstone")
        /\ \A k \in DOMAIN old \ {p} : new[k] = old[k] /\ g.frames[k] = KeptFrames(f)[k]

\* A new item has a new id.
Prepares(c, target, next, p) ==
    /\ Prepare(c, target, next)
    /\ ~Running(c) /\ Loads(file, session[c])
    /\ ChangesOne(file, next, session[c].keys, p, target)
    /\ p \notin DOMAIN file.table.msg => target = draws + 1

\* rewrite_vault with one entry and frame exchanged.
LEMMA ExchangePrepares ==
    ASSUME ContentInv, NEW c \in Clients, CanWrite(c),
           NEW p \in LiveAt(file), NEW entry, NEW frame, NEW target,
           target = file.table.msg[p].rid, entry.rid = target,
           frame.tombstone = (entry.kind = "tombstone"),
           RewriteVault(c, target, [file.table.msg EXCEPT ![p] = entry],
                        [KeptFrames(file) EXCEPT ![p] = frame])
    PROVE  \E next : Prepares(c, target, next, p)
<1> DEFINE old == file.table.msg
           new == [old EXCEPT ![p] = entry]
           frames == [KeptFrames(file) EXCEPT ![p] = frame]
           next == With(file.header, file.wrk, SealTable(session[c].keys, file.header.vid, new), frames)
<1>0. Loads(file, session[c]) /\ ~Running(c)
    BY DEF CanWrite
<1>1. old \in Seq(Entries) /\ p \in DOMAIN old
    BY <1>0, LoadedContent DEF LiveAt
<1>2. DOMAIN KeptFrames(file) = DOMAIN old
    BY DEF KeptFrames
<1>3. Len(old) \in Nat /\ DOMAIN old = 1 .. Len(old)
    BY <1>1
<1>4. /\ Len(new) = Len(old) /\ DOMAIN new = DOMAIN old /\ new[p] = entry
      /\ \A k \in DOMAIN old \ {p} : new[k] = old[k]
    BY <1>1, <1>3
<1>5. /\ Len(frames) = Len(old) /\ DOMAIN frames = DOMAIN old /\ frames[p] = frame
      /\ \A k \in DOMAIN old \ {p} : frames[k] = KeptFrames(file)[k]
    BY <1>1, <1>2, <1>3
<1>6. Prepare(c, target, next)
    BY DEF RewriteVault, With
<1> HIDE DEF new, frames
<1>7. next.table.msg = new /\ next.frames = frames
    BY DEF With, SealTable, Encrypt
<1>8. next = With(file.header, file.wrk, SealTable(session[c].keys, file.header.vid, new), frames)
    OBVIOUS
<1>9. TableOpens(file, session[c].keys)
    BY <1>0 DEF Loads
<1> HIDE DEF next
<1>10. ChangesOne(file, next, session[c].keys, p, target)
    BY <1>1, <1>3, <1>4, <1>5, <1>7, <1>8, <1>9 DEF ChangesOne
<1> QED BY <1>0, <1>1, <1>6, <1>10 DEF Prepares

\* add: the new entry and frame come last.
LEMMA AddPrepares ==
    ASSUME ContentInv, NEW c \in Clients, NEW secret, AddItem(c, secret)
    PROVE  LET p == Len(file.table.msg) + 1
               n == draws + 1
           IN  \E next :
                /\ Prepares(c, n, next, p) /\ p \notin DOMAIN file.table.msg
                /\ p \in DOMAIN next.table.msg /\ next.table.msg[p] = Entry(n, "item", n)
                /\ next.frames[p] = ItemFrame(session[c].keys, file.header.vid, n, n, secret)
<1> DEFINE old == file.table.msg
           p == Len(old) + 1
           n == draws + 1
           entry == Entry(n, "item", n)
           frame == ItemFrame(session[c].keys, file.header.vid, n, n, secret)
           new == Append(old, entry)
           frames == Append(KeptFrames(file), frame)
           next == With(file.header, file.wrk, SealTable(session[c].keys, file.header.vid, new), frames)
<1>0. Loads(file, session[c]) /\ ~Running(c)
    BY DEF AddItem, CanWrite
<1>1. old \in Seq(Entries) /\ KeptFrames(file) \in Seq(Frames(stored))
    BY <1>0, LoadedContent
<1>2. DOMAIN KeptFrames(file) = DOMAIN old
    BY DEF KeptFrames
<1>3. Len(old) \in Nat /\ DOMAIN old = 1 .. Len(old) /\ Len(KeptFrames(file)) = Len(old)
    BY <1>1, <1>2
<1>4. new \in Seq(Entries \cup {entry}) /\ frames \in Seq(Frames(stored) \cup {frame})
    BY <1>1
<1>5. /\ Len(new) = p /\ DOMAIN new = 1 .. p /\ new[p] = entry
      /\ \A k \in DOMAIN old \ {p} : new[k] = old[k]
    BY <1>1, <1>3
<1>6. /\ Len(frames) = p /\ DOMAIN frames = 1 .. p /\ frames[p] = frame
      /\ \A k \in DOMAIN old \ {p} : frames[k] = KeptFrames(file)[k]
    BY <1>1, <1>3
<1>7. p \notin DOMAIN old /\ 1 .. p = DOMAIN old \cup {p} /\ p \in Nat /\ p \in 1 .. p
    <2>1. \A m \in Nat : /\ m + 1 \notin 1 .. m /\ 1 .. m + 1 = (1 .. m) \cup {m + 1}
                         /\ m + 1 \in Nat /\ m + 1 \in 1 .. m + 1
        OBVIOUS
    <2> QED BY <1>3, <2>1
<1>8. Prepare(c, n, next)
    BY DEF AddItem, RewriteVault, With
<1>9. /\ entry.rid = n /\ frame.tombstone = (entry.kind = "tombstone")
    BY DEF Entry, ItemFrame
<1>a. TableOpens(file, session[c].keys)
    BY <1>0 DEF Loads
<1> HIDE DEF new, frames, frame, entry, p
<1>10. next.table.msg = new /\ next.frames = frames
    BY DEF With, SealTable, Encrypt
<1>11. next = With(file.header, file.wrk, SealTable(session[c].keys, file.header.vid, new), frames)
    OBVIOUS
<1> HIDE DEF next
<1>12. ChangesOne(file, next, session[c].keys, p, n)
    BY <1>a, <1>5, <1>6, <1>7, <1>9, <1>10, <1>11 DEF ChangesOne
<1>13. Prepares(c, n, next, p)
    BY <1>0, <1>8, <1>12 DEF Prepares
<1> QED BY <1>5, <1>6, <1>7, <1>10, <1>13 DEF p, entry, frame

\* Every mutation is of this kind.
LEMMA MutatesPrepares ==
    ASSUME ContentInv, NEW c \in Clients, Mutates(c)
    PROVE  \E target, next, p : Prepares(c, target, next, p)
<1>1. ASSUME NEW secret, AddItem(c, secret) PROVE \E target, next, p : Prepares(c, target, next, p)
    BY <1>1, AddPrepares
<1>2. ASSUME NEW k, DeleteItem(c, k) PROVE \E target, next : Prepares(c, target, next, k)
    <2> DEFINE rid == file.table.msg[k].rid
               entry == Entry(rid, "tombstone", draws + 1)
               frame == TombstoneFrame(rid, draws + 1)
    <2>1. /\ CanWrite(c) /\ k \in LiveAt(file)
          /\ RewriteVault(c, rid, [file.table.msg EXCEPT ![k] = entry],
                          [KeptFrames(file) EXCEPT ![k] = frame])
        BY <1>2 DEF DeleteItem
    <2>2. entry.rid = rid /\ frame.tombstone = (entry.kind = "tombstone")
        BY DEF Entry, TombstoneFrame
    <2> HIDE DEF entry, frame
    <2> QED BY <2>1, <2>2, ExchangePrepares
<1>3. ASSUME NEW k, NEW secret, UpdateItem(c, k, secret)
      PROVE  \E target, next : Prepares(c, target, next, k)
    <2> DEFINE rid == file.table.msg[k].rid
               entry == Entry(rid, "item", draws + 1)
               frame == ItemFrame(session[c].keys, file.header.vid, rid, draws + 1, secret)
    <2>1. /\ CanWrite(c) /\ k \in LiveAt(file)
          /\ RewriteVault(c, rid, [file.table.msg EXCEPT ![k] = entry],
                          [KeptFrames(file) EXCEPT ![k] = frame])
        BY <1>3 DEF UpdateItem
    <2>2. entry.rid = rid /\ frame.tombstone = (entry.kind = "tombstone")
        BY DEF Entry, ItemFrame
    <2> HIDE DEF entry, frame
    <2> QED BY <2>1, <2>2, ExchangePrepares
<1> QED BY <1>1, <1>2, <1>3 DEF Mutates

\* In the file to come every frame has the kind of its entry, so all are in place.
LEMMA ChangeInPlace ==
    ASSUME NEW f, NEW g, NEW keys, NEW p, NEW target, ChangesOne(f, g, keys, p, target)
    PROVE  \A k \in DOMAIN g.table.msg : g.frames[k].tombstone = (g.table.msg[k].kind = "tombstone")
<1> SUFFICES ASSUME NEW k \in DOMAIN g.table.msg, k # p
             PROVE  g.frames[k].tombstone = (g.table.msg[k].kind = "tombstone")
    BY DEF ChangesOne
<1>1. /\ k \in DOMAIN f.table.msg \ {p}
      /\ g.table.msg[k] = f.table.msg[k] /\ g.frames[k] = KeptFrames(f)[k]
    BY DEF ChangesOne
<1>2. CASE InPlace(f, k)
    <2>1. k \in 1 .. k
        BY DEF ChangesOne
    <2> QED BY <1>1, <1>2, <2>1 DEF KeptFrames, InPlace
<1>3. CASE ~InPlace(f, k)
    <2>1. g.frames[k] = Garbage(f.table.msg[k].kind)
        BY <1>1, <1>3 DEF KeptFrames
    <2>2. Garbage(f.table.msg[k].kind).tombstone = (f.table.msg[k].kind = "tombstone")
        BY DEF Garbage
    <2> QED BY <1>1, <2>1, <2>2
<1> QED BY <1>2, <1>3

\* The new table opens under whatever key the old one opened.
LEMMA ChangeOpens ==
    ASSUME NEW f, NEW g, NEW keys, NEW p, NEW target, ChangesOne(f, g, keys, p, target),
           NEW other, TableOpens(f, other)
    PROVE  TableOpens(g, other)
<1>1. /\ g.header = f.header /\ g.table.key = keys.metadata
      /\ g.table.aad = TableAad(f.header.vid)
    BY DEF ChangesOne, With, SealTable, Encrypt
<1>2. keys.metadata = other.metadata
    BY DEF ChangesOne, TableOpens, Decrypts
<1> DEFINE new == g.table.msg
           dead == {k \in DOMAIN new : new[k].kind = "tombstone"}
<1>3. {k \in DOMAIN g.frames : g.frames[k].tombstone} = dead
    <2>1. DOMAIN g.frames = DOMAIN new
        BY DEF ChangesOne
    <2>2. \A k \in DOMAIN new : g.frames[k].tombstone = (new[k].kind = "tombstone")
        BY ChangeInPlace
    <2> QED BY <2>1, <2>2
<1>4. Cardinality(dead) \in Nat
    <2>1. IsFiniteSet(1 .. Len(new))
        BY FS_Interval DEF ChangesOne
    <2>2. IsFiniteSet(dead)
        BY <2>1, FS_Subset DEF ChangesOne
    <2> QED BY <2>2, FS_CardinalityType
<1>5. Len(g.frames) = Len(new) /\ Len(new) \in Nat
    BY DEF ChangesOne
<1>6. ExpectedEnd(g) = FileEnd(g) /\ ExpectedEnd(g) \in Int
    <2>1. ExpectedEnd(g) = 2 * Len(new) - Cardinality(dead)
        BY DEF ExpectedEnd
    <2>2. FileEnd(g) = 2 * Len(new) - Cardinality(dead)
        BY <1>3, <1>5 DEF FileEnd
    <2> QED BY <1>4, <1>5, <2>1, <2>2
<1>7. ExpectedEnd(g) <= FileEnd(g)
    BY <1>6
<1> QED BY <1>1, <1>2, <1>7 DEF TableOpens, Decrypts

\* Whoever could unlock still can, with the same keys.
LEMMA ChangeUnlocks ==
    ASSUME FilesAreFiles, NEW f, NEW g, NEW keys, NEW p, NEW target,
           ChangesOne(f, g, keys, p, target), NEW password, Unlockable(f, password)
    PROVE  Unlockable(g, password)
<1>1. g.header = f.header /\ g.wrk = f.wrk /\ g # NoFile
    BY DEF ChangesOne, With, FilesAreFiles
<1>2. SessionKeys(g) = SessionKeys(f)
    BY <1>1 DEF SessionKeys
<1>3. RootKeyOpens(g, password)
    BY <1>1 DEF Unlockable, RootKeyOpens
<1>4. TableOpens(g, SessionKeys(g))
    BY <1>2, ChangeOpens DEF Unlockable
<1> QED BY <1>1, <1>3, <1>4 DEF Unlockable

\* What could be read at another place still can.
LEMMA ChangeReads ==
    ASSUME NEW f, NEW g, NEW keys, NEW p, NEW target, ChangesOne(f, g, keys, p, target),
           NEW s, NEW k \in ReadableAt(f, s), k # p
    PROVE  k \in ReadableAt(g, s) /\ ItemAt(g, k) = ItemAt(f, k)
<1>1. ReadsItem(f, s, k) /\ k \in LiveAt(f) /\ k \in DOMAIN f.table.msg
    BY DEF ReadableAt, LiveAt
<1>2. /\ k \in DOMAIN g.table.msg /\ g.table.msg[k] = f.table.msg[k]
      /\ g.frames[k] = f.frames[k]
    BY <1>1 DEF ChangesOne, ReadsItem, KeptFrames
<1>3. g.header = f.header
    BY DEF ChangesOne, With
<1>4. InPlace(g, k)
    <2>1. k <= Len(g.frames) /\ \A j \in 1 .. k : j \in DOMAIN g.table.msg
        BY <1>2 DEF ChangesOne
    <2> QED BY <2>1, ChangeInPlace DEF InPlace
<1>5. ReadsItem(g, s, k)
    BY <1>1, <1>2, <1>3, <1>4 DEF ReadsItem
<1>6. k \in LiveAt(g)
    BY <1>1, <1>2 DEF LiveAt
<1> QED BY <1>2, <1>5, <1>6 DEF ReadableAt, ItemAt

-----------------------------------------------------------------------------
\* The ids of a table were drawn, and it lists none twice.
TableDrawn(f, drawn) ==
    \A k \in DOMAIN f.table.msg :
        /\ f.table.msg[k].rid <= drawn
        /\ \A j \in DOMAIN f.table.msg : f.table.msg[j].rid = f.table.msg[k].rid => j = k

\* What a running mutation holds: a file whose table was written, and one to come.
CallsGood ==
    \A c \in Clients : Running(c) =>
        /\ \E g \in written : call[c].loaded.table = g.table
        /\ \E keys, p : ChangesOne(call[c].loaded, call[c].next, keys, p, call[c].target)

VaultInv ==
    /\ SessionInv
    /\ ContentInv
    /\ \A f \in Files : TableDrawn(f, draws)
    /\ CallsGood

\* Once more is drawn, the file to come lists drawn ids only, and each once.
LEMMA PreparedDrawn ==
    ASSUME VaultInv, NEW c \in Clients, NEW target, NEW next, NEW p, Prepares(c, target, next, p)
    PROVE  TableDrawn(next, draws + 1)
<1> DEFINE old == file.table.msg
           new == next.table.msg
<1>1. PICK g \in written : file.table = g.table
    BY DEF VaultInv, ContentInv, Prepares, Loads
<1>2. /\ draws \in Nat
      /\ old \in Seq(Entries)
      /\ \A k \in DOMAIN old : /\ old[k].rid <= draws
                               /\ \A j \in DOMAIN old : old[j].rid = old[k].rid => j = k
    BY <1>1 DEF VaultInv, ContentInv, GoodContent, TableDrawn, Files
<1>3. \A k \in DOMAIN old : old[k].rid \in Nat
    <2>1. \A k \in DOMAIN old : old[k] \in Entries
        BY <1>2
    <2> QED BY <2>1 DEF Entries
<1>4. /\ DOMAIN new = DOMAIN old \cup {p}
      /\ new[p].rid = IF p \in DOMAIN old THEN old[p].rid ELSE draws + 1
      /\ \A k \in DOMAIN old \ {p} : new[k] = old[k]
    BY DEF Prepares, ChangesOne
<1>5. ASSUME NEW k \in DOMAIN new
      PROVE  /\ new[k].rid <= draws + 1
             /\ \A j \in DOMAIN new : new[j].rid = new[k].rid => j = k
    <2>1. \A j \in DOMAIN new \ {p} : /\ j \in DOMAIN old /\ new[j] = old[j]
                                      /\ new[j].rid <= draws /\ new[j].rid \in Nat
        BY <1>2, <1>3, <1>4
    <2>2. /\ new[p].rid \in Nat /\ new[p].rid <= draws + 1
          /\ \A j \in DOMAIN new \ {p} : new[j].rid # new[p].rid
        <3>1. CASE p \in DOMAIN old
            BY <1>2, <1>3, <1>4, <2>1, <3>1
        <3>2. CASE p \notin DOMAIN old
            BY <1>2, <1>4, <2>1, <3>2
        <3> QED BY <3>1, <3>2
    <2>3. CASE k = p
        BY <2>2, <2>3
    <2>4. CASE k # p
        <3>1. k \in DOMAIN old /\ new[k] = old[k] /\ new[k].rid \in Nat /\ new[k].rid <= draws
            BY <2>1, <2>4
        <3>2. \A j \in DOMAIN new \ {p} : new[j].rid = new[k].rid => j = k
            BY <1>2, <2>1, <3>1
        <3>3. new[p].rid # new[k].rid
            BY <2>2, <2>4
        <3> QED BY <1>2, <3>1, <3>2, <3>3
    <2> QED BY <2>3, <2>4
<1> QED BY <1>5 DEF TableDrawn

LEMMA DrawnStays ==
    ASSUME ContentInv, NEW f \in Files, TableDrawn(f, draws)
    PROVE  TableDrawn(f, draws + 1)
<1>1. draws \in Nat /\ \A k \in DOMAIN f.table.msg : f.table.msg[k] \in Entries
    BY DEF ContentInv, GoodContent
<1> QED BY <1>1 DEF TableDrawn, Entries

LEMMA DrawnStep ==
    ASSUME VaultInv, VaultStep
    PROVE  \A f \in Files' : TableDrawn(f, draws')
<1>0. \A f \in Files : TableDrawn(f, draws) /\ TableDrawn(f, draws + 1)
    BY DrawnStays DEF VaultInv
<1>1. ASSUME NEW c \in Clients, Mutates(c) PROVE \A f \in Files' : TableDrawn(f, draws')
    <2>1. PICK target, next, p : Prepares(c, target, next, p)
        BY <1>1, MutatesPrepares DEF VaultInv
    <2>2. Files' \subseteq Files \cup {next} /\ draws' = draws + 1
        BY <2>1, FilesPrepared DEF Prepares, Prepare, VaultInv, SessionInv
    <2> QED BY <1>0, <2>1, <2>2, PreparedDrawn
<1>2. ASSUME NEW password, CreateVault(password) PROVE \A f \in Files' : TableDrawn(f, draws')
    <2>1. Files' \subseteq Files \cup {NewFile(password, draws + 1)} /\ draws' = draws + 1
        BY <1>2, FilesCreated DEF CreateVault
    <2>2. NewFile(password, draws + 1).table.msg = <<>>
        BY DEF NewFile, SealTable, Encrypt
    <2> QED BY <1>0, <2>1, <2>2 DEF TableDrawn
<1>3. ASSUME NEW c \in Clients, Replace(c) PROVE \A f \in Files' : TableDrawn(f, draws')
    BY <1>0, <1>3, FilesReplaced DEF Replace, VaultInv, SessionInv
<1>4. ASSUME draws' = draws, written' = written, \A c \in Clients : call'[c] \in {call[c], NoCall}
      PROVE  \A f \in Files' : TableDrawn(f, draws')
    BY <1>0, <1>4, FilesKept
<1>5. CASE ChangeFile
    BY <1>4, <1>5 DEF ChangeFile, Remove, Restore, MixHeader, MixSection, MixFrame, Outside
<1> QED BY <1>1, <1>2, <1>3, <1>4, <1>5 DEF VaultStep, Unlock, Quiet

LEMMA CallsGoodStep ==
    ASSUME VaultInv, VaultStep
    PROVE  CallsGood'
<1>a. ASSUME written \subseteq written', NEW c \in Clients, call'[c] \in {call[c], NoCall},
             Running(c)'
      PROVE  /\ \E g \in written' : call'[c].loaded.table = g.table
             /\ \E keys, p : ChangesOne(call'[c].loaded, call'[c].next, keys, p, call'[c].target)
    <2>1. call'[c] = call[c] /\ Running(c)
        BY <1>a DEF Running
    <2>2. PICK r : r = call[c]
        OBVIOUS
    <2>3. /\ \E g \in written : r.loaded.table = g.table
          /\ \E keys, p : ChangesOne(r.loaded, r.next, keys, p, r.target)
        BY <2>1, <2>2 DEF VaultInv, CallsGood
    <2> QED BY <1>a, <2>1, <2>2, <2>3
<1>b. ASSUME written \subseteq written', \A c \in Clients : call'[c] \in {call[c], NoCall}
      PROVE  CallsGood'
    BY <1>a, <1>b DEF CallsGood
<1>1. ASSUME NEW c \in Clients, Mutates(c) PROVE CallsGood'
    <2>1. PICK target, next, p : Prepares(c, target, next, p)
        BY <1>1, MutatesPrepares DEF VaultInv
    <2>2. /\ call'[c] = [loaded |-> file, target |-> target, next |-> next]
          /\ written' = written /\ \A d \in Clients \ {c} : call'[d] = call[d]
        BY <2>1, FilesPrepared DEF Prepares, VaultInv, SessionInv
    <2>3. \E g \in written' : call'[c].loaded.table = g.table
        BY <2>1, <2>2 DEF VaultInv, ContentInv, Prepares, Loads
    <2>4. ChangesOne(call'[c].loaded, call'[c].next, session[c].keys, p, call'[c].target)
        BY <2>1, <2>2 DEF Prepares
    <2> QED BY <1>a, <2>2, <2>3, <2>4 DEF CallsGood
<1>2. ASSUME NEW c \in Clients, Replace(c) PROVE CallsGood'
    <2>1. written \subseteq written' /\ \A d \in Clients : call'[d] \in {call[d], NoCall}
        BY <1>2, FilesReplaced DEF VaultInv, SessionInv
    <2> QED BY <1>b, <2>1
<1>3. CASE ChangeFile
    BY <1>b, <1>3 DEF ChangeFile, Remove, Restore, MixHeader, MixSection, MixFrame, Outside
<1> QED BY <1>b, <1>1, <1>2, <1>3 DEF VaultStep, CreateVault, Write, Unlock, Quiet

LEMMA VaultInvStep ==
    ASSUME VaultInv, VaultStep
    PROVE  VaultInv'
BY SessionStep, ContentStep, DrawnStep, CallsGoodStep DEF VaultInv

LEMMA VaultStepInv == VaultInv /\ [Next]_vars => VaultInv'
BY CommandStepKind, VaultInvStep DEF VaultInv, SessionInv

LEMMA InitVaultInv == Init => VaultInv
<1> SUFFICES ASSUME Init PROVE VaultInv
    OBVIOUS
<1>1. Files = {} /\ \A c \in Clients : ~Running(c)
    BY DEF Init, SealedInit, Files, Coming, Running
<1> QED BY <1>1, SealedInitInv DEF Init, SealedInit, VaultInv, ContentInv, StoredGood, CallsGood

\* update, delete and add never cost another item or the password: for any mixture of
\* files that loads, and whatever others do before the rename, all that a session could
\* read in the file loaded, but for the item written, it can read in the file put there.
THEOREM WritesKeepOthers == ASSUME FilesAreFiles PROVE Spec => WriteKeepsOthers
<1> DEFINE Keeps1(c, d) ==
        LET old == call[c].loaded
        IN (Replace(c) /\ Loads(old, session[d])) =>
            /\ \A k \in ReadableAt(old, session[d]) :
                old.table.msg[k].rid # call[c].target =>
                    k \in ReadableAt(file', session[d]) /\ ItemAt(file', k) = ItemAt(old, k)
            /\ \A password \in Passwords :
                Unlockable(old, password) => Unlockable(file', password)
<1>1. ASSUME VaultInv, NEW c \in Clients, NEW d \in Clients PROVE Keeps1(c, d)
    <2> SUFFICES ASSUME Replace(c)
                 PROVE  LET old == call[c].loaded
                        IN  /\ \A k \in ReadableAt(old, session[d]) :
                                old.table.msg[k].rid # call[c].target =>
                                    k \in ReadableAt(file', session[d]) /\ ItemAt(file', k) = ItemAt(old, k)
                            /\ \A password \in Passwords :
                                Unlockable(old, password) => Unlockable(file', password)
        OBVIOUS
    <2>1. Running(c) /\ file' = call[c].next
        BY DEF Replace, Write
    <2>2. PICK keys, p : ChangesOne(call[c].loaded, file', keys, p, call[c].target)
        BY <1>1, <2>1 DEF VaultInv, CallsGood
    <2>3. ASSUME NEW k \in ReadableAt(call[c].loaded, session[d]),
                 call[c].loaded.table.msg[k].rid # call[c].target
          PROVE  k # p
        BY <2>2, <2>3 DEF ReadableAt, LiveAt, ChangesOne
    <2> QED BY <2>2, <2>3, ChangeReads, ChangeUnlocks
<1>2. VaultInv /\ [Next]_vars => [\A c, d \in Clients : Keeps1(c, d)]_sealedVars
    BY <1>1
<1> QED BY <1>2, InitVaultInv, VaultStepInv, PTL DEF Spec, WriteKeepsOthers

-----------------------------------------------------------------------------
(***************************************************************************)
(* What was stored can be had back.  The invariant says it of the file at  *)
(* the path, and of each file to come as far as its call had loaded it.    *)
(***************************************************************************)
Retrievable(f, a) ==
    /\ Unlockable(f, a.password)
    /\ \E k \in ReadableAt(f, [keys |-> SessionKeys(f)]) : ItemAt(f, k) = Item(a.rid, a.secret)

Rids(f) == {f.table.msg[k].rid : k \in DOMAIN f.table.msg}

\* Files that a call of the commands did not make.
Foreign == written \cup {call[c].next : c \in {d \in Clients \ {Cli} : Running(d)}}

\* The command that is between load and rename adds this secret.
Adding(secret) ==
    \/ AtStep("add", "rename") /\ secret = cmd.text
    \/ AtStep("import", "adding") /\ queue # <<>> /\ secret = Head(queue)

\* A call r that loaded what was stored keeps it.
KeepsLoaded(r, all) ==
    \A a \in all : a.rid # r.target /\ a.rid \in LiveIds(r.loaded) => Retrievable(r.next, a)

KeepsAll(r, all) == \A a \in all : Retrievable(r.next, a)

ShowsAdded(r, password, secret) ==
    Unlockable(r.loaded, password) =>
        Retrievable(r.next, [password |-> password, rid |-> r.target, secret |-> secret])

KeptInv ==
    /\ \A a \in kept : Retrievable(file, a)
    /\ \A c \in Clients : Running(c) => KeepsLoaded(call[c], kept)
    /\ Running(Cli) =>
        /\ KeepsAll(call[Cli], kept)
        /\ \E secret : Adding(secret) /\ ShowsAdded(call[Cli], session[Cli].password, secret)
        /\ \A f \in Foreign : call[Cli].target \notin Rids(f)

\* A session and its vault's password give the same keys.
LEMMA KeysAgree ==
    ASSUME SessionInv, NEW c \in Clients, Loads(file, session[c]),
           NEW password, Unlockable(file, password)
    PROVE  SessionKeys(file) = session[c].keys
<1>1. PICK v \in created : session[c].keys = KeysOf(v.vid) /\ file.header.vid = v.vid
    BY LoadGenuine
<1>2. PICK w \in created : SessionKeys(file) = KeysOf(w.vid) /\ file.header.vid = w.vid
    BY UnlockGenuine DEF SessionInv
<1> QED BY <1>1, <1>2

LEMMA RetrievableListed ==
    ASSUME NEW f, NEW a, Retrievable(f, a)
    PROVE  a.rid \in Rids(f)
<1>1. PICK k \in ReadableAt(f, [keys |-> SessionKeys(f)]) : ItemAt(f, k) = Item(a.rid, a.secret)
    BY DEF Retrievable
<1>2. k \in DOMAIN f.table.msg /\ f.table.msg[k].rid = a.rid
    BY <1>1 DEF ReadableAt, LiveAt, ItemAt, Item
<1> QED BY <1>2 DEF Rids

\* What could be had back still can, if it is not what the write replaced.
LEMMA ChangeRetrieves ==
    ASSUME FilesAreFiles, NEW f, NEW g, NEW keys, NEW p, NEW target,
           ChangesOne(f, g, keys, p, target), NEW a, Retrievable(f, a), a.rid # target
    PROVE  Retrievable(g, a)
<1>1. PICK k \in ReadableAt(f, [keys |-> SessionKeys(f)]) : ItemAt(f, k) = Item(a.rid, a.secret)
    BY DEF Retrievable
<1>2. k \in DOMAIN f.table.msg /\ f.table.msg[k].rid = a.rid
    BY <1>1 DEF ReadableAt, LiveAt, ItemAt, Item
<1>3. k # p
    BY <1>2 DEF ChangesOne
<1>4. Unlockable(g, a.password)
    BY ChangeUnlocks DEF Retrievable
<1>5. SessionKeys(g) = SessionKeys(f)
    BY DEF ChangesOne, With, SessionKeys
<1>6. k \in ReadableAt(g, [keys |-> SessionKeys(g)]) /\ ItemAt(g, k) = ItemAt(f, k)
    BY <1>1, <1>3, <1>5, ChangeReads
<1> QED BY <1>1, <1>4, <1>6 DEF Retrievable

\* What add stores can be read in the file to come.
LEMMA AddShows ==
    ASSUME FilesAreFiles, SessionInv, ContentInv, NEW c \in Clients, NEW secret, NEW next, NEW p,
           Prepares(c, draws + 1, next, p), p \in DOMAIN next.table.msg,
           next.table.msg[p] = Entry(draws + 1, "item", draws + 1),
           next.frames[p] = ItemFrame(session[c].keys, file.header.vid, draws + 1, draws + 1, secret),
           NEW a, a.rid = draws + 1, a.secret = secret, Unlockable(file, a.password)
    PROVE  Retrievable(next, a)
<1> DEFINE n == draws + 1
           keys == session[c].keys
           aad == RecordAad(file.header.vid, n, n, "item")
<1>1. ChangesOne(file, next, keys, p, n)
    BY DEF Prepares
<1>2. /\ next.table.msg[p].rid = n /\ next.table.msg[p].rev = n
      /\ next.table.msg[p].kind = "item"
    BY DEF Entry
<1>3. /\ next.frames[p].rid = n /\ next.frames[p].rev = n
      /\ next.frames[p].payload.msg = secret
      /\ Decrypts(next.frames[p].wrapped, keys.itemWrap, aad)
      /\ Decrypts(next.frames[p].payload, RecordKey(next.frames[p].wrapped.msg), aad)
    BY DEF ItemFrame, Encrypt, Decrypts
<1>4. next.header = file.header /\ SessionKeys(next) = SessionKeys(file)
    BY <1>1 DEF ChangesOne, With, SessionKeys
<1>5. SessionKeys(next) = keys
    BY <1>4, KeysAgree DEF Prepares
<1>6. InPlace(next, p)
    <2>1. p <= Len(next.frames) /\ \A j \in 1 .. p : j \in DOMAIN next.table.msg
        BY <1>1 DEF ChangesOne
    <2> QED BY <1>1, <2>1, ChangeInPlace DEF InPlace
<1>7. p \in ReadableAt(next, [keys |-> SessionKeys(next)])
    BY <1>2, <1>3, <1>4, <1>5, <1>6 DEF ReadableAt, LiveAt, ReadsItem
<1>8. ItemAt(next, p) = Item(a.rid, a.secret)
    BY <1>2, <1>3 DEF ItemAt
<1>9. Unlockable(next, a.password)
    BY <1>1, ChangeUnlocks
<1> QED BY <1>7, <1>8, <1>9 DEF Retrievable

\* The next id is in no file of the program.
LEMMA FreshId ==
    ASSUME VaultInv, NEW f \in Files
    PROVE  draws + 1 \notin Rids(f)
<1>1. /\ draws \in Nat /\ TableDrawn(f, draws)
      /\ \A k \in DOMAIN f.table.msg : f.table.msg[k] \in Entries
    BY DEF VaultInv, ContentInv, GoodContent
<1> QED BY <1>1 DEF TableDrawn, Entries, Rids

\* What a step does to the calls and to what is kept.
LEMMA KeptKinds ==
    ASSUME VaultInv, KeptInv, [Next]_vars
    PROVE  \/ \E secret : AddItem(Cli, secret) /\ Adding(secret)' /\ kept' = kept
           \/ \E secret : Adding(secret) /\ Replace(Cli) /\ Keeps(secret)
           \/ OtherReplace
           \/ \E c \in Clients \ {Cli} : Mutates(c) /\ UNCHANGED <<cmd, queue, kept>>
           \/ FileChanges
           \/ InitCommand
           \/ /\ UNCHANGED <<file, written, kept>>
              /\ \A c \in Clients : call'[c] \in {call[c], NoCall}
              /\ Running(Cli)' => UNCHANGED <<cmd, queue, session[Cli]>>
<1> DEFINE Rest == /\ UNCHANGED <<file, written, kept>>
                   /\ \A c \in Clients : call'[c] \in {call[c], NoCall}
                   /\ Running(Cli)' => UNCHANGED <<cmd, queue, session[Cli]>>
<1>a. Cli \in Clients /\ MapsTyped
    BY LinesAssumption DEF VaultInv, SessionInv
<1>b. Running(Cli) => \E secret : Adding(secret)
    BY DEF KeptInv
<1>c. ASSUME UNCHANGED <<file, written, kept, call>>, ~\E secret : Adding(secret) PROVE Rest
    BY <1>b, <1>c DEF Running
<1>1. CASE AddLoad
    <2>1. AddItem(Cli, cmd.text) /\ kept' = kept /\ cmd' = Command("add", "rename", cmd.text)
        BY <1>1 DEF AddLoad, GoTo, histories, AtStep
    <2>2. Adding(cmd.text)'
        BY <2>1 DEF Adding, AtStep, Command
    <2> QED BY <2>1, <2>2 DEF Command, Adding, AtStep
<1>2. CASE ImportLoad
    BY <1>2 DEF ImportLoad, Adding, AtStep, histories, commandVars
<1>3. CASE AddReplace \/ ImportReplace
    <2>1. Running(Cli)
        BY <1>3 DEF AddReplace, ImportReplace, Replace
    <2> QED BY <1>3, <1>b, <2>1 DEF AddReplace, ImportReplace, Adding, AtStep
<1>4. CASE AddCommand \/ ListCommand \/ GetCommand \/ ExportCommand \/ ImportCommand
    <2>1. PICK password \in Lines : \E name, text : UnlockSession(name, password, text)
        BY <1>4 DEF AddCommand, ListCommand, GetCommand, ExportCommand, ImportCommand
    <2>2. UNCHANGED <<file, written, kept, call>> /\ cmd.pc = "idle"
        BY <2>1 DEF UnlockSession, Unlock, histories
    <2>3. Rest
        BY <1>c, <2>2 DEF Adding, AtStep
    <2> QED BY <2>3
<1>5. CASE ListWork \/ GetWork \/ ExportList \/ ExportItem \/ ExportSeal \/ ClaimOutput \/ WriteOutput
    <2>1. UNCHANGED <<file, written, kept, call>>
        BY <1>5 DEF ListWork, GetWork, ExportList, ExportItem, ExportSeal, ClaimOutput, WriteOutput,
                    sealedVars, histories
    <2>2. cmd.name \in {"list", "get", "export"}
        BY <1>5 DEF ListWork, GetWork, ExportList, ExportItem, ExportSeal, ClaimOutput, WriteOutput, AtStep
    <2>3. Rest
        BY <1>c, <2>1, <2>2 DEF Adding, AtStep
    <2> QED BY <2>3
<1>6. CASE ImportWork \/ ImportDone
    <2>1. UNCHANGED <<file, written, kept, call>>
        BY <1>6 DEF ImportWork, ImportDone, sealedVars, histories
    <2>2. ~\E secret : Adding(secret)
        BY <1>6 DEF ImportWork, ImportDone, Adding, AtStep
    <2>3. Rest
        BY <1>c, <2>1, <2>2
    <2> QED BY <2>3
<1>7. CASE End
    BY <1>7, <1>a DEF End, Running, MapsTyped
<1>8. CASE OtherCall
    <2>1. PICK c \in Clients \ {Cli} : CoreCall(c)
        BY <1>8 DEF OtherCall
    <2>2. UNCHANGED <<cmd, queue, kept>>
        BY <1>8 DEF OtherCall, commandVars, histories
    <2>3. CASE (\E password \in Passwords : Unlock(c, password)) \/ LockVault(c) \/ GiveUp(c)
        BY <1>a, <2>1, <2>2, <2>3 DEF Unlock, LockVault, GiveUp, MapsTyped
    <2> QED BY <2>1, <2>2, <2>3 DEF CoreCall, Mutates
<1>9. CASE UNCHANGED vars
    BY <1>9 DEF vars, sealedVars, commandVars, histories
<1> HIDE DEF Rest
<1> QED BY <1>1, <1>2, <1>3, <1>4, <1>5, <1>6, <1>7, <1>8, <1>9 DEF Next

\* A call that goes on keeps what it kept.
LEMMA CallStillKeeps ==
    ASSUME KeptInv, kept' \subseteq kept, NEW c \in Clients, Running(c)',
           call'[c] \in {call[c], NoCall}
    PROVE  KeepsLoaded(call'[c], kept')
<1>1. Running(c) /\ call'[c] = call[c]
    BY DEF Running
<1>2. PICK r : r = call[c]
    OBVIOUS
<1>3. KeepsLoaded(r, kept)
    BY <1>1, <1>2 DEF KeptInv
<1>4. KeepsLoaded(r, kept')
    BY <1>3 DEF KeepsLoaded
<1> QED BY <1>1, <1>2, <1>4

\* So does the call of the commands, if its id is in none of the files that are new.
LEMMA CliStillKeeps ==
    ASSUME KeptInv, kept' \subseteq kept, Running(Cli)', call'[Cli] \in {call[Cli], NoCall},
           UNCHANGED <<cmd, queue, session[Cli]>>,
           \A f \in Foreign' : f \in Foreign \/ call[Cli].target \notin Rids(f)
    PROVE  /\ KeepsAll(call'[Cli], kept')
           /\ \E secret : Adding(secret)' /\ ShowsAdded(call'[Cli], session'[Cli].password, secret)
           /\ \A f \in Foreign' : call'[Cli].target \notin Rids(f)
<1>1. Running(Cli) /\ call'[Cli] = call[Cli]
    BY DEF Running
<1>2. PICK r : r = call[Cli]
    OBVIOUS
<1>3. /\ KeepsAll(r, kept)
      /\ \E secret : Adding(secret) /\ ShowsAdded(r, session[Cli].password, secret)
      /\ \A f \in Foreign : r.target \notin Rids(f)
    BY <1>1, <1>2 DEF KeptInv
<1>4. PICK secret : Adding(secret) /\ ShowsAdded(r, session[Cli].password, secret)
    BY <1>3
<1>5. Adding(secret)'
    BY <1>4 DEF Adding, AtStep
<1>6. KeepsAll(r, kept')
    BY <1>3 DEF KeepsAll
<1> QED BY <1>1, <1>2, <1>3, <1>4, <1>5, <1>6

\* The file a call loads lists the ids of a file the program wrote.
LEMMA LoadedIds ==
    ASSUME VaultInv, NEW c \in Clients, Loads(file, session[c])
    PROVE  \E g \in written : Rids(file) = Rids(g)
BY DEF VaultInv, ContentInv, Loads, Rids

\* The ids of the file to come are those of the file loaded and that of the target.
LEMMA ChangeIds ==
    ASSUME NEW f, NEW g, NEW keys, NEW p, NEW target, ChangesOne(f, g, keys, p, target)
    PROVE  target \in Rids(g) /\ Rids(g) \subseteq Rids(f) \cup {target}
<1> DEFINE old == f.table.msg
           new == g.table.msg
<1>1. /\ DOMAIN new = DOMAIN old \cup {p} /\ new[p].rid = target
      /\ \A k \in DOMAIN old \ {p} : new[k] = old[k]
    BY DEF ChangesOne
<1> QED BY <1>1 DEF Rids

LEMMA KeptInvAdd ==
    ASSUME FilesAreFiles, VaultInv, KeptInv,
           NEW secret, AddItem(Cli, secret), Adding(secret)', kept' = kept
    PROVE  KeptInv'
<1>a. Cli \in Clients /\ MapsTyped
    BY LinesAssumption DEF VaultInv, SessionInv
<1> DEFINE n == draws + 1
<1>1. PICK next, p :
        /\ Prepares(Cli, n, next, p) /\ p \in DOMAIN next.table.msg
        /\ next.table.msg[p] = Entry(n, "item", n)
        /\ next.frames[p] = ItemFrame(session[Cli].keys, file.header.vid, n, n, secret)
    BY <1>a, AddPrepares DEF VaultInv
<1>2. /\ file' = file /\ session' = session /\ written' = written
      /\ call'[Cli] = [loaded |-> file, target |-> n, next |-> next]
      /\ \A d \in Clients \ {Cli} : call'[d] = call[d]
    <2>1. Prepare(Cli, n, next)
        BY <1>1 DEF Prepares
    <2>2. file' = file /\ session' = session
        BY <2>1 DEF Prepare
    <2> QED BY <1>a, <2>1, <2>2, FilesPrepared
<1>3. ChangesOne(file, next, session[Cli].keys, p, n) /\ Loads(file, session[Cli])
    BY <1>1 DEF Prepares
<1>4. KeepsAll(call'[Cli], kept)
    <2> SUFFICES ASSUME NEW a \in kept PROVE Retrievable(next, a)
        BY <1>2 DEF KeepsAll
    <2>1. Retrievable(file, a)
        BY DEF KeptInv
    <2>2. a.rid \in Rids(file)
        BY <2>1, RetrievableListed
    <2>3. PICK g \in written : Rids(file) = Rids(g)
        BY <1>3, <1>a, LoadedIds
    <2>4. n \notin Rids(g)
        BY FreshId DEF Files
    <2>5. a.rid # n
        BY <2>2, <2>3, <2>4
    <2> QED BY <1>3, <2>1, <2>5, ChangeRetrieves
<1>5. ShowsAdded(call'[Cli], session[Cli].password, secret)
    <2> DEFINE a == [password |-> session[Cli].password, rid |-> n, secret |-> secret]
    <2>1. ASSUME Unlockable(file, session[Cli].password) PROVE Retrievable(next, a)
        <3>1. a.rid = n /\ a.secret = secret /\ a.password = session[Cli].password
            OBVIOUS
        <3> HIDE DEF a
        <3>2. SessionInv /\ ContentInv
            BY DEF VaultInv
        <3> QED BY <1>1, <1>a, <2>1, <3>1, <3>2, AddShows
    <2> QED BY <1>2, <2>1 DEF ShowsAdded
<1>6. \A f \in Foreign' : n \notin Rids(f)
    <2>1. Foreign' \subseteq Files
        BY <1>2 DEF Foreign, Files, Coming, Running
    <2> QED BY <2>1, FreshId
<1>7. ASSUME NEW c \in Clients, Running(c)' PROVE KeepsLoaded(call'[c], kept')
    <2>1. CASE c = Cli
        BY <1>4, <2>1 DEF KeepsAll, KeepsLoaded
    <2>2. CASE c # Cli
        BY <1>2, <1>7, <2>2, CallStillKeeps
    <2> QED BY <2>1, <2>2
<1>8. \A a \in kept' : Retrievable(file', a)
    BY <1>2 DEF KeptInv
<1>9. call'[Cli].target = n
    BY <1>2
<1> QED BY <1>2, <1>4, <1>5, <1>6, <1>7, <1>8, <1>9 DEF KeptInv

LEMMA KeptInvReplace ==
    ASSUME FilesAreFiles, VaultInv, KeptInv, NEW secret, Adding(secret), Replace(Cli), Keeps(secret)
    PROVE  KeptInv'
<1>a. Cli \in Clients /\ MapsTyped
    BY LinesAssumption DEF VaultInv, SessionInv
<1> DEFINE new == [password |-> session[Cli].password, rid |-> call[Cli].target, secret |-> secret]
<1>1. /\ file' = call[Cli].next /\ call'[Cli] = NoCall
      /\ \A d \in Clients \ {Cli} : call'[d] = call[d]
    BY <1>a, FilesReplaced
<1>2. Running(Cli)
    BY DEF Replace
<1>3. /\ KeepsAll(call[Cli], kept)
      /\ ShowsAdded(call[Cli], session[Cli].password, secret)
      /\ \A f \in written : call[Cli].target \notin Rids(f)
    <2>1. \A other : Adding(other) => other = secret
        BY DEF Adding, AtStep
    <2> QED BY <1>2, <2>1 DEF KeptInv, Foreign
<1>4. kept' = IF Unlockable(call[Cli].loaded, session[Cli].password) THEN kept \cup {new} ELSE kept
    BY DEF Keeps
<1>5. ASSUME NEW a \in kept' PROVE Retrievable(file', a)
    <2>1. CASE a \in kept
        BY <1>1, <1>3, <2>1 DEF KeepsAll
    <2>2. CASE a \notin kept
        BY <1>1, <1>3, <1>4, <2>2 DEF ShowsAdded
    <2> QED BY <2>1, <2>2
<1>6. ASSUME NEW c \in Clients, Running(c)' PROVE KeepsLoaded(call'[c], kept')
    <2>1. c # Cli /\ Running(c) /\ call'[c] = call[c]
        BY <1>1, <1>6 DEF Running
    <2>2. PICK r : r = call[c]
        OBVIOUS
    <2>3. KeepsLoaded(r, kept)
        BY <2>1, <2>2 DEF KeptInv
    <2>4. PICK g \in written : r.loaded.table = g.table
        BY <2>1, <2>2 DEF VaultInv, CallsGood
    <2>5. LiveIds(r.loaded) \subseteq Rids(g)
        BY <2>4 DEF LiveIds, LiveAt, Rids
    <2>6. new.rid \notin LiveIds(r.loaded)
        BY <1>3, <2>5
    <2>7. KeepsLoaded(r, kept')
        BY <1>4, <2>3, <2>6 DEF KeepsLoaded
    <2> QED BY <2>1, <2>2, <2>7
<1>7. ~Running(Cli)'
    BY <1>1 DEF Running
<1> QED BY <1>5, <1>6, <1>7 DEF KeptInv

LEMMA KeptInvOtherReplace ==
    ASSUME VaultInv, KeptInv, OtherReplace
    PROVE  KeptInv'
<1>a. Cli \in Clients /\ MapsTyped
    BY LinesAssumption DEF VaultInv, SessionInv
<1>1. PICK c \in Clients \ {Cli} :
        /\ Replace(c)
        /\ kept' = {a \in kept : /\ a.rid # call[c].target
                                 /\ \E k \in LiveAt(call[c].loaded) :
                                        call[c].loaded.table.msg[k].rid = a.rid}
    BY DEF OtherReplace
<1>2. /\ file' = call[c].next /\ call'[c] = NoCall /\ written' = written \cup {file'}
      /\ \A d \in Clients \ {c} : call'[d] = call[d]
    BY <1>1, <1>a, FilesReplaced
<1>3. Running(c) /\ session' = session /\ cmd' = cmd /\ queue' = queue
    BY <1>1 DEF Replace, OtherReplace, commandVars
<1>4. kept' \subseteq kept
    BY <1>1
<1>5. ASSUME NEW a \in kept' PROVE Retrievable(file', a)
    <2>1. a \in kept /\ a.rid # call[c].target /\ a.rid \in LiveIds(call[c].loaded)
        BY <1>1 DEF LiveIds
    <2>2. KeepsLoaded(call[c], kept)
        BY <1>3 DEF KeptInv
    <2> QED BY <1>2, <2>1, <2>2 DEF KeepsLoaded
<1>6. ASSUME NEW d \in Clients PROVE call'[d] \in {call[d], NoCall}
    BY <1>2
<1>7. ASSUME NEW d \in Clients, Running(d)' PROVE KeepsLoaded(call'[d], kept')
    BY <1>4, <1>6, <1>7, CallStillKeeps
<1>8. Foreign' \subseteq Foreign
    BY <1>2, <1>3 DEF Foreign, Running
<1>9. Running(Cli)' =>
        /\ KeepsAll(call'[Cli], kept')
        /\ \E secret : Adding(secret)' /\ ShowsAdded(call'[Cli], session'[Cli].password, secret)
        /\ \A f \in Foreign' : call'[Cli].target \notin Rids(f)
    BY <1>a, <1>3, <1>4, <1>6, <1>8, CliStillKeeps
<1> QED BY <1>5, <1>7, <1>9 DEF KeptInv

LEMMA KeptInvOther ==
    ASSUME FilesAreFiles, VaultInv, KeptInv,
           NEW c \in Clients \ {Cli}, Mutates(c), UNCHANGED <<cmd, queue, kept>>
    PROVE  KeptInv'
<1>a. Cli \in Clients /\ MapsTyped
    BY LinesAssumption DEF VaultInv, SessionInv
<1>1. PICK target, next, p : Prepares(c, target, next, p)
    BY MutatesPrepares DEF VaultInv
<1>2. /\ file' = file /\ session' = session /\ written' = written
      /\ call'[c] = [loaded |-> file, target |-> target, next |-> next]
      /\ \A d \in Clients \ {c} : call'[d] = call[d]
    <2>1. Prepare(c, target, next)
        BY <1>1 DEF Prepares
    <2>2. file' = file /\ session' = session
        BY <2>1 DEF Prepare
    <2> QED BY <1>a, <2>1, <2>2, FilesPrepared
<1>3. ChangesOne(file, next, session[c].keys, p, target) /\ Loads(file, session[c])
    BY <1>1 DEF Prepares
<1>4. \A a \in kept : Retrievable(file, a)
    BY DEF KeptInv
<1>5. KeepsLoaded(call'[c], kept)
    <2>1. \A a \in kept : a.rid # target => Retrievable(next, a)
        BY <1>3, <1>4, ChangeRetrieves
    <2> QED BY <1>2, <2>1 DEF KeepsLoaded
<1>6. ASSUME NEW d \in Clients, Running(d)' PROVE KeepsLoaded(call'[d], kept')
    <2>1. CASE d = c
        BY <1>5, <2>1
    <2>2. CASE d # c
        BY <1>2, <1>6, <2>2, CallStillKeeps
    <2> QED BY <2>1, <2>2
<1>7. ASSUME Running(Cli)', NEW f \in Foreign'
      PROVE  f \in Foreign \/ call[Cli].target \notin Rids(f)
    <2>1. CASE f # next
        BY <1>2, <2>1 DEF Foreign, Running
    <2>2. CASE f = next
        <3>1. Running(Cli)
            BY <1>2, <1>7, <1>a DEF Running
        <3>2. \A g \in written : call[Cli].target \notin Rids(g)
            BY <3>1 DEF KeptInv, Foreign
        <3>3. call[Cli].target \notin Rids(file)
            BY <1>3, <3>2, LoadedIds
        <3>4. call[Cli].target # draws + 1
            <4>1. call[Cli].next \in Files
                BY <1>a, <3>1 DEF Files, Coming
            <4>2. call[Cli].target \in Rids(call[Cli].next)
                BY <1>a, <3>1, ChangeIds DEF VaultInv, CallsGood
            <4> QED BY <4>1, <4>2, FreshId
        <3>5. target \in Rids(file) \/ target = draws + 1
            <4>1. p \in DOMAIN file.table.msg => target \in Rids(file)
                BY <1>3 DEF ChangesOne, Rids
            <4> QED BY <1>1, <4>1 DEF Prepares
        <3>6. Rids(next) \subseteq Rids(file) \cup {target}
            BY <1>3, ChangeIds
        <3> QED BY <2>2, <3>3, <3>4, <3>5, <3>6
    <2> QED BY <2>1, <2>2
<1>8. Running(Cli)' =>
        /\ KeepsAll(call'[Cli], kept')
        /\ \E secret : Adding(secret)' /\ ShowsAdded(call'[Cli], session'[Cli].password, secret)
        /\ \A f \in Foreign' : call'[Cli].target \notin Rids(f)
    <2>1. call'[Cli] = call[Cli] /\ session'[Cli] = session[Cli] /\ cmd' = cmd /\ queue' = queue
        BY <1>2, <1>a
    <2> QED BY <1>7, <2>1, CliStillKeeps
<1> QED BY <1>2, <1>4, <1>6, <1>8 DEF KeptInv

\* A step that at most ends calls, and leaves nothing to be relied on that is not there.
LEMMA KeptInvRest ==
    ASSUME KeptInv, written' = written, kept' \subseteq kept,
           \A a \in kept' : Retrievable(file', a),
           \A c \in Clients : call'[c] \in {call[c], NoCall},
           Running(Cli)' => UNCHANGED <<cmd, queue, session[Cli]>>
    PROVE  KeptInv'
<1>a. Cli \in Clients
    BY LinesAssumption
<1>1. \A c \in Clients : Running(c)' => KeepsLoaded(call'[c], kept')
    BY CallStillKeeps
<1>2. Foreign' \subseteq Foreign
    BY DEF Foreign, Running
<1>3. Running(Cli)' =>
        /\ KeepsAll(call'[Cli], kept')
        /\ \E secret : Adding(secret)' /\ ShowsAdded(call'[Cli], session'[Cli].password, secret)
        /\ \A f \in Foreign' : call'[Cli].target \notin Rids(f)
    BY <1>a, <1>2, CliStillKeeps
<1> QED BY <1>1, <1>3 DEF KeptInv

LEMMA KeptStep ==
    ASSUME FilesAreFiles, VaultInv, KeptInv, [Next]_vars
    PROVE  KeptInv'
<1>1. CASE \E secret : AddItem(Cli, secret) /\ Adding(secret)' /\ kept' = kept
    BY <1>1, KeptInvAdd
<1>2. CASE \E secret : Adding(secret) /\ Replace(Cli) /\ Keeps(secret)
    BY <1>2, KeptInvReplace
<1>3. CASE OtherReplace
    BY <1>3, KeptInvOtherReplace
<1>4. CASE \E c \in Clients \ {Cli} : Mutates(c) /\ UNCHANGED <<cmd, queue, kept>>
    BY <1>4, KeptInvOther
<1>5. CASE FileChanges
    <2>1. /\ written' = written /\ kept' = {} /\ call' = call /\ session' = session
          /\ cmd' = cmd /\ queue' = queue
        BY <1>5 DEF FileChanges, commandVars, ChangeFile, Remove, Restore, MixHeader, MixSection,
                    MixFrame, Outside
    <2> QED BY <2>1, KeptInvRest
<1>6. CASE InitCommand
    <2>1. file = NoFile /\ call' = call /\ kept' = kept /\ cmd.pc = "idle" /\ session' = session
        BY <1>6 DEF InitCommand, CreateVault, histories
    <2>2. kept = {}
        BY <2>1 DEF KeptInv, Retrievable, Unlockable
    <2>3. ~Running(Cli)'
        BY <2>1 DEF KeptInv, Running, Adding, AtStep
    <2>4. \A c \in Clients : Running(c)' => KeepsLoaded(call'[c], kept')
        BY <2>1, <2>2 DEF KeepsLoaded
    <2> QED BY <2>1, <2>2, <2>3, <2>4 DEF KeptInv
<1>7. CASE /\ UNCHANGED <<file, written, kept>>
           /\ \A c \in Clients : call'[c] \in {call[c], NoCall}
           /\ Running(Cli)' => UNCHANGED <<cmd, queue, session[Cli]>>
    <2>1. \A a \in kept' : Retrievable(file', a)
        BY <1>7 DEF KeptInv
    <2> QED BY <1>7, <2>1, KeptInvRest
<1> QED BY <1>1, <1>2, <1>3, <1>4, <1>5, <1>6, <1>7, KeptKinds

\* What add and import were told is stored can be had back with the password, for any
\* number of clients that load, change, rename and are killed in any interleaving with
\* the commands, until it is changed, deleted, or another client renames the successor
\* of a file that it had loaded before, or the file is changed from outside.
THEOREM KeptIsRetrievable == ASSUME FilesAreFiles PROVE Spec => []KeptRetrievable
<1> DEFINE Inv == VaultInv /\ KeptInv
<1>1. Init => Inv
    <2> SUFFICES ASSUME Init PROVE KeptInv
        BY InitVaultInv
    <2>1. kept = {} /\ \A c \in Clients : ~Running(c)
        BY DEF Init, SealedInit, Running
    <2> QED BY <2>1, LinesAssumption DEF KeptInv
<1>2. Inv /\ [Next]_vars => Inv'
    BY VaultStepInv, KeptStep
<1>3. Inv => KeptRetrievable
    BY DEF KeptInv, KeptRetrievable, Retrievable
<1> QED BY <1>1, <1>2, <1>3, PTL DEF Spec

-----------------------------------------------------------------------------
(***************************************************************************)
(* What export writes.  The k-th item of a table comes at the place of its *)
(* rank among the live ones, so no item is left out or taken twice.        *)
(***************************************************************************)
Rank(S, k) == Cardinality({j \in S : j < k})

LEMMA RankInjective ==
    ASSUME NEW S \in SUBSET Nat, IsFiniteSet(S)
    PROVE  /\ \A k \in S : Rank(S, k) + 1 \in 1 .. Cardinality(S)
           /\ \A k, l \in S : Rank(S, k) = Rank(S, l) => k = l
<1>1. ASSUME NEW k \in S
      PROVE  Rank(S, k) \in Nat /\ Rank(S, k) + 1 \in 1 .. Cardinality(S)
    <2> DEFINE below == {j \in S : j < k}
    <2>1. IsFiniteSet(below) /\ Cardinality(below) <= Cardinality(S)
        BY FS_Subset
    <2>2. Cardinality(below) # Cardinality(S)
        <3>1. k \notin below /\ k \in S
            OBVIOUS
        <3>2. below # S
            BY <3>1
        <3> QED BY <3>2, FS_Subset
    <2>3. Cardinality(below) \in Nat /\ Cardinality(S) \in Nat
        BY <2>1, FS_CardinalityType
    <2>4. Rank(S, k) = Cardinality(below)
        BY DEF Rank
    <2> HIDE DEF below
    <2> QED BY <2>1, <2>2, <2>3, <2>4
<1>2. ASSUME NEW k \in S, NEW l \in S, k < l PROVE Rank(S, k) # Rank(S, l)
    <2> DEFINE belowK == {j \in S : j < k}
               belowL == {j \in S : j < l}
    <2>0. \A j \in S : j < k => j < l
        BY <1>2
    <2>1. belowK \subseteq belowL
        BY <2>0
    <2>2. k \in belowL /\ k \notin belowK
        BY <1>2
    <2>3. IsFiniteSet(belowL)
        BY FS_Subset
    <2>4. Cardinality(belowK) = Cardinality(belowL) => belowK = belowL
        BY <2>1, <2>3, FS_Subset
    <2> HIDE DEF belowK, belowL
    <2>5. Cardinality(belowK) # Cardinality(belowL)
        BY <2>2, <2>4
    <2> QED BY <2>5 DEF Rank, belowK, belowL
<1>3. \A k, l \in S : k = l \/ k < l \/ l < k
    OBVIOUS
<1> QED BY <1>1, <1>2, <1>3

\* As many ranks as places: every place is some item's.
LEMMA RankSurjective ==
    ASSUME NEW S \in SUBSET Nat, IsFiniteSet(S)
    PROVE  \A i \in 1 .. Cardinality(S) : \E k \in S : Rank(S, k) = i - 1
<1> DEFINE places == 1 .. Cardinality(S)
           place == [k \in S |-> Rank(S, k) + 1]
<1>1. Cardinality(S) \in Nat
    BY FS_CardinalityType
<1>2. IsFiniteSet(places) /\ Cardinality(places) = Cardinality(S)
    BY <1>1, FS_Interval
<1>3. place \in [S -> places]
    BY RankInjective
<1>4. ASSUME NEW k \in S PROVE Rank(S, k) \in Nat
    <2>1. IsFiniteSet({j \in S : j < k})
        BY FS_Subset
    <2> QED BY <2>1, FS_CardinalityType DEF Rank
<1>5. \A k, l \in S : place[k] = place[l] => k = l
    <2>1. \A k, l \in S : Rank(S, k) + 1 = Rank(S, l) + 1 => Rank(S, k) = Rank(S, l)
        BY <1>4
    <2> QED BY <2>1, RankInjective
<1> HIDE DEF place
<1>6. place \in Injection(S, places)
    BY <1>3, <1>5, Fun_IsInj
<1>7. place \in Surjection(S, places)
    BY <1>2, <1>6, FS_Injection
<1>8. \A i \in places : \E k \in S : place[k] = i
    BY <1>7, Fun_SurjectionProperties
<1>9. ASSUME NEW i \in places PROVE \E k \in S : Rank(S, k) = i - 1
    <2>1. PICK k \in S : Rank(S, k) + 1 = i
        BY <1>8 DEF place
    <2> QED BY <2>1, <1>4
<1> QED BY <1>9

\* list returns the id of every live item once.
LEMMA IdsOnce ==
    ASSUME NEW f, NEW drawn, f.table.msg \in Seq(Entries), TableDrawn(f, drawn)
    PROVE  /\ IdsAt(f) \in Seq(Nat)
           /\ IdsAt(f) \in Bijection(DOMAIN IdsAt(f), LiveIds(f))
<1> DEFINE S == LiveAt(f)
           n == Cardinality(S)
           nth(i) == CHOOSE k \in S : Rank(S, k) = i - 1
           rid(k) == f.table.msg[k].rid
           ids == [i \in 1 .. n |-> rid(nth(i))]
<1>1. S \in SUBSET Nat /\ IsFiniteSet(S) /\ \A k \in S : rid(k) \in Nat
    <2>1. Len(f.table.msg) \in Nat /\ DOMAIN f.table.msg = 1 .. Len(f.table.msg)
        OBVIOUS
    <2>2. S \in SUBSET (1 .. Len(f.table.msg))
        BY <2>1 DEF LiveAt
    <2>3. IsFiniteSet(1 .. Len(f.table.msg))
        BY <2>1, FS_Interval
    <2>4. \A k \in DOMAIN f.table.msg : f.table.msg[k] \in Entries
        OBVIOUS
    <2>5. \A k \in S : rid(k) \in Nat
        BY <2>4 DEF LiveAt, Entries
    <2>6. IsFiniteSet(S)
        BY <2>2, <2>3, FS_Subset
    <2>7. S \in SUBSET Nat
        BY <2>1, <2>2
    <2> QED BY <2>5, <2>6, <2>7
<1>2. n \in Nat
    BY <1>1, FS_CardinalityType
<1>3. IdsAt(f) = ids
    BY DEF IdsAt, Rank
<1>4. \A i \in 1 .. n : nth(i) \in S /\ Rank(S, nth(i)) = i - 1
    BY <1>1, RankSurjective
<1>5. ASSUME NEW k \in S PROVE \E i \in 1 .. n : nth(i) = k
    <2>1. Rank(S, k) + 1 \in 1 .. n
        BY <1>1, RankInjective
    <2>2. Rank(S, k) \in Nat
        <3>1. IsFiniteSet({j \in S : j < k})
            BY <1>1, FS_Subset
        <3> QED BY <3>1, FS_CardinalityType DEF Rank
    <2>3. PICK i \in 1 .. n : i - 1 = Rank(S, k)
        BY <2>1, <2>2
    <2>4. nth(i) \in S /\ Rank(S, nth(i)) = Rank(S, k)
        BY <1>4, <2>3
    <2>5. nth(i) = k
        BY <1>1, <2>4, RankInjective
    <2> QED BY <2>5
<1>6. \A k, l \in S : rid(k) = rid(l) => k = l
    BY DEF TableDrawn, LiveAt
<1>7. LiveIds(f) = {rid(k) : k \in S}
    BY DEF LiveIds
<1> HIDE DEF nth, n, S, rid
<1>8. ids \in [1 .. n -> LiveIds(f)] /\ DOMAIN ids = 1 .. n /\ ids \in Seq(Nat)
    BY <1>1, <1>2, <1>4, <1>7
<1>9. \A i, j \in 1 .. n : ids[i] = ids[j] => i = j
    <2> SUFFICES ASSUME NEW i \in 1 .. n, NEW j \in 1 .. n, ids[i] = ids[j] PROVE i = j
        OBVIOUS
    <2>1. nth(i) = nth(j)
        BY <1>4, <1>6
    <2>2. i - 1 = j - 1
        BY <1>4, <2>1
    <2> QED BY <1>2, <2>2
<1>10. \A r \in LiveIds(f) : \E i \in 1 .. n : ids[i] = r
    BY <1>5, <1>7
<1> HIDE DEF ids
<1>11. ids \in Bijection(1 .. n, LiveIds(f))
    BY <1>8, <1>9, <1>10, Fun_IsBij
<1> QED BY <1>3, <1>8, <1>11

-----------------------------------------------------------------------------
\* Some version of v's vault, v itself if there was only one, shows this for the item.
ReadFrom(v, rid, secret, same, versions, all) ==
    \E x \in all, w \in versions :
        /\ x.vid = v.header.vid /\ x.rid = rid /\ x.secret = secret
        /\ w.header.vid = v.header.vid
        /\ same => w = v
        /\ [rid |-> x.rid, rev |-> x.rev] \in LiveRevisions(w)

\* Export listed v: out is what it read for the first items, queue has the others.
Reading(v) ==
    /\ v \in written /\ v.header.vid = session[Cli].vid
    /\ steady => file.table = v.table
    /\ \E S : out \in Seq(S)
    /\ queue \in Seq(Nat) /\ Len(out) + Len(queue) = Len(IdsAt(v))
    /\ \A i \in 1 .. Len(queue) : queue[i] = IdsAt(v)[Len(out) + i]
    /\ \A i \in 1 .. Len(out) : ReadFrom(v, IdsAt(v)[i], out[i], steady, written, stored)

Complete(b, versions, all) ==
    /\ \E passphrase \in LongPhrases :
        Decrypts(b.box, BundleKey(passphrase, b.vid), BundleAad(b.vid))
    /\ \E v \in versions :
        /\ v.header.vid = b.vid
        /\ \E id \in Bijection(DOMAIN b.box.msg, LiveIds(v)) :
            \A i \in DOMAIN id : ReadFrom(v, id[i], b.box.msg[i], b.steady, versions, all)

\* A bundle is complete from the moment export has sealed it.
BundleInv ==
    /\ AtStep("export", "work") \/ AtStep("export", "read") => cmd.text \in LongPhrases
    /\ AtStep("export", "read") => \E v : Reading(v)
    /\ AtStep("export", "claim") \/ AtStep("export", "write") => Complete(out, written, stored)
    /\ bundle \notin {NoBundle, TornBundle} => Complete(bundle, written, stored)

\* Nothing written or stored is forgotten.
LEMMA HistoriesGrow ==
    ASSUME VaultStep
    PROVE  written \subseteq written' /\ stored \subseteq stored'
<1>1. ASSUME NEW c, Mutates(c) PROVE written \subseteq written' /\ stored \subseteq stored'
    BY <1>1 DEF Mutates, AddItem, DeleteItem, UpdateItem, RewriteVault, Prepare, Stores
<1>2. CASE ChangeFile
    BY <1>2 DEF ChangeFile, Remove, Restore, MixHeader, MixSection, MixFrame, Outside
<1> QED BY <1>1, <1>2 DEF VaultStep, CreateVault, Unlock, Replace, Write, Quiet

LEMMA ReadFromStays ==
    ASSUME NEW versions, NEW more, versions \subseteq more, NEW all, NEW others, all \subseteq others,
           NEW same, NEW still, still => same, NEW v, NEW rid, NEW secret,
           ReadFrom(v, rid, secret, same, versions, all)
    PROVE  ReadFrom(v, rid, secret, still, more, others)
BY DEF ReadFrom

LEMMA CompleteStays ==
    ASSUME VaultStep, NEW b, Complete(b, written, stored)
    PROVE  Complete(b, written', stored')
<1>1. PICK v \in written :
        /\ v.header.vid = b.vid
        /\ \E id \in Bijection(DOMAIN b.box.msg, LiveIds(v)) :
            \A i \in DOMAIN id : ReadFrom(v, id[i], b.box.msg[i], b.steady, written, stored)
    BY DEF Complete
<1>2. v \in written'
    BY HistoriesGrow
<1>3. \A rid, secret : ReadFrom(v, rid, secret, b.steady, written, stored)
                       => ReadFrom(v, rid, secret, b.steady, written', stored')
    BY HistoriesGrow, ReadFromStays
<1> QED BY <1>1, <1>2, <1>3 DEF Complete

\* What a step does to a running export.
LEMMA ExportKinds ==
    ASSUME MapsTyped, [Next]_vars
    PROVE  \/ ExportCommand \/ ExportList \/ ExportItem \/ ExportSeal \/ ClaimOutput \/ WriteOutput
           \/ cmd'.name # "export" /\ bundle' = bundle
           \/ /\ UNCHANGED <<cmd, out, queue, bundle, session[Cli]>>
              /\ AtStep("export", "read") /\ steady' => steady /\ file' = file
<1>1. CASE AddCommand \/ ListCommand \/ GetCommand \/ ImportCommand \/ InitCommand
    BY <1>1 DEF AddCommand, ListCommand, GetCommand, ImportCommand, InitCommand, UnlockSession,
                Command, Report
<1>2. CASE AddLoad \/ AddReplace \/ ListWork \/ GetWork
    BY <1>2 DEF AddLoad, AddReplace, ListWork, GetWork, AtStep, GoTo, Report, Command
<1>3. CASE ImportWork \/ ImportLoad \/ ImportReplace \/ ImportDone
    BY <1>3 DEF ImportWork, ImportLoad, ImportReplace, ImportDone, AtStep, Report, Command, commandVars
<1>4. CASE End
    BY <1>4 DEF End, Idle, Command
<1>5. CASE OtherCall
    <2>1. PICK c \in Clients \ {Cli} : CoreCall(c)
        BY <1>5 DEF OtherCall
    <2>2. UNCHANGED <<cmd, out, queue, bundle, steady>>
        BY <1>5 DEF OtherCall, commandVars, histories
    <2>3. session'[Cli] = session[Cli] /\ file' = file
        <3>1. ASSUME Mutates(c) PROVE session' = session /\ file' = file
            BY <3>1 DEF Mutates, AddItem, UpdateItem, DeleteItem, RewriteVault, Prepare
        <3>2. CASE (\E password \in Passwords : Unlock(c, password)) \/ LockVault(c) \/ GiveUp(c)
            BY <2>1, <3>2, LinesAssumption DEF Unlock, LockVault, GiveUp, MapsTyped
        <3> QED BY <2>1, <3>1, <3>2 DEF CoreCall, Mutates
    <2> QED BY <2>2, <2>3
<1>6. CASE OtherReplace
    BY <1>6 DEF OtherReplace, Replace, NotesChange, commandVars
<1>7. CASE FileChanges
    BY <1>7 DEF FileChanges, ChangeFile, Remove, Restore, MixHeader, MixSection, MixFrame, Outside,
                NotesChange, commandVars
<1>8. CASE UNCHANGED vars
    BY <1>8 DEF vars, sealedVars, commandVars, histories
<1> QED BY <1>1, <1>2, <1>3, <1>4, <1>5, <1>6, <1>7, <1>8 DEF Next

LEMMA ReadingStays ==
    ASSUME VaultStep, NEW v, Reading(v), UNCHANGED <<out, queue, session[Cli]>>,
           steady' => steady /\ file' = file
    PROVE  Reading(v)'
<1>1. written \subseteq written' /\ stored \subseteq stored'
    BY HistoriesGrow
<1>2. \A rid, secret : ReadFrom(v, rid, secret, steady, written, stored)
                       => ReadFrom(v, rid, secret, steady', written', stored')
    BY <1>1, ReadFromStays
<1>3. \A i \in 1 .. Len(out) : ReadFrom(v, IdsAt(v)[i], out[i], steady', written', stored')
    BY <1>2 DEF Reading
<1> QED BY <1>1, <1>3 DEF Reading

\* The listed version has the table that was loaded.
LEMMA ListReads ==
    ASSUME VaultInv, ExportList
    PROVE  \E v : Reading(v)'
<1>1. /\ Loads(file, session[Cli]) /\ queue' = IdsAt(file) /\ out' = <<>> /\ steady' = TRUE
      /\ file' = file /\ session' = session /\ written' = written
    BY DEF ExportList, Lists, sealedVars
<1>2. PICK v \in written : file.table = v.table /\ v.header.vid = session[Cli].vid
    BY <1>1, LoadedVersion, LinesAssumption DEF VaultInv
<1>3. IdsAt(v) = IdsAt(file)
    BY <1>2 DEF IdsAt, LiveAt
<1>4. IdsAt(v) \in Seq(Nat)
    BY IdsOnce DEF VaultInv, ContentInv, GoodContent, Files
<1>5. Len(<<>>) = 0 /\ <<>> \in Seq({}) /\ Len(IdsAt(v)) \in Nat
    BY <1>4
<1> HIDE DEF Reading
<1>6. Reading(v)'
    BY <1>1, <1>2, <1>3, <1>4, <1>5 DEF Reading
<1> QED BY <1>6

\* with_item shows the first item of the queue as some version of the vault has it.
LEMMA ItemReads ==
    ASSUME VaultInv, NEW v, Reading(v), ExportItem
    PROVE  Reading(v)'
<1> DEFINE s == session[Cli]
           ids == IdsAt(v)
           m == Len(out)
<1>0. Cli \in Clients /\ SessionInv /\ ContentInv
    BY LinesAssumption DEF VaultInv
<1>1. PICK k \in ReadableAt(file, s) :
        file.table.msg[k].rid = Head(queue) /\ out' = Append(out, file.frames[k].payload.msg)
    BY DEF ExportItem
<1>2. /\ Loads(file, s) /\ queue # <<>> /\ queue' = Tail(queue)
      /\ UNCHANGED <<file, session, written, stored, steady>>
    BY DEF ExportItem, sealedVars, histories
<1> DEFINE secret == file.frames[k].payload.msg
<1>3. /\ queue \in Seq(Nat) /\ m + Len(queue) = Len(ids)
      /\ \A i \in 1 .. Len(queue) : queue[i] = ids[m + i]
      /\ \A i \in 1 .. m : ReadFrom(v, ids[i], out[i], steady, written, stored)
    BY DEF Reading
<1>4. /\ Len(queue) \in Nat \ {0} /\ Head(queue) = queue[1]
      /\ Len(Tail(queue)) = Len(queue) - 1 /\ Tail(queue) \in Seq(Nat)
      /\ \A i \in 1 .. Len(Tail(queue)) : Tail(queue)[i] = queue[i + 1]
    BY <1>2, <1>3
<1>5. file.table.msg[k].rid = ids[m + 1]
    BY <1>1, <1>3, <1>4
<1>6. ReadFrom(v, ids[m + 1], secret, steady, written, stored)
    <2> DEFINE x == StoredAt(file, s.vid, k)
    <2>1. /\ x \in stored /\ x.vid = s.vid /\ x.rid = ids[m + 1] /\ x.secret = secret
          /\ [rid |-> x.rid, rev |-> x.rev] \in LiveRevisions(file)
        <3>1. x \in stored
            BY <1>0, <1>2, ReadIsStored
        <3>2. k \in LiveAt(file)
            BY DEF ReadableAt
        <3> QED BY <1>5, <3>1, <3>2 DEF StoredAt, LiveRevisions
    <2>2. PICK g \in written : file.table = g.table /\ g.header.vid = s.vid
        BY <1>0, <1>2, LoadedVersion
    <2>3. v \in written /\ v.header.vid = s.vid /\ (steady => file.table = v.table)
        BY DEF Reading
    <2>4. \A w : file.table = w.table => LiveRevisions(w) = LiveRevisions(file)
        BY DEF LiveRevisions, LiveAt
    <2> HIDE DEF x, ids, m, secret
    <2>5. CASE steady
        BY <2>1, <2>3, <2>4, <2>5 DEF ReadFrom
    <2>6. CASE ~steady
        BY <2>1, <2>2, <2>3, <2>4, <2>6 DEF ReadFrom
    <2> QED BY <2>5, <2>6
<1> HIDE DEF secret, ids, s
<1>7. out' = Append(out, secret)
    BY <1>1 DEF secret
<1>8. PICK S : out \in Seq(S)
    BY DEF Reading
<1>9. /\ m \in Nat /\ Len(out') = m + 1 /\ out'[m + 1] = secret
      /\ \A i \in 1 .. m : out'[i] = out[i]
      /\ out' \in Seq(S \cup {secret})
    <2>1. out \in Seq(S \cup {secret})
        BY <1>8, SeqMonotone
    <2>2. m \in Nat /\ DOMAIN out = 1 .. m
        BY <1>8
    <2> QED BY <1>7, <2>1, <2>2
<1> HIDE DEF m
<1>10. Len(out') + Len(queue') = Len(ids)
    BY <1>2, <1>3, <1>4, <1>9
<1>11. ASSUME NEW i \in 1 .. Len(queue') PROVE queue'[i] = ids[Len(out') + i]
    <2>1. i + 1 \in 1 .. Len(queue) /\ m + (i + 1) = (m + 1) + i
        BY <1>2, <1>4, <1>9
    <2>2. queue'[i] = queue[i + 1]
        BY <1>2, <1>4
    <2>3. queue[i + 1] = ids[m + (i + 1)]
        BY <1>3, <2>1
    <2> QED BY <1>9, <2>1, <2>2, <2>3
<1>12. ASSUME NEW i \in 1 .. Len(out') PROVE ReadFrom(v, ids[i], out'[i], steady, written, stored)
    <2>1. CASE i = m + 1
        BY <1>6, <1>9, <2>1
    <2>2. CASE i # m + 1
        <3>1. i \in 1 .. m /\ out'[i] = out[i]
            BY <1>9, <2>2
        <3> QED BY <1>3, <3>1
    <2> QED BY <2>1, <2>2
<1>13. queue' \in Seq(Nat)
    BY <1>2, <1>4
<1> QED BY <1>2, <1>9, <1>10, <1>11, <1>12, <1>13 DEF Reading, ids

\* With nothing left to read the bundle has a secret for every item.
LEMMA SealComplete ==
    ASSUME VaultInv, BundleInv, NEW v, Reading(v), ExportSeal
    PROVE  Complete(out', written, stored)
<1> DEFINE vid == session[Cli].vid
           b == Bundle(cmd.text, vid, out)
<1>1. out' = b /\ queue = <<>> /\ cmd.text \in LongPhrases
    BY DEF ExportSeal, BundleInv
<1>2. /\ b.vid = vid /\ b.box.msg = out /\ b.steady = steady
      /\ Decrypts(b.box, BundleKey(cmd.text, vid), BundleAad(vid))
    BY DEF Bundle, Encrypt, Decrypts
<1> HIDE DEF b
<1>3. IdsAt(v) \in Seq(Nat) /\ IdsAt(v) \in Bijection(DOMAIN IdsAt(v), LiveIds(v))
    BY IdsOnce DEF Reading, VaultInv, ContentInv, GoodContent, Files
<1>4. /\ DOMAIN out = DOMAIN IdsAt(v) /\ DOMAIN out = 1 .. Len(out)
      /\ v \in written /\ v.header.vid = vid
      /\ \A i \in 1 .. Len(out) : ReadFrom(v, IdsAt(v)[i], out[i], steady, written, stored)
    <2>1. Len(queue) = 0
        BY <1>1
    <2>2. PICK S : out \in Seq(S)
        BY DEF Reading
    <2>3. Len(out) \in Nat /\ DOMAIN out = 1 .. Len(out)
        BY <2>2
    <2>4. Len(IdsAt(v)) \in Nat /\ DOMAIN IdsAt(v) = 1 .. Len(IdsAt(v))
        BY <1>3
    <2>5. Len(out) = Len(IdsAt(v))
        BY <2>1, <2>3, <2>4 DEF Reading
    <2> QED BY <2>3, <2>4, <2>5 DEF Reading
<1>5. \E id \in Bijection(DOMAIN b.box.msg, LiveIds(v)) :
        \A i \in DOMAIN id : ReadFrom(v, id[i], b.box.msg[i], b.steady, written, stored)
    BY <1>2, <1>3, <1>4
<1> QED BY <1>1, <1>2, <1>4, <1>5 DEF Complete

LEMMA BundleStep ==
    ASSUME VaultInv, BundleInv, [Next]_vars
    PROVE  BundleInv'
<1>1. VaultStep
    BY CommandStepKind DEF VaultInv, SessionInv
<1>2. \A b : Complete(b, written, stored) => Complete(b, written', stored')
    BY <1>1, CompleteStays
<1>3. CASE ExportCommand
    <2>1. PICK password \in Lines, passphrase \in LongPhrases :
            UnlockSession("export", password, passphrase)
        BY <1>3 DEF ExportCommand
    <2>2. cmd' = Command("export", "work", passphrase) /\ bundle' = bundle
        BY <2>1 DEF UnlockSession
    <2> QED BY <1>2, <2>2 DEF BundleInv, AtStep, Command
<1>4. CASE ExportList
    <2>1. cmd' = Command("export", "read", cmd.text) /\ bundle' = bundle /\ AtStep("export", "work")
        BY <1>4 DEF ExportList, GoTo, AtStep
    <2>2. \E v : Reading(v)'
        BY <1>4, ListReads
    <2> QED BY <1>2, <2>1, <2>2 DEF BundleInv, AtStep, Command
<1>5. CASE ExportItem
    <2>1. cmd' = cmd /\ bundle' = bundle /\ AtStep("export", "read")
        BY <1>5 DEF ExportItem
    <2>2. PICK v : Reading(v)
        BY <2>1 DEF BundleInv
    <2>3. Reading(v)'
        BY <1>5, <2>2, ItemReads
    <2> QED BY <1>2, <2>1, <2>3 DEF BundleInv, AtStep
<1>6. CASE ExportSeal
    <2>1. cmd' = Command("export", "claim", cmd.text) /\ bundle' = bundle /\ AtStep("export", "read")
        BY <1>6 DEF ExportSeal, GoTo, AtStep
    <2>2. PICK v : Reading(v)
        BY <2>1 DEF BundleInv
    <2>3. Complete(out', written, stored)
        BY <1>6, <2>2, SealComplete
    <2> QED BY <1>2, <2>1, <2>3 DEF BundleInv, AtStep, Command
<1>7. CASE ClaimOutput
    <2>1. /\ cmd' = Command("export", "write", cmd.text) /\ bundle' = TornBundle /\ out' = out
          /\ AtStep("export", "claim")
        BY <1>7 DEF ClaimOutput, GoTo, AtStep
    <2> QED BY <1>2, <2>1 DEF BundleInv, AtStep, Command
<1>8. CASE WriteOutput
    <2>1. cmd' = Command("none", "print", EmptyLine) /\ bundle' = out /\ AtStep("export", "write")
        BY <1>8 DEF WriteOutput, Report
    <2> QED BY <1>2, <2>1 DEF BundleInv, AtStep, Command
<1>9. CASE cmd'.name # "export" /\ bundle' = bundle
    BY <1>2, <1>9 DEF BundleInv, AtStep
<1>10. CASE /\ UNCHANGED <<cmd, out, queue, bundle, session[Cli]>>
            /\ AtStep("export", "read") /\ steady' => steady /\ file' = file
    <2>1. AtStep("export", "read") => \E v : Reading(v)'
        <3> SUFFICES ASSUME AtStep("export", "read") PROVE \E v : Reading(v)'
            OBVIOUS
        <3>1. PICK v : Reading(v)
            BY DEF BundleInv
        <3>2. Reading(v)'
            BY <1>1, <1>10, <3>1, ReadingStays
        <3> QED BY <3>2
    <2> QED BY <1>2, <1>10, <2>1 DEF BundleInv, AtStep
<1> QED BY <1>3, <1>4, <1>5, <1>6, <1>7, <1>8, <1>9, <1>10, ExportKinds DEF VaultInv, SessionInv

\* A finished bundle has, for each live item of the version of the vault that export
\* listed, one secret that some version of the vault shows for that item, whatever files
\* and clients did between the loads: no item of the list is dropped or exchanged for
\* another; and it is that version alone if the file did not change while it was read.
THEOREM BundleIsComplete == Spec => []BundleComplete
<1> DEFINE Inv == VaultInv /\ BundleInv
<1>1. Init => Inv
    BY InitVaultInv DEF Init, BundleInv, AtStep, Idle, Command
<1>2. Inv /\ [Next]_vars => Inv'
    BY VaultStepInv, BundleStep
<1>3. Inv => BundleComplete
    <2> SUFFICES ASSUME BundleInv, bundle \notin {NoBundle, TornBundle} PROVE BundleComplete
        BY DEF BundleComplete
    <2>1. Complete(bundle, written, stored)
        BY DEF BundleInv
    <2>2. \E passphrase \in LongPhrases : BundleOpens(passphrase)
        BY <2>1, LinesAssumption DEF Complete, BundleOpens
    <2> QED BY <2>1, <2>2 DEF BundleComplete, Complete, ReadFrom
<1> QED BY <1>1, <1>2, <1>3, PTL DEF Spec
=============================================================================
