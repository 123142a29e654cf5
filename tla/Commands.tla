------------------------------ MODULE Commands ------------------------------
(***************************************************************************)
(* The one-shot vault commands of the command line program (main.rs):      *)
(* init, add, list, get, export and import.  A command prompts, unlocks,   *)
(* makes its core calls and prints; then the process and its keys are      *)
(* gone.  Between any two loads of the file, and between a load and the    *)
(* rename that follows it, the file may change from outside and another    *)
(* client of the core library may work on the vault.  System calls fail in *)
(* VaultStore and ExportImport only, where the rollback of import is.      *)
(*                                                                         *)
(* The remaining commands touch no vault: lock only prints, device list    *)
(* and revoke only fail; pairing and transfer are in DeviceTransfer and    *)
(* TransferReceive.  An argument that does not parse ends a command before *)
(* anything happens, so such a call is a stutter.                          *)
(***************************************************************************)
EXTENDS SealedVault, Functions

CONSTANTS
    Cli,            \* the client that runs the commands
    Passphrases,    \* non-empty passphrases of bundles
    LongPhrases,    \* those of at least 12 characters
    NoBundle,       \* nothing at the output path of an export
    TornBundle      \* the file an export created and did not finish

\* At the end of the input read_line returns an empty line.
EmptyLine == ""

ASSUME LinesAssumption == /\ Cli \in Clients
                          /\ LongPhrases \subseteq Passphrases
                          /\ EmptyLine \notin Passwords \cup Passphrases

VARIABLES
    cmd,        \* the running command: name, next step, secret or passphrase
    out,        \* export: the secrets read so far, then the bundle in memory
    queue,      \* export: items still to read; import: secrets still to add
    bundle,     \* the bundle file
    kept,       \* history: what adds stored since the file last changed from outside
    steady      \* history: the file is still the one the running export listed

commandVars == <<cmd, out, queue, bundle>>
histories == <<kept, steady>>
vars == <<sealedVars, commandVars, histories>>

Lines == Passwords \cup {EmptyLine}
PhraseLines == Passphrases \cup {EmptyLine}

Command(name, pc, text) == [name |-> name, pc |-> pc, text |-> text]
Idle == Command("none", "idle", EmptyLine)
AtStep(name, pc) == cmd.name = name /\ cmd.pc = pc
GoTo(pc) == cmd' = Command(cmd.name, pc, cmd.text)
\* What is left to do is to print; the typed lines are gone.
Report == cmd' = Command("none", "print", EmptyLine)

Init ==
    /\ SealedInit
    /\ cmd = Idle /\ out = NoBundle /\ queue = <<>>
    /\ bundle = NoBundle
    /\ kept = {} /\ steady = TRUE

-----------------------------------------------------------------------------
(***************************************************************************)
(* A command starts with its prompts, which touch no file, and, but for    *)
(* init, unlock_session: one step.  A check or an unlock that fails ends   *)
(* it with nothing changed.                                                *)
(***************************************************************************)
\* unlock_session; unlock rejects an empty password.
UnlockSession(name, password, text) ==
    /\ cmd.pc = "idle"
    /\ password # EmptyLine
    /\ Unlock(Cli, password)
    /\ cmd' = Command(name, "work", text)
    /\ UNCHANGED <<out, queue, bundle, histories>>

AddCommand ==
    \E password \in Lines, secret \in Secrets[draws + 1] : UnlockSession("add", password, secret)

ListCommand == \E password \in Lines : UnlockSession("list", password, EmptyLine)

GetCommand == \E password \in Lines : UnlockSession("get", password, EmptyLine)

\* The length of the passphrase is checked before the vault is opened.
ExportCommand ==
    \E password \in Lines, passphrase \in LongPhrases : UnlockSession("export", password, passphrase)

ImportCommand ==
    \E password \in Lines, passphrase \in PhraseLines : UnlockSession("import", password, passphrase)

\* The confirmation must repeat the password.
InitCommand ==
    /\ cmd.pc = "idle"
    /\ \E password, confirm \in Lines :
        /\ password = confirm /\ password # EmptyLine
        /\ CreateVault(password)
    /\ Report
    /\ UNCHANGED <<out, queue, bundle, histories>>

-----------------------------------------------------------------------------
(***************************************************************************)
(* Core calls.                                                             *)
(***************************************************************************)
AddLoad ==
    /\ AtStep("add", "work")
    /\ AddItem(Cli, cmd.text)
    /\ GoTo("rename")
    /\ UNCHANGED <<out, queue, bundle, histories>>

\* An add into a file that its password unlocks can be relied on.
Keeps(secret) ==
    LET a == [password |-> session[Cli].password, rid |-> call[Cli].target, secret |-> secret]
    IN  kept' = IF Unlockable(call[Cli].loaded, a.password) THEN kept \cup {a} ELSE kept

AddReplace ==
    /\ AtStep("add", "rename")
    /\ Replace(Cli)
    /\ Keeps(cmd.text)
    /\ Report
    /\ UNCHANGED <<out, queue, bundle, steady>>

ListWork ==
    /\ AtStep("list", "work")
    /\ Lists(file, session[Cli])
    /\ Report
    /\ UNCHANGED <<sealedVars, out, queue, bundle, histories>>

GetWork ==
    /\ AtStep("get", "work")
    /\ Loads(file, session[Cli])
    /\ ReadableAt(file, session[Cli]) # {}
    /\ Report
    /\ UNCHANGED <<sealedVars, out, queue, bundle, histories>>

-----------------------------------------------------------------------------
(***************************************************************************)
(* Bundles.  The bundle key comes from the same password function as the   *)
(* master unlock key, but is expanded with its own info string.            *)
(***************************************************************************)
BundleKey(passphrase, vid) ==
    <<"bundle", MasterUnlockKey(passphrase, vid, CanonicalKdf)>>

BundleAad(vid) == <<"msexp", vid>>

\* The ids of the live items, in the order of the table.
IdsAt(f) ==
    LET live == LiveAt(f)
        nth(i) == CHOOSE k \in live : Cardinality({j \in live : j < k}) = i - 1
    IN  [i \in 1 .. Cardinality(live) |-> f.table.msg[nth(i)].rid]

\* The last field is a history: the items were read from one unchanged file.
Bundle(passphrase, vid, secrets) ==
    [vid |-> vid, box |-> Encrypt(BundleKey(passphrase, vid), BundleAad(vid), secrets),
     steady |-> steady]

\* list: one item that cannot be read makes export fail.
ExportList ==
    /\ AtStep("export", "work")
    /\ cmd.text # EmptyLine
    /\ Lists(file, session[Cli])
    /\ queue' = IdsAt(file) /\ out' = <<>>
    /\ steady' = TRUE
    /\ GoTo("read")
    /\ UNCHANGED <<sealedVars, bundle, kept>>

\* Bug form: an item that is no longer there is left out.
ExportItemOrSkip ==
    /\ AtStep("export", "read")
    /\ queue # <<>>
    /\ Loads(file, session[Cli])
    /\ LET found == {k \in ReadableAt(file, session[Cli]) : file.table.msg[k].rid = Head(queue)}
       IN  out' = IF found = {} THEN out
                  ELSE Append(out, file.frames[CHOOSE k \in found : TRUE].payload.msg)
    /\ queue' = Tail(queue)
    /\ UNCHANGED <<sealedVars, cmd, bundle, histories>>

\* with_item loads the file again, for every item.
ExportItem ==
    /\ AtStep("export", "read")
    /\ queue # <<>>
    /\ Loads(file, session[Cli])
    /\ \E k \in ReadableAt(file, session[Cli]) :
        /\ file.table.msg[k].rid = Head(queue)
        /\ out' = Append(out, file.frames[k].payload.msg)
    /\ queue' = Tail(queue)
    /\ UNCHANGED <<sealedVars, cmd, bundle, histories>>

ExportSeal ==
    /\ AtStep("export", "read")
    /\ queue = <<>>
    /\ out' = Bundle(cmd.text, session[Cli].vid, out)
    /\ GoTo("claim")
    /\ UNCHANGED <<sealedVars, queue, bundle, histories>>

\* create_new: an output that exists, torn or not, is never written over.
ClaimOutput ==
    /\ AtStep("export", "claim")
    /\ bundle = NoBundle
    /\ bundle' = TornBundle
    /\ GoTo("write")
    /\ UNCHANGED <<sealedVars, out, queue, histories>>

WriteOutput ==
    /\ AtStep("export", "write")
    /\ bundle' = out /\ out' = NoBundle
    /\ Report
    /\ UNCHANGED <<sealedVars, queue, histories>>

\* UntrustedExportBundle::authenticate
BundleOpens(passphrase) ==
    /\ bundle \notin {NoBundle, TornBundle}
    /\ passphrase # EmptyLine
    /\ Decrypts(bundle.box, BundleKey(passphrase, bundle.vid), BundleAad(bundle.vid))

ImportWork ==
    /\ AtStep("import", "work")
    /\ BundleOpens(cmd.text)
    /\ queue' = bundle.box.msg
    /\ cmd' = Command("import", "adding", EmptyLine)
    /\ UNCHANGED <<sealedVars, out, bundle, histories>>

ImportLoad ==
    /\ AtStep("import", "adding")
    /\ queue # <<>>
    /\ AddItem(Cli, Head(queue))
    /\ UNCHANGED <<commandVars, histories>>

ImportReplace ==
    /\ AtStep("import", "adding")
    /\ Replace(Cli)
    /\ Keeps(Head(queue))
    /\ queue' = Tail(queue)
    /\ UNCHANGED <<cmd, out, bundle, steady>>

ImportDone ==
    /\ AtStep("import", "adding")
    /\ queue = <<>>
    /\ Report
    /\ UNCHANGED <<sealedVars, out, queue, bundle, histories>>

-----------------------------------------------------------------------------
(***************************************************************************)
(* Every way a command ends: printed, failed at any step, killed.          *)
(***************************************************************************)
End ==
    /\ cmd.pc # "idle"
    /\ cmd' = Idle /\ out' = NoBundle /\ queue' = <<>>
    /\ session' = [session EXCEPT ![Cli] = NoSession]
    /\ call' = [call EXCEPT ![Cli] = NoCall]
    /\ steady' = TRUE
    /\ UNCHANGED <<file, draws, changes, created, written, stored, bundle, kept>>

\* Only a running export asks whether the file has changed under it.
NotesChange == steady' = (steady /\ (AtStep("export", "read") => file' = file))

\* Another client of the core library.
OtherCall ==
    /\ \E c \in Clients \ {Cli} : CoreCall(c)
    /\ UNCHANGED <<commandVars, histories>>

\* What stays to be relied on is what it loaded, but for the item it changed.
OtherReplace ==
    /\ \E c \in Clients \ {Cli} :
        LET old == call[c].loaded
        IN  /\ Replace(c)
            /\ kept' = {a \in kept : /\ a.rid # call[c].target
                                     /\ \E k \in LiveAt(old) : old.table.msg[k].rid = a.rid}
    /\ NotesChange
    /\ UNCHANGED commandVars

FileChanges == ChangeFile /\ kept' = {} /\ NotesChange /\ UNCHANGED commandVars

Next ==
    \/ InitCommand \/ AddCommand \/ ListCommand \/ GetCommand \/ ExportCommand \/ ImportCommand
    \/ AddLoad \/ AddReplace \/ ListWork \/ GetWork
    \/ ExportList \/ ExportItem \/ ExportSeal \/ ClaimOutput \/ WriteOutput
    \/ ImportWork \/ ImportLoad \/ ImportReplace \/ ImportDone
    \/ End \/ OtherCall \/ OtherReplace \/ FileChanges

Spec == Init /\ [][Next]_vars

-----------------------------------------------------------------------------
(***************************************************************************)
(* Properties.                                                             *)
(***************************************************************************)
\* What add or import has stored, in a vault its password unlocked, can be had back
\* with that password by any later command, wherever commands and clients are killed,
\* until the item is changed or deleted, the file is changed from outside, or another
\* client puts in its place the successor of a file it had loaded before the item was
\* there.  A client that loaded after costs nothing, nor does a later command that
\* loaded before some other client's rename.
KeptRetrievable ==
    \A a \in kept :
        /\ Unlockable(file, a.password)
        /\ \E k \in ReadableAt(file, [keys |-> SessionKeys(file)]) :
            ItemAt(file, k) = Item(a.rid, a.secret)

LiveIds(f) == {f.table.msg[k].rid : k \in LiveAt(f)}

\* A finished bundle holds one secret for every live item of one version of the vault it
\* names, the version that was listed: each a secret some version of this vault shows
\* for that item, and all of the listed version if the file did not change meanwhile.
\* The passphrase it needs is one of at least 12 characters.
BundleComplete ==
    bundle \notin {NoBundle, TornBundle} =>
        /\ \E passphrase \in LongPhrases : BundleOpens(passphrase)
        /\ \E v \in written :
            /\ v.header.vid = bundle.vid
            /\ \E id \in Bijection(DOMAIN bundle.box.msg, LiveIds(v)) :
                \A i \in DOMAIN id : \E x \in stored, w \in written :
                    /\ x.vid = bundle.vid /\ x.rid = id[i] /\ x.secret = bundle.box.msg[i]
                    /\ w.header.vid = bundle.vid
                    /\ bundle.steady => w = v
                    /\ [rid |-> x.rid, rev |-> x.rev] \in LiveRevisions(w)

=============================================================================
