---------------------------- MODULE AtomicVault -----------------------------
(***************************************************************************)
(* What one user of the vault is promised, without temp files or system    *)
(* calls: the vault at the path is reserved, created, and then changes one *)
(* record at a time, each change a legal revision of that record, applied  *)
(* to the vault as it is now.  `stable` is the set of vaults a power loss  *)
(* may leave; it only ever holds the vault of the last completed sync and  *)
(* the states since.                                                       *)
(***************************************************************************)
EXTENDS VaultImage

VARIABLES vault, stable

avars == <<vault, stable>>

AbstractInit == vault = Absent /\ stable = {Absent}

Become(img) == vault' = img /\ stable' = stable \cup {img}

Reserve == vault.kind = "absent" /\ Become(Empty)

Fill == vault.kind = "empty" /\ \E n \in Calls : Become(NewVault(n))

\* Only a create() that failed takes the path away, and only with no record in it.
Discard == vault.recs = EmptyTable /\ Become(Absent)

Revise ==
    /\ vault.kind = "vault"
    /\ \E id \in Calls, rec \in Record :
        /\ LegalRevision(vault.recs[id], rec)
        /\ Become(StageRecord(vault, id, rec))

Sync == stable' = {vault} /\ UNCHANGED vault

Lose == vault' \in stable /\ stable' = {vault'}

AbstractNext == Reserve \/ Fill \/ Discard \/ Revise \/ Sync \/ Lose

AbstractSpec == AbstractInit /\ [][AbstractNext]_avars
=============================================================================
