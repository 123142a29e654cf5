---------------------------- MODULE SharedVault ----------------------------
(***************************************************************************)
(* What several users of one vault path are promised, although nothing     *)
(* locks it.  A change is prepared against the vault as it is when the     *)
(* call loads it, is a legal revision of one record there, and is put in   *)
(* place whole, once, or never.  What others committed in between is       *)
(* overwritten with it; that is the only way to lose a change while power  *)
(* lasts.  A create reserves an absent path first, and if it fails it      *)
(* takes away what is at the path, whatever that is.                       *)
(***************************************************************************)
EXTENDS VaultImage

CONSTANT Users

VARIABLES
    vault,
    stable,     \* the vaults a power loss may leave
    call        \* what the call of each user is about to do

svars == <<vault, stable, call>>

NoCall == [does |-> "nothing", img |-> Absent]
Making(n) == [does |-> "make", img |-> NewVault(n)]
Editing(img) == [does |-> "edit", img |-> img]

\* A create after its attempt to make the vault: it may still fail.
Ending == [does |-> "withdraw", img |-> Absent]

Become(img) == vault' = img /\ stable' = stable \cup {img}

Now(u, does) == call' = [call EXCEPT ![u] = does]

SharedInit ==
    /\ vault = Absent
    /\ stable = {Absent}
    /\ call = [u \in Users |-> NoCall]

Reserve(u) ==
    /\ call[u] = NoCall /\ vault.kind = "absent"
    /\ Become(Empty)
    /\ \E n \in Calls : Now(u, Making(n))

Edit(u) ==
    /\ call[u] = NoCall /\ vault.kind = "vault"
    /\ \E id \in Calls, rec \in Record :
        /\ LegalRevision(vault.recs[id], rec)
        /\ Now(u, Editing(StageRecord(vault, id, rec)))
    /\ UNCHANGED <<vault, stable>>

Commit(u) ==
    /\ call[u].does \in {"make", "edit"}
    /\ Become(call[u].img)
    /\ Now(u, IF call[u].does = "make" THEN Ending ELSE NoCall)

GiveUp(u) ==
    /\ \/ Now(u, NoCall)
       \/ call[u].does = "make" /\ Now(u, Ending)
    /\ UNCHANGED <<vault, stable>>

Withdraw(u) ==
    /\ call[u] = Ending
    /\ Become(Absent)
    /\ Now(u, NoCall)

\* A call that has committed, or withdrawn nothing, returns with all that is there synced.
Sync(u) ==
    /\ call[u] \in {NoCall, Ending}
    /\ stable' = {vault}
    /\ Now(u, NoCall)
    /\ UNCHANGED vault

\* Power is lost, and with it every call.
Lose ==
    /\ vault' \in stable
    /\ stable' = {vault'}
    /\ call' = [u \in Users |-> NoCall]

SharedNext ==
    \/ \E u \in Users : Reserve(u) \/ Edit(u) \/ Commit(u) \/ GiveUp(u) \/ Withdraw(u) \/ Sync(u)
    \/ Lose

SharedSpec == SharedInit /\ [][SharedNext]_svars
=============================================================================
