-------------------------- MODULE AuthenticChannel --------------------------
(***************************************************************************)
(* What users who transfer secrets are promised, without headers, hashes,  *)
(* keys, signatures, files or replay stores.  A device holds at most one   *)
(* identity, one of its own, and trusts at most one, of another device.    *)
(* A secret sealed between the two identities a device knows can be taken  *)
(* until it expires, by a device that holds the one it was sealed for and  *)
(* trusts the one it is from, and by nobody again.  Whatever is sent in    *)
(* between has no other effect.                                            *)
(***************************************************************************)
EXTENDS Naturals, Sequences

CONSTANTS Devices, Expiries

VARIABLES
    now,
    owner,      \* device of each identity made so far
    identity,   \* the identity each device holds
    trusted,    \* the identity each device trusts
    messages,   \* secrets sealed so far
    taken       \* what was handed out, in order

users == <<owner, identity, trusted>>
mail == <<messages, taken>>
cvars == <<now, users, mail>>

NoIdentity == 0
Never == 0

Live(until) == until = Never \/ until > now

Mine(d) == {n \in DOMAIN owner : owner[n] = d}
Others(d) == {n \in DOMAIN owner : owner[n] # d}

ChannelInit ==
    /\ now = 0
    /\ owner = <<>>
    /\ identity = [d \in Devices |-> NoIdentity]
    /\ trusted = [d \in Devices |-> NoIdentity]
    /\ messages = <<>>
    /\ taken = <<>>

MakeIdentity(d) ==
    /\ owner' = Append(owner, d)
    /\ UNCHANGED <<now, identity, trusted, mail>>

\* Pairing, complete or not, changes one of the two at a time.
Hold(d) ==
    /\ \E n \in Mine(d) \cup {NoIdentity} : identity' = [identity EXCEPT ![d] = n]
    /\ UNCHANGED <<now, owner, trusted, mail>>

Trust(d) ==
    /\ \E n \in Others(d) \cup {NoIdentity} : trusted' = [trusted EXCEPT ![d] = n]
    /\ UNCHANGED <<now, owner, identity, mail>>

Seal(d) ==
    /\ identity[d] # NoIdentity /\ trusted[d] # NoIdentity
    /\ \E until \in Expiries \cup {Never} :
        /\ Live(until)
        /\ messages' = Append(messages, [from |-> identity[d], for |-> trusted[d], until |-> until])
    /\ UNCHANGED <<now, users, taken>>

Take(d) ==
    /\ \E n \in DOMAIN messages :
        /\ messages[n].for = identity[d] /\ messages[n].from = trusted[d]
        /\ Live(messages[n].until)
        /\ \A i \in DOMAIN taken : taken[i].message # n
        /\ taken' = Append(taken, [message |-> n, by |-> identity[d], from |-> trusted[d]])
    /\ UNCHANGED <<now, users, messages>>

Pass == now' = now + 1 /\ UNCHANGED <<users, mail>>

ChannelNext ==
    \/ \E d \in Devices : MakeIdentity(d) \/ Hold(d) \/ Trust(d) \/ Seal(d) \/ Take(d)
    \/ Pass

ChannelSpec == ChannelInit /\ [][ChannelNext]_cvars
=============================================================================
