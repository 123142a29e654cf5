---------------------------- MODULE ReplayGuard -----------------------------
(***************************************************************************)
(* What replay protection promises to a recipient, without store files,    *)
(* eviction, serialization or the order of a receive's steps.  An id whose *)
(* message was authenticated is accepted in one step, if it is live at     *)
(* that moment and was never handed out; what is accepted is handed out or *)
(* given up.  The guard may close, when a receive records what it accepts, *)
(* and then accepts nothing more: it fails closed and does not forget.     *)
(***************************************************************************)
EXTENDS Naturals

CONSTANTS Recipients, Ids, Deadline, Nothing

VARIABLES
    now,
    opened,     \* ids of which an authentic message was opened
    held,       \* the id each recipient has accepted and not handed out
    taken,      \* ids whose payload was handed out
    closed      \* nothing is accepted any more

gvars == <<now, opened, held, taken, closed>>

Current(e) == Deadline[e] = 0 \/ Deadline[e] > now

GuardInit ==
    /\ now = 0
    /\ opened = {}
    /\ held = [r \in Recipients |-> Nothing]
    /\ taken = {}
    /\ closed = FALSE

Authenticate ==
    /\ \E e \in Ids : Current(e) /\ opened' = opened \cup {e}
    /\ UNCHANGED <<now, held, taken, closed>>

Accept(r) ==
    /\ ~closed
    /\ held[r] = Nothing
    /\ \E e \in opened \ taken : Current(e) /\ held' = [held EXCEPT ![r] = e]
    /\ UNCHANGED <<now, opened, taken, closed>>

\* Recording what was accepted may close the guard, to the holder as to all.
CloseAfter(r) ==
    /\ held[r] # Nothing
    /\ closed' = TRUE
    /\ UNCHANGED <<now, opened, held, taken>>

GiveUp(r) ==
    /\ held[r] # Nothing
    /\ held' = [held EXCEPT ![r] = Nothing]
    /\ closed' \in {closed, TRUE}
    /\ UNCHANGED <<now, opened, taken>>

HandOut(r) ==
    /\ held[r] \notin taken \cup {Nothing}
    /\ taken' = taken \cup {held[r]}
    /\ held' = [held EXCEPT ![r] = Nothing]
    /\ UNCHANGED <<now, opened, closed>>

Elapse == now' = now + 1 /\ UNCHANGED <<opened, held, taken, closed>>

GuardNext ==
    \/ \E r \in Recipients : Accept(r) \/ CloseAfter(r) \/ GiveUp(r) \/ HandOut(r)
    \/ Authenticate \/ Elapse

GuardSpec == GuardInit /\ [][GuardNext]_gvars
=============================================================================
