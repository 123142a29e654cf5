------------------------- MODULE MCTransferReceive --------------------------
(***************************************************************************)
(* Model-checking instances of TransferReceive.                            *)
(***************************************************************************)
EXTENDS TransferReceive

CONSTANTS r1, r2, s1, s2, e1, e2, e3    \* model values

\* One envelope that never expires, two that expire at different times.
MixedExpiry == [e \in Envelopes |-> CASE e = e1 -> 0 [] e = e2 -> 2 [] OTHER -> 3]

FaultAndKill == {"fault", "kill"}
AllAnomalies == {"fault", "kill", "power", "setback"}
NoAnomalies == {}
=============================================================================
