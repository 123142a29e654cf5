-------------------------- MODULE MCDeviceTransfer --------------------------
(***************************************************************************)
(* Model-checking instance of DeviceTransfer: two devices, one of which    *)
(* may pair a second time, with envelopes before and after.                *)
(***************************************************************************)
EXTENDS DeviceTransfer, TLC

CONSTANTS d1, d2    \* model values

Symmetry == Permutations({d1, d2})
=============================================================================
