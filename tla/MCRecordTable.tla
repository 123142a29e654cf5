---------------------------- MODULE MCRecordTable ---------------------------
(***************************************************************************)
(* Model-checking instance of RecordTable, with the format's own numbers. *)
(***************************************************************************)
EXTENDS RecordTable

\* One byte more than deserialize_item_payload accepts.
OversizedSecret == {0, MaxSecretLen + 1}
=============================================================================
