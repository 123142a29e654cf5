------------------------------ MODULE MCFormats -----------------------------
(***************************************************************************)
(* Model-checking instance of the two modules about file formats side by   *)
(* side: RecordTable, where a rewritten vault puts its table and frames,   *)
(* and FileFormats, how every file is written and parsed.  They share no   *)
(* state, so a behaviour is one of the first or one of the second.         *)
(***************************************************************************)
EXTENDS RecordTable, FileFormats

VARIABLE part       \* the module this behaviour is of

\* Both ends of the lengths deserialize_item_payload accepts.
ReadableSecrets == {0, MaxSecretLen}

\* The formats small enough to try every pair of a changed byte and a new end.
SmallFormats == Formats \ {"vault", "bundle", "text"}

LayoutStep == part = "layout" /\ Next /\ UNCHANGED <<formatVars, part>>
FormatStep == part = "formats" /\ FormatNext /\ UNCHANGED <<vars, part>>

EitherInit ==
    /\ Init /\ FormatInit
    /\ part \in {"layout", "formats"}
    /\ part = "layout" =>
        format = "item" /\ written = CHOOSE v \in Values("item") : v.secret = <<>>

EitherSpec == EitherInit /\ [][LayoutStep \/ FormatStep]_<<vars, formatVars, part>>
=============================================================================
