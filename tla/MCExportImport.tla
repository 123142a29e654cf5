--------------------------- MODULE MCExportImport ---------------------------
(***************************************************************************)
(* Model-checking instances of ExportImport.                               *)
(***************************************************************************)
EXTENDS ExportImport

BeforeRename == {"before"}
BothFailures == {"before", "after"}
NoFailures == {}
=============================================================================
