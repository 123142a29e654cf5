SPECIFICATION FairSpec
CONSTANTS
    Ids = {1, 2, 3}
    MaxRev = 2
    MaxExportItemCount = 3
    MaxImports = 1
    WriterActive = TRUE
    AddFailures <- BeforeRename
INVARIANTS ImportAllOrNothing ImportLeavesStretch ExportSound
PROPERTIES ExportEnds ImportEnds
CHECK_DEADLOCK FALSE
