SPECIFICATION Spec
CONSTANTS
    Ids = {1, 2}
    MaxRev = 1
    MaxExportItemCount = 3
    MaxImports = 1
    WriterActive = FALSE
    AddFailures <- BothFailures
INVARIANT ImportAllOrNothing
CHECK_DEADLOCK FALSE
