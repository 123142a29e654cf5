SPECIFICATION Spec
CONSTANTS
    p1 = p1
    p2 = p2
    Procs = {p1}
    MaxCalls = 3
    Faults <- NoFaults
    Crashes <- BothCrashes
INVARIANT DeletedUnreadable
CHECK_DEADLOCK FALSE
