SPECIFICATION Spec
CONSTANTS
    p1 = p1
    p2 = p2
    Procs = {p1}
    MaxCalls = 5
    Faults <- AllFaults
    Crashes <- BothCrashes
INVARIANTS TypeOK AckedDurable
PROPERTY ImplementsAtomicVault
CHECK_DEADLOCK FALSE
