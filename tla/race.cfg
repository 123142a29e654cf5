SPECIFICATION Spec
CONSTANTS
    p1 = p1
    p2 = p2
    Procs = {p1, p2}
    MaxCalls = 4
    Faults <- AllButDirSync
    Crashes <- KillOnly
INVARIANT NoTornVault
PROPERTIES TempsPrivate VaultNeverReplaced ClaimEndsByOwner ImplementsSharedVault
CHECK_DEADLOCK FALSE
