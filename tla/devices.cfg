SPECIFICATION Spec
SYMMETRY Symmetry
CONSTANTS
    d1 = d1
    d2 = d2
    Devices = {d1, d2}
    MaxIdentities = 3
    MaxEnvelopes = 2
    Expiries = {1, 2}
    MaxTime = 1
INVARIANTS DeviceTypeOK DeliveredAsCreated DeliveredOnce SharedIdentityHasKey PairedCanExchange
PROPERTY ImplementsAuthenticChannel
CHECK_DEADLOCK FALSE
