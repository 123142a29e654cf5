SPECIFICATION EitherSpec
CONSTANTS
    WrkEnd = 400
    SecretLens <- ReadableSecrets
    MaxSecretLen = 65536
    MaxVaultFileLen = 67108864
    MaxRecords = 5
    MaxWrites = 7
    HexDigits = 3
    Opaque = 1
    PqcLen = 2
    MaxList = 3
    MaxText = 4
    MinMCost = 64
    MaxMCost = 256
    TwiceDamaged <- SmallFormats
INVARIANTS TableOpens FramesIntact WrittenItemsReadable RoundTrip TornRejected Canonical TornText
