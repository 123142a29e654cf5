SPECIFICATION Spec
CONSTANTS
    WrkEnd = 400
    SecretLens <- OversizedSecret
    MaxSecretLen = 65536
    MaxVaultFileLen = 67108864
    MaxRecords = 2
    MaxWrites = 2
INVARIANT WrittenItemsReadable
