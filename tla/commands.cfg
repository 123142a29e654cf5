SPECIFICATION Spec
CONSTANTS
    Passwords <- MCPasswords
    Passphrases <- MCPassphrases
    LongPhrases <- MCLongPhrases
    Secrets <- MCSecrets
    Cli = cli
    Clients = {cli, other}
    MaxDraws = 4
    MaxChanges = 1
    NoFile = NoFile
    NoSession = NoSession
    NoBundle = NoBundle
    TornBundle = TornBundle
INVARIANTS SessionIsGenuine ReadsOneVersion KeptRetrievable BundleComplete
PROPERTY WriteKeepsOthers
CHECK_DEADLOCK FALSE
