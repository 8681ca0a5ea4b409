CONSTANTS
    Hashes <- MCHashes
    ZeroHash = 0
    Zeros = 1
    InputChains <- MCInputChains
SPECIFICATION FairSpec
INVARIANTS
    TypeOK
    VerdictCorrect
    FirstInvalidIsFirst
PROPERTY VerifyTerminates
