CONSTANTS
    Hashes <- MCHashes
    ZeroHash = 0
    Zeros = 1
    InputChains <- MCInputChains
SPECIFICATION Spec
INVARIANT FirstInvalidFilled
