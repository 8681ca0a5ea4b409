SPECIFICATION FairSpec
CONSTANTS
    Base = 7
    SigSize = 2
    Messages <- MCMessages
    Chains <- MCChains
INVARIANTS
    TypeOK
    
    WholeIsAccepted
    NoDecoderLeak
PROPERTIES
    SentIsHandled
CHECK_DEADLOCK FALSE
