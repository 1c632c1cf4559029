SPECIFICATION FairSpec
CONSTANTS
    NSecrets = 2
INVARIANTS
    WipedAtExit
    HeldOnlyWhileNeeded
    ChildSeesWhole
PROPERTIES
    
    SignalEnds
CHECK_DEADLOCK FALSE
