SPECIFICATION Spec
CONSTANTS
    Loads = {1, 2}
    Streams = {1, 2}
    Texts <- MCTexts
INVARIANTS
    LifecycleTypeOK
    NothingUsedIsFreed
    LifecycleIInv
    LeaksExactlyTheCycles
PROPERTY
    ConfigFreed
