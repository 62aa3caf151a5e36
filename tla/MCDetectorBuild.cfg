CONSTANTS
    Builds <- MCBuilds
    MaxTries = 2
SPECIFICATION Spec
INVARIANTS
    VolumesDoNotOverlap
    ReferencesResolve
    ChannelsAreDistinct
    CherenkovChannelsAreWhole
    BankIsWhole
CHECK_DEADLOCK FALSE
