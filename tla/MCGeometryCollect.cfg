CONSTANTS
    Groups <- MCGroups
    Old <- MCOld
    MaxStarts = 3
    MaxCollects = 2
SPECIFICATION Spec
INVARIANTS
    FinishedBanksAreFresh
    FinishedBanksServeCards
    PassedCheckSawWholeBanks
    InstalledMeshesExist
PROPERTY OthersBanksStay
CHECK_DEADLOCK FALSE
