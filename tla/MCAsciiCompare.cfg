CONSTANTS
    Systems <- MCSystems
    Worlds <- MCWorlds
SPECIFICATION Spec
INVARIANTS
    ReportsExactlyTheChanges
    VerdictIsPerSystem
    PassMeansSame
CHECK_DEADLOCK FALSE
