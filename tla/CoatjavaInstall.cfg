SPECIFICATION InstallSpec
CONSTANT Attempts = 3
INVARIANTS
  ResetRepairs
PROPERTIES
  SuccessMeansInstalled
  InstallerEnds
  CommandsRunOut
