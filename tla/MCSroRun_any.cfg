SPECIFICATION Spec
CONSTANTS
  FrameDuration = 2
  MaxCrate = 1
  MaxSlot = 1
  MaxChannel = 0
  MaxCharge = 1
  TimeMax = 19
  OptionLimit = 8
  DirectoryLimit = 9
  Crates = {0, 1}
  EventCount = 3
  WorkerCount = 2
  FrameCapacity = 2
  Inputs <- AnyInputs
INVARIANTS
  TypeOK
  WrittenFramesFinal
  FramesAscending
  CompletedOutput
  NothingRejected
  IdleCratesCaughtUp
PROPERTY
  RunProgresses
