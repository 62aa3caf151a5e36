SPECIFICATION TimelineSpec
CONSTANTS
  FrameDuration = 4
  MaxCrate = 0
  MaxSlot = 0
  MaxChannel = 0
  MaxCharge = 1
  TimeMax = 31
  OptionLimit = 9
  Clocks <- AnyClock
  Counts <- AnyCount
  Hits <- AnyHit
INVARIANTS
  BoundIsHonest
CHECK_DEADLOCK FALSE
