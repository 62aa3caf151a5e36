SPECIFICATION Spec
CONSTANTS
  Detectors = {"ltcc", "ft_trk"}
  Runs = {12}
  MaxHits = 2
  MaxEvents = 2
INVARIANTS
  EventsIsolated
  AgreeingHitsHaveBanks
CHECK_DEADLOCK FALSE
