SPECIFICATION Spec
CONSTANTS
  Sectors = 2
  Components <- Small
  LayersPerRegion = 1
  Channels = 2
  BinCount = 2
  Inputs <- VertexRates
  MaxChi2 = 1
  MaxPercent = 50
  MaxSigma = 1
  MinChi2Bins = 2
INVARIANT
  VertexRatesAgree
CHECK_DEADLOCK FALSE
