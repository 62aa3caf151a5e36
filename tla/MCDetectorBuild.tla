---------------------------- MODULE MCDetectorBuild ----------------------------
(* Every detector in the variations its builders tell apart; of the eight  *)
(* that the forward tagger has, one with and one without the tracker.      *)
EXTENDS DetectorProperties

MCBuilds ==
    {"beamline"} \X {"default", "rga_spring2018", "rgk_winter2018", "rgc_fall2022", "ddvcs",
                     "rghFTOut", "rghFTOn", "TransverseUpstreamBeampipe", "elmo7"}
    \cup {"magnets", "htcc"} \X {"default", "rga_spring2018", "rga_fall2018"}
    \cup {"ltcc"} \X DOMAIN Ltcc!SectorConfig
    \cup {"ft"} \X {"default", "rgk_winter2018"}
    \cup {"dc"} \X {"default", "ddvcs"}
    \cup {"ec", "pcal", "ftof"} \X {"default"}
=============================================================================
