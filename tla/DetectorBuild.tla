---------------------------- MODULE DetectorBuild ----------------------------
(***************************************************************************)
(* One turn of a driver's loop: the builder functions of a detector        *)
(* publish its volumes for one variation, one function after the other.    *)
(* The detectors' own modules say what each function publishes; the ones   *)
(* whose volumes come from coatjava go through its bridge, and the driver  *)
(* is run again from a cleared bank after an attempt that failed.          *)
(***************************************************************************)
EXTENDS CoatjavaBridge, DetectorMaterials

CONSTANTS Builds,       \* bound: the detectors and variations built
          MaxTries      \* bound: attempts of the driver

ASSUME MaxTriesAssumption == MaxTries \in Nat \ {0}

(* A build is of one of the nine detectors that have a driver.             *)
ASSUME BuildsAssumption ==
    \A b \in Builds : b[1] \in {"beamline", "magnets", "ft", "htcc", "ltcc"} \cup FactorySystems

VARIABLES build,        \* <<detector, variation>>
          todo          \* builder functions still to be called
vars == <<bridgeVars, build, todo>>

Pipes == INSTANCE BeamlineMagnets
Tagger == INSTANCE FtTracker
Htcc == INSTANCE HtccGeometry
Ltcc == INSTANCE LtccGeometry

detector == build[1]
variation == build[2]

-----------------------------------------------------------------------------
(* The functions a driver calls, the CAD banks' included.                  *)
Builders(d, v) ==
    CASE d = "beamline" -> IF v \in Pipes!NoMeshes THEN <<"build_beamline">>
                           ELSE <<"build_beamline", "build_cad">>
      [] d = "magnets" -> <<"build_solenoid", "build_cad">>
      [] d = "ft" -> IF v \in Tagger!TrackerAbsent
                     THEN <<"build_calorimeter", "build_hodoscope">>
                     ELSE <<"build_calorimeter", "build_hodoscope", "build_tracker">>
      [] d = "htcc" -> <<"build_mother", "build_mirrors", "build_pmts", "build_cad">>
      [] d = "ltcc" -> <<"build_ltcc", "build_cad">>
      [] d = "dc" -> IF v = "ddvcs" THEN <<"coatjava", "build_ddvcs_back_shields", "build_cad">>
                     ELSE <<"coatjava", "build_cad">>
      [] OTHER -> <<"coatjava">>

(* The volumes one function of a detector publishes.                       *)
Built(d, v, builder) ==
    CASE d = "beamline" -> IF builder = "build_cad"
                           THEN Pipes!BeamlineCad(v, v = "TransverseUpstreamBeampipe")
                           ELSE Pipes!BuildBeamline(v)
      [] d = "magnets" -> IF builder = "build_cad" THEN Pipes!MagnetsCad ELSE Pipes!BuildSolenoid(v)
      [] d = "ft" -> (CASE builder = "build_calorimeter" -> Tagger!Calorimeter
                        [] builder = "build_hodoscope" -> Tagger!Hodoscope
                        [] builder = "build_tracker" -> Tagger!Tracker)
      [] d = "htcc" -> (CASE builder = "build_mother" -> Htcc!HtccMother(v)
                          [] builder = "build_mirrors" -> Htcc!HtccMirrors
                          [] builder = "build_pmts" -> Htcc!HtccPmts
                          [] builder = "build_cad" -> Htcc!HtccCad(v))
      [] d = "ltcc" -> IF builder = "build_cad" THEN Ltcc!LtccCad(v) ELSE Ltcc!Ltcc(v)
      [] d = "dc" -> IF builder = "build_cad" THEN DcCad ELSE DdvcsBackShields

Init == /\ build \in Builds
        /\ todo = Builders(build[1], build[2])
        /\ bridge = "idle" /\ table = NoTable /\ rows = {} /\ published = {} /\ tries = 1

CallBuilder ==
    /\ bridge = "idle" /\ todo # <<>> /\ Head(todo) # "coatjava"
    /\ published' = published \cup Built(detector, variation, Head(todo))
    /\ todo' = Tail(todo)
    /\ UNCHANGED <<bridge, table, rows, tries, build>>

CallCoatjava ==
    /\ bridge = "idle" /\ todo # <<>> /\ Head(todo) = "coatjava"
    /\ bridge' = "locate" /\ todo' = Tail(todo)
    /\ UNCHANGED <<table, rows, tries, published, build>>

Bridge == GenerateVolumes(detector) /\ UNCHANGED <<build, todo>>

(* A signal between two steps.                                             *)
Interrupted == /\ bridge \in {"locate", "run", "read", "unlink", "publish"}
               /\ bridge' = "failed"
               /\ UNCHANGED <<table, rows, tries, published, build, todo>>

(* The driver from its start, over the bank it has cleared.                *)
RunAgain == /\ bridge = "failed" /\ tries < MaxTries
            /\ bridge' = "idle" /\ rows' = {} /\ published' = {} /\ tries' = tries + 1
            /\ todo' = Builders(detector, variation)
            /\ UNCHANGED <<table, build>>

Next == CallBuilder \/ CallCoatjava \/ Bridge \/ Interrupted \/ RunAgain

Spec == Init /\ [][Next]_vars

done == bridge = "idle" /\ todo = <<>>
=============================================================================
