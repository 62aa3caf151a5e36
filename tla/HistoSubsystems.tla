--------------------------- MODULE HistoSubsystems ---------------------------
(***************************************************************************)
(* What the seven subsystems of hipo-histos do with an event: which rows   *)
(* of its banks count, in which bins of which histograms, which histograms *)
(* a comparison diagnoses, and how their contents are scaled.              *)
(*                                                                         *)
(* A histogram is <<kind, a, b>> (0 where an index does not apply), a bin  *)
(* <<x, y>> (y = 0 in one dimension); the bin of a value off the axis is   *)
(* <<0, 0>>, which no histogram shows. An event is its rows by bank.       *)
(***************************************************************************)
EXTENDS Integers, FiniteSets, Bags, SequencesExt

CONSTANTS
  Sectors,          \* sectors of a detector (6)
  Components,       \* per subsystem: the components of each of its layers
  LayersPerRegion,  \* layers of a drift-chamber region (12)
  Channels,         \* channels of a sector behind one unit of occupancy
  BinCount          \* bins of an axis

Subsystems == {"dc", "ec", "ft", "ftof", "htcc", "ltcc", "pcal"}
Counters == {"ftof", "htcc", "ltcc"}
Calorimeters == {"ec", "pcal"}

ASSUME SubsystemAssumption ==
  /\ {Sectors, LayersPerRegion, Channels, BinCount} \subseteq Nat \ {0}
  /\ DOMAIN Components = Subsystems
  /\ DOMAIN Components["dc"] = 1 .. 3 * LayersPerRegion
  /\ DOMAIN Components["ec"] = 4 .. 9
  /\ \A system \in Subsystems :
       /\ IsFiniteSet(DOMAIN Components[system])
       /\ \A layer \in DOMAIN Components[system] : Components[system][layer] \in Nat

Banks(s) ==
  CASE s \in Counters -> {"adc", "tdc", "true"}
    [] s \in Calorimeters -> {"adc", "tdc", "true", "particles"}
    [] s = "ft" -> {"adc"}
    [] s = "dc" -> {"tdc", "true", "particles"}

Layers(s) == DOMAIN Components[s]
Region(layer) == ((layer - 1) \div LayersPerRegion) + 1
View(layer) == ((layer - 4) % 3) + 1
Regions == 1 .. 3

(* The electronics of regions 2 and 3 integrate over a longer window.      *)
Weight(region) == IF region = 1 THEN 1 ELSE 2

(* The forward tagger counts every row, the others those of a channel; the *)
(* drift chambers do not look at the wire.                                 *)
Accepted(s, row) ==
  \/ s = "ft"
  \/ /\ row.sector \in 1 .. Sectors
     /\ row.layer \in Layers(s)
     /\ s # "dc" => row.component \in 1 .. Components[s][row.layer]

-----------------------------------------------------------------------------
Copies(fill, bag) == IF BagIn(fill, bag) THEN bag[fill] ELSE 0

At(x) == <<x, 0>>
One(kind, x) == <<<<kind, 0, 0>>, At(x)>>
OfLayer(kind, row) == <<<<kind, row.layer, 0>>, At(row.value)>>
OfStrip(kind, row) == <<<<kind, row.layer, row.component>>, At(row.value)>>
OfView(kind, row, c) == <<<<kind, View(row.layer), c>>, At(row.value)>>
OnMap(row) == <<<<"occupancy", row.sector, 0>>, <<row.component, row.layer>>>>

(* How often a list of fills has each of them.                             *)
Tally(fills) ==
  [fill \in UNION Range(fills) |-> Cardinality({i \in DOMAIN fills : fill \in fills[i]})]

(* The rows of a bank that count fill their bins.                          *)
Filled(rows, Counts(_), Fills(_)) ==
  Tally([i \in DOMAIN rows |-> IF Counts(rows[i]) THEN Fills(rows[i]) ELSE {}])

Own(row) == row.own

FtFill(event) ==
  Filled(event.adc, LAMBDA row : TRUE, LAMBDA row : {OfLayer("adc", row)})

CounterFill(s, event) ==
  LET Channel(row) == Accepted(s, row)
  IN Filled(event.adc, Channel, LAMBDA row :
       {OfLayer("adc", row), One("adc", row.value), OnMap(row)}) (+)
     Filled(event.tdc, Channel, LAMBDA row :
       {OfLayer("tdc", row), One("tdc", row.value)}) (+)
     Filled(event.true, Own, LAMBDA row :
       {One("xy", row.value), One("true_time", row.value)})

(* The calorimeters look at the first particle only. At rest it has a      *)
(* direction in phi but none in theta.                                     *)
Primary(row) ==
  {One("phi", row.value), One("primary_sector", row.sector)} \cup
  (IF row.moving THEN {One("theta", row.value)} ELSE {})

PrimaryFill(event) ==
  Tally([i \in DOMAIN event.particles \cap {1} |-> Primary(event.particles[i])])

EcFill(event) ==
  LET Channel(row) == Accepted("ec", row)
  IN PrimaryFill(event) (+)
     Filled(event.adc, Channel, LAMBDA row :
       {OnMap(row), One("adc_sector", row.sector), OfView("adc", row, row.component)}) (+)
     Filled(event.tdc, Channel, LAMBDA row :
       {OfView("tdc_view", row, row.component), OfView("tdc_view", row, 0),
        OfLayer("tdc", row), One("tdc", row.value)}) (+)
     Filled(event.true, Own, LAMBDA row :
       {One("true_sector", row.sector), One("xy", row.value)})

PcalFill(event) ==
  LET Channel(row) == Accepted("pcal", row)
  IN PrimaryFill(event) (+)
     Filled(event.adc, Channel, LAMBDA row :
       {OnMap(row), One("adc_sector", row.sector), OfStrip("adc", row),
        OfLayer("adc", row), One("adc", row.value)}) (+)
     Filled(event.tdc, Channel, LAMBDA row :
       {OfStrip("tdc", row), OfLayer("tdc", row), One("tdc", row.value)}) (+)
     Filled(event.true, Own, LAMBDA row :
       {One("true_sector", row.sector), One("edep", row.value), One("xy", row.value)})

(* A true hit of the drift chambers points to the row of its digitized hit *)
(* and takes sector and layer from there.                                  *)
WireHit(event, row) ==
  /\ row.own /\ row.hitn \in DOMAIN event.tdc
  /\ Accepted("dc", event.tdc[row.hitn])
  /\ row.above

WireRegion(event, row) == Region(event.tdc[row.hitn].layer)

Vertex(event, row) ==
  <<<<"z_vertex", WireRegion(event, row), 0>>, At(row.vertex)>>

VertexFill_PerHit(event) ==
  Filled(event.true, LAMBDA row : WireHit(event, row) /\ row.vertex # 0,
                     LAMBDA row : {Vertex(event, row)})

(* An event counts once in a bin of the vertex, however many hits it has.  *)
VertexFill(event) ==
  SetToBag({Vertex(event, row) :
              row \in {r \in Range(event.true) : WireHit(event, r) /\ r.vertex # 0}})

(* Occupancies take the weight of the hit's region.                        *)
OnWire(event, row) ==
  LET hit == event.tdc[row.hitn]
  IN {<<<<"occupancy_summary", Region(hit.layer), 0>>, At(hit.sector)>>,
      <<<<"layer_wire", 0, 0>>, <<hit.component, hit.layer>>>>}

FillRegion(fill) ==
  IF fill[1][1] = "layer_wire" THEN Region(fill[2][2]) ELSE fill[1][2]

WireFill(event) ==
  LET Hit(row) == WireHit(event, row)
      occupied == Filled(event.true, Hit, LAMBDA row : OnWire(event, row))
  IN Filled(event.true, Hit, LAMBDA row :
       {One("xy", row.value), <<<<"rz_vertex", WireRegion(event, row), 0>>, At(row.vertex)>>}) (+)
     [fill \in DOMAIN occupied |-> Weight(FillRegion(fill)) * occupied[fill]]

DcFill(event) ==
  LET Moving(row) == row.moving
      Wire(row) == Accepted("dc", row)
  IN Filled(event.particles, Moving, LAMBDA row :
       {One("momentum", row.value), One("theta", row.value), One("phi", row.value)}) (+)
     Filled(event.tdc, Wire, LAMBDA row :
       {<<<<"tdc", Region(row.layer), row.sector>>, At(row.value)>>}) (+)
     VertexFill(event) (+) WireFill(event)

Fill(s, event) ==
  CASE s = "ft" -> FtFill(event)
    [] s \in Counters -> CounterFill(s, event)
    [] s = "ec" -> EcFill(event)
    [] s = "pcal" -> PcalFill(event)
    [] s = "dc" -> DcFill(event)

(* Histograms whose errors come from the spread between events.            *)
EventLevel == {"z_vertex", "occupancy_summary"}

Square(x) == x * x

EventSquares(filled) ==
  [fill \in {f \in DOMAIN filled : f[1][1] \in EventLevel} |-> Square(filled[fill])]

-----------------------------------------------------------------------------
Of(kinds) == kinds \X {0} \X {0}
PerLayer(kind, s) == {kind} \X Layers(s) \X {0}
Strips(s) == UNION {{layer} \X (1 .. Components[s][layer]) : layer \in Layers(s)}
Maps == {"occupancy"} \X (1 .. Sectors) \X {0}

CounterDiagnosed(s) ==
  PerLayer("adc", s) \cup PerLayer("tdc", s) \cup Maps \cup
  Of({"adc", "tdc", "true_time", "xy"})

(* The calorimeters leave out the per-hit sector histograms, which they    *)
(* only draw.                                                              *)
EcDiagnosed ==
  {<<kind, View(strip[1]), strip[2]>> : kind \in {"adc", "tdc_view"}, strip \in Strips("ec")}
  \cup ({"tdc_view"} \X (1 .. 3) \X {0}) \cup PerLayer("tdc", "ec") \cup Maps \cup
  Of({"phi", "theta", "primary_sector", "tdc", "xy"})

PcalDiagnosed ==
  {<<kind, strip[1], strip[2]>> : kind \in {"adc", "tdc"}, strip \in Strips("pcal")} \cup
  PerLayer("adc", "pcal") \cup PerLayer("tdc", "pcal") \cup Maps \cup
  Of({"phi", "theta", "primary_sector", "edep", "adc", "tdc", "xy"})

DcDiagnosed ==
  ({"z_vertex", "rz_vertex", "occupancy_summary"} \X Regions \X {0}) \cup
  ({"tdc"} \X Regions \X (1 .. Sectors)) \cup
  Of({"momentum", "theta", "phi", "layer_wire", "xy"})

(* The histograms a comparison diagnoses.                                  *)
Diagnosed(s) ==
  CASE s = "ft" -> PerLayer("adc", "ft")
    [] s \in Counters -> CounterDiagnosed(s)
    [] s = "ec" -> EcDiagnosed
    [] s = "pcal" -> PcalDiagnosed
    [] s = "dc" -> DcDiagnosed

Bins(s, h) ==
  LET components == UNION {1 .. Components[s][layer] : layer \in Layers(s)}
  IN CASE h[1] \in {"occupancy", "layer_wire"} -> components \X Layers(s)
       [] h[1] \in {"occupancy_summary", "primary_sector"} -> (1 .. Sectors) \X {0}
       [] OTHER -> (1 .. BinCount) \X {0}

(* DCHistos::finalize divides rates and occupancies by the events.         *)
FinalDivisor(s, h, events) ==
  IF s = "dc" /\ events > 0
    THEN CASE h[1] \in {"rz_vertex", "layer_wire"} -> events
           [] h[1] = "occupancy_summary" -> events * Channels
           [] OTHER -> 1
    ELSE 1

(* Kinds a subsystem leaves alone when it scales by the number of events.  *)
(* The name of rz_vertex holds the z_vertex that DCHistos looks for, so it *)
(* is scaled although finalize has made it a rate.                         *)
NotScaled_WithEnergy(s) ==
  IF s \in Calorimeters THEN {"xy", "edep"} ELSE {}

NotScaled(s) ==
  CASE s = "dc" -> {"xy", "layer_wire", "occupancy_summary"}
    [] s \in Calorimeters -> {"xy"}
    [] OTHER -> {}

(* diagnostic_scale is the inverse of this. The maps of the calorimeters   *)
(* are always taken per primary of their sector, if it has any.            *)
ScaleDivisor(s, h, file, normalize) ==
  IF s \in Calorimeters /\ h[1] = "occupancy"
    THEN LET primaries == Copies(One("primary_sector", h[2]), file.filled)
         IN IF primaries > 0 THEN primaries ELSE 1
    ELSE IF normalize /\ file.events > 0 /\ h[1] \notin NotScaled(s)
           THEN file.events ELSE 1
=============================================================================
