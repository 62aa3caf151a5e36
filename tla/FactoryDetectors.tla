---------------------------- MODULE FactoryDetectors ----------------------------
(***************************************************************************)
(* The detectors whose volumes coatjava's Java factories compute: EC, PCAL *)
(* FTOF and the drift chambers (geometry.py of ec, pcal, ftof and dc).     *)
(* Each row of a factory's table becomes a volume of the same name and     *)
(* mother; the name alone tells its material and, for a strip, paddle or   *)
(* superlayer, the channel it is read out on.  The stem of a name stands   *)
(* for the regular expression that matches it.                             *)
(***************************************************************************)
EXTENDS GVolumes, TLC

Uvw == {"U", "V", "W"}
LayerByUvw == [U |-> 1, V |-> 2, W |-> 3]
Row(name, mother) == [name |-> name, mother |-> mother]

(* A row whose name no builder expects, as a newer coatjava may emit.      *)
Unexpected == Row(<<"survey_marker_", 1>>, Root)
NoVolume == Volume(NoName, NoName, "")

BaseVolume(row, material) == Volume(row.name, row.mother, material)
Stem(row) == row.name[1]

-----------------------------------------------------------------------------
(* Bounds: the sectors and, of the many equal layers, the ones of a table. *)
TableSectors == {1, 6}

(* The rows of the EC factory: two stacks of layers in three views.        *)
EcRows ==
    LET uvwOf(layer) == CASE layer % 3 = 1 -> "U" [] layer % 3 = 2 -> "V" [] OTHER -> "W"
        stackOf(layer) == IF layer <= 15 THEN 1 ELSE 2
        Scint(l, s) == <<uvwOf(l) \o "-scintillator_", l, s, LayerByUvw[uvwOf(l)], stackOf(l)>>
        OfSector(s) ==
            LET mother == <<"ec_s", s>>
                Layer(l) == {Row(Scint(l, s), mother)}
                    \cup {Row(<<"lead_", l, s, LayerByUvw[uvwOf(l)], stackOf(l)>>, mother)}
                    \cup {Row(<<uvwOf(l) \o "_strip_", l, n, s, stackOf(l)>>, Scint(l, s)) :
                              n \in {1, 2, 36}}
            IN  {Row(mother, Root)} \cup {Row(<<"eclid", i, s>>, mother) : i \in 1 .. 3}
                    \cup UNION {Layer(l) : l \in (1 .. 6) \cup (13 .. 18) \cup (37 .. 39)}
    IN  UNION {OfSector(s) : s \in TableSectors}

EcLid(row) == BaseVolume(row, IF row.name[2] = 2 THEN "LastaFoam" ELSE "G4_STAINLESS-STEEL")

(* Mutant: the stack is left out of the layer.                             *)
EcStrip_OneStack(row, uvw) ==
    Sensitive(BaseVolume(row, "scintillator"), "ecal",
              <<row.name[4], LayerByUvw[uvw] + 3, row.name[3]>>)

EcStrip(row, uvw) ==
    LET layer == row.name[2]
        strip == row.name[3]
        sector == row.name[4]
        stack == row.name[5]
    IN  Sensitive(BaseVolume(row, "scintillator"), "ecal",
                  <<sector, LayerByUvw[uvw] + stack * 3, strip>>)

BuildEc(row) ==
    CASE Stem(row) = "ec_s" -> BaseVolume(row, "G4_AIR")
      [] Stem(row) = "eclid" -> EcLid(row)
      [] Stem(row) = "lead_" -> BaseVolume(row, "G4_Pb")
      [] \E u \in Uvw : Stem(row) = u \o "-scintillator_" -> BaseVolume(row, "G4_AIR")
      [] \E u \in Uvw : Stem(row) = u \o "_strip_" ->
            EcStrip(row, CHOOSE u \in Uvw : Stem(row) = u \o "_strip_")
      [] OTHER -> NoVolume

-----------------------------------------------------------------------------
(* PCAL.  A layer's strips are single or, where two are read out together, *)
(* double ones, numbered on their own; strip 0 is filling.                 *)
SingleStrips == [U |-> 84, V |-> 77, W |-> 77]
DoubleStrips == [U |-> 16, V |-> 15, W |-> 15]

PcalRows ==
    LET OfSector(s) ==
            LET mother == <<"pcal_s", s>>
                layerOf(u) == <<u \o "-view-scintillator_", LayerByUvw[u], s>>
                Strip(u, kind, n) == Row(<<u \o "-view_" \o kind \o "_strip_", LayerByUvw[u], n, s>>,
                                         layerOf(u))
            IN  {Row(mother, Root)}
                    \cup {Row(<<"PCAL_Lead_Layer_", l, s>>, mother) : l \in 1 .. 3}
                    \cup {Row(layerOf(u), mother) : u \in Uvw}
                    \cup UNION {{Strip(u, "single", n) : n \in 0 .. SingleStrips[u]}
                                    \cup {Strip(u, "double", n) : n \in 1 .. DoubleStrips[u]} : u \in Uvw}
                    \cup {Row(<<"Stainless_Steel_" \o side \o "_", i, s>>, mother) :
                              side \in {"Front", "Back"}, i \in 1 .. 2}
                    \cup {Row(<<"Last-a-Foam_" \o side \o "_s", s>>, mother) : side \in {"Front", "Back"}}
    IN  UNION {OfSector(s) : s \in TableSectors}

HalfUp(n) == (n + 1) \div 2

PcalStripId(uvw, kind, strip) ==
    IF kind = "double" THEN (IF uvw = "U" THEN strip + 52 ELSE strip)
    ELSE IF uvw = "U" THEN (IF strip <= 52 THEN strip ELSE HalfUp(strip - 52) + 52)
    ELSE IF strip > 30 THEN strip - 15 ELSE HalfUp(strip)

PcalStrip(row, uvw, kind) ==
    LET strip == row.name[3]
        volume == BaseVolume(row, "scintillator")
    IN  IF strip > 0
        THEN Sensitive(volume, "ecal",
                       <<row.name[4], LayerByUvw[uvw], PcalStripId(uvw, kind, strip)>>)
        ELSE volume

BuildPcal(row) ==
    LET sides == {"Front", "Back"}
        kinds == {"single", "double"}
        IsStrip(u, k) == Stem(row) = u \o "-view_" \o k \o "_strip_"
    IN  CASE Stem(row) = "pcal_s" -> BaseVolume(row, "G4_AIR")
          [] Stem(row) = "PCAL_Lead_Layer_" -> BaseVolume(row, "G4_Pb")
          [] \E u \in Uvw : Stem(row) = u \o "-view-scintillator_" ->
                BaseVolume(row, "G4_TITANIUM_DIOXIDE")
          [] \E u \in Uvw, k \in kinds : IsStrip(u, k) ->
                LET p == CHOOSE p \in Uvw \X kinds : IsStrip(p[1], p[2])
                IN  PcalStrip(row, p[1], p[2])
          [] \E side \in sides : Stem(row) = "Stainless_Steel_" \o side \o "_" ->
                BaseVolume(row, "G4_STAINLESS-STEEL")
          [] \E side \in sides : Stem(row) = "Last-a-Foam_" \o side \o "_s" ->
                BaseVolume(row, "LastaFoam")
          [] OTHER -> NoVolume

-----------------------------------------------------------------------------
(* FTOF: three panels, the first and the last with a lead shield.          *)
Panels == {"1a", "1b", "2"}
ShieldedPanels == {"1a", "2"}
PanelToLayer == ("1a" :> 1) @@ ("1b" :> 2) @@ ("2" :> 3)

FtofRows ==
    LET Mother(p, s) == <<"ftof_p" \o p \o "_s", s>>
    IN  {Row(Mother(p, s), Root) : p \in Panels, s \in TableSectors}
            \cup {Row(<<"panel" \o p \o "_sector", s, n>>, Mother(p, s)) :
                      p \in Panels, s \in TableSectors, n \in 1 .. 5}
            \cup {Row(<<"ftof_shield_p" \o p \o "_sector", s>>, Mother(p, s)) :
                      p \in ShieldedPanels, s \in TableSectors}

PublishFtofVolume(row) ==
    CASE \E p \in Panels : Stem(row) = "ftof_p" \o p \o "_s" -> BaseVolume(row, "G4_AIR")
      [] \E p \in Panels : Stem(row) = "panel" \o p \o "_sector" ->
            LET p == CHOOSE p \in Panels : Stem(row) = "panel" \o p \o "_sector"
            IN  Sensitive(BaseVolume(row, "scintillator"), "ftof",
                          <<row.name[2], PanelToLayer[p], row.name[3], 0>>)
      [] \E p \in ShieldedPanels : Stem(row) = "ftof_shield_p" \o p \o "_sector" ->
            BaseVolume(row, "G4_Pb")
      [] OTHER -> NoVolume

-----------------------------------------------------------------------------
(* Drift chambers: three regions of two superlayers.                       *)
DcRows == {Row(<<"region", r, s>>, Root) : r \in 1 .. 3, s \in 1 .. 6}
              \cup {Row(<<"sl", n, s>>, <<"region", (n + 1) \div 2, s>>) : n \in 1 .. 6, s \in 1 .. 6}

BuildRegion(row) == BaseVolume(row, "dcgas")
BuildSuperlayer(row) ==
    Sensitive(BaseVolume(row, "dcgas"), "dc", <<row.name[3], row.name[2], 1, 1>>)

(* Any other row is passed over in silence.                                *)
BuildDc(row) == CASE Stem(row) = "region" -> BuildRegion(row)
                  [] Stem(row) = "sl" -> BuildSuperlayer(row)
                  [] OTHER -> NoVolume

DdvcsBackShields ==
    {Volume(<<"back_shielding_region3_s", s>>, Root, "G4_GRAPHITE") : s \in 1 .. 6}

(* cad_default.gxml: a back and a support, each with five copies.          *)
DcCad ==
    LET Part(stem, s, source, material) ==
            LET v == Volume(<<stem, s>>, Root, material)
            IN  IF s = source THEN v ELSE [v EXCEPT !.copyOf = <<stem, source>>]
    IN  {Part("dcs_r1back", s, 5, "G4_KAPTON") : s \in 1 .. 6}
            \cup {Part("dcs_r1support", s, 1, "G4_Al") : s \in 1 .. 6}

-----------------------------------------------------------------------------
FactorySystems == {"ec", "pcal", "ftof", "dc"}

TableRows(system) == CASE system = "ec" -> EcRows [] system = "pcal" -> PcalRows
                       [] system = "ftof" -> FtofRows [] system = "dc" -> DcRows

Classified(system, row) ==
    CASE system = "ec" -> BuildEc(row) [] system = "pcal" -> BuildPcal(row)
      [] system = "ftof" -> PublishFtofVolume(row) [] system = "dc" -> BuildDc(row)
=============================================================================
