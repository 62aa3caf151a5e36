---------------------------- MODULE BeamlineMagnets ----------------------------
(***************************************************************************)
(* The beam pipe with its shields and the solenoid (beamline/geometry.py,  *)
(* beamline_parameters.py, magnets/geometry.py, solenoid_parameters.py).   *)
(* A variation chooses one of five pipe builders; all but one end in the   *)
(* same line inside the torus.                                             *)
(***************************************************************************)
EXTENDS GVolumes

Steel == "G4_STAINLESS-STEEL"
Vacuum == "G4_Galactic"

PipeFirstStep == 2413000
MediumStart == PipeFirstStep + 76500
TorusStart == 2754170
DownstreamPlanes == <<TorusStart, 5006000, 5006000, 5006000 + 7000, 5062000, 5732000>>
DownstreamRadii == <<33274, 33274, 32200, 32200, 59800, 59800, 63700>>
ShortPipeVariations == {"rgk_winter2018", "rgf_spring2020", "rgm_fall2021", "rge_spring2024",
                        "rgd_fall2023", "ddvcs"}

PolyconeVolume(name, planes, inner, outer, material) ==
    With(Volume(<<name>>, Root, material), Polycone(Cones(planes, inner, outer)))

TubeVolume(name, mother, material, inner, outer, half, z) ==
    At(With(Volume(<<name>>, mother, material), Tube(inner, outer, half)), 0, 0, z)

(* A full steel cylinder whose daughter is its bore.                       *)
BoredPipe(wall, bore, outer, inner, half, z) ==
    {TubeVolume(wall, Root, Steel, 0, outer, half, z),
     TubeVolume(bore, <<wall>>, Vacuum, 0, inner, half, 0)}

PipePair(wall, bore, start, end, inner, outer) ==
    LET half == (end - start) \div 2 - 100
    IN  BoredPipe(wall, bore, outer, inner, half, start + half)

Downstream(end) ==
    {PolyconeVolume("beam_vacuum", Append(DownstreamPlanes, end), [i \in 1 .. 7 |-> 0],
                    DownstreamRadii, Vacuum)}

(* 75 um thick, hence the doubled centre.                                  *)
Window(twiceZ, radius) ==
    {With(Volume(<<"al_window_vacuum_entrance">>, Root, "G4_Al"), TubeAround(0, radius, twiceZ, 75))}

(* The step between the two pipes: a sleeve and the vacuum inside it.      *)
StepPipe(outer, connecting, vacuum) ==
    LET half == (MediumStart - PipeFirstStep) \div 2 - 100
        z == PipeFirstStep + half
    IN  {TubeVolume("vacuumPipe3", Root, Steel, connecting, outer, half, z),
         TubeVolume("vacuumInPipe3", Root, Vacuum, 0, vacuum, half, z)}

VacuumLine(variation) ==
    LET short == variation \in ShortPipeVariations
        ddvcs == variation = "ddvcs"
        start == IF short THEN 503000 ELSE 963000
        first == IF ddvcs THEN <<22924, 24520>> ELSE <<26924, 28520>>
        second == IF ddvcs THEN <<24275, 32925>> ELSE <<33275, 34925>>
        connecting == second[1] + (IF ddvcs THEN 3100 ELSE 100)
        gap == IF short THEN 86500 ELSE 295000
    IN  PipePair("vacuumPipe1", "vacuumInPipe1", start, PipeFirstStep, first[1], first[2])
        \cup PipePair("vacuumPipe2", "vacuumInPipe2", MediumStart, TorusStart, second[1], second[2])
        \cup StepPipe(second[2], connecting, first[2])
        \cup Window(2 * (IF short THEN 502500 ELSE 962500), IF ddvcs THEN 24520 ELSE 30000)
        \cup Downstream(10000000)
        \cup (IF ddvcs THEN {}
              ELSE {At(PolyconeVolume("airPipe", <<0, 2 * gap>>, <<0, 0>>, <<20000, 30000>>, "G4_AIR"),
                       0, 0, 283000),
                    TubeVolume("airPipe2", <<"airPipe">>, "G4_AIR", 0, 10000, gap - 200, gap - 200)})

(* 97374 is the radius of the cone at its step, interpolated.              *)
ElmoLine ==
    PipePair("vacuumPipe1", "vacuumInPipe1", 787410, PipeFirstStep, 33275, 34925)
    \cup PipePair("vacuumPipe2", "vacuumInPipe2", MediumStart, TorusStart, 33275, 34925)
    \cup StepPipe(34925, 33275, 33275)
    \cup Downstream(13900000)
    \cup {PolyconeVolume("ElmoTungstenCone", <<716420, 1249400, 1249400, 1351000>>,
                         <<38100, 38100, 47620, 47620>>, <<53280, 97374, 97374, 105780>>, "beamline_W"),
          PolyconeVolume("ElmoTungstenTip", <<570000, 716420>>, <<39000, 38100>>, <<41200, 53280>>,
                         "beamline_W"),
          PolyconeVolume("ElmoPbCylinder1", <<1357350, 1802710>>, <<47620, 47620>>,
                         <<105780, 105780>>, "G4_Pb"),
          PolyconeVolume("ElmoPbCylinder2", <<1809060, 2240860>>, <<47620, 47620>>,
                         <<105780, 105780>>, "G4_Pb"),
          PolyconeVolume("ElmoSteelCase", <<1357350 - 5000, 2240860 + 15000>>, <<105780, 105780>>,
                         <<109540, 109540>>, Steel),
          PolyconeVolume("ElmoSupportPipe", <<1249400, 2240860, 2240860, 2240860 + 27500>>,
                         [i \in 1 .. 4 |-> 38100], <<47620, 47620, 105780, 105780>>, Steel),
          PolyconeVolume("ElmoAirPipe", <<54000, 385000, 385000, 570000>>, [i \in 1 .. 4 |-> 0],
                         <<10000, 10000, 25460, 41200>>, "G4_AIR")}

ConsVolume(name, z, inner1, outer1, inner2, outer2, half, material) ==
    At(PolyconeVolume(name, <<-half, half>>, <<inner1, inner2>>, <<outer1, outer2>>, material), 0, 0, z)

RghLine(ftOut) ==
    LET Shield(name, z, inner, outer, half) ==
            ConsVolume(name, z, inner, outer, inner, outer, half, "G4_Pb")
        Either(out, on) == IF ftOut THEN out ELSE on
    IN  BoredPipe("vacuumPipe1_2", "vacuumInPipe1_2", 34925, 33325, 728400, 1528400)
        \cup BoredPipe("vacuumPipe2", "vacuumInPipe2", 34925, 33275, 132235, 2621735)
        \cup {TubeVolume("vacuumPipe3", Root, Steel, 33375, 34925, 38150, 2451150),
              TubeVolume("vacuumInPipe3", Root, Vacuum, 0, 33375, 38150, 2451150)}
        \cup Downstream(13900000)
        \cup {ConsVolume("Cone1_2", 1013250, 38100, 61331, 38100, 98640, 213250, "beamline_W"),
              ConsVolume("Cone2", 1290050, 47620, 98640, 47620, 109760, 63550, "beamline_W"),
              Shield("Cylinder", Either(1797755, 1556800), 47630, 109760, Either(444155, 203200)),
              Shield("SupportTube", Either(1743200, 1493250), 38100, 47600, Either(516700, 266750)),
              Shield("FTflangeShieldCylinder", Either(2300000, 2305450), 125400, 130000,
                     Either(41300, 35850)),
              Shield("TorusConnector", 2550000, 97000, 104000, 101300)}
        \cup (IF ftOut THEN {Shield("FTPreShieldCylinder", 2018765, 35000, 108500, 241135)} ELSE {})

Elmo7 ==
    LET planes == <<570000, 2280000, 2280000, 2380000, 2750000>>
        none == [i \in 1 .. 5 |-> 0]
    IN  {PolyconeVolume("elmo7",
                        <<250000, 360000, 570000, 1750000, 1750000, 2280000, 2380000, 2750000>>,
                        <<21000, 21000, 26100, 26100, 26100, 33100, 33100, 33100>>,
                        <<29000, 29000, 41200, 126500, 218000, 218000, 111000, 111000>>, "beamline_W"),
         PolyconeVolume("vacuumPipe1", planes, none, <<24000, 24000, 32900, 32900, 32900>>, Steel),
         With(Volume(<<"vacuumInPipe1">>, <<"vacuumPipe1">>, Vacuum),
              Polycone(Cones(planes, none, <<22000, 22000, 28000, 28000, 28000>>)))}
        \cup Window(2 * planes[1] - 75, 24000) \cup Downstream(10000000)

Upstream ==
    {TubeVolume("upstreamTransverseMagnetVacuumPipe1", Root, Vacuum, 0, 35000, 500000, -858000),
     TubeVolume("upstreamTransverseMagnetVacuumPipe2", Root, Vacuum, 0, 35000, 148000, -204000)}

MollerCone ==
    {PolyconeVolume("ddvcs_mollercone", <<300000, 1251000, 2280000, 2380000, 2750000>>,
                    <<26100, 26100, 33100, 33100, 33100>>, <<30600, 149000, 149000, 111000, 111000>>,
                    "beamline_W")}

BuildBeamline(variation) ==
    CASE variation = "rgc_fall2022" -> ElmoLine
      [] variation = "TransverseUpstreamBeampipe" -> Upstream
      [] variation \in {"rghFTOut", "rghFTOn"} -> RghLine(variation = "rghFTOut")
      [] variation = "elmo7" -> Elmo7
      [] variation = "ddvcs" -> MollerCone \cup VacuumLine(variation)
      [] OTHER -> VacuumLine(variation)

(* The rows of the placement files.  Those of the ten standard runs differ *)
(* in the parts around the forward tagger and in the cone's extension; the *)
(* ones of the three transverse wedges name the same meshes.               *)
Meshes(names, material) == {Volume(<<name>>, Root, material) : name \in names}
SharedMeshes ==
    Meshes({"Beamline_Adapter_1"}, "G4_Al") \cup Meshes({"Apex_Shield_Hub"}, "beamline_CarbonSteel")
        \cup Meshes({"Apex_Shield_Lead_Fill", "Torus_Exit_Shield_Lead_Fill"}, "G4_Pb")
        \cup Meshes({"Torus_Exit_Shield_Casing", "Downstream_Beam_tube_Segment_1",
                     "Downstream_Beam_tube_Segment_2"}, Steel)
TaggerMeshes ==
    Meshes({"FTInnerShieldAndFlange"}, "beamline_W") \cup Meshes({"FTOuterFlange", "FTOuterMount"}, Steel)
        \cup {Volume(<<"FTInnerShieldAndFlange_Bolt", i>>, Root, "G4_Cu") : i \in 1 .. 9}
ConeMeshes == Meshes({"FTInnerShield", "moller_cone"}, "beamline_W") \cup Meshes({"ft_adjuster"}, Steel)
ExtensionMeshes ==
    Meshes({"moller-cone-extension-tungsten-addon", "moller_cone_tip"}, "beamline_W")
        \cup Meshes({"moller-cone-extension-lead-fill"}, "G4_Pb")
        \cup Meshes({"FTFlange", "moller-cone-extension-inner", "moller-cone-extension-lead-case"}, Steel)
WedgeMeshes ==
    {Volume(<<"TGT-9000-1000-000", part>>, Root, "G4_Al") : part \in {"0", "0_MIR", "1", "1_MIR1", "3"}}
        \cup {Volume(<<"TGT-9000-1000-000", part>>, Root, "G4_Fe") : part \in {"2", "2_MIR1"}}

ExtendedVariations == {"rgd_fall2023", "rge_spring2024", "rgf_spring2020", "rgk_winter2018"}

(* What has no placement file: beamline.py calls build_cad for the others  *)
(* only.                                                                   *)
NoMeshes == {"rghFTOut", "rghFTOn", "elmo7"}

(* Every row becomes a mesh under root that nothing is a copy of.          *)
BeamlineCad(variation, transverse) ==
    CASE transverse -> WedgeMeshes
      [] variation = "ddvcs" -> SharedMeshes
      [] variation = "rgc_fall2022" -> SharedMeshes \cup TaggerMeshes
      [] variation \in ExtendedVariations ->
            SharedMeshes \cup TaggerMeshes \cup ConeMeshes \cup ExtensionMeshes
      [] OTHER -> SharedMeshes \cup TaggerMeshes \cup ConeMeshes

-----------------------------------------------------------------------------
ZStart == -898093
ZShifts == [default |-> 0, rga_spring2018 |-> -1940, rga_fall2018 |-> -3000]
ZPlanes == <<0, 425000, 440700, 546400, 562100, 814920, 830620, 936320, 952020, 1204840, 1220540,
             1326240, 1341940, 1783440>>
InnerRadii == [i \in 1 .. 14 |-> CASE i = 1 -> 536250 [] i = 14 -> 784000 [] OTHER -> 390000]
OuterRadii == [i \in 1 .. 14 |-> IF i \in {3, 4, 7, 8, 11, 12} THEN 1038000 ELSE 1020000]

BuildSolenoid(variation) ==
    {At(PolyconeVolume("solenoid", ZPlanes, InnerRadii, OuterRadii, "G4_Cu"),
        0, 0, ZStart + ZShifts[variation])}

(* The rows of cad_<variation>.gxml, the same in all three: the meshes by  *)
(* material, and the copies by the row they are copied from.               *)
MagnetMeshes ==
    [beamline_W |-> {"hub_shield", "hub_shield1", "hub_shield7"},
     G4_Cu |-> {"BoreCenterTube", "coil"},
     G4_Al |-> {"ColdHub", "hubCover1", "hubCover3", "WarmBoreTube"},
     steel |-> {"BoreShield", "DownstreamShieldingPlate", "DownstreamVacuumJacket",
                "UpstreamShieldingPlate", "UpstreamVacuumJacket", "vacuumJacket", "vacuumJacket1b",
                "vacuumJacket2b", "vacuumJacket3a", "vacuumJacket5b", "vacuumJacket6a"}]
MagnetCopies ==
    [hubCover1 |-> {"hubCover2", "hubCover4", "hubCover5"}, hubCover3 |-> {"hubCover6"},
     hub_shield |-> {"hub_shield3", "hub_shield4", "hub_shield5", "hub_shield6"},
     coil |-> {"coil2", "coil3", "coil4", "coil5", "coil6"},
     vacuumJacket |-> {"vacuumJacket2a", "vacuumJacket4a", "vacuumJacket5a"},
     vacuumJacket1b |-> {"vacuumJacket3b", "vacuumJacket4b", "vacuumJacket6b"}]

MagnetsCad ==
    LET Material(m) == IF m = "steel" THEN Steel ELSE m
        meshes == UNION {{Volume(<<name>>, Root, Material(m)) : name \in MagnetMeshes[m]} :
                            m \in DOMAIN MagnetMeshes}
    IN  meshes \cup UNION {{[v EXCEPT !.name = <<copy>>, !.copyOf = v.name] :
                               copy \in MagnetCopies[v.name[1]]} :
                              v \in {w \in meshes : w.name[1] \in DOMAIN MagnetCopies}}
=============================================================================
