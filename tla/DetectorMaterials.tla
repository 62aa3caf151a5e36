---------------------------- MODULE DetectorMaterials ----------------------------
(***************************************************************************)
(* What materials.py and mirrors.py of each detector publish, in order:    *)
(* what a material is made of, and its optical lists, which must all be as *)
(* long as the grid of photon energies they are given on.                  *)
(*                                                                         *)
(* Densities and fractions by mass are in 10^-7 (of a g/cm3); an amount by *)
(* atoms is a number of atoms.  A list is known by its length, a grid by   *)
(* its wavelengths in nanometres as well.                                  *)
(***************************************************************************)
EXTENDS Integers, Sequences, FiniteSets

One == 10000000
NoGrid == [wavelengths |-> <<0, 0>>, points |-> 0]
Grid(from, to, points) == [wavelengths |-> <<from, to>>, points |-> points]

Material(name, density, by, amounts) ==
    [name |-> name, density |-> density, by |-> by, amounts |-> amounts,
     grid |-> NoGrid, lists |-> {}]

Mass(name, density, amounts) == Material(name, density, "mass", amounts)
Atoms(name, density, amounts) == Material(name, density, "atoms", amounts)

(* lists: the names and lengths of the optical properties that are set.    *)
Optical(material, grid, lists) == [material EXCEPT !.grid = grid, !.lists = lists]

-----------------------------------------------------------------------------
(* Length and wavelengths of the tables at the head of the htcc and ltcc   *)
(* files.                                                                  *)
HtccTables ==
    [PENERGY |-> Grid(190, 650, 47), IREFR_CO2 |-> 47, ABSLENGTH_CO2 |-> 44 + 3,
     QE_HTCC_PMT |-> 47, RINDEX_HTCC_PMT |-> 47, REFLECTIVITY_ALMGF2 |-> 47,
     PENERGY_MIRR |-> Grid(200, 650, 46), REFLECTIVITY_ALMGF2_MIRR |-> 46,
     REFLECTIVITY_ALMGF2_WC |-> 46]
LtccTables ==
    [PENERGY_GAS |-> Grid(170, 650, 49), IREFR_C4F10 |-> 49, ABSLENGTH_C4F10 |-> 49,
     IREFR_CO2 |-> 49, ABSLENGTH_CO2 |-> 44 + 5, IREFR_N2 |-> 49, ABSLENGTH_N2 |-> 49,
     PENERGY_PMT |-> Grid(170, 650, 49), RINDEX_PMT |-> 49, QE_PMT |-> 49]

HtccMaterials ==
    LET t == HtccTables
        gas == Mass("HTCCgas", 18400, << <<"G4_CARBON_DIOXIDE", One>> >>)
        quartz == Mass("HTCCPMTQuartz", 23200000, << <<"G4_SILICON_DIOXIDE", One>> >>)
        Coating(name) == Mass(name, 29007000, << <<"G4_Al", 3310000>>, <<"G4_Mg", 2610000>>,
                                                 <<"G4_F", 4080000>> >>)
    IN  << Optical(gas, t.PENERGY, {<<"indexOfRefraction", t.IREFR_CO2>>,
                                    <<"absorptionLength", t.ABSLENGTH_CO2>>}),
           Mass("rohacell31", 320000, << <<"G4_C", 6463000>>, <<"G4_H", 784000>>,
                                         <<"G4_N", 839000>>, <<"G4_O", 1914000>> >>),
           Mass("HTCCTedlar", 14300000, << <<"G4_C", 3300000>>, <<"G4_F", 3300000>>,
                                           <<"G4_H", 3400000>> >>),
           Mass("HTCCCompositeWindow", 14150000, << <<"HTCCTedlar", 5000000>>,
                                                    <<"G4_MYLAR", 5000000>> >>),
           Optical(quartz, t.PENERGY, {<<"efficiency", t.QE_HTCC_PMT>>,
                                       <<"indexOfRefraction", t.RINDEX_HTCC_PMT>>}),
           Optical(Coating("HTCCECIAlMgF2"), t.PENERGY,
                   {<<"reflectivity", t.REFLECTIVITY_ALMGF2>>}),
           Optical(Coating("HTCCECIMirr"), t.PENERGY_MIRR,
                   {<<"reflectivity", t.REFLECTIVITY_ALMGF2_MIRR>>}),
           Optical(Coating("HTCCECIWC"), t.PENERGY_MIRR,
                   {<<"reflectivity", t.REFLECTIVITY_ALMGF2_WC>>}) >>

(* The Winston cones' alloy keeps the optical lists of the glass.          *)
LtccMaterials ==
    LET t == LtccTables
        Gas(name, density, amounts, index, absorption) ==
            Optical(Mass(name, density, amounts), t.PENERGY_GAS,
                    {<<"indexOfRefraction", index>>, <<"absorptionLength", absorption>>})
        window == {<<"efficiency", t.QE_PMT>>, <<"indexOfRefraction", t.RINDEX_PMT>>}
    IN  << Gas("C4F10", 101200, << <<"G4_C", 3000000>>, <<"G4_F", 7000000>> >>,
               t.IREFR_C4F10, t.ABSLENGTH_C4F10),
           Gas("HTCCgas", 18400, << <<"G4_CARBON_DIOXIDE", One>> >>, t.IREFR_CO2, t.ABSLENGTH_CO2),
           Gas("N2", 11652, << <<"G4_N", One>> >>, t.IREFR_N2, t.ABSLENGTH_N2),
           Optical(Mass("LTCCPMTGlass", 23200000, << <<"G4_SILICON_DIOXIDE", One>> >>),
                   t.PENERGY_PMT,
                   window \cup {<<"absorptionLength", t.PENERGY_PMT.points>>}),
           Optical(Mass("ltcc_WC_material", 87500000,
                        << <<"G4_Ni", 8500000>>, <<"G4_Mo", 400000>>, <<"G4_Fe", 1100000>> >>),
                   t.PENERGY_PMT, window),
           Mass("ltcc_nose", 38600000, << <<"G4_STAINLESS-STEEL", 9464000>>, <<"G4_C", 408000>>,
                                          <<"G4_H", 43000>>, <<"G4_O", 85000>> >>) >>

FtMaterials ==
    << Mass("ft_peek", 13100000, << <<"G4_C", 7600000>>, <<"G4_H", 800000>>, <<"G4_O", 1600000>> >>),
       Mass("ft_W", 176000000, << <<"G4_Fe", 800000>>, <<"G4_W", 9200000>> >>),
       Atoms("epoxy", 11600000, << <<"H", 32>>, <<"N", 2>>, <<"O", 4>>, <<"C", 15>> >>),
       Mass("carbonFiber", 17500000, << <<"G4_C", 7450000>>, <<"epoxy", 2550000>> >>),
       Mass("pcboard", 18600000, << <<"G4_Fe", 3000000>>, <<"G4_C", 4000000>>, <<"G4_Si", 3000000>> >>),
       Mass("insfoam", 340000, << <<"G4_C", 6000000>>, <<"G4_H", 1000000>>, <<"G4_N", 1000000>>,
                                  <<"G4_O", 2000000>> >>),
       Atoms("scintillator", 10320000, << <<"C", 9>>, <<"H", 10>> >>),
       Mass("myFR4", 18600000, << <<"G4_C", 4355000>>, <<"G4_H", 365000>>, <<"G4_Si", 2468000>>,
                                  <<"G4_O", 2812000>> >>),
       Mass("mmstrips", 91964222, << <<"G4_Cu", One>> >>),
       Mass("ResistPaste", 10773000, << <<"G4_C", One>> >>),
       Mass("mmmesh", 43615000, << <<"G4_Mn", 200000>>, <<"G4_Si", 100000>>, <<"G4_Cr", 1900000>>,
                                   <<"G4_Ni", 1000000>>, <<"G4_Fe", 6800000>> >>),
       Mass("mmgas", 17034, << <<"G4_Ar", 9500000>>, <<"G4_H", 86707>>, <<"G4_C", 413293>> >>),
       Mass("myPhRes", 14200000, << <<"G4_C", One>> >>),
       Mass("mmmylar", 14000000, << <<"G4_H", 419580>>, <<"G4_C", 6250170>>, <<"G4_O", 3330250>> >>) >>

Scintillator == Atoms("scintillator", 10320000, << <<"C", 9>>, <<"H", 10>> >>)
LastaFoam == Mass("LastaFoam", 2400000, << <<"G4_C", 4045000>>, <<"G4_H", 786000>>,
                                           <<"G4_N", 1573000>>, <<"G4_O", 3596000>> >>)
CalorimeterMaterials == <<Scintillator, LastaFoam>>
FtofMaterials == <<Scintillator>>

DcMaterials ==
    << Mass("dcgas", 18000, << <<"G4_Ar", 9000000>>, <<"G4_CARBON_DIOXIDE", 1000000>> >>),
       Mass("W_alloy", 176000000, << <<"G4_Fe", 800000>>, <<"G4_W", 9200000>> >>) >>

Tungsten == Mass("beamline_W", 176000000, << <<"G4_Fe", 800000>>, <<"G4_W", 9200000>> >>)
MagnetsMaterials == <<Tungsten>>
BeamlineMaterials ==
    << Tungsten,
       Mass("beamline_CarbonSteel", 78500000,
            << <<"G4_Fe", 9800000>>, <<"G4_C", 30000>>, <<"G4_Si", 20000>>, <<"G4_Mn", 100000>>,
               <<"G4_P", 30000>>, <<"G4_Cu", 20000>> >>) >>

-----------------------------------------------------------------------------
(* Mirror surfaces: name, grid, length of the list of reflectivities.      *)
HtccMirrorSurface == [name |-> "htcc_AlMgF2", grid |-> HtccTables.PENERGY_MIRR, reflectivity |-> 46]
LtccMirrorSurface == [name |-> "ltcc_AlMgF2", grid |-> LtccTables.PENERGY_PMT, reflectivity |-> 49]

Surfaces(detector) == CASE detector = "htcc" -> {HtccMirrorSurface}
                        [] detector = "ltcc" -> {LtccMirrorSurface}
                        [] OTHER -> {}

MaterialsOf ==
    [beamline |-> BeamlineMaterials, magnets |-> MagnetsMaterials, ft |-> FtMaterials,
     htcc |-> HtccMaterials, ltcc |-> LtccMaterials, dc |-> DcMaterials,
     ec |-> CalorimeterMaterials, pcal |-> CalorimeterMaterials, ftof |-> FtofMaterials]

(* What GEMC knows without being told (external): Geant4's materials, its  *)
(* optical air, and the elements.                                          *)
BuiltIn == {"G4_AIR", "G4_AIR_Optical", "G4_Al", "G4_Ar", "G4_C", "G4_CARBON_DIOXIDE", "G4_Cr",
            "G4_Cu", "G4_F", "G4_Fe", "G4_GRAPHITE", "G4_Galactic", "G4_H", "G4_KAPTON", "G4_MYLAR",
            "G4_Mg", "G4_Mn", "G4_Mo", "G4_N", "G4_Ni", "G4_O", "G4_P",
            "G4_PLASTIC_SC_VINYLTOLUENE", "G4_Pb", "G4_PbWO4", "G4_SILICON_DIOXIDE",
            "G4_STAINLESS-STEEL", "G4_Si", "G4_TITANIUM_DIOXIDE", "G4_W"}
Elements == {"H", "C", "N", "O"}

Range(s) == {s[i] : i \in DOMAIN s}
MaterialNames(detector) == {m.name : m \in Range(MaterialsOf[detector])}
=============================================================================
