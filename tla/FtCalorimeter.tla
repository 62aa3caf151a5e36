---------------------------- MODULE FtCalorimeter ----------------------------
(***************************************************************************)
(* The calorimeter of the forward tagger (ft/geometry.py, FTCAL): crystals *)
(* in a copper envelope, motherboard and LED plate around it, and outside  *)
(* the tungsten cup, insulation and shell, cones that widen with the       *)
(* distance from the target.  Every length hangs on the ones before it.    *)
(***************************************************************************)
EXTENDS GVolumes

(* Crystal, its wrapping and the housings in front and behind.             *)
CWidth == 15000
CLength == 200000
FLength == 8000
VWidth == CWidth + 130 + 170
VLength == CLength + FLength
VFront == 1897800 - FLength
SLength == 7000
SFront == VFront + VLength + 1000

(* The copper envelope, the preamplifier plate and the boards.             *)
BDiskTn == 4000
BDiskIr == 55000
BDiskOr == 178500
BDiskZ == SFront + SLength + BDiskTn + 100
FDiskTn == 1000
FDiskZ == VFront - FDiskTn - 100
BPlateTn == 25000
BPlateZ == BDiskZ + BDiskTn + BPlateTn + 100
IDiskLt == (BPlateZ + BPlateTn - FDiskZ + FDiskTn) \div 2
IDiskIr == BDiskIr - 4000
IDiskZ == (BPlateZ + BPlateTn + FDiskZ - FDiskTn) \div 2
ODiskOr == BDiskOr + 2000
BMtbTn == 1000
BMtbZ == BPlateZ + BPlateTn + BMtbTn + 100
LedTn == 6100
LedZ == FDiskZ - FDiskTn - LedTn - 100

(* The cup's opening angle: radius over distance from the target.          *)
Cone(z) == ((z \div 10) * 962) \div 1000

BLineMr == 40000
BLineOr == 100000
BCupZm == BMtbZ + BMtbTn + 100 + 43400
BCupZ1 == BMtbZ + BMtbTn + 100 + 1000
BCupZ2 == BMtbZ - BMtbTn - 100 - 1000
BCupZe == BCupZm + 5000
BCupZb == BCupZm - 120000
BCupIr == 190000

(* The motherboard's four ears pass through gaps of the middle pieces;     *)
(* 12.9 degrees is int(atan(40 / 180.5) * 572.7) / 10 + 0.5.               *)
EarAngles == <<3000, 15000, 21000, 33000>>
CupStarts == [i \in 1 .. 4 |-> EarAngles[i] + 1290]
CupDeltas == [i \in 1 .. 4 |-> IF i % 2 = 1 THEN (9000 - CupStarts[1]) * 2
                               ELSE (18000 - CupStarts[2]) * 2]

(* Planes of the insulation and of the shell around it; index 1 is the     *)
(* code's index 0.                                                         *)
TPlateTn == 20000
InsTn == 14990
InsZ == LET z0 == FDiskZ - FDiskTn - 2 * LedTn - 10800 - InsTn
            z7 == BCupZe + 10
            z9 == z7 + InsTn
        IN  <<z0, z0 + InsTn, BCupZb, BCupZ2, BCupZ1, BCupZm, BCupZe, z7, z9, z9, z9 + TPlateTn>>
InsI == [i \in 1 .. 11 |->
            CASE i \in {1, 9} -> BLineMr + 10
              [] i \in {4, 5} -> Cone(InsZ[i]) + 500
              [] i = 11 -> Cone(InsZ[10]) + 10
              [] OTHER -> Cone(InsZ[i]) + 10]
InsO == [i \in 1 .. 11 |-> IF i <= 9 THEN Cone(InsZ[i]) + 10 + InsTn ELSE InsI[i] + InsTn]

ShellTn == 1990
ShellZ == LET z0 == InsZ[1] - ShellTn - 10
              z10 == InsZ[11] + 10
          IN  <<z0, z0 + ShellTn, InsZ[3], BCupZ2, BCupZ1>> \o SubSeq(InsZ, 6, 10)
                  \o <<z10, z10, z10 + ShellTn>>
ShellI == LET inner(i) == Cone(ShellZ[i]) + InsTn + 10
          IN  [i \in 1 .. 13 |->
                  CASE i = 1 -> InsI[1]
                    [] i \in {4, 5} -> Cone(ShellZ[i]) + InsTn + 700
                    [] i \in {12, 13} -> inner(11) - InsTn - 5000
                    [] OTHER -> inner(i)]
ShellO == LET outer(i) == Cone(ShellZ[i]) + InsTn + 10 + ShellTn
          IN  [i \in 1 .. 13 |-> outer(Least(i, 11))]

(* The rear plate and the mother's opening behind it.                      *)
TPlateZ1 == InsZ[9] + 10
TPlateZ2 == TPlateZ1 + TPlateTn - 10
TPlateZm == TPlateZ2 - 12000
TPlateMr == BLineMr + 12000
BLineZ4 == TPlateZ2 + 10
BLineZ5 == BLineZ4 - 10 + 20000

-----------------------------------------------------------------------------
FtCal == <<"ft_cal">>
CrystalsMother == <<"ft_calCrystalsMother">>

CalorimeterMothers ==
    {With(Volume(FtCal, Root, "G4_AIR"),
          Polycone(Cones(<<ShellZ[1], 2098000, TPlateZm, BLineZ4, BLineZ4, BLineZ5>>,
                         <<BLineMr, BLineMr, BLineMr, TPlateMr, BLineOr, BLineOr>>,
                         <<700000, 700000, 238000, 238000, 238000, 238000>>))),
     With(Volume(CrystalsMother, FtCal, "G4_AIR"),
          Polycone(Cones(<<IDiskZ - IDiskLt, IDiskZ + IDiskLt>>, <<IDiskIr, IDiskIr>>,
                         <<ODiskOr, ODiskOr>>)))}

(* The crystals of a 22 by 22 grid whose centres lie in a ring; twice the  *)
(* squared distance from the axis, in units of 50 um.                      *)
Grid == 1 .. 22
Offset(i) == ((2 * i - 23) * VWidth) \div 2
Accepted(ix, iy) ==
    LET d2 == Sq(Offset(ix)) + Sq(Offset(iy))
    IN  Sq(60000) < d2 /\ d2 < Sq(11 * VWidth)

CrystalAssembly(ix, iy) ==
    LET mother == <<"ft_cal_cr_motherVolume", ix, iy>>
        wrap == <<"ft_cal_cr_wrap", ix, iy>>
        Square(width, half) == Box(width \div 2, width \div 2, half)
        Part(name, in, material, solid, z) == At(With(Volume(name, in, material), solid), 0, 0, z)
    IN  {At(With(Volume(mother, CrystalsMother, "G4_AIR"), Square(VWidth, VLength \div 2)),
            Offset(ix), Offset(iy), VFront + VLength \div 2),
         At(With(Volume(<<"ft_cal_cr_apd", ix, iy>>, CrystalsMother, "ft_peek"),
                 Square(CWidth, SLength \div 2)),
            Offset(ix), Offset(iy), SFront + SLength \div 2),
         Part(wrap, mother, "G4_MYLAR", Square(CWidth + 130, VLength \div 2), 0),
         Sensitive(Part(<<"ft_cal_cr", ix, iy>>, wrap, "G4_PbWO4", Square(CWidth, CLength \div 2),
                        FLength \div 2),
                   "ft_cal", <<ix, iy>>),
         Part(<<"ft_cal_cr_ledHousing", ix, iy>>, wrap, "ft_peek", Square(CWidth, FLength \div 2),
              FLength \div 2 - VLength \div 2)}

Crystals == UNION {CrystalAssembly(g[1], g[2]) : g \in {g \in Grid \X Grid : Accepted(g[1], g[2])}}

CalorimeterFlux ==
    {Sensitive(At(With(Volume(<<"ft_cal_flux">>, CrystalsMother, "G4_Galactic"),
                       Tube(BDiskIr, BDiskOr, 500)), 0, 0, VFront + VLength + 500),
               "flux", <<3>>),
     Sensitive(At(With(Volume(<<"moller_disk_1">>, Root, "G4_Galactic"), Tube(56000, 150000, 50)),
                  0, 0, ShellZ[1] - 50),
               "flux", <<2>>)}

CalorimeterCopper ==
    LET Piece(name, z, ri, ro, half, material) ==
            At(With(Volume(name, CrystalsMother, material), Tube(ri, ro, half)), 0, 0, z)
    IN  {Piece(<<"ft_cal_back_copper">>, BDiskZ, BDiskIr, BDiskOr, BDiskTn, "G4_Cu"),
         Piece(<<"ft_cal_front_copper">>, FDiskZ, BDiskIr, BDiskOr, FDiskTn, "G4_Cu"),
         Piece(<<"ft_cal_inner_copper">>, IDiskZ, IDiskIr, BDiskIr, IDiskLt, "G4_Cu"),
         Piece(<<"ft_cal_outer_copper">>, IDiskZ, BDiskOr, ODiskOr, IDiskLt, "G4_Cu"),
         Piece(<<"ft_cal_back_plate">>, BPlateZ, BDiskIr, BDiskOr, BPlateTn, "G4_AIR")}

(* An ear reaches from the disk out to 408 mm and, being 80 mm wide, stays *)
(* within 12.65 degrees of its own angle; y is negated, which maps the     *)
(* four angles onto themselves.                                            *)
CalorimeterMotherboard ==
    {At(With(Volume(<<"ft_cal_back_mtb">>, FtCal, "pcboard"), Tube(IDiskIr, ODiskOr, BMtbTn)),
        0, 0, BMtbZ),
     At(With(Volume(<<"ft_cal_led">>, FtCal, "ft_peek"), Tube(BDiskIr, BDiskOr, LedTn)),
        0, 0, LedZ)}
    \cup {At(With(Volume(<<"ft_cal_back_mtb_h", i - 1>>, FtCal, "pcboard"),
                  Sector(<< <<-BMtbTn, ODiskOr, 408000>>, <<BMtbTn, ODiskOr, 408000>> >>,
                         EarAngles[i] - 1265, 2530)), 0, 0, BMtbZ) : i \in 1 .. 4}

(* The four middle pieces of cup, insulation and shell share a form.       *)
MiddlePieces(stem, material, z, inner, outer) ==
    {With(Volume(<<stem, i>>, FtCal, material),
          Sector(Cones(z, inner, outer), CupStarts[i], CupDeltas[i])) : i \in 1 .. 4}

Cup(name, material, z, inner, outer) ==
    With(Volume(name, FtCal, material), Polycone(Cones(z, inner, outer)))

CalorimeterShielding ==
    {Cup(<<"ft_cal_tcup_back">>, "ft_W", <<BCupZ1, BCupZm>>, <<BCupIr, BCupIr>>,
         <<Cone(BCupZ1), Cone(BCupZm)>>),
     Cup(<<"ft_cal_tcup_plate">>, "G4_STAINLESS-STEEL", <<BCupZm, BCupZe>>,
         <<IDiskIr - 100, IDiskIr - 100>>, <<Cone(BCupZm), Cone(BCupZe)>>),
     Cup(<<"ft_cal_tcup_front">>, "ft_W", <<BCupZb, BCupZ2>>, <<BCupIr, BCupIr>>,
         <<Cone(BCupZb), Cone(BCupZ2)>>),
     With(Volume(<<"ft_cal_inner_ins">>, FtCal, "insfoam"),
          TubeAround(InsI[1], IDiskIr - 100, BCupZe + InsZ[2], BCupZe - InsZ[2] - 100)),
     Cup(<<"ft_cal_tplate">>, "ft_W", <<TPlateZ1, TPlateZm, TPlateZ2>>,
         <<BLineMr, BLineMr, TPlateMr>>, [i \in 1 .. 3 |-> Cone(TPlateZ1)])}
    \cup MiddlePieces("ft_cal_tcup_m", "ft_W", <<BCupZ1, BCupZ2>>, <<BCupIr, BCupIr>>,
                      <<Cone(BCupZ1), Cone(BCupZ2)>>)

(* Front and rear parts take planes by index; a plane twice is a step.     *)
SegmentedPolycones(stem, middle, material, z, inner, outer, backZ, backI, backO) ==
    LET Pick(list, indices) == [i \in DOMAIN indices |-> list[indices[i] + 1]]
    IN  {Cup(<<stem, "f">>, material, Pick(z, <<0, 1, 1, 2, 3>>), Pick(inner, <<0, 0, 1, 2, 3>>),
             Pick(outer, <<0, 1, 1, 2, 3>>)),
         Cup(<<stem, "b">>, material, Pick(z, backZ), Pick(inner, backI), Pick(outer, backO))}
        \cup MiddlePieces(middle, material, <<z[5], z[4]>>, <<inner[5], inner[4]>>,
                          <<outer[5], outer[4]>>)

Insulation ==
    SegmentedPolycones("ft_cal_outer_ins", "ft_cal_outer_ins_m", "insfoam",
                       InsZ, InsI, InsO,
                       <<4, 5, 6, 7, 7, 8, 9, 10>>, <<4, 5, 6, 7, 8, 8, 9, 10>>,
                       <<4, 5, 6, 7, 7, 8, 9, 10>>)

Shell == LET all == [i \in 1 .. 9 |-> i + 3]
         IN  SegmentedPolycones("ft_cal_outer_shell", "ft_cal_outer_shell_m", "carbonFiber",
                                ShellZ, ShellI, ShellO,
                                all, all, all)

Calorimeter == CalorimeterMothers \cup Crystals \cup CalorimeterFlux \cup CalorimeterCopper
                   \cup CalorimeterMotherboard \cup CalorimeterShielding \cup Insulation \cup Shell
=============================================================================
