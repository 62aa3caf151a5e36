---------------------------- MODULE HtccGeometry ----------------------------
(***************************************************************************)
(* The high threshold Cherenkov counter (htcc/geometry.py): the gas volume *)
(* and its windows, 48 mirrors (sector i of 6, half k of 2, mirror j of 4) *)
(* that are each cut out of a barrel by a chain of Boolean solids, 48      *)
(* photomultipliers and 48 Winston cones, all named after the sector and   *)
(* half they belong to, which is not the order they are built in.          *)
(***************************************************************************)
EXTENDS GVolumes

Htcc == <<"htcc">>
MirrorSurface == "htcc_AlMgF2"

ConfigZShift == [default |-> 0, rga_spring2018 |-> -10000, rga_fall2018 |-> -19400]

SectorOf(i, half) == IF half = 1 THEN ((i + 2) % 6) + 1 ELSE ((i + 1) % 6) + 1
HtccName(element, i, j, half) == <<element, 4 - j, SectorOf(i, half), half>>

-----------------------------------------------------------------------------
(* The three CAD cones, the extension nudged by a millimetre.              *)
CadCones == {"htccMollerConeExt", "htccMollerCone", "htccCone"}
HtccCad(variation) ==
    {At(Volume(<<name>>, Root, "rohacell31"), 0, 0,
        ConfigZShift[variation] + (IF name = "htccMollerConeExt" THEN 1000 ELSE 0)) : name \in CadCones}

(* The gas volume is the big volume without what the entry dish leaves of  *)
(* the entry cone; the windows stand on either side of it.                 *)
HtccMother(variation) ==
    LET shift == ConfigZShift[variation]
        Window(name, z, ri, ro) ==
            At(With(Volume(<<name>>, Root, "HTCCCompositeWindow"), Tube(ri, ro, 75)), 0, 0, z + shift)
        big == <<"htccBigGasVolume">>
        dish == <<"htccEntryDishVolume">>
        cone == <<"htccEntryConeVolume">>
        rest == <<"htccEntryDishCone">>
    IN  {Component(big, Root), Component(dish, Root), Component(cone, Root),
         Boolean(Component(rest, Root), dish, cone),
         At(Boolean(Volume(Htcc, Root, "HTCCgas"), big, rest), 0, 0, shift),
         Window("htccExitWindow", 1750000, 140311, 1447800),
         Window("htccEntryWindow", 380000, 33000, 278000)}

-----------------------------------------------------------------------------
(* Mirrors.  The code turns the y axis by -phirot, so a mirror looks along *)
(* the azimuth 90 degrees minus phirot, which the code keeps within -pi.   *)
PhiRot(i, k) == LET p == -1500 * (2 * k - 1) - 6000 * i
                IN  IF p < -18000 THEN p + 36000 ELSE p
Azimuth(i, k) == (9000 - PhiRot(i, k)) % 36000

(* The wedge of a half sector, less a gap of a milliradian.                *)
PhiCutStart(i, k) == LET p == 9000 + 1500 * (2 * k - 2) + 6000 * i
                     IN  IF p > 36000 THEN p - 36000 ELSE p

(* The second focus of the ellipsoid of mirror j.                          *)
FocusR == <<1613030, 1788692, 1902407, 1946947>>
FocusZ == <<-62047, 163333, 425482, 707739>>

(* The plane between mirrors m and m + 1, which faces the middle of its    *)
(* half sector: p2 and p3 are as far from the axis, 30 degrees apart.      *)
DividingPlane(i, k, m) ==
    [plane |-> m, azimuth |-> ((IF k = 0 THEN 7500 ELSE 10500) + i * 6000) % 36000]

(* A box on one side of a dividing plane, to be taken away.                *)
BoxCut(name, plane, side) ==
    With(Aimed(Component(name, Htcc), plane.azimuth, 0, 0),
         [kind |-> "cut", plane |-> plane.plane, side |-> side])

MirrorName(stem, i, j, k) == <<stem, i, j, k>>
HalfName(stem, i, k) == <<stem, i, k>>

MirrorPart(stem, i, j, k, a, b) == Boolean(Component(MirrorName(stem, i, j, k), Htcc), a, b)

(* Mutant: the wedge is named after the ring.                              *)
FinalMirror_RingsWedge(i, j, k, last) ==
    Mirrored(Boolean(Volume(HtccName("mirror", i, j, ((k + 1) % 2) + 1), Htcc, "rohacell31"),
                     last, HalfName("phicut", i, j)), MirrorSurface)

FinalMirror(i, j, k, last) ==
    Mirrored(Boolean(Volume(HtccName("mirror", i, j, ((k + 1) % 2) + 1), Htcc, "rohacell31"),
                     last, HalfName("phicut", i, k)), MirrorSurface)

MirrorBottom(i, k) ==
    LET N(stem) == MirrorName(stem, i, 0, k)
    IN  {BoxCut(N("Boxcut12"), DividingPlane(i, k, 1), "below"),
         MirrorPart("MirrorBoxCut", i, 0, k, N("BarrelEllipseCut"), N("Boxcut12")),
         MirrorPart("MirrorCylinderCut", i, 0, k, N("MirrorBoxCut"), <<"HTCC_OuterCutCylinder">>),
         FinalMirror(i, 0, k, N("MirrorCylinderCut"))}

MirrorMiddle(i, j, k) ==
    LET N(stem) == MirrorName(stem, i, j, k)
    IN  {BoxCut(N("Boxcut_up"), DividingPlane(i, k, IF j = 1 THEN 1 ELSE 2), "above"),
         BoxCut(N("Boxcut_down"), DividingPlane(i, k, IF j = 1 THEN 2 ELSE 3), "below"),
         MirrorPart("MirrorBoxCut_up", i, j, k, N("BarrelEllipseCut"), N("Boxcut_up")),
         MirrorPart("MirrorBoxCut_down", i, j, k, N("MirrorBoxCut_up"), N("Boxcut_down")),
         FinalMirror(i, j, k, N("MirrorBoxCut_down"))}

MirrorTop(i, k) ==
    LET N(stem) == MirrorName(stem, i, 3, k)
    IN  {BoxCut(N("Boxcut_up"), DividingPlane(i, k, 3), "above"),
         MirrorPart("MirrorBoxCut_up", i, 3, k, N("BarrelEllipseCut"), N("Boxcut_up")),
         MirrorPart("MirrorConeCut", i, 3, k, N("MirrorBoxCut_up"), <<"HTCC_InnerCutCone">>),
         FinalMirror(i, 3, k, N("MirrorConeCut"))}

HtccMirrors ==
    LET Barrel(i, k) == Aimed(Component(HalfName("Barrel_sect", i, k), Htcc), Azimuth(i, k), 0, 0)
        PhiCut(i, k) == With(Aimed(Component(HalfName("phicut", i, k), Htcc),
                                   (PhiCutStart(i, k) + 1500) % 36000, 0, 0),
                             Sector(<< <<1000000, 0, 1500000>>, <<2000000, 0, 1500000>> >>,
                                    PhiCutStart(i, k), 2994))
        Ellipsoid(i, j, k) == Aimed(Component(MirrorName("Mirror", i, j, k), Htcc),
                                    Azimuth(i, k), FocusR[j + 1], FocusZ[j + 1])
        Ellipse(i, j, k) == MirrorPart("BarrelEllipseCut", i, j, k, HalfName("Barrel_sect", i, k),
                                       MirrorName("Mirror", i, j, k))
        Half(i, k) == {Barrel(i, k), PhiCut(i, k)}
                          \cup UNION {{Ellipsoid(i, j, k), Ellipse(i, j, k)} : j \in 0 .. 3}
                          \cup MirrorBottom(i, k) \cup MirrorMiddle(i, 1, k) \cup MirrorMiddle(i, 2, k)
                          \cup MirrorTop(i, k)
    IN  {Component(<<"HTCC_OuterCutCylinder">>, Htcc), Component(<<"HTCC_InnerCutCone">>, Htcc)}
            \cup UNION {Half(i, k) : i \in 0 .. 5, k \in 0 .. 1}

-----------------------------------------------------------------------------
(* The focal points again, in numbers of their own: x, y of the left half  *)
(* (all at 75 degrees) and, with -x, of the right half.                    *)
FocalR == <<1613030, 1788692, 1902407, 1946948>>
(* Mutant: two rings exchanged in the second table.                        *)
FocalZ_Transposed == <<-62047, 425482, 163333, 707739>>

FocalZ == <<-62047, 163333, 425482, 707739>>
LeftAzimuth == 7500
RightAzimuth == 10500

BuildPmt(i, j, half, azimuth) ==
    Sensitive(Aimed(Volume(HtccName("pmt", i, j, half), Htcc, "HTCCPMTQuartz"),
                    (azimuth + 6000 * i) % 36000, FocalR[j + 1], FocalZ[j + 1]),
              "htcc", <<SectorOf(i, half), 4 - j, half>>)

BuildWcShell(i, j, half, azimuth) ==
    LET Wc(part) == HtccName(part, i, j, half)
        There(v) == Aimed(v, (azimuth + 6000 * i) % 36000, FocalR[j + 1], FocalZ[j + 1])
    IN  {Component(Wc("wcinner"), Htcc), There(Component(Wc("wcouter"), Htcc)),
         Mirrored(There(Boolean(Volume(Wc("wc"), Htcc, "G4_Al"), Wc("wcouter"), Wc("wcinner"))),
                  MirrorSurface)}

(* Half 1, the left one, takes the right arrays, and the other way round.  *)
HtccPmts ==
    UNION {{BuildPmt(i, j, 1, RightAzimuth), BuildPmt(i, j, 2, LeftAzimuth)}
               \cup BuildWcShell(i, j, 1, RightAzimuth) \cup BuildWcShell(i, j, 2, LeftAzimuth) :
               i \in 0 .. 5, j \in 0 .. 3}
=============================================================================
