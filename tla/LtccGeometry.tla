---------------------------- MODULE LtccGeometry ----------------------------
(***************************************************************************)
(* The low threshold Cherenkov counter (ltcc/geometry.py).  A variation    *)
(* says which of the six sectors are there and which gas fills them; every *)
(* builder skips the absent ones for itself.  The shapes shared by all     *)
(* sectors are components under root, published whatever sectors there     *)
(* are.  CAD meshes stand in sector 3 and are copied from there.           *)
(***************************************************************************)
EXTENDS GVolumes

NMirrors == 18
Sectors == 1 .. 6
Sides == {"right", "left"}
Surface == "ltcc_AlMgF2"

All == [s \in Sectors |-> "C4F10"]
SectorConfig ==
    [default |-> [present |-> Sectors, gas |-> All],
     rga_spring2018 |-> [present |-> {2, 3, 5, 6}, gas |-> <<"na", "N2", "N2", "na", "C4F10", "N2">>],
     rga_fall2018 |-> [present |-> {3, 5}, gas |-> <<"na", "na", "C4F10", "na", "N2", "na">>],
     rgb_spring2019 |-> [present |-> {3, 5}, gas |-> <<"na", "na", "C4F10", "na", "C4F10", "na">>],
     rgb_spring2020 |-> [present |-> {3, 5}, gas |-> <<"na", "na", "C4F10", "na", "C4F10", "na">>],
     rgm_fall2021_H |-> [present |-> {2, 3, 5, 6}, gas |-> <<"na", "N2", "N2", "na", "N2", "N2">>]]

LtccS(sector) == <<"ltccS", sector>>

(* The side of the sector's middle plane a channel lies on: the sign of x. *)
OnSide(v, side) == Aimed(v, IF side = "right" THEN 1 ELSE -1, 0, 0)

LtccBox(c) ==
    LET Gas(sector) == Boolean(Volume(LtccS(sector), Root, c.gas[sector]),
                               <<"ltcc_big_box">>, <<"ltccTrap">>)
    IN  {Component(<<"ltccTrap">>, Root), Component(<<"ltcc_big_box">>, Root)}
            \cup {Gas(sector) : sector \in c.present}

(* Segment 18 has neither a cylindrical mirror nor a shield nor a cone.    *)
CylMirrors(c) ==
    {OnSide(Mirrored(Volume(<<"cyl_mirrors_s", sector, side, n>>, LtccS(sector), "G4_Al"), Surface),
            side) : sector \in c.present, side \in Sides, n \in 1 .. NMirrors - 1}

(* A segment holds the mirrors of both sides and is published after them.  *)
HypMirrors(c) ==
    LET Shared(stem, n) == Component(<<stem, n>>, Root)
        Shapes(n) ==
            {Shared("hyperbolic_", n), Shared("right_sbox_", n), Shared("left_sbox_", n),
             Boolean(Shared("hyperbolix_rbox_", n), <<"hyperbolic_", n>>, <<"left_sbox_", n>>),
             Shared("segment_hyp_box_", n), Shared("segment_hyp_subtract_box_", n)}
        Segment(sector, n) ==
            Boolean(Volume(<<"segment_hyp_s", sector, n>>, LtccS(sector), c.gas[sector]),
                    <<"segment_hyp_box_", n>>, <<"segment_hyp_subtract_box_", n>>)
        HypMirror(sector, side, n) ==
            OnSide(Mirrored(Boolean(Volume(<<"hyp_mirror_s", sector, side, n>>,
                                           <<"segment_hyp_s", sector, n>>, "G4_Al"),
                                    <<"hyperbolix_rbox_", n>>, <<"right_sbox_", n>>), Surface), side)
    IN  UNION {Shapes(n) : n \in 1 .. NMirrors}
            \cup {Segment(sector, n) : sector \in c.present, n \in 1 .. NMirrors}
            \cup {HypMirror(sector, side, n) :
                      sector \in c.present, side \in Sides, n \in 1 .. NMirrors}

(* Shells of a segment, cut to the span of each side's mirror.             *)
EllMirrors(c) ==
    LET Shared(stem, n) == Component(<<stem, n>>, Root)
        SharedSide(stem, side, n) == Component(<<stem, side, n>>, Root)
        Boxes(n) == {Shared("segment_ell_box_", n), Shared("segment_ell_subtract_box_", n)}
        Segment(sector, n) ==
            Boolean(Volume(<<"segment_ell_s", sector, n>>, LtccS(sector), c.gas[sector]),
                    <<"segment_ell_box_", n>>, <<"segment_ell_subtract_box_", n>>)
        Shells(n) == {Shared("el_outer_shell_", n), Shared("el_inner_shell_", n)}
        EllTube(side, n) == Boolean(SharedSide("ellipse_tube_", side, n), <<"el_outer_shell_", n>>,
                                    <<"el_inner_shell_", n>>)
        Mirror(sector, side, n) ==
            Mirrored(Boolean(Volume(<<"el_mir_s", sector, side, n>>, <<"segment_ell_s", sector, n>>,
                                    "G4_AIR_Optical"),
                             <<"ellipse_tube_", side, n>>, <<"span_tube_", side, n>>), Surface)
    IN  UNION {Boxes(n) \cup Shells(n) : n \in 1 .. NMirrors}
            \cup UNION {{EllTube(side, n), SharedSide("span_tube_", side, n)} :
                            side \in Sides, n \in 1 .. NMirrors}
            \cup {Segment(sector, n) : sector \in c.present, n \in 1 .. NMirrors}
            \cup {Mirror(sector, side, n) :
                      sector \in c.present, side \in Sides, n \in 1 .. NMirrors}

LtccPmts(c) ==
    LET SideId(side) == IF side = "right" THEN 1 ELSE 2
    IN  {OnSide(Sensitive(Volume(<<"pmt_s", sector, side, n>>, LtccS(sector), "LTCCPMTGlass"),
                          "ltcc", <<sector, SideId(side), n>>), side) :
             sector \in c.present, side \in Sides, n \in 1 .. NMirrors}

(* Only the right shields' names have no underscore before the number.     *)
Shields(c) ==
    LET Final(sector, side, n) ==
            IF side = "right" THEN <<"final_shield_sright", sector, side, n>>
            ELSE <<"final_shield_s", sector, side, n>>
        Shield(sector, side, n) ==
            LET part == <<"shield_s", sector, side, n>>
                hole == <<"subtraction_shield_s", sector, side, n>>
            IN  {Component(part, LtccS(sector)), Component(hole, LtccS(sector)),
                 OnSide(Boolean(Volume(Final(sector, side, n), LtccS(sector), "G4_Fe"), part, hole),
                        side)}
    IN  UNION {Shield(sector, side, n) :
                  sector \in c.present, side \in Sides, n \in 1 .. NMirrors - 1}

Ltcc(variation) == LET c == SectorConfig[variation]
                   IN  LtccBox(c) \cup CylMirrors(c) \cup HypMirrors(c) \cup EllMirrors(c)
                           \cup LtccPmts(c) \cup Shields(c)

-----------------------------------------------------------------------------
(* The CAD bank.  Where the cones of segments 1 to 17 stand, from the      *)
(* parameters file.                                                        *)
WinstonAt ==
    [right |->
    << <<3908, 582255, 4461670>>, <<85543, 710102, 4411160>>, <<167449, 838417, 4366980>>,
       <<248912, 966779, 4317860>>, <<329657, 1092860, 4264920>>, <<409637, 1217850, 4207210>>,
       <<488928, 1341330, 4139430>>, <<564029, 1465780, 4070160>>, <<640618, 1593550, 4009100>>,
       <<717877, 1722220, 3935090>>, <<766113, 1845720, 3843620>>, <<847201, 1977530, 3754410>>,
       <<930427, 2127430, 3684480>>, <<1017050, 2269150, 3569850>>, <<1091530, 2416590, 3461310>>,
       <<1179290, 2553860, 3336820>>, <<1264030, 2687930, 3209710>> >>,
     left |->
    << <<-95397, 512011, 4416150>>, <<-177847, 639387, 4368080>>, <<-260299, 767026, 4326260>>,
       <<-342342, 894814, 4279550>>, <<-423719, 1020460, 4229040>>, <<-504345, 1145120, 4173790>>,
       <<-584350, 1268420, 4108530>>, <<-660086, 1392680, 4041800>>, <<-737359, 1520400, 3983300>>,
       <<-815403, 1649210, 3911980>>, <<-872134, 1766800, 3821560>>, <<-954279, 1899230, 3735450>>,
       <<-1056890, 2040720, 3670190>>, <<-1144280, 2183200, 3558040>>, <<-1216130, 2327390, 3446000>>,
       <<-1305820, 2466800, 3325590>>, <<-1391000, 2601340, 3199770>> >>]

(* The rows of stls/cad__default.yaml.                                     *)
FrameMaterial == [backwall |-> "G4_Al", rightwall |-> "G4_Al", leftwall |-> "G4_Al",
                  nose |-> "ltcc_nose"]
FrameZ == -699300
CadSources ==
    LET Cone(name, x, y, z) ==
            At(Mirrored(Volume(<<name>>, LtccS(3), "ltcc_WC_material"), Surface), x, y, z)
    IN  {Cone("WC_S", 3908, 582255, 4461670), Cone("WC_M", 766113, 1845720, 3843620),
         Cone("WC_L", 930427, 2127430, 3684480)}
            \cup {At(Volume(<<name>>, LtccS(3), FrameMaterial[name]), 0, 0, FrameZ) :
                      name \in DOMAIN FrameMaterial}

CopyOf(v, source) == [v EXCEPT !.copyOf = <<source>>]

FrameCopies(c) ==
    {At(CopyOf(Volume(<<"frame_" \o source, sector>>, LtccS(sector), FrameMaterial[source]), source),
        0, 0, FrameZ) : source \in DOMAIN FrameMaterial, sector \in c.present \ {3}}

(* The three places where the sources themselves stand get no copy.        *)
WinstonSourcePlacements == {<<3, "right", 1>>, <<3, "right", 11>>, <<3, "right", 13>>}

WinstonConeCopies(c) ==
    LET Source(n) == CASE n < 11 -> "WC_S" [] n \in 11 .. 12 -> "WC_M" [] OTHER -> "WC_L"
        Material(n) == IF n \in 11 .. 12 THEN "G4_PLASTIC_SC_VINYLTOLUENE" ELSE "G4_Cu"
        Cone(sector, side, n) ==
            LET at == WinstonAt[side][n]
            IN  OnSide(At(Mirrored(CopyOf(Volume(<<"cone_s", sector, side, n>>, LtccS(sector),
                                                 Material(n)), Source(n)), Surface),
                          at[1], at[2], at[3]), side)
        places == (c.present \X Sides \X (1 .. NMirrors - 1)) \ WinstonSourcePlacements
    IN  {Cone(p[1], p[2], p[3]) : p \in places}

LtccCad(variation) == LET c == SectorConfig[variation]
                      IN  CadSources \cup FrameCopies(c) \cup WinstonConeCopies(c)
=============================================================================
