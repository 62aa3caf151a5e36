---------------------------- MODULE FtTracker ----------------------------
(***************************************************************************)
(* Hodoscope and Micromegas tracker of the forward tagger (ft/geometry.py, *)
(* FTHODO and FTTRK): two layers of wrapped scintillator tiles, and two    *)
(* disks of thin layers with an X and a Y side, whose z offsets add up the *)
(* half thicknesses listed once.                                           *)
(***************************************************************************)
EXTENDS FtCalorimeter

VetoTn == 19000
VetoOr == 178500
VetoIr == 40000
(* Mutant: a half length is halved again.                                  *)
VetoZ_HalfOff == ShellZ[1] - VetoTn \div 2 - 100

VetoZ == ShellZ[1] - VetoTn - 100
VetoRingTn == 18500
VetoRingOr == 52500
VetoRingZ == ShellZ[1] - VetoRingTn - 100
TileWidth == 15000
PaintTn == 100

(* Tile centres in quarters of the pitch and widths in tiles, for odd and  *)
(* even sectors.                                                           *)
S1X == <<13, 10, 17, 14, 10, 18, 14, 10, 7>>
S1Y == <<17, 18, 13, 14, 14, 10, 10, 10, 7>>
S1W == <<1, 2, 1, 2, 2, 2, 2, 2, 1>>
S2X == <<6, 2, -2, -6, 6, 2, -2, -6, 6, 2, -2, -6, 7, 5, 3, 1, -1, -3, -5, -7>>
S2Y == <<20, 20, 20, 20, 16, 16, 16, 16, 12, 12, 12, 12, 9, 9, 9, 9, 9, 9, 9, 9>>
S2W == [i \in 1 .. 20 |-> IF i <= 12 THEN 2 ELSE 1]

Hodo == <<"ft_hodo">>
HodoInner == <<"ft_hodo_innervol">>

HodoscopeMothers ==
    {With(Volume(Hodo, Root, "G4_AIR"),
          Polycone(Cones(<<VetoZ - VetoTn, 1810600, 1810600, VetoZ + VetoTn>>,
                         <<VetoRingOr, VetoRingOr, VetoIr, VetoIr>>,
                         [i \in 1 .. 4 |-> VetoOr]))),
     At(With(Volume(HodoInner, Hodo, "G4_AIR"), Tube(VetoRingOr, VetoOr, VetoTn)), 0, 0, VetoZ),
     At(With(Volume(<<"ft_hodo_ring">>, Hodo, "ft_peek"), Tube(VetoIr, VetoRingOr, VetoRingTn)),
        0, 0, VetoRingZ)}

(* Numbers written one behind the other, as the tile names do.             *)
Digits(a, b) == IF b < 10 THEN 10 * a + b ELSE 100 * a + b

Turned(quadrant, x, y) == CASE quadrant = 0 -> <<x, y>>
                            [] quadrant = 1 -> <<-y, x>>
                            [] quadrant = 2 -> <<-x, -y>>
                            [] quadrant = 3 -> <<y, -x>>

HodoscopeSector(layer, sector, quadrant, z, tileHalf, paintedHalf, xs, ys, ws) ==
    LET quarter == (TileWidth + 2 * PaintTn) \div 2
        Tile(i) ==
            LET at == Turned(quadrant, xs[i] * quarter, ys[i] * quarter)
                n == Digits(Digits(sector, layer), i)
                short == ws[i] = 1
                wrap == IF short THEN <<"ft_hodo_p15_", n>> ELSE <<"ft_hodo_p30_", n>>
                tile == IF short THEN <<"ft_hodo_p15_tile_", n>> ELSE <<"ft_hodo_p30_tile_", n>>
                Half(width) == (ws[i] * width) \div 2
            IN  {At(With(Volume(wrap, HodoInner, "G4_MYLAR"),
                         Box(Half(TileWidth + 2 * PaintTn), Half(TileWidth + 2 * PaintTn),
                             paintedHalf)), at[1], at[2], z),
                 Sensitive(With(Volume(tile, wrap, "scintillator"),
                                Box(Half(TileWidth), Half(TileWidth), tileHalf)),
                           "ft_hodo", <<sector, layer, i>>)}
    IN  UNION {Tile(i) : i \in DOMAIN xs}

HodoscopeLayer(layer, thickness, bottom) ==
    LET skin == 250
        painted == thickness \div 2 + PaintTn
        z == bottom + 2 * skin + painted
    IN  {At(With(Volume(<<"ft_hodo_L", layer>>, HodoInner, "carbonFiber"),
                 Tube(VetoRingOr, VetoOr, skin)), 0, 0, bottom + skin)}
        \cup UNION {HodoscopeSector(layer, 1 + 2 * q, q, z, thickness \div 2, painted, S1X, S1Y, S1W)
                        \cup HodoscopeSector(layer, 2 + 2 * q, q, z, thickness \div 2, painted,
                                             S2X, S2Y, S2W) : q \in 0 .. 3}

(* The second layer starts where the first one ends.                       *)
Hodoscope ==
    HodoscopeMothers \cup HodoscopeLayer(1, 7000, -VetoTn)
        \cup HodoscopeLayer(2, 15000, -VetoTn + 2 * 250 + 2 * (7000 \div 2 + PaintTn))

-----------------------------------------------------------------------------
TrackerInner == 60000
TrackerOuter == 170000
TrackerZ0 == 1760000
TrackerZmin == 1770000
TrackerZmax == 1809000
TrackerZ4 == 1810600

PhotoresistDz == 32
AluminumRingsDz == 2500
DriftElectrodeDz == 6
Gas2Dz == AluminumRingsDz - DriftElectrodeDz
AssemblyDz == <<3900, 3900, 4500>>

(* Twice the half thicknesses, from the epoxy outwards: PCB, strips,       *)
(* Kapton, resistive strips, gas, mesh, photoresist and gas, drift         *)
(* electrode and board, ground, protection.                                *)
Thickness == <<100, 200, 12, 75, 20, 128, 18, 2 * (PhotoresistDz + Gas2Dz),
               2 * DriftElectrodeDz, 200, 5, 50>>

Zrel == LET sum[i \in 0 .. 12] == IF i = 0 THEN 0 ELSE sum[i - 1] + Thickness[i]
        IN  sum

LayerZ == LET first == 1774000 + Zrel[12]
          IN  <<first, first + 2 * Zrel[9] + 2 * AssemblyDz[3]>>

Trk == <<"ft_trk">>

(* A ring of a disk side: its layer's z, and the span of offsets from it,  *)
(* which run towards the target on the X side (1) and away on the Y side.  *)
Ring(name, material, layer, side, lower, upper, length, ri, ro) ==
    LET sign == IF side = 1 THEN -1 ELSE 1
    IN  With(Volume(name, Trk, material),
             TubeAround(ri, ro, 2 * LayerZ[layer] + sign * (lower + upper), length))

TrackerMother ==
    LET zmin == <<TrackerZ0, 1774000, 1805200, TrackerZmin>>
        zmax == <<1774000, 1805200, TrackerZ4, 1774000>>
        inner == <<40000, 40000, 40000, 59750>>
        outer == <<59750, 50000, 50000, 67000>>
    IN  {With(Volume(Trk, Root, "G4_AIR"),
              Polycone(Cones(<<TrackerZ0, TrackerZmin, TrackerZmin, TrackerZmax, TrackerZmax,
                               TrackerZ4>>,
                             [i \in 1 .. 6 |-> 40000],
                             <<59750, 59750, TrackerOuter, TrackerOuter, 50000, 50000>>)))}
        \cup {With(Volume(<<"ft_trk_support_R", i>>, Trk, "G4_Al"),
                   TubeAround(inner[i], outer[i], zmax[i] + zmin[i], zmax[i] - zmin[i])) : i \in 1 .. 4}

SimpleLayers ==
    { <<"epoxy", 0, 1, 100, TrackerInner, TrackerOuter, "epoxy">>,
      <<"pcboard", 1, 2, 200, TrackerInner, TrackerOuter, "myFR4">>,
      <<"strips", 2, 3, 12, 70430, 143660, "mmstrips">>,
      <<"resiststrips", 4, 5, 20, 70430, 143660, "ResistPaste">>,
      <<"gas1", 5, 6, 128, 71430, 143160, "mmgas">>,
      <<"mesh", 6, 7, 18, TrackerInner, TrackerOuter, "mmmesh">>,
      <<"driftel", 8, 9, 12, 70430, 143660, "G4_Cu">>,
      <<"drift", 9, 10, 200, TrackerInner, 158500, "myFR4">> }

TrackerKapton(layer, side) ==
    LET Annulus(ring, lower, upper, ro) ==
            Ring(<<"ft_trk_kapton_R", side, layer, ring>>, "G4_KAPTON", layer, side, lower, upper,
                 upper - lower, TrackerInner, ro)
    IN  {Annulus(1, Zrel[3], Zrel[4], TrackerOuter), Annulus(2, Zrel[11], Zrel[12], 158500)}

TrackerPhotoresist(layer, side) ==
    LET lower == <<Zrel[5], Zrel[5], Zrel[7], Zrel[7]>>
        last == Zrel[9] - 2 * AluminumRingsDz
        upper == <<Zrel[6], Zrel[6], last, last>>
        inner == <<TrackerInner, 143160, TrackerInner, 143160>>
        outer == <<71430, TrackerOuter, 71430, TrackerOuter>>
    IN  {Ring(<<"ft_trk_phrst_R", side, layer, i>>, "myPhRes", layer, side, lower[i], upper[i],
              upper[i] - lower[i], inner[i], outer[i]) : i \in 1 .. 4}

(* Two annuli and 25 extensions 15 degrees apart, but for the last two.    *)
TrackerRings(layer, side) ==
    LET lower == Zrel[7] + 2 * PhotoresistDz
        Aluminum(name, ri, ro) ==
            Ring(name, "G4_Al", layer, side, lower, Zrel[9], 2 * AluminumRingsDz, ri, ro)
        start(n) == CASE n = 24 -> -245 + 23 * 1500 - 500
                      [] n = 25 -> -245 + 24 * 1500 - 1500 + 500
                      [] OTHER -> -245 + (n - 1) * 1500
        Extension(n) == [Aluminum(<<"ft_trk_ring_E", side, layer, n>>, 158500, TrackerOuter)
                            EXCEPT !.solid.phi = <<start(n), start(n) + 490>>]
    IN  {Aluminum(<<"ft_trk_ring_R", side, layer, 1>>, 60000, 67000),
         Aluminum(<<"ft_trk_ring_R", side, layer, 2>>, 151500, 158500)}
        \cup {Extension(n) : n \in 1 .. 25}

TrackerDiskSide(layer, side) ==
    {Ring(<<"ft_trk_" \o l[1], side, layer>>, l[7], layer, side, Zrel[l[2]], Zrel[l[3]], l[4],
          l[5], l[6]) : l \in SimpleLayers}
    \cup {Sensitive(Ring(<<"ft_trk_gas2", side, layer>>, "mmgas", layer, side,
                         Zrel[7] + 2 * PhotoresistDz, Zrel[8], 2 * Gas2Dz, 67000, 151500),
                    "ft_trk", <<layer, side, 1, 1>>)}
    \cup TrackerKapton(layer, side) \cup TrackerPhotoresist(layer, side)
    \cup TrackerRings(layer, side)

(* The rings and branches between the disks; the branches are rotated.     *)
TrackerAssembly ==
    LET inner == <<60000, 158700, 163500>>
        outer == <<67000, 163500, 170000>>
        twiceZ == 2 * LayerZ[1] + 2 * Zrel[9] + 2 * AssemblyDz[3]
    IN  {With(Volume(<<"ft_trk_assembly_R", i>>, Trk, "G4_Al"),
              TubeAround(inner[i], outer[i], twiceZ, 2 * AssemblyDz[i])) : i \in 1 .. 3}
        \cup {Volume(<<"ft_trk_assembly_B", i>>, Trk, "G4_Al") : i \in 1 .. 3}

(* The electronics crates are placed in the calorimeter's mother.          *)
TrackerFeeBoxes ==
    LET x == 132750 - 1500
        y == 45500 - 1500
        z == 121000 - 1500
        FeeBox(i) ==
            LET box == <<"ft_trk_fee_box", i>>
                air == <<"ft_trk_fee_air", i>>
                Plane(name, material, dx, dy, dz) ==
                    With(Volume(name, air, material), Box(dx, dy, dz))
            IN  {Volume(box, FtCal, "G4_Al"),
                 With(Volume(air, box, "G4_AIR"), Box(x, y, z)),
                 Sensitive(At(Plane(<<"ft_trk_fee_flux_1", i>>, "G4_Galactic", x - 1000, y - 1000,
                                    500), 0, 0, 500 - z), "flux", <<4>>),
                 Sensitive(At(Plane(<<"ft_trk_fee_flux_2", i>>, "G4_Galactic", x - 1000, 500,
                                    z - 1000), 0, -27300, 0), "flux", <<5>>),
                 Plane(<<"ft_trk_fee_dose", i>>, "scintillator", x - 5000, 5000, z - 5000)}
    IN  UNION {FeeBox(i) : i \in 0 .. 2}

Tracker == TrackerMother \cup UNION {TrackerDiskSide(l, s) : l \in 1 .. 2, s \in 1 .. 2}
               \cup TrackerAssembly \cup TrackerFeeBoxes

TrackerAbsent == {"rgk_winter2018", "rgf_spring2020", "rgc_summer2022", "rgd_fall2023"}
=============================================================================
