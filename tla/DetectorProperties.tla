---------------------------- MODULE DetectorProperties ----------------------------
(***************************************************************************)
(* What a built detector must be like before a simulation can be run with  *)
(* it: properties of the bank a driver that went through has filled.       *)
(***************************************************************************)
EXTENDS DetectorBuild

Names == {v.name : v \in published}
Children(mother) == {v \in published : v.mother = mother}
Named(name) == CHOOSE v \in published : v.name = name

(* Components of Boolean solids and what was only drawn take no space.     *)
Placeable(volumes) == {v \in volumes : v.material # "Component" /\ v.solid.kind \in {"round", "box"}}

(* The pre-shield of rghFTOut stands inside the lead around the beam pipe: *)
(* geometry.py line 147, taken over from the Perl builders.                *)
KnownOverlap(v, w) ==
    \E a \in {"Cylinder", "SupportTube"} : {v.name, w.name} = {<<"FTPreShieldCylinder">>, <<a>>}

Apart3(volumes, others) ==
    \A v \in Placeable(volumes), w \in Placeable(others) :
        v.name = w.name \/ KnownOverlap(v, w) \/ Disjoint(Placed(v), Placed(w))

(* Two axial tubes, polycones or boxes in the same mother share no space,  *)
(* and each lies inside its mother: all the lengths that hang on one       *)
(* another in ft/geometry.py, and the pipe builders of                     *)
(* beamline/geometry.py for every variation.  The detectors that are       *)
(* loaded together for one run stand beside each other in the world as     *)
(* well: experiments/rga.yaml names them all, and the runs of default and  *)
(* rga_spring2018 are in every driver's table.                             *)
SharedVariations == {"default", "rga_spring2018"}
Beside == {"beamline", "magnets", "htcc", "ft"}
WorldOf(d, v) ==
    {w \in UNION {Built(d, v, Builders(d, v)[i]) : i \in DOMAIN Builders(d, v)} : w.mother = Root}
VolumesDoNotOverlap ==
    done =>
        /\ \A mother \in {v.mother : v \in published} :
              LET inside == Children(mother)
              IN  /\ Apart3(inside, inside)
                  /\ mother # Root =>
                        \A v \in Placeable(inside) : Holds(Named(mother).solid, Placed(v))
        /\ variation \in SharedVariations =>
              \A d \in Beside \ {detector} : Apart3(Children(Root), WorldOf(d, variation))

(* Two sensitive volumes with one digitization have different identifiers: *)
(* hits in different channels are never added up.  Only strips that are    *)
(* read out together share theirs: in EC the strips of one number and view *)
(* in all the layers of a stack, in PCAL the two singles of one pair or    *)
(* the double strip that stands for them and either of them, the pairs     *)
(* lying at the end of the U view and the beginning of the others          *)
(* (SinglesOf: the singles a volume stands for).  EC and PCAL, which share *)
(* "ecal", differ in the layer (ec/geometry.py, pcal/geometry.py           *)
(* build_strip).  Flux planes count particles and are no channels: those   *)
(* of the crates share two.                                                *)
Sensitives == {v \in published : v.digitization \notin {"", "flux"}}
EcalLayers == IF detector = "ec" THEN 4 .. 9 ELSE 1 .. 3
PairsFrom(u) == IF u = "U" THEN 52 ELSE 0
PairOf(u, k) == {PairsFrom(u) + 2 * k - 1, PairsFrom(u) + 2 * k}
SinglesOf(v, u) ==
    IF v.name[1] = u \o "-view_double_strip_" THEN PairOf(u, v.name[3]) ELSE {v.name[3]}
ReadTogether(v, w) ==
    /\ v.digitization = "ecal"
    /\ IF detector = "ec"
       THEN [v.name EXCEPT ![2] = 0] = [w.name EXCEPT ![2] = 0] /\ v.name[2] % 3 = w.name[2] % 3
       ELSE /\ v.mother = w.mother
            /\ \E u \in Uvw : /\ v.name[2] = LayerByUvw[u]
                             /\ \E k \in 1 .. DoubleStrips[u] :
                                    SinglesOf(v, u) \cup SinglesOf(w, u) \subseteq PairOf(u, k)
ChannelsAreDistinct ==
    done =>
        /\ \A v, w \in Sensitives :
              v.digitization = w.digitization /\ v.identifier = w.identifier =>
                 v = w \/ ReadTogether(v, w)
        /\ \A v \in Sensitives : v.digitization = "ecal" => v.identifier[2] \in EcalLayers

Chain == [n \in Names |-> Named(n).operands]
PartsOf(name) ==
    LET grow[i \in 0 .. 6] == IF i = 0 THEN {name}
                              ELSE grow[i - 1] \cup UNION {Chain[n] : n \in grow[i - 1]}
    IN  grow[6]
Near2(a, b) == a[1] = b[1] /\ a[2] - b[2] \in -2 .. 2 /\ a[3] - b[3] \in -2 .. 2
MirrorFacesItsPmt(m) ==
    LET Of(stem) == Named(<<stem, m.name[2], m.name[3], m.name[4]>>)
        parts == {Named(n) : n \in PartsOf(m.name)}
        ellipsoid == CHOOSE p \in parts : p.name[1] = "Mirror"
    IN  /\ Near2(Of("pmt").aim, ellipsoid.aim) /\ Near2(Of("wc").aim, ellipsoid.aim)
        /\ \A p \in parts : p.aim # <<0, 0, 0>> => p.aim[1] = ellipsoid.aim[1]
        /\ Of("pmt").identifier = <<m.name[3], m.name[2], m.name[4]>>

Cuts(j, i, k) ==
    {[plane |-> p.solid.plane, side |-> p.solid.side, azimuth |-> p.aim[1]] :
         p \in {v \in published : /\ v.solid.kind = "cut" /\ Len(v.name) = 4
                                  /\ <<v.name[2], v.name[3], v.name[4]>> = <<i, j, k>>}}
MeetInOnePlane(i, k, j) ==
    {c \in Cuts(j, i, k) : c.side = "below"}
        = {[c EXCEPT !.side = "below"] : c \in {e \in Cuts(j + 1, i, k) : e.side = "above"}}

(* The light of an HTCC mirror reaches its own photomultiplier: the second *)
(* focus of each of the 48 mirrors, to 2 um and at the azimuth its barrel  *)
(* and wedge are turned to, is where the photomultiplier and the Winston   *)
(* cone of the same ring, sector and half stand.  Mirrors and tubes are    *)
(* built by different loops from different numbers, and named by a rule    *)
(* that turns the sectors (htcc/geometry.py HTCCname, build_mirrors,       *)
(* build_pmts).  And neighbouring mirrors of a half sector meet in one     *)
(* plane: what is cut from one below it is what is cut from the next above *)
(* it (build_mirror_bottom, build_mirror_middle, build_mirror_top).        *)
HtccOpticsFit ==
    detector = "htcc" =>
        LET mirrors == {v \in published : v.name[1] = "mirror"}
        IN  /\ Cardinality(mirrors) = 48
            /\ \A m \in mirrors : MirrorFacesItsPmt(m)
            /\ \A i \in 0 .. 5, k \in 0 .. 1, j \in 0 .. 2 : MeetInOnePlane(i, k, j)

(* Every LTCC channel of a sector that is there has all of its optics, on  *)
(* its own side of the sector, and exactly one Winston cone at its place;  *)
(* of a sector that is not there nothing is published (each builder of     *)
(* ltcc/geometry.py skips it on its own), and the meshes, whose sector 3   *)
(* the others are copies of, find that sector in every variation.          *)
Present == Ltcc!SectorConfig[variation].present
LtccChannelsAreWhole ==
    detector = "ltcc" =>
        /\ \A s \in Present, side \in {"right", "left"}, n \in 1 .. 18 :
              LET own == IF side = "right" THEN 1 ELSE -1
                  Of(stem) == {v \in published : v.name = <<stem, s, side, n>>}
              IN  /\ \A stem \in {"pmt_s", "hyp_mirror_s"} \cup (IF n < 18 THEN {"cyl_mirrors_s"} ELSE {}) :
                        {v.aim[1] : v \in Of(stem)} = {own}
                  /\ Cardinality(Of("el_mir_s")) = 1
                  /\ n < 18 =>
                        LET at == Ltcc!WinstonAt[side][n]
                        IN  Cardinality({v \in published : /\ v.mother = Ltcc!LtccS(s)
                                                           /\ v.at = <<at[1], at[2], at[3]>>
                                                           /\ v.mirror # ""}) = 1
        /\ \A v \in published : v.name[1] = "ltccS" => v.name[2] \in Present
        /\ \A v \in published : Len(v.mother) = 2 /\ v.mother[1] = "ltccS" => v.mother[2] \in Present
        /\ 3 \in Present

(* Every channel of the two Cherenkov counters has its mirrors and cone,   *)
(* and they send the light to its own photomultiplier, whatever sectors    *)
(* the variation has (htcc/geometry.py, ltcc/geometry.py).                 *)
CherenkovChannelsAreWhole == done => HtccOpticsFit /\ LtccChannelsAreWhole

VolumesResolve ==
    /\ Cardinality(Names) = Cardinality(published)
    /\ \A v \in published :
          /\ v.mother = Root \/ v.mother \in Names
          /\ \A o \in v.operands : o \in Names /\ o # v.name
          /\ v.copyOf # NoName => v.copyOf \in Names /\ Named(v.copyOf).copyOf = NoName
          /\ v.mirror # "" => v.mirror \in {s.name : s \in Surfaces(detector)}
          /\ v.material \in {"Component"} \cup BuiltIn \cup MaterialNames(detector)

MaterialsAreUsable ==
    LET m == MaterialsOf[detector]
    IN  /\ \A i \in DOMAIN m :
              LET total[n \in 0 .. Len(m[i].amounts)] ==
                      IF n = 0 THEN 0 ELSE total[n - 1] + m[i].amounts[n][2]
              IN  /\ m[i].by = "mass" => total[Len(m[i].amounts)] = One
                  /\ \A c \in Range(m[i].amounts) :
                        IF m[i].by = "atoms" THEN c[1] \in Elements
                        ELSE c[1] \in BuiltIn \cup {m[j].name : j \in 1 .. i - 1}
                  /\ \A l \in m[i].lists : l[2] = m[i].grid.points
                  /\ \A d \in DOMAIN MaterialsOf : \A o \in Range(MaterialsOf[d]) :
                        o.name = m[i].name =>
                            /\ o.density = m[i].density /\ o.amounts = m[i].amounts
                            /\ o.grid = m[i].grid \/ o.name = "HTCCgas"
        /\ \A s \in Surfaces(detector) : s.reflectivity = s.grid.points

(* Whatever a volume refers to is published with it: its mother, the two   *)
(* operands of a Boolean solid (in the same mother), the source of a copy  *)
(* (a volume of its own material or of another, never a copy itself), its  *)
(* mirror surface, and a material that the detector's own materials.py     *)
(* defines or GEMC knows.  No name is there twice.  And the materials can  *)
(* be used: fractions by mass add up to one, each component is known or    *)
(* was published before, every optical list is as long as its grid of      *)
(* photon energies; and where two detectors of a run publish a material    *)
(* under one name, GEMC may take either: they are made of the same, at the *)
(* same density (the two HTCCgas differ only in how far into the           *)
(* ultraviolet their lists reach).  What is wrong with a reference is an   *)
(* error only when GEMC loads the bank.                                    *)
ReferencesResolve == done => VolumesResolve /\ MaterialsAreUsable

(* Each row of a factory's table becomes a volume of its name and mother;  *)
(* what no builder expects is told apart, but passed over by dc.           *)
ASSUME RowsAssumption ==
    \A d \in FactorySystems :
        /\ \A r \in TableRows(d) :
              LET v == Classified(d, r)
              IN  v # NoVolume /\ v.name = r.name /\ v.mother = r.mother
        /\ Unexpected \notin TableRows(d) /\ Classified(d, Unexpected) = NoVolume

PartOf(d, v, builder) ==
    IF builder = "coatjava" THEN {Classified(d, r) : r \in TableRows(d)} ELSE Built(d, v, builder)
BankOf(d, v) == UNION {PartOf(d, v, Builders(d, v)[i]) : i \in DOMAIN Builders(d, v)}

(* What a driver that goes through publishes is settled by the detector    *)
(* and the variation alone: the volumes of all of its builder functions    *)
(* and a volume for each row of its factory's table, nothing more and      *)
(* nothing less, however many attempts failed before, whatever tables they *)
(* left and whichever function they stopped at.  The table is one that a   *)
(* factory of this attempt wrote whole before it reported success, and is  *)
(* not left behind; rows nobody expects stop every driver but that of the  *)
(* drift chambers (coatjava.py run_factory, read_volumes,                  *)
(* generate_volumes).  Hence what the properties above find in one attempt *)
(* they would find in all.                                                 *)
BankIsWhole ==
    done =>
        /\ published = BankOf(detector, variation)
        /\ detector \in FactorySystems => table = NoTable /\ (Unexpected \in rows => detector = "dc")
=============================================================================
