---------------------------- MODULE GVolumes ----------------------------
(***************************************************************************)
(* The volumes the geometry scripts publish (pygemc's GVolume, which is    *)
(* not in the repository), with what the detector modules tell apart: the  *)
(* tree (mother, operands of a Boolean solid, source of a copy), material, *)
(* sensitive detector and identifier, for axial tubes, polycones and boxes *)
(* the space they fill, and for optical elements what they are aimed at.   *)
(*                                                                         *)
(* A name is a tuple: its stem, then the numbers the code writes into it.  *)
(* Lengths are micrometres, angles hundredths of a degree.                 *)
(***************************************************************************)
EXTENDS Integers, Sequences, FiniteSets

Root == <<"root">>
NoName == <<>>

(* A solid nothing is claimed about: rotated boxes, ellipsoids, meshes.    *)
Free == [kind |-> "free"]

(* A stack of planes <<z, inner radius, outer radius>> and an azimuth.     *)
Sector(planes, from, delta) ==
    [kind |-> "round", planes |-> planes, phi |-> <<from, from + delta>>]
Polycone(planes) == Sector(planes, 0, 36000)
Tube(ri, ro, half) == Polycone(<< <<-half, ri, ro>>, <<half, ri, ro>> >>)

(* A polycone from the three lists of numbers the code hands to pygemc.    *)
Cones(z, inner, outer) == [i \in DOMAIN z |-> <<z[i], inner[i], outer[i]>>]

(* A tube whose centre and length are given twice over, to stay integral.  *)
TubeAround(ri, ro, twiceCentre, length) ==
    Polycone(<< <<(twiceCentre - length) \div 2, ri, ro>>, <<(twiceCentre + length) \div 2, ri, ro>> >>)
Box(x, y, z) == [kind |-> "box", x |-> <<-x, x>>, y |-> <<-y, y>>, z |-> <<-z, z>>]

Volume(name, mother, material) ==
    [name |-> name, mother |-> mother, material |-> material, solid |-> Free,
     at |-> <<0, 0, 0>>, operands |-> {}, copyOf |-> NoName, mirror |-> "",
     digitization |-> "", identifier |-> <<>>, aim |-> <<0, 0, 0>>]

(* A solid that is only an operand, and a Boolean solid of two others.     *)
Component(name, mother) == Volume(name, mother, "Component")
Boolean(v, a, b) == [v EXCEPT !.operands = {a, b}]

(* An optical element: its skin surface, and the azimuth, radius and z of  *)
(* the point it is aimed at (the azimuth alone where the rest is not told). *)
Mirrored(v, surface) == [v EXCEPT !.mirror = surface]
Aimed(v, azimuth, radius, z) == [v EXCEPT !.aim = <<azimuth, radius, z>>]

With(v, solid) == [v EXCEPT !.solid = solid]
At(v, x, y, z) == [v EXCEPT !.at = <<x, y, z>>]
Sensitive(v, digitization, identifier) ==
    [v EXCEPT !.digitization = digitization, !.identifier = identifier]

-----------------------------------------------------------------------------
(* Space.                                                                  *)

Least(a, b) == IF a < b THEN a ELSE b
Most(a, b) == IF a > b THEN a ELSE b

(* Rounding of interpolated radii, and the tolerance of an overlap.        *)
Tolerance == 2

ShiftZ(solid, dz) ==
    IF solid.kind = "round"
    THEN [solid EXCEPT !.planes = [i \in DOMAIN @ |-> <<@[i][1] + dz, @[i][2], @[i][3]>>]]
    ELSE solid

(* The solid in the frame of the volume's mother.                          *)
Placed(v) ==
    CASE v.solid.kind = "round" -> ShiftZ(v.solid, v.at[3])
      [] v.solid.kind = "box" ->
            LET Moved(i, range) == <<range[1] + v.at[i], range[2] + v.at[i]>>
            IN  [v.solid EXCEPT !.x = Moved(1, @), !.y = Moved(2, @), !.z = Moved(3, @)]
      [] OTHER -> v.solid

(* The segments between neighbouring planes, lower plane first; two planes *)
(* at one z are a step.                                                    *)
Segments(solid) ==
    LET p == solid.planes
        up == {j \in 1 .. Len(p) - 1 : p[j][1] < p[j + 1][1]}
        down == {j \in 1 .. Len(p) - 1 : p[j + 1][1] < p[j][1]}
    IN  {<<p[i], p[i + 1]>> : i \in up} \cup {<<p[i + 1], p[i]>> : i \in down}

(* Inner (k = 2) or outer (k = 3) radius at z.  Lengths along z are taken  *)
(* in tens or, for long and steep segments, hundreds of micrometres, which *)
(* keeps the products in 32 bits.                                          *)
RadiusAt(s, k, z) ==
    LET rise == s[2][k] - s[1][k]
        size == Most(rise, -rise) \div 100
        length == s[2][1] - s[1][1]
        unit == IF size * (length \div 1000) < 190000 THEN 10 ELSE 100
    IN  s[1][k] + (rise * ((z - s[1][1]) \div unit)) \div (length \div unit)

SegmentsDisjoint(s, t) ==
    LET lo == Most(s[1][1], t[1][1])
        hi == Least(s[2][1], t[2][1])
        Outside(u, v) == \A z \in {lo, hi} : RadiusAt(u, 3, z) <= RadiusAt(v, 2, z) + Tolerance
    IN  lo >= hi \/ Outside(s, t) \/ Outside(t, s)

(* Azimuths, as ranges that may reach over a full turn.                    *)
PhiDisjoint(p, q) ==
    \E turn \in {-1, 0, 1} : p[2] <= q[1] + turn * 36000 /\ q[2] + turn * 36000 <= p[1] + 36000

(* Squared distances of a box from the axis, in units of 50 um.            *)
Sq(x) == (x \div 50) * (x \div 50)
Near(range) == IF range[1] > 0 THEN range[1] ELSE IF range[2] < 0 THEN -range[2] ELSE 0
Far(range) == Most(-range[1], range[2])

BoxTubeDisjoint(box, s) ==
    \/ box.z[2] <= s[1][1] \/ s[2][1] <= box.z[1]
    \/ Sq(Far(box.x)) + Sq(Far(box.y)) <= Sq(Least(s[1][2], s[2][2]))
    \/ Sq(Near(box.x)) + Sq(Near(box.y)) >= Sq(Most(s[1][3], s[2][3]))

Apart(p, q) == p[2] <= q[1] \/ q[2] <= p[1]

(* Two solids in the same frame share no space (tubes next to boxes: full  *)
(* turns).                                                                 *)
Disjoint(a, b) ==
    CASE a.kind = "round" /\ b.kind = "round" ->
            \/ PhiDisjoint(a.phi, b.phi)
            \/ \A s \in Segments(a), t \in Segments(b) : SegmentsDisjoint(s, t)
      [] a.kind = "box" /\ b.kind = "box" ->
            Apart(a.x, b.x) \/ Apart(a.y, b.y) \/ Apart(a.z, b.z)
      [] a.kind = "box" /\ b.kind = "round" -> \A s \in Segments(b) : BoxTubeDisjoint(a, s)
      [] a.kind = "round" /\ b.kind = "box" -> \A s \in Segments(a) : BoxTubeDisjoint(b, s)
      [] OTHER -> TRUE

(* A solid lies within the solid m of its mother, both in m's frame; the   *)
(* planes of a mother ascend.                                              *)
Holds(m, a) ==
    CASE a.kind = "round" /\ m.kind = "round" ->
            /\ \A s \in Segments(a) :
                  /\ m.planes[1][1] <= s[1][1] /\ s[2][1] <= m.planes[Len(m.planes)][1]
                  /\ \A t \in Segments(m) :
                        LET lo == Most(s[1][1], t[1][1])
                            hi == Least(s[2][1], t[2][1])
                        IN  lo < hi => \A z \in {lo, hi} :
                                /\ RadiusAt(t, 2, z) <= RadiusAt(s, 2, z) + Tolerance
                                /\ RadiusAt(s, 3, z) <= RadiusAt(t, 3, z) + Tolerance
      [] a.kind = "box" /\ m.kind = "box" ->
            /\ m.x[1] <= a.x[1] /\ a.x[2] <= m.x[2]
            /\ m.y[1] <= a.y[1] /\ a.y[2] <= m.y[2]
            /\ m.z[1] <= a.z[1] /\ a.z[2] <= m.z[2]
      [] a.kind = "box" /\ m.kind = "round" ->
            /\ m.planes[1][1] <= a.z[1] /\ a.z[2] <= m.planes[Len(m.planes)][1]
            /\ \A t \in Segments(m) :
                  a.z[2] <= t[1][1] \/ t[2][1] <= a.z[1]
                  \/ /\ Sq(Near(a.x)) + Sq(Near(a.y)) >= Sq(Most(t[1][2], t[2][2]))
                     /\ Sq(Far(a.x)) + Sq(Far(a.y)) <= Sq(Least(t[1][3], t[2][3]))
      [] OTHER -> TRUE
=============================================================================
