---------------------------- MODULE MCAsciiCompare ----------------------------
(***************************************************************************)
(* Three systems with the shapes the comparison tells apart, written in    *)
(* both schemas from one description; in one of them the description is    *)
(* changed in one way before its driver writes it, the one before it may   *)
(* fail.                                                                   *)
(***************************************************************************)
EXTENDS AsciiCompare, TLC

Mm(x) == N(100000 * x, "mm")
Unset == <<W("NULL")>>
Nil == <<W("no")>>
Here == <<Mm(0), Mm(0), Mm(5)>>

V(name, solid, dims) ==
    [name |-> name, mother |-> "root", at |-> Here, turned |-> <<N(0, "deg"), N(9000000, "deg"), N(0, "deg")>>,
     solid |-> solid, dims |-> dims, planes |-> <<>>, material |-> "G4_AIR", digitization |-> "",
     identifier |-> <<>>, copyOf |-> "", operands |-> <<>>, mirror |-> "", told |-> "text", color |-> "aabbcc"]

(* What clas12Tags has for a volume, and what pygemc writes for it.        *)
Aliases == [G4Box |-> "Box", G4Polycone |-> "Polycone", G4Tubs |-> "Tube", CAD |-> "CAD"]
Flat(s) == IF Len(s) = 3 THEN s[1] \o s[2] \o s[3] ELSE <<>>
Triplets(id) == [i \in 1 .. 3 * Len(id) |->
                    LET p == id[(i + 2) \div 3]
                    IN  CASE i % 3 = 1 -> W(p[1]) [] i % 3 = 2 -> W("manual") [] OTHER -> N(p[2], "")]
OldRow(v) ==
    LET type == CASE v.copyOf # "" -> <<W("CopyOf"), W(v.copyOf)>>
                  [] v.operands # <<>> -> <<W("Operation:")>> \o v.operands
                  [] OTHER -> <<W(Aliases[v.solid])>>
        dims == IF v.copyOf # "" THEN <<Mm(0)>> ELSE v.dims \o Flat(v.planes)
        senses == CASE v.mirror # "" -> <<W("mirror:"), W(v.mirror)>>
                    [] v.mirror = "" /\ v.digitization # "" -> <<W(v.digitization)>>
                    [] OTHER -> Nil
        id == CASE v.mirror # "" -> Triplets(<< <<"id", 100000>> >>)
                [] v.mirror = "" /\ v.identifier # <<>> -> Triplets(v.identifier)
                [] OTHER -> Nil
        material == IF v.material = "G4_AIR_Optical" THEN "Air_Opt" ELSE v.material
    IN  << <<W(v.name)>>, <<W(v.mother)>>, <<W(v.told)>>, v.at, v.turned, <<W(v.color)>>, type, dims,
           <<W(material)>>, Nil, Nil, Nil, Nil, Nil, Nil, senses, Nil, id >>
NewRow(v) ==
    LET OrUnset(s) == IF s = "" THEN Unset ELSE <<W(s)>>
        dims == v.dims \o (IF v.planes = <<>> THEN <<>> ELSE v.planes[3] \o v.planes[1] \o v.planes[2])
        id == [i \in DOMAIN v.identifier |->
                  [pair |-> <<W(v.identifier[i][1]), N(v.identifier[i][2], "")>>]]
        one == <<N(100000, "")>>
    IN  << <<W(v.name)>>, <<W(v.solid)>>, dims, <<W(v.material)>>, <<W(v.mother)>>, v.at, v.turned,
           <<W("passive")>>, Unset, one, one, <<W(v.color)>>, Unset, OrUnset(v.digitization),
           IF id = <<>> THEN Unset ELSE id, OrUnset(v.copyOf),
           IF v.operands = <<>> THEN Unset ELSE v.operands, OrUnset(v.mirror), Unset, <<W(v.told)>> >>
OldRows(vs) == [i \in DOMAIN vs |-> OldRow(vs[i])]
NewRows(vs) == [i \in DOMAIN vs |-> NewRow(vs[i])]
Gxml(v) == [name |-> v.name, position |-> v.at, rotation |-> v.turned, material |-> v.material,
            copyOf |-> v.copyOf, color |-> v.color]

(* A material, by property: a number or "unset".                           *)
Gas == [name |-> "gas", density |-> 190000, components |-> <<W("H"), N(200000, ""), W("O"), N(100000, "")>>,
        values |-> [i \in 1 .. 18 |-> IF i \in {1, 2, 13, 14} THEN <<N(1000 * i, "")>> ELSE <<>>]]
OldMaterial(m) ==
    << <<W(m.name)>>, <<W("text")>>, <<N(m.density, "")>>, <<N(50000 * Len(m.components), "")>>, m.components >>
        \o [i \in 1 .. 18 |-> IF m.values[i] # <<>> THEN m.values[i]
                              ELSE IF i <= 7 THEN <<W("none")>> ELSE <<N(-100000, "")>>]
NewMaterial(m) ==
    << <<W(m.name)>>, <<N(m.density, "")>>, m.components, <<W("text")>> >>
        \o [i \in 1 .. 14 |-> LET p == IF i = 13 THEN 14 ELSE IF i = 14 THEN 13 ELSE i
                              IN  IF m.values[p] # <<>> THEN m.values[p] ELSE Unset]

-----------------------------------------------------------------------------
Pmt == [V("pmt", "G4Tubs", <<Mm(0), Mm(10), Mm(20)>>)
           EXCEPT !.digitization = "ltcc", !.identifier = << <<"sector", 100000>>, <<"pmt", 200000>> >>]
Gap == [V("gap", "G4Polycone", <<N(0, "deg"), N(36000000, "deg"), N(200000, "")>>)
           EXCEPT !.planes = << <<Mm(1), Mm(2)>>, <<Mm(10), Mm(20)>>, <<Mm(-3), Mm(3)>> >>,
                  !.material = "G4_AIR_Optical"]
Mirror == [V("mirror", "G4Box", <<Mm(1), Mm(1), Mm(1)>>) EXCEPT !.mirror = "surface", !.identifier = <<>>]
Cut == [V("cut", "G4Box", <<Mm(1), Mm(1), Mm(1)>>) EXCEPT !.operands = <<W("mirror"), W("-"), W("gap")>>]
Stopper == V("pmt_light_stopper_s1right1", "G4Tubs", <<Mm(0), Mm(10), Mm(1)>>)
Plate == V("plate", "G4Box", <<Mm(1), Mm(2), Mm(1)>>)
Mesh(name) == V(name, "CAD", <<W("cad/" \o name \o ".stl"), N(100000, "")>>)
Copy(name, of) == [Mesh(name) EXCEPT !.copyOf = of]
Pipe == [Mesh("pipe") EXCEPT !.dims[1] = W("stls/pipe.stl")]
Window == [Mesh("window") EXCEPT !.dims[1] = W("stls/default/window.stl")]

References ==
    [ltcc |-> (<<"ltcc", "geometry", "default">> :> OldRows(<<Pmt, Gap, Mirror, Cut, Stopper, Plate>>))
              @@ (<<"ltcc", "materials", "default">> :> <<OldMaterial(Gas)>>),
     dc |-> (<<"dc", "geometry", "default">> :> OldRows(<<Plate, Copy("back2", "back")>>))
            @@ (<<"dc", "geometry", "ddvcs">> :> OldRows(<<Plate, Cut, Copy("back2", "back")>>))
            @@ (<<"dc", "cad", "default">> :> <<Gxml(Mesh("back")), Gxml(Copy("back2", "back"))>>),
     beamline |-> (<<"beamline", "geometry", "default">> :> OldRows(<<Gap>>))
                  @@ (<<"beamline_cad", "cad", "default">> :> <<Gxml(Pipe)>>)
                  @@ (<<"beamline_transverse_cad", "cad", "default">> :> <<Gxml(Window)>>)]

(* The same by the drivers, before a change.                               *)
DcRows(extra) == NewRows(<<Plate>> \o extra \o <<Mesh("back"), Copy("back2", "back")>>)
Drivers ==
    [ltcc |-> (<<"ltcc", "geometry", "default">> :> NewRows(<<Pmt, Gap, Mirror, Cut>>))
              @@ (<<"ltcc_cad", "geometry", "default">> :> NewRows(<<Plate>>))
              @@ (<<"ltcc", "materials", "default">> :> <<NewMaterial(Gas)>>),
     dc |-> [f \in {"dc"} \X {"geometry"} \X {"default", "rga_spring2018", "rga_fall2018", "ddvcs"} |->
                DcRows(IF f[3] = "ddvcs" THEN <<Cut>> ELSE <<>>)]
            @@ (<<"dc", "materials", "default">> :> <<>>),
     beamline |-> (<<"beamline", "geometry", "default">> :> NewRows(<<Gap>>))
                  @@ (<<"beamline_cad", "geometry", "default">> :> NewRows(<<Pipe>>))
                  @@ (<<"beamline_transverse_cad", "geometry", "default">> :> NewRows(<<Window>>))]

(* Changes of one file: what becomes of its rows.                          *)
LtccRows(vs) == (<<"ltcc", "geometry", "default">> :> NewRows(vs))
LtccMaterial(m) == (<<"ltcc", "materials", "default">> :> <<NewMaterial(m)>>)
WithPmt(v) == LtccRows(<<v, Gap, Mirror, Cut>>)
Spring(vs) == (<<"dc", "geometry", "rga_spring2018">> :> NewRows(vs))
CadFile(companion, vs) == (<<companion, "geometry", "default">> :> NewRows(vs))

Told ==       \* changes no physics depends on
    [ltcc |-> [plain |-> WithPmt(Pmt),
               described |-> WithPmt([Pmt EXCEPT !.told = "other"]),
               rounded |-> WithPmt([Pmt EXCEPT !.at[3] = N(@.n + 9, "mm"), !.turned[2] = N(@.n - 9, "deg")]),
               respelled |-> WithPmt([Pmt EXCEPT !.at = <<N(0, ""), N(0, ""), N(50000, "cm")>>]),
               reordered |-> LtccRows(<<Cut, Mirror, Gap, Pmt>>),
               stoppers |-> LtccRows(<<Pmt, Gap, Mirror, Cut, Stopper>>)],
     dc |-> [plain |-> Spring(<<Plate, Mesh("back"), Copy("back2", "back")>>)],
     beamline |-> [plain |-> CadFile("beamline_cad", <<Pipe>>)]]

Changed ==    \* changes a simulation would be different for
    [ltcc |-> [dropped |-> LtccRows(<<Gap, Mirror, Cut>>),
               added |-> LtccRows(<<Pmt, Gap, Mirror, Cut, V("new", "G4Box", <<Mm(1), Mm(1), Mm(1)>>)>>),
               moved |-> WithPmt([Pmt EXCEPT !.at[3] = N(@.n + 11, "mm")]),
               turned |-> WithPmt([Pmt EXCEPT !.turned = <<@[2], @[1], @[3]>>]),
               units |-> WithPmt([Pmt EXCEPT !.at[3] = N(@.n, "cm")]),
               mother |-> WithPmt([Pmt EXCEPT !.mother = "gap"]),
               material |-> WithPmt([Pmt EXCEPT !.material = "G4_Pb"]),
               hits |-> WithPmt([Pmt EXCEPT !.digitization = "htcc"]),
               channel |-> WithPmt([Pmt EXCEPT !.identifier[2][2] = 300000]),
               order |-> WithPmt([Pmt EXCEPT !.identifier = <<@[2], @[1]>>]),
               channelless |-> WithPmt([Pmt EXCEPT !.identifier = <<>>]),
               nameless |-> (<<"ltcc", "geometry", "default">> :>
                                [NewRows(<<Pmt, Gap, Mirror, Cut>>) EXCEPT ![1][20] = <<>>]),
               radii |-> LtccRows(<<Pmt, [Gap EXCEPT !.planes = <<@[2], @[1], @[3]>>], Mirror, Cut>>),
               planes |-> LtccRows(<<Pmt, [Gap EXCEPT !.planes = <<@[3], @[1], @[2]>>], Mirror, Cut>>),
               solid |-> LtccRows(<<Pmt, [Gap EXCEPT !.solid = "G4Tubs"], Mirror, Cut>>),
               surface |-> LtccRows(<<Pmt, Gap, [Mirror EXCEPT !.mirror = "black"], Cut>>),
               marked |-> LtccRows(<<Pmt, Gap, [Mirror EXCEPT !.identifier = << <<"id", 700000>> >>], Cut>>),
               operands |-> LtccRows(<<Pmt, Gap, Mirror, [Cut EXCEPT !.operands = <<@[3], @[2], @[1]>>]>>),
               absolute |-> LtccRows(<<Pmt, Gap, Mirror, [Cut EXCEPT !.operands = <<W("@")>> \o @]>>),
               density |-> LtccMaterial([Gas EXCEPT !.density = @ + 10000]),
               optics |-> LtccMaterial([Gas EXCEPT !.values[2] = <<>>]),
               scattering |-> LtccMaterial([Gas EXCEPT !.values[13] = Gas.values[14], !.values[14] = Gas.values[13]]),
               composition |-> LtccMaterial([Gas EXCEPT !.components = SubSeq(@, 1, 2)]),
               unwritten |-> (<<"ltcc", "materials", "default">> :> <<>>),
               unshared |-> (<<"ltcc_cad", "geometry", "default">> :> <<>>),
               surplus |-> (<<"ltcc_cad", "geometry", "other">> :> NewRows(<<Plate>>))],
     dc |-> [native |-> Spring(<<Mesh("plate"), Mesh("back"), Copy("back2", "back")>>),
             mesh |-> Spring(<<Plate, [Mesh("back") EXCEPT !.at[1] = Mm(1)], Copy("back2", "back")>>),
             copy |-> Spring(<<Plate, Mesh("back"), Copy("back2", "plate")>>),
             uncopied |-> Spring(<<Plate, Mesh("back")>>),
             meshless |-> Spring(<<Plate, Copy("back2", "back")>>)],
     beamline |-> [mesh |-> CadFile("beamline_cad", <<[Pipe EXCEPT !.turned[1] = N(100000, "deg")]>>),
                   paint |-> CadFile("beamline_cad", <<[Pipe EXCEPT !.color = "000000"]>>),
                   extra |-> CadFile("beamline_cad", <<Pipe, Mesh("tube")>>),
                   folder |-> CadFile("beamline_transverse_cad", <<[Window EXCEPT !.dims[1] = W("stls/window.stl")]>>),
                   bare |-> CadFile("beamline_transverse_cad", <<>>),
                   other |-> (<<"beamline_transverse_cad", "geometry", "other">> :> NewRows(<<Window>>))]]

(* What the script cannot see: a mesh of dc that the reference does not    *)
(* place, and a first row of a name that a second one hides.               *)
Unseen ==
    [ltcc |-> [twice |-> LtccRows(<<[Pmt EXCEPT !.at[1] = Mm(9)], Gap, Mirror, Cut, Pmt>>)],
     dc |-> [extra |-> Spring(<<Plate, Mesh("spare"), Mesh("back"), Copy("back2", "back")>>)],
     beamline |-> <<>>]

Works(s, change) == [script |-> TRUE, exit |-> 0, hasReference |-> TRUE, reference |-> References[s],
                     made |-> change @@ Drivers[s], kind |-> "same"]
MCSystems == <<"dc", "ltcc", "beamline">>
Of(s, table, kind) == {[Works(s, table[s][c]) EXCEPT !.kind = kind] : c \in DOMAIN table[s]}
Variants(s) == Of(s, Told, "same") \cup Of(s, Changed, "changed") \cup Of(s, Unseen, "unseen")
                  \cup {[Works(s, <<>>) EXCEPT !.exit = 1, !.kind = "changed"],
                        [Works(s, <<>>) EXCEPT !.script = FALSE, !.kind = "changed"],
                        [Works(s, <<>>) EXCEPT !.hasReference = FALSE, !.kind = "changed"]}
MCWorlds ==
    LET plain == [s \in DOMAIN Drivers |-> Works(s, <<>>)]
        broken == [Works("dc", <<>>) EXCEPT !.exit = 1, !.kind = "changed"]
    IN  UNION {UNION {{[plain EXCEPT ![s] = w], [plain EXCEPT !["dc"] = broken, ![s] = w]} :
                          w \in Variants(s)} : s \in DOMAIN Drivers}

-----------------------------------------------------------------------------
Ended == exit \in {"0", "1"}
OfKind(kind) == {s \in DOMAIN world : world[s].kind = kind}

(* The systems that fail are those changed in a way a simulation would     *)
(* show, whichever they are and whatever became of the systems before: a   *)
(* driver that fails, a reference that is missing or a row that is cut     *)
(* short counts against its own system and hides no other.  What says the  *)
(* same in the two schemas passes: the order of a polycone's arrays,       *)
(* solids and materials under their old names, operands, copies and        *)
(* mirrors in other columns, units, rounding, empty material files,        *)
(* companions and the aliases of the drift chambers are no differences     *)
(* (old_geometry_record, new_geometry_record, old_material_record,         *)
(* new_material_record, semantic_differences, compare_section,             *)
(* compare_cad, and main, which goes on after every exception).            *)
ReportsExactlyTheChanges ==
    Ended => OfKind("changed") \subseteq failures /\ failures \cap OfKind("same") = {}
=============================================================================
