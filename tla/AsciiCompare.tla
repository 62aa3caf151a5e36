---------------------------- MODULE AsciiCompare ----------------------------
(***************************************************************************)
(* scripts/compare_ascii_databases.py: each system's driver is run into a  *)
(* working directory, and the geometry, materials and CAD files it writes  *)
(* are compared, variation by variation, with those of clas12Tags, which   *)
(* say the same in another schema.                                         *)
(*                                                                         *)
(* A field is a sequence of tokens: numbers with a unit (in hundred        *)
(* thousandths) or words; how a number is spelled is left out.             *)
(***************************************************************************)
EXTENDS Integers, Sequences, FiniteSets

CONSTANTS Systems,      \* the systems to compare, in order
          Worlds        \* what their drivers write, and the references

ASSUME SystemsAssumption == Systems \in Seq(STRING)

W(s) == [word |-> s]
N(n, u) == [n |-> n, unit |-> u]
Scale == 100000           \* the number 1
IsNumber(t) == "n" \in DOMAIN t

-----------------------------------------------------------------------------
(* One field in a form both schemas share.                                 *)

SolidNameMap ==
    [Box |-> "G4Box", Parallelepiped |-> "G4Para", Sphere |-> "G4Sphere", Ellipsoid |-> "G4Ellipsoid",
     Paraboloid |-> "G4Paraboloid", Hype |-> "G4Hype", Tube |-> "G4Tubs", CTube |-> "G4CutTubs",
     EllipticalTube |-> "G4EllipticalTube", Eltu |-> "G4EllipticalTube", Cons |-> "G4Cons",
     Torus |-> "G4Torus", Trd |-> "G4Trd", Pgon |-> "G4Polyhedra", Polycone |-> "G4Polycone"]
MaterialNameMap == [Air_Opt |-> "G4_AIR_Optical"]
EmptyTokens == {W("no"), W("none"), W("null"), W("NULL")}

NumberToken(t) == IF IsNumber(t) /\ t.n = 0 THEN N(0, "") ELSE t
NormalizeField(f) == [i \in DOMAIN f |-> NumberToken(f[i])]

Renamed(f, names) ==
    IF Len(f) = 1 /\ ~IsNumber(f[1]) /\ f[1].word \in DOMAIN names THEN <<W(names[f[1].word])>> ELSE f
NormalizeSolid(f) == Renamed(NormalizeField(f), SolidNameMap)
NormalizeMaterialName(f) == Renamed(NormalizeField(f), MaterialNameMap)

(* Mutant: arrays are compared in the order they are stored.               *)
NormalizeDimensions_AsStored(f, solid, schema) == NormalizeField(f)

(* A polycone's arrays: inner, outer, z in one schema, z, inner, outer in  *)
(* the other; the third token is the number of planes.                     *)
Planes(d) == d[3].n \div Scale
HasArrays(d) == Len(d) >= 3 /\ IsNumber(d[3]) /\ Len(d) = 3 + 3 * Planes(d)
Array(d, k) == SubSeq(d, 4 + k * Planes(d), 3 + (k + 1) * Planes(d))
NormalizeDimensions(f, solid, schema) ==
    LET d == NormalizeField(f)
    IN  IF solid = <<W("G4Polycone")>> /\ schema = "pygemc" /\ HasArrays(d)
        THEN SubSeq(d, 1, 3) \o Array(d, 1) \o Array(d, 2) \o Array(d, 0)
        ELSE d

NormalizeDigitization(f) == IF Len(f) = 1 /\ f[1] \in EmptyTokens THEN <<>> ELSE f

(* Triplets "name manual value" in one, chunks "name: value" in the other. *)
NormalizeIdentifier(f, schema) ==
    IF NormalizeDigitization(f) = <<>> THEN <<>>
    ELSE IF schema = "clas12tags"
    THEN IF Len(f) % 3 # 0 THEN NormalizeField(f)
         ELSE [i \in 1 .. Len(f) \div 3 |-> [pair |-> <<f[3 * i - 2], f[3 * i]>>]]
    ELSE IF \E t \in {f[i] : i \in DOMAIN f} : "pair" \notin DOMAIN t THEN NormalizeField(f) ELSE f

NormalizeMaterialValue(f) == IF f = <<N(-Scale, "")>> THEN <<>> ELSE NormalizeDigitization(f)

-----------------------------------------------------------------------------
(* One row.  Reading drops the fields that are empty, so that those after  *)
(* one move to the left; a row that is too short then is an error.         *)
Parsed(row) == SelectSeq(row, LAMBDA f : f # <<>>)
RequiredSize(schema, section) ==
    IF section = "materials" THEN (IF schema = "clas12tags" THEN 23 ELSE 18)
    ELSE IF schema = "clas12tags" THEN 18 ELSE 20

OldGeometryRecord(row) ==
    LET solid == NormalizeSolid(row[7])
    IN  [name |-> NormalizeField(row[1]), mother |-> NormalizeField(row[2]),
         position |-> NormalizeField(row[4]), rotation |-> NormalizeField(row[5]),
         solid |-> solid, dimensions |-> NormalizeDimensions(row[8], solid, "clas12tags"),
         material |-> NormalizeMaterialName(row[9]), digitization |-> NormalizeDigitization(row[16]),
         identifier |-> NormalizeIdentifier(row[18], "clas12tags")]

(* Operands, the source of a copy and the mirror surface have columns of   *)
(* their own; the reference has them in the type and the sensitivity.      *)
NewGeometryRecord(row) ==
    LET plain == NormalizeSolid(row[2])
        operands == NormalizeDigitization(row[17])
        copyOf == NormalizeDigitization(row[16])
        own == NormalizeDigitization(row[14])
        mirror == NormalizeDigitization(row[18])
        solid == CASE copyOf # <<>> -> <<W("CopyOf")>> \o copyOf
                   [] copyOf = <<>> /\ operands # <<>> ->
                        (IF Head(operands) = W("@") THEN <<W("Operation:@")>> \o Tail(operands)
                         ELSE <<W("Operation:")>> \o operands)
                   [] OTHER -> plain
    IN  [name |-> NormalizeField(row[1]), mother |-> NormalizeField(row[5]),
         position |-> NormalizeField(row[6]), rotation |-> NormalizeField(row[7]),
         solid |-> solid,
         dimensions |-> IF copyOf # <<>> THEN <<N(0, "")>> ELSE NormalizeDimensions(row[3], plain, "pygemc"),
         material |-> NormalizeField(row[4]),
         digitization |-> IF own = <<>> /\ mirror # <<>> THEN <<W("mirror:")>> \o mirror ELSE own,
         identifier |-> NormalizeIdentifier(row[15], "pygemc")]

(* The properties of a material after its components, in the columns of    *)
(* the reference and in pygemc's, which has none for Mie scattering.       *)
MaterialProperties ==
    <<"photonEnergy", "indexOfRefraction", "absorptionLength", "reflectivity", "efficiency",
      "fastcomponent", "slowcomponent", "scintillationyield", "resolutionscale", "fasttimeconstant",
      "slowtimeconstant", "yieldratio", "rayleigh", "birksConstant", "mie", "mieforward", "miebackward",
      "mieratio">>
PygemcColumn(i) == CASE i <= 12 -> i + 4 [] i = 13 -> 18 [] i = 14 -> 17 [] OTHER -> 0

OldMaterialRecord(row) ==
    [name |-> NormalizeField(row[1]), density |-> row[3], ncomponents |-> NormalizeField(row[4]),
     components |-> row[5],
     values |-> [i \in DOMAIN MaterialProperties |-> NormalizeMaterialValue(row[i + 5])]]

NewMaterialRecord(row) ==
    [name |-> NormalizeField(row[1]), density |-> row[2],
     ncomponents |-> <<N(Scale * (Len(row[3]) \div 2), "")>>, components |-> row[3],
     values |-> [i \in DOMAIN MaterialProperties |->
                    IF PygemcColumn(i) = 0 THEN <<>> ELSE NormalizeMaterialValue(row[PygemcColumn(i)])]]

-----------------------------------------------------------------------------
(* One file: its records, a later row of a name in place of an earlier.    *)
(* A row is hidden if there is such a later one.                           *)

Readable(rows, schema, section) ==
    \A i \in DOMAIN rows : Len(Parsed(rows[i])) >= RequiredSize(schema, section)

Record(row, schema, section) ==
    IF section = "materials"
    THEN IF schema = "clas12tags" THEN OldMaterialRecord(row) ELSE NewMaterialRecord(row)
    ELSE IF schema = "clas12tags" THEN OldGeometryRecord(row) ELSE NewGeometryRecord(row)

RecordAt(rows, i, schema, section) == Record(Parsed(rows[i]), schema, section)
Hidden(rows, i, schema, section) ==
    \E j \in i + 1 .. Len(rows) : RecordAt(rows, j, schema, section).name = RecordAt(rows, i, schema, section).name
SemanticRecords(rows, schema, section) ==
    {RecordAt(rows, i, schema, section) : i \in {i \in DOMAIN rows : ~Hidden(rows, i, schema, section)}}

(* The files of a system and of its companion, one after the other.        *)
Companions == [ltcc |-> {"ltcc_cad"}]
CompanionsOf(system) == IF system \in DOMAIN Companions THEN Companions[system] ELSE {}

LengthUnits == [mm |-> 1, cm |-> 10, m |-> 1000]
Canonical(t) ==
    IF ~IsNumber(t) THEN [kind |-> "str", value |-> 0]
    ELSE IF t.unit \in DOMAIN LengthUnits THEN [kind |-> "length", value |-> t.n * LengthUnits[t.unit]]
    ELSE IF t.unit = "deg" THEN [kind |-> "angle", value |-> t.n]
    ELSE IF t.unit = "rad" THEN [kind |-> "angle", value |-> t.n * 57 + (t.n * 2958) \div 10000]
    ELSE [kind |-> "number:" \o t.unit, value |-> t.n]

(* To 1e-4, or a millionth of the larger.                                  *)
Close(a, b) ==
    LET d == a - b
    IN  \A e \in {d, -d} : e <= 10 \/ \E x \in {a, -a, b, -b} : e <= x \div 1000000

TokensEquivalent(s, t) ==
    \/ s = t
    \/ /\ IsNumber(s) /\ IsNumber(t) /\ Canonical(s).kind = Canonical(t).kind
       /\ Close(Canonical(s).value, Canonical(t).value)
ValuesEquivalent(f, g) ==
    Len(f) = Len(g) /\ \A i \in DOMAIN f : TokensEquivalent(f[i], g[i])

GeometryFields == {"mother", "position", "rotation", "solid", "dimensions", "material", "digitization",
                   "identifier"}
(* Mutant: a missing identifier passes on every volume.                    *)
SameGeometry_NoReadout(generated, reference) ==
    \A field \in GeometryFields :
        \/ ValuesEquivalent(reference[field], generated[field])
        \/ field = "identifier" /\ generated.identifier = <<>>

(* A mirror has no readout: that its identifier was left out is no         *)
(* difference.                                                             *)
SameGeometry(generated, reference) ==
    \A field \in GeometryFields :
        \/ ValuesEquivalent(reference[field], generated[field])
        \/ /\ field = "identifier" /\ generated.identifier = <<>>
           /\ generated.digitization # <<>> /\ generated.digitization[1] = W("mirror:")
SameMaterial(generated, reference) ==
    /\ \A field \in {"density", "ncomponents", "components"} :
          ValuesEquivalent(reference[field], generated[field])
    /\ \A i \in DOMAIN MaterialProperties : ValuesEquivalent(reference.values[i], generated.values[i])

NoDifferences(generated, reference, Same(_, _)) ==
    /\ {g.name : g \in generated} = {r.name : r \in reference}
    /\ \A g \in generated, r \in reference : g.name = r.name => Same(g, r)

-----------------------------------------------------------------------------
(* One system.  A database is a function from <<system, section,           *)
(* variation>> to the rows of the file.                                    *)

(* An empty material file counts as none.                                  *)
VariationFiles(database, system, section) ==
    {f \in DOMAIN database : f[1] = system /\ f[2] = section /\ (section = "materials" => database[f] # <<>>)}
Variations(files) == {f[3] : f \in files}

(* Light stoppers, which GEMC3 does not need, are left out on both sides.  *)
LightStoppers == {"pmt_light_stopper_s1right1"}
Skipped(record, system) == system = "ltcc" /\ record.name[1].word \in LightStoppers
DropSkippedVolumes(records, system) == {r \in records : ~Skipped(r, system)}

CadOwners == {"dc", "magnets"}
CompareVariation(system, section, generated, reference) ==
    LET made == DropSkippedVolumes(generated, system)
        own == IF system \in CadOwners /\ section = "geometry"
               THEN {g \in made : g.solid # <<W("CAD")>>} ELSE made
        old == DropSkippedVolumes(reference, system)
    IN  IF section = "geometry" THEN NoDifferences(own, old, SameGeometry)
        ELSE NoDifferences(own, old, SameMaterial)

(* The survey variations of dc are compared with the default one.          *)
ReferenceOf(system, section, variation, reference) ==
    IF system = "dc" /\ variation \in {"rga_spring2018", "rga_fall2018"}
       /\ <<system, section, "default">> \in VariationFiles(reference, system, section)
    THEN <<system, section, "default">> ELSE <<system, section, variation>>

WrittenFiles(system, section, made) ==
    UNION {VariationFiles(made, s, section) : s \in {system} \cup CompanionsOf(system)}
WrittenRows(system, section, variation, made) ==
    LET own == <<system, section, variation>>
        rest == {f \in WrittenFiles(system, section, made) : f[3] = variation /\ f # own}
    IN  (IF own \in WrittenFiles(system, section, made) THEN made[own] ELSE <<>>)
        \o (IF rest = {} THEN <<>> ELSE made[CHOOSE f \in rest : TRUE])

ReferenceRows(system, section, variation, reference) ==
    reference[ReferenceOf(system, section, variation, reference)]

Generated(system, section, variation, made) ==
    SemanticRecords(WrittenRows(system, section, variation, made), "pygemc", section)
Expected(system, section, variation, reference) ==
    SemanticRecords(ReferenceRows(system, section, variation, reference), "clas12tags", section)

CompareSection(system, section, made, reference) ==
    LET written == Variations(WrittenFiles(system, section, made))
        old == Variations(VariationFiles(reference, system, section))
        aliases == IF system = "dc" /\ "default" \in old THEN {"rga_spring2018", "rga_fall2018"} ELSE {}
    IN  IF written # old \cup aliases THEN "differs"
        ELSE IF \E v \in written :
                   \/ ~Readable(WrittenRows(system, section, v, made), "pygemc", section)
                   \/ ~Readable(ReferenceRows(system, section, v, reference), "clas12tags", section)
        THEN "raises"
        ELSE IF \A v \in written : CompareVariation(system, section, Generated(system, section, v, made),
                                                     Expected(system, section, v, reference))
        THEN "ok" ELSE "differs"

(* The CAD volumes of a system against the placement files of the          *)
(* reference; of dc and magnets, whose native rows are in the same file,   *)
(* only the rows the reference places.                                     *)
MeshDirectory(companion, variation) ==
    CASE companion = "dc" -> "cad/" [] companion = "beamline_transverse_cad" -> "stls/" \o variation \o "/"
      [] OTHER -> "stls/"
CadCompanions(system) == IF system = "beamline" THEN {"beamline_cad", "beamline_transverse_cad"} ELSE {system}

GxmlRecord(volume, directory) ==
    [name |-> <<W(volume.name)>>, mother |-> <<W("root")>>,
     position |-> NormalizeField(volume.position), rotation |-> NormalizeField(volume.rotation),
     solid |-> IF volume.copyOf = "" THEN <<W("CAD")>> ELSE <<W("CopyOf"), W(volume.copyOf)>>,
     dimensions |-> IF volume.copyOf = "" THEN <<W(directory \o volume.name \o ".stl"), N(Scale, "")>>
                    ELSE <<N(0, "")>>,
     material |-> <<W(volume.material)>>, digitization |-> <<>>, identifier |-> <<>>,
     placement |-> <<W("passive")>>, color |-> <<W(volume.color)>>, visible |-> <<N(Scale, "")>>,
     style |-> <<N(Scale, "")>>]

CadRecord(row) ==
    LET r == NewGeometryRecord(row)
    IN  [name |-> r.name, mother |-> r.mother, position |-> r.position, rotation |-> r.rotation,
         solid |-> r.solid, dimensions |-> r.dimensions, material |-> r.material,
         digitization |-> r.digitization, identifier |-> r.identifier,
         placement |-> row[8], color |-> row[12], visible |-> row[10], style |-> row[11]]

LookFields == {"placement", "color", "visible", "style"}
SameLook(generated, reference) ==
    \A field \in LookFields : ValuesEquivalent(reference[field], generated[field])
SameCad(generated, reference) == SameGeometry(generated, reference) /\ SameLook(generated, reference)

Placements(system, reference) == {f \in DOMAIN reference : f[1] \in CadCompanions(system) /\ f[2] = "cad"}
CadAliases(system, reference) ==
    IF system = "dc" /\ Placements(system, reference) # {} THEN {"rga_spring2018", "rga_fall2018", "ddvcs"} ELSE {}
PlacementKeys(system, reference) ==
    {<<f[1], f[3]>> : f \in Placements(system, reference)} \cup {<<"dc", a>> : a \in CadAliases(system, reference)}

(* Here too a later volume or row of a name replaces an earlier one.       *)
Volumes(system, k, reference) ==
    reference[IF k[2] \in CadAliases(system, reference) THEN <<"dc", "cad", "default">> ELSE <<k[1], "cad", k[2]>>]
VolumeAt(volumes, i, k) == GxmlRecord(volumes[i], MeshDirectory(k[1], k[2]))
Replaced(volumes, i) == \E j \in i + 1 .. Len(volumes) : volumes[j].name = volumes[i].name
Placed(system, k, reference) ==
    LET volumes == Volumes(system, k, reference)
    IN  {VolumeAt(volumes, i, k) : i \in {i \in DOMAIN volumes : ~Replaced(volumes, i)}}

MeshRows(k, made) == made[<<k[1], "geometry", k[2]>>]
MeshAt(rows, i) == CadRecord(Parsed(rows[i]))
Covered(rows, i) == \E j \in i + 1 .. Len(rows) : MeshAt(rows, j).name = MeshAt(rows, i).name
Unplaced(system, mesh, placed) == system \in CadOwners /\ \A p \in placed : p.name # mesh.name
Meshes(system, k, made, placed) ==
    LET rows == MeshRows(k, made)
    IN  {MeshAt(rows, i) : i \in {i \in DOMAIN rows :
            ~Covered(rows, i) /\ ~Unplaced(system, MeshAt(rows, i), placed)}}

MeshKeys(system, made) ==
    {<<f[1], f[3]>> : f \in UNION {VariationFiles(made, c, "geometry") : c \in CadCompanions(system)}}

CompareCad(system, made, reference) ==
    LET expected == PlacementKeys(system, reference)
        generated == MeshKeys(system, made)
        Agree(k) == LET placed == Placed(system, k, reference)
                    IN  NoDifferences(Meshes(system, k, made, placed), placed, SameCad)
    IN  IF \E k \in expected \cap generated : ~Readable(MeshRows(k, made), "pygemc", "geometry")
        THEN "raises"
        ELSE IF expected # {} /\ expected = generated /\ \A k \in expected : Agree(k) THEN "ok" ELSE "differs"

-----------------------------------------------------------------------------
(* The run.                                                                *)
VARIABLES world,        \* system -> what its driver does, what the reference holds
          invocation,   \* whether a working directory was given, and --keep
          todo,         \* systems still to be compared, the running one first
          step,         \* what is done next with the first of them
          differs,      \* whether a part of it differed
          failures,     \* the systems that failed
          workdir,      \* "there" if a working directory is on disk, or "none"
          exit          \* "running", the status main returned, or how the process
                        \* ended without one: raised, interrupted, killed
vars == <<world, invocation, todo, step, differs, failures, workdir, exit>>

Init == /\ world \in Worlds
        /\ invocation \in [given : BOOLEAN, keep : BOOLEAN]
        /\ todo = Systems /\ step = "start" /\ differs = FALSE
        /\ failures = {} /\ workdir = "none" /\ exit = "running"

system == Head(todo)
driver == world[system]

MakeWorkdir ==
    /\ exit = "running" /\ step = "start"
    /\ workdir' = "there" /\ step' = "entering"
    /\ UNCHANGED <<world, invocation, todo, differs, failures, exit>>

(* Only from here on does the finally clause remove it.                    *)
EnterTry ==
    /\ exit = "running" /\ step = "entering"
    /\ step' = "generate"
    /\ UNCHANGED <<world, invocation, todo, differs, failures, workdir, exit>>

(* The system is done with: differing, failing and unreadable alike.       *)
Conclude(ok) ==
    /\ failures' = IF ok THEN failures ELSE failures \cup {system}
    /\ todo' = Tail(todo) /\ step' = "generate" /\ differs' = FALSE
    /\ UNCHANGED <<world, invocation, workdir, exit>>

(* A missing script, a driver that fails, a reference that is not there.   *)
RunSystem ==
    /\ exit = "running" /\ step = "generate" /\ todo # <<>>
    /\ IF driver.script /\ driver.exit = 0 /\ driver.hasReference
       THEN step' = "geometry" /\ UNCHANGED <<world, invocation, todo, differs, failures, workdir, exit>>
       ELSE Conclude(FALSE)

Following == [geometry |-> "materials", materials |-> "cad"]

(* Mutant: the later section decides.                                      *)
CompareFiles_LastDecides ==
    /\ exit = "running" /\ step \in {"geometry", "materials"}
    /\ LET result == CompareSection(system, step, driver.made, driver.reference)
       IN  IF result = "raises" THEN Conclude(FALSE)
           ELSE /\ step' = Following[step] /\ differs' = (result = "differs")
                /\ UNCHANGED <<world, invocation, todo, failures, workdir, exit>>

CompareFiles ==
    /\ exit = "running" /\ step \in {"geometry", "materials"}
    /\ LET result == CompareSection(system, step, driver.made, driver.reference)
       IN  IF result = "raises" THEN Conclude(FALSE)
           ELSE /\ step' = Following[step] /\ differs' = (differs \/ result = "differs")
                /\ UNCHANGED <<world, invocation, todo, failures, workdir, exit>>

CadSystems == {"beamline", "magnets", "dc"}
CompareCadFiles ==
    /\ exit = "running" /\ step = "cad"
    /\ Conclude(~differs /\ (system \in CadSystems =>
                                CompareCad(system, driver.made, driver.reference) = "ok"))

(* The finally clause removes the working directory, unless it was given   *)
(* or is to be kept; rmtree may fail, or be interrupted in its turn.       *)
Leave(status) ==
    /\ \/ /\ invocation.given \/ invocation.keep
          /\ exit' = status /\ UNCHANGED workdir
       \/ /\ ~(invocation.given \/ invocation.keep)
          /\ \/ exit' = status /\ workdir' = "none"
             \/ exit' \in {"raised", "interrupted"} /\ UNCHANGED workdir
    /\ UNCHANGED <<world, invocation, todo, step, differs, failures>>
Finish == /\ exit = "running" /\ step = "generate" /\ todo = <<>>
          /\ Leave(IF failures = {} THEN "0" ELSE "1")

InTry == step \notin {"start", "entering"}
(* A keyboard interrupt, which no except clause takes.                     *)
Interrupted ==
    /\ exit = "running"
    /\ \/ InTry /\ Leave("interrupted")
       \/ /\ ~InTry /\ exit' = "interrupted"
          /\ UNCHANGED <<world, invocation, todo, step, differs, failures, workdir>>
(* A signal Python does not turn into an exception.                        *)
Killed ==
    /\ exit = "running" /\ exit' = "killed"
    /\ UNCHANGED <<world, invocation, todo, step, differs, failures, workdir>>

Next == \/ MakeWorkdir \/ EnterTry \/ RunSystem \/ CompareFiles \/ CompareCadFiles
        \/ Finish \/ Interrupted \/ Killed

Spec == Init /\ [][Next]_vars

-----------------------------------------------------------------------------
SystemAgrees(s) ==
    /\ world[s].script /\ world[s].exit = 0 /\ world[s].hasReference
    /\ \A section \in {"geometry", "materials"} :
          CompareSection(s, section, world[s].made, world[s].reference) = "ok"
    /\ s \in CadSystems => CompareCad(s, world[s].made, world[s].reference) = "ok"

(* The verdict on a system is its own: a run that returns from main names  *)
(* exactly the systems one of whose sections or meshes does not agree,     *)
(* whatever became of the systems and sections before, and returns 1       *)
(* exactly if there is one (compare_system, main).                         *)
VerdictIsPerSystem ==
    exit \in {"0", "1"} =>
        /\ failures = {s \in {Systems[i] : i \in DOMAIN Systems} : ~SystemAgrees(s)}
        /\ exit = "1" <=> failures # {}

(* A volume and its reference agree field by field, but that a mirror      *)
(* needs no readout channel.                                               *)
SameVolume(g, r) ==
    /\ g.name = r.name
    /\ \A field \in GeometryFields \ {"identifier"} : ValuesEquivalent(r[field], g[field])
    /\ g.digitization = <<>> \/ g.digitization[1] # W("mirror:") => ValuesEquivalent(r.identifier, g.identifier)
Says(g, r, section) ==
    IF section = "geometry" THEN SameVolume(g, r) ELSE g.name = r.name /\ SameMaterial(g, r)

(* Every row of either file: hidden, skipped, a mesh that is compared with *)
(* the placements instead, or it has a counterpart that is none of these.  *)
RowsAgree(s, section, rows, old) ==
    LET Made(i) == RecordAt(rows, i, "pygemc", section)
        Old(j) == RecordAt(old, j, "clas12tags", section)
        PassedOver(i) == \/ Hidden(rows, i, "pygemc", section) \/ Skipped(Made(i), s)
                         \/ s \in CadOwners /\ section = "geometry" /\ Made(i).solid = <<W("CAD")>>
        OldPassedOver(j) == Hidden(old, j, "clas12tags", section) \/ Skipped(Old(j), s)
    IN  /\ \A j \in DOMAIN old : OldPassedOver(j) \/ \E i \in DOMAIN rows : ~PassedOver(i) /\ Says(Made(i), Old(j), section)
        /\ \A i \in DOMAIN rows : PassedOver(i) \/ \E j \in DOMAIN old : ~OldPassedOver(j) /\ Says(Made(i), Old(j), section)

SectionAgrees(s, section, made, reference) ==
    LET written == Variations(WrittenFiles(s, section, made))
    IN  /\ Variations(VariationFiles(reference, s, section)) \subseteq written
        /\ \A v \in written : RowsAgree(s, section, WrittenRows(s, section, v, made),
                                         ReferenceRows(s, section, v, reference))

(* Every volume the reference places and every row of a mesh file, but for *)
(* rows of dc and magnets whose name the reference does not place.         *)
MeshesAgree(s, made, reference) ==
    /\ PlacementKeys(s, reference) # {} /\ PlacementKeys(s, reference) = MeshKeys(s, made)
    /\ \A k \in PlacementKeys(s, reference) :
          LET volumes == Volumes(s, k, reference)
              rows == MeshRows(k, made)
              Same(i, j) == /\ SameVolume(MeshAt(rows, i), VolumeAt(volumes, j, k))
                            /\ SameLook(MeshAt(rows, i), VolumeAt(volumes, j, k))
          IN  /\ \A j \in DOMAIN volumes :
                    Replaced(volumes, j) \/ \E i \in DOMAIN rows : ~Covered(rows, i) /\ Same(i, j)
              /\ \A i \in DOMAIN rows :
                    \/ Covered(rows, i)
                    \/ /\ s \in CadOwners
                       /\ \A j \in DOMAIN volumes :
                            Replaced(volumes, j) \/ VolumeAt(volumes, j, k).name # MeshAt(rows, i).name
                    \/ \E j \in DOMAIN volumes : ~Replaced(volumes, j) /\ Same(i, j)

(* What a status of 0 promises: every variation of the reference was       *)
(* written for every system, and row by row the files of either side have  *)
(* their counterpart on the other, the same in every field but for         *)
(* spelling, units and rounding; so have the meshes the reference places.  *)
(* It promises nothing of a row that a later one of its name hides, of the *)
(* light stoppers, of the readout of mirrors, and of the meshes of dc and  *)
(* magnets that the reference does not place (semantic_records,            *)
(* semantic_differences, compare_section, compare_cad, main).              *)
PassMeansSame ==
    exit = "0" =>
        \A i \in DOMAIN Systems :
            LET s == Systems[i]
                made == world[s].made
                reference == world[s].reference
            IN  /\ \A section \in {"geometry", "materials"} : SectionAgrees(s, section, made, reference)
                /\ s \in CadSystems => MeshesAgree(s, made, reference)
=============================================================================
