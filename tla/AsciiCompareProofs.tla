---------------------------- MODULE AsciiCompareProofs ----------------------------
(***************************************************************************)
(* The verdict of scripts/compare_ascii_databases.py, for any list of      *)
(* systems and whatever their drivers write: the failures collected so far *)
(* are those of the systems that are done with, and what the script knows  *)
(* of the running one is what its sections so far say.                     *)
(***************************************************************************)
EXTENDS AsciiCompare, SequenceTheorems, TLAPS

Outcomes == {"ok", "differs", "raises"}
Result(section) == CompareSection(system, section, driver.made, driver.reference)

(* The systems done with are the first ones of the list.                   *)
Compared == Len(Systems) - Len(todo)
Remaining ==
    /\ todo \in Seq(STRING) /\ Len(todo) <= Len(Systems)
    /\ \A i \in 1 .. Len(todo) : todo[i] = Systems[Compared + i]
FailuresSoFar == failures = {s \in {Systems[i] : i \in 1 .. Compared} : ~SystemAgrees(s)}

(* What is known of the running system.                                    *)
Steps == {"start", "entering", "generate", "geometry", "materials", "cad"}
KnownOfSystem ==
    /\ differs \in BOOLEAN
    /\ step \in {"start", "entering", "generate"} => ~differs
    /\ step \in {"geometry", "materials", "cad"} =>
          /\ todo # <<>> /\ driver.script /\ driver.exit = 0 /\ driver.hasReference
    /\ step = "geometry" => ~differs
    /\ step = "materials" => Result("geometry") \in (IF differs THEN {"differs"} ELSE {"ok"})
    /\ step = "cad" =>
          /\ Result("geometry") \in {"ok", "differs"} /\ Result("materials") \in {"ok", "differs"}
          /\ differs <=> (Result("geometry") = "differs" \/ Result("materials") = "differs")

ExitTells ==
    /\ exit \in {"running", "0", "1", "raised", "interrupted", "killed"}
    /\ exit \in {"0", "1"} => todo = <<>> /\ (exit = "1" <=> failures # {})

IInv == /\ step \in Steps
        /\ Remaining /\ FailuresSoFar /\ KnownOfSystem /\ ExitTells

-----------------------------------------------------------------------------
(* A section agrees, differs or cannot be read.                            *)
LEMMA SectionOutcome ==
    ASSUME NEW s, NEW section, NEW made, NEW reference
    PROVE  CompareSection(s, section, made, reference) \in Outcomes
BY Zenon DEF CompareSection, Outcomes

LEMMA NextSystem ==
    ASSUME Remaining, todo # <<>>
    PROVE  /\ Compared + 1 \in 1 .. Len(Systems)
           /\ system = Systems[Compared + 1]
           /\ Tail(todo) \in Seq(STRING) /\ Len(Tail(todo)) = Len(todo) - 1
           /\ \A i \in 1 .. Len(todo) - 1 : Tail(todo)[i] = todo[i + 1]
BY SystemsAssumption DEF Remaining, Compared, system

(* Concluding with the right answer keeps the invariant.                   *)
LEMMA ConcludeKeeps ==
    ASSUME IInv, exit = "running", todo # <<>>, NEW ok \in BOOLEAN, Conclude(ok),
           ok <=> SystemAgrees(system)
    PROVE  IInv'
<1> DEFINE n == Compared
<1>1. Remaining /\ FailuresSoFar /\ n \in Nat /\ n + 1 <= Len(Systems) /\ Len(Systems) \in Nat
  BY NextSystem, SystemsAssumption DEF IInv, Compared, Remaining
<1>2. /\ system = Systems[n + 1] /\ todo' = Tail(todo) /\ Len(todo') = Len(todo) - 1
      /\ todo' \in Seq(STRING) /\ Compared' = n + 1 /\ Len(todo) \in Nat
      /\ \A i \in 1 .. Len(todo) - 1 : todo'[i] = todo[i + 1]
  BY <1>1, NextSystem, SystemsAssumption DEF Conclude, Compared, Remaining
<1>3. Remaining'
  <2>1. Len(todo') <= Len(Systems)
    BY <1>1, <1>2 DEF Remaining
  <2>2. ASSUME NEW i \in 1 .. Len(todo') PROVE todo'[i] = Systems[Compared' + i]
    <3>1. todo'[i] = todo[i + 1] /\ i + 1 \in 1 .. Len(todo)
      BY <1>2
    <3>2. todo[i + 1] = Systems[n + (i + 1)] /\ n + (i + 1) = n + 1 + i
      BY <3>1, <1>1 DEF Remaining
    <3> QED BY <3>1, <3>2, <1>2
  <2> QED BY <1>2, <2>1, <2>2 DEF Remaining
<1>4. ASSUME NEW s PROVE SystemAgrees(s)' <=> SystemAgrees(s)
  <2>1. world' = world
    BY DEF Conclude
  <2> QED BY <2>1 DEF SystemAgrees
<1>5. FailuresSoFar'
  <2>1. {Systems[i] : i \in 1 .. n + 1} = {Systems[i] : i \in 1 .. n} \cup {system}
    <3>1. 1 .. n + 1 = (1 .. n) \cup {n + 1}
      BY <1>1
    <3> QED BY <3>1, <1>2
  <2>2. failures' = IF SystemAgrees(system) THEN failures ELSE failures \cup {system}
    BY DEF Conclude
  <2>3. failures' = {s \in {Systems[i] : i \in 1 .. n + 1} : ~SystemAgrees(s)}
    BY <2>1, <2>2, <1>1 DEF FailuresSoFar
  <2>4. Compared' = n + 1
    BY <1>2
  <2>5. {s \in {Systems[i] : i \in 1 .. n + 1} : ~SystemAgrees(s)}
           = {s \in {Systems[i] : i \in 1 .. n + 1} : ~SystemAgrees(s)'}
    BY <1>4
  <2> QED BY <2>3, <2>4, <2>5 DEF FailuresSoFar
<1>6. KnownOfSystem' /\ ExitTells' /\ step' \in Steps
  BY DEF IInv, Conclude, KnownOfSystem, ExitTells, Steps
<1> QED BY <1>3, <1>5, <1>6 DEF IInv

(* The invariant's parts that only look at the systems done with.          *)
LEMMA SameSystems ==
    ASSUME Remaining, FailuresSoFar, UNCHANGED <<world, todo, failures>>
    PROVE  Remaining' /\ FailuresSoFar'
<1>1. ASSUME NEW s PROVE SystemAgrees(s)' <=> SystemAgrees(s)
  BY DEF SystemAgrees
<1>2. Compared' = Compared
  BY DEF Compared
<1>3. Remaining'
  BY <1>2 DEF Remaining
<1>4. FailuresSoFar'
  BY <1>1, <1>2 DEF FailuresSoFar
<1> QED BY <1>3, <1>4

-----------------------------------------------------------------------------
(* The comparison starts in the invariant: nothing done, nothing failed.   *)
LEMMA InitInvariant == Init => IInv
<1> SUFFICES ASSUME Init PROVE IInv
  OBVIOUS
<1>1. todo = Systems /\ todo \in Seq(STRING) /\ Len(Systems) \in Nat /\ Compared = 0
  BY SystemsAssumption DEF Init, Compared
<1>2. Remaining
  BY <1>1 DEF Remaining
<1>3. FailuresSoFar
  <2>1. {Systems[i] : i \in 1 .. Compared} = {}
    BY <1>1
  <2> QED BY <2>1 DEF FailuresSoFar, Init
<1> QED BY <1>2, <1>3 DEF Init, IInv, KnownOfSystem, ExitTells, Steps

LEMMA WorkdirKeeps == IInv /\ (MakeWorkdir \/ EnterTry) => IInv'
<1> SUFFICES ASSUME IInv, MakeWorkdir \/ EnterTry PROVE IInv'
  OBVIOUS
<1>1. Remaining' /\ FailuresSoFar'
  BY SameSystems DEF IInv, MakeWorkdir, EnterTry
<1> QED BY <1>1 DEF IInv, MakeWorkdir, EnterTry, KnownOfSystem, ExitTells, Steps

LEMMA RunSystemKeeps == IInv /\ RunSystem => IInv'
<1> SUFFICES ASSUME IInv, RunSystem PROVE IInv'
  OBVIOUS
<1>1. CASE driver.script /\ driver.exit = 0 /\ driver.hasReference
  <2>1. /\ step = "generate" /\ step' = "geometry" /\ todo # <<>> /\ exit = "running"
        /\ UNCHANGED <<world, invocation, todo, differs, failures, workdir, exit>>
    BY <1>1 DEF RunSystem
  <2>2. Remaining' /\ FailuresSoFar'
    BY <2>1, SameSystems DEF IInv
  <2>3. KnownOfSystem'
    BY <1>1, <2>1 DEF IInv, KnownOfSystem, driver, system
  <2> QED BY <2>1, <2>2, <2>3 DEF IInv, ExitTells, Steps
<1>2. CASE ~(driver.script /\ driver.exit = 0 /\ driver.hasReference)
  <2>1. Conclude(FALSE) /\ exit = "running" /\ step = "generate" /\ todo # <<>>
    BY <1>2 DEF RunSystem
  <2>2. ~SystemAgrees(system)
    BY <1>2 DEF SystemAgrees, driver
  <2> QED BY <2>1, <2>2, ConcludeKeeps
<1> QED BY <1>1, <1>2

LEMMA CompareFilesKeeps == IInv /\ CompareFiles => IInv'
<1> SUFFICES ASSUME IInv, CompareFiles PROVE IInv'
  OBVIOUS
<1> DEFINE result == Result(step)
<1>1. /\ exit = "running" /\ step \in {"geometry", "materials"} /\ todo # <<>>
      /\ driver.script /\ driver.exit = 0 /\ driver.hasReference
  BY DEF IInv, KnownOfSystem, CompareFiles
<1>2. CASE result = "raises"
  <2>1. Conclude(FALSE)
    BY <1>2 DEF CompareFiles, Result
  <2>2. ~SystemAgrees(system)
    BY <1>1, <1>2 DEF SystemAgrees, Result, driver
  <2> QED BY <1>1, <2>1, <2>2, ConcludeKeeps
<1>3. CASE result # "raises"
  <2>1. /\ step' = Following[step] /\ differs' = (differs \/ result = "differs")
        /\ UNCHANGED <<world, invocation, todo, failures, workdir, exit>>
    BY <1>3 DEF CompareFiles, Result
  <2>2. Remaining' /\ FailuresSoFar'
    BY <2>1, SameSystems DEF IInv
  <2>3. result \in {"ok", "differs"} /\ differs' \in BOOLEAN
    BY <1>3, <2>1, SectionOutcome DEF Result, Outcomes, IInv, KnownOfSystem
  <2>4. driver' = driver /\ \A section : Result(section)' = Result(section)
    BY <2>1 DEF Result, driver, system
  <2>5. CASE step = "geometry"
    <3>1. step' = "materials" /\ (differs' <=> Result("geometry") = "differs")
      BY <2>1, <2>5 DEF Following, IInv, KnownOfSystem
    <3>2. KnownOfSystem'
      BY <1>1, <2>1, <2>3, <2>4, <2>5, <3>1 DEF KnownOfSystem
    <3> QED BY <1>1, <2>1, <2>2, <3>1, <3>2 DEF IInv, ExitTells, Steps
  <2>6. CASE step = "materials"
    <3>1. step' = "cad"
      BY <2>1, <2>6 DEF Following
    <3>2. KnownOfSystem'
      BY <1>1, <2>1, <2>3, <2>4, <2>6, <3>1 DEF IInv, KnownOfSystem
    <3> QED BY <1>1, <2>1, <2>2, <3>1, <3>2 DEF IInv, ExitTells, Steps
  <2> QED BY <1>1, <2>5, <2>6
<1> QED BY <1>2, <1>3

LEMMA CompareCadFilesKeeps == IInv /\ CompareCadFiles => IInv'
<1> SUFFICES ASSUME IInv, CompareCadFiles PROVE IInv'
  OBVIOUS
<1> DEFINE ok == /\ ~differs
                 /\ system \in CadSystems => CompareCad(system, driver.made, driver.reference) = "ok"
<1>1. exit = "running" /\ step = "cad" /\ Conclude(ok)
  BY DEF CompareCadFiles
<1>2. /\ todo # <<>> /\ driver.script /\ driver.exit = 0 /\ driver.hasReference
      /\ Result("geometry") \in {"ok", "differs"} /\ Result("materials") \in {"ok", "differs"}
      /\ differs <=> (Result("geometry") = "differs" \/ Result("materials") = "differs")
  BY <1>1 DEF IInv, KnownOfSystem
<1>3. ok <=> SystemAgrees(system)
  <2>1. ~differs <=> \A section \in {"geometry", "materials"} : Result(section) = "ok"
    BY <1>2
  <2> QED BY <1>2, <2>1 DEF SystemAgrees, Result, driver
<1>4. ok \in BOOLEAN
  OBVIOUS
<1> HIDE DEF ok
<1> QED BY <1>1, <1>2, <1>3, <1>4, ConcludeKeeps

(* However the process ends, nothing is concluded on the way.              *)
LEMMA EndKeeps ==
    ASSUME IInv, UNCHANGED <<world, invocation, todo, step, differs, failures>>, ExitTells'
    PROVE  IInv'
<1>1. Remaining' /\ FailuresSoFar'
  BY SameSystems DEF IInv
<1>2. driver' = driver /\ \A section : Result(section)' = Result(section)
  BY DEF Result, driver, system
<1>3. KnownOfSystem'
  BY <1>2 DEF IInv, KnownOfSystem
<1> QED BY <1>1, <1>3 DEF IInv

LEMMA LeaveKeeps ==
    ASSUME IInv, exit = "running", NEW status \in {"0", "1", "interrupted"},
           Leave(status), status \in {"0", "1"} => todo = <<>> /\ (status = "1" <=> failures # {})
    PROVE  IInv'
<1>1. /\ exit' \in {status, "raised", "interrupted"}
      /\ UNCHANGED <<world, invocation, todo, step, differs, failures>>
  BY DEF Leave
<1>2. ExitTells'
  BY <1>1 DEF ExitTells
<1> QED BY <1>1, <1>2, EndKeeps

LEMMA NextInvariant == IInv /\ [Next]_vars => IInv'
<1> SUFFICES ASSUME IInv, [Next]_vars PROVE IInv'
  OBVIOUS
<1>1. CASE MakeWorkdir \/ EnterTry
  BY <1>1, WorkdirKeeps
<1>2. CASE RunSystem
  BY <1>2, RunSystemKeeps
<1>3. CASE CompareFiles
  BY <1>3, CompareFilesKeeps
<1>4. CASE CompareCadFiles
  BY <1>4, CompareCadFilesKeeps
<1>5. CASE Finish
  <2>1. PICK status \in {"0", "1"} :
           /\ Leave(status) /\ status = IF failures = {} THEN "0" ELSE "1"
    BY <1>5 DEF Finish
  <2>2. exit = "running" /\ step # "start" /\ todo = <<>> /\ (status = "1" <=> failures # {})
    BY <1>5, <2>1 DEF Finish
  <2> QED BY <2>1, <2>2, LeaveKeeps
<1>6. CASE Interrupted
  <2>1. CASE Leave("interrupted")
    BY <1>6, <2>1, LeaveKeeps DEF Interrupted
  <2>2. CASE ~Leave("interrupted")
    <3>1. exit' = "interrupted" /\ UNCHANGED <<world, invocation, todo, step, differs, failures>>
      BY <1>6, <2>2 DEF Interrupted
    <3> QED BY <3>1, EndKeeps DEF ExitTells
  <2> QED BY <2>1, <2>2
<1>7. CASE Killed
  BY <1>7, EndKeeps DEF Killed, ExitTells
<1>8. CASE UNCHANGED vars
  <2>1. Remaining' /\ FailuresSoFar'
    BY <1>8, SameSystems DEF IInv, vars
  <2>2. driver' = driver /\ \A section : Result(section)' = Result(section)
    BY <1>8 DEF Result, driver, system, vars
  <2>3. KnownOfSystem'
    BY <1>8, <2>2 DEF IInv, KnownOfSystem, vars
  <2> QED BY <1>8, <2>1, <2>3 DEF IInv, ExitTells, vars
<1> QED BY <1>1, <1>2, <1>3, <1>4, <1>5, <1>6, <1>7, <1>8 DEF Next

LEMMA InvariantHolds == Spec => []IInv
<1> QED BY InitInvariant, NextInvariant, PTL DEF Spec

(* The verdict on a system is its own, for every list of systems, drivers  *)
(* and references: VerdictIsPerSystem (compare_system, main).              *)
THEOREM VerdictCorrect == Spec => []VerdictIsPerSystem
<1>1. IInv => VerdictIsPerSystem
  <2> SUFFICES ASSUME IInv, exit \in {"0", "1"}
               PROVE  /\ failures = {s \in {Systems[i] : i \in DOMAIN Systems} : ~SystemAgrees(s)}
                      /\ exit = "1" <=> failures # {}
    BY DEF VerdictIsPerSystem
  <2>1. todo = <<>> /\ (exit = "1" <=> failures # {})
    BY DEF IInv, ExitTells
  <2>2. 1 .. Compared = DOMAIN Systems
    BY <2>1, SystemsAssumption DEF Compared
  <2> QED BY <2>1, <2>2 DEF IInv, FailuresSoFar
<1> QED BY <1>1, InvariantHolds, PTL

-----------------------------------------------------------------------------
(* What agreement of one system is worth, unfolded from the whole down to  *)
(* the fields of one volume.                                               *)

(* Of two sets of records with the same names, each has the counterpart of *)
(* what the other has.                                                     *)
LEMMA Counterparts ==
    ASSUME NEW generated, NEW reference, {g.name : g \in generated} = {r.name : r \in reference}
    PROVE  /\ \A r \in reference : \E g \in generated : g.name = r.name
           /\ \A g \in generated : \E r \in reference : g.name = r.name
<1>1. \A r \in reference : r.name \in {g.name : g \in generated}
  OBVIOUS
<1>2. \A g \in generated : g.name \in {r.name : r \in reference}
  OBVIOUS
<1> QED BY <1>1, <1>2

(* Only a mirror is excused, and only from its identifier.                 *)
LEMMA GeometryAgrees ==
    ASSUME NEW g, NEW r, g.name = r.name, SameGeometry(g, r)
    PROVE  SameVolume(g, r)
BY Zenon DEF SameGeometry, SameVolume, GeometryFields

LEMMA VariationAgrees ==
    ASSUME NEW s, NEW section \in {"geometry", "materials"}, NEW rows, NEW reference,
           CompareVariation(s, section, SemanticRecords(rows, "pygemc", section),
                            SemanticRecords(reference, "clas12tags", section))
    PROVE  RowsAgree(s, section, rows, reference)
<1> DEFINE Made(i) == RecordAt(rows, i, "pygemc", section)
           Old(j) == RecordAt(reference, j, "clas12tags", section)
           isCad(g) == s \in CadOwners /\ section = "geometry" /\ g.solid = <<W("CAD")>>
           PassedOver(i) == Hidden(rows, i, "pygemc", section) \/ Skipped(Made(i), s) \/ isCad(Made(i))
           OldPassedOver(j) == Hidden(reference, j, "clas12tags", section) \/ Skipped(Old(j), s)
           own == {Made(i) : i \in {i \in DOMAIN rows : ~PassedOver(i)}}
           old == {Old(j) : j \in {j \in DOMAIN reference : ~OldPassedOver(j)}}
<1>1. /\ section = "geometry" => NoDifferences(own, old, SameGeometry)
      /\ section = "materials" => NoDifferences(own, old, SameMaterial)
  <2> DEFINE made == DropSkippedVolumes(SemanticRecords(rows, "pygemc", section), s)
  <2>1. own = IF s \in CadOwners /\ section = "geometry"
              THEN {g \in made : g.solid # <<W("CAD")>>} ELSE made
    BY DEF SemanticRecords, DropSkippedVolumes
  <2>2. old = DropSkippedVolumes(SemanticRecords(reference, "clas12tags", section), s)
    BY DEF SemanticRecords, DropSkippedVolumes
  <2> HIDE DEF own, old
  <2> QED BY <2>1, <2>2 DEF CompareVariation
<1> HIDE DEF own, old
<1>2. /\ \A r \in old : \E g \in own : Says(g, r, section)
      /\ \A g \in own : \E r \in old : Says(g, r, section)
  <2>1. CASE section = "geometry"
    <3>1. /\ \A r \in old : \E g \in own : g.name = r.name /\ SameGeometry(g, r)
          /\ \A g \in own : \E r \in old : g.name = r.name /\ SameGeometry(g, r)
      <4>1. /\ {g.name : g \in own} = {r.name : r \in old}
            /\ \A g \in own, r \in old : g.name = r.name => SameGeometry(g, r)
        BY <1>1, <2>1 DEF NoDifferences
      <4>2. /\ \A r \in old : \E g \in own : g.name = r.name
            /\ \A g \in own : \E r \in old : g.name = r.name
        BY ONLY <4>1, Counterparts, Zenon
      <4> QED BY <4>1, <4>2, Zenon
    <3>2. \A g, r : g.name = r.name /\ SameGeometry(g, r) => Says(g, r, section)
      BY <2>1, GeometryAgrees DEF Says
    <3> QED BY <3>1, <3>2
  <2>2. CASE section = "materials"
    <3>1. /\ \A r \in old : \E g \in own : g.name = r.name /\ SameMaterial(g, r)
          /\ \A g \in own : \E r \in old : g.name = r.name /\ SameMaterial(g, r)
      <4>1. /\ {g.name : g \in own} = {r.name : r \in old}
            /\ \A g \in own, r \in old : g.name = r.name => SameMaterial(g, r)
        BY <1>1, <2>2 DEF NoDifferences
      <4>2. /\ \A r \in old : \E g \in own : g.name = r.name
            /\ \A g \in own : \E r \in old : g.name = r.name
        BY ONLY <4>1, Counterparts, Zenon
      <4> QED BY <4>1, <4>2, Zenon
    <3>2. \A g, r : g.name = r.name /\ SameMaterial(g, r) => Says(g, r, section)
      BY <2>2 DEF Says
    <3> QED BY <3>1, <3>2
  <2> QED BY <2>1, <2>2
<1> HIDE DEF Made, Old, PassedOver, OldPassedOver
<1>3. \A j \in DOMAIN reference :
         OldPassedOver(j) \/ \E i \in DOMAIN rows : ~PassedOver(i) /\ Says(Made(i), Old(j), section)
  BY <1>2 DEF own, old
<1>4. \A i \in DOMAIN rows :
         PassedOver(i) \/ \E j \in DOMAIN reference : ~OldPassedOver(j) /\ Says(Made(i), Old(j), section)
  BY <1>2 DEF own, old
<1> QED BY <1>3, <1>4 DEF RowsAgree, Made, Old, PassedOver, OldPassedOver, isCad

(* A section that agrees was written in every variation.                   *)
LEMMA SectionOfAgreement ==
    ASSUME NEW s, NEW section \in {"geometry", "materials"}, NEW made, NEW reference,
           CompareSection(s, section, made, reference) = "ok"
    PROVE  SectionAgrees(s, section, made, reference)
<1> DEFINE written == Variations(WrittenFiles(s, section, made))
           old == Variations(VariationFiles(reference, s, section))
           aliases == IF s = "dc" /\ "default" \in old THEN {"rga_spring2018", "rga_fall2018"} ELSE {}
<1>1. /\ written = old \cup aliases
      /\ \A v \in written : CompareVariation(s, section, Generated(s, section, v, made),
                                             Expected(s, section, v, reference))
  BY Zenon DEF CompareSection
<1>2. \A v \in written : RowsAgree(s, section, WrittenRows(s, section, v, made),
                                   ReferenceRows(s, section, v, reference))
  BY <1>1, VariationAgrees DEF Generated, Expected
<1> QED BY <1>1, <1>2 DEF SectionAgrees

(* Meshes that agree are all there, in the file of their variation.        *)
LEMMA MeshesOfAgreement ==
    ASSUME NEW s, NEW made, NEW reference, CompareCad(s, made, reference) = "ok"
    PROVE  MeshesAgree(s, made, reference)
<1> DEFINE expected == PlacementKeys(s, reference)
           placed(k) == Placed(s, k, reference)
           meshes(k) == Meshes(s, k, made, placed(k))
<1>1. /\ expected # {} /\ expected = MeshKeys(s, made)
      /\ \A k \in expected : NoDifferences(meshes(k), placed(k), SameCad)
  BY Zenon DEF CompareCad
<1> SUFFICES ASSUME NEW k \in expected
             PROVE  LET volumes == Volumes(s, k, reference)
                        rows == MeshRows(k, made)
                        Same(i, j) == /\ SameVolume(MeshAt(rows, i), VolumeAt(volumes, j, k))
                                      /\ SameLook(MeshAt(rows, i), VolumeAt(volumes, j, k))
                    IN  /\ \A j \in DOMAIN volumes :
                              Replaced(volumes, j) \/ \E i \in DOMAIN rows : ~Covered(rows, i) /\ Same(i, j)
                        /\ \A i \in DOMAIN rows :
                              \/ Covered(rows, i)
                              \/ /\ s \in CadOwners
                                 /\ \A j \in DOMAIN volumes :
                                      Replaced(volumes, j) \/ VolumeAt(volumes, j, k).name # MeshAt(rows, i).name
                              \/ \E j \in DOMAIN volumes : ~Replaced(volumes, j) /\ Same(i, j)
  BY <1>1 DEF MeshesAgree
<1> DEFINE volumes == Volumes(s, k, reference)
           rows == MeshRows(k, made)
           Same(g, p) == SameVolume(g, p) /\ SameLook(g, p)
           Left(i) == Unplaced(s, MeshAt(rows, i), placed(k))
<1>2. /\ placed(k) = {VolumeAt(volumes, j, k) : j \in {j \in DOMAIN volumes : ~Replaced(volumes, j)}}
      /\ meshes(k) = {MeshAt(rows, i) : i \in {i \in DOMAIN rows : ~Covered(rows, i) /\ ~Left(i)}}
  BY DEF Placed, Meshes
<1>3. \A i \in DOMAIN rows : Left(i) => s \in CadOwners
                              /\ \A j \in DOMAIN volumes : Replaced(volumes, j) \/ VolumeAt(volumes, j, k).name # MeshAt(rows, i).name
  BY <1>2 DEF Unplaced
<1> HIDE DEF placed, meshes, volumes, rows, Left
<1>4. /\ \A p \in placed(k) : \E g \in meshes(k) : g.name = p.name /\ SameCad(g, p)
      /\ \A g \in meshes(k) : \E p \in placed(k) : g.name = p.name /\ SameCad(g, p)
  <2>1. /\ {g.name : g \in meshes(k)} = {p.name : p \in placed(k)}
        /\ \A g \in meshes(k), p \in placed(k) : g.name = p.name => SameCad(g, p)
    BY <1>1 DEF NoDifferences
  <2> QED BY <2>1, Counterparts
<1>5. \A g, p : g.name = p.name /\ SameCad(g, p) => Same(g, p)
  BY GeometryAgrees DEF SameCad
<1> HIDE DEF Same
<1>6. \A j \in DOMAIN volumes :
         Replaced(volumes, j) \/ \E i \in DOMAIN rows : ~Covered(rows, i) /\ Same(MeshAt(rows, i), VolumeAt(volumes, j, k))
  BY <1>2, <1>4, <1>5
<1>7. \A i \in DOMAIN rows :
         \/ Covered(rows, i) \/ Left(i)
         \/ \E j \in DOMAIN volumes : ~Replaced(volumes, j) /\ Same(MeshAt(rows, i), VolumeAt(volumes, j, k))
  BY <1>2, <1>4, <1>5
<1> QED BY <1>3, <1>6, <1>7 DEF volumes, rows, Same

(* For every list of systems and whatever their drivers write and their    *)
(* references hold, a status of 0 is given only if the two say the same:   *)
(* PassMeansSame (semantic_differences, compare_section, compare_cad).     *)
THEOREM PassIsAgreement == Spec => []PassMeansSame
<1>1. VerdictIsPerSystem => PassMeansSame
  <2> SUFFICES ASSUME VerdictIsPerSystem, exit = "0", NEW i \in DOMAIN Systems
               PROVE  /\ \A section \in {"geometry", "materials"} :
                            SectionAgrees(Systems[i], section, world[Systems[i]].made, world[Systems[i]].reference)
                      /\ Systems[i] \in CadSystems =>
                            MeshesAgree(Systems[i], world[Systems[i]].made, world[Systems[i]].reference)
    BY DEF PassMeansSame
  <2>1. SystemAgrees(Systems[i])
    BY DEF VerdictIsPerSystem
  <2> QED BY <2>1, SectionOfAgreement, MeshesOfAgreement DEF SystemAgrees
<1> QED BY <1>1, VerdictCorrect, PTL

-----------------------------------------------------------------------------
(* What the normal forms keep and what they forget.                        *)

LEMMA AsSequence ==
    ASSUME NEW S, NEW n \in Nat, NEW F \in [1 .. n -> S]
    PROVE  F \in Seq(S) /\ Len(F) = n
OBVIOUS

(* A field stays as long as it is, token by token.                         *)
LEMMA NormalField ==
    ASSUME NEW T, NEW f \in Seq(T)
    PROVE  /\ NormalizeField(f) \in Seq(T \cup {N(0, "")})
           /\ Len(NormalizeField(f)) = Len(f)
           /\ \A i \in 1 .. Len(f) : NormalizeField(f)[i] = NumberToken(f[i])
<1>1. DOMAIN f = 1 .. Len(f) /\ Len(f) \in Nat /\ \A i \in 1 .. Len(f) : f[i] \in T
  OBVIOUS
<1>2. NormalizeField(f) = [i \in 1 .. Len(f) |-> NumberToken(f[i])]
  BY <1>1, Zenon DEF NormalizeField
<1>3. \A i \in 1 .. Len(f) : NumberToken(f[i]) \in T \cup {N(0, "")}
  BY <1>1, Zenon DEF NumberToken
<1>4. NormalizeField(f) \in [1 .. Len(f) -> T \cup {N(0, "")}]
  BY <1>2, <1>3, Zenon
<1>5. \A i \in 1 .. Len(f) : NormalizeField(f)[i] = NumberToken(f[i])
  BY <1>2, Zenon
<1> QED BY <1>1, <1>4, <1>5, AsSequence, Zenon

(* A token of two fields in a row is one of the first or of the second.    *)
LEMMA ConcatToken ==
    ASSUME NEW T, NEW a \in Seq(T), NEW b \in Seq(T), NEW i \in 1 .. Len(a) + Len(b)
    PROVE  \/ i \in 1 .. Len(a) /\ (a \o b)[i] = a[i]
           \/ i - Len(a) \in 1 .. Len(b) /\ ~(i \in 1 .. Len(a)) /\ (a \o b)[i] = b[i - Len(a)]
<1>1. Len(a) \in Nat /\ Len(b) \in Nat
  OBVIOUS
<1>2. (a \o b)[i] = IF i <= Len(a) THEN a[i] ELSE b[i - Len(a)]
  BY ConcatProperties
<1> QED BY <1>1, <1>2

LEMMA NormalConcat ==
    ASSUME NEW T, NEW f \in Seq(T), NEW g \in Seq(T)
    PROVE  NormalizeField(f \o g) = NormalizeField(f) \o NormalizeField(g)
<1> DEFINE U == T \cup {N(0, "")}
           nf == NormalizeField(f)
           ng == NormalizeField(g)
           l == NormalizeField(f \o g)
           r == nf \o ng
<1>1. f \o g \in Seq(T) /\ Len(f \o g) = Len(f) + Len(g)
  BY ConcatProperties
<1>2. /\ l \in Seq(U) /\ Len(l) = Len(f) + Len(g)
      /\ \A i \in 1 .. Len(f) + Len(g) : l[i] = NumberToken((f \o g)[i])
  BY <1>1, NormalField
<1>3. /\ nf \in Seq(U) /\ Len(nf) = Len(f) /\ \A i \in 1 .. Len(f) : nf[i] = NumberToken(f[i])
      /\ ng \in Seq(U) /\ Len(ng) = Len(g) /\ \A i \in 1 .. Len(g) : ng[i] = NumberToken(g[i])
  BY NormalField
<1> HIDE DEF U, nf, ng, l
<1>4. r \in Seq(U) /\ Len(r) = Len(f) + Len(g)
  <2>1. nf \in Seq(U) /\ ng \in Seq(U) /\ Len(nf) = Len(f) /\ Len(ng) = Len(g)
    BY <1>3
  <2>2. r \in Seq(U) /\ Len(r) = Len(nf) + Len(ng)
    BY ONLY <2>1, ConcatProperties
  <2> QED BY <2>1, <2>2
<1>5. ASSUME NEW i \in 1 .. Len(f) + Len(g) PROVE l[i] = r[i]
  <2>1. \/ i \in 1 .. Len(f) /\ (f \o g)[i] = f[i]
        \/ i - Len(f) \in 1 .. Len(g) /\ ~(i \in 1 .. Len(f)) /\ (f \o g)[i] = g[i - Len(f)]
    BY ConcatToken
  <2>2. \/ i \in 1 .. Len(f) /\ r[i] = nf[i]
        \/ i - Len(f) \in 1 .. Len(g) /\ ~(i \in 1 .. Len(f)) /\ r[i] = ng[i - Len(f)]
    <3>1. nf \in Seq(U) /\ ng \in Seq(U) /\ Len(nf) = Len(f) /\ Len(ng) = Len(g)
      BY <1>3
    <3>2. i \in 1 .. Len(nf) + Len(ng)
      BY ONLY <3>1, i \in 1 .. Len(f) + Len(g), Zenon
    <3>3. \/ i \in 1 .. Len(nf) /\ r[i] = nf[i]
          \/ i - Len(nf) \in 1 .. Len(ng) /\ ~(i \in 1 .. Len(nf)) /\ r[i] = ng[i - Len(nf)]
      BY ONLY <3>1, <3>2, ConcatToken
    <3> QED BY ONLY <3>1, <3>3, Zenon
  <2> QED BY <1>2, <1>3, <2>1, <2>2, Zenon
<1> HIDE DEF r
<1>6. l = r
  BY <1>2, <1>4, <1>5, SeqEqual
<1> QED BY <1>6 DEF l, r, nf, ng

(* Concatenation is associative.                                           *)
Assoc(s, t, u) == (s \o t) \o u = s \o (t \o u)
LEMMA AssocOf ==
    ASSUME NEW S, NEW s \in Seq(S), NEW t \in Seq(S), NEW u \in Seq(S)
    PROVE  Assoc(s, t, u)
BY ONLY s \in Seq(S), t \in Seq(S), u \in Seq(S), ConcatAssociative DEF Assoc

LEMMA ConcatIsSeq ==
    ASSUME NEW T, NEW a \in Seq(T), NEW b \in Seq(T)
    PROVE  a \o b \in Seq(T)
OBVIOUS

(* What follows a in a sequence that begins with it.                       *)
LEMMA ConcatAt ==
    ASSUME NEW T, NEW a \in Seq(T), NEW b \in Seq(T)
    PROVE  /\ a \o b \in Seq(T) /\ Len(a \o b) = Len(a) + Len(b)
           /\ \A i \in 1 .. Len(a) : (a \o b)[i] = a[i]
           /\ \A i \in 1 .. Len(b) : (a \o b)[Len(a) + i] = b[i]
<1>1. Len(a) \in Nat /\ Len(b) \in Nat
  OBVIOUS
<1>2. \A i \in 1 .. Len(a) + Len(b) : (a \o b)[i] = IF i <= Len(a) THEN a[i] ELSE b[i - Len(a)]
  BY ConcatProperties
<1>3. ASSUME NEW i \in 1 .. Len(b) PROVE (a \o b)[Len(a) + i] = b[i]
  <2>1. Len(a) + i \in 1 .. Len(a) + Len(b) /\ ~(Len(a) + i <= Len(a)) /\ Len(a) + i - Len(a) = i
    BY <1>1
  <2> QED BY <1>2, <2>1
<1> QED BY <1>1, <1>2, <1>3, ConcatProperties

(* A piece of a sequence.                                                  *)
LEMMA PieceOf ==
    ASSUME NEW T, NEW b \in Seq(T), NEW d, NEW m \in Nat, \A i \in 1 .. Len(b) : d[m + i] = b[i]
    PROVE  SubSeq(d, m + 1, m + Len(b)) = b
<1> DEFINE p == SubSeq(d, m + 1, m + Len(b))
<1>1. Len(b) \in Nat /\ \A i \in 1 .. Len(b) : b[i] \in T
  OBVIOUS
<1>2. ASSUME NEW i \in m + 1 .. m + Len(b) PROVE d[i] \in T
  <2>1. i - m \in 1 .. Len(b) /\ i = m + (i - m)
    BY <1>1
  <2>2. d[m + (i - m)] = b[i - m]
    BY <2>1
  <2> QED BY <1>1, <2>1, <2>2
<1>3. /\ p \in Seq(T) /\ Len(p) = IF m + 1 <= m + Len(b) THEN m + Len(b) - (m + 1) + 1 ELSE 0
      /\ \A i \in 1 .. m + Len(b) - (m + 1) + 1 : p[i] = d[m + 1 + i - 1]
  <2>1. m + 1 \in Int /\ m + Len(b) \in Int
    BY <1>1
  <2> QED BY <1>2, <2>1, SubSeqProperties
<1> HIDE DEF p
<1>4. Len(p) = Len(b) /\ \A i \in 1 .. Len(b) : p[i] = b[i]
  <2>1. Len(p) = Len(b)
    BY <1>1, <1>3
  <2>2. ASSUME NEW i \in 1 .. Len(b) PROVE p[i] = b[i]
    <3>1. i \in 1 .. m + Len(b) - (m + 1) + 1 /\ m + 1 + i - 1 = m + i
      BY <1>1
    <3> QED BY <1>3, <3>1
  <2> QED BY <2>1, <2>2
<1>5. p = b
  BY <1>3, <1>4, SeqEqual
<1> QED BY <1>5 DEF p

(* Pieces of equal length can be told apart.                               *)
LEMMA EqualPieces ==
    ASSUME NEW T, NEW a \in Seq(T), NEW b \in Seq(T), NEW c \in Seq(T), NEW d \in Seq(T),
           Len(a) = Len(c), a \o b = c \o d
    PROVE  a = c /\ b = d
<1>1. Len(a) \in Nat /\ Len(b) \in Nat /\ Len(d) \in Nat /\ Len(b) = Len(d)
  <2>1. Len(a \o b) = Len(a) + Len(b) /\ Len(c \o d) = Len(c) + Len(d)
    BY ConcatProperties
  <2> QED BY <2>1
<1>2. a = c
  <2>1. ASSUME NEW i \in 1 .. Len(a) PROVE a[i] = c[i]
    <3>1. (a \o b)[i] = a[i] /\ (c \o d)[i] = c[i]
      BY <1>1, ConcatProperties
    <3> QED BY <3>1
  <2> QED BY <2>1, SeqEqual
<1>3. b = d
  BY <1>2, ConcatSimplifications
<1> QED BY <1>2, <1>3

(* A piece in the middle of a sequence, m tokens from its beginning.       *)
LEMMA PieceBetween ==
    ASSUME NEW U, NEW n \in Nat, NEW b \in Seq(U), Len(b) = n, NEW d, NEW m \in Nat,
           \A i \in 1 .. n : d[m + i] = b[i],
           NEW from \in Nat, from = m + 1, NEW to \in Nat, to = m + n
    PROVE  SubSeq(d, from, to) = b
<1>1. SubSeq(d, m + 1, m + Len(b)) = b
  BY PieceOf
<1> QED BY <1>1, Zenon

(* The pieces of a head and three arrays of n tokens in a row.             *)
Pieces(d, n, a, b, c, e) ==
    /\ Len(d) = 3 + 3 * n /\ d[3] = a[3]
    /\ SubSeq(d, 1, 3) = a /\ SubSeq(d, 4, 3 + n) = b
    /\ SubSeq(d, 4 + n, 3 + 2 * n) = c /\ SubSeq(d, 4 + 2 * n, 3 + 3 * n) = e

(* Where the pieces are of a head and three arrays of n tokens in a row.   *)
LEMMA FourConcat ==
    ASSUME NEW U, NEW n \in Nat, NEW a \in Seq(U), NEW b \in Seq(U), NEW c \in Seq(U), NEW e \in Seq(U),
           Len(a) = 3, Len(b) = n, Len(c) = n, Len(e) = n,
           NEW v, v = c \o e, NEW u, u = b \o v, NEW d, d = a \o u
    PROVE  Pieces(d, n, a, b, c, e)
<1>1. /\ v \in Seq(U) /\ Len(v) = Len(c) + Len(e)
      /\ \A i \in 1 .. Len(c) : v[i] = c[i]
      /\ \A i \in 1 .. Len(e) : v[Len(c) + i] = e[i]
  <2>1. /\ c \o e \in Seq(U) /\ Len(c \o e) = Len(c) + Len(e)
        /\ \A i \in 1 .. Len(c) : (c \o e)[i] = c[i]
        /\ \A i \in 1 .. Len(e) : (c \o e)[Len(c) + i] = e[i]
    BY ONLY ConcatAt, c \in Seq(U), e \in Seq(U)
  <2> QED BY ONLY <2>1, v = c \o e, Zenon
<1>2. /\ u \in Seq(U) /\ Len(u) = Len(b) + Len(v)
      /\ \A i \in 1 .. Len(b) : u[i] = b[i]
      /\ \A i \in 1 .. Len(v) : u[Len(b) + i] = v[i]
  <2>1. /\ b \o v \in Seq(U) /\ Len(b \o v) = Len(b) + Len(v)
        /\ \A i \in 1 .. Len(b) : (b \o v)[i] = b[i]
        /\ \A i \in 1 .. Len(v) : (b \o v)[Len(b) + i] = v[i]
    <3>1. v \in Seq(U)
      BY ONLY <1>1
    <3> QED BY ONLY <3>1, ConcatAt, b \in Seq(U)
  <2> QED BY ONLY <2>1, u = b \o v, Zenon
<1>3. /\ Len(d) = Len(a) + Len(u)
      /\ \A i \in 1 .. Len(a) : d[i] = a[i]
      /\ \A i \in 1 .. Len(u) : d[Len(a) + i] = u[i]
  <2>1. /\ a \o u \in Seq(U) /\ Len(a \o u) = Len(a) + Len(u)
        /\ \A i \in 1 .. Len(a) : (a \o u)[i] = a[i]
        /\ \A i \in 1 .. Len(u) : (a \o u)[Len(a) + i] = u[i]
    <3>1. u \in Seq(U)
      BY ONLY <1>2
    <3> QED BY ONLY <3>1, ConcatAt, a \in Seq(U)
  <2> QED BY ONLY <2>1, d = a \o u, Zenon
<1>4. Len(v) = n + n /\ Len(u) = n + (n + n) /\ Len(d) = 3 + (n + (n + n))
  BY ONLY <1>1, <1>2, <1>3, Len(a) = 3, Len(b) = n, Len(c) = n, Len(e) = n, Zenon
<1>5. Len(d) = 3 + 3 * n
  BY ONLY <1>4, n \in Nat
<1>6. /\ \A i \in 1 .. 3 : d[i] = a[i]
      /\ \A i \in 1 .. n + (n + n) : d[3 + i] = u[i]
      /\ \A i \in 1 .. n : u[i] = b[i]
      /\ \A i \in 1 .. n + n : u[n + i] = v[i]
      /\ \A i \in 1 .. n : v[i] = c[i]
      /\ \A i \in 1 .. n : v[n + i] = e[i]
  BY ONLY <1>1, <1>2, <1>3, <1>4, Len(a) = 3, Len(b) = n, Len(c) = n, Len(e) = n, Zenon
<1>7. SubSeq(d, 1, 3) = a
  <2>1. \A i \in 1 .. 3 : d[0 + i] = a[i]
    BY ONLY <1>6
  <2>2. 1 = 0 + 1 /\ 3 = 0 + 3
    OBVIOUS
  <2> QED BY ONLY <2>1, <2>2, PieceBetween, a \in Seq(U), Len(a) = 3
<1>8. SubSeq(d, 4, 3 + n) = b
  <2>1. ASSUME NEW i \in 1 .. n PROVE d[3 + i] = b[i]
    <3>1. i \in 1 .. n + (n + n)
      BY ONLY n \in Nat
    <3> QED BY ONLY <1>6, <3>1, i \in 1 .. n, Zenon
  <2>2. 3 \in Nat /\ 4 \in Nat /\ 4 = 3 + 1 /\ 3 + n \in Nat
    BY ONLY n \in Nat
  <2> QED BY ONLY <2>1, <2>2, PieceBetween, b \in Seq(U), Len(b) = n, n \in Nat
<1>9. SubSeq(d, 4 + n, 3 + 2 * n) = c
  <2>1. PICK m \in Nat, f \in Nat, t \in Nat : m = 3 + n /\ f = 4 + n /\ t = 3 + 2 * n
    BY ONLY n \in Nat
  <2>2. ASSUME NEW i \in 1 .. n PROVE d[m + i] = c[i]
    <3>1. i \in 1 .. n + n /\ n + i \in 1 .. n + (n + n) /\ m + i = 3 + (n + i)
      BY ONLY <2>1, n \in Nat
    <3> QED BY ONLY <1>6, <3>1, i \in 1 .. n, Zenon
  <2>3. f = m + 1 /\ t = m + n
    BY ONLY <2>1, n \in Nat
  <2>4. \A i \in 1 .. Len(c) : d[m + i] = c[i]
    BY ONLY <2>2, Len(c) = n
  <2>5. SubSeq(d, m + 1, m + Len(c)) = c
    BY ONLY <2>4, PieceOf, m \in Nat, c \in Seq(U), Zenon
  <2>6. SubSeq(d, f, t) = c
    BY ONLY <2>3, <2>5, Len(c) = n, Zenon
  <2> QED BY ONLY <2>1, <2>6, Zenon
<1>10. SubSeq(d, 4 + 2 * n, 3 + 3 * n) = e
  <2>1. PICK m \in Nat, f \in Nat, t \in Nat : m = 3 + 2 * n /\ f = 4 + 2 * n /\ t = 3 + 3 * n
    BY ONLY n \in Nat
  <2>2. ASSUME NEW i \in 1 .. n PROVE d[m + i] = e[i]
    <3>1. n + i \in 1 .. n + n /\ n + (n + i) \in 1 .. n + (n + n) /\ m + i = 3 + (n + (n + i))
      BY ONLY <2>1, n \in Nat
    <3> QED BY ONLY <1>6, <3>1, i \in 1 .. n, Zenon
  <2>3. f = m + 1 /\ t = m + n
    BY ONLY <2>1, n \in Nat
  <2>4. \A i \in 1 .. Len(e) : d[m + i] = e[i]
    BY ONLY <2>2, Len(e) = n
  <2>5. SubSeq(d, m + 1, m + Len(e)) = e
    BY ONLY <2>4, PieceOf, m \in Nat, e \in Seq(U), Zenon
  <2>6. SubSeq(d, f, t) = e
    BY ONLY <2>3, <2>5, Len(e) = n, Zenon
  <2> QED BY ONLY <2>1, <2>6, Zenon
<1>11. d[3] = a[3]
  BY ONLY <1>6
<1> QED BY ONLY <1>5, <1>7, <1>8, <1>9, <1>10, <1>11, Zenon DEF Pieces

(* pygemc's z, inner, outer arrays in the order of the reference.          *)
InReferenceOrder(f, a, b, c, e) ==
    NormalizeDimensions(f, <<W("G4Polycone")>>, "pygemc") = a \o (c \o (e \o b))
LEMMA ArraysReordered ==
    ASSUME NEW U, NEW n \in Nat, NEW a \in Seq(U), NEW b \in Seq(U), NEW c \in Seq(U), NEW e \in Seq(U),
           Len(a) = 3, Len(b) = n, Len(c) = n, Len(e) = n, NEW f,
           NormalizeField(f) = a \o (b \o (c \o e)), IsNumber(a[3]), Planes(a) = n
    PROVE  InReferenceOrder(f, a, b, c, e)
<1> DEFINE d == NormalizeField(f)
<1>1. Pieces(d, n, a, b, c, e)
  <2>1. PICK v : v = c \o e
    OBVIOUS
  <2>2. PICK u : u = b \o v
    OBVIOUS
  <2>3. d = a \o u
    BY <2>1, <2>2, Zenon
  <2> HIDE DEF d
  <2> QED BY ONLY <2>1, <2>2, <2>3, FourConcat, n \in Nat, a \in Seq(U), b \in Seq(U), c \in Seq(U), e \in Seq(U),
             Len(a) = 3, Len(b) = n, Len(c) = n, Len(e) = n, Zenon
<1> HIDE DEF d
<1>2. Planes(d) = n
  BY ONLY <1>1, Planes(a) = n DEF Planes, Pieces
<1>3. HasArrays(d)
  <2>1. Len(d) >= 3
    BY ONLY <1>1, n \in Nat DEF Pieces
  <2> QED BY <1>1, <1>2, <2>1, Zenon DEF HasArrays, Pieces
<1>4. Array(d, 0) = b /\ Array(d, 1) = c /\ Array(d, 2) = e
  <2>1. /\ 4 + 0 * n = 4 /\ 3 + (0 + 1) * n = 3 + n
        /\ 4 + 1 * n = 4 + n /\ 3 + (1 + 1) * n = 3 + 2 * n
        /\ 3 + (2 + 1) * n = 3 + 3 * n
    BY ONLY n \in Nat
  <2> QED BY ONLY <1>1, <1>2, <2>1, Zenon DEF Array, Pieces
<1>5. NormalizeDimensions(f, <<W("G4Polycone")>>, "pygemc") = SubSeq(d, 1, 3) \o Array(d, 1) \o Array(d, 2) \o Array(d, 0)
  BY ONLY <1>3, Zenon DEF NormalizeDimensions, d
<1>6. ((a \o c) \o e) \o b = a \o (c \o (e \o b))
  <2>1. PICK p \in Seq(U) : p = a \o c
    BY ONLY ConcatProperties, a \in Seq(U), c \in Seq(U)
  <2>2. PICK q \in Seq(U) : q = e \o b
    BY ONLY ConcatProperties, e \in Seq(U), b \in Seq(U)
  <2>3. (p \o e) \o b = p \o q
    <3>1. Assoc(p, e, b)
      BY AssocOf, Zenon
    <3> QED BY ONLY <2>2, <3>1, Zenon DEF Assoc
  <2>4. (a \o c) \o q = a \o (c \o q)
    <3>1. Assoc(a, c, q)
      BY AssocOf, Zenon
    <3> QED BY ONLY <3>1, Zenon DEF Assoc
  <2> QED BY <2>1, <2>2, <2>3, <2>4, Zenon
<1> QED BY <1>1, <1>4, <1>5, <1>6, Zenon DEF Pieces, InReferenceOrder

(* A head of three tokens stays one, and says the same number of planes.   *)
LEMMA NormalHead ==
    ASSUME NEW T, NEW head \in Seq(T), Len(head) = 3, IsNumber(head[3])
    PROVE  IsNumber(NormalizeField(head)[3]) /\ Planes(NormalizeField(head)) = Planes(head)
<1>1. NormalizeField(head)[3] = NumberToken(head[3])
  <2>1. 3 \in 1 .. Len(head)
    OBVIOUS
  <2> QED BY <2>1, NormalField
<1>2. IsNumber(NumberToken(head[3])) /\ NumberToken(head[3]).n = head[3].n
  <2>1. N(0, "").n = 0 /\ IsNumber(N(0, ""))
    BY DEF N, IsNumber
  <2>2. CASE head[3].n = 0
    BY <2>1, <2>2, Zenon DEF NumberToken
  <2>3. CASE head[3].n # 0
    BY <2>3, Zenon DEF NumberToken
  <2> QED BY <2>2, <2>3, Zenon
<1> QED BY <1>1, <1>2, Zenon DEF Planes

(* Normalizing a head and three arrays in a row is piece by piece.         *)
PieceByPiece(head, x, y, z) ==
    NormalizeField(head \o (x \o (y \o z)))
    = NormalizeField(head) \o (NormalizeField(x) \o (NormalizeField(y) \o NormalizeField(z)))

LEMMA NormalThree ==
    ASSUME NEW T, NEW head \in Seq(T), NEW x \in Seq(T), NEW y \in Seq(T), NEW z \in Seq(T)
    PROVE  PieceByPiece(head, x, y, z)
<1>1. y \o z \in Seq(T)
  BY ConcatIsSeq, Zenon
<1>2. x \o (y \o z) \in Seq(T)
  BY <1>1, ConcatIsSeq, Zenon
<1>3. NormalizeField(y \o z) = NormalizeField(y) \o NormalizeField(z)
  BY NormalConcat, Zenon
<1>4. NormalizeField(x \o (y \o z)) = NormalizeField(x) \o (NormalizeField(y) \o NormalizeField(z))
  <2>1. NormalizeField(x \o (y \o z)) = NormalizeField(x) \o NormalizeField(y \o z)
    BY <1>1, NormalConcat, Zenon
  <2> QED BY ONLY <1>3, <2>1, Zenon
<1>5. NormalizeField(head \o (x \o (y \o z)))
      = NormalizeField(head) \o (NormalizeField(x) \o (NormalizeField(y) \o NormalizeField(z)))
  <2>1. NormalizeField(head \o (x \o (y \o z))) = NormalizeField(head) \o NormalizeField(x \o (y \o z))
    BY <1>2, NormalConcat, Zenon
  <2> QED BY ONLY <1>4, <2>1, Zenon
<1> QED BY <1>5, Zenon DEF PieceByPiece

(* A field of pygemc's polycone: its arrays, normalized and reordered.     *)
PolyconeField(head, z, inner, outer) ==
    NormalizeDimensions(head \o (z \o (inner \o outer)), <<W("G4Polycone")>>, "pygemc") =
    NormalizeField(head) \o (NormalizeField(inner) \o (NormalizeField(outer) \o NormalizeField(z)))

LEMMA PolyconeNormal ==
    ASSUME NEW T, NEW n \in Nat, NEW head \in Seq(T), NEW z \in Seq(T), NEW inner \in Seq(T), NEW outer \in Seq(T),
           Len(head) = 3, Len(z) = n, Len(inner) = n, Len(outer) = n,
           IsNumber(head[3]), Planes(head) = n
    PROVE  PolyconeField(head, z, inner, outer)
<1> DEFINE U == T \cup {N(0, "")}
           f == head \o (z \o (inner \o outer))
           a == NormalizeField(head)
           b == NormalizeField(z)
           c == NormalizeField(inner)
           e == NormalizeField(outer)
<1>1. /\ a \in Seq(U) /\ b \in Seq(U) /\ c \in Seq(U) /\ e \in Seq(U)
      /\ Len(a) = 3 /\ Len(b) = n /\ Len(c) = n /\ Len(e) = n
  BY NormalField, Zenon
<1>2. IsNumber(a[3]) /\ Planes(a) = n
  BY NormalHead, Zenon
<1>3. NormalizeField(f) = a \o (b \o (c \o e))
  <2>1. PieceByPiece(head, z, inner, outer)
    BY NormalThree, Zenon
  <2> QED BY <2>1, Zenon DEF PieceByPiece
<1> HIDE DEF U, f, a, b, c, e
<1>4. InReferenceOrder(f, a, b, c, e)
  BY ONLY <1>1, <1>2, <1>3, n \in Nat, ArraysReordered, Zenon
<1>5. NormalizeDimensions(f, <<W("G4Polycone")>>, "pygemc") = a \o (c \o (e \o b))
  BY <1>4, Zenon DEF InReferenceOrder
<1> QED BY <1>5, Zenon DEF f, a, b, c, e, PolyconeField

(* normalize_dimensions tells polycones apart by what they are: a volume   *)
(* pygemc stored as z, inner, outer and one the reference stores as inner, *)
(* outer, z have the same dimensions exactly when the heads and each of    *)
(* the three arrays, their numbers normalized, are the same - no array is  *)
(* lost, and none is compared with another - for any number of planes.     *)
THEOREM PolyconesCompare ==
    ASSUME NEW T, NEW n \in Nat, NEW solid,
           NEW head \in Seq(T), NEW z \in Seq(T), NEW inner \in Seq(T), NEW outer \in Seq(T),
           Len(head) = 3, Len(z) = n, Len(inner) = n, Len(outer) = n, IsNumber(head[3]), Planes(head) = n,
           NEW head2 \in Seq(T), NEW inner2 \in Seq(T), NEW outer2 \in Seq(T), NEW z2 \in Seq(T),
           Len(head2) = 3, Len(inner2) = n, Len(outer2) = n
    PROVE  NormalizeDimensions(head \o (z \o (inner \o outer)), <<W("G4Polycone")>>, "pygemc")
           = NormalizeDimensions(head2 \o (inner2 \o (outer2 \o z2)), solid, "clas12tags")
           <=> /\ NormalizeField(head) = NormalizeField(head2)
               /\ NormalizeField(z) = NormalizeField(z2)
               /\ NormalizeField(inner) = NormalizeField(inner2)
               /\ NormalizeField(outer) = NormalizeField(outer2)
<1> DEFINE U == T \cup {N(0, "")}
           f == head \o (z \o (inner \o outer))
           f2 == head2 \o (inner2 \o (outer2 \o z2))
           a == NormalizeField(head)
           b == NormalizeField(z)
           c == NormalizeField(inner)
           e == NormalizeField(outer)
           a2 == NormalizeField(head2)
           b2 == NormalizeField(z2)
           c2 == NormalizeField(inner2)
           e2 == NormalizeField(outer2)
<1>1. /\ a \in Seq(U) /\ b \in Seq(U) /\ c \in Seq(U) /\ e \in Seq(U)
      /\ Len(a) = 3 /\ Len(c) = n /\ Len(e) = n
  BY NormalField, Zenon
<1>2. /\ a2 \in Seq(U) /\ b2 \in Seq(U) /\ c2 \in Seq(U) /\ e2 \in Seq(U)
      /\ Len(a2) = 3 /\ Len(c2) = n /\ Len(e2) = n
  BY NormalField, Zenon
<1>3. NormalizeDimensions(f, <<W("G4Polycone")>>, "pygemc") = a \o (c \o (e \o b))
  <2>1. PolyconeField(head, z, inner, outer)
    BY PolyconeNormal, Zenon
  <2> QED BY <2>1, Zenon DEF PolyconeField
<1>4. NormalizeDimensions(f2, solid, "clas12tags") = a2 \o (c2 \o (e2 \o b2))
  <2>1. NormalizeDimensions(f2, solid, "clas12tags") = NormalizeField(f2)
    BY Zenon DEF NormalizeDimensions
  <2>2. NormalizeField(f2) = a2 \o (c2 \o (e2 \o b2))
    <3>1. PieceByPiece(head2, inner2, outer2, z2)
      BY NormalThree, Zenon
    <3> QED BY <3>1, Zenon DEF PieceByPiece
  <2> QED BY <2>1, <2>2, Zenon
<1> HIDE DEF U, f, f2, a, b, c, e, a2, b2, c2, e2
<1>5. ASSUME a \o (c \o (e \o b)) = a2 \o (c2 \o (e2 \o b2))
      PROVE  a = a2 /\ b = b2 /\ c = c2 /\ e = e2
  <2>1. PICK p \in Seq(U), p2 \in Seq(U) : p = e \o b /\ p2 = e2 \o b2
    BY ONLY <1>1, <1>2, ConcatIsSeq
  <2>2. PICK q \in Seq(U), q2 \in Seq(U) : q = c \o p /\ q2 = c2 \o p2
    BY ONLY <1>1, <1>2, ConcatIsSeq, p \in Seq(U), p2 \in Seq(U)
  <2>3. a = a2 /\ q = q2
    <3>1. a \o q = a2 \o q2
      BY <1>5, <2>1, <2>2, Zenon
    <3>2. a \in Seq(U) /\ a2 \in Seq(U) /\ Len(a) = Len(a2)
      BY <1>1, <1>2, Zenon
    <3> QED BY ONLY <3>1, <3>2, q \in Seq(U), q2 \in Seq(U), EqualPieces
  <2>4. c = c2 /\ p = p2
    <3>1. c \o p = c2 \o p2
      BY <2>2, <2>3, Zenon
    <3>2. c \in Seq(U) /\ c2 \in Seq(U) /\ Len(c) = Len(c2)
      BY <1>1, <1>2, Zenon
    <3> QED BY ONLY <3>1, <3>2, p \in Seq(U), p2 \in Seq(U), EqualPieces
  <2>5. e = e2 /\ b = b2
    <3>1. e \o b = e2 \o b2
      BY <2>1, <2>4, Zenon
    <3>2. /\ e \in Seq(U) /\ e2 \in Seq(U) /\ Len(e) = Len(e2)
          /\ b \in Seq(U) /\ b2 \in Seq(U)
      BY <1>1, <1>2, Zenon
    <3> QED BY ONLY <3>1, <3>2, EqualPieces
  <2> QED BY <2>3, <2>4, <2>5, Zenon
<1>6. NormalizeDimensions(f, <<W("G4Polycone")>>, "pygemc") = NormalizeDimensions(f2, solid, "clas12tags")
      <=> a = a2 /\ b = b2 /\ c = c2 /\ e = e2
  BY <1>3, <1>4, <1>5, Zenon
<1> QED BY <1>6, Zenon DEF f, f2, a, b, c, e, a2, b2, c2, e2
=============================================================================
