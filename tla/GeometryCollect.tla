---------------------------- MODULE GeometryCollect ----------------------------
(***************************************************************************)
(* generate_geometry.zsh: the drivers of the selected detectors fill a new *)
(* experiments/gemc.sqlite, the meshes are copied beside it, the mesh      *)
(* paths in the database are made relative to that copy and the whole      *)
(* directory replaces the installed one.  errexit ends the script at the   *)
(* first step that fails.  Without the script (stage "off") the drivers    *)
(* are the geometry tests, which keep their database from run to run.      *)
(***************************************************************************)
EXTENDS GeometryDatabase

CONSTANT MaxCollects    \* bound: runs of the script in one behaviour

VARIABLES stage,        \* where the script is
          selection,    \* the detectors it has yet to collect
          meshes,       \* the mesh files experiments/ holds
          installed,    \* what PREFIX/experiments holds, or NotInstalled
          collects      \* runs of the script so far
collectVars == <<stage, selection, meshes, installed, collects>>
vars == <<dbVars, collectVars>>

NotInstalled == [rows |-> {}, meshes |-> {}, whole |-> FALSE]

(* The mapped STL directories, each by the bank whose volumes lie in it;   *)
(* the beamline's second one stands for its three choices of wedges.       *)
StlDirectories ==
    [beamline |-> <<"beamline_cad", "beamline_transverse_cad">>, ltcc |-> <<"ltcc_cad">>,
     htcc |-> <<"htcc_cad">>, magnets |-> <<"magnets">>, dc |-> <<"dc">>]
StlMapped == DOMAIN StlDirectories

(* A portion of a bank's CAD volumes has its mesh files, at every run.     *)
MeshFile(r) == <<r.bank, r.part>>
MeshFiles(d) == {MeshFile(q) : q \in {p \in Published(d) : p.mesh = "local"}}

Init == /\ DbInit
        /\ stage = "off" /\ selection = <<>> /\ meshes = {} /\ collects = 0
        /\ installed = NotInstalled

(* The old database goes first, before the selection is looked at: an      *)
(* unknown detector ends the script with neither the old nor a new one.    *)
Select(s, known) ==
    /\ stage \in {"off", "done", "failed"} /\ driver = Nobody /\ collects < MaxCollects
    /\ starts + Len(s) <= MaxStarts
    /\ db' = {} /\ verdict' = NoVerdict
    /\ finished' = [d \in detectors |-> 0]
    /\ selection' = s /\ collects' = collects + 1
    /\ stage' = IF known THEN "drive" ELSE "failed"
    /\ UNCHANGED <<detectors, driver, todo, starts, aborted, meshes, installed>>

Drive == /\ stage = "drive" /\ selection # <<>>
         /\ Start(Head(selection)) /\ stage' = "driving"
         /\ UNCHANGED <<selection, meshes, installed, collects>>

DriverSteps == /\ stage \in {"off", "driving"} /\ DriverStep
               /\ UNCHANGED collectVars

DriverEnds ==
    /\ stage = "driving" /\ driver = Nobody
    /\ stage' = IF finished[Head(selection)] > 0 THEN "meshes" ELSE "failed"
    /\ UNCHANGED <<dbVars, selection, meshes, installed, collects>>

(* The files lie in the source directories or not; a directory that is     *)
(* missing or has no mesh ends the script after those before it.  The      *)
(* first directory holds the others, so that all old copies go with it.    *)
CopyMeshes ==
    /\ stage = "meshes"
    /\ LET d == Head(selection)
       IN  IF d \notin StlMapped THEN stage' = "paths" /\ UNCHANGED meshes
           ELSE \E files \in SUBSET MeshFiles(d) :
                  LET dirs == StlDirectories[d]
                      Filled(i) == \E f \in files : f[1] = dirs[i]
                      copied == {dirs[i] : i \in {j \in DOMAIN dirs : \A k \in 1 .. j : Filled(k)}}
                  IN  /\ stage' = IF copied = Range(dirs) THEN "paths" ELSE "failed"
                      /\ meshes' = IF copied = {} THEN meshes
                                   ELSE (meshes \ MeshFiles(d)) \cup {f \in files : f[1] \in copied}
    /\ UNCHANGED <<dbVars, selection, installed, collects>>

(* Mutant: companion banks are passed over.                                *)
LocalMeshes_OwnBank(d) == {r \in db : r.bank = d /\ r.mesh = "local"}

(* The CAD rows of the detector and its companions whose path starts with  *)
(* a mapped directory; those that were collected before are passed over.   *)
LocalMeshes(d) == {r \in db : r.bank \in Owned(d) /\ r.mesh = "local"}

(* One transaction, which a row whose mesh was not copied rolls back.      *)
RelocateMeshes ==
    /\ stage = "paths"
    /\ LET d == Head(selection)
           local == IF d \in StlMapped THEN LocalMeshes(d) ELSE {}
       IN  IF \E r \in local : MeshFile(r) \notin meshes
           THEN stage' = "failed" /\ UNCHANGED <<db, selection>>
           ELSE /\ db' = (db \ local) \cup {[r EXCEPT !.mesh = "collected"] : r \in local}
                /\ selection' = Tail(selection)
                /\ stage' = IF Tail(selection) = <<>> THEN "erase" ELSE "drive"
    /\ UNCHANGED <<detectors, driver, todo, starts, finished, aborted, verdict, meshes, installed,
                   collects>>

(* Without --no-install: rm -rf, then cp -R, which may stop half-way.      *)
Erase == /\ stage = "erase" /\ stage' = "copy" /\ installed' = NotInstalled
         /\ UNCHANGED <<dbVars, selection, meshes, collects>>

CopyExperiments(whole) ==
    /\ stage = "copy"
    /\ stage' = IF whole THEN "done" ELSE "failed"
    /\ installed' = [rows |-> IF whole THEN db ELSE {}, meshes |-> meshes, whole |-> whole]
    /\ UNCHANGED <<dbVars, selection, meshes, collects>>

ScriptKilled ==
    /\ stage \in {"drive", "driving", "meshes", "paths", "erase", "copy"}
    /\ stage' = "failed" /\ driver' = Nobody /\ todo' = <<>>
    /\ UNCHANGED <<detectors, db, starts, finished, aborted, verdict, selection, meshes, installed,
                   collects>>

(* The drivers on their own, as the geometry and construction tests.       *)
Tests == /\ stage = "off" /\ (Killed \/ \E d \in detectors : Start(d) \/ Check(d))
         /\ UNCHANGED collectVars

Next == \/ Tests \/ DriverSteps \/ Drive \/ DriverEnds \/ CopyMeshes \/ RelocateMeshes \/ Erase
        \/ ScriptKilled
        \/ \E s \in SetToSeqs(detectors), known \in BOOLEAN : Select(s, known)
        \/ \E whole \in BOOLEAN : CopyExperiments(whole)

Spec == Init /\ [][Next]_vars

-----------------------------------------------------------------------------
(* The detectors without mapped directories publish no CAD volume.         *)
ASSUME MeshAssumption ==
    \A d \in DOMAIN Program \ StlMapped : \A q \in Contents(d) : q.mesh = "none"

(* The rows and meshes that replace an installation are those of one run   *)
(* of the script that went through for every detector it was asked for,    *)
(* and every CAD row of theirs names a file that was installed with it     *)
(* (generate_geometry.zsh, copy_stl_directories, relocate_sqlite_meshes).  *)
InstalledMeshesExist ==
    installed.whole =>
        \A d \in detectors :
            /\ \A r \in installed.rows : r.bank \in Owned(d) /\ r.mesh # "none" =>
                  r.mesh = "collected" /\ MeshFile(r) \in installed.meshes
            /\ \A c \in Cards(d) : \A b \in c.banks :
                  \E r \in installed.rows : /\ r.table = "geometry" /\ r.bank = b
                                            /\ r.label = "default" /\ r.run = c.run

-----------------------------------------------------------------------------
(* Why they hold.  One process at a time works on the tables, and what it  *)
(* has left to do is the rest of its program.                              *)
DriverInv ==
    /\ detectors \in Groups /\ driver \in detectors \cup {Nobody}
    /\ starts \in Nat /\ finished \in [detectors -> Nat] /\ ~aborted
    /\ db \subseteq Rows
    /\ driver # Nobody => /\ Remaining(driver, todo) /\ starts > 0
                          /\ finished[driver] = 0 /\ verdict = NoVerdict

(* A bank that is cleared holds rows of the running driver's program only, *)
(* under their own labels until it is indexed, and each that is due.       *)
WorkInv == driver # Nobody =>
    /\ \A r \in db : r.bank \in Owned(driver) /\ ~ResetAhead(todo, r.bank) =>
          /\ r.made = starts
          /\ \E q \in Contents(driver) :
                /\ Serves(r, q) /\ r.mesh = q.mesh
                /\ r.label = IF IndexAhead(todo, r.bank) THEN q.label ELSE "default"
    /\ \A q \in Contents(driver) : ToCome(driver, todo, q) \/ \E r \in db : Serves(r, q)

(* ... so that in the end it is the program's contents, neither more nor   *)
(* less, until the same driver is started again.                           *)
FinishedInv == \A d \in detectors : finished[d] > 0 =>
    /\ \A r \in db : r.bank \in Owned(d) =>
          /\ r.made = finished[d] /\ r.label = "default"
          /\ \E q \in Contents(d) : Serves(r, q) /\ (q.mesh = "none" => r.mesh = "none")
    /\ \A q \in Contents(d) : \E r \in db : Serves(r, q)

(* Rows of a driver of this checkout and of an older one are never left    *)
(* together; and a bank that was not indexed as a whole, and is not the    *)
(* older one's, has no row that a run other than the default variation's   *)
(* selects, wherever its driver died.                                      *)
AgeInv == \A d \in detectors :
    Older(db, d) \/ \A r \in db : r.bank \in Owned(d) => r.made > 0

Whole(rows, d, b) ==
    \A q \in Contents(d) : q.bank = b => \E r \in rows : Serves(r, q) /\ r.label = "default"
Unindexed(rows, b) == \A r \in rows : r.bank = b /\ r.label = "default" => r.run = DefaultRun
Settled(rows, d, b) ==
    \/ Whole(rows, d, b) \/ Unindexed(rows, b)
    \/ \A r \in rows : r.bank = b => r.made = 0
WholeInv == \A d \in detectors : \A b \in Owned(d) : Settled(db, d, b)

(* The script: one driver after the other, then its meshes and paths.      *)
Collecting == {"drive", "driving", "meshes", "paths", "erase", "copy"}
ScriptInv ==
    /\ stage \in Collecting \cup {"off", "done", "failed"}
    /\ stage \notin {"off", "driving"} => driver = Nobody
    /\ stage \in Collecting => selection \in Seq(detectors)
    /\ stage \in {"driving", "meshes", "paths"} => selection # <<>>
    /\ stage \in {"erase", "copy"} => selection = <<>>
    /\ stage = "driving" /\ driver # Nobody => driver = Head(selection)
    /\ stage \in {"meshes", "paths"} => finished[Head(selection)] > 0
    /\ stage \in {"driving", "meshes", "paths"} /\ finished[Head(selection)] > 0 =>
           \A r \in db : r.bank \in Owned(Head(selection)) => r.mesh # "collected"

(* The detectors the script is done with are finished and relocated.       *)
CollectedInv == stage \in Collecting =>
    \A d \in detectors \ Range(selection) :
        /\ finished[d] > 0
        /\ \A r \in db : r.bank \in Owned(d) /\ r.mesh # "none" =>
              r.mesh = "collected" /\ MeshFile(r) \in meshes

DatabaseInv ==
    DriverInv /\ WorkInv /\ FinishedInv /\ AgeInv /\ WholeInv /\ PassedCheckSawWholeBanks
CollectInv == ScriptInv /\ CollectedInv /\ InstalledMeshesExist
=============================================================================
