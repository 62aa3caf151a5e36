---------------------------- MODULE GeometryDatabase ----------------------------
(***************************************************************************)
(* The SQLite database that the geometry scripts of all detectors share.   *)
(*                                                                         *)
(* A driver <detector>.py clears its banks, then publishes materials,      *)
(* mirrors and volumes for one variation after the other under that        *)
(* variation's name, and at last renames every row to "default", so that   *)
(* a bank is selected by its run number.  A bank's rows outlive the        *)
(* process: a driver may be killed between any two steps and be run again, *)
(* also over a database that an older checkout wrote.                      *)
(*                                                                         *)
(* The volumes one builder publishes stand as two rows (portion 1 and 2),  *)
(* so that a driver can die within a builder; a row remembers which start  *)
(* of a driver made it (0: an older checkout) and, for a CAD volume, which *)
(* directory its mesh path is relative to.  pygemc, which is not in the    *)
(* repository, commits every row it publishes.                             *)
(***************************************************************************)
EXTENDS Integers, Sequences, FiniteSets, SequencesExt

CONSTANTS Groups,       \* bound: the sets of detectors worked on together
          Old,          \* sets of rows an older checkout may have left
          MaxStarts     \* bound: driver processes in one behaviour

ASSUME MaxStartsAssumption == MaxStarts \in Nat

VARIABLES detectors,    \* the detectors whose drivers are run
          db,           \* the rows of the three tables
          driver,       \* the detector whose driver runs, or Nobody
          todo,         \* what that process has left to do
          starts,       \* driver processes so far
          finished,     \* detector -> the start whose driver ran to its end, or 0
          aborted,      \* the last driver raised ValueError while indexing
          verdict       \* what the last construction check found
dbVars == <<detectors, db, driver, todo, starts, finished, aborted, verdict>>

Nobody == "nobody"

-----------------------------------------------------------------------------
(* The run numbers of the variations.                                      *)

CustomBlock == 100
DcCustomStart == 10000001
CtofCustomStart == DcCustomStart + CustomBlock
BeamlineCustomStart == CtofCustomStart + CustomBlock

BeamlineStandard ==
    << <<"default", 11>>, <<"rga_spring2018", 3029>>, <<"rgk_winter2018", 5874>>,
       <<"rgb_spring2019", 6150>>, <<"rgf_spring2020", 11620>>, <<"rgc_summer2022", 16000>>,
       <<"rgd_fall2023", 18304>>, <<"rgl_spring2025", 21000>>, <<"rgc_fall2022", 16843>>,
       <<"rge_spring2024", 20000>> >>

BeamlineCustom ==
    LET names == <<"ddvcs", "rghFTOut", "rghFTOn", "TransverseUpstreamBeampipe", "elmo7">>
    IN  [i \in 1 .. Len(names) |-> <<names[i], BeamlineCustomStart + i - 1>>]

TransverseSource == BeamlineCustomStart + 3
Transverse == << <<"noWedges", TransverseSource>>, <<"forwardWedges", BeamlineCustomStart + 5>>,
                 <<"midpointWedges", BeamlineCustomStart + 6>> >>

(* The other transverse choices get the native rows of the first one.      *)
Copied == {"geometry", "materials"}
OtherTransverse == {v[2] : v \in Range(Transverse)} \ {TransverseSource}
CopySource(rows) ==
    {r \in rows : r.table \in Copied /\ r.bank = "beamline" /\ r.run = TransverseSource}

DcVariations == << <<"default", 11>>, <<"rga_spring2018", 3029>>, <<"rga_fall2018", 4763>>,
                   <<"ddvcs", DcCustomStart>> >>
HtccVariations == << <<"default", 11>>, <<"rga_spring2018", 3029>>, <<"rga_fall2018", 4763>> >>
MagnetsVariations == HtccVariations
LtccVariations == HtccVariations \o << <<"rgb_spring2019", 6150>>, <<"rgb_spring2020", 11323>>,
                                       <<"rgm_fall2021_H", 15016>> >>
FtVariations == SubSeq(BeamlineStandard, 1, 8)
EcVariations == << <<"default", 11>>, <<"rga_spring2018", 3029>> >>
PcalVariations == EcVariations
FtofVariations == EcVariations

-----------------------------------------------------------------------------
(* A driver is the list of its steps.                                      *)

Tables == {"geometry", "materials", "mirrors"}

Publish(table, bank, v, builder) ==
    LET portions == IF table = "geometry" THEN <<1, 2>> ELSE <<1>>
    IN  [i \in 1 .. Len(portions) |->
            [op |-> "publish", row |-> [table |-> table, bank |-> bank, label |-> v[1],
                                        run |-> v[2], part |-> <<builder, i>>,
                                        mesh |-> IF builder = "cad" THEN "local" ELSE "none"]]]

Materials(bank, v) == Publish("materials", bank, v, "materials")
Mirrors(bank, v) == Publish("mirrors", bank, v, "mirrors")
Volumes(bank, v, builder) == Publish("geometry", bank, v, builder)

ForEach(variations, Body(_)) == FlattenSeq([i \in 1 .. Len(variations) |-> Body(variations[i])])

(* Every configuration is reset and indexed on its own, in a transaction.  *)
Resets(banks, obsolete) ==
    [i \in 1 .. Len(banks) |-> [op |-> "reset", banks |-> {banks[i]} \cup obsolete]]
Indexes(banks) == [i \in 1 .. Len(banks) |-> [op |-> "index", bank |-> banks[i]]]

HasCad(v) == v \in Range(BeamlineStandard) \/ v[1] = "ddvcs"

BeamlineProgram ==
    LET banks == <<"beamline", "beamline_cad", "beamline_transverse_cad">>
        Native(v) == Materials("beamline", v) \o Volumes("beamline", v, "native")
        Cad(v) == IF HasCad(v)
                  THEN Materials("beamline_cad", v) \o Volumes("beamline_cad", v, "cad")
                  ELSE <<>>
        Both(v) == Native(v) \o Cad(v)
        Wedges(v) == Volumes("beamline_transverse_cad", v, "cad")
    IN  Resets(banks, {}) \o ForEach(BeamlineStandard \o BeamlineCustom, Both)
            \o ForEach(Transverse, Wedges) \o << [op |-> "copy"] >> \o Indexes(banks)

DcProgram ==
    LET Bank(v) == Materials("dc", v) \o Volumes("dc", v, "native") \o Volumes("dc", v, "cad")
    IN  Resets(<<"dc">>, {"dc_cad", "dc_copies"}) \o ForEach(DcVariations, Bank)
            \o Indexes(<<"dc">>)

MagnetsProgram ==
    LET Bank(v) == Materials("magnets", v) \o Volumes("magnets", v, "native")
                       \o Volumes("magnets", v, "cad")
    IN  Resets(<<"magnets">>, {"solenoid", "magnets_cad", "magnets_copies"})
            \o ForEach(MagnetsVariations, Bank) \o Indexes(<<"magnets">>)

HtccProgram ==
    LET banks == <<"htcc", "htcc_cad">>
        Both(v) == Materials("htcc", v) \o Mirrors("htcc", v) \o Volumes("htcc", v, "native")
                       \o Materials("htcc_cad", v) \o Volumes("htcc_cad", v, "cad")
    IN  Resets(banks, {}) \o ForEach(HtccVariations, Both) \o Indexes(banks)

LtccProgram ==
    LET banks == <<"ltcc", "ltcc_cad">>
        Bank(bank, v, builder) == Materials(bank, v) \o Mirrors(bank, v) \o Volumes(bank, v, builder)
        Both(v) == Bank("ltcc", v, "native") \o Bank("ltcc_cad", v, "cad")
    IN  Resets(banks, {}) \o ForEach(LtccVariations, Both) \o Indexes(banks)

SingleBank(bank, variations) ==
    LET Bank(v) == Materials(bank, v) \o Volumes(bank, v, "native")
    IN  Resets(<<bank>>, {}) \o ForEach(variations, Bank) \o Indexes(<<bank>>)

FtProgram == SingleBank("ft", FtVariations)
EcProgram == SingleBank("ec", EcVariations)
PcalProgram == SingleBank("pcal", PcalVariations)
FtofProgram == SingleBank("ftof", FtofVariations)

Program == [beamline |-> BeamlineProgram, dc |-> DcProgram, magnets |-> MagnetsProgram,
            htcc |-> HtccProgram, ltcc |-> LtccProgram, ft |-> FtProgram, ec |-> EcProgram,
            pcal |-> PcalProgram, ftof |-> FtofProgram]

-----------------------------------------------------------------------------
(* The construction check reads the database through the steering cards.   *)

Variations == [beamline |-> BeamlineStandard \o BeamlineCustom, dc |-> DcVariations,
               magnets |-> MagnetsVariations, htcc |-> HtccVariations, ltcc |-> LtccVariations,
               ft |-> FtVariations, ec |-> EcVariations, pcal |-> PcalVariations,
               ftof |-> FtofVariations]

(* The banks a detector's own steering card names.                         *)
CardBanks(d) == CASE d = "beamline" -> {"beamline", "beamline_cad"}
                  [] d = "htcc" -> {"htcc", "htcc_cad"}
                  [] d = "ltcc" -> {"ltcc", "ltcc_cad"}
                  [] OTHER -> {d}

BeamlineCards ==
    {[run |-> v[2], banks |-> IF HasCad(v) THEN CardBanks("beamline") ELSE {"beamline"}] :
         v \in {w \in Range(Variations["beamline"]) : w[1] # "TransverseUpstreamBeampipe"}}
        \cup {[run |-> v[2], banks |-> {"beamline", "beamline_transverse_cad"}] :
                  v \in Range(Transverse)}

Cards(d) == IF d = "beamline" THEN BeamlineCards
            ELSE {[run |-> v[2], banks |-> CardBanks(d)] : v \in Range(Variations[d])}

Obsolete == [d \in DOMAIN Program |->
                CASE d = "dc" -> {"dc_cad", "dc_copies"}
                  [] d = "magnets" -> {"solenoid", "magnets_cad", "magnets_copies"}
                  [] OTHER -> {}]

Owned(d) == UNION {c.banks : c \in Cards(d)} \cup Obsolete[d]

NamedBanks(d) == {r \in db : /\ r.bank \in UNION {c.banks : c \in Cards(d)}
                             /\ r.label # "default"}

CardVolumes(bank, run) == {r \in db : /\ r.table = "geometry" /\ r.bank = bank
                                   /\ r.label = "default" /\ r.run = run}

(* Mutant: rows are not counted.                                           *)
CheckPasses_NoCount(d) == NamedBanks(d) = {}

CheckPasses(d) == /\ NamedBanks(d) = {}
                  /\ \A c \in Cards(d) : \A b \in c.banks : CardVolumes(b, c.run) # {}

NoVerdict == [detector |-> Nobody, passed |-> FALSE]

-----------------------------------------------------------------------------
(* What the programs promise, apart from the database they work on.        *)

(* The names of the variations: STRING, of which no prover knows a member. *)
Labels == STRING \cup {"default"}

Rows == [table : Tables, bank : STRING, label : Labels, run : Nat,
         part : STRING \X (1 .. 2), mesh : {"none", "local", "collected"}, made : Nat]

(* The run number of the variation whose own name is "default".            *)
DefaultRun == 11

(* Everything a driver that runs to its end puts into the tables.          *)
Published(d) == {s.row : s \in {t \in Range(Program[d]) : t.op = "publish"}}
Copies(d) == IF d # "beamline" THEN {}
             ELSE {[q EXCEPT !.run = n] : q \in CopySource(Published(d)), n \in OtherTransverse}
Contents(d) == Published(d) \cup Copies(d)

(* A row of the database stands for one of those.                          *)
Serves(r, q) == r.table = q.table /\ r.bank = q.bank /\ r.run = q.run /\ r.part = q.part

ResetAhead(steps, b) == \E i \in 1 .. Len(steps) : steps[i].op = "reset" /\ b \in steps[i].banks
IndexAhead(steps, b) == \E i \in 1 .. Len(steps) : steps[i].op = "index" /\ steps[i].bank = b
ToCome(d, steps, q) == \E i \in 1 .. Len(steps) : \/ steps[i].op = "publish" /\ steps[i].row = q
                                                  \/ steps[i].op = "copy" /\ q \in Copies(d)

(* A driver works on its own banks, clears them before it fills them and   *)
(* indexes them when they are full; so does what is left of its program.   *)
Rank == [reset |-> 1, publish |-> 2, copy |-> 3, index |-> 4]

OwnStep(d, s) == /\ s.op \in DOMAIN Rank
                 /\ s.op = "reset" => s.banks \subseteq Owned(d)
                 /\ s.op = "publish" => s.row \in Published(d)
                 /\ s.op = "copy" => d = "beamline" /\ "beamline" \in Owned(d) \ Obsolete[d]
                 /\ s.op = "index" => s.bank \in Owned(d) \ Obsolete[d]

Remaining(d, steps) ==
    /\ steps \in Seq(Range(Program[d]))
    /\ \A i \in 1 .. Len(steps) : OwnStep(d, steps[i])
    /\ \A i, j \in 1 .. Len(steps) : i < j =>
          /\ Rank[steps[i].op] <= Rank[steps[j].op]
          /\ steps[i].op = "index" => steps[i].bank # steps[j].bank
    /\ steps # <<>> /\ steps[1].op # "index" =>
           \A b \in Owned(d) \ Obsolete[d] : IndexAhead(steps, b)
    /\ steps # <<>> /\ steps[1].op = "reset" => \A q \in Contents(d) : ToCome(d, steps, q)

(* A program clears all its detector owns and fills what the cards name;   *)
(* rows of one table, bank and run have one label; and no two detectors    *)
(* own a bank together.                                                    *)
ASSUME ProgramAssumption ==
    \A d \in DOMAIN Program :
        /\ Remaining(d, Program[d])
        /\ \A b \in Owned(d) : b \in STRING /\ ResetAhead(Program[d], b)
        /\ \A e \in DOMAIN Program \ {d} : Owned(d) \cap Owned(e) = {}

ASSUME ContentsAssumption ==
    \A d \in DOMAIN Program :
        /\ \A q \in Contents(d) :
              /\ q \in [table : Tables, bank : Owned(d) \ Obsolete[d], label : Labels, run : Nat,
                        part : STRING \X (1 .. 2), mesh : {"none", "local"}]
              /\ q.label = "default" => q.run = DefaultRun
              /\ ToCome(d, Program[d], q)
        /\ \A p, q \in Contents(d) :
              p.table = q.table /\ p.bank = q.bank /\ p.run = q.run => p.label = q.label

ASSUME CardsAssumption ==
    \A d \in DOMAIN Program : \A c \in Cards(d) :
        /\ \A b \in c.banks :
              /\ \E q \in Contents(d) : q.table = "geometry" /\ q.bank = b /\ q.run = c.run
              /\ \A q \in Contents(d), i \in 1 .. 2 : q.table = "geometry" =>
                    \E p \in Contents(d) : Serves([q EXCEPT !.part = <<q.part[1], i>>], p)
              /\ \E other \in Cards(d) : b \in other.banks /\ other.run # DefaultRun
        /\ \E q \in Contents(d) : q.table = "materials" /\ q.bank \in c.banks /\ q.run = c.run

(* Nothing is known of an older checkout's rows but that none of them was  *)
(* made by a driver of this one.                                           *)
ASSUME GroupsAssumption ==
    /\ \A group \in Groups : IsFiniteSet(group) /\ group \subseteq DOMAIN Program
    /\ \A rows \in Old : \A r \in rows : r \in Rows /\ r.made = 0

-----------------------------------------------------------------------------
DbInit == /\ detectors \in Groups
          /\ db \in Old
          /\ driver = Nobody /\ todo = <<>> /\ starts = 0
          /\ finished = [d \in detectors |-> 0]
          /\ aborted = FALSE /\ verdict = NoVerdict

Start(d) ==
    /\ driver = Nobody /\ starts < MaxStarts
    /\ driver' = d /\ todo' = Program[d] /\ starts' = starts + 1
    /\ finished' = [finished EXCEPT ![d] = 0]
    /\ aborted' = FALSE /\ verdict' = NoVerdict
    /\ UNCHANGED <<detectors, db>>

Doing(op) == driver # Nobody /\ todo # <<>> /\ Head(todo).op = op

(* The step op of the running driver changes the rows to rows.             *)
Does(op, rows) ==
    /\ Doing(op)
    /\ db' = rows /\ todo' = Tail(todo)
    /\ UNCHANGED <<detectors, driver, starts, finished, aborted, verdict>>

(* Mutant: only one of the three tables is cleared.                        *)
ResetBank_GeometryOnly ==
    LET gone == Head(todo).banks
    IN  Does("reset", {r \in db : r.bank \notin gone \/ r.table # "geometry"})

(* Mutant: the rows are not limited to the systems.                        *)
ResetBank_AllSystems == Does("reset", {r \in db : r.table \notin Tables})

ResetBank == LET gone == Head(todo).banks
             IN  Does("reset", {r \in db : r.bank \notin gone})

PublishRow == LET q == Head(todo).row
              IN  Does("publish", db \cup {[table |-> q.table, bank |-> q.bank, label |-> q.label,
                                            run |-> q.run, part |-> q.part, mesh |-> q.mesh,
                                            made |-> starts]})

(* Mutant: the materials are forgotten.                                    *)
CopyTransverse_GeometryOnly ==
    Does("copy", db \cup {[r EXCEPT !.run = n] :
                              r \in {q \in CopySource(db) : q.table = "geometry"}, n \in OtherTransverse})

CopyTransverse ==
    Does("copy", db \cup {[r EXCEPT !.run = n] : r \in CopySource(db), n \in OtherTransverse})

Bank(b) == {r \in db : r.bank = b}
Ambiguous(b) == \E r, s \in Bank(b) : r.table = s.table /\ r.run = s.run /\ r.label # s.label

(* ValueError rolls the transaction of this bank back and ends the process. *)
IndexBank ==
    /\ Doing("index")
    /\ LET b == Head(todo).bank
       IN  IF Ambiguous(b)
           THEN /\ driver' = Nobody /\ todo' = <<>> /\ aborted' = TRUE
                /\ UNCHANGED <<detectors, db, starts, finished, verdict>>
           ELSE Does("index", (db \ Bank(b)) \cup {[r EXCEPT !.label = "default"] : r \in Bank(b)})

Finish ==
    /\ driver # Nobody /\ todo = <<>>
    /\ finished' = [finished EXCEPT ![driver] = starts]
    /\ driver' = Nobody
    /\ UNCHANGED <<detectors, db, todo, starts, aborted, verdict>>

(* The process dies: a builder raises, a timeout of the test, a signal.    *)
Killed ==
    /\ driver # Nobody
    /\ driver' = Nobody /\ todo' = <<>>
    /\ UNCHANGED <<detectors, db, starts, finished, aborted, verdict>>

(* The geometry tests run alone, so a check sees no driver at work.        *)
Check(d) ==
    /\ driver = Nobody
    /\ verdict' = [detector |-> d, passed |-> CheckPasses(d)]
    /\ UNCHANGED <<detectors, db, driver, todo, starts, finished, aborted>>

DriverStep == ResetBank \/ PublishRow \/ CopyTransverse \/ IndexBank \/ Finish

DbNext == DriverStep \/ Killed \/ \E d \in detectors : Start(d) \/ Check(d)

DbSpec == DbInit /\ [][DbNext]_dbVars

-----------------------------------------------------------------------------
(* What a driver that ran to its end leaves does not depend on what it     *)
(* found: every row of its banks, and of the banks it retires, is from     *)
(* this process and is selected by its run alone, whatever killed drivers, *)
(* earlier runs or older checkouts had left behind; and no driver is ever  *)
(* stopped by the check for ambiguous runs, through its own run numbers or *)
(* through rows that were there before (clas12_common.py                   *)
(* reset_detector_banks, index_detector_banks_by_run, variations.py).      *)
FinishedBanksAreFresh ==
    /\ ~aborted
    /\ \A d \in detectors : finished[d] > 0 =>
          \A r \in db : r.bank \in Owned(d) =>
              r.made = finished[d] /\ r.label = "default" /\ r.bank \notin Obsolete[d]

(* ... and it is all that the detector's cards load: every bank of a card  *)
(* has the volumes of its builders at the card's run, whole, and one bank  *)
(* of the card the materials, the three transverse choices of the beamline *)
(* included, whose native rows are copies (beamline.py, database.py).      *)
FinishedBanksServeCards ==
    \A d \in detectors : finished[d] > 0 =>
        \A c \in Cards(d) :
            /\ \A b \in c.banks :
                  LET parts == {r.part : r \in CardVolumes(b, c.run)}
                  IN  parts # {} /\ \A p \in parts : {<<p[1], 1>>, <<p[1], 2>>} \subseteq parts
            /\ \E r \in db : r.table = "materials" /\ r.bank \in c.banks /\ r.run = c.run

(* What an older checkout left of a detector, and nothing else.            *)
Older(rows, d) == \A r \in rows : r.bank \in Owned(d) => r.made = 0

(* The construction check, which runs whether or not the geometry tests    *)
(* before it succeeded, never passes a detector whose driver died in the   *)
(* middle: if it passes and any row of the detector's is from a driver of  *)
(* this checkout, every bank of every card has at its run all the volumes  *)
(* that driver publishes there.  Of a detector none of whose drivers came  *)
(* to publish a row the check passes whatever an older checkout had        *)
(* indexed, whole or not (check_geometry_gemc.py).                         *)
PassedCheckSawWholeBanks ==
    verdict.passed /\ ~Older(db, verdict.detector) =>
        \A c \in Cards(verdict.detector) : \A r \in Published(verdict.detector) :
            r.table = "geometry" /\ r.bank \in c.banks /\ r.run = c.run =>
                \E s \in CardVolumes(r.bank, r.run) : s.part = r.part

(* A driver never adds, drops or relabels a row of another detector, with  *)
(* which it shares the tables.                                             *)
OthersBanksStay ==
    [][driver # Nobody =>
           \A r \in (db \ db') \cup (db' \ db) : r.bank \in Owned(driver)]_db
=============================================================================
