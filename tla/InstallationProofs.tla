--------------------------- MODULE InstallationProofs ---------------------------
(***************************************************************************)
(* What an installation holds: the geometry database and its meshes, for   *)
(* any groups of detectors, any rows an older checkout left, any number of *)
(* drivers and of runs of generate_geometry.zsh, killed anywhere; and      *)
(* coatjava, for any number of attempts.                                   *)
(***************************************************************************)
EXTENDS GeometryCollect, CoatjavaInstall, FiniteSetTheorems, TLAPS

-----------------------------------------------------------------------------
(* The programs.                                                           *)

(* What is left of a program after its first step is a rest of a program:  *)
(* nothing is cleared after the first row, nothing published after the     *)
(* first index, and every index comes after all the rows.                  *)
LEMMA RemainingTail ==
  ASSUME NEW d, NEW steps, Remaining(d, steps), steps # <<>>
  PROVE  LET s == Head(steps)
             rest == Tail(steps)
         IN  /\ OwnStep(d, s) /\ Remaining(d, rest)
             /\ \A b : ResetAhead(steps, b) <=> (s.op = "reset" /\ b \in s.banks) \/ ResetAhead(rest, b)
             /\ \A b : IndexAhead(steps, b) <=> (s.op = "index" /\ s.bank = b) \/ IndexAhead(rest, b)
             /\ \A q : ToCome(d, steps, q) <=> \/ (s.op = "publish" /\ s.row = q)
                                               \/ (s.op = "copy" /\ q \in Copies(d))
                                               \/ ToCome(d, rest, q)
             /\ s.op # "reset" => \A b : ~ResetAhead(steps, b)
             /\ s.op # "index" => \A b \in Owned(d) \ Obsolete[d] : IndexAhead(rest, b)
             /\ s.op = "reset" => \A q \in Contents(d) : ToCome(d, rest, q)
             /\ s.op = "copy" => \A q : ToCome(d, steps, q) => q \in Copies(d)
             /\ s.op = "index" => \A q : ~ToCome(d, steps, q)
             /\ s.op = "index" => ~IndexAhead(rest, s.bank)
<1>. DEFINE s == Head(steps)
            rest == Tail(steps)
<1>1. /\ Len(rest) = Len(steps) - 1 /\ Len(steps) \in Nat \ {0} /\ Len(rest) \in Nat
      /\ \A i \in 1 .. Len(rest) : rest[i] = steps[i + 1]
      /\ s = steps[1] /\ 1 \in 1 .. Len(steps)
      /\ rest \in Seq(Range(Program[d]))
  BY DEF Remaining
<1>2. \A i \in 1 .. Len(rest) : i + 1 \in 1 .. Len(steps) /\ 1 < i + 1
  BY <1>1
<1>3. \A i \in 1 .. Len(steps) : i = 1 \/ (i - 1 \in 1 .. Len(rest) /\ rest[i - 1] = steps[i])
  BY <1>1
<1>. HIDE DEF s, rest
<1>4. \A i \in 1 .. Len(steps) : OwnStep(d, steps[i])
  BY DEF Remaining
<1>5. \A i, j \in 1 .. Len(steps) : i < j =>
          /\ Rank[steps[i].op] <= Rank[steps[j].op]
          /\ steps[i].op = "index" => steps[i].bank # steps[j].bank
  BY DEF Remaining
<1>6. OwnStep(d, s) /\ \A i \in 1 .. Len(rest) : OwnStep(d, rest[i])
  BY <1>1, <1>2, <1>4
<1>7. \A i \in 1 .. Len(rest) : Rank[s.op] <= Rank[rest[i].op]
                               /\ (s.op = "index" => s.bank # rest[i].bank)
  BY <1>1, <1>2, <1>5
<1>8. /\ s.op \in {"reset", "publish", "copy", "index"}
      /\ \A i \in 1 .. Len(rest) : rest[i].op \in {"reset", "publish", "copy", "index"}
  BY <1>6 DEF OwnStep, Rank
<1>9. \A i \in 1 .. Len(rest) :
        /\ s.op # "reset" => rest[i].op # "reset"
        /\ s.op \in {"copy", "index"} => rest[i].op # "publish"
        /\ s.op = "index" => rest[i].op # "copy"
  BY <1>7, <1>8 DEF Rank
<1>10. \A b : ResetAhead(steps, b) <=> (s.op = "reset" /\ b \in s.banks) \/ ResetAhead(rest, b)
  BY <1>1, <1>2, <1>3 DEF ResetAhead
<1>11. \A b : IndexAhead(steps, b) <=> (s.op = "index" /\ s.bank = b) \/ IndexAhead(rest, b)
  BY <1>1, <1>2, <1>3 DEF IndexAhead
<1>12. \A q : ToCome(d, steps, q) <=> \/ (s.op = "publish" /\ s.row = q)
                                      \/ (s.op = "copy" /\ q \in Copies(d))
                                      \/ ToCome(d, rest, q)
  BY <1>1, <1>2, <1>3 DEF ToCome
<1>13. s.op # "reset" => \A b : ~ResetAhead(steps, b)
  BY <1>9, <1>10 DEF ResetAhead
<1>14. s.op # "index" => \A b \in Owned(d) \ Obsolete[d] : IndexAhead(rest, b)
  BY <1>1, <1>11 DEF Remaining
<1>15. s.op = "reset" => \A q \in Contents(d) : ToCome(d, rest, q)
  BY <1>1, <1>12 DEF Remaining
<1>16. s.op = "copy" => \A q : ToCome(d, steps, q) => q \in Copies(d)
  BY <1>9, <1>12 DEF ToCome
<1>17. s.op = "index" => \A q : ~ToCome(d, steps, q)
  BY <1>9, <1>12 DEF ToCome
<1>18. s.op = "index" => ~IndexAhead(rest, s.bank)
  BY <1>7 DEF IndexAhead
<1>19. Remaining(d, rest)
  <2>1. \A i, j \in 1 .. Len(rest) : i < j =>
          /\ Rank[rest[i].op] <= Rank[rest[j].op]
          /\ rest[i].op = "index" => rest[i].bank # rest[j].bank
    <3>. SUFFICES ASSUME NEW i \in 1 .. Len(rest), NEW j \in 1 .. Len(rest), i < j
                  PROVE  /\ Rank[rest[i].op] <= Rank[rest[j].op]
                         /\ rest[i].op = "index" => rest[i].bank # rest[j].bank
      OBVIOUS
    <3>1. i + 1 \in 1 .. Len(steps) /\ j + 1 \in 1 .. Len(steps) /\ i + 1 < j + 1
      BY <1>2
    <3>. QED
      BY <1>1, <1>5, <3>1
  <2>2. ASSUME rest # <<>>
        PROVE  1 \in 1 .. Len(rest)
    BY <1>1, <2>2
  <2>3. rest # <<>> /\ rest[1].op # "index" => s.op # "index"
    BY <1>7, <1>8, <2>2 DEF Rank
  <2>4. rest # <<>> /\ rest[1].op = "reset" => s.op = "reset"
    BY <1>9, <2>2
  <2>. QED
    BY <1>1, <1>6, <1>14, <1>15, <2>1, <2>3, <2>4 DEF Remaining
<1>. QED
  BY <1>6, <1>10, <1>11, <1>12, <1>13, <1>14, <1>15, <1>16, <1>17, <1>18, <1>19 DEF s, rest

(* A whole program has every bank of its detector to clear and every row   *)
(* to write.                                                               *)
LEMMA WholeProgram ==
  ASSUME NEW d \in DOMAIN Program
  PROVE  /\ Remaining(d, Program[d])
         /\ \A b \in Owned(d) : b \in STRING /\ ResetAhead(Program[d], b)
         /\ \A q \in Contents(d) : ToCome(d, Program[d], q)
  BY ProgramAssumption, ContentsAssumption

(* What the rows of a program look like.                                   *)
LEMMA ContentsTyped ==
  ASSUME NEW d \in DOMAIN Program, NEW q \in Contents(d)
  PROVE  /\ q \in [table : Tables, bank : Owned(d) \ Obsolete[d], label : Labels, run : Nat,
                   part : STRING \X (1 .. 2), mesh : {"none", "local"}]
         /\ q.bank \in STRING
         /\ q.label = "default" => q.run = DefaultRun
<1>1. q \in [table : Tables, bank : Owned(d) \ Obsolete[d], label : Labels, run : Nat,
             part : STRING \X (1 .. 2), mesh : {"none", "local"}]
  BY ContentsAssumption
<1>. QED
  BY <1>1, WholeProgram, ContentsAssumption

(* The rows of the transverse choices are those of the one they are copied *)
(* from, and no copy is copied.                                            *)
LEMMA CopiedContents ==
  ASSUME NEW q \in Contents("beamline"), q.table \in Copied, q.bank = "beamline",
         q.run = TransverseSource, NEW n \in OtherTransverse
  PROVE  [q EXCEPT !.run = n] \in Copies("beamline")
<1>1. q \in Published("beamline")
  <2>1. ASSUME q \in Copies("beamline") PROVE FALSE
    <3>1. PICK p \in CopySource(Published("beamline")), m \in OtherTransverse : q = [p EXCEPT !.run = m]
      BY <2>1 DEF Copies
    <3>2. p \in Contents("beamline")
      BY DEF CopySource, Contents
    <3>3. "beamline" \in DOMAIN Program
      BY DEF Program
    <3>4. p \in [table : Tables, bank : Owned("beamline") \ Obsolete["beamline"], label : Labels, run : Nat,
                 part : STRING \X (1 .. 2), mesh : {"none", "local"}]
      BY <3>2, <3>3, ContentsTyped
    <3>5. q.run = m
      BY <3>1, <3>4
    <3>. QED
      BY <3>5 DEF OtherTransverse
  <2>. QED
    BY <2>1 DEF Contents
<1>. QED
  BY <1>1 DEF Copies, CopySource

(* A copied row is one of the source's rows under another run.             *)
LEMMA CopiesFrom ==
  ASSUME NEW d, NEW q \in Copies(d)
  PROVE  d = "beamline" /\ \E p \in CopySource(Published(d)), n \in OtherTransverse : q = [p EXCEPT !.run = n]
  BY DEF Copies

(* The copied run is not the default variation's.                          *)
LEMMA SourceIsNotDefault == TransverseSource # DefaultRun /\ TransverseSource \notin OtherTransverse
  BY DEF TransverseSource, BeamlineCustomStart, CtofCustomStart, DcCustomStart, CustomBlock,
         DefaultRun, OtherTransverse

-----------------------------------------------------------------------------
(* One step of a driver's program.                                         *)

(* Who works on what.                                                      *)
LEMMA DriverFacts ==
  ASSUME DriverInv
  PROVE  /\ detectors \subseteq DOMAIN Program /\ IsFiniteSet(detectors)
         /\ driver # Nobody => driver \in detectors /\ driver \in DOMAIN Program
         /\ \A d, e \in detectors : d # e => Owned(d) \cap Owned(e) = {}
<1>1. detectors \subseteq DOMAIN Program /\ IsFiniteSet(detectors)
  BY GroupsAssumption DEF DriverInv
<1>. QED
  BY <1>1, ProgramAssumption DEF DriverInv

(* A step that changes only rows of the driver's own banks leaves what is  *)
(* known of the other detectors.                                           *)
LEMMA StepFrame ==
  ASSUME DatabaseInv, driver # Nobody, todo # <<>>, todo' = Tail(todo), db' \subseteq Rows,
         UNCHANGED <<detectors, driver, starts, finished, aborted, verdict>>,
         \A r \in (db \ db') \cup (db' \ db) : r.bank \in Owned(driver)
  PROVE  /\ DriverInv' /\ FinishedInv' /\ PassedCheckSawWholeBanks'
         /\ \A d \in detectors \ {driver} : \A b \in Owned(d) :
              Settled(db', d, b)
         /\ \A d \in detectors \ {driver} :
              Older(db', d) \/ \A r \in db' : r.bank \in Owned(d) => r.made > 0
<1>1. DriverInv /\ FinishedInv /\ AgeInv /\ WholeInv
  BY DEF DatabaseInv
<1>2. DriverInv'
  BY <1>1, RemainingTail DEF DriverInv
<1>3. PassedCheckSawWholeBanks'
  <2>1. ~verdict'.passed
    BY <1>1 DEF DriverInv, NoVerdict
  <2>. QED
    BY <2>1 DEF PassedCheckSawWholeBanks
<1>4. ASSUME NEW d \in detectors \ {driver}, NEW r \in db \cup db', r.bank \in Owned(d)
      PROVE  r \in db <=> r \in db'
  BY <1>1, <1>4, DriverFacts
<1>5. ASSUME NEW d \in detectors, NEW q \in Contents(d)
      PROVE  q.bank \in Owned(d)
  BY <1>1, DriverFacts, ContentsTyped
<1>6. FinishedInv'
  <2>. SUFFICES ASSUME NEW d \in detectors, finished[d] > 0
                PROVE  /\ \A r \in db' : r.bank \in Owned(d) =>
                            /\ r.made = finished[d] /\ r.label = "default"
                            /\ \E q \in Contents(d) : Serves(r, q) /\ (q.mesh = "none" => r.mesh = "none")
                       /\ \A q \in Contents(d) : \E r \in db' : Serves(r, q)
    BY DEF FinishedInv
  <2>1. d # driver
    BY <1>1 DEF DriverInv
  <2>2. ASSUME NEW q \in Contents(d) PROVE \E r \in db' : Serves(r, q)
    <3>1. PICK r \in db : Serves(r, q)
      BY <1>1 DEF FinishedInv
    <3>2. r.bank \in Owned(d)
      BY <1>5, <3>1 DEF Serves
    <3>. QED
      BY <1>4, <2>1, <3>1, <3>2
  <2>3. ASSUME NEW r \in db', r.bank \in Owned(d) PROVE r \in db
    BY <1>4, <2>1, <2>3
  <2>. QED
    BY <1>1, <2>2, <2>3 DEF FinishedInv
<1>7. ASSUME NEW d \in detectors \ {driver}, NEW b \in Owned(d)
      PROVE  Settled(db', d, b)
  <2>1. CASE Whole(db, d, b)
    <3>1. ASSUME NEW q \in Contents(d), q.bank = b
          PROVE  \E r \in db' : Serves(r, q) /\ r.label = "default"
      <4>1. PICK r \in db : Serves(r, q) /\ r.label = "default"
        BY <2>1, <3>1 DEF Whole
      <4>. QED
        BY <1>4, <3>1, <4>1 DEF Serves
    <3>. QED
      BY <3>1 DEF Settled, Whole
  <2>2. CASE Unindexed(db, b)
    BY <1>4, <2>2 DEF Unindexed, Settled
  <2>3. CASE \A r \in db : r.bank = b => r.made = 0
    BY <1>4, <2>3 DEF Settled
  <2>. QED
    BY <1>1, <2>1, <2>2, <2>3 DEF WholeInv, Settled
<1>8. ASSUME NEW d \in detectors \ {driver}
      PROVE  Older(db', d) \/ \A r \in db' : r.bank \in Owned(d) => r.made > 0
  BY <1>1, <1>4 DEF AgeInv, Older
<1>. QED
  BY <1>2, <1>3, <1>6, <1>7, <1>8

(* ... and then it is left to show what the driver's own banks hold.       *)
LEMMA StepOwn ==
  ASSUME DatabaseInv, driver # Nobody, todo # <<>>, todo' = Tail(todo), db' \subseteq Rows,
         UNCHANGED <<detectors, driver, starts, finished, aborted, verdict>>,
         \A r \in (db \ db') \cup (db' \ db) : r.bank \in Owned(driver),
         \A r \in db' : r.bank \in Owned(driver) /\ ~ResetAhead(todo', r.bank) =>
            /\ r.made = starts
            /\ \E q \in Contents(driver) :
                  /\ Serves(r, q) /\ r.mesh = q.mesh
                  /\ r.label = IF IndexAhead(todo', r.bank) THEN q.label ELSE "default",
         \A q \in Contents(driver) : ToCome(driver, todo', q) \/ \E r \in db' : Serves(r, q),
         \A b \in Owned(driver) : Settled(db', driver, b),
         db' \subseteq db \/ \A b : ~ResetAhead(todo', b)
  PROVE  DatabaseInv'
<1>1. WorkInv'
  BY DEF WorkInv
<1>2. WholeInv'
  BY StepFrame DEF WholeInv
<1>3. Older(db', driver) \/ \A r \in db' : r.bank \in Owned(driver) => r.made > 0
  <2>1. DriverInv /\ AgeInv
    BY DEF DatabaseInv
  <2>2. starts > 0 /\ driver \in detectors
    BY <2>1 DEF DriverInv
  <2>3. CASE db' \subseteq db
    BY <2>1, <2>2, <2>3 DEF AgeInv, Older
  <2>. QED
    BY <2>2, <2>3
<1>4. AgeInv'
  BY <1>3, StepFrame DEF AgeInv
<1>. QED
  BY <1>1, <1>2, <1>4, StepFrame DEF DatabaseInv

(* Where nothing is left to be cleared, nothing is an older checkout's.    *)
LEMMA Cleared ==
  ASSUME DatabaseInv, driver # Nobody, \A b : ~ResetAhead(todo, b), NEW b \in Owned(driver)
  PROVE  Whole(db, driver, b) \/ Unindexed(db, b)
<1>1. DriverInv /\ WorkInv /\ WholeInv
  BY DEF DatabaseInv
<1>2. driver \in detectors /\ starts \in Nat /\ starts > 0
  BY <1>1 DEF DriverInv
<1>3. Settled(db, driver, b)
  BY <1>1, <1>2 DEF WholeInv
<1>4. ASSUME \A r \in db : r.bank = b => r.made = 0 PROVE Unindexed(db, b)
  <2>1. ASSUME NEW r \in db, r.bank = b PROVE FALSE
    <3>1. r.made = starts
      BY <1>1, <2>1 DEF WorkInv
    <3>. QED
      BY <1>2, <1>4, <2>1, <3>1
  <2>. QED
    BY <2>1 DEF Unindexed
<1>. QED
  BY <1>3, <1>4 DEF Settled

(* The step of a driver that is under way, and what it may be.             *)
LEMMA AtWork ==
  ASSUME DatabaseInv, NEW op, Doing(op)
  PROVE  /\ driver # Nobody /\ todo # <<>> /\ driver \in detectors /\ driver \in DOMAIN Program
         /\ Remaining(driver, todo) /\ OwnStep(driver, Head(todo)) /\ Head(todo).op = op
         /\ db \subseteq Rows /\ starts \in Nat
<1>1. driver # Nobody /\ todo # <<>> /\ Head(todo).op = op /\ DriverInv
  BY DEF Doing, DatabaseInv
<1>. QED
  BY <1>1, DriverFacts, RemainingTail DEF DriverInv

(* Clearing a bank: nothing of it is left, and all is still to come.       *)
LEMMA ResetKeeps ==
  ASSUME DatabaseInv, ResetBank
  PROVE  DatabaseInv'
<1>. DEFINE s == Head(todo)
            rest == Tail(todo)
<1>1. /\ Doing("reset") /\ db' = {r \in db : r.bank \notin s.banks} /\ todo' = rest
      /\ UNCHANGED <<detectors, driver, starts, finished, aborted, verdict>>
  BY DEF ResetBank, Does
<1>2. /\ driver # Nobody /\ todo # <<>> /\ driver \in detectors
      /\ Remaining(driver, todo) /\ OwnStep(driver, s) /\ s.op = "reset" /\ db \subseteq Rows
  BY <1>1, AtWork
<1>3. /\ \A b : ResetAhead(todo, b) <=> b \in s.banks \/ ResetAhead(rest, b)
      /\ \A b : IndexAhead(todo, b) <=> IndexAhead(rest, b)
      /\ \A q \in Contents(driver) : ToCome(driver, rest, q)
  BY <1>2, RemainingTail
<1>4. s.banks \subseteq Owned(driver)
  BY <1>2 DEF OwnStep
<1>5. DriverInv /\ WorkInv /\ WholeInv
  BY DEF DatabaseInv
<1>. HIDE DEF s, rest
<1>6. ASSUME NEW r \in db', r.bank \in Owned(driver), ~ResetAhead(todo', r.bank)
      PROVE  /\ r.made = starts
             /\ \E q \in Contents(driver) :
                   /\ Serves(r, q) /\ r.mesh = q.mesh
                   /\ r.label = IF IndexAhead(todo', r.bank) THEN q.label ELSE "default"
  <2>1. r \in db /\ ~ResetAhead(todo, r.bank) /\ (IndexAhead(todo', r.bank) <=> IndexAhead(todo, r.bank))
    BY <1>1, <1>3, <1>6
  <2>. QED
    BY <1>2, <1>5, <1>6, <2>1 DEF WorkInv
<1>7. ASSUME NEW b \in Owned(driver)
      PROVE  Settled(db', driver, b)
  <2>1. CASE b \in s.banks
    BY <1>1, <2>1 DEF Settled, Unindexed
  <2>2. CASE b \notin s.banks
    BY <1>1, <1>2, <1>5, <2>2 DEF WholeInv, Settled, Whole, Unindexed, Serves
  <2>. QED
    BY <2>1, <2>2
<1>8. /\ todo' = Tail(todo) /\ db' \subseteq Rows
      /\ \A r \in (db \ db') \cup (db' \ db) : r.bank \in Owned(driver)
      /\ \A q \in Contents(driver) : ToCome(driver, todo', q)
      /\ db' \subseteq db
  BY <1>1, <1>2, <1>3, <1>4 DEF rest
<1>. QED
  BY <1>1, <1>2, <1>6, <1>7, <1>8, StepOwn

(* Publishing a row adds it under its own label, to a bank that is cleared *)
(* and not yet indexed.                                                    *)
LEMMA PublishKeeps ==
  ASSUME DatabaseInv, PublishRow
  PROVE  DatabaseInv'
<1>. DEFINE s == Head(todo)
            rest == Tail(todo)
            q0 == s.row
            new == [table |-> q0.table, bank |-> q0.bank, label |-> q0.label, run |-> q0.run,
                    part |-> q0.part, mesh |-> q0.mesh, made |-> starts]
<1>1. /\ Doing("publish") /\ db' = db \cup {new} /\ todo' = rest
      /\ UNCHANGED <<detectors, driver, starts, finished, aborted, verdict>>
  BY DEF PublishRow, Does
<1>2. /\ driver # Nobody /\ todo # <<>> /\ driver \in detectors /\ driver \in DOMAIN Program
      /\ Remaining(driver, todo) /\ OwnStep(driver, s) /\ s.op = "publish"
      /\ db \subseteq Rows /\ starts \in Nat
  BY <1>1, AtWork
<1>3. /\ \A b : ResetAhead(todo, b) <=> ResetAhead(rest, b)
      /\ \A b : IndexAhead(todo, b) <=> IndexAhead(rest, b)
      /\ \A b \in Owned(driver) \ Obsolete[driver] : IndexAhead(rest, b)
      /\ \A b : ~ResetAhead(todo, b)
      /\ \A q : ToCome(driver, todo, q) <=> s.row = q \/ ToCome(driver, rest, q)
  BY <1>2, RemainingTail
<1>4. q0 \in Contents(driver)
  BY <1>2 DEF OwnStep, Contents
<1>5. /\ q0 \in [table : Tables, bank : Owned(driver) \ Obsolete[driver], label : Labels, run : Nat,
                 part : STRING \X (1 .. 2), mesh : {"none", "local"}]
      /\ q0.bank \in STRING /\ (q0.label = "default" => q0.run = DefaultRun)
  BY <1>2, <1>4, ContentsTyped
<1>6. DriverInv /\ WorkInv /\ WholeInv
  BY DEF DatabaseInv
<1>7. /\ new \in Rows /\ new.bank = q0.bank /\ new.label = q0.label /\ new.run = q0.run
      /\ new.mesh = q0.mesh /\ new.made = starts /\ Serves(new, q0)
  BY <1>2, <1>5 DEF Rows, Serves
<1>8. q0.bank \in Owned(driver) \ Obsolete[driver]
  BY <1>5
<1>. HIDE DEF s, rest, q0, new
<1>9. ASSUME NEW r \in db', r.bank \in Owned(driver), ~ResetAhead(todo', r.bank)
      PROVE  /\ r.made = starts
             /\ \E q \in Contents(driver) :
                   /\ Serves(r, q) /\ r.mesh = q.mesh
                   /\ r.label = IF IndexAhead(todo', r.bank) THEN q.label ELSE "default"
  <2>1. CASE r = new
    BY <1>1, <1>3, <1>4, <1>7, <1>8, <2>1
  <2>2. CASE r \in db
    <3>1. ~ResetAhead(todo, r.bank) /\ (IndexAhead(todo', r.bank) <=> IndexAhead(todo, r.bank))
      BY <1>1, <1>3, <1>9
    <3>. QED
      BY <1>2, <1>6, <1>9, <2>2, <3>1 DEF WorkInv
  <2>. QED
    BY <1>1, <2>1, <2>2
<1>10. ASSUME NEW q \in Contents(driver)
       PROVE  ToCome(driver, todo', q) \/ \E r \in db' : Serves(r, q)
  <2>1. ToCome(driver, todo, q) \/ \E r \in db : Serves(r, q)
    BY <1>2, <1>6 DEF WorkInv
  <2>. QED
    BY <1>1, <1>3, <1>7, <2>1 DEF q0
<1>11. ASSUME NEW b \in Owned(driver)
       PROVE  Settled(db', driver, b)
  <2>1. CASE Whole(db, driver, b)
    BY <1>1, <2>1 DEF Settled, Whole
  <2>2. CASE Unindexed(db, b)
    BY <1>1, <1>5, <1>7, <2>2 DEF Settled, Unindexed
  <2>. QED
    BY <1>2, <1>3, <2>1, <2>2, Cleared
<1>12. /\ todo' = Tail(todo) /\ db' \subseteq Rows /\ \A b : ~ResetAhead(todo', b)
       /\ \A r \in (db \ db') \cup (db' \ db) : r.bank \in Owned(driver)
  BY <1>1, <1>2, <1>3, <1>7, <1>8 DEF rest
<1>. QED
  BY <1>1, <1>2, <1>9, <1>10, <1>11, <1>12, StepOwn

(* Copying the rows of the first transverse choice: all of them are there, *)
(* none is indexed, and the copies are rows of the program.                *)
LEMMA CopyKeeps ==
  ASSUME DatabaseInv, CopyTransverse
  PROVE  DatabaseInv'
<1>. DEFINE rest == Tail(todo)
            copy(r, n) == [r EXCEPT !.run = n]
<1>1. /\ Doing("copy") /\ todo' = rest
      /\ db' = db \cup {copy(r, n) : r \in CopySource(db), n \in OtherTransverse}
      /\ UNCHANGED <<detectors, driver, starts, finished, aborted, verdict>>
  BY DEF CopyTransverse, Does
<1>2. /\ driver # Nobody /\ todo # <<>> /\ driver \in detectors /\ driver \in DOMAIN Program
      /\ Remaining(driver, todo) /\ OwnStep(driver, Head(todo)) /\ Head(todo).op = "copy"
      /\ db \subseteq Rows /\ starts \in Nat
  BY <1>1, AtWork
<1>3. /\ \A b : ResetAhead(todo, b) <=> ResetAhead(rest, b)
      /\ \A b : IndexAhead(todo, b) <=> IndexAhead(rest, b)
      /\ \A b \in Owned(driver) \ Obsolete[driver] : IndexAhead(rest, b)
      /\ \A b : ~ResetAhead(todo, b)
      /\ \A q : ToCome(driver, todo, q) => q \in Copies(driver)
      /\ \A q : ToCome(driver, todo, q) <=> q \in Copies(driver) \/ ToCome(driver, rest, q)
  BY <1>2, RemainingTail
<1>4. driver = "beamline" /\ "beamline" \in Owned(driver) \ Obsolete[driver]
  BY <1>2 DEF OwnStep
<1>5. DriverInv /\ WorkInv /\ WholeInv
  BY DEF DatabaseInv
<1>. HIDE DEF rest
<1>6. ASSUME NEW r \in CopySource(db), NEW n \in OtherTransverse
      PROVE  /\ r \in db /\ r.bank = "beamline" /\ r.run = TransverseSource /\ r.made = starts
             /\ \E q \in Contents(driver) :
                  /\ Serves(r, q) /\ r.mesh = q.mesh /\ r.label = q.label
                  /\ copy(q, n) \in Copies(driver) /\ n \in Nat
                  /\ Serves(copy(r, n), copy(q, n)) /\ copy(r, n) \in Rows
                  /\ copy(r, n).mesh = copy(q, n).mesh /\ copy(r, n).label = copy(q, n).label
                  /\ copy(r, n).made = starts /\ copy(r, n).bank = "beamline"
                  /\ copy(r, n).label = r.label
  <2>1. r \in db /\ r.table \in Copied /\ r.bank = "beamline" /\ r.run = TransverseSource /\ r \in Rows
    BY <1>2 DEF CopySource
  <2>2. r.made = starts /\ \E q \in Contents(driver) :
          /\ Serves(r, q) /\ r.mesh = q.mesh
          /\ r.label = IF IndexAhead(todo, r.bank) THEN q.label ELSE "default"
    BY <1>2, <1>3, <1>4, <1>5, <2>1 DEF WorkInv
  <2>3. PICK q \in Contents(driver) : Serves(r, q) /\ r.mesh = q.mesh /\ r.label = q.label
    BY <1>3, <1>4, <2>1, <2>2
  <2>4. copy(q, n) \in Copies(driver)
    <3>1. q.table \in Copied /\ q.bank = "beamline" /\ q.run = TransverseSource
      BY <2>1, <2>3 DEF Serves
    <3>. QED
      BY <1>4, <3>1, CopiedContents
  <2>5. /\ q \in [table : Tables, bank : Owned(driver) \ Obsolete[driver], label : Labels, run : Nat,
                  part : STRING \X (1 .. 2), mesh : {"none", "local"}]
        /\ copy(q, n) \in [table : Tables, bank : Owned(driver) \ Obsolete[driver], label : Labels, run : Nat,
                  part : STRING \X (1 .. 2), mesh : {"none", "local"}]
    <3>1. copy(q, n) \in Contents(driver)
      BY <2>4 DEF Contents
    <3>. HIDE DEF copy
    <3>. QED
      BY <1>2, <3>1, ContentsTyped
  <2>6. n \in Nat
    BY <2>5
  <2>7. /\ copy(r, n) \in Rows /\ copy(r, n).mesh = r.mesh /\ copy(r, n).label = r.label
        /\ copy(r, n).made = r.made /\ copy(r, n).bank = r.bank /\ copy(r, n).table = r.table
        /\ copy(r, n).part = r.part /\ copy(r, n).run = n
    BY <2>1, <2>6 DEF Rows
  <2>8. /\ copy(q, n).mesh = q.mesh /\ copy(q, n).label = q.label /\ copy(q, n).bank = q.bank
        /\ copy(q, n).table = q.table /\ copy(q, n).part = q.part /\ copy(q, n).run = n
    BY <2>5
  <2>. HIDE DEF copy
  <2>9. Serves(copy(r, n), copy(q, n))
    BY <2>3, <2>7, <2>8 DEF Serves
  <2>. QED
    BY <2>1, <2>2, <2>3, <2>4, <2>6, <2>7, <2>8, <2>9
<1>7. ASSUME NEW q \in Copies(driver) PROVE \E r \in db' : Serves(r, q)
  <2>1. PICK p \in CopySource(Published(driver)), n \in OtherTransverse : q = copy(p, n)
    BY <1>7, CopiesFrom
  <2>2. p \in Contents(driver) /\ p.table \in Copied /\ p.bank = "beamline" /\ p.run = TransverseSource
    BY DEF CopySource, Contents
  <2>3. p \notin Copies(driver)
    <3>. SUFFICES ASSUME p \in Copies(driver) PROVE FALSE
      OBVIOUS
    <3>1. PICK o \in CopySource(Published(driver)), m \in OtherTransverse : p = copy(o, m)
      BY CopiesFrom
    <3>2. o \in Contents(driver)
      BY DEF CopySource, Contents
    <3>3. p.run = m
      BY <1>2, <3>1, <3>2, ContentsTyped
    <3>. QED
      BY <2>2, <3>3, SourceIsNotDefault
  <2>4. ~ToCome(driver, todo, p)
    BY <1>3, <2>3
  <2>5. PICK r \in db : Serves(r, p)
    BY <1>2, <1>5, <2>2, <2>4 DEF WorkInv
  <2>6. r \in CopySource(db)
    BY <2>2, <2>5 DEF CopySource, Serves
  <2>7. copy(r, n) \in db' /\ r \in Rows
    BY <1>1, <1>2, <2>6
  <2>8. p \in [table : Tables, bank : Owned(driver) \ Obsolete[driver], label : Labels, run : Nat,
               part : STRING \X (1 .. 2), mesh : {"none", "local"}]
    BY <1>2, <2>2, ContentsTyped
  <2>9. Serves(copy(r, n), copy(p, n))
    BY <2>5, <2>7, <2>8 DEF Serves, Rows
  <2>. QED
    BY <2>1, <2>7, <2>9
<1>8. ASSUME NEW r \in db', r.bank \in Owned(driver), ~ResetAhead(todo', r.bank)
      PROVE  /\ r.made = starts
             /\ \E q \in Contents(driver) :
                   /\ Serves(r, q) /\ r.mesh = q.mesh
                   /\ r.label = IF IndexAhead(todo', r.bank) THEN q.label ELSE "default"
  <2>1. CASE r \in db
    <3>1. ~ResetAhead(todo, r.bank) /\ (IndexAhead(todo', r.bank) <=> IndexAhead(todo, r.bank))
      BY <1>1, <1>3, <1>8
    <3>. QED
      BY <1>2, <1>5, <1>8, <2>1, <3>1 DEF WorkInv
  <2>2. CASE r \notin db
    <3>1. PICK o \in CopySource(db), n \in OtherTransverse : r = copy(o, n)
      BY <1>1, <2>2
    <3>. HIDE DEF copy
    <3>2. PICK q \in Contents(driver) :
            /\ copy(q, n) \in Copies(driver) /\ Serves(copy(o, n), copy(q, n))
            /\ copy(o, n).mesh = copy(q, n).mesh /\ copy(o, n).label = copy(q, n).label
            /\ copy(o, n).made = starts /\ copy(o, n).bank = "beamline"
      BY <1>6
    <3>3. copy(q, n) \in Contents(driver)
      BY <3>2 DEF Contents
    <3>4. IndexAhead(todo', r.bank)
      BY <1>1, <1>3, <1>4, <3>1, <3>2
    <3>. QED
      BY <3>1, <3>2, <3>3, <3>4
  <2>. QED
    BY <2>1, <2>2
<1>9. ASSUME NEW q \in Contents(driver)
      PROVE  ToCome(driver, todo', q) \/ \E r \in db' : Serves(r, q)
  <2>1. CASE q \in Copies(driver)
    BY <1>7, <2>1
  <2>2. CASE q \notin Copies(driver)
    BY <1>1, <1>2, <1>3, <1>5, <2>2 DEF WorkInv
  <2>. QED
    BY <2>1, <2>2
<1>10. ASSUME NEW b \in Owned(driver)
       PROVE  Settled(db', driver, b)
  <2>1. CASE Whole(db, driver, b)
    BY <1>1, <2>1 DEF Settled, Whole
  <2>2. CASE Unindexed(db, b)
    <3>1. ASSUME NEW r \in db', r \notin db, r.bank = b, r.label = "default" PROVE FALSE
      <4>1. PICK o \in CopySource(db), n \in OtherTransverse : r = copy(o, n)
        BY <1>1, <3>1
      <4>. HIDE DEF copy
      <4>2. /\ o \in db /\ o.bank = "beamline" /\ o.run = TransverseSource
            /\ copy(o, n).bank = "beamline" /\ copy(o, n).label = o.label
        BY <1>6
      <4>. QED
        BY <2>2, <3>1, <4>1, <4>2, SourceIsNotDefault DEF Unindexed
    <3>. QED
      BY <2>2, <3>1 DEF Settled, Unindexed
  <2>. QED
    BY <1>2, <1>3, <2>1, <2>2, Cleared
<1>11. ASSUME NEW r \in db', r \notin db PROVE r \in Rows /\ r.bank \in Owned(driver)
  <2>1. PICK o \in CopySource(db), n \in OtherTransverse : r = copy(o, n)
    BY <1>1, <1>11
  <2>. HIDE DEF copy
  <2>. QED
    BY <1>4, <1>6, <2>1
<1>12. /\ todo' = Tail(todo) /\ db' \subseteq Rows /\ \A b : ~ResetAhead(todo', b)
       /\ \A r \in (db \ db') \cup (db' \ db) : r.bank \in Owned(driver)
  BY <1>1, <1>2, <1>3, <1>11 DEF rest
<1>. QED
  BY <1>1, <1>2, <1>8, <1>9, <1>10, <1>12, StepOwn

(* No two rows of one table and run in a bank that is about to be indexed  *)
(* have two labels.                                                        *)
LEMMA NeverAmbiguous ==
  ASSUME DatabaseInv, Doing("index")
  PROVE  ~Ambiguous(Head(todo).bank)
<1>. DEFINE b == Head(todo).bank
<1>1. /\ driver # Nobody /\ todo # <<>> /\ driver \in DOMAIN Program
      /\ Remaining(driver, todo) /\ OwnStep(driver, Head(todo)) /\ Head(todo).op = "index"
  BY AtWork
<1>2. IndexAhead(todo, b) /\ ~ResetAhead(todo, b) /\ b \in Owned(driver)
  BY <1>1, RemainingTail DEF OwnStep
<1>3. WorkInv
  BY DEF DatabaseInv
<1>. HIDE DEF b
<1>4. ASSUME NEW r \in Bank(b), NEW s \in Bank(b), r.table = s.table, r.run = s.run
      PROVE  r.label = s.label
  <2>1. /\ \E q \in Contents(driver) : Serves(r, q) /\ r.label = q.label
        /\ \E q \in Contents(driver) : Serves(s, q) /\ s.label = q.label
    <3>1. \A t \in db : t.bank = b => \E q \in Contents(driver) :
            /\ Serves(t, q) /\ t.mesh = q.mesh
            /\ t.label = IF IndexAhead(todo, t.bank) THEN q.label ELSE "default"
      BY <1>1, <1>2, <1>3 DEF WorkInv
    <3>. QED
      BY <1>2, <3>1 DEF Bank
  <2>2. PICK p \in Contents(driver) : Serves(r, p) /\ r.label = p.label
    BY <2>1
  <2>3. PICK q \in Contents(driver) : Serves(s, q) /\ s.label = q.label
    BY <2>1
  <2>4. p.table = q.table /\ p.bank = q.bank /\ p.run = q.run
    BY <1>4, <2>2, <2>3 DEF Serves, Bank
  <2>5. p.label = q.label
    BY <1>1, <2>4, ContentsAssumption
  <2>. QED
    BY <2>2, <2>3, <2>5
<1>. QED
  BY <1>4 DEF Ambiguous, b

(* Indexing gives every row of a full bank the label default.              *)
LEMMA IndexKeeps ==
  ASSUME DatabaseInv, IndexBank
  PROVE  DatabaseInv'
<1>. DEFINE b == Head(todo).bank
            rest == Tail(todo)
            named(r) == [r EXCEPT !.label = "default"]
<1>1. Doing("index") /\ ~Ambiguous(b)
  BY NeverAmbiguous DEF IndexBank
<1>2. /\ db' = (db \ Bank(b)) \cup {named(r) : r \in Bank(b)} /\ todo' = rest
      /\ UNCHANGED <<detectors, driver, starts, finished, aborted, verdict>>
  BY <1>1 DEF IndexBank, Does
<1>3. /\ driver # Nobody /\ todo # <<>> /\ driver \in detectors /\ driver \in DOMAIN Program
      /\ Remaining(driver, todo) /\ OwnStep(driver, Head(todo)) /\ Head(todo).op = "index"
      /\ db \subseteq Rows /\ starts \in Nat
  BY <1>1, AtWork
<1>4. /\ \A c : ResetAhead(todo, c) <=> ResetAhead(rest, c)
      /\ \A c : IndexAhead(todo, c) <=> b = c \/ IndexAhead(rest, c)
      /\ \A c : ~ResetAhead(todo, c)
      /\ \A q : ~ToCome(driver, todo, q)
      /\ ~IndexAhead(rest, b)
  BY <1>3, RemainingTail
<1>5. b \in Owned(driver)
  BY <1>3 DEF OwnStep
<1>6. WorkInv /\ WholeInv
  BY DEF DatabaseInv
<1>. HIDE DEF b, rest
<1>7. ASSUME NEW r \in Bank(b)
      PROVE  /\ r \in db /\ r.bank = b /\ named(r) \in Rows /\ named(r).bank = b
             /\ named(r).label = "default" /\ named(r).mesh = r.mesh /\ named(r).made = r.made
             /\ \A q : Serves(r, q) <=> Serves(named(r), q)
  <2>1. r \in db /\ r.bank = b /\ r \in Rows
    BY <1>3 DEF Bank
  <2>2. /\ named(r).bank = r.bank /\ named(r).label = "default"
        /\ named(r).mesh = r.mesh /\ named(r).made = r.made /\ named(r).table = r.table
        /\ named(r).run = r.run /\ named(r).part = r.part
    BY <2>1 DEF Rows
  <2>3. named(r) \in Rows
    BY <2>1 DEF Rows, Labels
  <2>. HIDE DEF named
  <2>. QED
    BY <2>1, <2>2, <2>3 DEF Serves
<1>8. \A r \in db : r.bank # b => r \in db'
  BY <1>2 DEF Bank
<1>9. \A r \in Bank(b) : named(r) \in db'
  BY <1>2
<1>10. \A r \in db' : (r \in db /\ r.bank # b) \/ \E o \in Bank(b) : r = named(o)
  BY <1>2 DEF Bank
<1>11. \A r \in db : r.bank = b => r \in Bank(b)
  BY DEF Bank
<1>. HIDE DEF named
<1>12. ASSUME NEW r \in db', r.bank \in Owned(driver), ~ResetAhead(todo', r.bank)
       PROVE  /\ r.made = starts
              /\ \E q \in Contents(driver) :
                    /\ Serves(r, q) /\ r.mesh = q.mesh
                    /\ r.label = IF IndexAhead(todo', r.bank) THEN q.label ELSE "default"
  <2>1. CASE r \in db /\ r.bank # b
    <3>1. IndexAhead(todo', r.bank) <=> IndexAhead(todo, r.bank)
      BY <1>2, <1>4, <2>1
    <3>. QED
      BY <1>3, <1>4, <1>6, <1>12, <2>1, <3>1 DEF WorkInv
  <2>2. CASE \E o \in Bank(b) : r = named(o)
    <3>1. PICK o \in Bank(b) : r = named(o)
      BY <2>2
    <3>2. o.made = starts /\ \E q \in Contents(driver) : Serves(o, q) /\ o.mesh = q.mesh
      BY <1>3, <1>4, <1>5, <1>6, <1>7 DEF WorkInv
    <3>. QED
      BY <1>2, <1>4, <1>7, <3>1, <3>2
  <2>. QED
    BY <1>10, <2>1, <2>2
<1>13. ASSUME NEW q \in Contents(driver)
       PROVE  \E r \in db' : Serves(r, q) /\ (q.bank = b => r.label = "default")
  <2>1. PICK r \in db : Serves(r, q)
    BY <1>3, <1>4, <1>6 DEF WorkInv
  <2>2. r.bank = q.bank
    BY <2>1 DEF Serves
  <2>. QED
    BY <1>7, <1>8, <1>9, <1>11, <2>1, <2>2
<1>14. ASSUME NEW c \in Owned(driver)
       PROVE  Settled(db', driver, c)
  <2>1. CASE c = b
    BY <1>13, <2>1 DEF Settled, Whole
  <2>2. CASE c # b /\ Whole(db, driver, c)
    BY <1>8, <2>2 DEF Settled, Whole, Serves
  <2>3. CASE c # b /\ Unindexed(db, c)
    BY <1>7, <1>10, <2>3 DEF Settled, Unindexed
  <2>. QED
    BY <1>3, <1>4, <2>1, <2>2, <2>3, Cleared
<1>15. /\ todo' = Tail(todo) /\ db' \subseteq Rows /\ \A c : ~ResetAhead(todo', c)
       /\ \A r \in (db \ db') \cup (db' \ db) : r.bank \in Owned(driver)
       /\ \A q \in Contents(driver) : ToCome(driver, todo', q) \/ \E r \in db' : Serves(r, q)
  BY <1>2, <1>3, <1>4, <1>5, <1>7, <1>8, <1>10, <1>13 DEF rest
<1>. QED
  BY <1>2, <1>3, <1>12, <1>14, <1>15, StepOwn

(* A driver that has nothing left to do has left what it promised.         *)
LEMMA FinishKeeps ==
  ASSUME DatabaseInv, Finish
  PROVE  DatabaseInv'
<1>1. /\ driver # Nobody /\ todo = <<>> /\ finished' = [finished EXCEPT ![driver] = starts]
      /\ driver' = Nobody /\ UNCHANGED <<detectors, db, todo, starts, aborted, verdict>>
  BY DEF Finish
<1>2. DriverInv /\ WorkInv /\ FinishedInv /\ AgeInv /\ WholeInv /\ PassedCheckSawWholeBanks
  BY DEF DatabaseInv
<1>3. driver \in detectors /\ driver \in DOMAIN Program
  BY <1>1, <1>2, DriverFacts
<1>4. /\ \A b : ~ResetAhead(todo, b) /\ ~IndexAhead(todo, b)
      /\ \A q : ~ToCome(driver, todo, q)
  BY <1>1 DEF ResetAhead, IndexAhead, ToCome
<1>5. DriverInv'
  BY <1>1, <1>2, <1>3 DEF DriverInv
<1>6. WorkInv' /\ AgeInv' /\ WholeInv'
  BY <1>1, <1>2 DEF WorkInv, AgeInv, WholeInv
<1>7. PassedCheckSawWholeBanks'
  BY <1>1, <1>2 DEF PassedCheckSawWholeBanks, CardVolumes
<1>8. FinishedInv'
  <2>. SUFFICES ASSUME NEW d \in detectors, finished'[d] > 0
                PROVE  /\ \A r \in db : r.bank \in Owned(d) =>
                            /\ r.made = finished'[d] /\ r.label = "default"
                            /\ \E q \in Contents(d) : Serves(r, q) /\ (q.mesh = "none" => r.mesh = "none")
                       /\ \A q \in Contents(d) : \E r \in db : Serves(r, q)
    BY <1>1 DEF FinishedInv
  <2>1. CASE d = driver
    <3>1. finished'[d] = starts
      BY <1>1, <1>2, <1>3, <2>1 DEF DriverInv
    <3>2. ASSUME NEW r \in db, r.bank \in Owned(d)
          PROVE  /\ r.made = finished'[d] /\ r.label = "default"
                 /\ \E q \in Contents(d) : Serves(r, q) /\ (q.mesh = "none" => r.mesh = "none")
      BY <1>1, <1>2, <1>4, <2>1, <3>1, <3>2 DEF WorkInv
    <3>. QED
      BY <1>1, <1>2, <1>4, <2>1, <3>2 DEF WorkInv
  <2>2. CASE d # driver
    <3>1. finished'[d] = finished[d]
      BY <1>1, <1>2, <2>2 DEF DriverInv
    <3>. QED
      BY <1>2, <3>1 DEF FinishedInv
  <2>. QED
    BY <2>1, <2>2
<1>. QED
  BY <1>5, <1>6, <1>7, <1>8 DEF DatabaseInv

-----------------------------------------------------------------------------
(* Starting, killing and checking drivers.                                 *)

(* A started driver has everything to clear and everything to write.       *)
LEMMA StartKeeps ==
  ASSUME DatabaseInv, NEW d \in detectors, Start(d)
  PROVE  DatabaseInv'
<1>1. /\ driver = Nobody /\ driver' = d /\ todo' = Program[d] /\ starts' = starts + 1
      /\ finished' = [finished EXCEPT ![d] = 0] /\ aborted' = FALSE /\ verdict' = NoVerdict
      /\ UNCHANGED <<detectors, db>>
  BY DEF Start
<1>2. DriverInv /\ FinishedInv /\ AgeInv /\ WholeInv
  BY DEF DatabaseInv
<1>3. d \in DOMAIN Program
  BY <1>2, DriverFacts
<1>4. DriverInv'
  BY <1>1, <1>2, <1>3, WholeProgram DEF DriverInv
<1>5. WorkInv'
  BY <1>1, <1>3, WholeProgram DEF WorkInv
<1>6. FinishedInv'
  <2>. SUFFICES ASSUME NEW e \in detectors, finished'[e] > 0
                PROVE  finished[e] = finished'[e]
    BY <1>1, <1>2 DEF FinishedInv
  <2>. QED
    BY <1>1, <1>2 DEF DriverInv
<1>7. AgeInv' /\ WholeInv'
  BY <1>1, <1>2 DEF AgeInv, WholeInv
<1>8. PassedCheckSawWholeBanks'
  <2>1. ~verdict'.passed
    BY <1>1 DEF NoVerdict
  <2>. QED
    BY <2>1 DEF PassedCheckSawWholeBanks
<1>. QED
  BY <1>4, <1>5, <1>6, <1>7, <1>8 DEF DatabaseInv

(* A driver that dies leaves the rows it wrote so far.                     *)
LEMMA KilledKeeps ==
  ASSUME DatabaseInv, driver' = Nobody, UNCHANGED <<detectors, db, starts, finished, aborted, verdict>>
  PROVE  DatabaseInv'
<1>1. DriverInv /\ FinishedInv /\ AgeInv /\ WholeInv /\ PassedCheckSawWholeBanks
  BY DEF DatabaseInv
<1>2. DriverInv' /\ WorkInv'
  BY <1>1 DEF DriverInv, WorkInv
<1>3. FinishedInv' /\ AgeInv' /\ WholeInv'
  BY <1>1 DEF FinishedInv, AgeInv, WholeInv
<1>4. PassedCheckSawWholeBanks'
  BY <1>1 DEF PassedCheckSawWholeBanks, CardVolumes
<1>. QED
  BY <1>2, <1>3, <1>4 DEF DatabaseInv

(* A check that passes has seen, in every bank a card names, a row of a    *)
(* run that is not the default variation's; where a driver of this         *)
(* checkout has published, only a whole bank has one.                      *)
LEMMA CheckKeeps ==
  ASSUME DatabaseInv, NEW d \in detectors, Check(d)
  PROVE  DatabaseInv'
<1>1. /\ driver = Nobody /\ verdict' = [detector |-> d, passed |-> CheckPasses(d)]
      /\ UNCHANGED <<detectors, db, driver, todo, starts, finished, aborted>>
  BY DEF Check
<1>2. DriverInv /\ FinishedInv /\ AgeInv /\ WholeInv
  BY DEF DatabaseInv
<1>3. d \in DOMAIN Program
  BY <1>2, DriverFacts
<1>4. DriverInv' /\ WorkInv'
  BY <1>1, <1>2 DEF DriverInv, WorkInv
<1>5. FinishedInv' /\ AgeInv' /\ WholeInv'
  BY <1>1, <1>2 DEF FinishedInv, AgeInv, WholeInv
<1>6. ASSUME CheckPasses(d), ~Older(db, d), NEW c \in Cards(d), NEW r \in Published(d),
             r.table = "geometry", r.bank \in c.banks, r.run = c.run
      PROVE  \E s \in CardVolumes(r.bank, r.run) : s.part = r.part
  <2>1. PICK other \in Cards(d) : r.bank \in other.banks /\ other.run # DefaultRun
    BY <1>3, <1>6, CardsAssumption
  <2>2. PICK o \in CardVolumes(r.bank, other.run) : TRUE
    BY <1>6, <2>1 DEF CheckPasses
  <2>3. o \in db /\ o.bank = r.bank /\ o.label = "default" /\ o.run # DefaultRun
    BY <2>1, <2>2 DEF CardVolumes
  <2>4. r.bank \in Owned(d) /\ r \in Contents(d)
    BY <1>6 DEF Owned, Contents
  <2>5. o.made > 0
    BY <1>2, <1>6, <2>3, <2>4 DEF AgeInv
  <2>7. Settled(db, d, r.bank)
    BY <1>2, <2>4 DEF WholeInv
  <2>8. Whole(db, d, r.bank)
    BY <2>3, <2>5, <2>7 DEF Settled, Unindexed
  <2>6. PICK s \in db : Serves(s, r) /\ s.label = "default"
    BY <2>4, <2>8 DEF Whole
  <2>. QED
    BY <1>6, <2>6 DEF Serves, CardVolumes
<1>7. PassedCheckSawWholeBanks'
  <2>1. verdict'.detector = d /\ verdict'.passed = CheckPasses(d)
    BY <1>1
  <2>2. \A b, run : CardVolumes(b, run)' = CardVolumes(b, run)
    BY <1>1 DEF CardVolumes
  <2>. QED
    BY <1>1, <1>6, <2>1, <2>2 DEF PassedCheckSawWholeBanks
<1>. QED
  BY <1>4, <1>5, <1>7 DEF DatabaseInv

(* Whatever a driver's step is.                                            *)
LEMMA DriverStepKeeps == DatabaseInv /\ DriverStep => DatabaseInv'
  BY ResetKeeps, PublishKeeps, CopyKeeps, IndexKeeps, FinishKeeps DEF DriverStep

-----------------------------------------------------------------------------
(* What the invariant says of finished drivers.                            *)

(* They are fresh, and they are all the cards of their detector load.      *)
LEMMA FreshAndServed ==
  ASSUME DatabaseInv
  PROVE  FinishedBanksAreFresh /\ FinishedBanksServeCards
<1>1. DriverInv /\ FinishedInv
  BY DEF DatabaseInv
<1>2. FinishedBanksAreFresh
  <2>. SUFFICES ASSUME NEW d \in detectors, finished[d] > 0, NEW r \in db, r.bank \in Owned(d)
                PROVE  r.made = finished[d] /\ r.label = "default" /\ r.bank \notin Obsolete[d]
    BY <1>1 DEF FinishedBanksAreFresh, DriverInv
  <2>1. r.made = finished[d] /\ r.label = "default" /\ \E q \in Contents(d) : Serves(r, q)
    BY <1>1 DEF FinishedInv
  <2>2. PICK q \in Contents(d) : Serves(r, q)
    BY <2>1
  <2>3. q.bank \in Owned(d) \ Obsolete[d]
    BY <1>1, DriverFacts, ContentsTyped
  <2>. QED
    BY <2>1, <2>2, <2>3 DEF Serves
<1>3. FinishedBanksServeCards
  <2>. SUFFICES ASSUME NEW d \in detectors, finished[d] > 0, NEW c \in Cards(d)
                PROVE  /\ \A b \in c.banks :
                            LET parts == {r.part : r \in CardVolumes(b, c.run)}
                            IN  parts # {} /\ \A p \in parts : {<<p[1], 1>>, <<p[1], 2>>} \subseteq parts
                       /\ \E r \in db : r.table = "materials" /\ r.bank \in c.banks /\ r.run = c.run
    BY DEF FinishedBanksServeCards
  <2>1. d \in DOMAIN Program
    BY <1>1, DriverFacts
  <2>2. ASSUME NEW q \in Contents(d) PROVE \E r \in db : Serves(r, q) /\ r.label = "default"
    <3>1. PICK r \in db : Serves(r, q)
      BY <1>1 DEF FinishedInv
    <3>2. r.bank \in Owned(d)
      BY <2>1, <3>1, ContentsTyped DEF Serves
    <3>. QED
      BY <1>1, <3>1, <3>2 DEF FinishedInv
  <2>3. ASSUME NEW b \in c.banks
        PROVE  LET parts == {r.part : r \in CardVolumes(b, c.run)}
               IN  parts # {} /\ \A p \in parts : {<<p[1], 1>>, <<p[1], 2>>} \subseteq parts
    <3>. DEFINE parts == {r.part : r \in CardVolumes(b, c.run)}
    <3>1. ASSUME NEW q \in Contents(d), q.table = "geometry", q.bank = b, q.run = c.run
          PROVE  q.part \in parts
      <4>1. PICK r \in db : Serves(r, q) /\ r.label = "default"
        BY <2>2
      <4>. QED
        BY <3>1, <4>1 DEF Serves, CardVolumes
    <3>2. \E q \in Contents(d) : q.table = "geometry" /\ q.bank = b /\ q.run = c.run
      BY <2>1, CardsAssumption
    <3>3. ASSUME NEW r \in CardVolumes(b, c.run), NEW i \in 1 .. 2
          PROVE  <<r.part[1], i>> \in parts
      <4>1. r \in db /\ r.table = "geometry" /\ r.bank = b /\ r.run = c.run /\ b \in Owned(d)
        BY DEF CardVolumes, Owned
      <4>2. PICK q \in Contents(d) : Serves(r, q)
        BY <1>1, <4>1 DEF FinishedInv
      <4>3. q.table = "geometry" /\ q.part = r.part /\ q.bank = b /\ q.run = c.run
        BY <4>1, <4>2 DEF Serves
      <4>4. PICK p \in Contents(d) : Serves([q EXCEPT !.part = <<q.part[1], i>>], p)
        BY <2>1, <4>3, CardsAssumption
      <4>5. q \in [table : Tables, bank : Owned(d) \ Obsolete[d], label : Labels, run : Nat,
                   part : STRING \X (1 .. 2), mesh : {"none", "local"}]
        BY <2>1, ContentsTyped
      <4>6. p.table = "geometry" /\ p.bank = b /\ p.run = c.run /\ p.part = <<q.part[1], i>>
        BY <4>3, <4>4, <4>5 DEF Serves
      <4>. QED
        BY <3>1, <4>3, <4>6
    <3>4. parts # {}
      BY <3>1, <3>2
    <3>5. ASSUME NEW p \in parts PROVE {<<p[1], 1>>, <<p[1], 2>>} \subseteq parts
      <4>1. PICK r \in CardVolumes(b, c.run) : p = r.part
        OBVIOUS
      <4>. HIDE DEF parts
      <4>. QED
        BY <3>3, <4>1
    <3>. QED
      BY <3>4, <3>5
  <2>4. \E r \in db : r.table = "materials" /\ r.bank \in c.banks /\ r.run = c.run
    <3>1. PICK q \in Contents(d) : q.table = "materials" /\ q.bank \in c.banks /\ q.run = c.run
      BY <2>1, CardsAssumption
    <3>. QED
      BY <2>2, <3>1 DEF Serves
  <2>. QED
    BY <2>3, <2>4
<1>. QED
  BY <1>2, <1>3

-----------------------------------------------------------------------------
(* The script.                                                             *)

(* A driver's step leaves the rows of other detectors as they are.         *)
LEMMA DriverStepFrame ==
  ASSUME DatabaseInv, DriverStep
  PROVE  /\ driver # Nobody /\ driver \in detectors
         /\ UNCHANGED <<detectors, verdict>> /\ driver' \in {driver, Nobody}
         /\ \A d \in detectors \ {driver} : finished'[d] = finished[d]
         /\ Finish \/ finished' = finished
         /\ \A r \in (db \ db') \cup (db' \ db) : r.bank \in Owned(driver)
<1>. DEFINE s == Head(todo)
<1>1. DriverInv /\ WorkInv
  BY DEF DatabaseInv
<1>2. CASE ResetBank
  <2>1. /\ Doing("reset") /\ db' = {r \in db : r.bank \notin s.banks}
        /\ UNCHANGED <<detectors, driver, finished, verdict>>
    BY <1>2 DEF ResetBank, Does
  <2>2. driver # Nobody /\ driver \in detectors /\ s.banks \subseteq Owned(driver)
    BY <2>1, AtWork DEF OwnStep
  <2>. QED
    BY <2>1, <2>2
<1>3. CASE PublishRow
  <2>. DEFINE new == [table |-> s.row.table, bank |-> s.row.bank, label |-> s.row.label,
                      run |-> s.row.run, part |-> s.row.part, mesh |-> s.row.mesh, made |-> starts]
  <2>1. /\ Doing("publish") /\ db' = db \cup {new}
        /\ UNCHANGED <<detectors, driver, finished, verdict>>
    BY <1>3 DEF PublishRow, Does
  <2>2. driver # Nobody /\ driver \in detectors /\ driver \in DOMAIN Program /\ s.row \in Contents(driver)
    BY <2>1, AtWork DEF OwnStep, Contents
  <2>3. s.row.bank \in Owned(driver) /\ new.bank = s.row.bank
    BY <2>2, ContentsTyped
  <2>. HIDE DEF new, s
  <2>. QED
    BY <2>1, <2>2, <2>3
<1>4. CASE CopyTransverse
  <2>1. /\ Doing("copy")
        /\ db' = db \cup {[r EXCEPT !.run = n] : r \in CopySource(db), n \in OtherTransverse}
        /\ UNCHANGED <<detectors, driver, finished, verdict>>
    BY <1>4 DEF CopyTransverse, Does
  <2>2. driver # Nobody /\ driver \in detectors /\ "beamline" \in Owned(driver) /\ driver = "beamline"
    BY <2>1, AtWork DEF OwnStep
  <2>3. ASSUME NEW r \in CopySource(db), NEW n PROVE [r EXCEPT !.run = n].bank = "beamline"
    BY <1>1 DEF CopySource, DriverInv, Rows
  <2>4. ASSUME NEW r \in db', r \notin db PROVE r.bank = "beamline"
    <3>1. PICK o \in CopySource(db), n \in OtherTransverse : r = [o EXCEPT !.run = n]
      BY <2>1, <2>4
    <3>. QED
      BY <2>3, <3>1
  <2>5. \A r \in (db \ db') \cup (db' \ db) : r.bank \in Owned(driver)
    BY <2>1, <2>2, <2>4
  <2>. QED
    BY <2>1, <2>2, <2>5
<1>5. CASE IndexBank
  <2>. DEFINE b == s.bank
  <2>1. Doing("index") /\ ~Ambiguous(b)
    BY <1>5, NeverAmbiguous DEF IndexBank
  <2>2. /\ db' = (db \ Bank(b)) \cup {[r EXCEPT !.label = "default"] : r \in Bank(b)}
        /\ UNCHANGED <<detectors, driver, finished, verdict>>
    BY <1>5, <2>1 DEF IndexBank, Does
  <2>3. driver # Nobody /\ driver \in detectors /\ b \in Owned(driver)
    BY <2>1, AtWork DEF OwnStep
  <2>4. ASSUME NEW r \in Bank(b) PROVE r.bank = b /\ [r EXCEPT !.label = "default"].bank = b
    BY <1>1 DEF Bank, DriverInv, Rows
  <2>. HIDE DEF b
  <2>. QED
    BY <2>2, <2>3, <2>4 DEF Bank
<1>6. CASE Finish
  <2>1. /\ driver # Nobody /\ driver' = Nobody /\ UNCHANGED <<detectors, db, verdict>>
        /\ finished' = [finished EXCEPT ![driver] = starts]
    BY <1>6 DEF Finish
  <2>. QED
    BY <1>1, <1>6, <2>1, DriverFacts DEF DriverInv
<1>. QED
  BY <1>2, <1>3, <1>4, <1>5, <1>6 DEF DriverStep

(* An order of all detectors names each of them.                           *)
LEMMA OrdersNameAll ==
  ASSUME NEW S, IsFiniteSet(S), NEW s \in SetToSeqs(S)
  PROVE  s \in Seq(S) /\ Range(s) = S
<1>. DEFINE D == 1 .. Cardinality(S)
<1>1. Cardinality(S) \in Nat
  BY FS_CardinalityType
<1>2. s \in [D -> S] /\ \A i, j \in D : i # j => s[i] # s[j]
  BY DEF SetToSeqs
<1>3. s \in Seq(S)
  BY <1>1, <1>2
<1>4. s \in Injection(D, S)
  BY <1>2 DEF Injection, IsInjective
<1>5. Cardinality(D) = Cardinality(S)
  BY <1>1, FS_Interval
<1>6. s \in Surjection(D, S)
  BY <1>4, <1>5, FS_Injection
<1>7. Range(s) = S
  BY <1>2, <1>6 DEF Surjection, Range
<1>. QED
  BY <1>3, <1>7

(* Relocating the meshes changes the mesh of rows and nothing else.        *)
LEMMA RelocateRows ==
  ASSUME DatabaseInv, RelocateMeshes, driver = Nobody, Head(selection) \in detectors
  PROVE  /\ db' \subseteq Rows
         /\ \A r \in db : \E t \in db' :
              /\ \A q : Serves(t, q) <=> Serves(r, q)
              /\ t.table = r.table /\ t.bank = r.bank /\ t.run = r.run /\ t.part = r.part
              /\ t.label = r.label
         /\ \A t \in db' : \E r \in db :
              /\ \A q : Serves(t, q) <=> Serves(r, q)
              /\ t.bank = r.bank /\ t.run = r.run /\ t.label = r.label /\ t.made = r.made
              /\ r.mesh = "none" => t.mesh = "none"
              /\ t.mesh = "collected" => r.mesh = "collected" \/ MeshFile(t) \in meshes
              /\ t.bank \in Owned(Head(selection)) /\ Head(selection) \in StlMapped =>
                    stage' = "failed" \/ t.mesh # "local"
              /\ t.bank \notin Owned(Head(selection)) => t = r
<1>. DEFINE d == Head(selection)
            moved(r) == [r EXCEPT !.mesh = "collected"]
<1>1. db \subseteq Rows
  BY DEF DatabaseInv, DriverInv
<1>2. /\ db' = IF d \in StlMapped /\ stage' # "failed"
                THEN (db \ LocalMeshes(d)) \cup {moved(r) : r \in LocalMeshes(d)} ELSE db
      /\ d \in StlMapped /\ stage' # "failed" => \A r \in LocalMeshes(d) : MeshFile(r) \in meshes
  <2>. DEFINE local == IF d \in StlMapped THEN LocalMeshes(d) ELSE {}
  <2>1. \/ stage' = "failed" /\ db' = db
        \/ /\ \A r \in local : MeshFile(r) \in meshes
           /\ db' = (db \ local) \cup {moved(r) : r \in local}
    BY DEF RelocateMeshes
  <2>2. stage' = "failed" => db' = db
    BY DEF RelocateMeshes
  <2>3. local = {} => (db \ local) \cup {moved(r) : r \in local} = db
    OBVIOUS
  <2>. HIDE DEF moved
  <2>. QED
    BY <2>1, <2>2, <2>3
<1>3. ASSUME NEW r \in LocalMeshes(d)
      PROVE  /\ r \in db /\ r.bank \in Owned(d) /\ r.mesh = "local" /\ moved(r) \in Rows
             /\ moved(r).table = r.table /\ moved(r).bank = r.bank /\ moved(r).run = r.run
             /\ moved(r).part = r.part /\ moved(r).label = r.label /\ moved(r).made = r.made
             /\ moved(r).mesh = "collected" /\ MeshFile(moved(r)) = MeshFile(r)
  <2>1. r \in db /\ r.bank \in Owned(d) /\ r.mesh = "local" /\ r \in Rows
    BY <1>1 DEF LocalMeshes
  <2>. QED
    BY <2>1 DEF Rows, MeshFile
<1>4. \A r \in db : r \in LocalMeshes(d) <=> r.bank \in Owned(d) /\ r.mesh = "local"
  BY DEF LocalMeshes
<1>. HIDE DEF moved, d
<1>5. \A r \in LocalMeshes(d) : \A q : Serves(moved(r), q) <=> Serves(r, q)
  BY <1>3 DEF Serves
<1>6. db' \subseteq Rows
  BY <1>1, <1>2, <1>3
<1>7. ASSUME NEW r \in db
      PROVE  \E t \in db' : /\ \A q : Serves(t, q) <=> Serves(r, q)
                            /\ t.table = r.table /\ t.bank = r.bank /\ t.run = r.run /\ t.part = r.part
                            /\ t.label = r.label
  <2>1. CASE d \in StlMapped /\ stage' # "failed" /\ r \in LocalMeshes(d)
    BY <1>2, <1>3, <1>5, <2>1
  <2>2. CASE d \notin StlMapped \/ stage' = "failed" \/ r \notin LocalMeshes(d)
    BY <1>2, <2>2
  <2>. QED
    BY <2>1, <2>2
<1>8. ASSUME NEW t \in db'
      PROVE  \E r \in db :
              /\ \A q : Serves(t, q) <=> Serves(r, q)
              /\ t.bank = r.bank /\ t.run = r.run /\ t.label = r.label /\ t.made = r.made
              /\ r.mesh = "none" => t.mesh = "none"
              /\ t.mesh = "collected" => r.mesh = "collected" \/ MeshFile(t) \in meshes
              /\ t.bank \in Owned(d) /\ d \in StlMapped => stage' = "failed" \/ t.mesh # "local"
              /\ t.bank \notin Owned(d) => t = r
  <2>1. CASE t \in db /\ (d \notin StlMapped \/ stage' = "failed" \/ t \notin LocalMeshes(d))
    BY <1>4, <2>1
  <2>2. CASE ~(t \in db /\ (d \notin StlMapped \/ stage' = "failed" \/ t \notin LocalMeshes(d)))
    <3>1. d \in StlMapped /\ stage' # "failed" /\ \E r \in LocalMeshes(d) : t = moved(r)
      BY <1>2, <2>2
    <3>2. PICK r \in LocalMeshes(d) : t = moved(r)
      BY <3>1
    <3>. QED
      BY <1>2, <1>3, <1>5, <3>1, <3>2
  <2>. QED
    BY <2>1, <2>2
<1>. QED
  BY <1>6, <1>7, <1>8 DEF d

(* ... so that all that is known of the database remains so.               *)
LEMMA RelocateKeeps ==
  ASSUME DatabaseInv, RelocateMeshes, driver = Nobody, Head(selection) \in detectors
  PROVE  DatabaseInv'
<1>1. DriverInv /\ FinishedInv /\ AgeInv /\ WholeInv /\ PassedCheckSawWholeBanks
  BY DEF DatabaseInv
<1>2. UNCHANGED <<detectors, driver, todo, starts, finished, aborted, verdict>>
  BY DEF RelocateMeshes
<1>. DEFINE Same(r, t) == \A q : Serves(t, q) <=> Serves(r, q)
<1>3. db' \subseteq Rows
  BY RelocateRows
<1>4. ASSUME NEW r \in db
      PROVE  \E t \in db' : /\ Same(r, t) /\ t.table = r.table /\ t.bank = r.bank /\ t.run = r.run
                            /\ t.part = r.part /\ t.label = r.label
  BY RelocateRows
<1>5. ASSUME NEW t \in db'
      PROVE  \E r \in db : /\ Same(r, t) /\ t.bank = r.bank /\ t.run = r.run /\ t.label = r.label
                           /\ t.made = r.made /\ (r.mesh = "none" => t.mesh = "none")
  BY RelocateRows
<1>6. DriverInv' /\ WorkInv'
  BY <1>1, <1>2, <1>3 DEF DriverInv, WorkInv
<1>7. FinishedInv'
  <2>. SUFFICES ASSUME NEW d \in detectors, finished[d] > 0
                PROVE  /\ \A r \in db' : r.bank \in Owned(d) =>
                            /\ r.made = finished[d] /\ r.label = "default"
                            /\ \E q \in Contents(d) : Serves(r, q) /\ (q.mesh = "none" => r.mesh = "none")
                       /\ \A q \in Contents(d) : \E r \in db' : Serves(r, q)
    BY <1>2 DEF FinishedInv
  <2>1. ASSUME NEW t \in db', t.bank \in Owned(d)
        PROVE  /\ t.made = finished[d] /\ t.label = "default"
               /\ \E q \in Contents(d) : Serves(t, q) /\ (q.mesh = "none" => t.mesh = "none")
    <3>1. PICK r \in db : /\ Same(r, t) /\ t.bank = r.bank /\ t.run = r.run /\ t.label = r.label
                          /\ t.made = r.made /\ (r.mesh = "none" => t.mesh = "none")
      BY <1>5
    <3>2. /\ r.made = finished[d] /\ r.label = "default"
          /\ \E q \in Contents(d) : Serves(r, q) /\ (q.mesh = "none" => r.mesh = "none")
      BY <1>1, <2>1, <3>1 DEF FinishedInv
    <3>. QED
      BY <3>1, <3>2
  <2>2. ASSUME NEW q \in Contents(d) PROVE \E r \in db' : Serves(r, q)
    <3>1. PICK r \in db : Serves(r, q)
      BY <1>1 DEF FinishedInv
    <3>. QED
      BY <1>4, <3>1
  <2>. QED
    BY <2>1, <2>2
<1>8. WholeInv'
  <2>. SUFFICES ASSUME NEW d \in detectors, NEW b \in Owned(d)
                PROVE  Settled(db', d, b)
    BY <1>2 DEF WholeInv
  <2>1. CASE Whole(db, d, b)
    <3>1. ASSUME NEW q \in Contents(d), q.bank = b
          PROVE  \E t \in db' : Serves(t, q) /\ t.label = "default"
      <4>1. PICK r \in db : Serves(r, q) /\ r.label = "default"
        BY <2>1, <3>1 DEF Whole
      <4>. QED
        BY <1>4, <4>1
    <3>. QED
      BY <3>1 DEF Whole, Settled
  <2>2. CASE Unindexed(db, b)
    BY <1>5, <2>2 DEF Unindexed, Settled
  <2>3. CASE \A r \in db : r.bank = b => r.made = 0
    BY <1>5, <2>3 DEF Settled
  <2>. QED
    BY <1>1, <2>1, <2>2, <2>3 DEF WholeInv, Settled
<1>10. AgeInv'
  BY <1>1, <1>2, <1>5 DEF AgeInv, Older
<1>9. PassedCheckSawWholeBanks'
  <2>1. ASSUME NEW b, NEW run, NEW r \in CardVolumes(b, run)
        PROVE  \E t \in CardVolumes(b, run)' : t.part = r.part
    <3>1. r \in db
      BY DEF CardVolumes
    <3>2. PICK t \in db' : /\ t.table = r.table /\ t.bank = r.bank /\ t.run = r.run
                           /\ t.part = r.part /\ t.label = r.label
      BY <1>4, <3>1
    <3>. QED
      BY <3>2 DEF CardVolumes
  <2>2. \A d : Older(db, d) => Older(db', d)
    BY <1>5 DEF Older
  <2>. QED
    BY <1>1, <1>2, <2>1, <2>2 DEF PassedCheckSawWholeBanks
<1>. QED
  BY <1>6, <1>7, <1>8, <1>9, <1>10 DEF DatabaseInv

-----------------------------------------------------------------------------
(* The invariant of database and script together.                          *)
GeometryInv == DatabaseInv /\ CollectInv

(* The tables as an older checkout left them.                              *)
LEMMA GeometryInit == Init => GeometryInv
<1>. SUFFICES ASSUME Init PROVE GeometryInv
  OBVIOUS
<1>. USE DEF Init, DbInit
<1>1. \A r \in db : r \in Rows /\ r.made = 0
  BY GroupsAssumption
<1>2. DriverInv
  BY <1>1 DEF DriverInv
<1>3. WorkInv /\ FinishedInv
  BY DEF WorkInv, FinishedInv
<1>4. AgeInv /\ WholeInv
  BY <1>1 DEF AgeInv, Older, WholeInv, Settled
<1>5. PassedCheckSawWholeBanks
  BY DEF PassedCheckSawWholeBanks, NoVerdict
<1>6. ScriptInv /\ CollectedInv
  BY DEF ScriptInv, CollectedInv, Collecting
<1>7. InstalledMeshesExist
  BY DEF InstalledMeshesExist, NotInstalled
<1>. QED
  BY <1>2, <1>3, <1>4, <1>5, <1>6, <1>7 DEF GeometryInv, DatabaseInv, CollectInv

(* What only the database knows is untouched by the rest of the script.    *)
LEMMA SameDatabase ==
  ASSUME DatabaseInv, UNCHANGED dbVars
  PROVE  DatabaseInv'
<1>1. DriverInv /\ WorkInv /\ FinishedInv /\ AgeInv /\ WholeInv /\ PassedCheckSawWholeBanks
  BY DEF DatabaseInv
<1>2. DriverInv' /\ WorkInv'
  BY <1>1 DEF DriverInv, WorkInv, dbVars
<1>3. FinishedInv' /\ AgeInv' /\ WholeInv' /\ PassedCheckSawWholeBanks'
  BY <1>1 DEF FinishedInv, AgeInv, WholeInv, PassedCheckSawWholeBanks, CardVolumes, dbVars
<1>. QED
  BY <1>2, <1>3 DEF DatabaseInv

(* An installation is only as good as on the day it was made.              *)
LEMMA SameInstallation ==
  ASSUME InstalledMeshesExist, UNCHANGED <<installed, detectors>>
  PROVE  InstalledMeshesExist'
  BY DEF InstalledMeshesExist

(* The selection, from its front.                                          *)
LEMMA SelectionFront ==
  ASSUME NEW S, NEW s \in Seq(S), s # <<>>
  PROVE  /\ Head(s) \in S /\ Head(s) \in Range(s) /\ Tail(s) \in Seq(S)
         /\ \A d \in Range(s) : d = Head(s) \/ d \in Range(Tail(s))
<1>1. /\ Len(s) \in Nat \ {0} /\ DOMAIN s = 1 .. Len(s) /\ Head(s) = s[1]
      /\ Tail(s) \in Seq(S) /\ Len(Tail(s)) = Len(s) - 1
      /\ DOMAIN Tail(s) = 1 .. Len(Tail(s))
      /\ \A i \in 1 .. Len(Tail(s)) : Tail(s)[i] = s[i + 1]
  OBVIOUS
<1>2. ASSUME NEW d \in Range(s) PROVE d = Head(s) \/ d \in Range(Tail(s))
  <2>1. PICK i \in 1 .. Len(s) : d = s[i]
    BY <1>1 DEF Range
  <2>2. i = 1 \/ (i - 1 \in 1 .. Len(Tail(s)) /\ Tail(s)[i - 1] = s[i])
    BY <1>1
  <2>. QED
    BY <1>1, <2>1, <2>2 DEF Range
<1>. QED
  BY <1>1, <1>2 DEF Range

(* The drivers at work, for the script or on their own.                    *)
LEMMA DriverStepsKeep ==
  ASSUME GeometryInv, DriverSteps
  PROVE  GeometryInv'
<1>1. /\ DatabaseInv /\ ScriptInv /\ CollectedInv /\ InstalledMeshesExist
      /\ DriverStep /\ stage \in {"off", "driving"} /\ UNCHANGED collectVars
  BY DEF GeometryInv, CollectInv, DriverSteps
<1>2. DatabaseInv'
  BY <1>1, DriverStepKeeps
<1>3. /\ driver # Nobody /\ driver \in detectors
      /\ UNCHANGED <<detectors, verdict>> /\ driver' \in {driver, Nobody}
      /\ \A d \in detectors \ {driver} : finished'[d] = finished[d]
      /\ Finish \/ finished' = finished
      /\ \A r \in (db \ db') \cup (db' \ db) : r.bank \in Owned(driver)
  BY <1>1, DriverStepFrame
<1>4. UNCHANGED <<stage, selection, meshes, installed, collects>>
  BY <1>1 DEF collectVars
<1>5. ScriptInv'
  <2>1. ASSUME stage = "driving", finished'[Head(selection)] > 0,
               NEW r \in db', r.bank \in Owned(Head(selection))
        PROVE  r.mesh # "collected"
    <3>1. driver = Head(selection) /\ finished[driver] = 0
      BY <1>1, <1>3, <2>1 DEF ScriptInv, DatabaseInv, DriverInv
    <3>2. Finish
      BY <1>3, <2>1, <3>1
    <3>3. r \in db /\ ~ResetAhead(todo, r.bank)
      BY <2>1, <3>2 DEF Finish, ResetAhead
    <3>4. PICK q \in Contents(driver) : r.mesh = q.mesh
      BY <1>1, <1>3, <2>1, <3>1, <3>3 DEF DatabaseInv, WorkInv
    <3>5. q.mesh \in {"none", "local"}
      BY <1>1, <1>3, DriverFacts, ContentsTyped DEF DatabaseInv
    <3>. QED
      BY <3>4, <3>5
  <2>. QED
    BY <1>1, <1>3, <1>4, <2>1 DEF ScriptInv, Collecting
<1>6. CollectedInv'
  <2>. SUFFICES ASSUME stage = "driving", NEW d \in detectors \ Range(selection)
                PROVE  /\ finished'[d] > 0
                       /\ \A r \in db' : r.bank \in Owned(d) /\ r.mesh # "none" =>
                             r.mesh = "collected" /\ MeshFile(r) \in meshes
    BY <1>1, <1>3, <1>4 DEF CollectedInv, Collecting
  <2>1. driver = Head(selection) /\ selection \in Seq(detectors) /\ selection # <<>>
    BY <1>1, <1>3 DEF ScriptInv, Collecting
  <2>2. d # driver
    BY <2>1, SelectionFront
  <2>3. /\ finished[d] > 0
        /\ \A r \in db : r.bank \in Owned(d) /\ r.mesh # "none" => r.mesh = "collected" /\ MeshFile(r) \in meshes
    BY <1>1 DEF CollectedInv, Collecting
  <2>4. Owned(d) \cap Owned(driver) = {}
    BY <1>1, <1>3, <2>2, DriverFacts DEF DatabaseInv
  <2>5. \A r \in db' : r.bank \in Owned(d) => r \in db
    BY <1>3, <2>4
  <2>. QED
    BY <1>3, <2>2, <2>3, <2>5
<1>7. InstalledMeshesExist'
  BY <1>1, <1>3, <1>4, SameInstallation
<1>. QED
  BY <1>2, <1>5, <1>6, <1>7 DEF GeometryInv, CollectInv

(* The geometry tests, which start, kill and check drivers.                *)
LEMMA TestsKeep ==
  ASSUME GeometryInv, Tests
  PROVE  GeometryInv'
<1>1. /\ DatabaseInv /\ ScriptInv /\ CollectedInv /\ InstalledMeshesExist
      /\ stage = "off" /\ UNCHANGED <<stage, selection, meshes, installed, collects>>
      /\ Killed \/ \E d \in detectors : Start(d) \/ Check(d)
  BY DEF GeometryInv, CollectInv, Tests, collectVars
<1>2. DatabaseInv' /\ UNCHANGED detectors
  <2>1. CASE Killed
    BY <1>1, <2>1, KilledKeeps DEF Killed
  <2>2. ASSUME NEW d \in detectors, Start(d) PROVE DatabaseInv' /\ UNCHANGED detectors
    BY <1>1, <2>2, StartKeeps DEF Start
  <2>3. ASSUME NEW d \in detectors, Check(d) PROVE DatabaseInv' /\ UNCHANGED detectors
    BY <1>1, <2>3, CheckKeeps DEF Check
  <2>. QED
    BY <1>1, <2>1, <2>2, <2>3
<1>3. ScriptInv' /\ CollectedInv'
  BY <1>1 DEF ScriptInv, CollectedInv, Collecting
<1>4. InstalledMeshesExist'
  BY <1>1, <1>2, SameInstallation
<1>. QED
  BY <1>2, <1>3, <1>4 DEF GeometryInv, CollectInv

(* A run of the script begins with nothing collected and no database.      *)
LEMMA SelectKeeps ==
  ASSUME GeometryInv, NEW s \in SetToSeqs(detectors), NEW known \in BOOLEAN, Select(s, known)
  PROVE  GeometryInv'
<1>1. DatabaseInv /\ ScriptInv /\ InstalledMeshesExist /\ DriverInv
  BY DEF GeometryInv, CollectInv, DatabaseInv
<1>2. /\ driver = Nobody /\ db' = {} /\ verdict' = NoVerdict
      /\ finished' = [d \in detectors |-> 0] /\ selection' = s
      /\ stage' = IF known THEN "drive" ELSE "failed"
      /\ UNCHANGED <<detectors, driver, todo, starts, aborted, meshes, installed>>
  BY DEF Select
<1>3. s \in Seq(detectors) /\ Range(s) = detectors
  BY <1>1, DriverFacts, OrdersNameAll
<1>4. DriverInv'
  BY <1>1, <1>2 DEF DriverInv
<1>5. WorkInv' /\ FinishedInv' /\ AgeInv' /\ WholeInv'
  BY <1>2 DEF WorkInv, FinishedInv, AgeInv, Older, WholeInv, Settled, Unindexed
<1>6. PassedCheckSawWholeBanks'
  BY <1>2 DEF PassedCheckSawWholeBanks, NoVerdict
<1>7. ScriptInv'
  BY <1>2, <1>3 DEF ScriptInv, Collecting
<1>8. CollectedInv'
  BY <1>2, <1>3 DEF CollectedInv
<1>9. InstalledMeshesExist'
  BY <1>1, <1>2, SameInstallation
<1>. QED
  BY <1>4, <1>5, <1>6, <1>7, <1>8, <1>9 DEF GeometryInv, DatabaseInv, CollectInv

(* The script starts the next driver.                                      *)
LEMMA DriveKeeps ==
  ASSUME GeometryInv, Drive
  PROVE  GeometryInv'
<1>1. DatabaseInv /\ ScriptInv /\ CollectedInv /\ InstalledMeshesExist /\ DriverInv
  BY DEF GeometryInv, CollectInv, DatabaseInv
<1>2. /\ stage = "drive" /\ selection # <<>> /\ Start(Head(selection)) /\ stage' = "driving"
      /\ UNCHANGED <<selection, meshes, installed, collects>>
  BY DEF Drive
<1>3. selection \in Seq(detectors) /\ Head(selection) \in detectors /\ Head(selection) \in Range(selection)
  BY <1>1, <1>2, SelectionFront DEF ScriptInv, Collecting
<1>4. DatabaseInv'
  BY <1>1, <1>2, <1>3, StartKeeps
<1>5. /\ driver' = Head(selection) /\ finished' = [finished EXCEPT ![Head(selection)] = 0]
      /\ UNCHANGED <<detectors, db>>
  BY <1>2 DEF Start
<1>6. ScriptInv'
  <2>1. finished'[Head(selection)] = 0
    BY <1>1, <1>3, <1>5 DEF DriverInv
  <2>. QED
    BY <1>2, <1>3, <1>5, <2>1 DEF ScriptInv, Collecting
<1>7. CollectedInv'
  <2>1. \A d \in detectors \ Range(selection) : finished'[d] = finished[d]
    BY <1>1, <1>3, <1>5 DEF DriverInv
  <2>. QED
    BY <1>1, <1>2, <1>5, <2>1 DEF CollectedInv, Collecting
<1>8. InstalledMeshesExist'
  BY <1>1, <1>2, <1>5, SameInstallation
<1>. QED
  BY <1>4, <1>6, <1>7, <1>8 DEF GeometryInv, CollectInv

(* Steps of the script beside the database.                                *)
LEMMA ScriptStepsKeep ==
  ASSUME GeometryInv,
         DriverEnds \/ Erase \/ CopyMeshes \/ \E whole \in BOOLEAN : CopyExperiments(whole)
  PROVE  GeometryInv'
<1>1. DatabaseInv /\ ScriptInv /\ CollectedInv /\ InstalledMeshesExist /\ DriverInv
  BY DEF GeometryInv, CollectInv, DatabaseInv
<1>2. UNCHANGED dbVars
  BY DEF DriverEnds, Erase, CopyMeshes, CopyExperiments
<1>3. DatabaseInv'
  BY <1>1, <1>2, SameDatabase
<1>4. UNCHANGED <<detectors, db, driver, finished>>
  BY <1>2 DEF dbVars
<1>5. CASE DriverEnds
  <2>1. /\ stage = "driving" /\ driver = Nobody /\ UNCHANGED <<selection, meshes, installed>>
        /\ stage' \in {"meshes", "failed"} /\ (stage' = "meshes" => finished[Head(selection)] > 0)
    BY <1>5 DEF DriverEnds
  <2>2. ScriptInv' /\ CollectedInv'
    BY <1>1, <1>4, <2>1 DEF ScriptInv, CollectedInv, Collecting
  <2>. QED
    BY <1>1, <1>3, <1>4, <2>1, <2>2, SameInstallation DEF GeometryInv, CollectInv
<1>6. CASE Erase
  <2>1. stage = "erase" /\ stage' = "copy" /\ installed' = NotInstalled /\ UNCHANGED <<selection, meshes>>
    BY <1>6 DEF Erase
  <2>2. ScriptInv' /\ CollectedInv'
    BY <1>1, <1>4, <2>1 DEF ScriptInv, CollectedInv, Collecting
  <2>3. InstalledMeshesExist'
    BY <2>1 DEF InstalledMeshesExist, NotInstalled
  <2>. QED
    BY <1>3, <2>2, <2>3 DEF GeometryInv, CollectInv
<1>7. CASE CopyMeshes
  <2>. DEFINE d == Head(selection)
  <2>1. /\ stage = "meshes" /\ stage' \in {"paths", "failed"} /\ UNCHANGED <<selection, installed>>
        /\ meshes \ MeshFiles(d) \subseteq meshes'
    BY <1>7 DEF CopyMeshes
  <2>2. ScriptInv'
    BY <1>1, <1>4, <2>1 DEF ScriptInv, Collecting
  <2>3. selection \in Seq(detectors) /\ selection # <<>>
    BY <1>1, <2>1 DEF ScriptInv, Collecting
  <2>4. d \in detectors /\ d \in Range(selection)
    BY <2>3, SelectionFront
  <2>5. ASSUME NEW e \in detectors \ Range(selection), NEW r \in db, r.bank \in Owned(e)
        PROVE  MeshFile(r) \notin MeshFiles(d)
    <3>1. ASSUME NEW q \in Published(d), MeshFile(r) = MeshFile(q) PROVE FALSE
      <4>1. r.bank = q.bank /\ q \in Contents(d)
        BY <3>1 DEF MeshFile, Contents
      <4>2. q.bank \in Owned(d)
        BY <1>1, <2>4, <4>1, DriverFacts, ContentsTyped
      <4>. QED
        BY <1>1, <2>4, <2>5, <4>1, <4>2, DriverFacts
    <3>. QED
      BY <3>1 DEF MeshFiles
  <2>6. CollectedInv'
    BY <1>1, <1>4, <2>1, <2>5 DEF CollectedInv, Collecting
  <2>. QED
    BY <1>1, <1>3, <1>4, <2>1, <2>2, <2>6, SameInstallation DEF GeometryInv, CollectInv
<1>8. ASSUME NEW whole \in BOOLEAN, CopyExperiments(whole) PROVE GeometryInv'
  <2>1. /\ stage = "copy" /\ stage' \in {"done", "failed"} /\ UNCHANGED <<selection, meshes>>
        /\ installed' = [rows |-> IF whole THEN db ELSE {}, meshes |-> meshes, whole |-> whole]
    BY <1>8 DEF CopyExperiments
  <2>2. ScriptInv' /\ CollectedInv'
    BY <1>1, <1>4, <2>1 DEF ScriptInv, CollectedInv, Collecting
  <2>3. InstalledMeshesExist'
    <3>. SUFFICES ASSUME whole, NEW d \in detectors
                  PROVE  /\ \A r \in db : r.bank \in Owned(d) /\ r.mesh # "none" =>
                               r.mesh = "collected" /\ MeshFile(r) \in meshes
                         /\ \A c \in Cards(d) : \A b \in c.banks :
                               \E r \in db : /\ r.table = "geometry" /\ r.bank = b
                                             /\ r.label = "default" /\ r.run = c.run
      BY <1>4, <2>1 DEF InstalledMeshesExist
    <3>1. d \notin Range(selection)
      BY <1>1, <2>1 DEF ScriptInv, Range
    <3>2. /\ finished[d] > 0
          /\ \A r \in db : r.bank \in Owned(d) /\ r.mesh # "none" => r.mesh = "collected" /\ MeshFile(r) \in meshes
      BY <1>1, <2>1, <3>1 DEF CollectedInv, Collecting
    <3>3. ASSUME NEW c \in Cards(d), NEW b \in c.banks
          PROVE  \E r \in db : /\ r.table = "geometry" /\ r.bank = b
                               /\ r.label = "default" /\ r.run = c.run
      <4>1. \E r \in CardVolumes(b, c.run) : TRUE
        BY <1>1, <3>2, FreshAndServed DEF FinishedBanksServeCards
      <4>. QED
        BY <4>1 DEF CardVolumes
    <3>. QED
      BY <3>2, <3>3
  <2>. QED
    BY <1>3, <2>2, <2>3 DEF GeometryInv, CollectInv
<1>. QED
  BY <1>5, <1>6, <1>7, <1>8

(* The detector that was relocated joins those the script is done with.    *)
LEMMA RelocateInv ==
  ASSUME GeometryInv, RelocateMeshes
  PROVE  GeometryInv'
<1>. DEFINE d == Head(selection)
<1>1. DatabaseInv /\ ScriptInv /\ CollectedInv /\ InstalledMeshesExist /\ DriverInv /\ FinishedInv
  BY DEF GeometryInv, CollectInv, DatabaseInv
<1>2. /\ stage = "paths"
      /\ \/ stage' = "failed" /\ selection' = selection
         \/ /\ selection' = Tail(selection)
            /\ stage' = IF Tail(selection) = <<>> THEN "erase" ELSE "drive"
      /\ UNCHANGED <<detectors, driver, finished, meshes, installed>>
      /\ d \notin StlMapped => db' = db
  BY DEF RelocateMeshes
<1>3. /\ driver = Nobody /\ selection \in Seq(detectors) /\ selection # <<>> /\ finished[d] > 0
      /\ \A r \in db : r.bank \in Owned(d) => r.mesh # "collected"
  BY <1>1, <1>2 DEF ScriptInv, Collecting
<1>4. /\ d \in detectors /\ Tail(selection) \in Seq(detectors)
      /\ \A e \in Range(selection) : e = d \/ e \in Range(Tail(selection))
  BY <1>3, SelectionFront
<1>5. DatabaseInv'
  BY <1>1, <1>3, <1>4, RelocateKeeps
<1>6. /\ db' \subseteq Rows
      /\ \A t \in db' : \E r \in db :
            /\ t.bank = r.bank
            /\ t.mesh = "collected" => r.mesh = "collected" \/ MeshFile(t) \in meshes
            /\ t.bank \in Owned(d) /\ d \in StlMapped => stage' = "failed" \/ t.mesh # "local"
            /\ t.bank \notin Owned(d) => t = r
  BY <1>1, <1>3, <1>4, RelocateRows
<1>7. ScriptInv'
  BY <1>1, <1>2, <1>3, <1>4 DEF ScriptInv, Collecting
<1>8. /\ d \in DOMAIN Program
      /\ \A e \in detectors \ {d} : Owned(e) \cap Owned(d) = {}
  BY <1>1, <1>4, DriverFacts
<1>. HIDE DEF d
<1>9. ASSUME stage' # "failed", NEW t \in db', t.bank \in Owned(d), t.mesh # "none"
      PROVE  t.mesh = "collected" /\ MeshFile(t) \in meshes
  <2>1. t.mesh \in {"none", "local", "collected"}
    BY <1>6 DEF Rows
  <2>2. CASE d \in StlMapped
    BY <1>3, <1>6, <1>9, <2>1, <2>2
  <2>3. CASE d \notin StlMapped
    <3>1. \E q \in Contents(d) : q.mesh = "none" => t.mesh = "none"
      BY <1>1, <1>2, <1>3, <1>4, <1>9, <2>3 DEF FinishedInv
    <3>2. \A q \in Contents(d) : q.mesh = "none"
      BY <1>8, <2>3, MeshAssumption
    <3>. QED
      BY <1>9, <3>1, <3>2
  <2>. QED
    BY <2>2, <2>3
<1>10. ASSUME NEW e \in detectors \ Range(Tail(selection)), e # d
       PROVE  /\ finished[e] > 0
              /\ \A t \in db' : t.bank \in Owned(e) /\ t.mesh # "none" =>
                    t.mesh = "collected" /\ MeshFile(t) \in meshes
  <2>1. e \in detectors \ Range(selection)
    BY <1>4, <1>10
  <2>2. /\ finished[e] > 0
        /\ \A r \in db : r.bank \in Owned(e) /\ r.mesh # "none" =>
              r.mesh = "collected" /\ MeshFile(r) \in meshes
    BY <1>1, <1>2, <2>1 DEF CollectedInv, Collecting
  <2>3. \A t \in db' : t.bank \in Owned(e) => t \in db
    BY <1>6, <1>8, <1>10
  <2>. QED
    BY <2>2, <2>3
<1>11. CollectedInv'
  BY <1>2, <1>3, <1>9, <1>10 DEF CollectedInv, Collecting
<1>12. InstalledMeshesExist'
  BY <1>1, <1>2, SameInstallation
<1>. QED
  BY <1>5, <1>7, <1>11, <1>12 DEF GeometryInv, CollectInv

(* A script that dies takes its driver with it.                            *)
LEMMA ScriptKilledKeeps ==
  ASSUME GeometryInv, ScriptKilled
  PROVE  GeometryInv'
<1>1. DatabaseInv /\ InstalledMeshesExist
  BY DEF GeometryInv, CollectInv
<1>2. /\ stage' = "failed" /\ driver' = Nobody
      /\ UNCHANGED <<detectors, db, starts, finished, aborted, verdict, installed>>
  BY DEF ScriptKilled
<1>3. DatabaseInv'
  BY <1>1, <1>2, KilledKeeps
<1>4. ScriptInv' /\ CollectedInv'
  BY <1>2 DEF ScriptInv, CollectedInv, Collecting
<1>5. InstalledMeshesExist'
  BY <1>1, <1>2, SameInstallation
<1>. QED
  BY <1>3, <1>4, <1>5 DEF GeometryInv, CollectInv

(* Nothing happens.                                                        *)
LEMMA GeometryStutters ==
  ASSUME GeometryInv, UNCHANGED vars
  PROVE  GeometryInv'
<1>1. DatabaseInv /\ ScriptInv /\ CollectedInv /\ InstalledMeshesExist
  BY DEF GeometryInv, CollectInv
<1>2. UNCHANGED dbVars /\ UNCHANGED collectVars
  BY DEF vars
<1>3. /\ UNCHANGED <<detectors, db, driver, finished>>
      /\ UNCHANGED <<stage, selection, meshes, installed>>
  BY <1>2 DEF dbVars, collectVars
<1>4. DatabaseInv'
  BY <1>1, <1>2, SameDatabase
<1>5. ScriptInv' /\ CollectedInv'
  BY <1>1, <1>3 DEF ScriptInv, CollectedInv, Collecting
<1>6. InstalledMeshesExist'
  BY <1>1, <1>3, SameInstallation
<1>. QED
  BY <1>4, <1>5, <1>6 DEF GeometryInv, CollectInv

(* Every state that drivers, tests and the script lead to, in any order    *)
(* and killed at will.                                                     *)
LEMMA GeometryInvHolds == Spec => []GeometryInv
<1>1. GeometryInv /\ [Next]_vars => GeometryInv'
  <2>. SUFFICES ASSUME GeometryInv, [Next]_vars PROVE GeometryInv'
    OBVIOUS
  <2>1. CASE UNCHANGED vars
    BY <2>1, GeometryStutters
  <2>2. CASE Tests \/ DriverSteps \/ Drive
    BY <2>2, TestsKeep, DriverStepsKeep, DriveKeeps
  <2>3. CASE DriverEnds \/ Erase \/ CopyMeshes \/ \E whole \in BOOLEAN : CopyExperiments(whole)
    BY <2>3, ScriptStepsKeep
  <2>4. CASE RelocateMeshes \/ ScriptKilled
    BY <2>4, RelocateInv, ScriptKilledKeeps
  <2>5. ASSUME NEW s \in SetToSeqs(detectors), NEW known \in BOOLEAN, Select(s, known)
        PROVE  GeometryInv'
    BY <2>5, SelectKeeps
  <2>. QED
    BY <2>1, <2>2, <2>3, <2>4, <2>5 DEF Next
<1>. QED
  BY <1>1, GeometryInit, PTL DEF Spec

-----------------------------------------------------------------------------
(* A driver that ran to its end left only rows of its own, selected by run *)
(* and in no retired bank, over whatever killed drivers and older          *)
(* checkouts had left, and no driver was ever stopped by an ambiguous run. *)
THEOREM BanksAreFresh == Spec => []FinishedBanksAreFresh
<1>1. GeometryInv => FinishedBanksAreFresh
  BY FreshAndServed DEF GeometryInv
<1>. QED
  BY <1>1, GeometryInvHolds, PTL

(* ... and all that the steering cards of its detector load, whole.        *)
THEOREM BanksServeCards == Spec => []FinishedBanksServeCards
<1>1. GeometryInv => FinishedBanksServeCards
  BY FreshAndServed DEF GeometryInv
<1>. QED
  BY <1>1, GeometryInvHolds, PTL

(* A construction check that passed over rows of a driver of this checkout *)
(* saw every volume that driver publishes for the cards, although drivers  *)
(* may have died anywhere before it and over whatever older checkouts had  *)
(* left; of a detector that has only an older checkout's rows it says      *)
(* nothing.                                                                *)
THEOREM ChecksSawWholeBanks == Spec => []PassedCheckSawWholeBanks
<1>1. GeometryInv => PassedCheckSawWholeBanks
  BY DEF GeometryInv, DatabaseInv
<1>. QED
  BY <1>1, GeometryInvHolds, PTL

(* A directory that was installed whole has the volumes every card of its  *)
(* detectors loads, and the meshes those volumes name.                     *)
THEOREM InstallationsAreWhole == Spec => []InstalledMeshesExist
<1>1. GeometryInv => InstalledMeshesExist
  BY DEF GeometryInv, CollectInv
<1>. QED
  BY <1>1, GeometryInvHolds, PTL

(* While a driver runs, nothing in the database changes but the rows of    *)
(* its own banks, whatever else shares the tables.                         *)
THEOREM OthersBanksAreKept == Spec => OthersBanksStay
<1>. DEFINE OthersStay == driver # Nobody =>
                \A r \in (db \ db') \cup (db' \ db) : r.bank \in Owned(driver)
<1>1. ASSUME GeometryInv, [Next]_vars PROVE [OthersStay]_db
  <2>. SUFFICES ASSUME driver # Nobody, db' # db
                PROVE  \A r \in (db \ db') \cup (db' \ db) : r.bank \in Owned(driver)
    OBVIOUS
  <2>1. DatabaseInv /\ ScriptInv
    BY <1>1 DEF GeometryInv, CollectInv
  <2>2. stage = "paths" => driver = Nobody
    BY <2>1 DEF ScriptInv
  <2>3. CASE DriverSteps
    BY <2>1, <2>3, DriverStepFrame DEF DriverSteps
  <2>4. ~UNCHANGED vars
    BY DEF vars, dbVars
  <2>5. ~Tests
    BY DEF Tests, Killed, Start, Check
  <2>6. ~(Drive \/ DriverEnds \/ CopyMeshes \/ RelocateMeshes \/ Erase \/ ScriptKilled)
    BY <2>2 DEF Drive, Start, DriverEnds, CopyMeshes, RelocateMeshes, Erase, ScriptKilled, dbVars
  <2>7. \A s, known : ~Select(s, known)
    BY DEF Select
  <2>8. \A whole : ~CopyExperiments(whole)
    BY DEF CopyExperiments, dbVars
  <2>. QED
    BY <1>1, <2>3, <2>4, <2>5, <2>6, <2>7, <2>8 DEF Next
<1>. QED
  BY <1>1, GeometryInvHolds, PTL DEF Spec, OthersBanksStay

-----------------------------------------------------------------------------
(* coatjava.                                                               *)

(* What holds between any two effects of a run: one under way has not      *)
(* failed, asks and clones only over nothing, removes only for a reset,    *)
(* and copies the installation after all the jars.                         *)
UnderWay == pc # "idle" => ~failed /\ exit = "none"

CleanBeforeClone == pc \in {"fetch", "clone"} => Removed

RemovesForReset == pc = "remove" => reset

JarsFirst == pc = "copy_install" => jars = "complete"

InstallInv == UnderWay /\ CleanBeforeClone /\ RemovesForReset /\ JarsFirst /\ ResetRepairs

(* Whatever is asked of an idle installer, over whatever disk, only the    *)
(* check for what is there is next.                                        *)
LEMMA BeginInv == ASSUME NEW r, NEW c PROVE Begin(r, c) => InstallInv'
  BY DEF Begin, InstallInv, UnderWay, CleanBeforeClone, RemovesForReset, JarsFirst,
         ResetRepairs

(* Each command of the installer, succeeding or failing, keeps the         *)
(* invariant.                                                              *)
LEMMA InstallNextInv == InstallInv /\ [InstallNext]_installVars => InstallInv'
<1> SUFFICES ASSUME InstallInv, [InstallNext]_installVars PROVE InstallInv'
  OBVIOUS
<1> USE DEF InstallInv, UnderWay, CleanBeforeClone, RemovesForReset, JarsFirst
<1>1. CASE RunByHand \/ Configure
  BY <1>1, BeginInv DEF RunByHand, Configure
<1>2. CASE CheckExisting
  BY <1>2 DEF CheckExisting, Existing, MayReset, AfterCheck, Removed, Goto, Exit, End,
              disk, ResetRepairs
<1>3. CASE RemoveExisting
  <2>1. CASE Removed
    <3>1. Goto(AfterCheck) /\ UNCHANGED disk
      BY <1>3, <2>1 DEF RemoveExisting, Unbound
    <3>2. Removed'
      BY <2>1, <3>1 DEF disk, Removed
    <3> QED
      BY <1>3, <3>1, <3>2 DEF RemoveExisting, AfterCheck, Goto, ResetRepairs
  <2>2. CASE Unbound
    <3>1. Exit("failure") /\ UNCHANGED disk
      BY <1>3, <2>2 DEF RemoveExisting, Unbound
    <3>2. Unbound' /\ pc' = "idle" /\ exit' = "failure" /\ failed' = failed
      BY <2>2, <3>1 DEF Unbound, Removed, Exit, End, disk
    <3> QED
      BY <3>2 DEF ResetRepairs
  <2>3. CASE ~Removed /\ ~Unbound
    <3>1. pc = "remove" /\ Goto("remove")
      BY <1>3, <2>3 DEF RemoveExisting
    <3> QED
      BY <3>1 DEF Goto, ResetRepairs
  <2> QED
    BY <2>1, <2>2, <2>3
<1>4. CASE Fetch
  <2>1. pc = "fetch" /\ Removed'
    BY <1>4 DEF Fetch, Removed, disk
  <2>2. CASE Goto("clone")
    BY <2>1, <2>2 DEF Goto, ResetRepairs
  <2>3. CASE UNCHANGED <<pc, reset, choice, oldBash, failed, exit>>
    BY <2>1, <2>3 DEF ResetRepairs
  <2>4. CASE Fail
    BY <2>1, <2>4 DEF Fail, End, ResetRepairs
  <2> QED
    BY <1>4, <2>2, <2>3, <2>4 DEF Fetch
<1>5. CASE Clone
  <2>1. srcDir = "absent"
    BY <1>5 DEF Clone, Removed
  <2>2. CASE Fail
    BY <1>5, <2>2 DEF Fail, End, ResetRepairs
  <2>3. CASE Goto("cloning")
    BY <1>5, <2>3 DEF Clone, Goto, ResetRepairs
  <2> QED
    BY <1>5, <2>1, <2>2, <2>3 DEF Clone
<1>6. CASE Cloned
  BY <1>6 DEF Cloned, Goto, ResetRepairs
<1>7. CASE Build
  <2>1. CASE Goto("copy_jars")
    BY <1>7, <2>1 DEF Build, Goto, ResetRepairs
  <2>2. CASE Fail
    BY <1>7, <2>2 DEF Build, Fail, End, ResetRepairs
  <2> QED
    BY <1>7, <2>1, <2>2 DEF Build
<1>8. CASE CopyJars
  BY <1>8 DEF CopyJars, Fail, End, AfterFailedCopy, Goto, ResetRepairs
<1>9. CASE CopyInstall
  BY <1>9 DEF CopyInstall, Fail, End, Exit, AfterFailedCopy,
         Goto, ResetRepairs
<1>10. CASE InstallKilled
  BY <1>10 DEF InstallKilled, Fail, End, disk, Removed, ResetRepairs
<1>11. CASE UNCHANGED installVars
  BY <1>11 DEF installVars, control, disk, Removed, Unbound, ResetRepairs
<1> QED
  BY <1>1, <1>2, <1>3, <1>4, <1>5, <1>6, <1>7, <1>8, <1>9, <1>10, <1>11
     DEF InstallNext, Step

(* Every state an installer, failing and killed at will, can leave.        *)
LEMMA InstallInvHolds == InstallSpec => []InstallInv
<1>1. InstallInit => InstallInv
  BY DEF InstallInit, InstallInv, UnderWay, CleanBeforeClone, RemovesForReset, JarsFirst,
         ResetRepairs
<1> QED
  BY <1>1, InstallNextInv, PTL DEF InstallSpec

(* However many attempts the script makes and however many runs failed or  *)
(* were killed before: a reset in which no command fails for reasons of    *)
(* its own installs everything, unless the bash is an old one and the      *)
(* leftovers have no jar (the array of install_coatjava.sh's rm is empty). *)
THEOREM ResetRepairsHolds == InstallSpec => []ResetRepairs
<1>1. InstallInv => ResetRepairs
  BY DEF InstallInv
<1> QED
  BY <1>1, InstallInvHolds, PTL

(* Success is the whole directory and all the jars, and nothing whole goes *)
(* without a reset, for any number of attempts.                            *)
THEOREM SuccessMeansInstalledHolds == InstallSpec => SuccessMeansInstalled
<1>1. ASSUME InstallInv, [InstallNext]_installVars PROVE [StepIsHonest]_installVars
  <2> SUFFICES ASSUME InstallNext PROVE StepIsHonest
    BY <1>1
  <2> USE <1>1 DEF InstallInv, UnderWay, RemovesForReset, JarsFirst, StepIsHonest, Lost
  <2>1. CASE RunByHand \/ Configure
    BY <2>1 DEF RunByHand, Configure, Begin, disk
  <2>2. CASE CheckExisting \/ Fetch \/ Cloned \/ Build \/ InstallKilled
    BY <2>2 DEF CheckExisting, Fetch, Cloned, Build, InstallKilled, Goto, Fail, Exit, End, disk
  <2>3. CASE RemoveExisting
    BY <2>3 DEF RemoveExisting, Goto, Exit, End, disk
  <2>4. CASE Clone
    BY <2>4 DEF Clone, Goto, Fail, Exit, End
  <2>5. CASE CopyJars
    BY <2>5 DEF CopyJars, AfterFailedCopy, Grown, Goto, Fail, End
  <2>6. CASE CopyInstall
    BY <2>6 DEF CopyInstall, AfterFailedCopy, Grown, Goto, Fail, Exit, End
  <2> QED
    BY <2>1, <2>2, <2>3, <2>4, <2>5, <2>6 DEF InstallNext, Step
<1> QED
  BY <1>1, InstallInvHolds, PTL DEF InstallSpec, SuccessMeansInstalled

(* What the commands of a run pass on.                                     *)
ScriptLabels == {"idle", "check", "remove", "fetch", "clone", "cloning", "build", "copy_jars",
                 "copy_install"}

Product == {"absent", "partial", "complete"}

InstallTypes ==
  /\ pc \in ScriptLabels /\ choice \in {"latest", "tag", "devel"}
  /\ attempt \in 1..Attempts
  /\ pc \in {"check", "remove"} => attempt = 1
  /\ installDir \in Product /\ srcDir \in Product /\ jars \in Product

LEMMA ProductSteps ==
  ASSUME NEW d \in Product
  PROVE  /\ Present(d) \in 0..2 /\ Missing(d) \in 0..2 /\ Grown(d) \in Product
         /\ Grown(d) # "complete" => Missing(Grown(d)) < Missing(d)
         /\ \A e \in Shrunk(d) : e \in Product /\ (d # "absent" => Present(e) < Present(d))
BY DEF Product, Present, Missing, Grown, Shrunk

(* A run that is not idle has a command left.                              *)
LEMMA CountPositive ==
  ASSUME NEW n \in 1..Attempts, NEW i \in Product, NEW s \in Product, NEW j \in Product,
         NEW label \in ScriptLabels \ {"idle"}
  PROVE  CountFrom(label, n, i, s, j) \in Nat \ {0}
<1>1. /\ Missing(i) \in 0..2 /\ Missing(j) \in 0..2 /\ Present(i) \in 0..2
      /\ Present(s) \in 0..2 /\ Present(j) \in 0..2
  BY ProductSteps
<1>2. n \in Nat /\ 1 <= n /\ n <= Attempts /\ Attempts \in Nat
  BY AttemptsAssumption
<1>. QED
  BY <1>1, <1>2 DEF CountFrom, ScriptLabels

(* Every command of a run counts it down, and a failure or a kill ends it. *)
LEMMA CommandCounts ==
  ASSUME InstallTypes, InstallNext
  PROVE  InstallTypes' /\ (pc # "idle" => CommandsLeft' \in 0..(CommandsLeft - 1))
<1>. USE DEF InstallTypes
<1>0. pc # "idle" => CommandsLeft \in Nat \ {0}
  BY CountPositive DEF CommandsLeft
<1>1. CASE RunByHand \/ Configure
  BY <1>1, AttemptsAssumption DEF RunByHand, Configure, Begin, disk, ScriptLabels
<1>2. ASSUME Fail, pc # "idle", installDir' \in Product, srcDir' \in Product, jars' \in Product
      PROVE  InstallTypes' /\ CommandsLeft' \in 0..(CommandsLeft - 1)
  <2>1. pc' = "idle" /\ UNCHANGED <<attempt, choice>>
    BY <1>2 DEF Fail, End
  <2>2. CommandsLeft' = 0
    BY <1>2, <2>1 DEF CommandsLeft, CountFrom
  <2>. QED
    BY <1>0, <1>2, <2>1, <2>2 DEF ScriptLabels
<1>3. CASE InstallKilled
  BY <1>2, <1>3 DEF InstallKilled, disk
<1>4. CASE CheckExisting
  <2>1. /\ pc = "check" /\ attempt' = 1 /\ attempt = 1 /\ UNCHANGED <<installDir, srcDir, jars, choice>>
        /\ pc' \in {"fetch", "clone", "remove", "idle"}
    BY <1>4 DEF CheckExisting, AfterCheck, Goto, Exit, End, disk
  <2>2. CommandsLeft = 17 + Attempts
    BY <2>1 DEF CommandsLeft, CountFrom
  <2>3. CommandsLeft' \in 0..(16 + Attempts)
    BY <2>1, ProductSteps, AttemptsAssumption DEF CommandsLeft, CountFrom
  <2>. QED
    BY <2>1, <2>2, <2>3, AttemptsAssumption DEF ScriptLabels
<1>5. CASE RemoveExisting
  <2>1. /\ pc = "remove" /\ attempt' = 1 /\ attempt = 1 /\ choice' = choice
        /\ CommandsLeft = 10 + Attempts + Present(installDir) + Present(srcDir) + Present(jars)
    BY <1>5 DEF RemoveExisting, Goto, Exit, End, CommandsLeft, CountFrom
  <2>2. CASE Removed
    <3>1. pc' \in {"fetch", "clone"} /\ UNCHANGED disk
      BY <1>5, <2>2 DEF RemoveExisting, Unbound, AfterCheck, Goto
    <3>2. CommandsLeft' \in 0..(9 + Attempts)
      BY <2>1, <3>1, AttemptsAssumption DEF CommandsLeft, CountFrom, disk
    <3>. QED
      BY <2>1, <3>1, <3>2, ProductSteps, AttemptsAssumption DEF disk, ScriptLabels
  <2>3. CASE Unbound
    <3>1. pc' = "idle" /\ UNCHANGED <<choice, attempt, installDir, srcDir, jars>>
      BY <1>5, <2>3 DEF RemoveExisting, Unbound, Exit, End, disk
    <3>2. CommandsLeft' = 0
      BY <3>1 DEF CommandsLeft, CountFrom
    <3>. QED
      BY <1>0, <2>1, <3>1, <3>2 DEF ScriptLabels
  <2>4. CASE ~Removed /\ ~Unbound
    <3>1. pc' = "remove"
      BY <1>5, <2>4 DEF RemoveExisting, Goto
    <3>2. /\ installDir' \in Product /\ srcDir' \in Product /\ jars' \in Product
          /\ Present(installDir') + Present(srcDir') + Present(jars')
               < Present(installDir) + Present(srcDir) + Present(jars)
      BY <1>5, <2>4, ProductSteps DEF RemoveExisting
    <3>3. CommandsLeft' = 10 + Attempts + Present(installDir') + Present(srcDir') + Present(jars')
      BY <2>1, <3>1, <3>2 DEF CommandsLeft, CountFrom
    <3>. QED
      BY <2>1, <3>1, <3>2, <3>3, ProductSteps, AttemptsAssumption DEF ScriptLabels
  <2>. QED
    BY <2>2, <2>3, <2>4
<1>6. CASE Fetch
  <2>1. pc = "fetch" /\ UNCHANGED <<installDir, srcDir, jars>> /\ CommandsLeft = 10 + Attempts - attempt
    BY <1>6 DEF Fetch, disk, CommandsLeft, CountFrom
  <2>2. CASE Goto("clone")
    <3>1. pc' = "clone" /\ UNCHANGED <<attempt, choice>>
      BY <2>2 DEF Goto
    <3>2. CommandsLeft' = 9
      BY <2>1, <3>1 DEF CommandsLeft, CountFrom
    <3>. QED
      BY <2>1, <3>1, <3>2, AttemptsAssumption DEF ScriptLabels
  <2>3. CASE MoreAttempts /\ attempt' = attempt + 1 /\ UNCHANGED <<pc, reset, choice, oldBash, failed, exit>>
    <3>1. attempt' \in 1..Attempts
      BY <2>3, AttemptsAssumption DEF MoreAttempts
    <3>2. CommandsLeft' = 10 + Attempts - attempt'
      BY <2>1, <2>3, <3>1 DEF CommandsLeft, CountFrom
    <3>. QED
      BY <2>1, <2>3, <3>1, <3>2, AttemptsAssumption
  <2>. QED
    BY <1>2, <1>6, <2>1, <2>2, <2>3 DEF Fetch
<1>7. CASE Clone
  <2>1. pc = "clone" /\ CommandsLeft = 9 /\ UNCHANGED <<installDir, jars>> /\ srcDir' \in Product
    BY <1>7 DEF Clone, CommandsLeft, CountFrom, Product
  <2>2. CASE Goto("cloning")
    <3>1. pc' = "cloning" /\ UNCHANGED <<attempt, choice>>
      BY <2>2 DEF Goto
    <3>. QED
      BY <2>1, <3>1 DEF CommandsLeft, CountFrom, ScriptLabels
  <2>3. CASE Exit("failure")
    <3>1. pc' = "idle" /\ UNCHANGED <<attempt, choice>>
      BY <2>3 DEF Exit, End
    <3>. QED
      BY <2>1, <3>1 DEF CommandsLeft, CountFrom, ScriptLabels
  <2>. QED
    BY <1>2, <1>7, <2>1, <2>2, <2>3 DEF Clone
<1>8. CASE Cloned
  <2>1. /\ pc = "cloning" /\ pc' = "build" /\ UNCHANGED <<attempt, choice, installDir, jars>>
        /\ srcDir' \in Product
    BY <1>8 DEF Cloned, Goto, Product
  <2>. QED
    BY <2>1 DEF CommandsLeft, CountFrom, ScriptLabels
<1>9. CASE Build
  <2>1. pc = "build" /\ UNCHANGED <<installDir, srcDir, jars>>
    BY <1>9 DEF Build, disk
  <2>2. CASE Goto("copy_jars")
    <3>1. pc' = "copy_jars" /\ UNCHANGED <<attempt, choice>>
      BY <2>2 DEF Goto
    <3>2. CommandsLeft' = 4 + Missing(jars) /\ CommandsLeft = 7
      BY <2>1, <3>1 DEF CommandsLeft, CountFrom
    <3>. QED
      BY <2>1, <3>1, <3>2, ProductSteps DEF ScriptLabels
  <2>. QED
    BY <1>2, <1>9, <2>1, <2>2 DEF Build
<1>10. CASE CopyJars
  <2>1. pc = "copy_jars" /\ UNCHANGED <<installDir, srcDir>> /\ CommandsLeft = 4 + Missing(jars)
    BY <1>10 DEF CopyJars, CommandsLeft, CountFrom
  <2>2. ASSUME jars' = Grown(jars), ~Fail PROVE InstallTypes' /\ CommandsLeft' \in 0..(CommandsLeft - 1)
    <3>1. /\ jars' \in Product /\ UNCHANGED <<attempt, choice>>
          /\ pc' = IF jars' = "complete" THEN "copy_install" ELSE "copy_jars"
      BY <1>10, <2>2, ProductSteps DEF CopyJars, AfterFailedCopy, Goto
    <3>2. CASE jars' = "complete"
      <4>1. CommandsLeft' = 1 + Missing(installDir)
        BY <2>1, <3>1, <3>2 DEF CommandsLeft, CountFrom
      <4>. QED
        BY <2>1, <3>1, <3>2, <4>1, ProductSteps DEF ScriptLabels
    <3>3. CASE jars' # "complete"
      <4>1. CommandsLeft' = 4 + Missing(jars')
        BY <2>1, <3>1, <3>3 DEF CommandsLeft, CountFrom
      <4>. QED
        BY <2>1, <2>2, <3>1, <3>3, <4>1, ProductSteps DEF ScriptLabels
    <3>. QED
      BY <3>2, <3>3
  <2>. QED
    BY <1>2, <1>10, <2>1, <2>2, ProductSteps DEF CopyJars, AfterFailedCopy
<1>11. CASE CopyInstall
  <2>1. pc = "copy_install" /\ UNCHANGED <<srcDir, jars>> /\ CommandsLeft = 1 + Missing(installDir)
    BY <1>11 DEF CopyInstall, CommandsLeft, CountFrom
  <2>2. ASSUME installDir' = Grown(installDir), ~Fail
        PROVE  InstallTypes' /\ CommandsLeft' \in 0..(CommandsLeft - 1)
    <3>1. /\ installDir' \in Product /\ UNCHANGED <<attempt, choice>>
          /\ pc' = IF installDir' = "complete" THEN "idle" ELSE "copy_install"
      BY <1>11, <2>2, ProductSteps DEF CopyInstall, AfterFailedCopy, Goto, Exit, End
    <3>2. CASE installDir' = "complete"
      <4>1. CommandsLeft' = 0
        BY <2>1, <3>1, <3>2 DEF CommandsLeft, CountFrom
      <4>. QED
        BY <2>1, <3>1, <3>2, <4>1, ProductSteps DEF ScriptLabels
    <3>3. CASE installDir' # "complete"
      <4>1. CommandsLeft' = 1 + Missing(installDir')
        BY <2>1, <3>1, <3>3 DEF CommandsLeft, CountFrom
      <4>. QED
        BY <2>1, <2>2, <3>1, <3>3, <4>1, ProductSteps DEF ScriptLabels
    <3>. QED
      BY <3>2, <3>3
  <2>. QED
    BY <1>2, <1>11, <2>1, <2>2, ProductSteps DEF CopyInstall, AfterFailedCopy
<1>. QED
  BY <1>1, <1>3, <1>4, <1>5, <1>6, <1>7, <1>8, <1>9, <1>10, <1>11 DEF InstallNext, Step

(* However many attempts are allowed and whatever is on the disk, a run    *)
(* gives fewer commands than its count says, and so comes to its end.      *)
THEOREM CommandsAlwaysRunOut == InstallSpec => CommandsRunOut
<1>1. InstallInit => InstallTypes
  BY AttemptsAssumption DEF InstallInit, InstallTypes, ScriptLabels, Product
<1>2. InstallTypes /\ UNCHANGED installVars => InstallTypes'
  BY DEF InstallTypes, installVars, control, disk
<1>3. InstallTypes /\ [InstallNext]_installVars => InstallTypes'
  BY <1>2, CommandCounts
<1>4. InstallTypes /\ [InstallNext]_installVars
        => [pc # "idle" => CommandsLeft' \in 0..(CommandsLeft - 1)]_installVars
  BY CommandCounts
<1>. QED
  BY <1>1, <1>3, <1>4, PTL DEF InstallSpec, CommandsRunOut
=============================================================================
