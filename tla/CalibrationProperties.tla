----------------------- MODULE CalibrationProperties -----------------------
(* What a plugin that got as far as events may rely on.                    *)
EXTENDS Calibration

Held(n, c) == store[n][c] # Default

KindOf(n) == (CHOOSE t \in Tables(plugin) : t.name = n).kind

(* An index into what table n filled: a fixed array has every index, a     *)
(* vector those its rows made.                                             *)
Covers(n, c) ==
  CASE KindOf(n) = "rows" -> Held(n, c)
    [] KindOf(n) = "channel" -> \E d \in Components : d >= c /\ Held(n, d)
    [] OTHER -> TRUE

(* The conditions under which digitizeHitImpl does not drop a hit.         *)
Accepted(c) ==
  LET checks == DigitizeOf[plugin] IN
  /\ \A n \in checks.covered : Covers(n, c)
  /\ \A n \in checks.present : Covers(n, 1)
  /\ \A n \in checks.nonzero : Held(n, c)

Reads == DigitizeOf[plugin].reads

Firsts == DigitizeOf[plugin].firsts

InEvents == stage = "events"

(* Table n was answered with less than all components, with no row that    *)
(* the loop takes, with rows after a component that has none.              *)
Incomplete(n) == \E rows \in Answers : <<n, rows>> \in partial

NoneTaken(n) == <<n, {}>> \in partial

HasHole(rows) == rows # 1 .. Cardinality(rows)

HoleIn(n) == \E rows \in Answers : <<n, rows>> \in partial /\ HasHole(rows)

-----------------------------------------------------------------------------
(* The pressure table is read at a row whose existence nothing checks.     *)
UncheckedAtLoad == {"pressure"}

(* No event is digitized unless every table of constants that the load     *)
(* requires gave this run at least one row: a plugin stops the run rather  *)
(* than digitize with what an earlier run, or nothing, left behind. A      *)
(* table whose rows are passed over one by one, to the last, goes through. *)
RequiredTablesLoaded ==
  InEvents => \A t \in Tables(plugin) :
    t.guarded /\ (t.status => hardware) /\ t.name \notin UncheckedAtLoad =>
      \/ \E c \in Components : store[t.name][c].run = run
      \/ PassesOver(t) /\ NoneTaken(t.name)

(* Constants and translation of an accepted hit were loaded for the run it *)
(* belongs to, whatever the previous runs loaded. The drift chambers do    *)
(* not clear theirs: of them this holds while every answer is complete.    *)
NothingStale ==
  InEvents => \A c \in Components :
    /\ tt[c].run \in {0, run}
    /\ (plugin # "dc" \/ partial = {}) /\ Accepted(c) =>
         \A n \in Reads : store[n][c].run \in {0, run}

(* ECAL's checks ask only that tmf_offset has some row.                    *)
UncheckedAtHit == {"tmf_offset"}

(* Whatever digitizing an accepted hit indexes (the threshold and          *)
(* efficiency hooks included) is within what the load of this run put      *)
(* there: by a check before the hit, or, of the one index that the checks  *)
(* do not cover, as long as the answer to that query was complete.         *)
ReadsInBounds ==
  InEvents => \A c \in Components : Accepted(c) =>
    /\ \A n \in Reads :
         Covers(n, c) \/ (n \in UncheckedAtHit /\ Incomplete(n))
    /\ \A n \in Firsts : Covers(n, 1)

(* A hit is never digitized with the constants of another component: not   *)
(* through a table that is stored by the components its rows name, however *)
(* incomplete, and through one that is stored by the order of its rows     *)
(* only if that very table has a row after a component that has none.      *)
OwnConstants ==
  InEvents => \A c \in Components : Accepted(c) =>
    /\ tt[c].of \in {0, c}
    /\ \A n \in Reads :
         (KindOf(n) \in {"rows", "slots"} => ~HoleIn(n)) =>
           store[n][c].of \in {0, c}

-----------------------------------------------------------------------------
(* What the constants keep to while they are loaded, table by table: the   *)
(* inductive invariant behind the four properties above.                   *)
Entry == [of : 0 .. NumComponents, run : 0 .. run]

CalibrationTypeOK ==
  /\ plugin \in Plugins /\ hardware \in BOOLEAN
  /\ run \in 0 .. MaxRuns /\ gaps \in 0 .. MaxGaps
  /\ stage \in {"idle", "connect", "constants", "translation", "events",
                "aborted", "terminated"}
  /\ next \in 1 .. Len(ConstantsOf[plugin]) + 1
  /\ store \in [Names(plugin) -> [Components -> Entry]]
  /\ tt \in [Components -> Entry]
  /\ partial \subseteq Names(plugin) \X Answers

Loading == stage \in {"constants", "translation", "events"}

(* The i-th table of the plugin has a row of this run, unless it need not. *)
HasRow(i) ==
  LET t == ConstantsOf[plugin][i] IN
    t.guarded /\ (t.status => hardware) /\ t.name \notin UncheckedAtLoad =>
      \/ \E c \in Components : store[t.name][c].run = run
      \/ PassesOver(t) /\ NoneTaken(t.name)

(* The i-th table has a row of this run for every component, unless its    *)
(* answer was not complete or only one of its rows is used.                *)
IsFull(i) ==
  LET t == ConstantsOf[plugin][i] IN
    /\ t.status => hardware
    /\ t.kind \notin {"first", "later"}
    /\ ~Incomplete(t.name)
    => \A c \in Components : store[t.name][c].run = run

LoadInv ==
  /\ Loading =>
       /\ run # 0
       /\ \A i \in 1 .. next - 1 : HasRow(i) /\ IsFull(i)
  /\ stage \in {"translation", "events"} =>
       next = Len(ConstantsOf[plugin]) + 1

CurrentInv ==
  /\ plugin # "dc" =>
       \A n \in Names(plugin), c \in Components : store[n][c].run \in {0, run}
  /\ stage = "connect" => run # 0
  /\ InEvents => \A c \in Components : tt[c].run \in {0, run}

OwnInv ==
  \A c \in Components :
    /\ tt[c].of \in {0, c}
    /\ \A n \in Names(plugin) \ UncheckedAtLoad :
         (KindOf(n) \notin {"array", "channel"} => ~HoleIn(n)) =>
           store[n][c].of \in {0, c}

CalibrationInv == CalibrationTypeOK /\ LoadInv /\ CurrentInv /\ OwnInv
=============================================================================
