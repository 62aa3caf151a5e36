-------------------------- MODULE CalibrationProofs --------------------------
(* What every run of a digitization plugin may rely on, for any number of  *)
(* components, runs and incomplete answers of the database: the proof goes *)
(* along the load of one run, table by table, and uses of the tables only  *)
(* that no two of a plugin have one name and how each is stored and read.  *)
EXTENDS CalibrationProperties, FiniteSetTheorems, WellFoundedInduction, TLAPS

-----------------------------------------------------------------------------
(* The tables of the plugins.                                              *)

Kinds == {"array", "channel", "rows", "slots", "first", "later"}

(* Rows go where the kind says, only the pressure table uses a later row,  *)
(* and no two tables of a plugin are stored under one name.                *)
WellFormed(tables) ==
  /\ Len(tables) \in Nat \ {0} /\ DOMAIN tables = 1 .. Len(tables)
  /\ \A i \in 1 .. Len(tables) :
       /\ tables[i].kind \in Kinds
       /\ tables[i].kind = "later" <=> tables[i].name \in UncheckedAtLoad
       /\ \A j \in 1 .. Len(tables) : tables[i].name = tables[j].name => i = j

LEMMA TablesWellFormed ==
  \A p \in Plugins : WellFormed(ConstantsOf[p])
  <1> USE DEF WellFormed, Kinds, Table, StatusTable, UncheckedAtLoad
  <1>1. WellFormed(DcConstants)
    BY DEF DcConstants
  <1>2. WellFormed(EcConstants)
    BY DEF EcConstants
  <1>3. WellFormed(FtofConstants)
    BY DEF FtofConstants
  <1>4. WellFormed(LtccConstants)
    BY DEF LtccConstants
  <1>5. WellFormed(HtccConstants)
    BY DEF HtccConstants
  <1>6. WellFormed(FtCalConstants)
    BY DEF FtCalConstants
  <1>7. WellFormed(FtHodoConstants)
    BY DEF FtHodoConstants
  <1> HIDE DEF WellFormed
  <1> QED
    BY <1>1, <1>2, <1>3, <1>4, <1>5, <1>6, <1>7 DEF ConstantsOf, Plugins

(* What digitizing reads is a table the plugin always loads, with all its  *)
(* rows, and is asked for at the start of a hit unless it is kept in a     *)
(* fixed array; what is read at its first entry is asked for, too.         *)
ReadSafely(tables, checks) ==
  /\ checks.firsts \subseteq checks.present
  /\ \A n \in checks.reads :
       /\ n \notin UncheckedAtLoad
       /\ \E i \in 1 .. Len(tables) :
            /\ tables[i].name = n
            /\ ~tables[i].status
            /\ tables[i].kind \notin {"first", "later"}
            /\ n \notin checks.covered \cup UncheckedAtHit =>
                 tables[i].kind \notin {"rows", "channel"}

LEMMA TablesReadSafely ==
  \A p \in Plugins : ReadSafely(ConstantsOf[p], DigitizeOf[p])
  <1> USE DEF ReadSafely, Table, StatusTable, UncheckedAtLoad, UncheckedAtHit, Checks
  <1>1. ReadSafely(DcConstants, DcDigitize)
    BY DEF DcConstants, DcDigitize
  <1>2. ReadSafely(EcConstants, EcDigitize)
    BY DEF EcConstants, EcDigitize, EcCovered, EcPresent
  <1>3. ReadSafely(FtofConstants, FtofDigitize)
    BY DEF FtofConstants, FtofDigitize, FtofCovered, FtofReads
  <1>4. ReadSafely(LtccConstants, LtccDigitize)
    BY DEF LtccConstants, LtccDigitize
  <1>5. ReadSafely(HtccConstants, HtccDigitize)
    BY DEF HtccConstants, HtccDigitize
  <1>6. ReadSafely(FtCalConstants, FtCalDigitize)
    BY DEF FtCalConstants, FtCalDigitize
  <1>7. ReadSafely(FtHodoConstants, FtHodoDigitize)
    BY DEF FtHodoConstants, FtHodoDigitize
  <1> HIDE DEF ReadSafely
  <1> QED
    BY <1>1, <1>2, <1>3, <1>4, <1>5, <1>6, <1>7 DEF ConstantsOf, DigitizeOf, Plugins

LEMMA TableNames ==
  ASSUME plugin \in Plugins
  PROVE  /\ Len(ConstantsOf[plugin]) \in Nat \ {0}
         /\ Tables(plugin) = {ConstantsOf[plugin][i] : i \in 1 .. Len(ConstantsOf[plugin])}
         /\ \A i \in 1 .. Len(ConstantsOf[plugin]) : ConstantsOf[plugin][i].name \in Names(plugin)
         /\ \A t \in Tables(plugin), u \in Tables(plugin) : t.name = u.name => t = u
  <1>1. WellFormed(ConstantsOf[plugin])
    BY TablesWellFormed
  <1>2. Tables(plugin) = {ConstantsOf[plugin][i] : i \in 1 .. Len(ConstantsOf[plugin])}
    BY <1>1 DEF Tables, Range, WellFormed
  <1> QED
    BY <1>1, <1>2 DEF Names, WellFormed

-----------------------------------------------------------------------------
(* The rows of an answer.                                                  *)

LEMMA RowsAreFinite ==
  ASSUME NEW rows \in SUBSET Components
  PROVE  /\ IsFiniteSet(rows)
         /\ Cardinality(rows) \in 0 .. NumComponents
         /\ rows # {} <=> Cardinality(rows) > 0
  <1>1. IsFiniteSet(Components) /\ Cardinality(Components) = NumComponents
    BY CalibrationAssumption, FS_Interval DEF Components
  <1>2. IsFiniteSet(rows) /\ Cardinality(rows) <= Cardinality(Components)
    BY <1>1, FS_Subset
  <1>3. Cardinality(rows) \in Nat
    BY <1>2, FS_CardinalityType
  <1>4. Cardinality(rows) = 0 <=> rows = {}
    BY <1>2, FS_EmptySet
  <1> QED
    BY <1>1, <1>2, <1>3, <1>4, CalibrationAssumption

(* A nonempty set of naturals has a least element.                         *)
LEMMA LeastNatural ==
  ASSUME NEW S, S \subseteq Nat, S # {}
  PROVE  \E m \in S : \A n \in S : m <= n
  <1> DEFINE less == OpToRel(<, Nat)
  <1>1. IsWellFoundedOn(less, Nat)
    BY NatLessThanWellFounded
  <1>2. PICK x : x \in S
    OBVIOUS
  <1>3. PICK m \in S : \A y \in S : ~(<<y, m>> \in less)
    BY <1>1, <1>2, WFMin
  <1>4. ASSUME NEW n \in S PROVE m <= n
    <2>1. ~(n < m)
      BY <1>3 DEF OpToRel
    <2> QED
      BY <2>1
  <1> QED
    BY <1>4

(* An answer has its k-th row if it has k rows: the least component that   *)
(* has k of them up to itself.                                             *)
LEMMA RowIsThere ==
  ASSUME NEW rows \in SUBSET Components, NEW k \in 1 .. Cardinality(rows)
  PROVE  /\ Row(rows, k) \in rows
         /\ Cardinality({d \in rows : d <= Row(rows, k)}) = k
  <1> DEFINE UpTo(m) == {d \in rows : d <= m}
  <1>0. IsFiniteSet(rows) /\ Cardinality(rows) \in 0 .. NumComponents /\ rows \subseteq Nat
    BY RowsAreFinite, CalibrationAssumption DEF Components
  <1>1. \A m : IsFiniteSet(UpTo(m)) /\ Cardinality(UpTo(m)) \in Nat
    <2> TAKE m
    <2>1. UpTo(m) \in SUBSET rows
      OBVIOUS
    <2>2. IsFiniteSet(UpTo(m))
      BY <1>0, <2>1, FS_Subset
    <2> QED
      BY <2>2, FS_CardinalityType
  <1> DEFINE S == {m \in Nat : Cardinality(UpTo(m)) >= k}
  <1>2. NumComponents \in S
    <2>1. UpTo(NumComponents) = rows
      <3>1. \A d \in rows : d <= NumComponents
        BY DEF Components
      <3> QED
        BY <3>1
    <2> QED
      BY <2>1, <1>0, CalibrationAssumption
  <1>3. PICK m \in S : \A n \in S : m <= n
    <2>1. S \subseteq Nat /\ S # {}
      BY <1>2
    <2> HIDE DEF S
    <2> QED
      BY <2>1, LeastNatural
  <1>4. m # 0
    <2>1. SUFFICES ASSUME m = 0 PROVE FALSE
      OBVIOUS
    <2>2. UpTo(0) = {}
      <3>1. \A d \in rows : ~(d <= 0)
        BY CalibrationAssumption DEF Components
      <3> QED
        BY <3>1
    <2>3. Cardinality(UpTo(0)) = 0
      BY <2>2, FS_EmptySet
    <2> QED
      BY <2>1, <2>3, <1>0
  <1>5. PICK l \in Nat : m = l + 1
    BY <1>4
  <1>6. Cardinality(UpTo(l)) < k
    BY <1>0, <1>1, <1>3, <1>5
  <1>7. UpTo(m) = IF m \in rows THEN UpTo(l) \cup {m} ELSE UpTo(l)
    <2>1. \A d \in rows : d <= m <=> d = m \/ d <= l
      BY <1>0, <1>5
    <2> QED
      BY <2>1
  <1>8. Cardinality(UpTo(l) \cup {m}) = Cardinality(UpTo(l)) + 1
    <2>1. m \notin UpTo(l)
      BY <1>5
    <2>2. IsFiniteSet(UpTo(l))
      BY <1>1
    <2> HIDE DEF UpTo
    <2> QED
      BY <2>1, <2>2, FS_AddElement
  <1>9. m \in rows /\ Cardinality(UpTo(m)) = k
    <2>1. Cardinality(UpTo(m)) >= k
      BY <1>3
    <2>2. m \in rows
      BY <1>6, <1>7, <1>1, <1>0, <2>1
    <2> QED
      BY <2>1, <2>2, <1>0, <1>1, <1>6, <1>7, <1>8
  <1> QED
    BY <1>9 DEF Row

(* Of an answer without a hole the k-th row is that of component k.        *)
LEMMA RowWithoutHole ==
  ASSUME NEW rows \in SUBSET Components, ~HasHole(rows), NEW k \in 1 .. Cardinality(rows)
  PROVE  Row(rows, k) = k
  <1>0. Cardinality(rows) \in Nat
    BY RowsAreFinite
  <1> DEFINE r == Row(rows, k)
  <1>1. r \in rows /\ Cardinality({d \in rows : d <= r}) = k
    BY RowIsThere
  <1>2. r \in 1 .. Cardinality(rows) /\ rows = 1 .. Cardinality(rows)
    BY <1>1 DEF HasHole
  <1> HIDE DEF r
  <1>3. {d \in rows : d <= r} = 1 .. r
    BY <1>0, <1>2
  <1>4. Cardinality(1 .. r) = r
    BY <1>0, <1>2, FS_Interval
  <1> QED
    BY <1>1, <1>3, <1>4 DEF r

(* An answer for all components has no hole.                               *)
LEMMA AllComponents == Cardinality(Components) = NumComponents /\ ~HasHole(Components)
  <1>1. Cardinality(Components) = NumComponents
    BY CalibrationAssumption, FS_Interval DEF Components
  <1> QED
    BY <1>1 DEF HasHole, Components

(* What a table holds after its rows were put where its kind says.         *)
LEMMA WhatIsPlaced ==
  ASSUME run \in 0 .. MaxRuns,
         NEW rows \in SUBSET Components, NEW kind \in Kinds,
         NEW old \in [Components -> Entry]
  PROVE  /\ Placed(kind, rows, old) \in [Components -> Entry]
         /\ \A c \in Components : Placed(kind, rows, old)[c].run \in {old[c].run, run}
         /\ rows # {} /\ kind # "later" =>
              \E c \in Components : Placed(kind, rows, old)[c].run = run
         /\ rows = Components /\ kind \notin {"first", "later"} =>
              \A c \in Components : Placed(kind, rows, old)[c].run = run
         /\ (~HasHole(rows) \/ kind \in {"array", "channel"}) /\ kind # "later" =>
              \A c \in Components : Placed(kind, rows, old)[c].of \in {old[c].of, c}
  <1> DEFINE P == Placed(kind, rows, old)
             n == Cardinality(rows)
  <1>0. n \in 0 .. NumComponents /\ (rows # {} <=> n > 0) /\ 1 \in Components
    BY RowsAreFinite, CalibrationAssumption DEF Components
  <1>1. \A k \in 1 .. n : Row(rows, k) \in Components
    BY RowIsThere
  <1>2. \A c \in Components : Read(c) \in Entry /\ Read(c).of = c /\ Read(c).run = run
    BY CalibrationAssumption DEF Read, Entry, Components
  <1>3. \A c \in Components :
          \/ c \in rows /\ kind \in {"array", "channel"} /\ P[c] = Read(c)
          \/ kind \in {"rows", "slots", "first"} /\ c <= n /\ P[c] = Read(Row(rows, c))
          \/ kind = "later" /\ 2 <= n /\ P[c] = Read(Row(rows, 2))
          \/ P[c] = old[c]
    BY <1>0 DEF Placed, Kinds
  <1>4. P \in [Components -> Entry]
    <2>1. \A c \in Components : c <= n => c \in 1 .. n
      BY <1>0 DEF Components
    <2>2. 2 <= n => 2 \in 1 .. n
      BY <1>0
    <2>3. \A c \in Components : P[c] \in Entry
      BY <1>1, <1>2, <1>3, <2>1, <2>2
    <2>4. P = [c \in Components |-> P[c]]
      BY DEF Placed
    <2> QED
      BY <2>3, <2>4
  <1>5. \A c \in Components : P[c].run \in {old[c].run, run}
    <2>1. \A x : Read(x).run = run
      BY DEF Read
    <2> HIDE DEF P
    <2> QED
      BY <1>3, <2>1
  <1>6. ASSUME rows # {}, kind # "later"
        PROVE  \E c \in Components : P[c].run = run
    <2>1. CASE kind \in {"array", "channel"}
      <3>1. PICK c \in rows : TRUE
        BY <1>6
      <3>2. P[c] = Read(c)
        BY <2>1, <3>1 DEF Placed
      <3> QED
        BY <3>1, <3>2 DEF Read
    <2>2. CASE kind \in {"rows", "slots", "first"}
      <3>1. P[1] = Read(Row(rows, 1))
        BY <1>0, <1>6, <2>2 DEF Placed
      <3> QED
        BY <1>0, <3>1 DEF Read
    <2> QED
      BY <1>6, <2>1, <2>2 DEF Kinds
  <1>7. ASSUME ~HasHole(rows) \/ kind \in {"array", "channel"}, kind # "later", NEW c \in Components
        PROVE  P[c].of \in {old[c].of, c}
    <2>0. kind \in {"array", "channel"} => P[c] \in {Read(c), old[c]}
      BY DEF Placed
    <2>1. ~HasHole(rows) /\ c <= n => Row(rows, c) = c
      <3>1. SUFFICES ASSUME ~HasHole(rows), c <= n PROVE Row(rows, c) = c
        OBVIOUS
      <3>2. c \in 1 .. Cardinality(rows)
        BY <1>0, <3>1 DEF Components
      <3> QED
        BY <3>1, <3>2, RowWithoutHole
    <2> QED
      BY <1>2, <1>3, <1>7, <2>0, <2>1
  <1>8. ASSUME rows = Components, kind \notin {"first", "later"}, NEW c \in Components
        PROVE  P[c].run = run
    <2>1. c <= n
      BY <1>8, AllComponents, CalibrationAssumption DEF Components
    <2>2. P[c] \in {Read(c), Read(Row(rows, c))}
      BY <1>8, <2>1 DEF Placed, Kinds
    <2> QED
      BY <2>2 DEF Read
  <1> QED
    BY <1>4, <1>5, <1>6, <1>7, <1>8

-----------------------------------------------------------------------------
(* The load of a run.                                                      *)

LEMMA CalibrationInit == Init => CalibrationInv
  <1> SUFFICES ASSUME Init PROVE CalibrationInv
    OBVIOUS
  <1> USE CalibrationAssumption
  <1>1. Blank \in [Components -> Entry]
    BY DEF Init, Blank, Default, Entry, Components
  <1>2. Len(ConstantsOf[plugin]) \in Nat \ {0}
    BY TableNames DEF Init
  <1>3. CalibrationTypeOK
    <2>1. 1 \in 1 .. Len(ConstantsOf[plugin]) + 1
      BY <1>2
    <2>2. [n \in Names(plugin) |-> Blank] \in [Names(plugin) -> [Components -> Entry]]
      BY <1>1
    <2>3. store \in [Names(plugin) -> [Components -> Entry]] /\ tt \in [Components -> Entry]
      BY <1>1, <2>2 DEF Init
    <2>4. run \in 0 .. MaxRuns /\ gaps \in 0 .. MaxGaps
      BY DEF Init
    <2>5. partial \subseteq Names(plugin) \X Answers
      BY DEF Init
    <2> QED
      BY <2>1, <2>3, <2>4, <2>5 DEF Init, CalibrationTypeOK
  <1> QED
    BY <1>3 DEF Init, CalibrationInv, LoadInv, Loading, CurrentInv, InEvents, OwnInv, Blank, Default

(* Starting a run forgets the constants of the last one, unless they are   *)
(* the drift chambers': those keep theirs until the query that replaces    *)
(* them.                                                                   *)
LEMMA BeginRunStep == CalibrationInv /\ BeginRun => CalibrationInv'
  <1> SUFFICES ASSUME CalibrationInv, BeginRun PROVE CalibrationInv'
    OBVIOUS
  <1> USE CalibrationAssumption DEF CalibrationInv
  <1>1. run' = run + 1 /\ run' \in 0 .. MaxRuns /\ plugin' = plugin /\ stage' = "connect"
    BY DEF BeginRun, CalibrationTypeOK
  <1>2. Blank \in [Components -> Entry'] /\ \A e \in Entry : e \in Entry'
    BY <1>1 DEF Blank, Default, Entry, CalibrationTypeOK
  <1>3. store' \in [Names(plugin) -> [Components -> Entry']]
    BY <1>2 DEF BeginRun, CalibrationTypeOK
  <1>4. tt' \in [Components -> Entry']
    BY <1>2 DEF BeginRun, CalibrationTypeOK
  <1>5. CalibrationTypeOK'
    BY <1>1, <1>3, <1>4 DEF BeginRun, CalibrationTypeOK, Answers
  <1>6. LoadInv'
    BY <1>1 DEF LoadInv, Loading
  <1>7. CurrentInv'
    BY <1>1 DEF BeginRun, CurrentInv, Cleared, Blank, Default, InEvents, CalibrationTypeOK
  <1>8. OwnInv'
    BY DEF BeginRun, OwnInv, Blank, Default, HoleIn, Answers, KindOf, Tables
  <1> QED
    BY <1>5, <1>6, <1>7, <1>8

(* The answer to one query: the table it asked for, and no other, now has  *)
(* rows of this run.                                                       *)
LEMMA LoadTableStep ==
  CalibrationInv /\ (\E rows \in Answers : LoadTable(rows)) => CalibrationInv'
  <1> SUFFICES ASSUME CalibrationInv, NEW rows \in Answers, LoadTable(rows) PROVE CalibrationInv'
    OBVIOUS
  <1> USE CalibrationAssumption
  <1>12. PICK n : n = Asked.name
    OBVIOUS
  <1> DEFINE placed == Placed(Asked.kind, rows, store[n])
  <1>0. rows \in SUBSET Components
    BY DEF Answers
  <1>1. /\ plugin \in Plugins /\ run \in 0 .. MaxRuns /\ stage = "constants"
        /\ next \in 1 .. Len(ConstantsOf[plugin])
        /\ store \in [Names(plugin) -> [Components -> Entry]]
    <2>1. Len(ConstantsOf[plugin]) \in Nat
      BY TableNames DEF CalibrationInv, CalibrationTypeOK
    <2> QED
      BY <2>1 DEF CalibrationInv, CalibrationTypeOK, LoadTable, Querying
  <1>2. /\ Asked.kind \in Kinds
        /\ Asked.kind = "later" <=> n \in UncheckedAtLoad
        /\ \A j \in 1 .. Len(ConstantsOf[plugin]) : ConstantsOf[plugin][j].name = n => j = next
    BY <1>1, <1>12, TablesWellFormed DEF WellFormed, Asked
  <1>3. n \in Names(plugin) /\ \A j \in 1 .. Len(ConstantsOf[plugin]) : ConstantsOf[plugin][j].name \in Names(plugin)
    BY <1>1, <1>12, TableNames DEF Asked
  <1>4. /\ placed \in [Components -> Entry]
        /\ \A c \in Components : placed[c].run \in {store[n][c].run, run}
        /\ rows # {} /\ Asked.kind # "later" => \E c \in Components : placed[c].run = run
        /\ rows = Components /\ Asked.kind \notin {"first", "later"} =>
             \A c \in Components : placed[c].run = run
        /\ (~HasHole(rows) \/ Asked.kind \in {"array", "channel"}) /\ Asked.kind # "later" =>
             \A c \in Components : placed[c].of \in {store[n][c].of, c}
    <2>1. store[n] \in [Components -> Entry]
      BY <1>1, <1>3
    <2> QED
      BY <1>0, <1>1, <1>2, <2>1, WhatIsPlaced
  <1>5. /\ store' \in [Names(plugin) -> [Components -> Entry]]
        /\ store'[n] = placed
        /\ \A o \in Names(plugin) \ {n} : store'[o] = store[o]
    BY <1>1, <1>3, <1>4, <1>12 DEF LoadTable
  <1> HIDE DEF placed
  <1>6. /\ UNCHANGED <<plugin, hardware, run, stage, tt>> /\ next' = next + 1
        /\ Usable(rows) /\ Answered(rows)
        /\ partial' = partial \cup IF rows = Components THEN {} ELSE {<<n, rows>>}
    BY <1>12 DEF LoadTable
  <1>11. /\ \A o : Incomplete(o) => Incomplete(o)'
         /\ \A o : NoneTaken(o) => NoneTaken(o)'
         /\ \A o : HoleIn(o) => HoleIn(o)'
         /\ rows # Components => Incomplete(n)'
         /\ rows = {} => NoneTaken(n)'
         /\ HasHole(rows) => HoleIn(n)'
    <2>1. \A pair : pair \in partial => pair \in partial'
      BY <1>6
    <2>2. rows # Components => <<n, rows>> \in partial'
      BY <1>6
    <2>3. {} # Components
      <3>1. 1 \in Components
        BY DEF Components
      <3> QED
        BY <3>1
    <2>4. HasHole(rows) => rows # Components
      BY AllComponents
    <2> QED
      BY <2>1, <2>2, <2>3, <2>4 DEF Incomplete, NoneTaken, HoleIn, Answers
  <1>7. CalibrationTypeOK'
    <2>1. gaps' \in 0 .. MaxGaps
      BY <1>6 DEF Answered, Gap, CalibrationInv, CalibrationTypeOK
    <2>3. partial' \subseteq Names(plugin) \X Answers
      BY <1>3, <1>6 DEF CalibrationInv, CalibrationTypeOK
    <2>2. Len(ConstantsOf[plugin]) \in Nat
      BY <1>1, TableNames
    <2> QED
      BY <1>1, <1>5, <1>6, <2>1, <2>2, <2>3 DEF CalibrationInv, CalibrationTypeOK, Entry, Answers
  <1>8. LoadInv'
    <2>1. ASSUME NEW i \in 1 .. next PROVE HasRow(i)'
      <3> DEFINE t == ConstantsOf[plugin][i]
      <3>0. PICK o : o = t.name
        OBVIOUS
      <3>1. SUFFICES ASSUME t.guarded, t.status => hardware, o \notin UncheckedAtLoad
                     PROVE  \/ \E c \in Components : store'[o][c].run = run
                            \/ PassesOver(t) /\ NoneTaken(o)'
        BY <1>6, <3>0 DEF HasRow, PassesOver, NoneTaken
      <3>2. CASE i = next
        <4>1. (rows # {} \/ PassesOver(t)) /\ Asked.kind # "later" /\ o = n
          BY <1>2, <1>6, <1>12, <3>0, <3>1, <3>2 DEF Usable, Asked
        <4> QED
          BY <1>4, <1>5, <1>11, <4>1
      <3>3. CASE i # next
        <4>1. i \in 1 .. next - 1 /\ i \in 1 .. Len(ConstantsOf[plugin])
          BY <1>1, <3>3, TableNames
        <4>2. \/ \E c \in Components : store[o][c].run = run
              \/ PassesOver(t) /\ NoneTaken(o)
          BY <1>1, <3>0, <3>1, <4>1 DEF CalibrationInv, LoadInv, Loading, HasRow
        <4>3. o \in Names(plugin) \ {n}
          BY <1>2, <1>3, <3>0, <3>3, <4>1
        <4> QED
          BY <1>5, <1>11, <4>2, <4>3
      <3> QED
        BY <3>2, <3>3
    <2>3. ASSUME NEW i \in 1 .. next PROVE IsFull(i)'
      <3> DEFINE t == ConstantsOf[plugin][i]
      <3>0. PICK o : o = t.name
        OBVIOUS
      <3>1. SUFFICES ASSUME t.status => hardware, t.kind \notin {"first", "later"},
                            ~Incomplete(o)', NEW c \in Components
                     PROVE  store'[o][c].run = run
        BY <1>6, <3>0 DEF IsFull, Incomplete, Answers
      <3>2. CASE i = next
        <4>1. t = Asked /\ o = n
          BY <1>12, <3>0, <3>2 DEF Asked
        <4>2. rows = Components
          BY <1>11, <3>1, <4>1
        <4> QED
          BY <1>4, <1>5, <3>1, <4>1, <4>2
      <3>3. CASE i # next
        <4>1. i \in 1 .. next - 1 /\ i \in 1 .. Len(ConstantsOf[plugin])
          BY <1>1, <3>3, TableNames
        <4>2. ~Incomplete(o)
          BY <1>11, <3>1
        <4>3. store[o][c].run = run
          BY <1>1, <3>0, <3>1, <4>1, <4>2 DEF CalibrationInv, LoadInv, Loading, IsFull
        <4>4. o \in Names(plugin) \ {n}
          BY <1>2, <1>3, <3>0, <3>3, <4>1
        <4> QED
          BY <1>5, <4>3, <4>4
      <3> QED
        BY <3>2, <3>3
    <2>2. next' - 1 = next /\ stage' = "constants" /\ run' # 0
      BY <1>1, <1>6 DEF CalibrationInv, LoadInv, Loading
    <2> QED
      BY <2>1, <2>2, <2>3 DEF LoadInv
  <1>9. CurrentInv'
    <2>1. ASSUME plugin # "dc", NEW o \in Names(plugin), NEW c \in Components
          PROVE  store'[o][c].run \in {0, run}
      BY <1>3, <1>4, <1>5, <2>1 DEF CalibrationInv, CurrentInv
    <2>2. ~InEvents' /\ stage' # "connect"
      BY <1>1, <1>6 DEF InEvents
    <2> QED
      BY <1>6, <2>1, <2>2 DEF CurrentInv
  <1>10. OwnInv'
    <2>1. SUFFICES ASSUME NEW c \in Components
                   PROVE  /\ tt'[c].of \in {0, c}
                          /\ \A o \in Names(plugin) \ UncheckedAtLoad :
                               (KindOf(o) \notin {"array", "channel"} => ~HoleIn(o)') =>
                                 store'[o][c].of \in {0, c}
      BY <1>6 DEF OwnInv, KindOf, Tables
    <2>2. KindOf(n) = Asked.kind
      <3>1. Asked \in Tables(plugin) /\ \A t \in Tables(plugin) : t.name = n => t = Asked
        BY <1>1, <1>12, TableNames DEF Asked
      <3> QED
        BY <1>12, <3>1 DEF KindOf
    <2>3. tt'[c].of \in {0, c}
      BY <1>6 DEF CalibrationInv, OwnInv
    <2>4. ASSUME NEW o \in Names(plugin) \ UncheckedAtLoad,
                 KindOf(o) \notin {"array", "channel"} => ~HoleIn(o)'
          PROVE  store'[o][c].of \in {0, c}
      <3>1. store[o][c].of \in {0, c}
        BY <1>11, <2>4 DEF CalibrationInv, OwnInv
      <3>2. CASE o # n
        BY <1>5, <3>1, <3>2
      <3>3. CASE o = n
        <4>1. (~HasHole(rows) \/ Asked.kind \in {"array", "channel"}) /\ Asked.kind # "later"
          BY <1>2, <1>11, <2>2, <2>4, <3>3
        <4> QED
          BY <1>4, <1>5, <3>1, <3>3, <4>1
      <3> QED
        BY <3>2, <3>3
    <2> QED
      BY <2>3, <2>4
  <1> QED
    BY <1>7, <1>8, <1>9, <1>10 DEF CalibrationInv

(* A status table that is not asked for needs no row.                      *)
LEMMA SkipStatusStep == CalibrationInv /\ SkipStatus => CalibrationInv'
  <1> SUFFICES ASSUME CalibrationInv, SkipStatus PROVE CalibrationInv'
    OBVIOUS
  <1>0. Len(ConstantsOf[plugin]) \in Nat
    BY TableNames DEF CalibrationInv, CalibrationTypeOK
  <1>1. /\ UNCHANGED <<plugin, hardware, run, stage, store, tt, gaps, partial>> /\ next' = next + 1
        /\ stage = "constants" /\ next \in 1 .. Len(ConstantsOf[plugin])
        /\ Asked.status /\ ~hardware
    BY <1>0 DEF SkipStatus, CalibrationInv, CalibrationTypeOK
  <1>2. CalibrationTypeOK'
    BY <1>0, <1>1 DEF CalibrationInv, CalibrationTypeOK, Entry, Answers
  <1>3. LoadInv'
    <2>1. ASSUME NEW i \in 1 .. next PROVE HasRow(i)' /\ IsFull(i)'
      <3>1. CASE i = next
        BY <1>1, <3>1 DEF HasRow, IsFull, Asked
      <3>2. CASE i # next
        <4>1. i \in 1 .. next - 1
          BY <1>1, <3>2
        <4>2. HasRow(i) /\ IsFull(i)
          BY <1>1, <4>1 DEF CalibrationInv, LoadInv, Loading
        <4> QED
          BY <1>1, <4>2 DEF HasRow, IsFull, PassesOver, NoneTaken, Incomplete, Answers
      <3> QED
        BY <3>1, <3>2
    <2>2. next' - 1 = next /\ stage' = "constants" /\ run' # 0
      BY <1>0, <1>1 DEF CalibrationInv, LoadInv, Loading
    <2> QED
      BY <2>1, <2>2 DEF LoadInv
  <1> QED
    BY <1>1, <1>2, <1>3 DEF CalibrationInv, CurrentInv, InEvents, OwnInv, KindOf, Tables, HoleIn, Answers

(* The translation table replaces that of the last run as a whole.         *)
LEMMA LoadTranslationStep ==
  CalibrationInv /\ (\E rows \in Answers : LoadTranslation(rows)) => CalibrationInv'
  <1> SUFFICES ASSUME CalibrationInv, NEW rows \in Answers, LoadTranslation(rows)
               PROVE  CalibrationInv'
    OBVIOUS
  <1> USE CalibrationAssumption
  <1>0. rows \in SUBSET Components /\ run \in 0 .. MaxRuns
    BY DEF Answers, CalibrationInv, CalibrationTypeOK
  <1>1. /\ UNCHANGED <<plugin, hardware, run, next, store, partial>>
        /\ tt' = Placed("array", rows, Blank) /\ Answered(rows)
        /\ stage = "translation" /\ stage' = "events"
    BY DEF LoadTranslation
  <1>2. Blank \in [Components -> Entry]
    BY <1>0 DEF Blank, Default, Entry
  <1>3. /\ tt' \in [Components -> Entry]
        /\ \A c \in Components : tt'[c].run \in {Blank[c].run, run}
        /\ \A c \in Components : tt'[c].of \in {Blank[c].of, c}
    <2>1. "array" \in Kinds \cap {"array", "channel"} /\ "array" # "later"
      BY DEF Kinds
    <2> QED
      BY <1>0, <1>1, <1>2, <2>1, WhatIsPlaced
  <1>4. gaps' \in 0 .. MaxGaps
    BY <1>1 DEF Answered, Gap, CalibrationInv, CalibrationTypeOK
  <1>5. CalibrationTypeOK'
    BY <1>1, <1>3, <1>4 DEF CalibrationInv, CalibrationTypeOK, Entry, Answers
  <1>6. LoadInv'
    BY <1>1 DEF CalibrationInv, LoadInv, Loading, HasRow, IsFull, PassesOver, NoneTaken, Incomplete, Answers
  <1>7. CurrentInv'
    BY <1>1, <1>3 DEF CalibrationInv, CurrentInv, Blank, Default
  <1>8. OwnInv'
    BY <1>1, <1>3 DEF CalibrationInv, OwnInv, Blank, Default, KindOf, Tables, HoleIn, Answers
  <1> QED
    BY <1>5, <1>6, <1>7, <1>8 DEF CalibrationInv

LEMMA CalibrationNext == CalibrationInv /\ [Next]_vars => CalibrationInv'
  <1> SUFFICES ASSUME CalibrationInv, [Next]_vars PROVE CalibrationInv'
    OBVIOUS
  <1>0. Len(ConstantsOf[plugin]) \in Nat
    BY TableNames DEF CalibrationInv, CalibrationTypeOK
  <1> USE DEF CalibrationInv, CalibrationTypeOK, Entry, LoadInv, Loading, HasRow, IsFull, CurrentInv,
              InEvents, OwnInv, PassesOver, NoneTaken, Incomplete, HoleIn, Answers, KindOf, Tables
  <1>1. CASE Connect
    <2>1. /\ UNCHANGED <<plugin, hardware, run, store, tt, gaps, partial>> /\ next' = 1
          /\ run # 0 /\ stage' \in {"constants", "aborted"}
      BY <1>1 DEF Connect
    <2>2. LoadInv'
      BY <2>1
    <2>3. CalibrationTypeOK'
      BY <1>0, <2>1
    <2>4. CurrentInv'
      BY <2>1
    <2>5. OwnInv'
      BY <2>1
    <2> QED
      BY <2>2, <2>3, <2>4, <2>5
  <1>2. CASE RefuseTable
    BY <1>2 DEF RefuseTable
  <1>3. CASE QueryThrows
    BY <1>3 DEF QueryThrows
  <1>4. CASE ConstantsLoaded
    <2>1. /\ UNCHANGED <<plugin, hardware, run, next, store, tt, gaps, partial>>
          /\ stage = "constants" /\ stage' = "translation" /\ next = Len(ConstantsOf[plugin]) + 1
      BY <1>0, <1>4 DEF ConstantsLoaded
    <2>2. LoadInv'
      BY <2>1
    <2>3. CalibrationTypeOK'
      BY <1>0, <2>1
    <2>4. CurrentInv'
      BY <2>1
    <2>5. OwnInv'
      BY <2>1
    <2> QED
      BY <2>2, <2>3, <2>4, <2>5
  <1>5. CASE RefuseTranslation
    BY <1>5 DEF RefuseTranslation
  <1>6. CASE TranslationThrows
    BY <1>6 DEF TranslationThrows
  <1>7. CASE UNCHANGED vars
    BY <1>7 DEF vars
  <1> HIDE DEF CalibrationInv
  <1> QED
    BY <1>1, <1>2, <1>3, <1>4, <1>5, <1>6, <1>7, BeginRunStep, LoadTableStep, SkipStatusStep,
       LoadTranslationStep
    DEF Next

THEOREM ConstantsInvariant == Spec => []CalibrationInv
  BY CalibrationInit, CalibrationNext, PTL DEF Spec

-----------------------------------------------------------------------------
(* No event is digitized unless every table of constants that the load     *)
(* requires gave this run a row (loadTable and loadConstantsImpl).         *)
THEOREM RequiredTablesAreLoaded == Spec => []RequiredTablesLoaded
  <1>1. ASSUME CalibrationInv PROVE RequiredTablesLoaded
    <2>1. SUFFICES ASSUME InEvents, NEW t \in Tables(plugin)
                   PROVE  t.guarded /\ (t.status => hardware) /\ t.name \notin UncheckedAtLoad =>
                            \/ \E c \in Components : store[t.name][c].run = run
                            \/ PassesOver(t) /\ NoneTaken(t.name)
      BY DEF RequiredTablesLoaded
    <2>2. PICK i \in 1 .. Len(ConstantsOf[plugin]) : t = ConstantsOf[plugin][i]
      BY <1>1, TableNames DEF CalibrationInv, CalibrationTypeOK
    <2>3. i \in 1 .. next - 1
      <3>1. Len(ConstantsOf[plugin]) \in Nat
        BY <1>1, TableNames DEF CalibrationInv, CalibrationTypeOK
      <3> QED
        BY <1>1, <2>1, <2>2, <3>1 DEF CalibrationInv, LoadInv, InEvents
    <2> QED
      BY <1>1, <2>1, <2>2, <2>3 DEF CalibrationInv, LoadInv, Loading, InEvents, HasRow
  <1> QED
    BY <1>1, ConstantsInvariant, PTL

(* The tables digitizing reads are tables of the plugin, and not the ones  *)
(* nothing checks. With a complete answer they hold this run's constants.  *)
LEMMA ReadsAreNames ==
  ASSUME CalibrationInv
  PROVE  /\ Reads \subseteq Names(plugin) \ UncheckedAtLoad
         /\ \A n \in Reads : KindOf(n) \notin {"first", "later"}
         /\ InEvents => \A n \in Reads : Incomplete(n) \/ \A c \in Components : store[n][c].run = run
  <1>1. plugin \in Plugins
    BY DEF CalibrationInv, CalibrationTypeOK
  <1>2. ReadSafely(ConstantsOf[plugin], DigitizeOf[plugin])
    BY <1>1, TablesReadSafely
  <1>3. ASSUME NEW n \in Reads
        PROVE  /\ n \in Names(plugin) \ UncheckedAtLoad
               /\ KindOf(n) \notin {"first", "later"}
               /\ InEvents => Incomplete(n) \/ \A c \in Components : store[n][c].run = run
    <2>1. PICK i \in 1 .. Len(ConstantsOf[plugin]) :
            /\ ConstantsOf[plugin][i].name = n /\ ~ConstantsOf[plugin][i].status
            /\ ConstantsOf[plugin][i].kind \notin {"first", "later"}
      BY <1>2 DEF ReadSafely, Reads
    <2>2. KindOf(n) = ConstantsOf[plugin][i].kind /\ n \in Names(plugin) \ UncheckedAtLoad
      BY <1>1, <1>2, <2>1, TableNames DEF KindOf, ReadSafely, Reads
    <2>3. ASSUME InEvents PROVE IsFull(i)
      <3>1. Len(ConstantsOf[plugin]) \in Nat
        BY <1>1, TableNames
      <3>2. i \in 1 .. next - 1
        BY <2>3, <3>1 DEF CalibrationInv, LoadInv, InEvents
      <3> QED
        BY <2>3, <3>2 DEF CalibrationInv, LoadInv, Loading, InEvents
    <2> QED
      BY <2>1, <2>2, <2>3 DEF IsFull
  <1> QED
    BY <1>3

(* An accepted hit meets no constants of an earlier run, whatever that run *)
(* loaded and this one failed to; of the drift chambers, as long as every  *)
(* answer was complete.                                                    *)
THEOREM NothingIsStale == Spec => []NothingStale
  <1>1. ASSUME CalibrationInv PROVE NothingStale
    <2>1. SUFFICES ASSUME InEvents, NEW c \in Components
                   PROVE  /\ tt[c].run \in {0, run}
                          /\ plugin # "dc" \/ partial = {} =>
                               \A n \in Reads : store[n][c].run \in {0, run}
      BY DEF NothingStale
    <2>2. partial = {} => \A n : ~Incomplete(n)
      BY DEF Incomplete
    <2> QED
      BY <1>1, <2>1, <2>2, ReadsAreNames DEF CalibrationInv, CurrentInv
  <1> QED
    BY <1>1, ConstantsInvariant, PTL

(* What an accepted hit indexes was asked for when the hit began, or is a  *)
(* fixed array (digitizeHitImpl of every plugin), or was loaded for every  *)
(* component.                                                              *)
THEOREM ReadsStayInBounds == Spec => []ReadsInBounds
  <1>1. ASSUME CalibrationInv PROVE ReadsInBounds
    <2>1. SUFFICES ASSUME InEvents, NEW c \in Components, Accepted(c)
                   PROVE  /\ \A n \in Reads : Covers(n, c) \/ (n \in UncheckedAtHit /\ Incomplete(n))
                          /\ \A n \in Firsts : Covers(n, 1)
      BY DEF ReadsInBounds
    <2>2. plugin \in Plugins /\ ReadSafely(ConstantsOf[plugin], DigitizeOf[plugin])
      BY <1>1, TablesReadSafely DEF CalibrationInv, CalibrationTypeOK
    <2>5. \A n \in Firsts : Covers(n, 1)
      BY <2>1, <2>2 DEF Firsts, Accepted, ReadSafely
    <2>6. SUFFICES ASSUME NEW n \in Reads
                   PROVE  Covers(n, c) \/ (n \in UncheckedAtHit /\ Incomplete(n))
      BY <2>5
    <2>7. CASE n \in UncheckedAtHit /\ ~Incomplete(n)
      <3>1. store[n][c].run = run /\ KindOf(n) \notin {"first", "later"}
        BY <1>1, <2>1, <2>6, <2>7, ReadsAreNames
      <3>2. Held(n, c)
        BY <1>1, <2>1, <3>1 DEF Held, Default, CalibrationInv, LoadInv, Loading, InEvents
      <3>3. c >= c
        BY CalibrationAssumption DEF Components
      <3> QED
        BY <2>1, <3>2, <3>3 DEF Covers
    <2>3. CASE n \in DigitizeOf[plugin].covered
      BY <2>1, <2>3 DEF Accepted
    <2>4. CASE n \notin DigitizeOf[plugin].covered \cup UncheckedAtHit
      <3>1. PICK i \in 1 .. Len(ConstantsOf[plugin]) :
              /\ ConstantsOf[plugin][i].name = n
              /\ ConstantsOf[plugin][i].kind \notin {"rows", "channel"}
        BY <2>2, <2>4, <2>6 DEF ReadSafely, Reads
      <3>2. KindOf(n) = ConstantsOf[plugin][i].kind
        BY <2>2, <3>1, TableNames DEF KindOf
      <3> QED
        BY <3>1, <3>2 DEF Covers
    <2> QED
      BY <2>3, <2>4, <2>6, <2>7
  <1> QED
    BY <1>1, ConstantsInvariant, PTL

(* An accepted hit meets its own component's constants, through a table    *)
(* stored by the order of its rows as long as that table had no hole.      *)
THEOREM ConstantsAreOwn == Spec => []OwnConstants
  <1>1. ASSUME CalibrationInv PROVE OwnConstants
    <2>1. SUFFICES ASSUME NEW c \in Components
                   PROVE  /\ tt[c].of \in {0, c}
                          /\ \A n \in Reads :
                               (KindOf(n) \in {"rows", "slots"} => ~HoleIn(n)) => store[n][c].of \in {0, c}
      BY DEF OwnConstants
    <2>2. \A n \in Reads : KindOf(n) \in {"array", "channel", "rows", "slots"}
      <3>1. plugin \in Plugins /\ Reads \subseteq Names(plugin)
        BY <1>1, ReadsAreNames DEF CalibrationInv, CalibrationTypeOK
      <3>2. \A n \in Names(plugin) : KindOf(n) \in Kinds
        <4>1. \A t \in Tables(plugin) : t.kind \in Kinds
          BY <3>1, TableNames, TablesWellFormed DEF WellFormed
        <4> QED
          BY <4>1 DEF Names, KindOf
      <3> QED
        BY <1>1, <3>1, <3>2, ReadsAreNames DEF Kinds
    <2> QED
      BY <1>1, <2>1, <2>2, ReadsAreNames DEF CalibrationInv, OwnInv
  <1> QED
    BY <1>1, ConstantsInvariant, PTL
=============================================================================
