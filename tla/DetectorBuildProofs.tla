---------------------------- MODULE DetectorBuildProofs ----------------------------
(***************************************************************************)
(* The bank a driver that went through leaves, for every number of         *)
(* attempts and whatever coatjava does in each: it is the one its builder  *)
(* functions and one whole table of its own make up, although the table is *)
(* a file that outlives the attempt that wrote it.                         *)
(***************************************************************************)
EXTENDS DetectorProperties, TLAPS

Factory == detector \in FactorySystems
Whole == {TableRows(detector), TableRows(detector) \cup {Unexpected}}
Known == {Classified(detector, r) : r \in {r \in rows : Classified(detector, r) # NoVolume}}

(* The driver is past the beginning of its list.                           *)
Started == Len(todo) < Len(Builders(detector, variation))

BuilderNames ==
    {"build_beamline", "build_solenoid", "build_calorimeter", "build_hodoscope", "build_tracker",
     "build_mother", "build_mirrors", "build_pmts", "build_ltcc", "build_cad", "coatjava",
     "build_ddvcs_back_shields"}
BridgeStates == {"idle", "locate", "run", "read", "unlink", "publish", "failed"}
Calling == {"locate", "run", "read", "unlink", "publish"}

(* What the bridge holds between two of its steps: a table that is to be   *)
(* read was written in this attempt by a factory that exited with 0, and   *)
(* is gone before the first volume is published.                           *)
IInv ==
    /\ bridge \in BridgeStates /\ todo \in Seq(BuilderNames)
    /\ Len(todo) <= Len(Builders(detector, variation))
    /\ Factory => /\ Started \/ (todo = Builders(detector, variation) /\ bridge \in {"idle", "failed"})
                  /\ bridge \in Calling => Started
                  /\ bridge = "read" => /\ table.holds \in {"whole", "surplus", "malformed"}
                                        /\ table.by = tries
                  /\ bridge \in {"unlink", "publish"} => rows \in Whole
                  /\ bridge = "publish" => table = NoTable
                  /\ bridge = "idle" /\ Started =>
                        /\ table = NoTable /\ rows \in Whole /\ Known \subseteq published
                        /\ Unexpected \in rows => detector = "dc"

-----------------------------------------------------------------------------
(* Lists of up to four names.                                              *)
LEMMA Lists ==
    ASSUME NEW S, NEW a \in S, NEW b \in S, NEW c \in S, NEW e \in S,
           NEW list \in {<<a>>, <<a, b>>, <<a, b, c>>, <<a, b, c, e>>}
    PROVE  list \in Seq(S) /\ Len(list) > 0 /\ Head(list) = a
<1>1. CASE list = <<a>>
  BY <1>1
<1>2. CASE list = <<a, b>>
  BY <1>2
<1>3. CASE list = <<a, b, c>>
  BY <1>3
<1>4. CASE list = <<a, b, c, e>>
  BY <1>4
<1> QED BY <1>1, <1>2, <1>3, <1>4, Zenon

(* A driver's list is never empty, and a factory detector's begins with    *)
(* coatjava.                                                               *)
LEMMA BuildersOf ==
    ASSUME NEW d, NEW v
    PROVE  /\ Builders(d, v) \in Seq(BuilderNames) /\ Len(Builders(d, v)) > 0
           /\ d \in FactorySystems => Head(Builders(d, v)) = "coatjava"
<1> DEFINE UpTo4(a, b, c, e) == {<<a>>, <<a, b>>, <<a, b, c>>, <<a, b, c, e>>}
           From(a) == {list \in Seq(BuilderNames) : Len(list) > 0 /\ Head(list) = a}
<1>a. ASSUME NEW a \in BuilderNames, NEW b \in BuilderNames, NEW c \in BuilderNames,
             NEW e \in BuilderNames
      PROVE  UpTo4(a, b, c, e) \subseteq From(a)
  BY Lists
<1>b. /\ "build_beamline" \in BuilderNames /\ "build_solenoid" \in BuilderNames
      /\ "build_calorimeter" \in BuilderNames /\ "build_hodoscope" \in BuilderNames
      /\ "build_tracker" \in BuilderNames /\ "build_mother" \in BuilderNames
      /\ "build_mirrors" \in BuilderNames /\ "build_pmts" \in BuilderNames
      /\ "build_ltcc" \in BuilderNames /\ "build_cad" \in BuilderNames
      /\ "coatjava" \in BuilderNames /\ "build_ddvcs_back_shields" \in BuilderNames
  BY DEF BuilderNames
<1>1. CASE d \in FactorySystems
  <2>1. Builders(d, v) \in UpTo4("coatjava", "build_cad", "coatjava", "coatjava")
                             \cup UpTo4("coatjava", "build_ddvcs_back_shields", "build_cad", "coatjava")
    BY <1>1, Zenon DEF Builders, FactorySystems
  <2>2. Builders(d, v) \in From("coatjava")
    <3> HIDE DEF UpTo4, From
    <3> QED BY <2>1, <1>a, <1>b, Zenon
  <2> QED BY <2>2
<1>2. CASE d \notin FactorySystems
  <2>1. Builders(d, v) \in UpTo4("build_beamline", "build_cad", "coatjava", "coatjava")
                             \cup UpTo4("build_solenoid", "build_cad", "coatjava", "coatjava")
                             \cup UpTo4("build_calorimeter", "build_hodoscope", "build_tracker", "coatjava")
                             \cup UpTo4("build_mother", "build_mirrors", "build_pmts", "build_cad")
                             \cup UpTo4("build_ltcc", "build_cad", "coatjava", "coatjava")
                             \cup UpTo4("coatjava", "coatjava", "coatjava", "coatjava")
    BY <1>2, ZenonT(30) DEF Builders, FactorySystems
  <2>2. \E a \in BuilderNames : Builders(d, v) \in From(a)
    <3> HIDE DEF UpTo4, From
    <3> QED BY <2>1, <1>a, <1>b, ZenonT(30)
  <2> QED BY <1>2, <2>2
<1> QED BY <1>1, <1>2

LEMMA RowsOfWhole ==
    ASSUME NEW holds \in {"whole", "surplus"}
    PROVE  RowsOf(detector, holds) \in Whole
BY DEF RowsOf, Whole

LEMMA InitInvariant == Init => IInv
BY BuildersOf DEF Init, IInv, BridgeStates, Calling, Started, Factory, detector, variation

-----------------------------------------------------------------------------
(* The builders' lists get shorter with every call.                        *)
LEMMA Shorter ==
    ASSUME IInv, todo # <<>>, todo' = Tail(todo), build' = build
    PROVE  /\ todo' \in Seq(BuilderNames) /\ Started'
           /\ Len(todo') <= Len(Builders(detector, variation)')
<1>1. /\ Builders(detector, variation)' = Builders(detector, variation)
      /\ Builders(detector, variation) \in Seq(BuilderNames)
  BY BuildersOf DEF detector, variation
<1>2. todo \in Seq(BuilderNames) /\ Len(todo) <= Len(Builders(detector, variation))
  BY DEF IInv
<1> QED BY <1>1, <1>2 DEF Started

LEMMA CallBuilderKeeps == IInv /\ CallBuilder => IInv'
<1> SUFFICES ASSUME IInv, CallBuilder PROVE IInv'
  OBVIOUS
<1>1. /\ bridge = "idle" /\ todo # <<>> /\ Head(todo) # "coatjava" /\ published \subseteq published'
      /\ todo' = Tail(todo) /\ UNCHANGED <<bridge, table, rows, tries, build>>
  BY DEF CallBuilder
<1>2. todo' \in Seq(BuilderNames) /\ Started' /\ Len(todo') <= Len(Builders(detector, variation)')
  BY <1>1, Shorter
<1>3. Factory => Started
  BY <1>1, BuildersOf DEF IInv, Factory
<1>4. detector' = detector /\ Known' = Known /\ Whole' = Whole /\ (Factory' <=> Factory)
  BY <1>1 DEF detector, Known, Whole, Factory
<1> QED BY <1>1, <1>2, <1>3, <1>4 DEF IInv, Calling

LEMMA CallCoatjavaKeeps == IInv /\ CallCoatjava => IInv'
<1> SUFFICES ASSUME IInv, CallCoatjava PROVE IInv'
  OBVIOUS
<1>1. /\ todo # <<>> /\ bridge' = "locate" /\ todo' = Tail(todo)
      /\ UNCHANGED <<table, rows, tries, published, build>>
  BY DEF CallCoatjava
<1>2. todo' \in Seq(BuilderNames) /\ Started' /\ Len(todo') <= Len(Builders(detector, variation)')
  BY <1>1, Shorter
<1> QED BY <1>1, <1>2 DEF IInv, BridgeStates

(* A step of the bridge that leaves the lists alone.                       *)
LEMMA SameDriver ==
    ASSUME IInv, UNCHANGED <<build, todo>>
    PROVE  /\ todo' \in Seq(BuilderNames) /\ Len(todo') <= Len(Builders(detector, variation)')
           /\ (Started' <=> Started) /\ (Factory' <=> Factory) /\ Whole' = Whole
           /\ detector' = detector /\ variation' = variation
BY DEF IInv, Started, Factory, Whole, detector, variation

LEMMA LocateKeeps ==
    ASSUME IInv, NEW jars, NEW withClass, NEW usable, LocateFactory(jars, withClass, usable),
           UNCHANGED <<build, todo>>
    PROVE  IInv'
<1>1. bridge = "locate" /\ bridge' \in {"failed", "run"}
  BY DEF LocateFactory
<1>2. Factory => Started
  BY <1>1 DEF IInv, Calling
<1> QED BY <1>1, <1>2, SameDriver DEF IInv, BridgeStates

LEMMA RunKeeps ==
    ASSUME IInv, NEW holds, NEW exit, RunFactory(holds, exit), UNCHANGED <<build, todo>>,
           exit = 0 => holds \in {"whole", "surplus", "malformed"}
    PROVE  IInv'
<1>1. /\ bridge = "run" /\ bridge' = (IF exit = 0 THEN "read" ELSE "failed") /\ tries' = tries
      /\ table' = IF holds = "nothing" THEN table ELSE [by |-> tries, holds |-> holds]
  BY DEF RunFactory
<1>2. Factory => Started
  BY <1>1 DEF IInv, Calling
<1>3. bridge' = "read" => table'.holds \in {"whole", "surplus", "malformed"} /\ table'.by = tries'
  BY <1>1
<1> QED BY <1>1, <1>2, <1>3, SameDriver DEF IInv, BridgeStates

LEMMA ReadKeeps == IInv /\ ReadVolumes(detector) /\ UNCHANGED <<build, todo>> => IInv'
<1> SUFFICES ASSUME IInv, ReadVolumes(detector), UNCHANGED <<build, todo>> PROVE IInv'
  OBVIOUS
<1>1. bridge = "read" /\ bridge' \in {"failed", "unlink"}
  BY DEF ReadVolumes
<1>2. Factory => Started /\ table.holds \in {"whole", "surplus", "malformed"}
  BY <1>1 DEF IInv, Calling
<1>3. Factory /\ bridge' = "unlink" => rows' \in Whole
  BY <1>2, RowsOfWhole DEF ReadVolumes
<1> QED BY <1>1, <1>2, <1>3, SameDriver DEF IInv, BridgeStates

LEMMA UnlinkKeeps == IInv /\ UnlinkTable /\ UNCHANGED <<build, todo>> => IInv'
<1> SUFFICES ASSUME IInv, UnlinkTable, UNCHANGED <<build, todo>> PROVE IInv'
  OBVIOUS
<1>1. bridge = "unlink" /\ bridge' = "publish" /\ table' = NoTable /\ rows' = rows
  BY DEF UnlinkTable
<1> QED BY <1>1, SameDriver DEF IInv, BridgeStates, Calling

(* All known rows are published, or the attempt has failed.                *)
LEMMA PublishKeeps ==
    ASSUME IInv, NEW last \in BOOLEAN, PublishRows(detector, last), UNCHANGED <<build, todo>>
    PROVE  IInv'
<1> DEFINE known == {r \in rows : Classified(detector, r) # NoVolume}
           stops == known # rows /\ detector # "dc"
<1>1. /\ bridge = "publish" /\ bridge' = (IF stops THEN "failed" ELSE "idle")
      /\ ~stops => published' = published \cup {Classified(detector, r) : r \in known}
      /\ UNCHANGED <<table, rows, tries>>
  BY DEF PublishRows
<1>2. Factory => Started /\ rows \in Whole /\ table = NoTable
  BY <1>1 DEF IInv, Calling
<1>3. Known' = Known /\ (~stops => Known \subseteq published')
  BY <1>1, SameDriver DEF Known
<1>4. Factory /\ ~stops /\ Unexpected \in rows => detector = "dc"
  BY RowsAssumption DEF Factory
<1>5. bridge' = "idle" => ~stops
  BY <1>1
<1> HIDE DEF stops
<1>6. bridge' \in {"idle", "failed"}
  BY <1>1
<1> QED BY <1>1, <1>2, <1>3, <1>4, <1>5, <1>6, SameDriver DEF IInv, BridgeStates

LEMMA BridgeKeeps == IInv /\ Bridge => IInv'
<1> SUFFICES ASSUME IInv, GenerateVolumes(detector), UNCHANGED <<build, todo>> PROVE IInv'
  BY DEF Bridge
<1>1. CASE \E jars \in SUBSET {"complete", "broken"},
              withClass \in SUBSET {"COATJAVA_FACTORY_CLASSES", "build"},
              usable \in {{}, {"PATH"}, {"JAVA_HOME", "PATH"}} : LocateFactory(jars, withClass, usable)
  BY <1>1, LocateKeeps
<1>2. CASE \E holds \in {"whole", "surplus", "malformed"} : RunFactory(holds, 0)
  BY <1>2, RunKeeps
<1>3. CASE \E holds \in {"nothing", "part"} : RunFactory(holds, 1)
  BY <1>3, RunKeeps
<1>4. CASE ReadVolumes(detector)
  BY <1>4, ReadKeeps
<1>5. CASE UnlinkTable
  BY <1>5, UnlinkKeeps
<1>6. CASE \E last \in BOOLEAN : PublishRows(detector, last)
  BY <1>6, PublishKeeps
<1> QED BY <1>1, <1>2, <1>3, <1>4, <1>5, <1>6 DEF GenerateVolumes

LEMMA InterruptedKeeps == IInv /\ Interrupted => IInv'
<1> SUFFICES ASSUME IInv, Interrupted PROVE IInv'
  OBVIOUS
<1>1. bridge \in Calling /\ bridge' = "failed" /\ UNCHANGED <<table, rows, tries, published, build, todo>>
  BY DEF Interrupted, Calling
<1> QED BY <1>1, SameDriver DEF IInv, BridgeStates, Calling

(* A driver that is run again is at the beginning of its list.             *)
LEMMA RunAgainKeeps == IInv /\ RunAgain => IInv'
<1> SUFFICES ASSUME IInv, RunAgain PROVE IInv'
  OBVIOUS
<1>1. bridge' = "idle" /\ todo' = Builders(detector, variation) /\ build' = build
  BY DEF RunAgain
<1>2. /\ Builders(detector, variation)' = Builders(detector, variation)
      /\ Builders(detector, variation) \in Seq(BuilderNames)
  BY <1>1, BuildersOf DEF detector, variation
<1>3. ~Started' /\ todo' \in Seq(BuilderNames) /\ Len(todo') <= Len(Builders(detector, variation)')
  BY <1>1, <1>2 DEF Started
<1> QED BY <1>1, <1>2, <1>3 DEF IInv, BridgeStates, Calling

LEMMA StutterKeeps == IInv /\ UNCHANGED vars => IInv'
<1> SUFFICES ASSUME IInv, UNCHANGED vars PROVE IInv'
  OBVIOUS
<1>1. UNCHANGED <<bridge, table, rows, tries, published, build, todo>>
  BY DEF vars, bridgeVars
<1>2. Known' = Known
  BY <1>1 DEF Known, detector
<1> QED BY <1>1, <1>2, SameDriver DEF IInv

LEMMA InvariantHolds == Spec => []IInv
<1>1. IInv /\ [Next]_vars => IInv'
  BY CallBuilderKeeps, CallCoatjavaKeeps, BridgeKeeps, InterruptedKeeps, RunAgainKeeps, StutterKeeps
     DEF Next
<1> QED BY InitInvariant, <1>1, PTL DEF Spec

(* The table a driver that went through has read is gone, and held no row  *)
(* that its detector does not expect.                                      *)
LEMMA TableOfDriver ==
    ASSUME IInv, done, Factory
    PROVE  table = NoTable /\ (Unexpected \in rows => detector = "dc")
<1>1. bridge = "idle" /\ Started
  BY BuildersOf DEF done, Started
<1> QED BY <1>1 DEF IInv

-----------------------------------------------------------------------------
(* The bank, function by function.  Between two functions it holds the     *)
(* volumes of those that were called, and while coatjava's bridge is at    *)
(* work those of the functions before it.                                  *)
Called == Len(Builders(detector, variation)) - Len(todo)

PartAt(i) == PartOf(detector, variation, Builders(detector, variation)[i])

BankUpTo(n) == UNION {PartAt(i) : i \in 1 .. n}

BankInv ==
    /\ build \in Builds
    /\ \A i \in 1 .. Len(todo) : todo[i] = Builders(detector, variation)[Called + i]
    /\ bridge = "idle" => published = BankUpTo(Called)
    /\ bridge \in Calling =>
          /\ Called > 0 /\ Builders(detector, variation)[Called] = "coatjava"
          /\ published = BankUpTo(Called - 1)

(* Counting the functions called, and those still to be called.            *)
LEMMA CalledCount ==
    ASSUME IInv
    PROVE  /\ Called \in Nat /\ Called + Len(todo) = Len(Builders(detector, variation))
           /\ todo \in Seq(BuilderNames) /\ Len(todo) \in Nat
<1>1. /\ Builders(detector, variation) \in Seq(BuilderNames) /\ todo \in Seq(BuilderNames)
      /\ Len(todo) <= Len(Builders(detector, variation))
  BY BuildersOf DEF IInv
<1> QED BY <1>1 DEF Called

LEMMA BankGrows ==
    ASSUME NEW n \in Nat
    PROVE  BankUpTo(n + 1) = BankUpTo(n) \cup PartAt(n + 1)
<1> DEFINE S == {PartAt(i) : i \in 1 .. n}
           T == {PartAt(i) : i \in 1 .. (n + 1)}
<1>1. 1 .. (n + 1) = (1 .. n) \cup {n + 1}
  OBVIOUS
<1>2. T = S \cup {PartAt(n + 1)}
  BY <1>1, Zenon
<1>3. UNION T = (UNION S) \cup PartAt(n + 1)
  <2> HIDE DEF S, T
  <2> QED BY <1>2
<1> QED BY <1>3 DEF BankUpTo

(* Only a factory detector has coatjava in its list.                       *)
LEMMA CoatjavaIsFactory ==
    ASSUME NEW b \in Builds, NEW v, NEW i \in DOMAIN Builders(b[1], v), Builders(b[1], v)[i] = "coatjava"
    PROVE  b[1] \in FactorySystems
<1>1. b[1] \in {"beamline", "magnets", "ft", "htcc", "ltcc"} \cup FactorySystems
  BY BuildsAssumption
<1>2. CASE b[1] = "beamline"
  <2>1. Builders(b[1], v) \in {<<"build_beamline">>, <<"build_beamline", "build_cad">>}
    BY <1>2 DEF Builders
  <2> QED BY <2>1
<1>3. CASE b[1] = "magnets"
  <2>1. Builders(b[1], v) = <<"build_solenoid", "build_cad">>
    BY <1>3 DEF Builders
  <2> QED BY <2>1
<1>4. CASE b[1] = "ft"
  <2>1. Builders(b[1], v) \in {<<"build_calorimeter", "build_hodoscope">>,
                               <<"build_calorimeter", "build_hodoscope", "build_tracker">>}
    BY <1>4 DEF Builders
  <2> QED BY <2>1
<1>5. CASE b[1] = "htcc"
  <2>1. Builders(b[1], v) = <<"build_mother", "build_mirrors", "build_pmts", "build_cad">>
    BY <1>5 DEF Builders
  <2> QED BY <2>1
<1>6. CASE b[1] = "ltcc"
  <2>1. Builders(b[1], v) = <<"build_ltcc", "build_cad">>
    BY <1>6 DEF Builders
  <2> QED BY <2>1
<1> QED BY <1>1, <1>2, <1>3, <1>4, <1>5, <1>6

(* The next function of the list leaves it.                                *)
LEMMA NextFunction ==
    ASSUME IInv, BankInv, todo # <<>>, todo' = Tail(todo), build' = build
    PROVE  /\ Called' = Called + 1
           /\ Head(todo) = Builders(detector, variation)[Called + 1]
           /\ Called + 1 \in DOMAIN Builders(detector, variation)
           /\ (\A i \in 1 .. Len(todo) : todo[i] = Builders(detector, variation)[Called + i])'
           /\ build' \in Builds
           /\ \A n : BankUpTo(n)' = BankUpTo(n)
           /\ Builders(detector, variation)' = Builders(detector, variation)
<1>1. /\ todo \in Seq(BuilderNames) /\ Called \in Nat /\ Len(todo) \in Nat /\ Len(todo) > 0
      /\ Called + Len(todo) = Len(Builders(detector, variation))
      /\ Builders(detector, variation) \in Seq(BuilderNames)
  BY CalledCount, BuildersOf
<1>2. Builders(detector, variation)' = Builders(detector, variation)
  BY DEF detector, variation
<1>3. Len(todo') = Len(todo) - 1 /\ \A i \in 1 .. Len(todo') : todo'[i] = todo[i + 1]
  BY <1>1
<1>4. Called' = Called + 1
  BY <1>1, <1>2, <1>3 DEF Called
<1>5. Head(todo) = todo[1] /\ 1 \in 1 .. Len(todo)
  BY <1>1
<1>6. Called + 1 \in DOMAIN Builders(detector, variation)
  BY <1>1
<1>7. ASSUME NEW i \in 1 .. Len(todo') PROVE todo'[i] = Builders(detector, variation)[Called' + i]
  <2>1. i + 1 \in 1 .. Len(todo) /\ Called' + i = Called + (i + 1)
    BY <1>1, <1>3, <1>4
  <2> QED BY <1>3, <2>1 DEF BankInv
<1>8. \A n : BankUpTo(n)' = BankUpTo(n)
  BY DEF BankUpTo, PartAt, detector, variation
<1> QED BY <1>2, <1>4, <1>5, <1>6, <1>7, <1>8 DEF BankInv

LEMMA CallBuilderBank == IInv /\ BankInv /\ CallBuilder => BankInv'
<1> SUFFICES ASSUME IInv, BankInv, CallBuilder PROVE BankInv'
  OBVIOUS
<1>1. /\ bridge = "idle" /\ bridge' = "idle" /\ todo # <<>> /\ Head(todo) # "coatjava"
      /\ published' = published \cup Built(detector, variation, Head(todo))
      /\ todo' = Tail(todo) /\ build' = build
  BY DEF CallBuilder
<1>2. Called \in Nat /\ published = BankUpTo(Called)
  BY <1>1, CalledCount DEF BankInv
<1>3. PartAt(Called + 1) = Built(detector, variation, Head(todo))
  BY <1>1, NextFunction DEF PartAt, PartOf
<1>4. published' = BankUpTo(Called + 1)
  BY <1>1, <1>2, <1>3, BankGrows
<1>5. (published = BankUpTo(Called))'
  BY <1>1, <1>4, NextFunction
<1> QED BY <1>1, <1>5, NextFunction DEF BankInv, Calling

LEMMA CallCoatjavaBank == IInv /\ BankInv /\ CallCoatjava => BankInv'
<1> SUFFICES ASSUME IInv, BankInv, CallCoatjava PROVE BankInv'
  OBVIOUS
<1>1. /\ bridge = "idle" /\ bridge' = "locate" /\ todo # <<>> /\ Head(todo) = "coatjava"
      /\ todo' = Tail(todo) /\ UNCHANGED <<published, build>>
  BY DEF CallCoatjava
<1>2. Called \in Nat /\ published = BankUpTo(Called)
  BY <1>1, CalledCount DEF BankInv
<1>3. (published = BankUpTo(Called - 1))' /\ (Called > 0)'
  BY <1>1, <1>2, NextFunction
<1>4. (Builders(detector, variation)[Called] = "coatjava")'
  BY <1>1, NextFunction
<1> QED BY <1>1, <1>3, <1>4, NextFunction DEF BankInv

(* A step that calls no function.                                          *)
LEMMA SameFunctions ==
    ASSUME IInv, BankInv, UNCHANGED <<build, todo>>
    PROVE  /\ Called' = Called /\ \A n : BankUpTo(n)' = BankUpTo(n)
           /\ Builders(detector, variation)' = Builders(detector, variation)
           /\ build' \in Builds
           /\ (\A i \in 1 .. Len(todo) : todo[i] = Builders(detector, variation)[Called + i])'
<1>1. /\ Builders(detector, variation)' = Builders(detector, variation) /\ todo' = todo
      /\ Called' = Called /\ build' \in Builds
  BY DEF BankInv, Called, detector, variation
<1>2. \A n : BankUpTo(n)' = BankUpTo(n)
  BY DEF BankUpTo, PartAt, detector, variation
<1> QED BY <1>1, <1>2 DEF BankInv

(* The rows of a whole table become the volumes of a whole table.          *)
LEMMA KnownRows ==
    ASSUME Factory, rows \in Whole
    PROVE  Known = {Classified(detector, r) : r \in TableRows(detector)}
<1>1. /\ \A r \in TableRows(detector) : Classified(detector, r) # NoVolume
      /\ Classified(detector, Unexpected) = NoVolume
  BY RowsAssumption DEF Factory
<1>2. {r \in rows : Classified(detector, r) # NoVolume} = TableRows(detector)
  BY <1>1 DEF Whole
<1> QED BY <1>2 DEF Known

LEMMA PublishBank ==
    ASSUME IInv, BankInv, NEW last \in BOOLEAN, PublishRows(detector, last), UNCHANGED <<build, todo>>
    PROVE  BankInv'
<1> DEFINE known == {r \in rows : Classified(detector, r) # NoVolume}
           stops == known # rows /\ detector # "dc"
<1>1. /\ bridge = "publish" /\ bridge' = (IF stops THEN "failed" ELSE "idle")
      /\ ~stops => published' = published \cup {Classified(detector, r) : r \in known}
  BY DEF PublishRows
<1>2. bridge' = "idle" => published' = published \cup Known
  BY <1>1 DEF Known
<1>3. bridge' \in {"idle", "failed"}
  BY <1>1
<1> HIDE DEF known, stops
<1>4. /\ Called \in Nat /\ Called > 0 /\ published = BankUpTo(Called - 1)
      /\ Builders(detector, variation)[Called] = "coatjava"
  BY <1>1, CalledCount DEF BankInv, Calling
<1>5. Factory
  <2>1. Called \in DOMAIN Builders(detector, variation)
    BY <1>4, CalledCount, BuildersOf
  <2>2. build \in Builds
    BY DEF BankInv
  <2> QED BY <1>4, <2>1, <2>2, CoatjavaIsFactory DEF Factory, detector, variation
<1>6. PartAt(Called) = Known
  BY <1>1, <1>4, <1>5, KnownRows DEF PartAt, PartOf, IInv
<1>7. BankUpTo(Called) = BankUpTo(Called - 1) \cup PartAt(Called)
  <2>1. PICK n \in Nat : Called = n + 1 /\ Called - 1 = n
    BY <1>4
  <2> QED BY <2>1, BankGrows
<1>8. bridge' = "idle" => (published = BankUpTo(Called))'
  BY <1>2, <1>4, <1>6, <1>7, SameFunctions
<1> QED BY <1>3, <1>8, SameFunctions DEF BankInv, Calling

LEMMA BridgeBank == IInv /\ BankInv /\ Bridge => BankInv'
<1> SUFFICES ASSUME IInv, BankInv, GenerateVolumes(detector), UNCHANGED <<build, todo>> PROVE BankInv'
  BY DEF Bridge
<1>1. CASE \E last \in BOOLEAN : PublishRows(detector, last)
  BY <1>1, PublishBank
<1>2. ASSUME bridge \in Calling, bridge' \in Calling \cup {"failed"}, published' = published PROVE BankInv'
  <2>1. "idle" \notin Calling \cup {"failed"} /\ "failed" \notin Calling
    BY DEF Calling
  <2> QED BY <1>2, <2>1, SameFunctions DEF BankInv
<1>3. CASE \E jars \in SUBSET {"complete", "broken"},
              withClass \in SUBSET {"COATJAVA_FACTORY_CLASSES", "build"},
              usable \in {{}, {"PATH"}, {"JAVA_HOME", "PATH"}} : LocateFactory(jars, withClass, usable)
  <2>1. bridge = "locate" /\ bridge' \in {"failed", "run"} /\ published' = published
    BY <1>3 DEF LocateFactory
  <2> QED BY <1>2, <2>1 DEF Calling
<1>4. CASE \/ \E holds \in {"whole", "surplus", "malformed"} : RunFactory(holds, 0)
           \/ \E holds \in {"nothing", "part"} : RunFactory(holds, 1)
  <2>1. bridge = "run" /\ bridge' \in {"failed", "read"} /\ published' = published
    BY <1>4 DEF RunFactory
  <2> QED BY <1>2, <2>1 DEF Calling
<1>5. CASE ReadVolumes(detector) \/ UnlinkTable
  <2>1. /\ bridge \in {"read", "unlink"} /\ bridge' \in {"failed", "unlink", "publish"}
        /\ published' = published
    BY <1>5 DEF ReadVolumes, UnlinkTable
  <2> QED BY <1>2, <2>1 DEF Calling
<1> QED BY <1>1, <1>3, <1>4, <1>5 DEF GenerateVolumes

LEMMA InterruptedBank == IInv /\ BankInv /\ Interrupted => BankInv'
BY SameFunctions DEF Interrupted, BankInv, Calling

(* The driver that is run again has called nothing and published nothing.  *)
LEMMA AtTheStart ==
    ASSUME NEW b \in Builds, build' = b, todo' = Builders(b[1], b[2]), bridge' = "idle", published' = {}
    PROVE  BankInv'
<1>1. Builders(detector, variation)' = todo' /\ Len(todo') \in Nat
  BY BuildersOf DEF detector, variation
<1>2. Called' = 0
  BY <1>1 DEF Called
<1>3. BankUpTo(Called)' = {}
  BY <1>2 DEF BankUpTo
<1>4. \A i \in 1 .. Len(todo') : todo'[i] = Builders(detector, variation)'[Called' + i]
  BY <1>1, <1>2
<1> QED BY <1>3, <1>4 DEF BankInv, Calling

LEMMA BankNext == IInv /\ BankInv /\ [Next]_vars => BankInv'
<1> SUFFICES ASSUME IInv, BankInv, [Next]_vars PROVE BankInv'
  OBVIOUS
<1>1. CASE RunAgain
  BY <1>1, AtTheStart DEF RunAgain, BankInv, detector, variation
<1>2. CASE UNCHANGED vars
  <2>1. UNCHANGED <<bridge, published, build, todo>>
    BY <1>2 DEF vars, bridgeVars
  <2> QED BY <2>1, SameFunctions DEF BankInv
<1> QED BY <1>1, <1>2, CallBuilderBank, CallCoatjavaBank, BridgeBank, InterruptedBank DEF Next

LEMMA BankInit == Init => BankInv
<1> SUFFICES ASSUME Init PROVE BankInv
  OBVIOUS
<1>1. Builders(detector, variation) = todo /\ Len(todo) \in Nat
  BY BuildersOf DEF Init, detector, variation
<1>2. Called = 0
  BY <1>1 DEF Called
<1>3. BankUpTo(Called) = {}
  BY <1>2 DEF BankUpTo
<1>4. \A i \in 1 .. Len(todo) : todo[i] = Builders(detector, variation)[Called + i]
  BY <1>1, <1>2
<1> QED BY <1>3, <1>4 DEF Init, BankInv, Calling

(* For every number of attempts and whatever the installation, Java and    *)
(* the factory do in each of them, what a driver that went through has     *)
(* published depends on the detector and the variation alone, and its rows *)
(* are those of a whole table of its own attempt: BankIsWhole (coatjava.py *)
(* run_factory, read_volumes, generate_volumes; the drivers' main).        *)
THEOREM BankIsAlwaysWhole == Spec => []BankIsWhole
<1>1. IInv /\ BankInv => BankIsWhole
  <2> SUFFICES ASSUME IInv, BankInv, done PROVE published = BankOf(detector, variation)
    BY TableOfDriver DEF BankIsWhole, Factory
  <2>1. Called = Len(Builders(detector, variation)) /\ published = BankUpTo(Called)
    BY CalledCount DEF done, BankInv
  <2>2. DOMAIN Builders(detector, variation) = 1 .. Called
    BY <2>1, BuildersOf
  <2> QED BY <2>1, <2>2 DEF BankUpTo, PartAt, BankOf
<1> QED BY <1>1, BankInit, BankNext, InvariantHolds, PTL DEF Spec

-----------------------------------------------------------------------------
(* The channel of a PCAL strip by its view, its kind and its number.       *)
SingleId(u, n) == PcalStripId(u, "single", n)
DoubleId(u, k) == PcalStripId(u, "double", k)

LEMMA HalfOfPair ==
    ASSUME NEW m \in Nat, NEW k \in Nat
    PROVE  HalfUp(m) = k <=> m \in {2 * k - 1, 2 * k}
BY SMT DEF HalfUp

(* The channels of a PCAL view, for any number of strips: two single       *)
(* strips share a channel only as the two of one pair, no two double       *)
(* strips share one, and a double strip has the channel of exactly the two *)
(* singles it stands for.  The formula of pcal_strip_id, with its three    *)
(* ranges, leaves no channel to be read out by strips that are not beside  *)
(* each other, as long as V and W have no more than 15 double strips       *)
(* (pcal/geometry.py pcal_strip_id, build_strip).                          *)
THEOREM PcalChannels ==
    ASSUME NEW u \in Uvw, NEW m \in Nat \ {0}, NEW n \in Nat \ {0}, NEW k \in Nat \ {0}, NEW l \in Nat \ {0},
           u # "U" => k <= 15
    PROVE  /\ SingleId(u, m) = SingleId(u, n) => m = n \/ \E j \in Nat : {m, n} = PairOf(u, j)
           /\ DoubleId(u, k) = DoubleId(u, l) => k = l
           /\ SingleId(u, m) = DoubleId(u, k) <=> m \in PairOf(u, k)
<1>1. CASE u = "U"
  <2>1. PairsFrom(u) = 52
    BY <1>1 DEF PairsFrom
  <2>2. /\ SingleId(u, m) = IF m <= 52 THEN m ELSE HalfUp(m - 52) + 52
        /\ SingleId(u, n) = IF n <= 52 THEN n ELSE HalfUp(n - 52) + 52
        /\ DoubleId(u, k) = k + 52 /\ DoubleId(u, l) = l + 52
    BY <1>1 DEF SingleId, DoubleId, PcalStripId
  <2>3. DoubleId(u, k) = DoubleId(u, l) => k = l
    BY <2>1, <2>2
  <2>4. SingleId(u, m) = DoubleId(u, k) <=> m \in PairOf(u, k)
    <3>1. CASE m <= 52
      BY <2>1, <2>2, <3>1 DEF PairOf
    <3>2. CASE m > 52
      <4>1. m - 52 \in Nat /\ k \in Nat
        BY <2>1, <3>2
      <4>2. SingleId(u, m) = DoubleId(u, k) <=> HalfUp(m - 52) = k
        BY <2>1, <2>2, <3>2 DEF HalfUp
      <4>3. HalfUp(m - 52) = k <=> m - 52 \in {2 * k - 1, 2 * k}
        BY <4>1, HalfOfPair
      <4> QED BY <2>1, <4>2, <4>3 DEF PairOf
    <3> QED BY <2>1, <3>1, <3>2
  <2>5. ASSUME SingleId(u, m) = SingleId(u, n), m # n
        PROVE  \E j \in Nat : {m, n} = PairOf(u, j)
    <3>1. m > 52 /\ n > 52 /\ HalfUp(m - 52) = HalfUp(n - 52)
      BY <2>1, <2>2, <2>5 DEF HalfUp
    <3>2. PICK j \in Nat : j = HalfUp(m - 52)
      BY <2>1, <3>1 DEF HalfUp
    <3>3. m - 52 \in {2 * j - 1, 2 * j} /\ n - 52 \in {2 * j - 1, 2 * j}
      <4>1. m - 52 \in Nat /\ n - 52 \in Nat /\ j \in Nat /\ HalfUp(m - 52) = j /\ HalfUp(n - 52) = j
        BY <2>1, <3>1, <3>2
      <4> QED BY ONLY <4>1, HalfOfPair
    <3>4. {m, n} = PairOf(u, j)
      BY <2>1, <2>5, <3>3 DEF PairOf
    <3> QED BY <2>1, <3>2, <3>4
  <2> QED BY <2>3, <2>4, <2>5
<1>2. CASE u # "U"
  <2>1. PairsFrom(u) = 0 /\ k <= 15
    BY <1>2 DEF PairsFrom
  <2>2. /\ SingleId(u, m) = IF m > 30 THEN m - 15 ELSE HalfUp(m)
        /\ SingleId(u, n) = IF n > 30 THEN n - 15 ELSE HalfUp(n)
        /\ DoubleId(u, k) = k /\ DoubleId(u, l) = l
    BY <1>2 DEF SingleId, DoubleId, PcalStripId
  <2>3. DoubleId(u, k) = DoubleId(u, l) => k = l
    BY <2>2
  <2>4. SingleId(u, m) = DoubleId(u, k) <=> m \in PairOf(u, k)
    <3>1. CASE m > 30
      BY <2>1, <2>2, <3>1 DEF PairOf
    <3>2. CASE m <= 30
      <4>1. HalfUp(m) = k <=> m \in {2 * k - 1, 2 * k}
        BY <2>1, HalfOfPair
      <4> QED BY <2>1, <2>2, <3>2, <4>1 DEF PairOf
    <3> QED BY <2>1, <3>1, <3>2
  <2>5. ASSUME SingleId(u, m) = SingleId(u, n), m # n
        PROVE  \E j \in Nat : {m, n} = PairOf(u, j)
    <3>1. m <= 30 /\ n <= 30 /\ HalfUp(m) = HalfUp(n)
      BY <2>1, <2>2, <2>5 DEF HalfUp
    <3>2. PICK j \in Nat : j = HalfUp(m)
      BY <2>1, <3>1 DEF HalfUp
    <3>3. m \in {2 * j - 1, 2 * j} /\ n \in {2 * j - 1, 2 * j}
      <4>1. m \in Nat /\ n \in Nat /\ j \in Nat /\ HalfUp(m) = j /\ HalfUp(n) = j
        BY <2>1, <3>1, <3>2
      <4> QED BY ONLY <4>1, HalfOfPair
    <3>4. {m, n} = PairOf(u, j)
      BY <2>1, <2>5, <3>3 DEF PairOf
    <3> QED BY <2>1, <3>2, <3>4
  <2> QED BY <2>3, <2>4, <2>5
<1> QED BY <1>1, <1>2
=============================================================================
