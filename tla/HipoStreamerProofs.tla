-------------------------- MODULE HipoStreamerProofs --------------------------
(* What a HIPO file holds, for any set of detectors, number of events and  *)
(* hits: the proof follows the event in the making, publication by         *)
(* publication, and needs nothing of the order in which GEMC makes them.   *)
EXTENDS HipoStreamer, FiniteSetTheorems, WellFoundedInduction, TLAPS

-----------------------------------------------------------------------------
(* The schemas.                                                            *)

Types == {"adc", "tdc"}

RunConfig == <<"RUN", "config">>
Truth == <<"MC", "True">>

(* Banks of the event, and banks of different detectors, differ.           *)
LEMMA SchemasDiffer ==
  /\ RunConfig \in schemasToLoad /\ Truth \in schemasToLoad /\ RunConfig # Truth
  /\ <<"MC", "Particle">> \in schemasToLoad /\ <<"MC", "Event">> \in schemasToLoad
  /\ {<<"MC", "Particle">>, <<"MC", "Event">>} \cap {RunConfig, Truth} = {}
  /\ empty \notin schemasToLoad
  /\ \A d \in AllDetectors, t \in Types :
       /\ getSchema(d, t) \in schemasToLoad \cup {empty}
       /\ getSchema(d, t) \notin {RunConfig, Truth, <<"MC", "Particle">>, <<"MC", "Event">>}
       /\ \A o \in AllDetectors \ {d}, u \in Types :
            getSchema(d, t) = getSchema(o, u) => getSchema(d, t) = empty
  <1> USE DEF schemasToLoad, empty, RunConfig, Truth, Types
  <1>1. /\ RunConfig \in schemasToLoad /\ Truth \in schemasToLoad /\ RunConfig # Truth
        /\ <<"MC", "Particle">> \in schemasToLoad /\ <<"MC", "Event">> \in schemasToLoad
        /\ {<<"MC", "Particle">>, <<"MC", "Event">>} \cap {RunConfig, Truth} = {}
        /\ empty \notin schemasToLoad
    OBVIOUS
  <1>2. \A d \in AllDetectors, t \in Types :
          /\ getSchema(d, t) \in schemasToLoad \cup {empty}
          /\ getSchema(d, t) \notin {RunConfig, Truth, <<"MC", "Particle">>, <<"MC", "Event">>}
    BY DEF getSchema, Alias, Upper, AllDetectors
  <1>3. \A d \in AllDetectors, t \in Types, o \in AllDetectors, u \in Types :
          d # o /\ getSchema(d, t) = getSchema(o, u) => getSchema(d, t) = empty
    BY DEF getSchema, Alias, Upper, AllDetectors
  <1> QED
    BY <1>1, <1>2, <1>3

(* A type some hit has is a type with a bank, and a bank of its own unless *)
(* no hit of the detector has another type.                                *)
LEMMA HitTypesHaveBanks ==
  ASSUME NEW d \in AllDetectors, NEW hit \in HitKinds(d), hit # Nothing
  PROVE  /\ hit \subseteq Types
         /\ \A t \in hit : getSchema(d, t) \in schemasToLoad /\ getSchema(d, t) # empty
         /\ \A t \in hit, u \in hit : getSchema(d, t) = getSchema(d, u) => t = u
  BY DEF HitKinds, Nothing, Types, getSchema, Alias, Upper, schemasToLoad, empty, AllDetectors

-----------------------------------------------------------------------------
(* The hits of an event.                                                   *)

LEMMA DataFacts ==
  ASSUME NEW data \in EventData, NEW d \in Detectors
  PROVE  /\ d \in AllDetectors
         /\ \E n \in 0 .. MaxHits : data[d] \in [1 .. n -> HitKinds(d)]
         /\ Recorded(data, d) \subseteq 1 .. MaxHits
         /\ DOMAIN data[d] \subseteq 1 .. MaxHits
         /\ \A i \in Recorded(data, d) : data[d][i] \in HitKinds(d) /\ data[d][i] # Nothing
  <1>1. d \in AllDetectors /\ data[d] \in Hits(d)
    BY StreamerAssumption DEF EventData
  <1>2. PICK n \in 0 .. MaxHits : data[d] \in [1 .. n -> HitKinds(d)]
    BY <1>1 DEF Hits
  <1>3. 1 .. n \subseteq 1 .. MaxHits
    BY StreamerAssumption
  <1> QED
    BY <1>1, <1>2, <1>3 DEF Recorded

(* A nonempty set of naturals has a least element.                         *)
LEMMA LeastNatural ==
  ASSUME NEW S \in SUBSET Nat, S # {}
  PROVE  \E m \in S : \A n \in S : m <= n
  <1> DEFINE less == OpToRel(<, Nat)
  <1>1. IsWellFoundedOn(less, Nat)
    BY NatLessThanWellFounded
  <1>2. \A x, y \in Nat : x < y => <<x, y>> \in less
    BY DEF OpToRel
  <1> HIDE DEF less
  <1>3. PICK m \in S : \A y \in S : ~(<<y, m>> \in less)
    BY <1>1, WFMin
  <1>4. ASSUME NEW n \in S PROVE m <= n
    <2>1. m \in Nat /\ n \in Nat /\ ~(n < m)
      BY <1>2, <1>3
    <2> QED
      BY <2>1
  <1> QED
    BY <1>4

(* The k-th of a finite set of positions is one of them.                   *)
LEMMA PositionIsThere ==
  ASSUME NEW max \in Nat, NEW some \in SUBSET (1 .. max), NEW k \in 1 .. Cardinality(some)
  PROVE  \E i \in some : Cardinality({j \in some : j <= i}) = k
  <1> DEFINE UpTo(m) == {j \in some : j <= m}
  <1>0. IsFiniteSet(some) /\ Cardinality(some) \in Nat /\ some \subseteq Nat
    <2>1. IsFiniteSet(1 .. max)
      BY FS_Interval
    <2>2. IsFiniteSet(some)
      BY <2>1, FS_Subset
    <2> QED
      BY <2>2, FS_CardinalityType
  <1>1. \A m : IsFiniteSet(UpTo(m)) /\ Cardinality(UpTo(m)) \in Nat
    <2> TAKE m
    <2>1. UpTo(m) \in SUBSET some
      OBVIOUS
    <2>2. IsFiniteSet(UpTo(m))
      BY <1>0, <2>1, FS_Subset
    <2> QED
      BY <2>2, FS_CardinalityType
  <1> DEFINE S == {m \in Nat : Cardinality(UpTo(m)) >= k}
  <1>2. max \in S
    <2>1. UpTo(max) = some
      <3>1. \A j \in some : j <= max
        OBVIOUS
      <3> QED
        BY <3>1
    <2> QED
      BY <2>1, <1>0
  <1>3. PICK m \in S : \A n \in S : m <= n
    <2>1. S \in SUBSET Nat /\ S # {}
      BY <1>2
    <2> HIDE DEF S
    <2> QED
      BY <2>1, LeastNatural
  <1>4. m # 0
    <2>1. SUFFICES ASSUME m = 0 PROVE FALSE
      OBVIOUS
    <2>2. UpTo(0) = {}
      <3>1. \A j \in some : ~(j <= 0)
        OBVIOUS
      <3> QED
        BY <3>1
    <2>3. Cardinality(UpTo(0)) = 0
      BY <2>2, FS_EmptySet
    <2> QED
      BY <2>1, <2>3, <1>0
  <1>5. PICK l \in Nat : m = l + 1
    BY <1>4
  <1>6. Cardinality(UpTo(l)) < k
    BY <1>0, <1>1, <1>3, <1>5
  <1>7. UpTo(m) = IF m \in some THEN UpTo(l) \cup {m} ELSE UpTo(l)
    <2>1. \A j \in some : j <= m <=> j = m \/ j <= l
      BY <1>0, <1>5
    <2> QED
      BY <2>1
  <1>8. Cardinality(UpTo(l) \cup {m}) = Cardinality(UpTo(l)) + 1
    <2>1. m \notin UpTo(l)
      BY <1>5
    <2>2. IsFiniteSet(UpTo(l))
      BY <1>1
    <2> HIDE DEF UpTo
    <2> QED
      BY <2>1, <2>2, FS_AddElement
  <1>9. m \in some /\ Cardinality(UpTo(m)) = k
    <2>1. Cardinality(UpTo(m)) >= k
      BY <1>3
    <2>2. m \in some
      BY <1>6, <1>7, <1>1, <1>0, <2>1
    <2> QED
      BY <2>1, <2>2, <1>0, <1>1, <1>6, <1>7, <1>8
  <1> QED
    BY <1>9

(* Digitized lists recorded hits, and has one if there is one.             *)
LEMMA DigitizedFacts ==
  ASSUME NEW data \in EventData, NEW d \in Detectors
  PROVE  LET hits == Digitized(data, d) IN
           /\ hits \in Seq(Recorded(data, d)) /\ DOMAIN hits = 1 .. Len(hits)
           /\ hits = <<>> <=> Recorded(data, d) = {}
           /\ hits # <<>> => hits[1] \in Recorded(data, d)
  <1> DEFINE some == Recorded(data, d)
             n == Cardinality(some)
             hits == Digitized(data, d)
  <1>1. some \in SUBSET (1 .. MaxHits) /\ MaxHits \in Nat
    BY DataFacts, StreamerAssumption
  <1>2. n \in Nat /\ (n = 0 <=> some = {})
    <2>1. IsFiniteSet(1 .. MaxHits)
      BY <1>1, FS_Interval
    <2>2. IsFiniteSet(some)
      BY <1>1, <2>1, FS_Subset
    <2> QED
      BY <2>2, FS_CardinalityType, FS_EmptySet
  <1>3. \A k \in 1 .. n : \E i \in some : Cardinality({j \in some : j <= i}) = k
    BY <1>1, PositionIsThere
  <1>4. hits \in [1 .. n -> some]
    BY <1>3 DEF Digitized
  <1> HIDE DEF hits, some
  <1>5. hits \in Seq(some) /\ Len(hits) = n /\ DOMAIN hits = 1 .. n
    BY <1>2, <1>4
  <1>6. hits = <<>> <=> n = 0
    BY <1>2, <1>5
  <1>7. n # 0 => hits[1] \in some
    BY <1>2, <1>4
  <1> QED
    BY <1>2, <1>5, <1>6, <1>7 DEF hits, some

-----------------------------------------------------------------------------
(* A structure is added to an event.                                       *)

LEMMA PositionsAdded ==
  ASSUME NEW event \in Seq(Structures), NEW x \in Structures
  PROVE  /\ Append(event, x) \in Seq(Structures)
         /\ DOMAIN Append(event, x) = DOMAIN event \cup {Len(event) + 1}
         /\ Len(event) + 1 \notin DOMAIN event
         /\ Append(event, x)[Len(event) + 1] = x
         /\ \A i \in DOMAIN event : Append(event, x)[i] = event[i]
         /\ \A bank : Positions(Append(event, x), bank) =
              IF x.bank = bank THEN Positions(event, bank) \cup {Len(event) + 1}
              ELSE Positions(event, bank)
  <1>1. /\ Append(event, x) \in Seq(Structures) /\ Len(event) \in Nat
        /\ DOMAIN event = 1 .. Len(event) /\ DOMAIN Append(event, x) = 1 .. Len(event) + 1
        /\ Append(event, x)[Len(event) + 1] = x
        /\ \A i \in 1 .. Len(event) : Append(event, x)[i] = event[i]
    OBVIOUS
  <1>2. DOMAIN Append(event, x) = DOMAIN event \cup {Len(event) + 1}
    BY <1>1
  <1>3. Len(event) + 1 \notin DOMAIN event
    BY <1>1
  <1> DEFINE more == Append(event, x)
  <1> HIDE DEF more
  <1>4. ASSUME NEW bank
        PROVE  Positions(more, bank) =
                 IF x.bank = bank THEN Positions(event, bank) \cup {Len(event) + 1}
                 ELSE Positions(event, bank)
    BY <1>1, <1>2, <1>3 DEF Positions, more
  <1> QED
    BY <1>1, <1>2, <1>3, <1>4 DEF more

(* What an event has of other banks stays.                                 *)
LEMMA OthersStay ==
  ASSUME NEW event \in Seq(Structures), NEW x \in Structures, NEW data, NEW e
  PROVE  /\ \A bank : bank # x.bank => Positions(Append(event, x), bank) = Positions(event, bank)
         /\ HasHeader(event, e) /\ x.bank # RunConfig => HasHeader(Append(event, x), e)
         /\ \A d : BanksAreTheHits(event, data, e, d) /\ (\A t \in Types : x.bank # getSchema(d, t)) =>
              BanksAreTheHits(Append(event, x), data, e, d)
         /\ \A d : HasAgreeingBanks(event, data, d) => HasAgreeingBanks(Append(event, x), data, d)
  <1> DEFINE more == Append(event, x)
  <1>1. /\ \A i \in DOMAIN event : i \in DOMAIN more /\ more[i] = event[i]
        /\ \A bank : x.bank # bank => Positions(more, bank) = Positions(event, bank)
        /\ \A bank : Positions(event, bank) \subseteq Positions(more, bank)
    BY PositionsAdded
  <1> HIDE DEF more
  <1>2. HasHeader(event, e) /\ x.bank # RunConfig => HasHeader(more, e)
    BY <1>1 DEF HasHeader, RunConfig
  <1>3. ASSUME NEW d, BanksAreTheHits(event, data, e, d), \A t \in Types : x.bank # getSchema(d, t)
        PROVE  BanksAreTheHits(more, data, e, d)
    <2>1. ASSUME NEW t \in Types, NEW i \in Positions(more, getSchema(d, t))
          PROVE  /\ Positions(more, getSchema(d, t)) = {i}
                 /\ more[i].rows = DigitizedRows(data, e, d)
      <3>1. Positions(more, getSchema(d, t)) = Positions(event, getSchema(d, t))
        BY <1>1, <1>3
      <3>2. i \in Positions(event, getSchema(d, t)) /\ i \in DOMAIN event
        BY <2>1, <3>1 DEF Positions
      <3> QED
        BY <1>1, <1>3, <3>1, <3>2 DEF BanksAreTheHits, Types
    <2> QED
      BY <2>1 DEF BanksAreTheHits, Types
  <1>4. ASSUME NEW d, HasAgreeingBanks(event, data, d) PROVE HasAgreeingBanks(more, data, d)
    BY <1>1, <1>4 DEF HasAgreeingBanks
  <1> QED
    BY <1>1, <1>2, <1>3, <1>4 DEF more

LEMMA ParticlesAdded ==
  ASSUME NEW event \in Seq(Structures), NEW x \in Structures, NEW data, NEW e, NEW todo,
         EventSoFar(event, data, e, todo), x.bank \in {<<"MC", "Particle">>, <<"MC", "Event">>}
  PROVE  Append(event, x) \in Seq(Structures) /\ EventSoFar(Append(event, x), data, e, todo)
  <1> DEFINE more == Append(event, x)
  <1>1. \A bank : bank # x.bank => Positions(more, bank) = Positions(event, bank)
    BY OthersStay
  <1>2. x.bank \notin {RunConfig, Truth}
    BY SchemasDiffer DEF RunConfig, Truth
  <1>3. \A d \in Detectors, t \in Types : x.bank # getSchema(d, t)
    BY SchemasDiffer, StreamerAssumption
  <1>4. /\ HasHeader(event, e) => HasHeader(more, e)
        /\ \A d \in Detectors : BanksAreTheHits(event, data, e, d) => BanksAreTheHits(more, data, e, d)
        /\ \A d \in Detectors : HasAgreeingBanks(event, data, d) => HasAgreeingBanks(more, data, d)
    BY <1>2, <1>3, OthersStay
  <1>5. more \in Seq(Structures)
    BY PositionsAdded
  <1> HIDE DEF more
  <1>6. EventSoFar(more, data, e, todo)
    BY <1>1, <1>2, <1>3, <1>4 DEF EventSoFar, RunConfig, Truth, Types
  <1> QED
    BY <1>5, <1>6 DEF more

LEMMA HeaderAdded ==
  ASSUME NEW event \in Seq(Structures), NEW x \in Structures, NEW data, NEW e, NEW todo,
         EventSoFar(event, data, e, todo), <<"header", "">> \in todo,
         x.bank = RunConfig, x.rows[1].event = e
  PROVE  EventSoFar(Append(event, x), data, e, todo \ {<<"header", "">>})
  <1> DEFINE more == Append(event, x)
  <1>1. \A bank : bank # x.bank => Positions(more, bank) = Positions(event, bank)
    BY OthersStay
  <1>2. x.bank # Truth /\ \A d \in Detectors, t \in Types : x.bank # getSchema(d, t)
    BY SchemasDiffer, StreamerAssumption
  <1>3. HasHeader(more, e)
    <2>1. Positions(event, RunConfig) = {}
      BY DEF EventSoFar, RunConfig
    <2>2. /\ Positions(more, RunConfig) = {Len(event) + 1}
          /\ Len(event) + 1 \in DOMAIN more /\ more[Len(event) + 1] = x
      <3>1. /\ Positions(more, RunConfig) = Positions(event, RunConfig) \cup {Len(event) + 1}
            /\ more[Len(event) + 1] = x /\ DOMAIN more = DOMAIN event \cup {Len(event) + 1}
        BY PositionsAdded, Zenon
      <3> QED
        BY <2>1, <3>1
    <2> QED
      BY <2>2 DEF HasHeader, RunConfig
  <1>4. /\ \A d \in Detectors : BanksAreTheHits(event, data, e, d) => BanksAreTheHits(more, data, e, d)
        /\ \A d \in Detectors : HasAgreeingBanks(event, data, d) => HasAgreeingBanks(more, data, d)
    BY <1>2, OthersStay
  <1>5. \A d : <<"digitized", d>> # <<"header", "">>
    OBVIOUS
  <1> HIDE DEF more
  <1> QED
    BY <1>1, <1>2, <1>3, <1>4, <1>5 DEF EventSoFar, Truth, Types, more

(* The first of a detector's banks, or its other one, with the rows of its *)
(* hits.                                                                   *)
LEMMA BankAdded ==
  ASSUME NEW event \in Seq(Structures), NEW x \in Structures, NEW data, NEW e,
         NEW d \in Detectors, x.bank \in schemasToLoad, x.rows = DigitizedRows(data, e, d),
         BanksAreTheHits(event, data, e, d), Positions(event, x.bank) = {}
  PROVE  BanksAreTheHits(Append(event, x), data, e, d)
  <1> DEFINE more == Append(event, x)
  <1>1. ASSUME NEW t \in Types, NEW i \in Positions(more, getSchema(d, t))
        PROVE  /\ Positions(more, getSchema(d, t)) = {i}
               /\ more[i].rows = DigitizedRows(data, e, d)
    <2>1. CASE getSchema(d, t) = x.bank
      <3>1. Positions(more, x.bank) = {Len(event) + 1} /\ more[Len(event) + 1] = x
        BY PositionsAdded
      <3> QED
        BY <1>1, <2>1, <3>1
    <2>2. CASE getSchema(d, t) # x.bank
      <3>1. Positions(more, getSchema(d, t)) = Positions(event, getSchema(d, t))
        BY <2>2, PositionsAdded
      <3>2. i \in DOMAIN event /\ more[i] = event[i]
        BY <1>1, <3>1, PositionsAdded DEF Positions
      <3> QED
        BY <1>1, <3>1, <3>2 DEF BanksAreTheHits, Types
    <2> QED
      BY <2>1, <2>2
  <1> HIDE DEF more
  <1> QED
    BY <1>1 DEF BanksAreTheHits, Types, more

-----------------------------------------------------------------------------
(* The calls.                                                              *)

LEMMA StreamerInit == Init => StreamerInv
  <1> SUFFICES ASSUME Init PROVE StreamerInv
    OBVIOUS
  <1>1. StreamerTypeOK
    BY StreamerAssumption DEF Init, StreamerTypeOK, Idle, Publications
  <1>2. CallsInv /\ MakingInv
    BY DEF Init, CallsInv, MakingInv
  <1>3. EventsIsolated /\ AgreeingHitsHaveBanks
    BY DEF Init, EventsIsolated, AgreeingHitsHaveBanks
  <1> QED
    BY <1>1, <1>2, <1>3 DEF StreamerInv

(* Calls between events.                                                   *)
LEMMA ConnectionStep ==
  StreamerInv /\ (openConnection \/ closeConnection \/ \E run \in Runs : startRun(run)) =>
    StreamerInv'
  <1> SUFFICES ASSUME StreamerInv, openConnection \/ closeConnection \/ \E run \in Runs : startRun(run)
               PROVE  StreamerInv'
    OBVIOUS
  <1>1. UNCHANGED <<gevent, outEvent, trueInfoBuffer, given, file>> /\ gevent = Idle
    BY DEF openConnection, closeConnection, startRun, StreamerInv, CallsInv
  <1>2. StreamerTypeOK'
    BY StreamerAssumption
    DEF openConnection, closeConnection, startRun, StreamerInv, StreamerTypeOK
  <1>3. CallsInv'
    BY <1>1 DEF openConnection, closeConnection, startRun, StreamerInv, CallsInv
  <1>4. MakingInv'
    BY <1>1 DEF MakingInv, Idle
  <1>5. EventsIsolated'
    <2>1. CASE openConnection
      <3>1. given = <<>> /\ Len(file) = Len(given) /\ file \in Seq(Seq(Structures))
        BY <1>1, <2>1 DEF openConnection, StreamerInv, CallsInv, StreamerTypeOK
      <3>2. DOMAIN file = {}
        BY <3>1
      <3> QED
        BY <1>1, <3>2 DEF EventsIsolated
    <2>2. CASE closeConnection \/ \E run \in Runs : startRun(run)
      <3>1. UNCHANGED dictionary
        BY <2>2 DEF closeConnection, startRun
      <3> QED
        BY <1>1, <3>1 DEF StreamerInv, EventsIsolated
    <2> QED
      BY <2>1, <2>2
  <1>6. AgreeingHitsHaveBanks'
    BY <1>1 DEF StreamerInv, AgreeingHitsHaveBanks
  <1> QED
    BY <1>2, <1>3, <1>4, <1>5, <1>6 DEF StreamerInv

(* An event on file stays what it was when another begins.                 *)
LEMMA StartEventStep ==
  StreamerInv /\ (\E data \in EventData : startEvent(data)) => StreamerInv'
  <1> SUFFICES ASSUME StreamerInv, NEW data \in EventData, startEvent(data) PROVE StreamerInv'
    OBVIOUS
  <1> USE StreamerAssumption
  <1> DEFINE n == Len(given) + 1
  <1>1. /\ connection = "open" /\ gevent = Idle /\ Len(given) < MaxEvents
        /\ given' = Append(given, data) /\ gevent' = [number |-> n, todo |-> Publications]
        /\ outEvent' = <<>> /\ trueInfoBuffer' = <<>>
        /\ UNCHANGED <<connection, dictionary, runNumber, file>>
    BY DEF startEvent, StartBuffer
  <1>2. /\ given \in Seq(EventData) /\ Len(given) \in Nat /\ Len(file) = Len(given)
        /\ file \in Seq(Seq(Structures))
    BY <1>1 DEF StreamerInv, StreamerTypeOK, CallsInv
  <1>3. /\ given' \in Seq(EventData) /\ Len(given') = n /\ n \in 1 .. MaxEvents
        /\ (\A e \in DOMAIN file : given'[e] = given[e]) /\ given'[n] = data
        /\ gevent'.number = n /\ gevent'.todo = Publications /\ gevent' # Idle
    BY <1>1, <1>2 DEF Idle
  <1> HIDE DEF n
  <1>4. StreamerTypeOK'
    BY <1>1, <1>3 DEF StreamerInv, StreamerTypeOK
  <1>5. CallsInv'
    BY <1>1, <1>2, <1>3 DEF CallsInv, n
  <1>6. MakingInv'
    <2>1. Published("true", Publications) = {} /\ \A d \in Detectors : <<"digitized", d>> \in Publications
      BY DEF Published, Publications
    <2>2. TruthOf(<<>>, data, n, {})
      BY DEF TruthOf, TrueRows, IsInjective, Range
    <2>3. EventSoFar(<<>>, data, n, Publications)
      <3>1. \A bank : Positions(<<>>, bank) = {}
        BY DEF Positions
      <3>2. <<"header", "">> \in Publications
        BY DEF Publications
      <3> QED
        BY <2>1, <3>1, <3>2 DEF EventSoFar
    <2> QED
      BY <1>1, <1>3, <2>1, <2>2, <2>3 DEF MakingInv
  <1>7. EventsIsolated'
    BY <1>1, <1>3 DEF StreamerInv, EventsIsolated
  <1>8. AgreeingHitsHaveBanks'
    BY <1>1, <1>3 DEF StreamerInv, AgreeingHitsHaveBanks
  <1> QED
    BY <1>4, <1>5, <1>6, <1>7, <1>8 DEF StreamerInv

(* A publication changes nothing but the event in the making.              *)
LEMMA PublishFacts ==
  ASSUME StreamerInv, NEW what, Publish(what)
  PROVE  LET e == gevent.number IN
         /\ UNCHANGED <<connection, dictionary, runNumber, given, file>>
         /\ gevent # Idle /\ gevent' # Idle /\ gevent'.number = e /\ e \in 1 .. MaxEvents
         /\ e \in DOMAIN given /\ given[e] \in EventData
         /\ what \in gevent.todo /\ gevent'.todo = gevent.todo \ {what}
         /\ gevent' \in [number : 0 .. MaxEvents, todo : SUBSET Publications]
         /\ CallsInv' /\ EventsIsolated' /\ AgreeingHitsHaveBanks'
         /\ TruthOf(trueInfoBuffer, given[e], e, Published("true", gevent.todo))
         /\ EventSoFar(outEvent, given[e], e, gevent.todo)
  <1> USE StreamerAssumption
  <1>1. /\ UNCHANGED <<connection, dictionary, runNumber, given, file>>
        /\ what \in gevent.todo /\ gevent' = [gevent EXCEPT !.todo = @ \ {what}]
    BY DEF Publish, Turn
  <1>2. gevent # Idle
    BY <1>1 DEF Idle
  <1>3. /\ gevent \in [number : 0 .. MaxEvents, todo : SUBSET Publications]
        /\ given \in Seq(EventData) /\ gevent.number = Len(given) /\ Len(given) = Len(file) + 1
        /\ Len(file) \in Nat
    BY <1>2 DEF StreamerInv, StreamerTypeOK, CallsInv
  <1>4. gevent.number \in 1 .. MaxEvents /\ gevent.number \in DOMAIN given /\ given[gevent.number] \in EventData
    BY <1>3
  <1>5. gevent'.number = gevent.number /\ gevent'.todo = gevent.todo \ {what}
        /\ gevent' \in [number : 0 .. MaxEvents, todo : SUBSET Publications]
    BY <1>1, <1>3
  <1>6. gevent' # Idle
    BY <1>4, <1>5 DEF Idle
  <1>7. CallsInv'
    BY <1>1, <1>2, <1>5, <1>6 DEF StreamerInv, CallsInv
  <1>8. EventsIsolated' /\ AgreeingHitsHaveBanks'
    BY <1>1 DEF StreamerInv, EventsIsolated, AgreeingHitsHaveBanks
  <1> QED
    BY <1>1, <1>2, <1>4, <1>5, <1>6, <1>7, <1>8 DEF StreamerInv, MakingInv

(* So it is enough to follow the event in the making and the buffer.       *)
LEMMA PublishStep ==
  ASSUME StreamerInv, NEW what, Publish(what),
         outEvent' \in Seq(Structures), trueInfoBuffer' \in Seq(DetectorRow),
         TruthOf(trueInfoBuffer', given[gevent.number], gevent.number, Published("true", gevent.todo \ {what})),
         EventSoFar(outEvent', given[gevent.number], gevent.number, gevent.todo \ {what})
  PROVE  StreamerInv'
  <1> DEFINE e == gevent.number
             left == gevent.todo \ {what}
  <1>1. /\ UNCHANGED <<connection, dictionary, runNumber, given, file>>
        /\ gevent'.number = e /\ gevent'.todo = left
        /\ gevent' \in [number : 0 .. MaxEvents, todo : SUBSET Publications]
        /\ CallsInv' /\ EventsIsolated' /\ AgreeingHitsHaveBanks'
    BY PublishFacts
  <1>2. StreamerTypeOK'
    BY <1>1 DEF StreamerInv, StreamerTypeOK
  <1>3. MakingInv'
    BY <1>1 DEF MakingInv
  <1> QED
    BY <1>1, <1>2, <1>3 DEF StreamerInv

LEMMA HeaderStep == StreamerInv /\ publishEventHeader => StreamerInv'
  <1> SUFFICES ASSUME StreamerInv, publishEventHeader PROVE StreamerInv'
    OBVIOUS
  <1> DEFINE what == <<"header", "">>
             e == gevent.number
             x == Structure(RunConfig, <<[run |-> runNumber, event |-> e]>>)
  <1>1. Publish(what) /\ outEvent' = Append(outEvent, x) /\ trueInfoBuffer' = trueInfoBuffer
    BY DEF publishEventHeader, RunConfig
  <1>2. /\ e \in 1 .. MaxEvents /\ what \in gevent.todo
        /\ TruthOf(trueInfoBuffer, given[e], e, Published("true", gevent.todo))
        /\ EventSoFar(outEvent, given[e], e, gevent.todo)
    BY <1>1, PublishFacts
  <1>3. runNumber \in Nat /\ outEvent \in Seq(Structures) /\ trueInfoBuffer \in Seq(DetectorRow)
    BY DEF StreamerInv, StreamerTypeOK
  <1>4. x \in Structures /\ x.bank = RunConfig /\ x.rows[1].event = e
    <2>1. [run |-> runNumber, event |-> e] \in HeaderRow
      BY <1>2, <1>3 DEF HeaderRow
    <2>2. \A row \in HeaderRow : <<row>> \in Seq(HeaderRow)
      OBVIOUS
    <2> QED
      BY <2>1, <2>2, SchemasDiffer DEF Structure, Structures
  <1>5. Published("true", gevent.todo \ {what}) = Published("true", gevent.todo)
    BY DEF Published
  <1>6. EventSoFar(Append(outEvent, x), given[e], e, gevent.todo \ {what})
    BY <1>2, <1>3, <1>4, HeaderAdded
  <1>7. Append(outEvent, x) \in Seq(Structures)
    BY <1>3, <1>4
  <1> HIDE DEF x
  <1> QED
    BY <1>1, <1>2, <1>3, <1>5, <1>6, <1>7, PublishStep

LEMMA GeneratedStep == StreamerInv /\ (\E any \in BOOLEAN : publishGenerated(any)) => StreamerInv'
  <1> SUFFICES ASSUME StreamerInv, NEW any \in BOOLEAN, publishGenerated(any) PROVE StreamerInv'
    OBVIOUS
  <1> DEFINE what == <<"generated", "">>
             e == gevent.number
             row == <<[event |-> e]>>
             p == Structure(<<"MC", "Particle">>, row)
             q == Structure(<<"MC", "Event">>, row)
  <1>1. /\ Publish(what) /\ trueInfoBuffer' = trueInfoBuffer
        /\ outEvent' = IF any THEN outEvent \o <<p, q>> ELSE outEvent
    BY DEF publishGenerated
  <1>2. /\ e \in 1 .. MaxEvents
        /\ TruthOf(trueInfoBuffer, given[e], e, Published("true", gevent.todo))
        /\ EventSoFar(outEvent, given[e], e, gevent.todo)
    BY <1>1, PublishFacts
  <1>3. outEvent \in Seq(Structures) /\ trueInfoBuffer \in Seq(DetectorRow)
    BY DEF StreamerInv, StreamerTypeOK
  <1>4. /\ p \in Structures /\ p.bank = <<"MC", "Particle">>
        /\ q \in Structures /\ q.bank = <<"MC", "Event">>
        /\ {p.bank, q.bank} \subseteq {<<"MC", "Particle">>, <<"MC", "Event">>}
    <2>1. row \in Seq(ParticleRow)
      BY <1>2 DEF ParticleRow
    <2> QED
      BY <2>1, SchemasDiffer DEF Structure, Structures
  <1> DEFINE first == Append(outEvent, p)
             more == Append(first, q)
  <1>5. /\ Published("true", gevent.todo \ {what}) = Published("true", gevent.todo)
        /\ \A event : EventSoFar(event, given[e], e, gevent.todo) =>
                        EventSoFar(event, given[e], e, gevent.todo \ {what})
    <2>1. \A d : <<"true", d>> # what /\ <<"digitized", d>> # what /\ <<"header", "">> # what
      OBVIOUS
    <2> HIDE DEF what
    <2> QED
      BY <2>1 DEF Published, EventSoFar
  <1> HIDE DEF p, q
  <1>6. outEvent \o <<p, q>> = more
    BY <1>3, <1>4
  <1>7. first \in Seq(Structures) /\ EventSoFar(first, given[e], e, gevent.todo)
    BY <1>2, <1>3, <1>4, ParticlesAdded
  <1> HIDE DEF first
  <1>8. more \in Seq(Structures) /\ EventSoFar(more, given[e], e, gevent.todo)
    BY <1>4, <1>7, ParticlesAdded
  <1> HIDE DEF more
  <1>9. outEvent' \in Seq(Structures) /\ EventSoFar(outEvent', given[e], e, gevent.todo \ {what})
    BY <1>1, <1>2, <1>3, <1>5, <1>6, <1>8
  <1> QED
    BY <1>1, <1>2, <1>3, <1>5, <1>9, PublishStep

(* The rows of a detector that has not yet published are none of those in  *)
(* the buffer.                                                             *)
LEMMA TruthAdded ==
  ASSUME NEW data \in EventData, NEW d \in Detectors, NEW e \in 1 .. MaxEvents,
         NEW rows \in Seq(DetectorRow), NEW published \in SUBSET Detectors, d \notin published,
         TruthOf(rows, data, e, published)
  PROVE  LET more == rows \o [i \in DOMAIN data[d] |-> HitRow(e, d, i)] IN
           more \in Seq(DetectorRow) /\ TruthOf(more, data, e, published \cup {d})
  <1> DEFINE own == [i \in DOMAIN data[d] |-> HitRow(e, d, i)]
             more == rows \o own
  <1>1. PICK n \in 0 .. MaxHits : DOMAIN data[d] = 1 .. n
    BY DataFacts
  <1>2. own \in Seq(DetectorRow) /\ Len(own) = n /\ \A i \in 1 .. n : own[i] = HitRow(e, d, i)
    <2>1. \A i \in 1 .. n : HitRow(e, d, i) \in DetectorRow
      BY <1>1, StreamerAssumption DEF HitRow, DetectorRow
    <2>2. own \in [1 .. n -> DetectorRow]
      BY <1>1, <2>1
    <2>3. n \in Nat
      OBVIOUS
    <2> HIDE DEF own
    <2>4. own \in Seq(DetectorRow) /\ Len(own) = n
      BY <2>2, <2>3
    <2> QED
      BY <1>1, <2>4 DEF own
  <1> HIDE DEF own
  <1> DEFINE l == Len(rows)
  <1>3. /\ more \in Seq(DetectorRow) /\ l \in Nat
        /\ DOMAIN rows = 1 .. l /\ DOMAIN more = 1 .. l + n
        /\ \A i \in 1 .. l : more[i] = rows[i]
        /\ \A i \in l + 1 .. l + n : i - l \in 1 .. n /\ more[i] = own[i - l]
    BY <1>2
  <1> HIDE DEF more, l
  <1>4. \A i \in 1 .. l, k \in 1 .. n : rows[i] # own[k]
    <2> TAKE i \in 1 .. l, k \in 1 .. n
    <2>1. rows[i] \in TrueRows(data, e, published)
      BY <1>3 DEF TruthOf, Range
    <2>2. rows[i].detector \in published
      BY <2>1 DEF TrueRows, HitRow
    <2>3. own[k].detector = d
      BY <1>2 DEF HitRow
    <2> QED
      BY <2>2, <2>3
  <1>5. IsInjective(more)
    <2>1. \A i, k \in 1 .. l : rows[i] = rows[k] => i = k
      BY <1>3 DEF TruthOf, IsInjective
    <2>2. \A i, k \in 1 .. n : own[i] = own[k] => i = k
      BY <1>2 DEF HitRow
    <2>3. SUFFICES ASSUME NEW i \in 1 .. l + n, NEW k \in 1 .. l + n, more[i] = more[k]
                   PROVE  i = k
      BY <1>3 DEF IsInjective
    <2>4. CASE i <= l /\ k <= l
      BY <1>3, <2>1, <2>3, <2>4
    <2>5. CASE i <= l /\ k > l
      BY <1>3, <1>4, <2>3, <2>5
    <2>6. CASE i > l /\ k <= l
      <3>1. i - l \in 1 .. n /\ more[i] = own[i - l] /\ k \in 1 .. l /\ more[k] = rows[k]
        BY <1>3, <2>6
      <3> QED
        BY <1>4, <2>3, <3>1
    <2>7. CASE i > l /\ k > l
      <3>1. i - l \in 1 .. n /\ k - l \in 1 .. n /\ own[i - l] = own[k - l]
        BY <1>3, <2>3, <2>7
      <3>2. i - l = k - l
        BY <2>2, <3>1
      <3> QED
        BY <1>3, <3>2
    <2> QED
      BY <1>3, <2>4, <2>5, <2>6, <2>7
  <1>6. Range(more) = TrueRows(data, e, published \cup {d})
    <2>1. TrueRows(data, e, published \cup {d}) = TrueRows(data, e, published) \cup {HitRow(e, d, i) : i \in 1 .. n}
      BY <1>1 DEF TrueRows
    <2>2. Range(rows) = TrueRows(data, e, published)
      BY DEF TruthOf
    <2>3. ASSUME NEW r \in Range(more) PROVE r \in Range(rows) \cup {HitRow(e, d, i) : i \in 1 .. n}
      <3>1. PICK i \in 1 .. l + n : r = more[i]
        BY <1>3 DEF Range
      <3>2. CASE i <= l
        BY <1>3, <3>1, <3>2 DEF Range
      <3>3. CASE i > l
        BY <1>2, <1>3, <3>1, <3>3
      <3> QED
        BY <1>3, <3>2, <3>3
    <2>4. ASSUME NEW r \in Range(rows) PROVE r \in Range(more)
      <3>1. PICK i \in 1 .. l : r = rows[i]
        BY <1>3 DEF Range
      <3>2. i \in 1 .. l + n /\ more[i] = r
        BY <1>3, <3>1
      <3> QED
        BY <1>3, <3>2 DEF Range
    <2>5. ASSUME NEW k \in 1 .. n PROVE HitRow(e, d, k) \in Range(more)
      <3>1. PICK i \in l + 1 .. l + n : i = l + k
        BY <1>3
      <3>2. i - l = k
        BY <1>3, <3>1
      <3>3. more[i] = HitRow(e, d, k) /\ i \in 1 .. l + n
        BY <1>2, <1>3, <3>2
      <3> QED
        BY <1>3, <3>3 DEF Range
    <2> QED
      BY <2>1, <2>2, <2>3, <2>4, <2>5
  <1> QED
    BY <1>3, <1>5, <1>6 DEF TruthOf, more, own

LEMMA TrueInfoStep ==
  ASSUME NEW d \in Detectors PROVE StreamerInv /\ publishTrueInfo(d) => StreamerInv'
  <1> SUFFICES ASSUME StreamerInv, publishTrueInfo(d) PROVE StreamerInv'
    OBVIOUS
  <1> DEFINE what == <<"true", d>>
             e == gevent.number
             more == trueInfoBuffer \o [i \in DOMAIN given[e][d] |-> HitRow(e, d, i)]
  <1>1. Publish(what) /\ outEvent' = outEvent /\ trueInfoBuffer' = more
    BY DEF publishTrueInfo, Row, HitRow
  <1>2. /\ e \in 1 .. MaxEvents /\ given[e] \in EventData /\ what \in gevent.todo
        /\ TruthOf(trueInfoBuffer, given[e], e, Published("true", gevent.todo))
        /\ EventSoFar(outEvent, given[e], e, gevent.todo)
    BY <1>1, PublishFacts
  <1>3. outEvent \in Seq(Structures) /\ trueInfoBuffer \in Seq(DetectorRow)
    BY DEF StreamerInv, StreamerTypeOK
  <1> DEFINE before == Published("true", gevent.todo)
  <1>4. before \in SUBSET Detectors /\ d \notin before
    BY <1>2 DEF Published
  <1>5. Published("true", gevent.todo \ {what}) = before \cup {d}
    BY DEF Published
  <1>6. EventSoFar(outEvent, given[e], e, gevent.todo \ {what})
    <2>1. \A o : <<"digitized", o>> # what /\ <<"header", "">> # what
      OBVIOUS
    <2> HIDE DEF what
    <2> QED
      BY <1>2, <2>1 DEF EventSoFar
  <1> HIDE DEF before
  <1>7. more \in Seq(DetectorRow) /\ TruthOf(more, given[e], e, before \cup {d})
    <2>1. TruthOf(trueInfoBuffer, given[e], e, before)
      BY <1>2 DEF before
    <2> QED
      BY <1>2, <1>3, <1>4, <2>1, TruthAdded
  <1> HIDE DEF more
  <1> QED
    BY <1>1, <1>3, <1>5, <1>6, <1>7, PublishStep

(* The banks of a detector: those of the types its first hit has.          *)
LEMMA BanksAdded ==
  ASSUME NEW event \in Seq(Structures), NEW data \in EventData, NEW e \in 1 .. MaxEvents,
         NEW d \in Detectors, \A t \in Types : Positions(event, getSchema(d, t)) = {}
  PROVE  LET hits == Digitized(data, d)
             types == IF hits = <<>> THEN {} ELSE BankTypes(d, data[d][hits[1]])
             Bank(t) == IF t \in types
               THEN <<Structure(getSchema(d, t), DigitizedRows(data, e, d))>> ELSE <<>>
             more == event \o Bank("adc") \o Bank("tdc") \o Bank("wf")
         IN /\ more \in Seq(Structures)
            /\ BanksAreTheHits(more, data, e, d) /\ HasAgreeingBanks(more, data, d)
            /\ \A bank : (\A t \in Types : bank # getSchema(d, t)) =>
                 Positions(more, bank) = Positions(event, bank)
            /\ \A h : HasHeader(event, h) => HasHeader(more, h)
            /\ \A o \in Detectors \ {d} :
                 /\ BanksAreTheHits(event, data, e, o) => BanksAreTheHits(more, data, e, o)
                 /\ HasAgreeingBanks(event, data, o) => HasAgreeingBanks(more, data, o)
  <1> DEFINE hits == Digitized(data, d)
             types == IF hits = <<>> THEN {} ELSE BankTypes(d, data[d][hits[1]])
             rows == DigitizedRows(data, e, d)
             X(t) == Structure(getSchema(d, t), rows)
             Bank(t) == IF t \in types THEN <<X(t)>> ELSE <<>>
             more == event \o Bank("adc") \o Bank("tdc") \o Bank("wf")
  <1>1. /\ hits \in Seq(Recorded(data, d)) /\ DOMAIN hits = 1 .. Len(hits)
        /\ hits = <<>> <=> Recorded(data, d) = {}
        /\ hits # <<>> => hits[1] \in Recorded(data, d)
    BY DigitizedFacts
  <1>2. rows \in Seq(DetectorRow)
    <2>1. Recorded(data, d) \subseteq 1 .. MaxHits /\ Len(hits) \in Nat
      BY <1>1, DataFacts
    <2>2. \A n \in 1 .. Len(hits) : hits[n] \in 1 .. MaxHits
      BY <1>1, <2>1
    <2>3. \A n \in 1 .. Len(hits) : HitRow(e, d, hits[n]) \in DetectorRow
      BY <2>2 DEF HitRow, DetectorRow
    <2>4. rows = [n \in 1 .. Len(hits) |-> HitRow(e, d, hits[n])]
      BY <1>1 DEF DigitizedRows
    <2>5. rows \in [1 .. Len(hits) -> DetectorRow]
      BY <2>3, <2>4
    <2> HIDE DEF rows, hits
    <2> QED
      BY <2>1, <2>5
  <1>3. /\ types \subseteq Types
        /\ \A t \in types : getSchema(d, t) \in schemasToLoad
        /\ \A t \in types, u \in types : getSchema(d, t) = getSchema(d, u) => t = u
    <2>1. CASE hits = <<>>
      BY <2>1
    <2>2. CASE hits # <<>>
      <3> DEFINE first == data[d][hits[1]]
      <3>1. d \in AllDetectors /\ first \in HitKinds(d) /\ first # Nothing
        BY <1>1, <2>2, DataFacts
      <3>2. types \subseteq first
        BY <2>2 DEF BankTypes
      <3> HIDE DEF first, types
      <3> QED
        BY <3>1, <3>2, HitTypesHaveBanks
    <2> QED
      BY <2>1, <2>2
  <1>4. \A t \in types : X(t) \in Structures /\ X(t).bank = getSchema(d, t) /\ X(t).rows = rows
    BY <1>2, <1>3 DEF Structure, Structures
  <1>5. HasAgreeingBanks(event, data, d) \/ Recorded(data, d) # {}
    BY DEF HasAgreeingBanks
  (* An event with some of the banks already. *)
  <1> DEFINE Good(x, done) ==
        /\ x \in Seq(Structures)
        /\ BanksAreTheHits(x, data, e, d)
        /\ \A bank : (\A t \in Types : bank # getSchema(d, t)) =>
             Positions(x, bank) = Positions(event, bank)
        /\ \A t \in done : Positions(x, getSchema(d, t)) # {}
        /\ \A t \in types \ done : Positions(x, getSchema(d, t)) = {}
        /\ \A h : HasHeader(event, h) => HasHeader(x, h)
        /\ \A o \in Detectors \ {d} :
             /\ BanksAreTheHits(event, data, e, o) => BanksAreTheHits(x, data, e, o)
             /\ HasAgreeingBanks(event, data, o) => HasAgreeingBanks(x, data, o)
  <1>6. Good(event, {})
    <2>1. BanksAreTheHits(event, data, e, d)
      BY DEF BanksAreTheHits, Types
    <2> QED
      BY <1>3, <2>1
  <1>7. ASSUME NEW x, NEW done \in SUBSET types, Good(x, done), NEW t \in types \ done
        PROVE  Good(Append(x, X(t)), done \cup {t})
    <2> DEFINE y == X(t)
               z == Append(x, y)
    <2>0. x \in Seq(Structures) /\ y \in Structures /\ y.bank = getSchema(d, t) /\ y.rows = rows
          /\ y.bank \in schemasToLoad /\ t \in Types
      BY <1>3, <1>4, <1>7
    <2>1. z \in Seq(Structures) /\ Positions(z, y.bank) # {}
      <3> HIDE DEF y
      <3>1. /\ z \in Seq(Structures)
            /\ Positions(z, y.bank) = Positions(x, y.bank) \cup {Len(x) + 1}
        BY <2>0, PositionsAdded
      <3> QED
        BY <3>1
    <2>2. BanksAreTheHits(z, data, e, d)
      <3>1. BanksAreTheHits(x, data, e, d) /\ Positions(x, y.bank) = {}
        BY <1>7, <2>0
      <3> HIDE DEF X
      <3> QED
        BY <2>0, <3>1, BankAdded
    <2>3. /\ \A bank : bank # y.bank => Positions(z, bank) = Positions(x, bank)
          /\ \A h : HasHeader(x, h) /\ y.bank # RunConfig => HasHeader(z, h)
          /\ \A o : BanksAreTheHits(x, data, e, o) /\ (\A u \in Types : y.bank # getSchema(o, u)) =>
               BanksAreTheHits(z, data, e, o)
          /\ \A o : HasAgreeingBanks(x, data, o) => HasAgreeingBanks(z, data, o)
      BY <2>0, OthersStay
    <2>4. y.bank # RunConfig /\ \A o \in Detectors \ {d}, u \in Types : y.bank # getSchema(o, u)
      BY <2>0, SchemasDiffer, StreamerAssumption
    <2>5. \A u \in types \ {t} : getSchema(d, u) # y.bank
      BY <1>3, <2>0
    <2> HIDE DEF X, types, z, y
    <2>6. \A bank : (\A u \in Types : bank # getSchema(d, u)) => Positions(z, bank) = Positions(event, bank)
      BY <1>7, <2>0, <2>3
    <2>7. /\ \A u \in done \cup {t} : Positions(z, getSchema(d, u)) # {}
          /\ \A u \in types \ (done \cup {t}) : Positions(z, getSchema(d, u)) = {}
      BY <1>7, <2>0, <2>1, <2>3, <2>5
    <2>8. /\ \A h : HasHeader(event, h) => HasHeader(z, h)
          /\ \A o \in Detectors \ {d} :
               /\ BanksAreTheHits(event, data, e, o) => BanksAreTheHits(z, data, e, o)
               /\ HasAgreeingBanks(event, data, o) => HasAgreeingBanks(z, data, o)
      BY <1>7, <2>3, <2>4
    <2> QED
      BY <2>1, <2>2, <2>6, <2>7, <2>8 DEF z, y
  <1> DEFINE a == event \o Bank("adc")
             b == a \o Bank("tdc")
  <1>8. /\ \A x \in Seq(Structures), y \in Structures : x \o <<y>> = Append(x, y)
        /\ \A x \in Seq(Structures) : x \o <<>> = x
    OBVIOUS
  <1>9. Good(a, types \cap {"adc"})
    <2>1. CASE "adc" \in types
      <3>1. a = Append(event, X("adc"))
        BY <1>4, <1>8, <2>1
      <3>2. Good(Append(event, X("adc")), {"adc"})
        <4> HIDE DEF Good, types, X
        <4> QED
          BY <1>6, <1>7, <2>1
      <3> HIDE DEF Good, types, X, a
      <3>3. types \cap {"adc"} = {"adc"}
        BY <2>1
      <3> QED
        BY <3>1, <3>2, <3>3
    <2>2. CASE "adc" \notin types
      <3>1. a = event /\ types \cap {"adc"} = {}
        BY <2>2
      <3> HIDE DEF Good, types, X, a
      <3> QED
        BY <1>6, <3>1
    <2> QED
      BY <2>1, <2>2
  <1>10. Good(b, types)
    <2>0. a \in Seq(Structures)
      BY <1>9
    <2>1. CASE "tdc" \in types
      <3>1. b = Append(a, X("tdc"))
        <4> HIDE DEF a
        <4> QED
          BY <1>4, <1>8, <2>0, <2>1
      <3> HIDE DEF Good, types, X, a, b
      <3>2. Good(Append(a, X("tdc")), (types \cap {"adc"}) \cup {"tdc"})
        BY <1>7, <1>9, <2>1
      <3>3. (types \cap {"adc"}) \cup {"tdc"} = types
        BY <1>3, <2>1 DEF Types
      <3> QED
        BY <3>1, <3>2, <3>3
    <2>2. CASE "tdc" \notin types
      <3>1. b = a
        <4> HIDE DEF a, types
        <4> QED
          BY <2>0, <2>2
      <3> HIDE DEF Good, types, X, a, b
      <3>2. types \cap {"adc"} = types
        BY <1>3, <2>2 DEF Types
      <3> QED
        BY <1>9, <3>1, <3>2
    <2> QED
      BY <2>1, <2>2
  <1>11. more = b
    <2>1. b \in Seq(Structures) /\ "wf" \notin types
      BY <1>3, <1>10 DEF Types
    <2>2. more = b \o <<>>
      BY <2>1
    <2> HIDE DEF b, more
    <2> QED
      BY <1>8, <2>1, <2>2
  <1>12. HasAgreeingBanks(b, data, d)
    <2>1. SUFFICES ASSUME NEW t \in Types, Recorded(data, d) # {},
                          \A i \in Recorded(data, d) : t \in data[d][i]
                   PROVE  Positions(b, getSchema(d, t)) # {}
      BY DEF HasAgreeingBanks, Types
    <2> DEFINE first == data[d][hits[1]]
    <2>2. hits # <<>> /\ hits[1] \in Recorded(data, d)
      BY <1>1, <2>1
    <2>3. d \in AllDetectors /\ first \in HitKinds(d) /\ first # Nothing /\ t \in first
      BY <2>1, <2>2, DataFacts
    <2>4. getSchema(d, t) # empty
      <3> HIDE DEF first
      <3> QED
        BY <2>3, HitTypesHaveBanks
    <2>5. t \in types
      BY <2>2, <2>3, <2>4 DEF BankTypes
    <2> HIDE DEF types, b, X
    <2> QED
      BY <1>10, <2>5
  <1> HIDE DEF b
  <1> QED
    BY <1>10, <1>11, <1>12

LEMMA DigitizedStep ==
  ASSUME NEW d \in Detectors PROVE StreamerInv /\ publishDigitized(d) => StreamerInv'
  <1> SUFFICES ASSUME StreamerInv, publishDigitized(d) PROVE StreamerInv'
    OBVIOUS
  <1> DEFINE what == <<"digitized", d>>
             e == gevent.number
             data == given[e]
             hits == Digitized(data, d)
             types == IF hits = <<>> THEN {} ELSE BankTypes(d, data[d][hits[1]])
             Bank(t) == IF t \in types
               THEN <<Structure(getSchema(d, t), DigitizedRows(data, e, d))>> ELSE <<>>
             more == outEvent \o Bank("adc") \o Bank("tdc") \o Bank("wf")
  <1>1. Publish(what) /\ outEvent' = more /\ trueInfoBuffer' = trueInfoBuffer
    BY DEF publishDigitized, BankRows, DigitizedRows, Row, HitRow
  <1>2. /\ e \in 1 .. MaxEvents /\ data \in EventData /\ what \in gevent.todo
        /\ TruthOf(trueInfoBuffer, data, e, Published("true", gevent.todo))
        /\ EventSoFar(outEvent, data, e, gevent.todo)
    BY <1>1, PublishFacts
  <1>3. outEvent \in Seq(Structures) /\ trueInfoBuffer \in Seq(DetectorRow)
    BY DEF StreamerInv, StreamerTypeOK
  <1>4. \A t \in Types : Positions(outEvent, getSchema(d, t)) = {}
    BY <1>2 DEF EventSoFar, Types
  <1>5. /\ more \in Seq(Structures)
        /\ BanksAreTheHits(more, data, e, d) /\ HasAgreeingBanks(more, data, d)
        /\ \A bank : (\A t \in Types : bank # getSchema(d, t)) =>
             Positions(more, bank) = Positions(outEvent, bank)
        /\ \A h : HasHeader(outEvent, h) => HasHeader(more, h)
        /\ \A o \in Detectors \ {d} :
             /\ BanksAreTheHits(outEvent, data, e, o) => BanksAreTheHits(more, data, e, o)
             /\ HasAgreeingBanks(outEvent, data, o) => HasAgreeingBanks(more, data, o)
    <2> HIDE DEF data, e
    <2> QED
      BY <1>2, <1>3, <1>4, BanksAdded
  <1> HIDE DEF more, data, e
  <1>6. EventSoFar(more, data, e, gevent.todo \ {what})
    <2>1. /\ Positions(more, Truth) = Positions(outEvent, Truth)
          /\ Positions(more, RunConfig) = Positions(outEvent, RunConfig)
      BY <1>5, SchemasDiffer, StreamerAssumption
    <2>2. ASSUME NEW o \in Detectors \ {d}, NEW t \in Types, Positions(outEvent, getSchema(o, t)) = {}
          PROVE  Positions(more, getSchema(o, t)) = {}
      <3>1. CASE getSchema(o, t) = empty
        <4>1. more \in Seq(Structures)
          BY <1>5
        <4>2. \A i \in DOMAIN more : more[i] \in Structures
          BY <4>1
        <4> QED
          BY <3>1, <4>2, SchemasDiffer DEF Positions, Structures
      <3>2. CASE getSchema(o, t) # empty
        <4>1. \A u \in Types : getSchema(o, t) # getSchema(d, u)
          BY <2>2, <3>2, SchemasDiffer, StreamerAssumption
        <4> QED
          BY <1>5, <2>2, <4>1
      <3> QED
        BY <3>1, <3>2
    <2>3. /\ Positions(more, Truth) = {}
          /\ IF <<"header", "">> \in gevent.todo
               THEN Positions(more, RunConfig) = {} ELSE HasHeader(more, e)
      BY <1>2, <1>5, <2>1 DEF EventSoFar, Truth, RunConfig
    <2>4. <<"header", "">> # what /\ \A o \in Detectors \ {d} : <<"digitized", o>> # what
      OBVIOUS
    <2>5. ASSUME NEW o \in Detectors
          PROVE  IF <<"digitized", o>> \in gevent.todo \ {what}
                   THEN \A t \in Types : Positions(more, getSchema(o, t)) = {}
                   ELSE BanksAreTheHits(more, data, e, o) /\ HasAgreeingBanks(more, data, o)
      <3>1. CASE o = d
        BY <1>5, <3>1
      <3>2. CASE o # d
        BY <1>2, <1>5, <2>2, <2>4, <3>2 DEF EventSoFar, Types
      <3> QED
        BY <3>1, <3>2
    <2> HIDE DEF what
    <2> QED
      BY <2>3, <2>4, <2>5 DEF EventSoFar, Truth, RunConfig, Types
  <1>7. Published("true", gevent.todo \ {what}) = Published("true", gevent.todo)
    BY DEF Published
  <1> QED
    BY <1>1, <1>2, <1>3, <1>5, <1>6, <1>7, PublishStep DEF data, e

(* The event that ends has everything, and is the next on file.            *)
LEMMA EndEventStep == StreamerInv /\ endEvent => StreamerInv'
  <1> SUFFICES ASSUME StreamerInv, endEvent PROVE StreamerInv'
    OBVIOUS
  <1> DEFINE e == gevent.number
             x == Structure(Truth, trueInfoBuffer)
             event == Append(outEvent, x)
  <1>1. /\ gevent # Idle /\ gevent.todo = {}
        /\ outEvent' = event /\ file' = Append(file, event) /\ gevent' = Idle
        /\ UNCHANGED <<connection, dictionary, runNumber, trueInfoBuffer, given>>
    BY DEF endEvent, Truth
  <1>2. /\ file \in Seq(Seq(Structures)) /\ outEvent \in Seq(Structures)
        /\ trueInfoBuffer \in Seq(DetectorRow) /\ dictionary = schemasToLoad
        /\ connection = "open" /\ given \in Seq(EventData)
        /\ e = Len(given) /\ e = Len(file) + 1 /\ Len(file) \in Nat
    BY <1>1 DEF StreamerInv, StreamerTypeOK, CallsInv
  <1>3. TruthOf(trueInfoBuffer, given[e], e, Detectors) /\ EventSoFar(outEvent, given[e], e, {})
    <2>1. Published("true", {}) = Detectors
      BY DEF Published
    <2> QED
      BY <1>1, <2>1 DEF StreamerInv, MakingInv
  <1>4. x \in Structures /\ x.bank = Truth /\ x.rows = trueInfoBuffer
    BY <1>2, SchemasDiffer DEF Structure, Structures
  <1>5. /\ event \in Seq(Structures)
        /\ Positions(event, Truth) = {Len(outEvent) + 1}
        /\ Len(outEvent) + 1 \in DOMAIN event /\ event[Len(outEvent) + 1].rows = trueInfoBuffer
    <2>1. Positions(outEvent, Truth) = {}
      BY <1>3 DEF EventSoFar, Truth
    <2> HIDE DEF x
    <2>2. /\ event \in Seq(Structures) /\ event[Len(outEvent) + 1] = x
          /\ DOMAIN event = DOMAIN outEvent \cup {Len(outEvent) + 1}
          /\ Positions(event, Truth) = Positions(outEvent, Truth) \cup {Len(outEvent) + 1}
      BY <1>2, <1>4, PositionsAdded
    <2> QED
      BY <1>4, <2>1, <2>2
  <1>6. /\ HasHeader(event, e)
        /\ \A d \in Detectors : BanksAreTheHits(event, given[e], e, d) /\ HasAgreeingBanks(event, given[e], d)
    <2>1. x.bank # RunConfig /\ \A d \in Detectors, t \in Types : x.bank # getSchema(d, t)
      BY <1>4, SchemasDiffer, StreamerAssumption
    <2>2. /\ HasHeader(outEvent, e)
          /\ \A d \in Detectors : BanksAreTheHits(outEvent, given[e], e, d) /\ HasAgreeingBanks(outEvent, given[e], d)
      BY <1>3 DEF EventSoFar
    <2> HIDE DEF x
    <2> QED
      BY <1>2, <1>4, <2>1, <2>2, OthersStay
  <1>7. \A i \in DOMAIN event : event[i].bank \in schemasToLoad
    <2> HIDE DEF event
    <2>1. \A i \in DOMAIN event : event[i] \in Structures
      BY <1>5
    <2> QED
      BY <2>1 DEF Structures
  <1> HIDE DEF event
  <1>8. /\ file' \in Seq(Seq(Structures)) /\ Len(file') = e /\ DOMAIN file' = DOMAIN file \cup {e}
        /\ file'[e] = event /\ \A f \in DOMAIN file : file'[f] = file[f]
    BY <1>1, <1>2, <1>5
  <1>9. StreamerTypeOK'
    BY <1>1, <1>5, <1>8, StreamerAssumption DEF StreamerInv, StreamerTypeOK, Idle
  <1>10. CallsInv' /\ MakingInv'
    <2>1. Len(file') = Len(given') /\ connection' = "open"
      BY <1>1, <1>2, <1>8
    <2> QED
      BY <1>1, <2>1 DEF CallsInv, MakingInv
  <1>11. EventsIsolated'
    <2>1. SUFFICES ASSUME NEW f \in DOMAIN file'
                   PROVE  /\ \A i \in DOMAIN file'[f] : file'[f][i].bank \in dictionary'
                          /\ \A d \in Detectors : BanksAreTheHits(file'[f], given'[f], f, d)
                          /\ HasHeader(file'[f], f)
                          /\ \E i \in DOMAIN file'[f] :
                               /\ Positions(file'[f], Truth) = {i}
                               /\ TruthOf(file'[f][i].rows, given'[f], f, Detectors)
      BY DEF EventsIsolated, Truth
    <2>2. CASE f = e
      BY <1>1, <1>2, <1>3, <1>5, <1>6, <1>7, <1>8, <2>2
    <2>3. CASE f \in DOMAIN file
      BY <1>1, <1>8, <2>3 DEF StreamerInv, EventsIsolated, Truth
    <2> QED
      BY <1>8, <2>2, <2>3
  <1>12. AgreeingHitsHaveBanks'
    BY <1>1, <1>6, <1>8 DEF StreamerInv, AgreeingHitsHaveBanks
  <1> QED
    BY <1>9, <1>10, <1>11, <1>12 DEF StreamerInv

LEMMA StreamerNext == StreamerInv /\ [Next]_vars => StreamerInv'
  <1> SUFFICES ASSUME StreamerInv, [Next]_vars PROVE StreamerInv'
    OBVIOUS
  <1>1. CASE UNCHANGED vars
    BY <1>1
    DEF vars, StreamerInv, StreamerTypeOK, CallsInv, MakingInv, EventsIsolated, AgreeingHitsHaveBanks
  <1> QED
    BY <1>1, ConnectionStep, StartEventStep, HeaderStep, GeneratedStep, TrueInfoStep, DigitizedStep,
       EndEventStep
    DEF Next

(* The calls of GEMC keep the plugin's state what it takes it to be.       *)
THEOREM StreamerCorrect == Spec => []StreamerInv
  BY StreamerInit, StreamerNext, PTL DEF Spec

(* Every event on file is its own and whole (event.cc, publishTrueInfo.cc, *)
(* publishDigitized.cc).                                                   *)
THEOREM EventsAreIsolated == Spec => []EventsIsolated
  <1>1. StreamerInv => EventsIsolated
    BY DEF StreamerInv
  <1> QED
    BY <1>1, StreamerCorrect, PTL

(* Hits that agree in their variables find their banks (hipoSchemas.cc,    *)
(* publishDigitized.cc).                                                   *)
THEOREM AgreeingHitsKeepBanks == Spec => []AgreeingHitsHaveBanks
  <1>1. StreamerInv => AgreeingHitsHaveBanks
    BY DEF StreamerInv
  <1> QED
    BY <1>1, StreamerCorrect, PTL
=============================================================================
