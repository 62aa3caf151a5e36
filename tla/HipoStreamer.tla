---------------------------- MODULE HipoStreamer ----------------------------
(***************************************************************************)
(* The HIPO output plugin: GEMC opens it, publishes run and event data to  *)
(* it call by call, and closes it. An event is put together in outEvent;   *)
(* its true-information rows are buffered until every detector has         *)
(* published, and become one bank when the event ends.                     *)
(*                                                                         *)
(* A digitized hit is the set of prefixes its variables have; a row of a   *)
(* bank is known by the event, detector and position of its hit.           *)
(***************************************************************************)
EXTENDS Naturals, SequencesExt

CONSTANTS
  Detectors,   \* active detectors of the run
  Runs,        \* run numbers
  MaxHits,     \* bound: hits of an event
  MaxEvents    \* bound: events of the file

AllDetectors ==
  {"dc", "ecal", "ftof", "ltcc", "htcc", "ft_cal", "ft_hodo", "ft_trk"}

ASSUME StreamerAssumption ==
  /\ Detectors \subseteq AllDetectors
  /\ Runs \subseteq Nat
  /\ MaxHits \in Nat /\ MaxEvents \in Nat

VARIABLES
  connection,       \* unopened, open or closed
  dictionary,       \* banks described in the head of the file
  runNumber,
  gevent,           \* the event being published and what is left of it
  outEvent,         \* structures of the event so far
  trueInfoBuffer,   \* rows of MC::True so far
  given,            \* the data of the events begun, in order
  file              \* events written

vars == <<connection, dictionary, runNumber, gevent, outEvent, trueInfoBuffer,
          given, file>>

-----------------------------------------------------------------------------
(* What the digitizers of this repository make of a hit: nothing at all    *)
(* (only true information is left), or a record of these prefixes.         *)
Nothing == {"nothing"}

HitKinds(d) ==
  CASE d = "dc" -> {{"tdc"}, Nothing}
    [] d = "ltcc" -> {{"adc", "tdc"}, {}, Nothing}
    [] d \in {"ecal", "ftof", "htcc"} -> {{"adc", "tdc"}, Nothing}
    [] d \in {"ft_cal", "ft_hodo", "ft_trk"} -> {{"adc"}, Nothing}

Hits(d) == UNION {[1 .. n -> HitKinds(d)] : n \in 0 .. MaxHits}

WithinBound(data) ==
  MapThenSumSet(LAMBDA d : Len(data[d]), Detectors) <= MaxHits

EventData == {data \in [Detectors -> UNION {Hits(d) : d \in Detectors}] :
                (\A d \in Detectors : data[d] \in Hits(d)) /\ WithinBound(data)}

(* schemasToLoad, for the detectors above: a bank is a name and a type.    *)
schemasToLoad ==
  {<<"RUN", "config">>} \cup ({"MC"} \X {"True", "Particle", "Event"}) \cup
  ({"ECAL", "FTOF", "HTCC", "LTCC"} \X {"adc", "tdc"}) \cup
  ({"FTCAL", "FTHODO", "FTTRK"} \X {"adc"}) \cup {<<"DC", "tdc">>}

(* toupper: "ft_cal" is looked up as FT_CAL, under which nothing is found. *)
Upper == [ecal |-> "ECAL", ftof |-> "FTOF", htcc |-> "HTCC", ltcc |-> "LTCC",
          dc |-> "DC", ft_cal |-> "FT_CAL", ft_hodo |-> "FT_HODO",
          ft_trk |-> "FT_TRK"]

empty == <<"empty", "empty">>

(* The aliases of the forward tagger hold for every type.                  *)
Alias(d, type) ==
  CASE d = "ft_cal" -> <<"FTCAL", "adc">>
    [] d = "ft_hodo" -> <<"FTHODO", "adc">>
    [] d = "ft_trk" -> <<"FTTRK", "adc">>
    [] OTHER -> empty

getSchema(d, type) ==
  IF <<Upper[d], type>> \in schemasToLoad
    THEN <<Upper[d], type>> ELSE Alias(d, type)

-----------------------------------------------------------------------------
Idle == [number |-> 0, todo |-> {}]

Publications ==
  {<<"header", "">>, <<"generated", "">>} \cup
  ({"true", "digitized"} \X Detectors)

Init ==
  /\ connection = "unopened" /\ dictionary = {}
  /\ runNumber = 11
  /\ gevent = Idle /\ outEvent = <<>> /\ trueInfoBuffer = <<>>
  /\ given = <<>> /\ file = <<>>

(* Every schema is registered before the file is opened, because the head  *)
(* of the file lists them.                                                 *)
openConnection ==
  /\ connection = "unopened"
  /\ connection' = "open"
  /\ dictionary' = schemasToLoad
  /\ UNCHANGED <<runNumber, gevent, outEvent, trueInfoBuffer, given, file>>

startRun(run) ==
  /\ connection = "open" /\ gevent = Idle
  /\ runNumber' = run
  /\ UNCHANGED <<connection, dictionary, gevent, outEvent, trueInfoBuffer,
                 given, file>>

StartBuffer_Kept == trueInfoBuffer

StartBuffer == <<>>

startEvent(data) ==
  /\ connection = "open" /\ gevent = Idle
  /\ Len(given) < MaxEvents
  /\ given' = Append(given, data)
  /\ gevent' = [number |-> Len(given) + 1, todo |-> Publications]
  /\ outEvent' = <<>>
  /\ trueInfoBuffer' = StartBuffer
  /\ UNCHANGED <<connection, dictionary, runNumber, file>>

(* GEMC makes each publication of an event once: the header, the particles *)
(* and then, detector by detector, true information and digitized data.    *)
Turn(what) ==
  LET todo == gevent.todo IN
    /\ what \in todo
    /\ what[1] # "header" => <<"header", "">> \notin todo
    /\ what[1] \in {"true", "digitized"} => <<"generated", "">> \notin todo
    /\ what[1] = "digitized" => <<"true", what[2]>> \notin todo
    /\ what[1] = "true" => \A d \in Detectors :
         <<"digitized", d>> \in todo => <<"true", d>> \in todo

Publish(what) ==
  /\ Turn(what)
  /\ gevent' = [gevent EXCEPT !.todo = @ \ {what}]
  /\ UNCHANGED <<connection, dictionary, runNumber, given, file>>

Structure(bank, rows) == [bank |-> bank, rows |-> rows]

publishEventHeader ==
  /\ Publish(<<"header", "">>)
  /\ outEvent' = Append(outEvent, Structure(<<"RUN", "config">>,
       <<[run |-> runNumber, event |-> gevent.number]>>))
  /\ UNCHANGED trueInfoBuffer

(* The particles of an event: none, or the row counts of the two banks.    *)
publishGenerated(any) ==
  /\ Publish(<<"generated", "">>)
  /\ LET row == <<[event |-> gevent.number]>> IN
       outEvent' = IF any
         THEN outEvent \o <<Structure(<<"MC", "Particle">>, row),
                            Structure(<<"MC", "Event">>, row)>>
         ELSE outEvent
  /\ UNCHANGED trueInfoBuffer

Row(d, i) == [event |-> gevent.number, detector |-> d, hit |-> i]

publishTrueInfo(d) ==
  /\ Publish(<<"true", d>>)
  /\ trueInfoBuffer' = trueInfoBuffer \o
       [i \in DOMAIN given[gevent.number][d] |-> Row(d, i)]
  /\ UNCHANGED outEvent

(* The first digitized hit decides which banks are written for all of      *)
(* them; a type without a schema is left out.                              *)
BankTypes_All(d, first) ==
  LET has == {t \in first : getSchema(d, t) # empty} IN
    IF has = {"adc", "tdc"} THEN has ELSE {}

BankTypes(d, first) == {t \in first : getSchema(d, t) # empty}

Recorded(data, d) == {i \in DOMAIN data[d] : data[d][i] # Nothing}

Digitized(data, d) ==
  [n \in 1 .. Cardinality(Recorded(data, d)) |->
     CHOOSE i \in Recorded(data, d) :
       Cardinality({j \in Recorded(data, d) : j <= i}) = n]

BankRows(d, hits) == [n \in DOMAIN hits |-> Row(d, hits[n])]

publishDigitized(d) ==
  /\ Publish(<<"digitized", d>>)
  /\ LET data == given[gevent.number]
         hits == Digitized(data, d)
         types == IF hits = <<>> THEN {} ELSE BankTypes(d, data[d][hits[1]])
         Bank(t) == IF t \in types
           THEN <<Structure(getSchema(d, t), BankRows(d, hits))>> ELSE <<>>
     IN outEvent' = outEvent \o Bank("adc") \o Bank("tdc") \o Bank("wf")
  /\ UNCHANGED trueInfoBuffer

endEvent ==
  /\ gevent # Idle /\ gevent.todo = {}
  /\ outEvent' = Append(outEvent, Structure(<<"MC", "True">>, trueInfoBuffer))
  /\ file' = Append(file, outEvent')
  /\ gevent' = Idle
  /\ UNCHANGED <<connection, dictionary, runNumber, trueInfoBuffer, given>>

closeConnection ==
  /\ connection = "open" /\ gevent = Idle
  /\ connection' = "closed"
  /\ UNCHANGED <<dictionary, runNumber, gevent, outEvent, trueInfoBuffer, given,
                 file>>

Next ==
  \/ openConnection
  \/ \E run \in Runs : startRun(run)
  \/ \E data \in EventData : startEvent(data)
  \/ publishEventHeader
  \/ \E any \in BOOLEAN : publishGenerated(any)
  \/ \E d \in Detectors : publishTrueInfo(d) \/ publishDigitized(d)
  \/ endEvent
  \/ closeConnection

Spec == Init /\ [][Next]_vars

-----------------------------------------------------------------------------
(* The structures of one bank in an event.                                 *)
Positions(event, bank) == {i \in DOMAIN event : event[i].bank = bank}

HitRow(e, d, i) == [event |-> e, detector |-> d, hit |-> i]

(* One RUN::config with the number of the event.                           *)
HasHeader(event, e) ==
  \E i \in DOMAIN event :
    Positions(event, <<"RUN", "config">>) = {i} /\ event[i].rows[1].event = e

TrueRows(data, e, published) ==
  UNION {{HitRow(e, d, i) : i \in DOMAIN data[d]} : d \in published}

(* One row for every hit of the detectors that published, and no other.    *)
TruthOf(rows, data, e, published) ==
  IsInjective(rows) /\ Range(rows) = TrueRows(data, e, published)

(* A detector bank has a row for each digitized hit of its detector in     *)
(* that event, in the order of the hits, those with none of the bank's     *)
(* variables included.                                                     *)
DigitizedRows(data, e, d) ==
  LET hits == Digitized(data, d) IN
    [n \in DOMAIN hits |-> HitRow(e, d, hits[n])]

BanksAreTheHits(event, data, e, d) ==
  \A t \in {"adc", "tdc"} : \A i \in Positions(event, getSchema(d, t)) :
    /\ Positions(event, getSchema(d, t)) = {i}
    /\ event[i].rows = DigitizedRows(data, e, d)

(* An event on file is its own and whole: one RUN::config with its number, *)
(* one MC::True with one row for every hit of every detector, whatever the *)
(* order the detectors published in, each detector bank once with the rows *)
(* of its hits, and not one row of another event; and a reader finds the   *)
(* layout of all its banks in the head of the file, which was written      *)
(* before the first event was known.                                       *)
EventsIsolated ==
  \A e \in DOMAIN file :
    /\ \A i \in DOMAIN file[e] : file[e][i].bank \in dictionary
    /\ \A d \in Detectors : BanksAreTheHits(file[e], given[e], e, d)
    /\ HasHeader(file[e], e)
    /\ \E i \in DOMAIN file[e] :
         /\ Positions(file[e], <<"MC", "True">>) = {i}
         /\ TruthOf(file[e][i].rows, given[e], e, Detectors)

HasAgreeingBanks(event, data, d) ==
  \A t \in {"adc", "tdc"} :
    /\ Recorded(data, d) # {}
    /\ \A i \in Recorded(data, d) : t \in data[d][i]
    => Positions(event, getSchema(d, t)) # {}

(* Hits that all have a bank's variables are not lost, whatever the        *)
(* detector and whichever other banks it has or lacks.                     *)
AgreeingHitsHaveBanks ==
  \A e \in DOMAIN file, d \in Detectors :
    HasAgreeingBanks(file[e], given[e], d)

-----------------------------------------------------------------------------
(* The event in the making, call by call: the inductive invariant behind   *)
(* the two properties above.                                               *)
HeaderRow == [run : Nat, event : 1 .. MaxEvents]
ParticleRow == [event : 1 .. MaxEvents]
DetectorRow ==
  [event : 1 .. MaxEvents, detector : Detectors, hit : 1 .. MaxHits]

Structures ==
  [bank : schemasToLoad,
   rows : Seq(HeaderRow) \cup Seq(ParticleRow) \cup Seq(DetectorRow)]

StreamerTypeOK ==
  /\ connection \in {"unopened", "open", "closed"}
  /\ dictionary = IF connection = "unopened" THEN {} ELSE schemasToLoad
  /\ runNumber \in Nat
  /\ gevent \in [number : 0 .. MaxEvents, todo : SUBSET Publications]
  /\ outEvent \in Seq(Structures)
  /\ trueInfoBuffer \in Seq(DetectorRow)
  /\ given \in Seq(EventData) /\ Len(given) <= MaxEvents
  /\ file \in Seq(Seq(Structures))

(* One event is made at a time, between opening and closing the file.      *)
CallsInv ==
  /\ connection = "unopened" => given = <<>>
  /\ IF gevent = Idle THEN Len(file) = Len(given)
     ELSE /\ connection = "open"
          /\ gevent.number = Len(given) /\ Len(given) = Len(file) + 1

Published(what, todo) == {d \in Detectors : <<what, d>> \notin todo}

EventSoFar(event, data, e, todo) ==
  /\ Positions(event, <<"MC", "True">>) = {}
  /\ IF <<"header", "">> \in todo
       THEN Positions(event, <<"RUN", "config">>) = {} ELSE HasHeader(event, e)
  /\ \A d \in Detectors :
       IF <<"digitized", d>> \in todo
         THEN \A t \in {"adc", "tdc"} : Positions(event, getSchema(d, t)) = {}
         ELSE /\ BanksAreTheHits(event, data, e, d)
              /\ HasAgreeingBanks(event, data, d)

MakingInv ==
  gevent # Idle =>
    LET e == gevent.number IN
      /\ TruthOf(trueInfoBuffer, given[e], e, Published("true", gevent.todo))
      /\ EventSoFar(outEvent, given[e], e, gevent.todo)

StreamerInv ==
  /\ StreamerTypeOK /\ CallsInv /\ MakingInv
  /\ EventsIsolated /\ AgreeingHitsHaveBanks
=============================================================================
