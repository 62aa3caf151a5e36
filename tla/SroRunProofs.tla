---------------------------- MODULE SroRunProofs ----------------------------
(***************************************************************************)
(* Safety of a streaming-readout run for every number of events, workers   *)
(* and crates, every clock and input, and every constant of the format.    *)
(*                                                                         *)
(* First what stream_hit and the acquisition clock guarantee for every     *)
(* frame duration, option limit, clock and hit, and with it the theorems   *)
(* of FtCalTimeline; then the run, along its six invariants: RunInv,       *)
(* FillInv, DrainInv, the refinement of SroOutput, UniqueInv, OrderInv;    *)
(* last, that it always goes on, and never in a circle.                    *)
(***************************************************************************)
EXTENDS SroRunProperties, FtCalTimeline, FiniteSetTheorems, WellFoundedInduction, TLAPS

(* A later event never starts earlier.                                     *)
LEMMA EventStartMonotone ==
  ASSUME NEW timed \in Clock, NEW d \in Int, NEW e \in Int, d <= e
  PROVE  EventStart(timed, d) <= EventStart(timed, e)
<1>1. timed.spacing \in Nat
  BY ClockAssumption DEF Clock
<1>2. PICK n \in Nat : e = d + n
  OBVIOUS
<1>3. timed.spacing * e = timed.spacing * d + timed.spacing * n /\ timed.spacing * n >= 0
  BY <1>1, <1>2
<1>. QED
  BY <1>1, <1>3 DEF EventStart

LEMMA EventStartType ==
  ASSUME NEW timed \in Clock, NEW e \in Int
  PROVE  EventStart(timed, e) \in Int /\ EarliestRemaining(timed, e) \in Int
BY ClockAssumption DEF Clock, EventStart, EarliestRemaining

(* The bound moves forward with the events.                                *)
LEMMA BoundMonotone ==
  ASSUME NEW timed \in Clock, NEW d \in Int, NEW e \in Int, d <= e
  PROVE  EarliestRemaining(timed, d) <= EarliestRemaining(timed, e)
BY EventStartMonotone, EventStartType, ClockAssumption DEF Clock, EarliestRemaining

(* The frame of a time is the one interval of the timeline that holds it.  *)
LEMMA FrameHolds ==
  ASSUME NEW t \in Int
  PROVE  /\ FrameOf(t) \in Int
         /\ FrameBegin(FrameOf(t)) <= t
         /\ t < FrameEnd(FrameOf(t))
         /\ t >= 0 => FrameOf(t) >= 0
BY FormatAssumption DEF FrameOf, FrameBegin, FrameEnd

LEMMA FrameBoundsType ==
  ASSUME NEW id \in Int
  PROVE  /\ FrameBegin(id) \in Int /\ FrameEnd(id) \in Int
         /\ id >= 0 => FrameBegin(id) >= 0 /\ FrameEnd(id) >= 0
BY FormatAssumption DEF FrameBegin, FrameEnd

(* Frames are ordered by their ids.                                        *)
LEMMA FrameMonotone ==
  ASSUME NEW i \in Int, NEW j \in Int
  PROVE  FrameEnd(i) < FrameEnd(j) => i < j
<1>. SUFFICES ASSUME j <= i PROVE FrameEnd(j) <= FrameEnd(i)
  BY FrameBoundsType
<1>1. PICK n \in Nat : i = j + n
  OBVIOUS
<1>2. FrameDuration * i = FrameDuration * j + FrameDuration * n /\ FrameDuration * n >= 0
  BY <1>1, FormatAssumption
<1>. QED
  BY <1>2, FormatAssumption DEF FrameEnd, FrameBegin

(* Nothing stream_hit emits precedes the bound of its event.               *)
LEMMA ArrivalAfterBound ==
  ASSUME NEW timed \in Clock, NEW e \in Int, NEW h \in Hit, Emitted(timed, e, h)
  PROVE  /\ ArrivalTime(timed, e, h) \in Nat
         /\ EarliestRemaining(timed, e) <= ArrivalTime(timed, e, h)
<1>1. timed.minimum <= h.signal
  BY DEF Emitted, Rejected, SignalInBounds
<1>2. ArrivalTime(timed, e, h) >= 0
  BY DEF Emitted
<1>3. h.signal \in Int /\ timed.minimum \in Int /\ EventStart(timed, e) \in Int
  BY EventStartType, ClockAssumption DEF Hit, Clock
<1>. QED
  BY <1>1, <1>2, <1>3 DEF ArrivalTime, EarliestRemaining

(* The frame of an emitted payload ends at or below the largest time.      *)
LEMMA ArrivalFrameFits ==
  ASSUME NEW timed \in Clock, NEW e \in Nat, NEW h \in Hit, Emitted(timed, e, h)
  PROVE  FrameEnd(FrameOf(ArrivalTime(timed, e, h))) <= TimeMax
<1>. DEFINE t == ArrivalTime(timed, e, h)
            room == TimeMax - FrameDuration
<1>1. /\ timed.spacing \in Nat \ {0} /\ h.signal \in Int
      /\ TimeMax \in Int /\ FrameDuration \in Int /\ room \in Nat
  BY ClockAssumption, FormatAssumption DEF Clock, Hit
<1>2. ArrivalFits(timed, e, h)
  BY DEF Emitted, Rejected
<1>3. EventStart(timed, e) <= room
  <2>1. e <= room \div timed.spacing
    BY <1>2 DEF ArrivalFits, StartFits
  <2>2. timed.spacing * (room \div timed.spacing) <= room
    BY <1>1
  <2>3. room \div timed.spacing \in Int
    BY <1>1
  <2>4. EventStart(timed, e) <= EventStart(timed, room \div timed.spacing)
    BY <2>1, <2>3, EventStartMonotone
  <2>. QED
    BY <2>2, <2>3, <2>4, <1>1, EventStartType DEF EventStart
<1>4. t \in Nat /\ t <= room
  <2>1. CASE h.signal > 0
    BY <2>1, <1>1, <1>2, EventStartType, ArrivalAfterBound DEF ArrivalFits, ArrivalTime
  <2>2. CASE h.signal <= 0
    BY <2>2, <1>1, <1>3, EventStartType, ArrivalAfterBound DEF ArrivalTime
  <2>. QED
    BY <2>1, <2>2, <1>1
<1>5. FrameEnd(FrameOf(t)) <= t + FrameDuration
  BY <1>4, FormatAssumption, FrameHolds DEF FrameOf, FrameEnd, FrameBegin
<1>. QED
  BY <1>1, <1>4, <1>5, FrameHolds, FrameBoundsType

(* The payload stream_hit emits agrees with its envelope and fits every    *)
(* field of the format.                                                    *)
LEMMA PayloadFits ==
  ASSUME NEW timed \in Clock, NEW e \in Nat, NEW k \in Nat, NEW h \in Hit,
         Emitted(timed, e, h)
  PROVE  LET p == Payload(timed, e, k, h) IN
           /\ p.crate = h.address.crate /\ p.event = e /\ p.sequence = k
           /\ p.time = ArrivalTime(timed, e, h) /\ p.time \in Nat
           /\ p.data.crate = p.crate /\ p.crate \in 0..MaxCrate
           /\ p.data.slot \in Slots
           /\ p.data.channel \in 0..MaxChannel
           /\ p.data.charge \in 0..MaxCharge
           /\ p.data.time = p.time % FrameDuration
           /\ p.data.time \in 0..(FrameDuration - 1)
<1>1. h.address \in Address /\ h.adc \in Nat
  BY DEF Hit
<1>2. Addressable(h.address)
  BY DEF Emitted, Rejected
<1>3. ArrivalTime(timed, e, h) \in Nat
  BY ArrivalAfterBound
<1>4. ArrivalTime(timed, e, h) % FrameDuration \in 0..(FrameDuration - 1)
  BY <1>3, FormatAssumption
<1>. QED
  BY <1>1, <1>2, <1>3, <1>4, FormatAssumption DEF Payload, Addressable, Address, Slots

-----------------------------------------------------------------------------
(* The timeline of a run.                                                  *)


(* The run stays the accepted one and the service stays inside it.         *)
THEOREM TimelineTypeCorrect == TimelineSpec => []TimelineTypeOK
<1>1. ConfigureRun => TimelineTypeOK
  BY TimelineAssumption DEF ConfigureRun, TimelineTypeOK
<1>2. TimelineTypeOK /\ [TimelineNext]_timelineVars => TimelineTypeOK'
  <2>. SUFFICES ASSUME TimelineTypeOK, [TimelineNext]_timelineVars PROVE TimelineTypeOK'
    OBVIOUS
  <2>1. CASE AskBound
    BY <2>1, TimelineAssumption DEF TimelineTypeOK, AskBound, RunAccepted, StartFits
  <2>2. CASE Stream
    BY <2>2, TimelineAssumption DEF TimelineTypeOK, Stream, RunAccepted, StartFits
  <2>3. CASE UNCHANGED timelineVars
    BY <2>3 DEF TimelineTypeOK, timelineVars, RunAccepted, StartFits
  <2>. QED
    BY <2>1, <2>2, <2>3 DEF TimelineNext
<1>. QED
  BY <1>1, <1>2, PTL DEF TimelineSpec

(* No payload of a remaining event precedes the bound the crates were      *)
(* told, whatever the clock, the event and the hit.                        *)
THEOREM BoundStaysHonest == TimelineSpec => []BoundIsHonest
<1>1. TimelineTypeOK => BoundIsHonest
  <2>. SUFFICES ASSUME TimelineTypeOK, lastEvent >= remaining, Emitted(timing, lastEvent, lastHit)
                PROVE  EarliestRemaining(timing, remaining) <= ArrivalTime(timing, lastEvent, lastHit)
    BY DEF BoundIsHonest
  <2>1. timing \in Clock /\ remaining \in Int /\ lastEvent \in Int /\ lastHit \in Hit
    BY TimelineAssumption DEF TimelineTypeOK
  <2>2. EarliestRemaining(timing, remaining) <= EarliestRemaining(timing, lastEvent)
    BY <2>1, BoundMonotone
  <2>3. /\ EarliestRemaining(timing, lastEvent) <= ArrivalTime(timing, lastEvent, lastHit)
        /\ ArrivalTime(timing, lastEvent, lastHit) \in Nat
    BY <2>1, ArrivalAfterBound
  <2>. QED
    BY <2>1, <2>2, <2>3, EventStartType
<1>. QED
  BY <1>1, TimelineTypeCorrect, PTL

(* The crate's 64-bit frame arithmetic never wraps on an emitted payload.  *)
THEOREM FramesStayRepresentable == TimelineSpec => []FrameStaysRepresentable
<1>1. TimelineTypeOK => FrameStaysRepresentable
  BY ArrivalFrameFits, TimelineAssumption DEF TimelineTypeOK, FrameStaysRepresentable
<1>. QED
  BY <1>1, TimelineTypeCorrect, PTL

(* The check configure_run makes once covers every later bound.            *)
THEOREM BoundsNeverOverflow == TimelineSpec => []BoundNeverOverflows
<1>1. TimelineTypeOK => BoundNeverOverflows
  <2>. SUFFICES ASSUME TimelineTypeOK PROVE remaining <= (TimeMax - FrameDuration) \div timing.spacing
    BY DEF BoundNeverOverflows, StartFits
  <2>1. timing.spacing \in Nat \ {0} /\ TimeMax - FrameDuration \in Int
    BY TimelineAssumption, ClockAssumption, FormatAssumption DEF TimelineTypeOK, Clock
  <2>2. (TimeMax - FrameDuration) \div timing.spacing \in Int
    BY <2>1
  <2>3. total \in Nat /\ remaining \in 0..total /\ total <= (TimeMax - FrameDuration) \div timing.spacing
    BY TimelineAssumption DEF TimelineTypeOK, RunAccepted, StartFits
  <2>. QED
    BY <2>2, <2>3
<1>. QED
  BY <1>1, TimelineTypeCorrect, PTL

-----------------------------------------------------------------------------

(* The input of the run is one of the considered inputs, and stays it.     *)
InputKept == \E given \in Inputs : clock = given.clock /\ hits = given.hits

LEMMA InputFacts ==
  ASSUME InputKept
  PROVE  /\ clock \in Clock
         /\ hits \in [Events -> Seq(Hit)]
         /\ \A e \in Events : \A k \in 1..Len(hits[e]) :
              hits[e][k] \in Hit /\
              (Addressable(hits[e][k].address) => hits[e][k].address.crate \in Crates)
<1>1. PICK given \in Inputs : clock = given.clock /\ hits = given.hits
  BY DEF InputKept
<1>2. clock \in Clock /\ hits \in [Events -> Seq(Hit)]
  BY <1>1, InputAssumption
<1>3. \A e \in Events : \A k \in 1..Len(hits[e]) : hits[e][k] \in Hit
  BY <1>2
<1>. QED
  BY <1>1, <1>2, <1>3, InputAssumption

(* What stream_hit emits for a hit of the input is a sample of its crate.  *)
LEMMA EmittedSample ==
  ASSUME InputKept, NEW e \in Events, NEW k \in 1..Len(hits[e]),
         Emitted(clock, e, hits[e][k])
  PROVE  /\ PayloadOf(e, k) \in Sample
         /\ PayloadOf(e, k).crate = hits[e][k].address.crate
         /\ PayloadOf(e, k).event = e
         /\ PayloadOf(e, k).sequence = k
         /\ PayloadOf(e, k).time = ArrivalTime(clock, e, hits[e][k])
         /\ EarliestRemaining(clock, e) <= PayloadOf(e, k).time
<1>. DEFINE h == hits[e][k]
            p == Payload(clock, e, k, h)
<1>1. clock \in Clock /\ h \in Hit /\ e \in Nat /\ k \in Nat \ {0}
  BY InputFacts, RunAssumption DEF Events
<1>2. h.address.crate \in Crates
  BY InputFacts DEF Emitted, Rejected
<1>3. /\ p.crate = h.address.crate /\ p.event = e /\ p.sequence = k
      /\ p.time = ArrivalTime(clock, e, h) /\ p.time \in Nat
      /\ p.data.crate = p.crate
      /\ p.data.slot \in Slots
      /\ p.data.channel \in 0..MaxChannel
      /\ p.data.charge \in 0..MaxCharge
      /\ p.data.time \in 0..(FrameDuration - 1)
  BY <1>1, PayloadFits
<1>4. p = [crate |-> p.crate, event |-> p.event, sequence |-> p.sequence, time |-> p.time,
           data |-> p.data]
  BY DEF Payload
<1>5. p.data = [crate |-> p.data.crate, slot |-> p.data.slot, channel |-> p.data.channel,
                charge |-> p.data.charge, time |-> p.data.time]
  BY DEF Payload
<1>6. p \in Sample
  BY <1>1, <1>2, <1>3, <1>4, <1>5 DEF Sample
<1>7. EarliestRemaining(clock, e) <= p.time
  BY <1>1, <1>3, ArrivalAfterBound
<1>. QED
  BY <1>3, <1>6, <1>7 DEF PayloadOf

-----------------------------------------------------------------------------
(* Type correctness.                                                       *)

TypeInv == TypeOK /\ InputKept

LEMMA TypeInit == Init => TypeInv
<1>. SUFFICES ASSUME Init PROVE TypeInv
  OBVIOUS
<1>1. InputKept /\ inOrder \in BOOLEAN
  BY InputAssumption DEF Init, InputKept
<1>2. clock \in Clock /\ hits \in [Events -> Seq(Hit)]
  BY <1>1, InputFacts
<1>3. EarliestRemaining(clock, 0) \in Int
  BY <1>2, EventStartType
<1>4. \A e \in Events : Len(hits[e]) \in Nat
  BY <1>2
<1>5. \A c \in Crates : OpenFrames(c)
  BY DEF Init, OpenFrames
<1>. QED
  BY <1>1, <1>2, <1>3, <1>4, <1>5 DEF Init, TypeInv, TypeOK

LEMMA WorkerTypes ==
  ASSUME TypeInv, NEW e \in Events, Claim(e) \/ Worker(e)
  PROVE  TypeInv'
<1>. USE DEF input, worker, service, crate
<1>1. CASE Claim(e)
  BY <1>1 DEF Claim, TypeInv, TypeOK, InputKept, OpenFrames
<1>2. CASE StreamHit(e)
  <2>1. streamed[e] + 1 \in 1..Len(hits[e])
    BY <1>2 DEF StreamHit, HasHit, TypeInv, TypeOK
  <2>2. Payload(clock, e, streamed[e] + 1, NextHit(e)) \in Sample
    BY <1>2, <2>1, EmittedSample DEF StreamHit, NextHit, PayloadOf, TypeInv
  <2>. QED
    BY <1>2, <2>1, <2>2 DEF StreamHit, TypeInv, TypeOK, InputKept, OpenFrames
<1>3. CASE DropHit(e)
  BY <1>3 DEF DropHit, HasHit, TypeInv, TypeOK, InputKept, OpenFrames
<1>4. CASE RejectHit(e)
  BY <1>4 DEF RejectHit, TypeInv, TypeOK, InputKept, OpenFrames
<1>5. CASE CompleteEvent(e)
  BY <1>5 DEF CompleteEvent, TypeInv, TypeOK, InputKept, OpenFrames
<1>. QED
  BY <1>1, <1>2, <1>3, <1>4, <1>5 DEF Worker

LEMMA ServiceTypes ==
  ASSUME TypeInv, Service \/ Interrupt
  PROVE  TypeInv'
<1>. USE DEF input, worker, service, crate
<1>1. CASE \E p \in pending : Release(p)
  <2>1. PICK p \in pending : Release(p)
    BY <1>1
  <2>2. p \in Sample /\ p.crate \in Crates /\ PayloadMessage(p) \in Message
    BY DEF TypeInv, TypeOK, Sample, Message, PayloadMessage
  <2>3. inbox' \in [Crates -> Seq(Message)]
    BY <2>1, <2>2 DEF Release, TypeInv, TypeOK
  <2>. QED
    BY <2>1, <2>3 DEF Release, TypeInv, TypeOK, InputKept, OpenFrames
<1>2. CASE PublishProgress
  <2>1. PICK first \in 0..EventCount :
          /\ published' = EarliestRemaining(clock, first)
          /\ inbox' = [c \in Crates |-> Append(inbox[c], AdvanceMessage(EarliestRemaining(clock, first)))]
          /\ UNCHANGED <<input, run, worker, pending, crate>>
    BY <1>2 DEF PublishProgress
  <2>2. EarliestRemaining(clock, first) \in Int
    BY EventStartType, RunAssumption DEF TypeInv, TypeOK
  <2>3. AdvanceMessage(EarliestRemaining(clock, first)) \in Message
    BY <2>2 DEF AdvanceMessage, Message
  <2>4. inbox' \in [Crates -> Seq(Message)]
    BY <2>1, <2>3 DEF TypeInv, TypeOK
  <2>. QED
    BY <2>1, <2>2, <2>4 DEF TypeInv, TypeOK, InputKept, OpenFrames
<1>3. CASE EndRun
  BY <1>3 DEF EndRun, TypeInv, TypeOK, InputKept, OpenFrames
<1>4. CASE Interrupt
  BY <1>4 DEF Interrupt, TypeInv, TypeOK, InputKept, OpenFrames
<1>. QED
  BY <1>1, <1>2, <1>3, <1>4 DEF Service

(* What a crate thread takes from its inbox.                               *)
LEMMA ReceivedTypes ==
  ASSUME TypeOK, NEW c \in Crates, NEW kind \in {"payload", "advance"}, Receiving(c, kind)
  PROVE  /\ Head(inbox[c]) \in Message
         /\ kind = "payload" => Head(inbox[c]).payload \in Sample
         /\ kind = "advance" => Head(inbox[c]).bound \in Int
         /\ inbox' \in [Crates -> Seq(Message)]
<1>1. inbox[c] \in Seq(Message) /\ inbox[c] # <<>>
  BY DEF TypeOK, Receiving
<1>2. Head(inbox[c]) \in Message /\ Tail(inbox[c]) \in Seq(Message)
  BY <1>1
<1>3. Head(inbox[c]).kind = kind
  BY DEF Receiving
<1>4. inbox' \in [Crates -> Seq(Message)]
  BY <1>2 DEF Receiving, TypeOK
<1>. QED
  BY <1>2, <1>3, <1>4 DEF Message

LEMMA FiledTypes ==
  ASSUME TypeOK, NEW c \in Crates, NEW id \in Nat, NEW p \in Sample
  PROVE  /\ SamplesOf(c, id) \in Seq(Sample)
         /\ DOMAIN Filed(c, id, p) \subseteq Nat
         /\ Filed(c, id, p) \in [DOMAIN Filed(c, id, p) -> Seq(Sample)]
<1>1. DOMAIN frames[c] \subseteq Nat /\ frames[c] \in [DOMAIN frames[c] -> Seq(Sample)]
  BY DEF TypeOK, OpenFrames
<1>2. SamplesOf(c, id) \in Seq(Sample)
  BY <1>1 DEF SamplesOf
<1>3. Append(SamplesOf(c, id), p) \in Seq(Sample)
  BY <1>2
<1>. QED
  BY <1>1, <1>2, <1>3 DEF Filed

LEMMA FrameTypes ==
  ASSUME TypeOK, NEW c \in Crates, NEW id \in DOMAIN frames[c]
  PROVE  id \in Nat /\ Frame(c, id) \in FrameRecord
<1>1. id \in Nat /\ frames[c][id] \in Seq(Sample)
  BY DEF TypeOK, OpenFrames
<1>. QED
  BY <1>1, FrameBoundsType DEF Frame, FrameRecord

LEMMA ExtractedTypes ==
  ASSUME TypeOK, NEW c \in Crates, NEW id
  PROVE  /\ DOMAIN Extracted(c, id) \subseteq Nat
         /\ Extracted(c, id) \in [DOMAIN Extracted(c, id) -> Seq(Sample)]
BY DEF TypeOK, OpenFrames, Extracted

(* A stream that fails leaves whole frames at the front of its file.       *)
FileCut(c) ==
  \/ UNCHANGED file
  \/ \E n \in 0..Len(file[c]) : file' = [file EXCEPT ![c] = SubSeq(@, 1, n)]

LEMMA CutParts ==
  ASSUME TypeInv, NEW c \in Crates, FileCut(c)
  PROVE  /\ file' \in [Crates -> Seq(FrameRecord)]
         /\ \A d \in Crates \ {c} : file'[d] = file[d]
         /\ Len(file'[c]) \in 0..Len(file[c])
         /\ \A k \in 1..Len(file'[c]) : k \in 1..Len(file[c]) /\ file'[c][k] = file[c][k]
<1>1. file \in [Crates -> Seq(FrameRecord)] /\ Len(file[c]) \in Nat
  BY DEF TypeInv, TypeOK
<1>2. CASE UNCHANGED file
  BY <1>1, <1>2
<1>3. ASSUME NEW n \in 0..Len(file[c]), file' = [file EXCEPT ![c] = SubSeq(@, 1, n)]
      PROVE  /\ file' \in [Crates -> Seq(FrameRecord)]
             /\ \A d \in Crates \ {c} : file'[d] = file[d]
             /\ Len(file'[c]) \in 0..Len(file[c])
             /\ \A k \in 1..Len(file'[c]) : k \in 1..Len(file[c]) /\ file'[c][k] = file[c][k]
  <2>. DEFINE s == file[c]
  <2>1. s \in Seq(FrameRecord) /\ n \in 0..Len(s)
    BY <1>1
  <2>2. file'[c] = SubSeq(s, 1, n) /\ \A d \in Crates \ {c} : file'[d] = file[d]
    BY <1>1, <1>3
  <2>. HIDE DEF s
  <2>3. /\ SubSeq(s, 1, n) \in Seq(FrameRecord) /\ Len(SubSeq(s, 1, n)) = n
        /\ \A k \in 1..n : SubSeq(s, 1, n)[k] = s[k]
    BY <2>1
  <2>4. file' \in [Crates -> Seq(FrameRecord)]
    BY <1>1, <1>3, <2>2, <2>3
  <2>5. /\ Len(file'[c]) \in 0..Len(s)
        /\ \A k \in 1..Len(file'[c]) : k \in 1..Len(s) /\ file'[c][k] = s[k]
    BY <2>1, <2>2, <2>3
  <2>. QED
    BY <2>2, <2>4, <2>5 DEF s
<1>. QED
  BY <1>2, <1>3 DEF FileCut

(* How a crate ends in a write that fails, and in finish_run.              *)
LEMMA WriteFailsParts ==
  ASSUME NEW c \in Crates, WriteFails(c)
  PROVE  /\ \E id \in DOMAIN frames[c] :
              /\ MayWrite(c, id)
              /\ frames' = [frames EXCEPT ![c] = Extracted(c, id)]
              /\ \/ ~Encodable(Frame(c, id))
                 \/ \E how \in {"unwritable", "torn"} : phase' = [phase EXCEPT ![c] = how]
         /\ FileCut(c) /\ phase[c] = "advance"
         /\ \E how \in {"rejected", "unwritable", "torn"} : Fail(c, how)
         /\ UNCHANGED <<input, worker, service, inbox, safe>>
BY DEF WriteFails, StreamFails, FileCut, Fail

LEMMA FinishRunParts ==
  ASSUME NEW c \in Crates, FinishRun(c)
  PROVE  /\ phase[c] = "receive" /\ frames' = [frames EXCEPT ![c] = <<>>]
         /\ FileCut(c)
         /\ run' = run \/ run' = "failed"
         /\ \/ /\ phase' = [phase EXCEPT ![c] = "completed"] /\ UNCHANGED file
               /\ run = "completed" /\ inbox[c] = <<>>
            \/ \E how \in {"interrupted", "unwritable", "torn"} :
                 phase' = [phase EXCEPT ![c] = how]
         /\ UNCHANGED <<input, worker, service, inbox, safe>>
BY DEF FinishRun, StreamFails, FileCut, Fail, MayFinish

LEMMA CrateTypes ==
  ASSUME TypeInv, NEW c \in Crates, CrateThread(c)
  PROVE  TypeInv'
<1>. USE DEF input, worker, service, Failures, Ended
<1>1. CASE OpenSink(c)
  BY <1>1 DEF OpenSink, Fail, TypeInv, TypeOK, InputKept, OpenFrames
<1>2. CASE ConsumePayload(c)
  <2>. DEFINE p == Head(inbox[c]).payload
              id == FrameOf(p.time)
  <2>1. p \in Sample /\ inbox' \in [Crates -> Seq(Message)]
    BY <1>2, ReceivedTypes DEF ConsumePayload, TypeInv
  <2>2. id \in Nat
    <3>1. p.time \in Nat
      BY <2>1 DEF Sample
    <3>. HIDE DEF p
    <3>. QED
      BY <3>1, FrameHolds
  <2>3. frames' = [frames EXCEPT ![c] = Filed(c, id, p)]
    BY <1>2 DEF ConsumePayload
  <2>4. DOMAIN frames' = Crates
    BY <2>3 DEF TypeInv, TypeOK
  <2>5. ASSUME NEW d \in Crates PROVE OpenFrames(d)'
    <3>1. CASE d = c
      <4>1. frames'[d] = Filed(c, id, p)
        BY <2>3, <3>1 DEF TypeInv, TypeOK
      <4>. QED
        BY <4>1, <2>1, <2>2, FiledTypes DEF OpenFrames, TypeInv
    <3>2. CASE d # c
      BY <2>3, <3>2 DEF OpenFrames, TypeInv, TypeOK
    <3>. QED
      BY <3>1, <3>2
  <2>. QED
    BY <1>2, <2>1, <2>4, <2>5 DEF ConsumePayload, TypeInv, TypeOK, InputKept
<1>3. CASE RefusePayload(c)
  <2>1. inbox' \in [Crates -> Seq(Message)]
    BY <1>3, ReceivedTypes DEF RefusePayload, TypeInv
  <2>. QED
    BY <1>3, <2>1 DEF RefusePayload, Fail, TypeInv, TypeOK, InputKept, OpenFrames
<1>4. CASE BeginAdvance(c)
  <2>1. inbox' \in [Crates -> Seq(Message)] /\ Head(inbox[c]).bound \in Int
    BY <1>4, ReceivedTypes DEF BeginAdvance, TypeInv
  <2>. QED
    BY <1>4, <2>1 DEF BeginAdvance, TypeInv, TypeOK, InputKept, OpenFrames
<1>5. ASSUME NEW id \in DOMAIN frames[c], frames' = [frames EXCEPT ![c] = Extracted(c, id)]
      PROVE  DOMAIN frames' = Crates /\ \A d \in Crates : OpenFrames(d)'
  <2>1. DOMAIN frames' = Crates
    BY <1>5 DEF TypeInv, TypeOK
  <2>2. ASSUME NEW d \in Crates PROVE OpenFrames(d)'
    <3>1. CASE d = c
      <4>1. frames'[d] = Extracted(c, id)
        BY <1>5, <3>1 DEF TypeInv, TypeOK
      <4>. QED
        BY <4>1, ExtractedTypes DEF OpenFrames, TypeInv
    <3>2. CASE d # c
      BY <1>5, <3>2 DEF OpenFrames, TypeInv, TypeOK
    <3>. QED
      BY <3>1, <3>2
  <2>. QED
    BY <2>1, <2>2
<1>6. CASE WriteFrame(c)
  <2>1. PICK id \in DOMAIN frames[c] : /\ frames' = [frames EXCEPT ![c] = Extracted(c, id)]
                                       /\ file' = [file EXCEPT ![c] = Append(@, Frame(c, id))]
    BY <1>6 DEF WriteFrame
  <2>2. Frame(c, id) \in FrameRecord
    BY FrameTypes DEF TypeInv
  <2>3. file' \in [Crates -> Seq(FrameRecord)]
    BY <2>1, <2>2 DEF TypeInv, TypeOK
  <2>. QED
    BY <1>6, <1>5, <2>1, <2>3 DEF WriteFrame, TypeInv, TypeOK, InputKept
<1>7. CASE WriteFails(c)
  <2>1. PICK id \in DOMAIN frames[c] : frames' = [frames EXCEPT ![c] = Extracted(c, id)]
    BY <1>7, WriteFailsParts
  <2>2. file' \in [Crates -> Seq(FrameRecord)]
    BY <1>7, WriteFailsParts, CutParts
  <2>3. PICK how \in {"rejected", "unwritable", "torn"} : Fail(c, how)
    BY <1>7, WriteFailsParts
  <2>. QED
    BY <1>7, <1>5, <2>1, <2>2, <2>3, WriteFailsParts DEF Fail, TypeInv, TypeOK, InputKept
<1>8. CASE EndAdvance(c)
  BY <1>8 DEF EndAdvance, TypeInv, TypeOK, InputKept, OpenFrames
<1>9. CASE FinishRun(c)
  <2>1. DOMAIN frames' = Crates /\ \A d \in Crates : OpenFrames(d)'
    BY <1>9 DEF FinishRun, TypeInv, TypeOK, OpenFrames
  <2>2. file' \in [Crates -> Seq(FrameRecord)]
    BY <1>9, FinishRunParts, CutParts
  <2>3. phase' \in [Crates -> {"unopened", "receive", "advance"} \cup Ended]
    BY <1>9, FinishRunParts DEF Ended, Failures, TypeInv, TypeOK
  <2>. QED
    BY <1>9, <2>1, <2>2, <2>3, FinishRunParts DEF TypeInv, TypeOK, InputKept
<1>. QED
  BY <1>1, <1>2, <1>3, <1>4, <1>6, <1>7, <1>8, <1>9 DEF CrateThread

LEMMA TypeNext == TypeInv /\ [Next]_vars => TypeInv'
<1>. SUFFICES ASSUME TypeInv, [Next]_vars PROVE TypeInv'
  OBVIOUS
<1>1. CASE Step
  BY <1>1, WorkerTypes, ServiceTypes, CrateTypes DEF Step
<1>2. CASE UNCHANGED vars
  BY <1>2 DEF vars, TypeInv, TypeOK, InputKept, OpenFrames
<1>. QED
  BY <1>1, <1>2 DEF Next, Stop

LEMMA TypeAlways == Spec => []TypeInv
BY TypeInit, TypeNext, PTL DEF Spec

(* Every variable keeps its type: what is filed is always a sample of the  *)
(* format, whatever the hits were.                                         *)
THEOREM TypeCorrect == Spec => []TypeOK
<1>1. TypeInv => TypeOK
  BY DEF TypeInv
<1>. QED
  BY <1>1, TypeAlways, PTL

-----------------------------------------------------------------------------
(* The inductive invariant.                                                *)

(* What the input owes a crate does not depend on the state of the run.    *)
LEMMA ExpectedSample ==
  ASSUME InputKept, NEW c, NEW p \in Expected(c)
  PROVE  \E e \in Events : \E k \in Emits(c, e) :
           /\ k \in 1..Len(hits[e]) /\ p = PayloadOf(e, k)
           /\ p \in Sample /\ p.crate = c /\ p.event = e
           /\ EarliestRemaining(clock, e) <= p.time
<1>0. PICK e \in Events : \E k \in Emits(c, e) : p = PayloadOf(e, k)
  BY DEF Expected
<1>1. PICK k \in Emits(c, e) : p = PayloadOf(e, k)
  BY <1>0
<1>2. /\ k \in 1..Len(hits[e]) /\ Emitted(clock, e, hits[e][k])
      /\ hits[e][k].address.crate = c
  BY DEF Emits
<1>. QED
  BY <1>1, <1>2, EmittedSample

LEMMA EmitsExpected ==
  ASSUME NEW c, NEW e \in Events, NEW k \in Emits(c, e)
  PROVE  PayloadOf(e, k) \in Expected(c)
BY DEF Expected

LEMMA ExpectedKept ==
  ASSUME UNCHANGED input
  PROVE  /\ \A c, e : Emits(c, e)' = Emits(c, e)
         /\ \A e, k : PayloadOf(e, k)' = PayloadOf(e, k)
         /\ \A c : Expected(c)' = Expected(c)
         /\ \A c, id : ExpectedIn(c, id)' = ExpectedIn(c, id)
BY DEF input, Emits, PayloadOf, Expected, ExpectedIn

(* A step of the service, the workers or another crate leaves a crate      *)
(* alone.                                                                  *)
LEMMA CrateKept ==
  ASSUME NEW c \in Crates, CrateInv(c), UNCHANGED input,
         streamed' = streamed, pending' = pending, published' = published,
         inbox'[c] = inbox[c], safe'[c] = safe[c], frames'[c] = frames[c],
         file'[c] = file[c], phase'[c] = phase[c]
  PROVE  CrateInv(c)'
<1>1. InboxOrdered(c)'
  BY ExpectedKept DEF CrateInv, InboxOrdered
<1>2. FramesOpen(c)'
  BY ExpectedKept DEF CrateInv, FramesOpen
<1>3. FileCovered(c)'
  BY DEF CrateInv, FileCovered
<1>4. NothingLost(c)'
  BY ExpectedKept DEF CrateInv, NothingLost, Located, InInbox, InFrames, InFile
<1>5. FileAscending(c)' /\ FileFinal(c)'
  BY ExpectedKept DEF CrateInv, FileAscending, FileFinal
<1>. QED
  BY <1>1, <1>2, <1>3, <1>4, <1>5 DEF CrateInv

(* A step that touches none of the variables the invariant is about.       *)
LEMMA OtherKept ==
  ASSUME RunInv, UNCHANGED <<input, status, streamed, pending, published, inbox,
                             phase, safe, frames, file>>
  PROVE  RunInv'
<1>1. BoundHolds' /\ PendingEmitted'
  BY ExpectedKept DEF RunInv, BoundHolds, PendingEmitted, Delivered, input
<1>2. ASSUME NEW d \in Crates PROVE CrateInv(d)'
  BY CrateKept DEF RunInv, input
<1>. QED
  BY <1>1, <1>2 DEF RunInv

LEMMA InvInit == Init => RunInv
<1>. SUFFICES ASSUME Init PROVE RunInv
  OBVIOUS
<1>1. TypeInv
  BY TypeInit
<1>2. BoundHolds
  <2>1. ASSUME NEW e \in Events PROVE published <= EarliestRemaining(clock, e)
    BY <1>1, BoundMonotone, RunAssumption DEF Init, TypeInv, TypeOK, Events
  <2>. QED
    BY <2>1 DEF BoundHolds, Init
<1>3. PendingEmitted
  BY DEF PendingEmitted, Init
<1>4. ASSUME NEW c \in Crates PROVE CrateInv(c)
  <2>1. InboxOrdered(c)
    BY <1>1 DEF InboxOrdered, Ordered, Init, TypeInv, TypeOK
  <2>2. FramesOpen(c) /\ FileCovered(c) /\ FileAscending(c) /\ FileFinal(c)
    BY DEF Init, FramesOpen, FileCovered, FileAscending, FileFinal
  <2>3. NothingLost(c)
    BY DEF Init, NothingLost, Located, Emits
  <2>. QED
    BY <2>1, <2>2, <2>3 DEF CrateInv
<1>. QED
  BY <1>2, <1>3, <1>4 DEF RunInv

(* A payload still on its way to its crate is not covered by the bound.    *)
LEMMA PendingLate ==
  ASSUME TypeInv, BoundHolds, PendingEmitted, NEW p \in pending
  PROVE  /\ p \in Expected(p.crate) /\ p.crate \in Crates
         /\ p.time \in Nat /\ published <= p.time
<1>1. PICK c \in Crates : p \in Expected(c) /\ p.crate = c
  BY DEF PendingEmitted
<1>2. PICK e \in Events : p \in Sample /\ p.event = e /\ EarliestRemaining(clock, e) <= p.time
  BY <1>1, ExpectedSample DEF TypeInv
<1>3. ~Delivered(e)
  BY <1>2 DEF Delivered
<1>4. published <= EarliestRemaining(clock, e)
  BY <1>3 DEF BoundHolds
<1>5. /\ p.time \in Nat /\ published \in Int /\ EarliestRemaining(clock, e) \in Int
  BY <1>2, EventStartType, RunAssumption DEF Sample, TypeInv, TypeOK, Events
<1>. QED
  BY <1>1, <1>2, <1>4, <1>5

(* Neither is one that its event has not streamed yet.                     *)
LEMMA UnstreamedLate ==
  ASSUME TypeInv, BoundHolds, NEW c \in Crates, NEW e \in Events, NEW k \in Emits(c, e),
         streamed[e] < k
  PROVE  published <= PayloadOf(e, k).time /\ PayloadOf(e, k).time \in Nat
<1>1. k \in 1..Len(hits[e]) /\ Emitted(clock, e, hits[e][k])
  BY DEF Emits
<1>2. PayloadOf(e, k) \in Sample /\ EarliestRemaining(clock, e) <= PayloadOf(e, k).time
  BY <1>1, EmittedSample DEF TypeInv
<1>3. ~Delivered(e)
  BY <1>1 DEF BoundHolds, Delivered, TypeInv, TypeOK
<1>4. published <= EarliestRemaining(clock, e)
  BY <1>3 DEF BoundHolds
<1>5. /\ PayloadOf(e, k).time \in Nat /\ published \in Int /\ EarliestRemaining(clock, e) \in Int
  BY <1>2, EventStartType, RunAssumption DEF Sample, TypeInv, TypeOK, Events
<1>. QED
  BY <1>2, <1>4, <1>5

-----------------------------------------------------------------------------
(* Steps of the workers: what they emit is pending, and nothing is skipped *)
(* but what stream_hit drops.                                              *)
LEMMA WorkerInv ==
  ASSUME TypeInv, RunInv, NEW e \in Events, Claim(e) \/ Worker(e)
  PROVE  RunInv'
<1>. USE DEF input, worker, service, crate
<1>1. UNCHANGED <<input, published, inbox, phase, safe, frames, file>>
      /\ (run' = run \/ run' = "failed")
  BY DEF Claim, Worker, StreamHit, DropHit, RejectHit, CompleteEvent
<1>2. /\ \A d \in Events \ {e} : status'[d] = status[d] /\ streamed'[d] = streamed[d]
      /\ streamed'[e] \in {streamed[e], streamed[e] + 1}
      /\ pending \subseteq pending'
      /\ status[e] # "complete"
  BY DEF Claim, Worker, StreamHit, DropHit, RejectHit, CompleteEvent, HasHit, TypeInv, TypeOK
<1>3. ASSUME NEW p \in pending' \ pending
      PROVE  p = PayloadOf(e, streamed[e] + 1) /\ streamed[e] + 1 \in Emits(p.crate, e)
             /\ p.event = e /\ p.crate \in Crates
  <2>1. StreamHit(e) /\ p = PayloadOf(e, streamed[e] + 1)
    BY <1>3 DEF Claim, Worker, StreamHit, DropHit, RejectHit, CompleteEvent, PayloadOf, NextHit
  <2>2. streamed[e] + 1 \in 1..Len(hits[e]) /\ Emitted(clock, e, hits[e][streamed[e] + 1])
    BY <2>1 DEF StreamHit, HasHit, NextHit, TypeInv, TypeOK
  <2>. QED
    BY <2>1, <2>2, EmittedSample DEF Emits, TypeInv, Sample
<1>4. BoundHolds'
  <2>1. ASSUME NEW d \in Events, ~Delivered(d)' PROVE published' <= EarliestRemaining(clock, d)'
    <3>1. ~Delivered(d)
      BY <2>1, <1>2, <1>3 DEF Delivered
    <3>. QED
      BY <3>1, <1>1 DEF RunInv, BoundHolds
  <2>2. ASSUME NEW d \in Events, status'[d] = "complete" PROVE streamed'[d] = Len(hits'[d])
    <3>1. CASE d = e
      BY <3>1, <2>2, <1>2 DEF Claim, Worker, StreamHit, DropHit, RejectHit, CompleteEvent, TypeInv, TypeOK
    <3>2. CASE d # e
      BY <3>2, <2>2, <1>1, <1>2 DEF RunInv, BoundHolds
    <3>. QED
      BY <3>1, <3>2
  <2>. QED
    BY <2>1, <2>2 DEF BoundHolds
<1>5. PendingEmitted'
  BY <1>1, <1>3, ExpectedKept, EmitsExpected DEF RunInv, PendingEmitted
<1>6. ASSUME NEW c \in Crates PROVE CrateInv(c)'
  <2>1. InboxOrdered(c)' /\ FramesOpen(c)' /\ FileCovered(c)' /\ FileAscending(c)' /\ FileFinal(c)'
    BY <1>1, ExpectedKept
    DEF RunInv, CrateInv, InboxOrdered, FramesOpen, FileCovered, FileAscending, FileFinal
  <2>2. ASSUME phase[c] \notin Ended, NEW d \in Events, NEW k \in Emits(c, d)
        PROVE  Located(c, d, k)'
    <3>1. Located(c, d, k)
      BY <2>2 DEF RunInv, CrateInv, NothingLost
    <3>2. CASE streamed[d] < k /\ ~(streamed'[d] < k)
      <4>1. d = e /\ k = streamed[e] + 1 /\ streamed'[e] = streamed[e] + 1
        BY <3>2, <1>2 DEF Emits, TypeInv, TypeOK
      <4>2. Emitted(clock, e, NextHit(e))
        BY <4>1 DEF Emits, NextHit
      <4>3. ~DropHit(e)
        <5>1. k \in 1..Len(hits[e]) /\ NextHit(e) = hits[e][k]
          BY <4>1 DEF Emits, NextHit
        <5>2. clock \in Clock /\ e \in Int /\ NextHit(e) \in Hit
          BY <4>1, <5>1, InputFacts, RunAssumption DEF TypeInv, Events
        <5>3. ArrivalTime(clock, e, NextHit(e)) \in Nat
          BY <4>2, <5>2, ArrivalAfterBound
        <5>. QED
          BY <4>2, <5>3 DEF DropHit, Dropped, Emitted
      <4>4. StreamHit(e)
        BY <4>1, <4>3 DEF Claim, Worker, RejectHit, CompleteEvent, TypeInv, TypeOK
      <4>5. PayloadOf(e, k) \in pending'
        BY <4>4, <4>1 DEF StreamHit, PayloadOf, NextHit
      <4>. QED
        BY <4>1, <4>5, <1>1, ExpectedKept DEF Located
    <3>3. CASE ~(streamed[d] < k /\ ~(streamed'[d] < k))
      BY <3>1, <3>3, <1>1, <1>2, ExpectedKept DEF Located, InInbox, InFrames, InFile
    <3>. QED
      BY <3>2, <3>3
  <2>3. NothingLost(c)'
    BY <2>2, <1>1, ExpectedKept DEF NothingLost
  <2>. QED
    BY <2>1, <2>3 DEF CrateInv
<1>. QED
  BY <1>4, <1>5, <1>6 DEF RunInv

-----------------------------------------------------------------------------
(* A message at the end of an inbox: a payload that is not covered by any  *)
(* bound sent, or a later bound.                                           *)
LEMMA OrderedAppend ==
  ASSUME NEW messages \in Seq(Message), NEW samples, NEW low \in Int, NEW high \in Int,
         NEW next \in Int, NEW m \in Message,
         Ordered(messages, samples, low, high), high <= next,
         IF IsPayload(m) THEN m.payload \in samples /\ high <= m.payload.time ELSE m.bound = next
  PROVE  Ordered(Append(messages, m), samples, low, next)
<1>. DEFINE after == Append(messages, m)
<1>1. /\ Len(after) = Len(messages) + 1
      /\ \A i \in 1..Len(messages) : after[i] = messages[i]
      /\ after[Len(messages) + 1] = m
      /\ Len(messages) \in Nat
  OBVIOUS
<1>2. low <= high
  BY DEF Ordered
<1>3. ASSUME NEW n \in Message PROVE IF IsPayload(n) THEN n.payload.time \in Int ELSE n.bound \in Int
  BY DEF Message, Sample, IsPayload
<1>4. MessageFits(m, samples, low, next)
  BY <1>2, <1>3 DEF MessageFits
<1>5. ASSUME NEW i \in 1..Len(messages)
      PROVE  MessageFits(messages[i], samples, low, next) /\ MayFollow(messages[i], m)
  <2>1. MessageFits(messages[i], samples, low, high) /\ messages[i] \in Message
    BY DEF Ordered
  <2>. QED
    BY <2>1, <1>3 DEF MessageFits, MayFollow
<1>6. \A i, j \in 1..Len(messages) : i < j => MayFollow(messages[i], messages[j])
  BY DEF Ordered
<1>. HIDE DEF after
<1>7. \A i \in 1..Len(after) : MessageFits(after[i], samples, low, next)
  BY <1>1, <1>4, <1>5
<1>8. \A i, j \in 1..Len(after) : i < j => MayFollow(after[i], after[j])
  BY <1>1, <1>5, <1>6
<1>9. Ordered(after, samples, low, next)
  BY <1>2, <1>7, <1>8 DEF Ordered
<1>. QED
  BY <1>9 DEF after

(* A message taken from the front: the bound the crate knows stays, or is  *)
(* the one just taken.                                                     *)
LEMMA OrderedTail ==
  ASSUME NEW messages \in Seq(Message), messages # <<>>, NEW samples,
         NEW low \in Int, NEW high \in Int, NEW next \in Int,
         Ordered(messages, samples, low, high),
         next = low \/ (~IsPayload(Head(messages)) /\ next = Head(messages).bound)
  PROVE  Ordered(Tail(messages), samples, next, high) /\ low <= next
<1>. DEFINE after == Tail(messages)
            m == Head(messages)
<1>1. /\ Len(after) = Len(messages) - 1 /\ Len(after) \in Nat
      /\ \A i \in 1..Len(after) : after[i] = messages[i + 1]
      /\ m = messages[1] /\ 1 \in 1..Len(messages)
  OBVIOUS
<1>2. low <= next /\ next <= high
  BY <1>1 DEF Ordered, MessageFits
<1>3. ASSUME NEW i \in 1..Len(after) PROVE MessageFits(after[i], samples, next, high)
  <2>1. after[i] = messages[i + 1] /\ i + 1 \in 1..Len(messages) /\ 1 < i + 1
    BY <1>1
  <2>2. MessageFits(messages[i + 1], samples, low, high) /\ MayFollow(m, messages[i + 1])
    BY <1>1, <2>1 DEF Ordered
  <2>3. MessageFits(messages[i + 1], samples, next, high)
    BY <2>2 DEF MessageFits, MayFollow
  <2>. QED
    BY <2>1, <2>3
<1>4. ASSUME NEW i \in 1..Len(after), NEW j \in 1..Len(after), i < j
      PROVE  MayFollow(after[i], after[j])
  <2>1. /\ after[i] = messages[i + 1] /\ after[j] = messages[j + 1]
        /\ i + 1 \in 1..Len(messages) /\ j + 1 \in 1..Len(messages) /\ i + 1 < j + 1
    BY <1>1, <1>4
  <2>. QED
    BY <2>1 DEF Ordered
<1>. QED
  BY <1>2, <1>3, <1>4 DEF Ordered

-----------------------------------------------------------------------------
(* Steps of the service: a released payload is never covered by a bound    *)
(* sent before it, and a bound never overtakes an event that remains.      *)
LEMMA ReleaseInv ==
  ASSUME TypeInv, RunInv, NEW p \in pending, Release(p)
  PROVE  RunInv'
<1>. USE DEF input, worker, service, crate
<1>1. /\ UNCHANGED <<input, run, status, streamed, published, phase, safe, frames, file>>
      /\ pending' = pending \ {p}
      /\ inbox' = [inbox EXCEPT ![p.crate] = Append(@, PayloadMessage(p))]
  BY DEF Release
<1>2. p \in Expected(p.crate) /\ p.crate \in Crates /\ p.time \in Nat /\ published <= p.time
  BY PendingLate DEF RunInv
<1>3. BoundHolds'
  BY <1>1 DEF RunInv, BoundHolds, Delivered
<1>4. PendingEmitted'
  BY <1>1, ExpectedKept DEF RunInv, PendingEmitted
<1>5. ASSUME NEW c \in Crates PROVE CrateInv(c)'
  <2>1. /\ FramesOpen(c)' /\ FileCovered(c)' /\ FileAscending(c)' /\ FileFinal(c)'
    BY <1>1, ExpectedKept DEF RunInv, CrateInv, FramesOpen, FileCovered, FileAscending, FileFinal
  <2>2. CASE c = p.crate
    <3>1. /\ Len(inbox'[c]) = Len(inbox[c]) + 1
          /\ \A i \in 1..Len(inbox[c]) : inbox'[c][i] = inbox[c][i]
          /\ inbox'[c][Len(inbox[c]) + 1] = PayloadMessage(p)
          /\ Len(inbox[c]) \in Nat
      BY <1>1, <2>2 DEF TypeInv, TypeOK
    <3>2. IsPayload(PayloadMessage(p)) /\ PayloadMessage(p).payload = p
      BY DEF IsPayload, PayloadMessage
    <3>3. /\ Ordered(inbox[c], Expected(c), safe[c], published)
          /\ inbox[c] \in Seq(Message) /\ safe[c] \in Int /\ published \in Int
          /\ PayloadMessage(p) \in Message
      BY DEF RunInv, CrateInv, InboxOrdered, TypeInv, TypeOK, PayloadMessage, Message
    <3>4. InboxOrdered(c)'
      <4>1. inbox'[c] = Append(inbox[c], PayloadMessage(p))
        BY <1>1, <2>2 DEF TypeInv, TypeOK
      <4>2. Ordered(Append(inbox[c], PayloadMessage(p)), Expected(c), safe[c], published)
        BY <1>2, <2>2, <3>2, <3>3, OrderedAppend
      <4>. QED
        BY <1>1, <4>1, <4>2, ExpectedKept DEF InboxOrdered
    <3>5. ASSUME phase[c] \notin Ended, NEW e \in Events, NEW k \in Emits(c, e)
          PROVE  Located(c, e, k)'
      <4>1. Located(c, e, k)
        BY <3>5 DEF RunInv, CrateInv, NothingLost
      <4>2. InInbox(c, PayloadOf(e, k)) => InInbox(c, PayloadOf(e, k))'
        BY <1>1, <3>1, ExpectedKept DEF InInbox
      <4>3. PayloadOf(e, k) = p => InInbox(c, PayloadOf(e, k))'
        BY <1>1, <3>1, <3>2, ExpectedKept DEF InInbox
      <4>. QED
        BY <4>1, <4>2, <4>3, <1>1, ExpectedKept DEF Located, InFrames, InFile
    <3>6. NothingLost(c)'
      BY <3>5, <1>1, ExpectedKept DEF NothingLost
    <3>. QED
      BY <2>1, <3>4, <3>6 DEF CrateInv
  <2>3. CASE c # p.crate
    <3>1. inbox'[c] = inbox[c]
      BY <1>1, <2>3 DEF TypeInv, TypeOK
    <3>2. InboxOrdered(c)'
      BY <1>1, <3>1, ExpectedKept DEF RunInv, CrateInv, InboxOrdered
    <3>3. ASSUME phase[c] \notin Ended, NEW e \in Events, NEW k \in Emits(c, e)
          PROVE  Located(c, e, k)'
      <4>1. Located(c, e, k)
        BY <3>3 DEF RunInv, CrateInv, NothingLost
      <4>2. PayloadOf(e, k).crate = c
        BY <2>3, EmitsExpected, ExpectedSample DEF TypeInv
      <4>. QED
        BY <4>1, <4>2, <2>3, <3>1, <1>1, ExpectedKept DEF Located, InInbox, InFrames, InFile
    <3>4. NothingLost(c)'
      BY <3>3, <1>1, ExpectedKept DEF NothingLost
    <3>. QED
      BY <2>1, <3>2, <3>4 DEF CrateInv
  <2>. QED
    BY <2>2, <2>3
<1>. QED
  BY <1>3, <1>4, <1>5 DEF RunInv

LEMMA PublishInv ==
  ASSUME TypeInv, RunInv, PublishProgress
  PROVE  RunInv'
<1>. USE DEF input, worker, service, crate
<1>1. PICK first \in 0..EventCount :
        /\ FirstRemaining(first)
        /\ EarliestRemaining(clock, first) > published
        /\ published' = EarliestRemaining(clock, first)
        /\ inbox' = [c \in Crates |-> Append(inbox[c], AdvanceMessage(EarliestRemaining(clock, first)))]
        /\ UNCHANGED <<input, run, status, streamed, pending, phase, safe, frames, file>>
  BY DEF PublishProgress
<1>2. published \in Int /\ published' \in Int /\ published < published'
  BY <1>1, EventStartType, RunAssumption DEF TypeInv, TypeOK
<1>3. BoundHolds'
  <2>1. ASSUME NEW e \in Events, ~Delivered(e) PROVE published' <= EarliestRemaining(clock, e)
    <3>1. first <= e /\ first \in Int /\ e \in Int
      BY <2>1, <1>1, RunAssumption DEF FirstRemaining, Events
    <3>. QED
      BY <1>1, <3>1, BoundMonotone DEF TypeInv, TypeOK
  <2>. QED
    BY <1>1, <2>1 DEF RunInv, BoundHolds, Delivered
<1>4. PendingEmitted'
  BY <1>1, ExpectedKept DEF RunInv, PendingEmitted
<1>5. ASSUME NEW c \in Crates PROVE CrateInv(c)'
  <2>1. /\ FramesOpen(c)' /\ FileCovered(c)' /\ FileAscending(c)' /\ FileFinal(c)'
    BY <1>1, ExpectedKept DEF RunInv, CrateInv, FramesOpen, FileCovered, FileAscending, FileFinal
  <2>. DEFINE m == AdvanceMessage(published')
  <2>2. /\ Len(inbox'[c]) = Len(inbox[c]) + 1
        /\ \A i \in 1..Len(inbox[c]) : inbox'[c][i] = inbox[c][i]
        /\ inbox'[c][Len(inbox[c]) + 1] = m
        /\ Len(inbox[c]) \in Nat
    BY <1>1 DEF TypeInv, TypeOK
  <2>3. ~IsPayload(m) /\ m.bound = published'
    BY DEF IsPayload, AdvanceMessage
  <2>4. /\ Ordered(inbox[c], Expected(c), safe[c], published)
        /\ inbox[c] \in Seq(Message) /\ safe[c] \in Int /\ m \in Message
    BY <1>2 DEF RunInv, CrateInv, InboxOrdered, TypeInv, TypeOK, AdvanceMessage, Message
  <2>5. InboxOrdered(c)'
    <3>1. inbox'[c] = Append(inbox[c], m)
      BY <1>1
    <3>. HIDE DEF m
    <3>2. Ordered(Append(inbox[c], m), Expected(c), safe[c], published')
      BY <1>2, <2>3, <2>4, OrderedAppend
    <3>. QED
      BY <1>1, <3>1, <3>2, ExpectedKept DEF InboxOrdered
  <2>6. ASSUME phase[c] \notin Ended, NEW e \in Events, NEW k \in Emits(c, e)
        PROVE  Located(c, e, k)'
    <3>1. Located(c, e, k)
      BY <2>6 DEF RunInv, CrateInv, NothingLost
    <3>2. InInbox(c, PayloadOf(e, k)) => InInbox(c, PayloadOf(e, k))'
      BY <1>1, <2>2, ExpectedKept DEF InInbox
    <3>. QED
      BY <3>1, <3>2, <1>1, ExpectedKept DEF Located, InFrames, InFile
  <2>7. NothingLost(c)'
    BY <1>1, <2>6, ExpectedKept DEF NothingLost
  <2>. QED
    BY <2>1, <2>5, <2>7 DEF CrateInv
<1>. QED
  BY <1>3, <1>4, <1>5 DEF RunInv

-----------------------------------------------------------------------------
(* Steps of a crate thread.  They concern that crate alone.                *)
LEMMA OnlyCrate ==
  ASSUME TypeInv, RunInv, NEW c \in Crates, UNCHANGED <<input, worker, service>>,
         \A d \in Crates \ {c} :
           /\ inbox'[d] = inbox[d] /\ safe'[d] = safe[d] /\ frames'[d] = frames[d]
           /\ file'[d] = file[d] /\ phase'[d] = phase[d],
         CrateInv(c)'
  PROVE  RunInv'
<1>1. BoundHolds' /\ PendingEmitted'
  BY ExpectedKept DEF RunInv, BoundHolds, PendingEmitted, Delivered, input, worker, service
<1>2. ASSUME NEW d \in Crates PROVE CrateInv(d)'
  BY CrateKept DEF RunInv, worker, service
<1>. QED
  BY <1>1, <1>2 DEF RunInv

(* The crate's parts that a step of its own leaves alone.                  *)
LEMMA FilesKept ==
  ASSUME NEW c \in Crates, CrateInv(c), UNCHANGED input, file'[c] = file[c],
         safe[c] \in Int, safe'[c] \in Int, safe[c] <= safe'[c],
         \A k \in 1..Len(file[c]) : FrameEnd(file[c][k].id) \in Int
  PROVE  FileCovered(c)' /\ FileAscending(c)' /\ FileFinal(c)'
BY ExpectedKept DEF CrateInv, FileCovered, FileAscending, FileFinal

LEMMA FileTypes ==
  ASSUME TypeInv, NEW c \in Crates
  PROVE  \A k \in 1..Len(file[c]) : /\ file[c][k] \in FrameRecord
                                    /\ file[c][k].id \in Nat
                                    /\ FrameEnd(file[c][k].id) \in Int
<1>1. file[c] \in Seq(FrameRecord)
  BY DEF TypeInv, TypeOK
<1>2. ASSUME NEW k \in 1..Len(file[c])
      PROVE  file[c][k] \in FrameRecord /\ file[c][k].id \in Nat /\ FrameEnd(file[c][k].id) \in Int
  <2>1. file[c][k] \in FrameRecord
    BY <1>1
  <2>2. file[c][k].id \in Nat
    BY <2>1 DEF FrameRecord
  <2>3. FrameEnd(file[c][k].id) \in Int
    BY <2>2, FormatAssumption DEF FrameEnd, FrameBegin
  <2>. QED
    BY <2>1, <2>2, <2>3
<1>. QED
  BY <1>2

LEMMA ElementsAppend ==
  ASSUME NEW S, NEW samples \in Seq(S), NEW p \in S
  PROVE  Elements(Append(samples, p)) = Elements(samples) \cup {p}
<1>1. /\ Len(Append(samples, p)) = Len(samples) + 1 /\ Len(samples) \in Nat
      /\ \A i \in 1..Len(samples) : Append(samples, p)[i] = samples[i]
      /\ Append(samples, p)[Len(samples) + 1] = p
  OBVIOUS
<1>. QED
  BY <1>1 DEF Elements

LEMMA ConsumeInv ==
  ASSUME TypeInv, RunInv, NEW c \in Crates, ConsumePayload(c)
  PROVE  RunInv'
<1>. USE DEF input, worker, service
<1>. DEFINE m == Head(inbox[c])
            p == m.payload
            id == FrameOf(p.time)
<1>1. /\ UNCHANGED <<input, status, streamed, pending, published, run, phase, safe, file>>
      /\ inbox[c] # <<>> /\ IsPayload(m)
      /\ inbox' = [inbox EXCEPT ![c] = Tail(@)]
      /\ frames' = [frames EXCEPT ![c] = Filed(c, id, p)]
  BY DEF ConsumePayload, Receiving, IsPayload
<1>2. /\ inbox[c] \in Seq(Message) /\ safe[c] \in Int /\ published \in Int
      /\ inbox'[c] = Tail(inbox[c]) /\ frames'[c] = Filed(c, id, p)
      /\ CrateInv(c)
  BY <1>1 DEF TypeInv, TypeOK, RunInv
<1>3. m = inbox[c][1] /\ 1 \in 1..Len(inbox[c])
  BY <1>1, <1>2
<1>4. p \in Expected(c) /\ safe[c] <= p.time
  BY <1>1, <1>2, <1>3 DEF CrateInv, InboxOrdered, Ordered, MessageFits
<1>5. p \in Sample /\ p.time \in Nat
  BY <1>4, ExpectedSample DEF TypeInv, Sample
<1>. HIDE DEF p, m
<1>6. id \in Nat /\ p.time < FrameEnd(id) /\ FrameEnd(id) \in Int
  BY <1>5, FrameHolds, FrameBoundsType
<1>. HIDE DEF id
<1>7. InboxOrdered(c)'
  BY <1>1, <1>2, OrderedTail, ExpectedKept DEF CrateInv, InboxOrdered
<1>8. /\ SamplesOf(c, id) \in Seq(Sample)
      /\ Elements(Append(SamplesOf(c, id), p)) = Elements(SamplesOf(c, id)) \cup {p}
  <2>1. SamplesOf(c, id) \in Seq(Sample)
    BY <1>5, <1>6, FiledTypes DEF TypeInv
  <2>. QED
    BY <2>1, <1>5, ElementsAppend
<1>9. FramesOpen(c)'
  <2>1. ASSUME NEW i \in DOMAIN Filed(c, id, p)
        PROVE  /\ Elements(Filed(c, id, p)[i]) \subseteq ExpectedIn(c, i)
               /\ \A k \in 1..Len(file[c]) : file[c][k].id < i
    <3>1. CASE i = id
      <4>1. Elements(SamplesOf(c, id)) \subseteq ExpectedIn(c, id)
        BY <1>2 DEF CrateInv, FramesOpen, SamplesOf, Elements
      <4>2. p \in ExpectedIn(c, id)
        BY <1>4 DEF ExpectedIn, id
      <4>3. Filed(c, id, p)[i] = Append(SamplesOf(c, id), p)
        BY <3>1 DEF Filed
      <4>4. ASSUME NEW k \in 1..Len(file[c]) PROVE file[c][k].id < id
        <5>1. FrameEnd(file[c][k].id) <= safe[c]
          BY <1>2 DEF CrateInv, FileCovered
        <5>2. FrameEnd(file[c][k].id) < FrameEnd(id)
          BY <5>1, <1>2, <1>4, <1>5, <1>6, FileTypes
        <5>. QED
          BY <5>2, <1>6, FileTypes, FrameMonotone
      <4>. QED
        BY <3>1, <4>1, <4>2, <4>3, <4>4, <1>8
    <3>2. CASE i # id
      BY <3>2, <1>2 DEF Filed, CrateInv, FramesOpen
    <3>. QED
      BY <3>1, <3>2
  <2>. QED
    BY <2>1, <1>1, <1>2, ExpectedKept DEF FramesOpen
<1>10. NothingLost(c)'
  <2>1. ASSUME phase[c] \notin Ended, NEW e \in Events, NEW k \in Emits(c, e)
        PROVE  Located(c, e, k)'
    <3>. DEFINE q == PayloadOf(e, k)
    <3>1. Located(c, e, k)
      BY <2>1, <1>2 DEF CrateInv, NothingLost
    <3>2. q = p => InFrames(c, q)'
      <4>1. id \in DOMAIN Filed(c, id, p) /\ p \in Elements(Filed(c, id, p)[id])
        BY <1>8 DEF Filed
      <4>. QED
        BY <4>1, <1>1, <1>2, ExpectedKept DEF InFrames
    <3>3. InFrames(c, q) => InFrames(c, q)'
      <4>1. ASSUME NEW i \in DOMAIN frames[c], q \in Elements(frames[c][i])
            PROVE  i \in DOMAIN Filed(c, id, p) /\ q \in Elements(Filed(c, id, p)[i])
        BY <4>1, <1>8 DEF Filed, SamplesOf
      <4>. QED
        BY <4>1, <1>1, <1>2, ExpectedKept DEF InFrames
    <3>4. InInbox(c, q) /\ q # p => InInbox(c, q)'
      <4>1. ASSUME NEW i \in 1..Len(inbox[c]), IsPayload(inbox[c][i]), inbox[c][i].payload = q, q # p
            PROVE  i - 1 \in 1..Len(Tail(inbox[c])) /\ Tail(inbox[c])[i - 1] = inbox[c][i]
        <5>1. i # 1
          BY <4>1, <1>3 DEF p
        <5>. QED
          BY <5>1, <1>1, <1>2
      <4>. QED
        BY <4>1, <1>1, <1>2, ExpectedKept DEF InInbox
    <3>. QED
      BY <3>1, <3>2, <3>3, <3>4, <1>1, ExpectedKept DEF Located, InFile
  <2>. QED
    BY <2>1, <1>1, ExpectedKept DEF NothingLost
<1>11. CrateInv(c)'
  BY <1>1, <1>2, <1>7, <1>9, <1>10, FilesKept, FileTypes DEF CrateInv
<1>. QED
  BY <1>1, <1>11, OnlyCrate DEF TypeInv, TypeOK

(* The payload is lost, and with it the crate: it has ended.               *)
LEMMA RefuseInv ==
  ASSUME TypeInv, RunInv, NEW c \in Crates, RefusePayload(c)
  PROVE  RunInv'
<1>. USE DEF input, worker, service
<1>1. /\ UNCHANGED <<input, status, streamed, pending, published, safe, frames, file>>
      /\ inbox[c] # <<>>
      /\ inbox' = [inbox EXCEPT ![c] = Tail(@)]
      /\ phase' = [phase EXCEPT ![c] = "rejected"] \/ phase' = [phase EXCEPT ![c] = "overfull"]
  BY DEF RefusePayload, Receiving, Fail
<1>2. /\ inbox[c] \in Seq(Message) /\ safe[c] \in Int /\ published \in Int
      /\ inbox'[c] = Tail(inbox[c]) /\ phase'[c] \in Ended /\ CrateInv(c)
  BY <1>1 DEF TypeInv, TypeOK, RunInv, Ended, Failures
<1>3. InboxOrdered(c)'
  BY <1>1, <1>2, OrderedTail, ExpectedKept DEF CrateInv, InboxOrdered
<1>4. FramesOpen(c)'
  BY <1>1, <1>2, ExpectedKept DEF CrateInv, FramesOpen
<1>5. NothingLost(c)'
  BY <1>2 DEF NothingLost
<1>6. CrateInv(c)'
  BY <1>1, <1>2, <1>3, <1>4, <1>5, FilesKept, FileTypes DEF CrateInv
<1>. QED
  BY <1>1, <1>6, OnlyCrate DEF TypeInv, TypeOK

(* The loop starts with a bound that no message behind it undercuts.       *)
LEMMA BeginAdvanceInv ==
  ASSUME TypeInv, RunInv, NEW c \in Crates, BeginAdvance(c)
  PROVE  RunInv'
<1>. USE DEF input, worker, service
<1>. DEFINE m == Head(inbox[c])
<1>1. /\ UNCHANGED <<input, status, streamed, pending, published, frames, file>>
      /\ inbox[c] # <<>> /\ ~IsPayload(m)
      /\ inbox' = [inbox EXCEPT ![c] = Tail(@)]
      /\ safe' = [safe EXCEPT ![c] = m.bound]
      /\ phase' = [phase EXCEPT ![c] = "advance"] /\ phase[c] = "receive"
  BY DEF BeginAdvance, Receiving, IsPayload
<1>2. /\ inbox[c] \in Seq(Message) /\ safe[c] \in Int /\ published \in Int
      /\ m \in Message /\ safe'[c] = m.bound
      /\ inbox'[c] = Tail(inbox[c]) /\ CrateInv(c) /\ phase[c] \notin Ended
  BY <1>1 DEF TypeInv, TypeOK, RunInv, Ended, Failures
<1>3. safe'[c] \in Int
  BY <1>1, <1>2 DEF Message, IsPayload
<1>4. InboxOrdered(c)' /\ safe[c] <= safe'[c]
  <2>1. Ordered(inbox[c], Expected(c), safe[c], published)
    BY <1>2 DEF CrateInv, InboxOrdered
  <2>2. Ordered(Tail(inbox[c]), Expected(c), safe'[c], published) /\ safe[c] <= safe'[c]
    BY <1>1, <1>2, <1>3, <2>1, OrderedTail
  <2>. QED
    BY <1>1, <1>2, <2>2, ExpectedKept DEF InboxOrdered
<1>5. FramesOpen(c)'
  BY <1>1, <1>2, ExpectedKept DEF CrateInv, FramesOpen
<1>6. NothingLost(c)'
  <2>1. ASSUME NEW e \in Events, NEW k \in Emits(c, e) PROVE Located(c, e, k)'
    <3>. DEFINE q == PayloadOf(e, k)
    <3>1. Located(c, e, k)
      BY <1>2 DEF CrateInv, NothingLost
    <3>2. InInbox(c, q) => InInbox(c, q)'
      <4>1. ASSUME NEW i \in 1..Len(inbox[c]), IsPayload(inbox[c][i]), inbox[c][i].payload = q
            PROVE  i - 1 \in 1..Len(Tail(inbox[c])) /\ Tail(inbox[c])[i - 1] = inbox[c][i]
        <5>1. i # 1
          BY <4>1, <1>1, <1>2
        <5>. QED
          BY <5>1, <1>1, <1>2
      <4>. QED
        BY <4>1, <1>1, <1>2, ExpectedKept DEF InInbox
    <3>. QED
      BY <3>1, <3>2, <1>1, ExpectedKept DEF Located, InFile, InFrames
  <2>. QED
    BY <2>1, <1>1, ExpectedKept DEF NothingLost
<1>7. CrateInv(c)'
  BY <1>1, <1>2, <1>3, <1>4, <1>5, <1>6, FilesKept, FileTypes DEF CrateInv
<1>. QED
  BY <1>1, <1>7, OnlyCrate DEF TypeInv, TypeOK

(* The threads that open, finish or fail, and the end of the loop.         *)
LEMMA PhaseInv ==
  ASSUME TypeInv, RunInv, NEW c \in Crates, OpenSink(c) \/ EndAdvance(c)
  PROVE  RunInv'
<1>. USE DEF input, worker, service
<1>1. /\ UNCHANGED <<input, status, streamed, pending, published, inbox, safe, frames, file>>
      /\ phase[c] \notin Ended
      /\ \A d \in Crates \ {c} : phase'[d] = phase[d]
  BY DEF OpenSink, EndAdvance, Fail, Ended, Failures, TypeInv, TypeOK
<1>2. CrateInv(c) /\ safe[c] \in Int
  BY DEF RunInv, TypeInv, TypeOK
<1>3. InboxOrdered(c)' /\ FramesOpen(c)'
  BY <1>1, <1>2, ExpectedKept DEF CrateInv, InboxOrdered, FramesOpen
<1>4. NothingLost(c)'
  BY <1>1, <1>2, ExpectedKept
  DEF CrateInv, NothingLost, Located, InInbox, InFile, InFrames
<1>5. CrateInv(c)'
  BY <1>1, <1>2, <1>3, <1>4, FilesKept, FileTypes DEF CrateInv
<1>. QED
  BY <1>1, <1>5, OnlyCrate

-----------------------------------------------------------------------------
(* The heart of the argument.  A sample whose frame is covered by the      *)
(* bound its crate was told is streamed, delivered and consumed: it can    *)
(* only be in an open frame or in the file.                                *)
LEMMA CoveredLocated ==
  ASSUME TypeInv, RunInv, NEW c \in Crates, phase[c] \notin Ended,
         NEW p \in Expected(c), FrameEnd(FrameOf(p.time)) <= safe[c]
  PROVE  InFrames(c, p) \/ InFile(c, p)
<1>1. CrateInv(c) /\ BoundHolds /\ PendingEmitted
  BY DEF RunInv
<1>2. safe[c] \in Int /\ published \in Int
  BY DEF TypeInv, TypeOK
<1>3. PICK e \in Events : \E k \in Emits(c, e) : p = PayloadOf(e, k) /\ p \in Sample
  BY ExpectedSample DEF TypeInv
<1>4. PICK k \in Emits(c, e) : p = PayloadOf(e, k) /\ p \in Sample
  BY <1>3
<1>5. p.time \in Nat
  BY <1>4 DEF Sample
<1>6. p.time < safe[c] /\ p.time < published
  <2>1. p.time < FrameEnd(FrameOf(p.time)) /\ FrameOf(p.time) \in Int
    BY <1>5, FrameHolds
  <2>2. FrameEnd(FrameOf(p.time)) \in Int
    BY <2>1, FrameBoundsType
  <2>3. safe[c] <= published
    BY <1>1 DEF CrateInv, InboxOrdered, Ordered
  <2>. QED
    BY <1>2, <1>5, <2>1, <2>2, <2>3
<1>7. ~(streamed[e] < k)
  BY <1>1, <1>2, <1>4, <1>6, UnstreamedLate
<1>8. p \notin pending
  BY <1>1, <1>2, <1>5, <1>6, PendingLate
<1>9. ~InInbox(c, p)
  <2>1. ASSUME NEW i \in 1..Len(inbox[c]), IsPayload(inbox[c][i]), inbox[c][i].payload = p
        PROVE  safe[c] <= p.time
    BY <2>1, <1>1 DEF CrateInv, InboxOrdered, Ordered, MessageFits
  <2>. QED
    BY <2>1, <1>2, <1>5, <1>6 DEF InInbox
<1>. QED
  BY <1>1, <1>4, <1>7, <1>8, <1>9 DEF CrateInv, NothingLost, Located

(* An open frame that may be written is therefore whole.                   *)
LEMMA FrameWhole ==
  ASSUME TypeInv, RunInv, NEW c \in Crates, phase[c] \notin Ended,
         NEW id \in DOMAIN frames[c], MayWrite(c, id)
  PROVE  Elements(frames[c][id]) = ExpectedIn(c, id)
<1>1. CrateInv(c) /\ id \in Nat
  BY FrameTypes DEF RunInv, TypeInv
<1>2. ASSUME NEW p \in ExpectedIn(c, id) PROVE p \in Elements(frames[c][id])
  <2>1. p \in Expected(c) /\ FrameOf(p.time) = id
    BY DEF ExpectedIn
  <2>2. InFrames(c, p) \/ InFile(c, p)
    BY <2>1, CoveredLocated DEF MayWrite
  <2>3. ASSUME NEW n \in 1..Len(file[c]), p \in Elements(file[c][n].samples) PROVE FALSE
    <3>1. p \in ExpectedIn(c, file[c][n].id)
      BY <2>3, <1>1 DEF CrateInv, FileFinal
    <3>2. file[c][n].id = id
      BY <2>1, <3>1 DEF ExpectedIn
    <3>3. file[c][n].id < id
      BY <1>1 DEF CrateInv, FramesOpen
    <3>. QED
      BY <1>1, <3>2, <3>3
  <2>4. PICK other \in DOMAIN frames[c] : p \in Elements(frames[c][other])
    BY <2>2, <2>3 DEF InFile, InFrames
  <2>5. other = id
    BY <1>1, <2>1, <2>4 DEF CrateInv, FramesOpen, ExpectedIn
  <2>. QED
    BY <2>4, <2>5
<1>. QED
  BY <1>1, <1>2 DEF CrateInv, FramesOpen

LEMMA WriteFrameInv ==
  ASSUME TypeInv, RunInv, NEW c \in Crates, WriteFrame(c)
  PROVE  RunInv'
<1>. USE DEF input, worker, service
<1>1. PICK id \in DOMAIN frames[c] :
        /\ MayWrite(c, id)
        /\ frames' = [frames EXCEPT ![c] = Extracted(c, id)]
        /\ file' = [file EXCEPT ![c] = Append(@, Frame(c, id))]
  BY DEF WriteFrame
<1>2. /\ UNCHANGED <<input, status, streamed, pending, published, inbox, phase, safe>>
      /\ phase[c] \notin Ended
  BY DEF WriteFrame, Ended, Failures
<1>3. /\ CrateInv(c) /\ id \in Nat /\ safe[c] \in Int /\ file[c] \in Seq(FrameRecord)
      /\ frames'[c] = Extracted(c, id) /\ file'[c] = Append(file[c], Frame(c, id))
  BY <1>1, FrameTypes DEF RunInv, TypeInv, TypeOK
<1>4. /\ Len(file'[c]) = Len(file[c]) + 1 /\ Len(file[c]) \in Nat
      /\ \A k \in 1..Len(file[c]) : file'[c][k] = file[c][k]
      /\ file'[c][Len(file[c]) + 1] = Frame(c, id)
  BY <1>3
<1>5. Frame(c, id).id = id /\ Frame(c, id).samples = frames[c][id]
  BY DEF Frame
<1>6. Elements(frames[c][id]) = ExpectedIn(c, id)
  BY <1>1, <1>2, FrameWhole
<1>7. \A k \in 1..Len(file[c]) : file[c][k].id < id
  BY <1>3 DEF CrateInv, FramesOpen
<1>8. InboxOrdered(c)'
  BY <1>2, <1>3, ExpectedKept DEF CrateInv, InboxOrdered
<1>9. FramesOpen(c)'
  <2>1. ASSUME NEW i \in DOMAIN frames[c] \ {id}
        PROVE  /\ Elements(frames[c][i]) \subseteq ExpectedIn(c, i)
               /\ \A k \in 1..Len(file'[c]) : file'[c][k].id < i
    <3>1. id < i
      BY <1>1, <1>3, FrameTypes DEF MayWrite, Lowest, TypeInv
    <3>2. \A k \in 1..Len(file[c]) : file[c][k].id < i
      BY <1>3 DEF CrateInv, FramesOpen
    <3>. QED
      BY <1>3, <1>4, <1>5, <3>1, <3>2 DEF CrateInv, FramesOpen
  <2>. QED
    BY <2>1, <1>2, <1>3, ExpectedKept DEF FramesOpen, Extracted
<1>10. FileCovered(c)'
  BY <1>1, <1>2, <1>3, <1>4, <1>5 DEF MayWrite, CrateInv, FileCovered
<1>11. FileAscending(c)'
  <2>1. ASSUME NEW j \in 1..Len(file'[c]), NEW k \in 1..Len(file'[c]), j < k
        PROVE  file'[c][j].id < file'[c][k].id
    <3>1. j \in 1..Len(file[c]) /\ file'[c][j] = file[c][j]
      BY <2>1, <1>4
    <3>2. CASE k \in 1..Len(file[c])
      BY <2>1, <3>1, <3>2, <1>3, <1>4 DEF CrateInv, FileAscending
    <3>3. CASE k = Len(file[c]) + 1
      BY <3>1, <3>3, <1>4, <1>5, <1>7
    <3>. QED
      BY <1>4, <3>2, <3>3
  <2>. QED
    BY <2>1 DEF FileAscending
<1>12. FileFinal(c)'
  BY <1>2, <1>3, <1>4, <1>5, <1>6, ExpectedKept DEF CrateInv, FileFinal
<1>13. NothingLost(c)'
  <2>1. ASSUME NEW e \in Events, NEW k \in Emits(c, e) PROVE Located(c, e, k)'
    <3>. DEFINE q == PayloadOf(e, k)
    <3>1. Located(c, e, k)
      BY <1>2, <1>3 DEF CrateInv, NothingLost
    <3>2. InFile(c, q) => InFile(c, q)'
      BY <1>2, <1>4, ExpectedKept DEF InFile
    <3>3. InFrames(c, q) => InFrames(c, q)' \/ InFile(c, q)'
      <4>1. ASSUME NEW i \in DOMAIN frames[c], q \in Elements(frames[c][i])
            PROVE  InFrames(c, q)' \/ InFile(c, q)'
        <5>1. CASE i = id
          <6>1. Len(file[c]) + 1 \in 1..Len(file'[c]) /\ q \in Elements(file'[c][Len(file[c]) + 1].samples)
            BY <4>1, <5>1, <1>4, <1>5
          <6>. QED
            BY <6>1, <1>2, ExpectedKept DEF InFile
        <5>2. CASE i # id
          BY <4>1, <5>2, <1>2, <1>3, ExpectedKept DEF InFrames, Extracted
        <5>. QED
          BY <5>1, <5>2
      <4>. QED
        BY <4>1 DEF InFrames
    <3>. QED
      BY <3>1, <3>2, <3>3, <1>2, ExpectedKept DEF Located, InInbox
  <2>. QED
    BY <2>1, <1>2, ExpectedKept DEF NothingLost
<1>14. CrateInv(c)'
  BY <1>8, <1>9, <1>10, <1>11, <1>12, <1>13 DEF CrateInv
<1>. QED
  BY <1>1, <1>2, <1>14, OnlyCrate DEF TypeInv, TypeOK

(* A write that fails and a crate that finishes lose open frames, and the  *)
(* crate has ended.                                                        *)
LEMMA EndInv ==
  ASSUME TypeInv, RunInv, NEW c \in Crates, WriteFails(c) \/ FinishRun(c)
  PROVE  RunInv'
<1>. USE DEF input, worker, service
<1>1. /\ UNCHANGED <<input, status, streamed, pending, published, inbox, safe>>
      /\ \A d \in Crates \ {c} : phase'[d] = phase[d] /\ frames'[d] = frames[d]
      /\ phase'[c] \in Ended
  BY WriteFailsParts, FinishRunParts DEF Fail, Ended, Failures, TypeInv, TypeOK
<1>2. /\ \A d \in Crates \ {c} : file'[d] = file[d]
      /\ Len(file'[c]) \in 0..Len(file[c])
      /\ \A k \in 1..Len(file'[c]) : k \in 1..Len(file[c]) /\ file'[c][k] = file[c][k]
  BY WriteFailsParts, FinishRunParts, CutParts
<1>3. CrateInv(c) /\ safe[c] \in Int
  BY DEF RunInv, TypeInv, TypeOK
<1>4. FileCovered(c)' /\ FileAscending(c)' /\ FileFinal(c)'
  BY <1>1, <1>2, <1>3, ExpectedKept DEF CrateInv, FileCovered, FileAscending, FileFinal
<1>5. \A i \in DOMAIN frames'[c] : i \in DOMAIN frames[c] /\ frames'[c][i] = frames[c][i]
  <2>1. CASE WriteFails(c)
    <3>1. PICK id \in DOMAIN frames[c] : frames'[c] = Extracted(c, id)
      BY <2>1 DEF WriteFails, TypeInv, TypeOK
    <3>. QED
      BY <3>1 DEF Extracted
  <2>2. CASE FinishRun(c)
    <3>1. frames'[c] = <<>>
      BY <2>2 DEF FinishRun, TypeInv, TypeOK
    <3>. QED
      BY <3>1
  <2>. QED
    BY <2>1, <2>2
<1>6. FramesOpen(c)'
  BY <1>1, <1>2, <1>3, <1>5, ExpectedKept DEF CrateInv, FramesOpen
<1>7. InboxOrdered(c)' /\ NothingLost(c)'
  BY <1>1, <1>3, ExpectedKept DEF CrateInv, InboxOrdered, NothingLost
<1>8. CrateInv(c)'
  BY <1>4, <1>6, <1>7 DEF CrateInv
<1>. QED
  BY <1>1, <1>2, <1>8, OnlyCrate

-----------------------------------------------------------------------------
LEMMA InvNext == TypeInv /\ RunInv /\ [Next]_vars => RunInv'
<1>. SUFFICES ASSUME TypeInv, RunInv, [Next]_vars PROVE RunInv'
  OBVIOUS
<1>1. CASE \E e \in Events : Claim(e) \/ Worker(e)
  BY <1>1, WorkerInv
<1>2. CASE Service
  <2>1. CASE \E p \in pending : Release(p)
    BY <2>1, ReleaseInv
  <2>2. CASE PublishProgress
    BY <2>2, PublishInv
  <2>3. CASE EndRun
    BY <2>3, OtherKept DEF EndRun, input, service, worker, crate
  <2>. QED
    BY <1>2, <2>1, <2>2, <2>3 DEF Service
<1>3. CASE \E c \in Crates : CrateThread(c)
  BY <1>3, PhaseInv, ConsumeInv, RefuseInv, BeginAdvanceInv, WriteFrameInv, EndInv
  DEF CrateThread
<1>4. CASE Interrupt
  BY <1>4, OtherKept DEF Interrupt, input, service, worker, crate
<1>5. CASE UNCHANGED vars
  BY <1>5, OtherKept DEF vars, input
<1>. QED
  BY <1>1, <1>2, <1>3, <1>4, <1>5 DEF Next, Step, Stop

(* The invariant the safety of the output rests on, for every schedule.    *)
THEOREM RunInvariant == Spec => []RunInv
<1>1. TypeInv /\ RunInv /\ [Next]_vars => (TypeInv /\ RunInv)'
  BY TypeNext, InvNext
<1>2. Init => TypeInv /\ RunInv
  BY TypeInit, InvInit
<1>. QED
  BY <1>1, <1>2, PTL DEF Spec

(* "rather than silently writing late data into an already completed       *)
(* frame" (sro/README.md): whatever the schedule, the failures and the     *)
(* input, a frame that is written holds all the samples the run's events   *)
(* will ever put there, and no others.                                     *)
THEOREM WrittenFramesAreFinal == Spec => []WrittenFramesFinal
<1>1. RunInv => WrittenFramesFinal
  BY DEF RunInv, CrateInv, WrittenFramesFinal
<1>. QED
  BY <1>1, RunInvariant, PTL

(* No frame is written twice or after a later one, over all the calls of   *)
(* advance_time.                                                           *)
THEOREM FramesAreAscending == Spec => []FramesAscending
<1>1. RunInv => FramesAscending
  BY DEF RunInv, CrateInv, FramesAscending
<1>. QED
  BY <1>1, RunInvariant, PTL

-----------------------------------------------------------------------------
(* The worker, the collector and the encoder agree.                        *)

(* What the input owes a crate passes the checks of consume_payload, and   *)
(* those of encode_frame on a sample.                                      *)
LEMMA ExpectedValid ==
  ASSUME TypeInv, NEW c \in Crates, NEW p \in Expected(c)
  PROVE  /\ p \in Sample /\ EnvelopeValid(c, p)
         /\ p.data.crate = c /\ p.data.slot \in Slots
         /\ p.data.channel <= MaxChannel /\ p.data.charge <= MaxCharge
         /\ p.data.time < FrameDuration
<1>1. PICK e \in Events : \E k \in Emits(c, e) :
        k \in 1..Len(hits[e]) /\ p = PayloadOf(e, k) /\ p \in Sample /\ p.crate = c
  BY ExpectedSample DEF TypeInv
<1>2. PICK k \in Emits(c, e) :
        k \in 1..Len(hits[e]) /\ p = PayloadOf(e, k) /\ p \in Sample /\ p.crate = c
  BY <1>1
<1>3. /\ clock \in Clock /\ e \in Nat /\ k \in Nat /\ hits[e][k] \in Hit
      /\ Emitted(clock, e, hits[e][k])
  BY <1>2, InputFacts, RunAssumption DEF TypeInv, Events, Emits
<1>. DEFINE h == hits[e][k]
            q == Payload(clock, e, k, h)
<1>4. p = q
  BY <1>2 DEF PayloadOf
<1>6. clock \in Clock /\ e \in Nat /\ k \in Nat /\ h \in Hit /\ Emitted(clock, e, h)
  BY <1>3
<1>. HIDE DEF h
<1>0. /\ q.data.crate = q.crate /\ q.time \in Nat
      /\ q.data.slot \in Slots
      /\ q.data.channel \in 0..MaxChannel
      /\ q.data.charge \in 0..MaxCharge
      /\ q.data.time = q.time % FrameDuration
      /\ q.data.time \in 0..(FrameDuration - 1)
  BY <1>6, PayloadFits
<1>. HIDE DEF q
<1>5. /\ p.data.crate = p.crate /\ p.time \in Nat
      /\ p.data.slot \in Slots
      /\ p.data.channel \in 0..MaxChannel
      /\ p.data.charge \in 0..MaxCharge
      /\ p.data.time = p.time % FrameDuration
      /\ p.data.time \in 0..(FrameDuration - 1)
  BY <1>0, <1>4
<1>8. p.data.time < FrameDuration
  BY <1>5, FormatAssumption
<1>7. EnvelopeValid(c, p)
  BY <1>2, <1>5 DEF EnvelopeValid
<1>. QED
  BY <1>2, <1>5, <1>8, <1>7, FormatAssumption

(* A set of positions below a bound is finite, and not larger.             *)
LEMMA PositionsCount ==
  ASSUME NEW a \in Int, NEW n \in Int, NEW T \in SUBSET (a..n), a <= n + 1
  PROVE  Cardinality(T) \in Nat /\ Cardinality(T) <= n - a + 1
<1>1. IsFiniteSet(a..n) /\ Cardinality(a..n) = IF a > n THEN 0 ELSE n - a + 1
  BY FS_Interval, Zenon
<1>2. Cardinality(a..n) = n - a + 1
  BY <1>1
<1>3. IsFiniteSet(T) /\ Cardinality(T) <= Cardinality(a..n)
  BY <1>1, FS_Subset, Zenon
<1>4. Cardinality(T) \in Nat
  BY <1>3, FS_CardinalityType
<1>. QED
  BY <1>2, <1>3, <1>4

(* A frame of at most FrameCapacity samples never overflows the directory, *)
(* whatever slots they are in.                                             *)
LEMMA DirectoryHolds ==
  ASSUME NEW samples, Len(samples) \in Nat, Len(samples) <= FrameCapacity
  PROVE  DirectoryFits(samples)
<1>. DEFINE n == Len(samples)
<1>1. n \in Nat /\ n <= FrameCapacity /\ FrameCapacity \in Nat
  BY RunAssumption
<1>. HIDE DEF n
<1>2. ASSUME NEW positions \in SUBSET (1..n)
      PROVE  Cardinality(positions) \in Nat /\ Cardinality(positions) <= FrameCapacity
  BY <1>1, PositionsCount
<1>3. ASSUME NEW s \in Slots
      PROVE  BlockWords(samples, s) <= DirectoryLimit /\ Offset(samples, s) <= DirectoryLimit
  <2>. DEFINE occupied == {t \in 0..(s - 1) : InSlot(samples, t) # {}}
              earlier == UNION {InSlot(samples, t) : t \in occupied}
  <2>1. InSlot(samples, s) \in SUBSET (1..n) /\ earlier \in SUBSET (1..n)
    BY DEF InSlot, n
  <2>2. s \in 0..MaxSlot /\ MaxSlot \in Nat /\ FrameCapacity \in Nat /\ DirectoryLimit \in Nat
    BY FormatAssumption, RunAssumption, DirectoryAssumption DEF Slots
  <2>3. occupied \in SUBSET (0..(s - 1))
    OBVIOUS
  <2>4. Cardinality(occupied) \in Nat /\ Cardinality(occupied) <= MaxSlot
    <3>1. PICK last \in Int : last = s - 1
      BY <2>2
    <3>2. occupied \in SUBSET (0..last) /\ 0 <= last + 1
      BY <2>2, <2>3, <3>1
    <3>. HIDE DEF occupied
    <3>0. PICK lowest \in Int : lowest = 0
      OBVIOUS
    <3>4. occupied \in SUBSET (lowest..last) /\ lowest <= last + 1
      BY <3>0, <3>2
    <3>3. Cardinality(occupied) \in Nat /\ Cardinality(occupied) <= last - lowest + 1
      BY <3>4, PositionsCount
    <3>. QED
      BY <2>2, <3>0, <3>1, <3>3
  <2>5. /\ Cardinality(earlier) \in Nat /\ Cardinality(earlier) <= FrameCapacity
        /\ Cardinality(InSlot(samples, s)) \in Nat
        /\ Cardinality(InSlot(samples, s)) <= FrameCapacity
    BY <1>2, <2>1
  <2>6. Offset(samples, s) = 2 + MaxSlot + Cardinality(occupied) + Cardinality(earlier)
    BY DEF Offset
  <2>. HIDE DEF occupied, earlier
  <2>7. Offset(samples, s) <= DirectoryLimit
    BY <2>2, <2>4, <2>5, <2>6, CapacityAssumption
  <2>8. BlockWords(samples, s) <= DirectoryLimit
    BY <2>2, <2>5, CapacityAssumption DEF BlockWords
  <2>. QED
    BY <2>7, <2>8
<1>. QED
  BY <1>3 DEF DirectoryFits

(* encode_frame never throws on an open frame.                             *)
LEMMA FrameEncodable ==
  ASSUME TypeInv, RunInv, FillInv, NEW c \in Crates, NEW id \in DOMAIN frames[c]
  PROVE  Encodable(Frame(c, id))
<1>. DEFINE f == Frame(c, id)
<1>1. id \in Nat /\ c \in 0..MaxCrate /\ frames[c][id] \in Seq(Sample)
  BY FrameTypes, RunAssumption DEF TypeInv, TypeOK, OpenFrames
<1>2. /\ f.crate = c /\ f.id = id /\ f.begin = FrameDuration * id
      /\ f.end = FrameDuration * id + FrameDuration /\ f.samples = frames[c][id]
  BY DEF Frame, FrameBegin, FrameEnd
<1>. HIDE DEF f
<1>3. BoundaryValid(f)
  <2>1. /\ FrameDuration * id \in Nat
        /\ (FrameDuration * id) % FrameDuration = 0
        /\ (FrameDuration * id) \div FrameDuration = id
    BY <1>1, FormatAssumption
  <2>. QED
    BY <1>1, <1>2, <2>1, FormatAssumption DEF BoundaryValid
<1>4. ASSUME NEW k \in 1..Len(f.samples) PROVE SampleValid(f, f.samples[k].data)
  <2>1. frames[c][id][k] \in Expected(c)
    BY <1>2 DEF RunInv, CrateInv, FramesOpen, Elements, ExpectedIn
  <2>. QED
    BY <1>2, <2>1, ExpectedValid DEF SampleValid
<1>5. DirectoryFits(f.samples)
  <2>1. Len(frames[c][id]) \in Nat /\ Len(frames[c][id]) <= FrameCapacity
    BY <1>1, RunAssumption DEF FillInv, FramesFit
  <2>. QED
    BY <1>2, <2>1, DirectoryHolds
<1>. QED
  BY <1>3, <1>4, <1>5 DEF Encodable, f

(* A step that files nothing, writes nothing and rejects nothing.          *)
LEMMA FillKept ==
  ASSUME FillInv,
         \A c \in Crates : \A k \in 1..Len(file'[c]) :
           k \in 1..Len(file[c]) /\ file'[c][k] = file[c][k],
         \A c \in Crates : \A id \in DOMAIN frames'[c] :
           id \in DOMAIN frames[c] /\ frames'[c][id] = frames[c][id],
         \A c \in Crates : phase'[c] # "rejected"
  PROVE  FillInv'
BY DEF FillInv, FramesFit, FileFilled

LEMMA ConsumeFill ==
  ASSUME TypeInv, FillInv, NEW c \in Crates, ConsumePayload(c)
  PROVE  FillInv'
<1>. DEFINE p == Head(inbox[c]).payload
            id == FrameOf(p.time)
<1>1. /\ Len(SamplesOf(c, id)) < FrameCapacity
      /\ frames' = [frames EXCEPT ![c] = Filed(c, id, p)]
      /\ UNCHANGED <<phase, file>>
  BY DEF ConsumePayload
<1>2. p \in Sample
  BY ReceivedTypes DEF ConsumePayload, TypeInv
<1>. HIDE DEF p
<1>3. id \in Nat
  BY <1>2, FrameHolds DEF Sample
<1>. HIDE DEF id
<1>4. SamplesOf(c, id) \in Seq(Sample)
  BY <1>2, <1>3, FiledTypes DEF TypeInv
<1>5. Len(Append(SamplesOf(c, id), p)) \in 1..FrameCapacity
  BY <1>1, <1>4, RunAssumption
<1>6. ASSUME NEW d \in Crates PROVE FramesFit(d)'
  <2>1. CASE d = c
    <3>1. frames'[d] = Filed(c, id, p)
      BY <1>1, <2>1 DEF TypeInv, TypeOK
    <3>2. ASSUME NEW i \in DOMAIN Filed(c, id, p)
          PROVE  Len(Filed(c, id, p)[i]) \in 1..FrameCapacity
      BY <1>5 DEF Filed, FillInv, FramesFit
    <3>. QED
      BY <3>1, <3>2 DEF FramesFit
  <2>2. CASE d # c
    BY <1>1, <2>2 DEF FramesFit, FillInv, TypeInv, TypeOK
  <2>. QED
    BY <2>1, <2>2
<1>. QED
  BY <1>1, <1>6 DEF FillInv, FileFilled

LEMMA WriteFill ==
  ASSUME TypeInv, FillInv, NEW c \in Crates, WriteFrame(c)
  PROVE  FillInv'
<1>1. PICK id \in DOMAIN frames[c] : /\ frames' = [frames EXCEPT ![c] = Extracted(c, id)]
                                     /\ file' = [file EXCEPT ![c] = Append(@, Frame(c, id))]
  BY DEF WriteFrame
<1>2. UNCHANGED phase
  BY DEF WriteFrame
<1>3. ASSUME NEW d \in Crates PROVE FramesFit(d)'
  BY <1>1 DEF FillInv, FramesFit, Extracted, TypeInv, TypeOK
<1>4. ASSUME NEW d \in Crates PROVE FileFilled(d)'
  <2>1. CASE d = c
    <3>1. file[c] \in Seq(FrameRecord) /\ file'[c] = Append(file[c], Frame(c, id))
      BY <1>1 DEF TypeInv, TypeOK
    <3>2. Frame(c, id).samples = frames[c][id] /\ Len(frames[c][id]) > 0
      BY RunAssumption DEF Frame, FillInv, FramesFit
    <3>3. FileFilled(c)
      BY DEF FillInv
    <3>. QED
      BY <2>1, <3>1, <3>2, <3>3 DEF FileFilled
  <2>2. CASE d # c
    BY <1>1, <2>2 DEF FillInv, FileFilled, TypeInv, TypeOK
  <2>. QED
    BY <2>1, <2>2
<1>. QED
  BY <1>2, <1>3, <1>4 DEF FillInv

LEMMA FillNext == TypeInv /\ RunInv /\ FillInv /\ [Next]_vars => FillInv'
<1>. SUFFICES ASSUME TypeInv, RunInv, FillInv, [Next]_vars PROVE FillInv'
  OBVIOUS
<1>0. \A c \in Crates : phase[c] # "rejected"
  BY DEF FillInv
<1>. USE DEF input, worker, service, crate
<1>1. ASSUME UNCHANGED <<phase, frames, file>> PROVE FillInv'
  BY <1>1 DEF FillInv, FramesFit, FileFilled
<1>2. ASSUME NEW e \in Events, Claim(e) \/ Worker(e) PROVE FillInv'
  BY <1>1, <1>2 DEF Claim, Worker, StreamHit, DropHit, RejectHit, CompleteEvent
<1>3. CASE Service \/ Interrupt
  BY <1>1, <1>3 DEF Service, Release, PublishProgress, EndRun, Interrupt
<1>4. ASSUME NEW c \in Crates, CrateThread(c) PROVE FillInv'
  <2>1. CASE OpenSink(c) \/ BeginAdvance(c) \/ EndAdvance(c)
    BY <1>0, <2>1, FillKept
    DEF OpenSink, BeginAdvance, EndAdvance, Fail, TypeInv, TypeOK
  <2>2. CASE ConsumePayload(c)
    BY <2>2, ConsumeFill
  <2>3. CASE RefusePayload(c)
    <3>. DEFINE m == Head(inbox[c])
    <3>1. inbox[c] # <<>> /\ IsPayload(m)
      BY <2>3 DEF RefusePayload, Receiving, IsPayload
    <3>2. m = inbox[c][1] /\ 1 \in 1..Len(inbox[c])
      BY <3>1 DEF TypeInv, TypeOK
    <3>3. m.payload \in Expected(c)
      BY <3>1, <3>2 DEF RunInv, CrateInv, InboxOrdered, Ordered, MessageFits
    <3>4. EnvelopeValid(c, m.payload)
      BY <3>3, ExpectedValid
    <3>5. phase' = [phase EXCEPT ![c] = "overfull"] /\ UNCHANGED <<frames, file>>
      BY <2>3, <3>4 DEF RefusePayload, Fail
    <3>. QED
      BY <1>0, <3>5, FillKept DEF TypeInv, TypeOK
  <2>4. CASE WriteFrame(c)
    BY <2>4, WriteFill
  <2>5. CASE WriteFails(c)
    <3>1. PICK id \in DOMAIN frames[c] :
            /\ frames' = [frames EXCEPT ![c] = Extracted(c, id)]
            /\ \/ ~Encodable(Frame(c, id))
               \/ \E how \in {"unwritable", "torn"} : phase' = [phase EXCEPT ![c] = how]
      BY <2>5, WriteFailsParts
    <3>2. PICK how \in {"unwritable", "torn"} : phase' = [phase EXCEPT ![c] = how]
      BY <2>5, <3>1, FrameEncodable
    <3>3. \A d \in Crates : \A k \in 1..Len(file'[d]) :
            k \in 1..Len(file[d]) /\ file'[d][k] = file[d][k]
      BY <2>5, WriteFailsParts, CutParts
    <3>. QED
      BY <1>0, <3>1, <3>2, <3>3, FillKept DEF Extracted, TypeInv, TypeOK
  <2>6. CASE FinishRun(c)
    <3>1. /\ frames' = [frames EXCEPT ![c] = <<>>]
          /\ \E how \in {"completed", "interrupted", "unwritable", "torn"} :
               phase' = [phase EXCEPT ![c] = how]
      BY <2>6, FinishRunParts
    <3>2. \A d \in Crates : \A k \in 1..Len(file'[d]) :
            k \in 1..Len(file[d]) /\ file'[d][k] = file[d][k]
      BY <2>6, FinishRunParts, CutParts
    <3>. QED
      BY <1>0, <3>1, <3>2, FillKept DEF TypeInv, TypeOK
  <2>. QED
    BY <1>4, <2>1, <2>2, <2>3, <2>4, <2>5, <2>6 DEF CrateThread
<1>5. CASE UNCHANGED vars
  BY <1>1, <1>5 DEF vars
<1>. QED
  BY <1>2, <1>3, <1>4, <1>5 DEF Next, Step, Stop

LEMMA FillAlways == Spec => []FillInv
<1>1. Init => FillInv
  BY DEF Init, FillInv, FramesFit, FileFilled
<1>. QED
  BY <1>1, FillNext, TypeAlways, RunInvariant, PTL DEF Spec

(* "JLAB SRO payload address/time does not match its envelope" and the     *)
(* encoder's "exceeds crate/slot/channel/charge/time range" and "exceeds   *)
(* 16-bit count/offset capacity" are never thrown on what stream_hit       *)
(* emitted, whatever the schedule, the input and the constants.            *)
THEOREM NothingIsRejected == Spec => []NothingRejected
<1>1. FillInv => NothingRejected
  BY DEF FillInv, NothingRejected
<1>. QED
  BY <1>1, FillAlways, PTL

-----------------------------------------------------------------------------
(* What a completed run has written.                                       *)

LEMMA LowestExists ==
  ASSUME NEW S \in SUBSET Nat, S # {}
  PROVE  \E x \in S : \A y \in S : x <= y
<1>. DEFINE less == OpToRel(<, Nat)
<1>1. \A x, y \in Nat : x < y => <<x, y>> \in less
  BY DEF OpToRel
<1>2. IsWellFoundedOn(less, Nat)
  BY NatLessThanWellFounded
<1>. HIDE DEF less
<1>3. PICK x \in S : \A y \in S : ~(<<y, x>> \in less)
  BY <1>2, WFMin
<1>4. ASSUME NEW y \in S PROVE x <= y
  <2>1. x \in Nat /\ y \in Nat /\ ~(y < x)
    BY <1>1, <1>3
  <2>. QED
    BY <2>1
<1>. QED
  BY <1>4

LEMMA OwedKept ==
  ASSUME UNCHANGED input
  PROVE  FinalBound' = FinalBound /\ \A c : Owed(c)' = Owed(c)
BY ExpectedKept DEF input, Owed, FinalBound, EarliestRemaining, EventStart

(* The last bound stays the last one, for a crate that takes no bound.     *)
LEMMA BoundTail ==
  ASSUME TypeInv, NEW c \in Crates, LastBound(c), inbox[c] # <<>>, IsPayload(Head(inbox[c])),
         inbox'[c] = Tail(inbox[c]), published' = published, safe'[c] = safe[c]
  PROVE  LastBound(c)'
<1>1. inbox[c] \in Seq(Message)
  BY DEF TypeInv, TypeOK
<1>2. ASSUME NEW i \in 1..Len(inbox[c]), ~IsPayload(inbox[c][i]), inbox[c][i].bound = published
      PROVE  i - 1 \in 1..Len(inbox'[c]) /\ inbox'[c][i - 1] = inbox[c][i]
  <2>1. i # 1
    BY <1>1, <1>2
  <2>. QED
    BY <1>1, <2>1
<1>. QED
  BY <1>2 DEF LastBound

LEMMA BoundAppend ==
  ASSUME TypeInv, NEW c \in Crates, NEW m \in Message, inbox'[c] = Append(inbox[c], m),
         safe'[c] = safe[c],
         \/ LastBound(c) /\ published' = published
         \/ ~IsPayload(m) /\ m.bound = published'
  PROVE  LastBound(c)'
<1>1. inbox[c] \in Seq(Message)
  BY DEF TypeInv, TypeOK
<1>2. /\ Len(inbox'[c]) = Len(inbox[c]) + 1 /\ Len(inbox[c]) \in Nat
      /\ \A i \in 1..Len(inbox[c]) : inbox'[c][i] = inbox[c][i]
      /\ inbox'[c][Len(inbox[c]) + 1] = m
  BY <1>1
<1>. QED
  BY <1>2 DEF LastBound

(* A crate nothing happens to, but for its own or another's failure.       *)
LEMMA DrainKept ==
  ASSUME NEW c \in Crates, CrateDrained(c), UNCHANGED input,
         published' = published, inbox'[c] = inbox[c], safe'[c] = safe[c],
         frames'[c] = frames[c], file'[c] = file[c], phase'[c] = phase[c]
  PROVE  CrateDrained(c)'
<1>1. LastBound(c)' /\ OpenLate(c)'
  BY DEF CrateDrained, LastBound, OpenLate
<1>2. Written(c)' = Written(c) /\ Owed(c)' = Owed(c)
  BY OwedKept DEF Written
<1>. QED
  BY <1>1, <1>2 DEF CrateDrained

(* After a completed run is drained nothing but the crates moves.          *)
LEMMA WorkerDrain ==
  ASSUME TypeInv, DrainInv, NEW e \in Events, Claim(e) \/ Worker(e)
  PROVE  DrainInv'
<1>. USE DEF input, worker, service, crate
<1>1. /\ UNCHANGED <<input, published, inbox, phase, safe, frames, file>>
      /\ run' = run \/ run' = "failed"
      /\ status[e] # "complete" \/ run = "running"
  BY DEF Claim, Worker, StreamHit, DropHit, RejectHit, CompleteEvent, HasHit
<1>2. status[e] # "complete"
  BY DEF Claim, Worker, StreamHit, DropHit, RejectHit, CompleteEvent, HasHit
<1>3. run' # "completed"
  BY <1>1, <1>2 DEF DrainInv, RunDrained, Delivered
<1>4. ASSUME NEW c \in Crates PROVE CrateDrained(c)'
  BY <1>1, DrainKept DEF DrainInv
<1>. QED
  BY <1>1, <1>3, <1>4, OwedKept DEF DrainInv

LEMMA ReleaseDrain ==
  ASSUME TypeInv, RunInv, DrainInv, NEW p \in pending, Release(p)
  PROVE  DrainInv'
<1>. USE DEF input, worker, service, crate
<1>1. /\ UNCHANGED <<input, run, published, phase, safe, frames, file>>
      /\ inbox' = [inbox EXCEPT ![p.crate] = Append(@, PayloadMessage(p))]
  BY DEF Release
<1>2. p \in Sample /\ PayloadMessage(p) \in Message
  BY DEF TypeInv, TypeOK, PayloadMessage, Message
<1>3. run # "completed"
  BY <1>2 DEF DrainInv, RunDrained, Delivered, Sample
<1>4. ASSUME NEW c \in Crates PROVE CrateDrained(c)'
  <2>1. CASE c = p.crate
    <3>1. inbox'[c] = Append(inbox[c], PayloadMessage(p))
      BY <1>1, <2>1 DEF TypeInv, TypeOK
    <3>2. LastBound(c)'
      BY <1>1, <1>2, <3>1, BoundAppend DEF DrainInv, CrateDrained
    <3>3. OpenLate(c)' /\ Written(c)' = Written(c) /\ Owed(c)' = Owed(c)
      BY <1>1, OwedKept DEF DrainInv, CrateDrained, OpenLate, Written
    <3>. QED
      BY <1>1, <3>2, <3>3 DEF DrainInv, CrateDrained
  <2>2. CASE c # p.crate
    BY <1>1, <2>2, DrainKept DEF DrainInv, TypeInv, TypeOK
  <2>. QED
    BY <2>1, <2>2
<1>. QED
  BY <1>1, <1>3, <1>4, OwedKept DEF DrainInv

LEMMA PublishDrain ==
  ASSUME TypeInv, DrainInv, PublishProgress
  PROVE  DrainInv'
<1>. USE DEF input, worker, service, crate
<1>1. PICK first \in 0..EventCount :
        /\ EarliestRemaining(clock, first) > published
        /\ published' = EarliestRemaining(clock, first)
        /\ inbox' = [c \in Crates |-> Append(inbox[c], AdvanceMessage(EarliestRemaining(clock, first)))]
        /\ UNCHANGED <<input, run, phase, safe, frames, file>>
  BY DEF PublishProgress
<1>2. /\ published' \in Int /\ published \in Int /\ FinalBound \in Int
      /\ published' <= FinalBound
  <2>1. clock \in Clock /\ first \in Int /\ EventCount \in Int /\ first <= EventCount
    BY RunAssumption DEF TypeInv, TypeOK
  <2>2. EarliestRemaining(clock, first) <= EarliestRemaining(clock, EventCount)
    BY <2>1, BoundMonotone
  <2>. QED
    BY <1>1, <2>1, <2>2, EventStartType DEF TypeInv, TypeOK, FinalBound
<1>3. run # "completed"
  BY <1>1, <1>2 DEF DrainInv, RunDrained
<1>4. ASSUME NEW c \in Crates PROVE CrateDrained(c)'
  <2>. DEFINE m == AdvanceMessage(published')
  <2>1. m \in Message /\ ~IsPayload(m) /\ m.bound = published'
    BY <1>2 DEF AdvanceMessage, Message, IsPayload
  <2>2. inbox'[c] = Append(inbox[c], m) /\ safe'[c] = safe[c]
    BY <1>1
  <2>. HIDE DEF m
  <2>3. LastBound(c)'
    BY <2>1, <2>2, BoundAppend
  <2>4. OpenLate(c)' /\ Written(c)' = Written(c) /\ Owed(c)' = Owed(c)
    BY <1>1, OwedKept DEF DrainInv, CrateDrained, OpenLate, Written
  <2>. QED
    BY <1>1, <2>3, <2>4 DEF DrainInv, CrateDrained
<1>. QED
  BY <1>1, <1>2, <1>3, <1>4, OwedKept DEF DrainInv

(* What a step of a crate thread leaves alone.                             *)
LEMMA CrateStep ==
  ASSUME TypeInv, NEW c \in Crates, CrateThread(c)
  PROVE  /\ UNCHANGED <<input, worker, service>>
         /\ run' = run \/ run' = "failed"
         /\ \A d \in Crates \ {c} :
              /\ inbox'[d] = inbox[d] /\ safe'[d] = safe[d] /\ frames'[d] = frames[d]
              /\ file'[d] = file[d] /\ phase'[d] = phase[d]
<1>. USE DEF input, worker, service
<1>1. CASE OpenSink(c) \/ EndAdvance(c)
  BY <1>1 DEF OpenSink, EndAdvance, Fail, TypeInv, TypeOK
<1>2. CASE ConsumePayload(c) \/ RefusePayload(c) \/ BeginAdvance(c)
  BY <1>2 DEF ConsumePayload, RefusePayload, BeginAdvance, Receiving, Fail, TypeInv, TypeOK
<1>3. CASE WriteFrame(c)
  BY <1>3 DEF WriteFrame, TypeInv, TypeOK
<1>4. CASE WriteFails(c)
  BY <1>4, WriteFailsParts, CutParts DEF Fail, TypeInv, TypeOK
<1>5. CASE FinishRun(c)
  <2>1. \A d \in Crates \ {c} : frames'[d] = frames[d] /\ phase'[d] = phase[d]
    BY <1>5, FinishRunParts DEF TypeInv, TypeOK
  <2>2. \A d \in Crates \ {c} : file'[d] = file[d]
    BY <1>5, FinishRunParts, CutParts
  <2>. QED
    BY <1>5, <2>1, <2>2, FinishRunParts
<1>. QED
  BY <1>1, <1>2, <1>3, <1>4, <1>5 DEF CrateThread

(* A step of one crate thread.                                             *)
LEMMA OnlyCrateDrain ==
  ASSUME TypeInv, DrainInv, NEW c \in Crates, UNCHANGED <<input, worker, service>>,
         run' = run \/ run' = "failed",
         \A d \in Crates \ {c} :
           /\ inbox'[d] = inbox[d] /\ safe'[d] = safe[d] /\ frames'[d] = frames[d]
           /\ file'[d] = file[d] /\ phase'[d] = phase[d],
         CrateDrained(c)'
  PROVE  DrainInv'
<1>. USE DEF input, worker, service
<1>1. ASSUME NEW d \in Crates PROVE CrateDrained(d)'
  BY DrainKept DEF DrainInv
<1>2. FinalBound' = FinalBound
  BY OwedKept
<1>3. run' = "completed" => RunDrained'
  BY <1>2 DEF DrainInv, RunDrained, Delivered
<1>. QED
  BY <1>1, <1>2, <1>3 DEF DrainInv

(* A crate that takes a bound knows the last one, or will take it.         *)
LEMMA BeginDrain ==
  ASSUME TypeInv, RunInv, DrainInv, NEW c \in Crates, BeginAdvance(c)
  PROVE  CrateDrained(c)'
<1>. USE DEF input, worker, service
<1>. DEFINE m == Head(inbox[c])
<1>1. /\ published' = published
      /\ inbox[c] # <<>> /\ ~IsPayload(m)
      /\ inbox' = [inbox EXCEPT ![c] = Tail(@)]
      /\ safe' = [safe EXCEPT ![c] = m.bound]
      /\ phase' = [phase EXCEPT ![c] = "advance"]
  BY DEF BeginAdvance, Receiving, IsPayload
<1>2. /\ inbox[c] \in Seq(Message) /\ inbox'[c] = Tail(inbox[c]) /\ safe'[c] = m.bound
      /\ m = inbox[c][1] /\ 1 \in 1..Len(inbox[c]) /\ m \in Message
      /\ safe[c] \in Int /\ published \in Int
  BY <1>1 DEF TypeInv, TypeOK
<1>3. m.bound \in Int
  BY <1>1, <1>2 DEF Message, IsPayload
<1>4. safe[c] <= m.bound /\ m.bound <= published
  BY <1>1, <1>2 DEF RunInv, CrateInv, InboxOrdered, Ordered, MessageFits
<1>5. LastBound(c)'
  <2>1. CASE safe[c] = published
    BY <2>1, <1>1, <1>2, <1>3, <1>4 DEF LastBound
  <2>2. CASE \E i \in 1..Len(inbox[c]) : ~IsPayload(inbox[c][i]) /\ inbox[c][i].bound = published
    <3>1. PICK i \in 1..Len(inbox[c]) : ~IsPayload(inbox[c][i]) /\ inbox[c][i].bound = published
      BY <2>2
    <3>2. CASE i = 1
      BY <3>1, <3>2, <1>1, <1>2 DEF LastBound
    <3>3. CASE i # 1
      <4>1. i - 1 \in 1..Len(inbox'[c]) /\ inbox'[c][i - 1] = inbox[c][i]
        BY <3>3, <1>2
      <4>. QED
        BY <4>1, <3>1, <1>1 DEF LastBound
    <3>. QED
      BY <3>2, <3>3
  <2>. QED
    BY <2>1, <2>2 DEF DrainInv, CrateDrained, LastBound
<1>6. phase'[c] = "advance"
  BY <1>1 DEF TypeInv, TypeOK
<1>. QED
  BY <1>5, <1>6 DEF CrateDrained, OpenLate

(* A sample that can still be taken keeps its frame open past the bound.   *)
LEMMA ConsumeDrain ==
  ASSUME TypeInv, RunInv, DrainInv, NEW c \in Crates, ConsumePayload(c)
  PROVE  CrateDrained(c)'
<1>. USE DEF input, worker, service
<1>. DEFINE m == Head(inbox[c])
            p == m.payload
            id == FrameOf(p.time)
<1>1. /\ UNCHANGED <<input, published, phase, safe, file>>
      /\ inbox[c] # <<>> /\ IsPayload(m) /\ phase[c] = "receive"
      /\ inbox' = [inbox EXCEPT ![c] = Tail(@)]
      /\ frames' = [frames EXCEPT ![c] = Filed(c, id, p)]
  BY DEF ConsumePayload, Receiving, IsPayload
<1>2. /\ m = inbox[c][1] /\ 1 \in 1..Len(inbox[c]) /\ inbox'[c] = Tail(inbox[c])
      /\ frames'[c] = Filed(c, id, p) /\ safe[c] \in Int
  BY <1>1 DEF TypeInv, TypeOK
<1>3. p \in Expected(c) /\ safe[c] <= p.time
  BY <1>1, <1>2 DEF RunInv, CrateInv, InboxOrdered, Ordered, MessageFits
<1>4. p.time \in Nat
  BY <1>3, ExpectedSample DEF TypeInv, Sample
<1>5. LastBound(c)'
  BY <1>1, <1>2, BoundTail DEF DrainInv, CrateDrained
<1>. HIDE DEF p, m
<1>6. p.time < FrameEnd(id) /\ FrameEnd(id) \in Int
  BY <1>4, FrameHolds, FrameBoundsType
<1>. HIDE DEF id
<1>7. OpenLate(c)'
  <2>1. \A i \in DOMAIN frames[c] : FrameEnd(i) > safe[c]
    BY <1>1 DEF DrainInv, CrateDrained, OpenLate
  <2>2. \A i \in DOMAIN frames'[c] : i \in DOMAIN frames[c] \/ i = id
    BY <1>2 DEF Filed
  <2>3. FrameEnd(id) > safe[c]
    BY <1>2, <1>3, <1>4, <1>6
  <2>. QED
    BY <1>1, <2>1, <2>2, <2>3 DEF OpenLate
<1>. QED
  BY <1>1, <1>5, <1>7 DEF CrateDrained

(* The loop ends at the lowest frame, and so past every other one.         *)
LEMMA EndAdvanceDrain ==
  ASSUME TypeInv, DrainInv, NEW c \in Crates, EndAdvance(c)
  PROVE  CrateDrained(c)'
<1>. USE DEF input, worker, service
<1>1. /\ UNCHANGED <<published, inbox, safe, frames, file>>
      /\ phase'[c] = "receive"
      /\ \A id \in DOMAIN frames[c] : Lowest(c, id) => FrameEnd(id) > safe[c]
  BY DEF EndAdvance, TypeInv, TypeOK
<1>2. DOMAIN frames[c] \in SUBSET Nat /\ safe[c] \in Int
  BY DEF TypeInv, TypeOK, OpenFrames
<1>3. ASSUME NEW id \in DOMAIN frames[c] PROVE FrameEnd(id) > safe[c]
  <2>1. PICK low \in DOMAIN frames[c] : \A k \in DOMAIN frames[c] : low <= k
    BY <1>2, LowestExists
  <2>2. FrameEnd(low) > safe[c]
    BY <1>1, <2>1 DEF Lowest
  <2>3. low \in Int /\ id \in Int /\ low <= id
    BY <1>2, <2>1
  <2>4. FrameEnd(low) \in Int /\ FrameEnd(id) \in Int /\ ~(FrameEnd(id) < FrameEnd(low))
    BY <2>3, FrameMonotone, FrameBoundsType
  <2>. QED
    BY <1>2, <2>2, <2>4
<1>4. LastBound(c)' /\ OpenLate(c)'
  BY <1>1, <1>3 DEF DrainInv, CrateDrained, LastBound, OpenLate
<1>. QED
  BY <1>1, <1>4 DEF CrateDrained

(* What a written frame looks like is owed.                                *)
LEMMA WrittenOwed ==
  ASSUME TypeInv, RunInv, FillInv, DrainInv, NEW c \in Crates, NEW k \in 1..Len(file[c])
  PROVE  [id |-> file[c][k].id, samples |-> Elements(file[c][k].samples)] \in Owed(c)
<1>. DEFINE id == file[c][k].id
<1>1. file[c][k] \in FrameRecord /\ id \in Nat /\ FrameEnd(id) \in Int
  BY FileTypes
<1>2. Elements(file[c][k].samples) = ExpectedIn(c, id)
  BY DEF RunInv, CrateInv, FileFinal
<1>3. PICK p : p \in Expected(c) /\ FrameOf(p.time) = id
  <2>1. file[c][k].samples \in Seq(Sample) /\ Len(file[c][k].samples) > 0
    BY <1>1 DEF FrameRecord, FillInv, FileFilled
  <2>2. file[c][k].samples[1] \in Elements(file[c][k].samples)
    BY <2>1 DEF Elements
  <2>. QED
    BY <1>2, <2>2 DEF ExpectedIn
<1>4. FrameEnd(id) <= FinalBound
  <2>1. FrameEnd(id) <= safe[c] /\ safe[c] <= published /\ published <= FinalBound
    BY DEF RunInv, CrateInv, FileCovered, InboxOrdered, Ordered, DrainInv
  <2>2. safe[c] \in Int /\ published \in Int /\ FinalBound \in Int
    BY EventStartType, RunAssumption DEF TypeInv, TypeOK, FinalBound
  <2>. QED
    BY <1>1, <2>1, <2>2
<1>. QED
  BY <1>2, <1>3, <1>4 DEF Owed

(* A sample of a frame that is not written is an open frame's, as long as  *)
(* its crate's bound covers it.                                            *)
LEMMA CoveredOpen ==
  ASSUME TypeInv, RunInv, NEW c \in Crates, phase[c] \notin Ended,
         NEW f \in Owed(c), f \notin Written(c), FrameEnd(f.id) <= safe[c]
  PROVE  f.id \in DOMAIN frames[c]
<1>1. PICK p : p \in Expected(c) /\ f = [id |-> FrameOf(p.time), samples |-> ExpectedIn(c, FrameOf(p.time))]
  BY DEF Owed
<1>2. f.id = FrameOf(p.time) /\ f.samples = ExpectedIn(c, f.id)
  BY <1>1
<1>3. InFrames(c, p) \/ InFile(c, p)
  BY <1>1, <1>2, CoveredLocated
<1>4. ~InFile(c, p)
  <2>1. ASSUME NEW k \in 1..Len(file[c]), p \in Elements(file[c][k].samples) PROVE f \in Written(c)
    <3>1. Elements(file[c][k].samples) = ExpectedIn(c, file[c][k].id)
      BY DEF RunInv, CrateInv, FileFinal
    <3>2. file[c][k].id = f.id
      BY <2>1, <3>1, <1>2 DEF ExpectedIn
    <3>3. f = [id |-> file[c][k].id, samples |-> Elements(file[c][k].samples)]
      BY <1>1, <1>2, <3>1, <3>2
    <3>. QED
      BY <3>3 DEF Written, Elements
  <2>. QED
    BY <2>1 DEF InFile
<1>5. PICK id \in DOMAIN frames[c] : p \in Elements(frames[c][id])
  BY <1>3, <1>4 DEF InFrames
<1>6. id = FrameOf(p.time)
  BY <1>5 DEF RunInv, CrateInv, FramesOpen, ExpectedIn
<1>. QED
  BY <1>2, <1>5, <1>6

(* A crate told to finish a completed run has written all that is owed.    *)
LEMMA CompletedWhole ==
  ASSUME TypeInv, RunInv, FillInv, DrainInv, NEW c \in Crates,
         run = "completed", inbox[c] = <<>>, phase[c] = "receive"
  PROVE  Written(c) = Owed(c)
<1>1. safe[c] = published /\ published = FinalBound
  <2>1. published = FinalBound
    BY DEF DrainInv, RunDrained
  <2>2. LastBound(c) /\ Len(inbox[c]) = 0
    BY DEF DrainInv, CrateDrained
  <2>. QED
    BY <2>1, <2>2 DEF LastBound
<1>2. \A f \in Written(c) : f \in Owed(c)
  BY WrittenOwed DEF Written, Elements
<1>3. ASSUME NEW f \in Owed(c), f \notin Written(c) PROVE FALSE
  <2>1. FrameEnd(f.id) <= safe[c]
    BY <1>1 DEF Owed
  <2>2. f.id \in DOMAIN frames[c]
    BY <1>3, <2>1, CoveredOpen DEF Ended, Failures
  <2>3. FrameEnd(f.id) > safe[c]
    BY <2>2 DEF DrainInv, CrateDrained, OpenLate
  <2>4. f.id \in Nat /\ safe[c] \in Int
    BY <2>2, FrameTypes DEF TypeInv, TypeOK
  <2>. QED
    BY <2>1, <2>3, <2>4, FrameBoundsType
<1>. QED
  BY <1>2, <1>3

LEMMA CrateDrain ==
  ASSUME TypeInv, RunInv, FillInv, DrainInv, NEW c \in Crates, CrateThread(c)
  PROVE  DrainInv'
<1>. USE DEF input, worker, service
<1>1. /\ UNCHANGED <<input, worker, service>>
      /\ run' = run \/ run' = "failed"
      /\ \A d \in Crates \ {c} :
           /\ inbox'[d] = inbox[d] /\ safe'[d] = safe[d] /\ frames'[d] = frames[d]
           /\ file'[d] = file[d] /\ phase'[d] = phase[d]
  BY CrateStep
<1>2. CrateDrained(c) /\ LastBound(c)
  BY DEF DrainInv, CrateDrained
<1>3. CrateDrained(c)'
  <2>1. CASE OpenSink(c)
    <3>1. /\ UNCHANGED <<inbox, safe, frames, published>> /\ phase[c] = "unopened"
          /\ phase'[c] \in {"receive", "unwritable"}
      BY <2>1 DEF OpenSink, Fail, TypeInv, TypeOK
    <3>. QED
      BY <1>2, <3>1 DEF CrateDrained, LastBound, OpenLate
  <2>2. CASE ConsumePayload(c)
    BY <2>2, ConsumeDrain
  <2>3. CASE RefusePayload(c)
    <3>1. /\ inbox[c] # <<>> /\ IsPayload(Head(inbox[c])) /\ inbox'[c] = Tail(inbox[c])
          /\ UNCHANGED <<safe, published>> /\ phase'[c] \in {"rejected", "overfull"}
      BY <2>3 DEF RefusePayload, Receiving, Fail, IsPayload, TypeInv, TypeOK
    <3>2. LastBound(c)'
      BY <1>2, <3>1, BoundTail
    <3>. QED
      BY <3>1, <3>2 DEF CrateDrained, OpenLate
  <2>4. CASE BeginAdvance(c)
    BY <2>4, BeginDrain
  <2>5. CASE WriteFrame(c)
    <3>1. UNCHANGED <<inbox, safe, published>> /\ phase'[c] = "advance"
      BY <2>5 DEF WriteFrame
    <3>. QED
      BY <1>2, <3>1 DEF CrateDrained, LastBound, OpenLate
  <2>6. CASE WriteFails(c)
    <3>1. /\ UNCHANGED <<inbox, safe, published>>
          /\ phase'[c] \in {"rejected", "unwritable", "torn"}
      BY <2>6, WriteFailsParts DEF Fail, TypeInv, TypeOK
    <3>. QED
      BY <1>2, <3>1 DEF CrateDrained, LastBound, OpenLate
  <2>7. CASE EndAdvance(c)
    BY <2>7, EndAdvanceDrain
  <2>8. CASE FinishRun(c)
    <3>1. /\ UNCHANGED <<inbox, safe, published>> /\ phase[c] = "receive"
          /\ phase'[c] \in {"completed", "interrupted", "unwritable", "torn"}
          /\ phase'[c] = "completed" => run = "completed" /\ inbox[c] = <<>> /\ UNCHANGED file
      BY <2>8, FinishRunParts DEF TypeInv, TypeOK
    <3>2. LastBound(c)' /\ OpenLate(c)'
      BY <1>2, <3>1 DEF LastBound, OpenLate
    <3>3. UNCHANGED file => Written(c)' = Written(c) /\ Owed(c)' = Owed(c)
      BY <1>1, OwedKept DEF Written
    <3>4. phase'[c] = "completed" => Written(c)' = Owed(c)'
      BY <3>1, <3>3, CompletedWhole
    <3>. QED
      BY <3>2, <3>4 DEF CrateDrained
  <2>. QED
    BY <2>1, <2>2, <2>3, <2>4, <2>5, <2>6, <2>7, <2>8 DEF CrateThread
<1>. QED
  BY <1>1, <1>3, OnlyCrateDrain

LEMMA DrainNext == TypeInv /\ RunInv /\ FillInv /\ DrainInv /\ [Next]_vars => DrainInv'
<1>. SUFFICES ASSUME TypeInv, RunInv, FillInv, DrainInv, [Next]_vars PROVE DrainInv'
  OBVIOUS
<1>1. CASE \E e \in Events : Claim(e) \/ Worker(e)
  BY <1>1, WorkerDrain
<1>2. CASE \E p \in pending : Release(p)
  BY <1>2, ReleaseDrain
<1>3. CASE PublishProgress
  BY <1>3, PublishDrain
<1>4. CASE EndRun \/ Interrupt
  <2>. USE DEF input, worker, service, crate
  <2>1. /\ UNCHANGED <<input, status, pending, published, inbox, phase, safe, frames, file>>
        /\ run' = "completed" => published = FinalBound /\ \A e \in Events : Delivered(e)
    BY <1>4 DEF EndRun, Interrupt, FinalBound
  <2>2. \A c \in Crates : CrateDrained(c)'
    BY <2>1, DrainKept DEF DrainInv
  <2>3. run' = "completed" => RunDrained'
    BY <2>1, OwedKept DEF RunDrained, Delivered
  <2>. QED
    BY <2>1, <2>2, <2>3, OwedKept DEF DrainInv
<1>5. CASE \E c \in Crates : CrateThread(c)
  BY <1>5, CrateDrain
<1>6. CASE UNCHANGED vars
  <2>1. UNCHANGED <<input, run, status, pending, published, inbox, phase, safe, frames, file>>
    BY <1>6 DEF vars, input
  <2>2. \A c \in Crates : CrateDrained(c)'
    BY <2>1, DrainKept DEF DrainInv
  <2>3. run' = "completed" => RunDrained'
    BY <2>1, OwedKept DEF DrainInv, RunDrained, Delivered
  <2>. QED
    BY <2>1, <2>2, <2>3, OwedKept DEF DrainInv
<1>. QED
  BY <1>1, <1>2, <1>3, <1>4, <1>5, <1>6 DEF Next, Step, Stop, Service

LEMMA DrainAlways == Spec => []DrainInv
<1>1. Init => DrainInv
  <2>. SUFFICES ASSUME Init PROVE DrainInv
    OBVIOUS
  <2>1. clock \in Clock
    BY TypeInit DEF TypeInv, TypeOK
  <2>2. published <= FinalBound
    BY <2>1, BoundMonotone, RunAssumption DEF Init, FinalBound
  <2>3. run # "completed"
    BY DEF Init
  <2>4. \A c \in Crates : CrateDrained(c)
    BY DEF Init, CrateDrained, LastBound, OpenLate
  <2>. QED
    BY <2>2, <2>3, <2>4 DEF DrainInv
<1>. QED
  BY <1>1, DrainNext, TypeAlways, RunInvariant, FillAlways, PTL DEF Spec

-----------------------------------------------------------------------------
(* The run implements SroOutput.                                           *)

(* What a crate's file holds in the eyes of SroOutput.                     *)
LEMMA HeldWritten ==
  ASSUME NEW c \in Crates, Len(file[c]) \in Nat
  PROVE  /\ Promise!Held(c) = Written(c)
         /\ Len(OutputView[c]) = Len(file[c])
<1>. DEFINE n == Len(file[c])
            view(k) == [id |-> file[c][k].id, samples |-> Elements(file[c][k].samples)]
<1>1. OutputView[c] = [k \in 1..n |-> view(k)]
  BY DEF OutputView
<1>2. Written(c) = {view(k) : k \in 1..n}
  BY DEF Written, Elements
<1>3. Promise!Held(c) = {OutputView[c][k] : k \in 1..Len(OutputView[c])}
  BY DEF Promise!Held
<1>. HIDE DEF n, view
<1>4. OutputView[c] \in Seq({view(k) : k \in 1..n}) /\ Len(OutputView[c]) = n
  BY <1>1 DEF n
<1>5. {OutputView[c][k] : k \in 1..n} = {view(k) : k \in 1..n}
  BY <1>1
<1>6. Promise!Held(c) = Written(c)
  BY <1>2, <1>3, <1>4, <1>5
<1>. QED
  BY <1>4, <1>6 DEF n

LEMMA ViewsKept ==
  ASSUME UNCHANGED input
  PROVE  /\ PromisedView' = PromisedView
         /\ file' = file => OutputView' = OutputView
         /\ phase' = phase => StateView' = StateView
BY OwedKept DEF PromisedView, OutputView, StateView

(* The frames left in a file that was cut are the first of its view.       *)
LEMMA CutView ==
  ASSUME TypeInv, NEW c \in Crates, FileCut(c)
  PROVE  \E n \in 0..Len(OutputView[c]) : OutputView' = [OutputView EXCEPT ![c] = SubSeq(@, 1, n)]
<1>. DEFINE view(k) == [id |-> file[c][k].id, samples |-> Elements(file[c][k].samples)]
            old == OutputView[c]
            new == OutputView'[c]
            n == Len(file'[c])
            l == Len(file[c])
<1>1. l \in Nat /\ n \in 0..l /\ \A k \in 1..n : file'[c][k] = file[c][k]
  BY CutParts DEF TypeInv, TypeOK
<1>2. /\ OutputView = [d \in Crates |-> OutputView[d]]
      /\ OutputView' = [d \in Crates |-> OutputView'[d]]
  BY DEF OutputView
<1>3. ASSUME NEW d \in Crates, d # c PROVE OutputView'[d] = OutputView[d]
  BY <1>3, CutParts DEF OutputView
<1>4. old = [k \in 1..l |-> view(k)]
  BY DEF OutputView
<1>5. new = [k \in 1..n |-> view(k)]
  <2>1. new = [k \in 1..n |->
                 [id |-> file'[c][k].id, samples |-> Elements(file'[c][k].samples)]]
    BY DEF OutputView, Elements
  <2>. QED
    BY <1>1, <2>1
<1>. HIDE DEF view, old, new, n, l
<1>6. old \in Seq({view(k) : k \in 1..l}) /\ Len(old) = l
  BY <1>1, <1>4
<1>7. new = SubSeq(old, 1, n) /\ n \in 0..Len(old)
  BY <1>1, <1>4, <1>5, <1>6
<1>8. \E m \in 0..Len(old) : new = SubSeq(old, 1, m)
  BY <1>7
<1>9. PICK m \in 0..Len(OutputView[c]) : OutputView'[c] = SubSeq(OutputView[c], 1, m)
  BY <1>8 DEF old, new
<1>10. OutputView' = [OutputView EXCEPT ![c] = SubSeq(@, 1, m)]
  BY <1>2, <1>3, <1>9
<1>. QED
  BY <1>10

(* A crate thread that ends without completing its run abandons its file.  *)
LEMMA AbandonStep ==
  ASSUME TypeInv, NEW c \in Crates, UNCHANGED input, FileCut(c),
         phase[c] \notin Ended,
         NEW how \in Ended \ {"completed"}, phase' = [phase EXCEPT ![c] = how]
  PROVE  Promise!Abandon(c)
<1>1. StateView[c] = "open"
  BY DEF StateView, Ended
<1>2. StateView' = [StateView EXCEPT ![c] = "abandoned"]
  BY DEF StateView, TypeInv, TypeOK
<1>3. \E n \in 0..Len(OutputView[c]) : OutputView' = [OutputView EXCEPT ![c] = SubSeq(@, 1, n)]
  BY CutView
<1>. QED
  BY <1>1, <1>2, <1>3, ViewsKept DEF Promise!Abandon

LEMMA SealStep ==
  ASSUME TypeInv, RunInv, FillInv, DrainInv, NEW c \in Crates, UNCHANGED <<input, file>>,
         run = "completed", inbox[c] = <<>>, phase[c] = "receive",
         phase' = [phase EXCEPT ![c] = "completed"]
  PROVE  Promise!Seal(c)
<1>1. StateView[c] = "open"
  BY DEF StateView, Ended, Failures
<1>2. StateView' = [StateView EXCEPT ![c] = "sealed"]
  BY DEF StateView, TypeInv, TypeOK
<1>3. Promise!Held(c) = PromisedView[c]
  BY HeldWritten, CompletedWhole DEF PromisedView, TypeInv, TypeOK
<1>. QED
  BY <1>1, <1>2, <1>3, ViewsKept DEF Promise!Seal

(* The frame written is owed, and every lower one is in the file: lower    *)
(* ones are covered by the same bound, and this is the lowest open one.    *)
LEMMA WriteStep ==
  ASSUME TypeInv, RunInv, FillInv, DrainInv, NEW c \in Crates, WriteFrame(c)
  PROVE  Promise!WriteFrame(c)
<1>. USE DEF input, worker, service
<1>1. PICK id \in DOMAIN frames[c] :
        /\ MayWrite(c, id)
        /\ file' = [file EXCEPT ![c] = Append(@, Frame(c, id))]
  BY DEF WriteFrame
<1>2. /\ UNCHANGED <<input, phase>> /\ phase[c] = "advance" /\ phase[c] \notin Ended
  BY DEF WriteFrame, Ended, Failures
<1>3. /\ file[c] \in Seq(FrameRecord) /\ id \in Nat /\ safe[c] \in Int
      /\ DOMAIN frames[c] \subseteq Nat /\ DOMAIN file = Crates
  BY FrameTypes DEF TypeInv, TypeOK, OpenFrames
<1>. DEFINE f == [id |-> id, samples |-> Elements(frames[c][id])]
<1>4. Frame(c, id).id = id /\ Frame(c, id).samples = frames[c][id]
  BY DEF Frame
<1>5. Elements(frames[c][id]) = ExpectedIn(c, id)
  BY <1>1, <1>2, FrameWhole
<1>6. FrameEnd(id) \in Int /\ FrameEnd(id) <= safe[c] /\ FrameEnd(id) <= FinalBound
  <2>1. FrameEnd(id) <= safe[c] /\ safe[c] <= published /\ published <= FinalBound
    BY <1>1 DEF MayWrite, RunInv, CrateInv, InboxOrdered, Ordered, DrainInv
  <2>2. safe[c] \in Int /\ published \in Int /\ FinalBound \in Int /\ FrameEnd(id) \in Int
    BY <1>3, EventStartType, FrameBoundsType, RunAssumption DEF TypeInv, TypeOK, FinalBound
  <2>. QED
    BY <2>1, <2>2
<1>7. f \in Owed(c)
  <2>1. frames[c][id] \in Seq(Sample) /\ Len(frames[c][id]) \in 1..FrameCapacity
    BY DEF TypeInv, TypeOK, OpenFrames, FillInv, FramesFit
  <2>2. frames[c][id][1] \in ExpectedIn(c, id)
    BY <1>5, <2>1, RunAssumption DEF Elements
  <2>. QED
    BY <1>5, <1>6, <2>2 DEF Owed, ExpectedIn
<1>8. f \notin Written(c)
  <2>1. \A k \in 1..Len(file[c]) : file[c][k].id < id
    BY DEF RunInv, CrateInv, FramesOpen
  <2>2. ASSUME NEW k \in 1..Len(file[c])
        PROVE  f # [id |-> file[c][k].id, samples |-> Elements(file[c][k].samples)]
    <3>1. file[c][k].id # f.id
      BY <1>3, <2>1, FileTypes
    <3>. QED
      BY <3>1
  <2>. HIDE DEF f
  <2>. QED
    BY <2>2 DEF Written, Elements
<1>9. ASSUME NEW g \in Owed(c), g \notin Written(c) PROVE f.id <= g.id
  <2>1. g.id \in Nat
    <3>1. PICK p : p \in Expected(c) /\ g.id = FrameOf(p.time)
      BY DEF Owed
    <3>2. p.time \in Nat
      BY <3>1, ExpectedSample DEF TypeInv, Sample
    <3>. QED
      BY <3>1, <3>2, FrameHolds
  <2>2. CASE FrameEnd(g.id) <= safe[c]
    <3>1. g.id \in DOMAIN frames[c]
      BY <1>2, <1>9, <2>2, CoveredOpen
    <3>. QED
      BY <1>1, <3>1 DEF MayWrite, Lowest
  <2>3. CASE ~(FrameEnd(g.id) <= safe[c])
    <3>1. FrameEnd(id) < FrameEnd(g.id)
      BY <1>3, <1>6, <2>1, <2>3, FrameBoundsType
    <3>. QED
      BY <1>3, <2>1, <3>1, FrameMonotone
  <2>. QED
    BY <2>2, <2>3
<1>. HIDE DEF f
<1>10. Promise!Held(c) = Written(c)
  BY <1>3, HeldWritten
<1>11. Promise!NextOwed(c, f)
  BY <1>7, <1>8, <1>9, <1>10 DEF Promise!NextOwed, PromisedView
<1>12. OutputView' = [OutputView EXCEPT ![c] = Append(@, f)]
  <2>1. /\ OutputView = [d \in Crates |-> OutputView[d]]
        /\ OutputView' = [d \in Crates |-> OutputView'[d]]
    BY DEF OutputView
  <2>2. ASSUME NEW d \in Crates, d # c PROVE OutputView'[d] = OutputView[d]
    BY <1>1, <2>2 DEF OutputView, TypeInv, TypeOK
  <2>3. OutputView'[c] = Append(OutputView[c], f)
    <3>. DEFINE view(k) == [id |-> file[c][k].id, samples |-> Elements(file[c][k].samples)]
                old == OutputView[c]
                new == OutputView'[c]
                n == Len(file[c])
    <3>1. n \in Nat /\ old = [k \in 1..n |-> view(k)]
      BY <1>3 DEF OutputView
    <3>2. /\ Len(file'[c]) = n + 1
          /\ \A k \in 1..n : file'[c][k] = file[c][k]
          /\ file'[c][n + 1] = Frame(c, id)
      BY <1>1, <1>3
    <3>3. new = [k \in 1..(n + 1) |-> IF k = n + 1 THEN f ELSE view(k)]
      <4>1. new = [k \in 1..(n + 1) |->
                     [id |-> file'[c][k].id, samples |-> Elements(file'[c][k].samples)]]
        BY <3>2 DEF OutputView, Elements
      <4>2. ASSUME NEW k \in 1..(n + 1)
            PROVE  [id |-> file'[c][k].id, samples |-> Elements(file'[c][k].samples)]
                     = IF k = n + 1 THEN f ELSE view(k)
        BY <1>4, <3>1, <3>2 DEF f
      <4>. QED
        BY <4>1, <4>2
    <3>. HIDE DEF view, n, new
    <3>4. old \in Seq({view(k) : k \in 1..n} \cup {f}) /\ Len(old) = n
      BY <3>1
    <3>. QED
      BY <3>1, <3>3, <3>4 DEF new
  <2>. QED
    BY <2>1, <2>2, <2>3
<1>13. StateView[c] = "open"
  BY <1>2 DEF StateView, Ended, Failures
<1>. QED
  BY <1>2, <1>7, <1>11, <1>12, <1>13, ViewsKept DEF Promise!WriteFrame, PromisedView

(* Every step of the run is a step of SroOutput or changes nothing there.  *)
LEMMA RefineNext ==
  TypeInv /\ RunInv /\ FillInv /\ DrainInv /\ [Next]_vars => [Promise!Next]_(Promise!vars)
<1>. SUFFICES ASSUME TypeInv, RunInv, FillInv, DrainInv, [Next]_vars
              PROVE  [Promise!Next]_(Promise!vars)
  OBVIOUS
<1>. USE DEF input, worker, service, crate
<1>1. ASSUME UNCHANGED <<input, phase, file>> PROVE UNCHANGED Promise!vars
  BY <1>1, ViewsKept DEF Promise!vars
<1>2. CASE UNCHANGED <<input, phase, file>>
  BY <1>1, <1>2
<1>3. ASSUME NEW e \in Events, Claim(e) \/ Worker(e) PROVE UNCHANGED <<input, phase, file>>
  BY <1>3 DEF Claim, Worker, StreamHit, DropHit, RejectHit, CompleteEvent
<1>4. CASE Service \/ Interrupt
  BY <1>1, <1>4 DEF Service, Release, PublishProgress, EndRun, Interrupt
<1>5. ASSUME NEW c \in Crates, CrateThread(c) PROVE [Promise!Next]_(Promise!vars)
  <2>1. CASE WriteFrame(c)
    BY <2>1, WriteStep DEF Promise!Next
  <2>2. CASE ConsumePayload(c)
    BY <1>1, <2>2 DEF ConsumePayload
  <2>3. CASE BeginAdvance(c) \/ EndAdvance(c)
    <3>1. UNCHANGED <<input, file>> /\ StateView' = StateView
      BY <2>3 DEF BeginAdvance, EndAdvance, Receiving, StateView, Ended, Failures, TypeInv, TypeOK
    <3>. QED
      BY <3>1, ViewsKept DEF Promise!vars
  <2>4. CASE OpenSink(c)
    <3>1. UNCHANGED <<input, file>> /\ phase[c] = "unopened"
      BY <2>4 DEF OpenSink
    <3>2. CASE phase' = [phase EXCEPT ![c] = "receive"]
      <4>1. StateView' = StateView
        BY <3>1, <3>2 DEF StateView, Ended, Failures, TypeInv, TypeOK
      <4>. QED
        BY <3>1, <4>1, ViewsKept DEF Promise!vars
    <3>3. CASE phase' = [phase EXCEPT ![c] = "unwritable"]
      BY <3>1, <3>3, AbandonStep DEF FileCut, Ended, Failures, Promise!Next
    <3>. QED
      BY <2>4, <3>2, <3>3 DEF OpenSink, Fail
  <2>5. CASE RefusePayload(c) \/ WriteFails(c)
    <3>1. UNCHANGED input /\ FileCut(c) /\ phase[c] \in {"receive", "advance"}
      BY <2>5, WriteFailsParts DEF RefusePayload, Receiving, FileCut
    <3>2. \E how \in Failures : phase' = [phase EXCEPT ![c] = how]
      BY <2>5, WriteFailsParts DEF RefusePayload, Fail, Failures
    <3>. QED
      BY <3>1, <3>2, AbandonStep DEF Ended, Failures, Promise!Next
  <2>6. CASE FinishRun(c)
    <3>1. UNCHANGED input /\ FileCut(c) /\ phase[c] = "receive"
      BY <2>6, FinishRunParts
    <3>2. CASE /\ run = "completed" /\ inbox[c] = <<>> /\ UNCHANGED file
               /\ phase' = [phase EXCEPT ![c] = "completed"]
      BY <3>1, <3>2, SealStep DEF Promise!Next
    <3>3. CASE \E how \in {"interrupted", "unwritable", "torn"} : phase' = [phase EXCEPT ![c] = how]
      BY <3>1, <3>3, AbandonStep DEF Ended, Failures, Promise!Next
    <3>. QED
      BY <2>6, <3>2, <3>3, FinishRunParts
  <2>. QED
    BY <1>5, <2>1, <2>2, <2>3, <2>4, <2>5, <2>6 DEF CrateThread
<1>6. CASE UNCHANGED vars
  BY <1>1, <1>6 DEF vars
<1>. QED
  BY <1>1, <1>3, <1>4, <1>5, <1>6 DEF Next, Step, Stop

LEMMA RefineInit == Init => Promise!Init
<1>. SUFFICES ASSUME Init PROVE Promise!Init
  OBVIOUS
<1>1. ASSUME NEW c \in Crates, NEW f \in PromisedView[c], NEW g \in PromisedView[c], f.id = g.id
      PROVE  f = g
  BY <1>1 DEF PromisedView, Owed
<1>2. OutputView = [c \in Crates |-> <<>>]
  <2>1. ASSUME NEW c \in Crates PROVE OutputView[c] = <<>>
    BY DEF Init, OutputView
  <2>. QED
    BY <2>1 DEF OutputView
<1>3. StateView = [c \in Crates |-> "open"]
  BY DEF Init, StateView, Ended, Failures
<1>. QED
  BY <1>1, <1>2, <1>3 DEF Promise!Init

(* The files a run leaves are decided by its input: whatever the schedule, *)
(* each crate receives its owed frames lowest first, is sealed only when   *)
(* it has all of them, and keeps a prefix when anything ends it early.     *)
THEOREM RunImplementsOutput == Spec => ImplementsOutput
<1>1. Init => Promise!Init
  BY RefineInit
<1>2. TypeInv /\ RunInv /\ FillInv /\ DrainInv /\ [Next]_vars => [Promise!Next]_(Promise!vars)
  BY RefineNext
<1>. QED
  BY <1>1, <1>2, TypeAlways, RunInvariant, FillAlways, DrainAlways, PTL
  DEF Spec, ImplementsOutput, Promise!Spec

-----------------------------------------------------------------------------
(* A sample is in one place, once.                                         *)

(* What a message taken from or put into an inbox leaves there.            *)
LEMMA InboxTail ==
  ASSUME TypeInv, NEW c \in Crates, inbox[c] # <<>>, inbox'[c] = Tail(inbox[c])
  PROVE  /\ Head(inbox[c]) = inbox[c][1] /\ 1 \in 1..Len(inbox[c])
         /\ Len(inbox[c]) \in Nat /\ Len(inbox'[c]) \in Nat
         /\ \A i \in 1..Len(inbox'[c]) :
              i + 1 \in 1..Len(inbox[c]) /\ 1 < i + 1 /\ inbox'[c][i] = inbox[c][i + 1]
         /\ \A p : InInbox(c, p)' => InInbox(c, p)
<1>1. inbox[c] \in Seq(Message)
  BY DEF TypeInv, TypeOK
<1>2. /\ Head(inbox[c]) = inbox[c][1] /\ 1 \in 1..Len(inbox[c])
      /\ Len(inbox[c]) \in Nat /\ Len(inbox'[c]) \in Nat
      /\ \A i \in 1..Len(inbox'[c]) :
           i + 1 \in 1..Len(inbox[c]) /\ 1 < i + 1 /\ inbox'[c][i] = inbox[c][i + 1]
  BY <1>1
<1>3. \A p : InInbox(c, p)' => InInbox(c, p)
  BY <1>2 DEF InInbox
<1>. QED
  BY <1>2, <1>3

LEMMA InboxAppend ==
  ASSUME TypeInv, NEW c \in Crates, NEW m \in Message, inbox'[c] = Append(inbox[c], m)
  PROVE  /\ Len(inbox'[c]) = Len(inbox[c]) + 1 /\ Len(inbox[c]) \in Nat
         /\ \A i \in 1..Len(inbox[c]) : inbox'[c][i] = inbox[c][i]
         /\ inbox'[c][Len(inbox[c]) + 1] = m
         /\ \A p : InInbox(c, p)' => InInbox(c, p) \/ (IsPayload(m) /\ p = m.payload)
<1>1. inbox[c] \in Seq(Message)
  BY DEF TypeInv, TypeOK
<1>2. /\ Len(inbox'[c]) = Len(inbox[c]) + 1 /\ Len(inbox[c]) \in Nat
      /\ \A i \in 1..Len(inbox[c]) : inbox'[c][i] = inbox[c][i]
      /\ inbox'[c][Len(inbox[c]) + 1] = m
  BY <1>1
<1>3. \A i \in 1..Len(inbox'[c]) : i \in 1..Len(inbox[c]) \/ i = Len(inbox[c]) + 1
  BY <1>2
<1>4. \A p : InInbox(c, p)' => InInbox(c, p) \/ (IsPayload(m) /\ p = m.payload)
  BY <1>2, <1>3 DEF InInbox
<1>. QED
  BY <1>2, <1>4

(* A sample is determined by its event and its place in the hit list.      *)
LEMMA SampleOf ==
  ASSUME TypeInv, NEW c, NEW p \in Expected(c)
  PROVE  /\ p = PayloadOf(p.event, p.sequence) /\ p.crate = c
         /\ p.event \in Events /\ p.sequence \in Nat
<1>1. PICK e \in Events : \E k \in Emits(c, e) : k \in 1..Len(hits[e]) /\ p = PayloadOf(e, k)
  BY ExpectedSample DEF TypeInv
<1>2. PICK k \in Emits(c, e) : k \in 1..Len(hits[e]) /\ p = PayloadOf(e, k)
  BY <1>1
<1>3. p.event = e /\ p.sequence = k /\ p.crate = c /\ k \in Nat
  BY <1>2, EmittedSample DEF Emits, TypeInv
<1>. QED
  BY <1>2, <1>3

LEMMA ReleasedSub ==
  ASSUME UNCHANGED input, NEW c,
         \A p : InInbox(c, p)' => InInbox(c, p) \/ InFrames(c, p),
         \A p : InFrames(c, p)' => InFrames(c, p) \/ InInbox(c, p)
  PROVE  Released(c)' \subseteq Released(c)
BY ExpectedKept DEF Released

(* A crate that takes nothing new in.                                      *)
LEMMA PlaceKept ==
  ASSUME UNCHANGED input, pending' = pending, streamed' = streamed, NEW c, OnePlace(c),
         \A p : InInbox(c, p)' => InInbox(c, p),
         \A p : InFrames(c, p)' => InFrames(c, p)
  PROVE  OnePlace(c)'
<1>1. Released(c)' \subseteq Released(c)
  BY ReleasedSub
<1>. QED
  BY <1>1 DEF OnePlace

LEMMA UniqueKept ==
  ASSUME UNCHANGED input, pending' = pending, streamed' = streamed, NEW c, CrateUnique(c),
         inbox'[c] = inbox[c], frames'[c] = frames[c], file'[c] = file[c]
  PROVE  CrateUnique(c)'
<1>1. \A p : (InInbox(c, p)' <=> InInbox(c, p)) /\ (InFrames(c, p)' <=> InFrames(c, p))
  BY DEF InInbox, InFrames
<1>2. OnePlace(c)'
  BY <1>1, PlaceKept DEF CrateUnique
<1>. QED
  BY <1>2 DEF CrateUnique, InboxDistinct, FramesDistinct, FileDistinct

(* What a worker's step makes of the payloads and the hits streamed.       *)
LEMMA WorkerStreams ==
  ASSUME TypeInv, NEW e \in Events, Claim(e) \/ Worker(e)
  PROVE  /\ UNCHANGED <<input, published, inbox, phase, safe, frames, file>>
         /\ status[e] # "complete"
         /\ \A d \in Events \ {e} : status'[d] = status[d] /\ streamed'[d] = streamed[d]
         /\ streamed[e] \in Nat /\ streamed'[e] \in Nat /\ streamed[e] <= streamed'[e]
         /\ pending \subseteq pending'
         /\ \A q \in pending' \ pending :
              /\ q \in Sample /\ q.event = e /\ q.sequence = streamed[e] + 1
              /\ q.sequence <= streamed'[e]
<1>. USE DEF input, worker, service, crate
<1>1. CASE StreamHit(e)
  <2>1. streamed[e] + 1 \in 1..Len(hits[e]) /\ Emitted(clock, e, hits[e][streamed[e] + 1])
    BY <1>1 DEF StreamHit, HasHit, NextHit, TypeInv, TypeOK
  <2>. DEFINE q == PayloadOf(e, streamed[e] + 1)
  <2>2. q \in Sample /\ q.event = e /\ q.sequence = streamed[e] + 1
    BY <2>1, EmittedSample DEF TypeInv
  <2>3. pending' = pending \cup {q}
    BY <1>1 DEF StreamHit, PayloadOf, NextHit
  <2>. HIDE DEF q
  <2>. QED
    BY <1>1, <2>2, <2>3 DEF StreamHit, HasHit, TypeInv, TypeOK
<1>2. CASE Claim(e) \/ DropHit(e) \/ RejectHit(e) \/ CompleteEvent(e)
  BY <1>2 DEF Claim, DropHit, RejectHit, CompleteEvent, HasHit, TypeInv, TypeOK
<1>. QED
  BY <1>1, <1>2 DEF Worker

LEMMA WorkerUnique ==
  ASSUME TypeInv, UniqueInv, NEW e \in Events, Claim(e) \/ Worker(e)
  PROVE  UniqueInv'
<1>1. ASSUME NEW c \in Crates PROVE CrateUnique(c)'
  <2>1. UNCHANGED <<input, inbox, frames, file>>
    BY WorkerStreams
  <2>2. CrateUnique(c)
    BY DEF UniqueInv
  <2>3. Released(c)' = Released(c)
    BY <2>1, ExpectedKept DEF Released, InInbox, InFrames
  <2>4. \A p \in Released(c) : p.event \in Events /\ p.sequence \in Nat
    BY SampleOf DEF Released
  <2>5. \A p \in pending : p.event \in Events /\ p.sequence \in Nat
    BY DEF TypeInv, TypeOK, Sample
  <2>6. \A d \in Events : streamed[d] \in Nat /\ streamed'[d] \in Nat /\ streamed[d] <= streamed'[d]
    BY WorkerStreams DEF TypeInv, TypeOK
  <2>7. \A q \in pending' \ pending : q \notin Released(c)
    <3>1. ASSUME NEW q \in pending' \ pending, q \in Released(c) PROVE FALSE
      <4>1. q.sequence <= streamed[e] /\ q.sequence = streamed[e] + 1 /\ streamed[e] \in Nat
        BY <3>1, <2>2, WorkerStreams DEF CrateUnique, OnePlace
      <4>. QED
        BY <4>1
    <3>. QED
      BY <3>1
  <2>8. ASSUME NEW p \in pending \cup Released(c) PROVE p.sequence <= streamed'[p.event]
    <3>1. p.sequence <= streamed[p.event]
      BY <2>2 DEF CrateUnique, OnePlace
    <3>. QED
      BY <3>1, <2>4, <2>5, <2>6
  <2>9. ASSUME NEW p \in pending' \ pending PROVE p.sequence <= streamed'[p.event]
    BY WorkerStreams
  <2>10. ASSUME NEW p \in Released(c) PROVE ~(InInbox(c, p) /\ InFrames(c, p))
    BY <2>2 DEF CrateUnique, OnePlace
  <2>11. \A p \in pending : p \notin Released(c)
    BY <2>2 DEF CrateUnique, OnePlace
  <2>12. OnePlace(c)'
    BY <2>1, <2>3, <2>7, <2>8, <2>9, <2>10, <2>11 DEF OnePlace, InInbox, InFrames
  <2>. QED
    BY <2>1, <2>2, <2>12 DEF CrateUnique, InboxDistinct, FramesDistinct, FileDistinct
<1>. QED
  BY <1>1 DEF UniqueInv

LEMMA ReleaseUnique ==
  ASSUME TypeInv, RunInv, UniqueInv, NEW p \in pending, Release(p)
  PROVE  UniqueInv'
<1>. USE DEF worker, crate
<1>1. /\ UNCHANGED <<input, streamed, frames, file>>
      /\ pending' = pending \ {p}
      /\ inbox' = [inbox EXCEPT ![p.crate] = Append(@, PayloadMessage(p))]
  BY DEF Release
<1>2. p \in Expected(p.crate) /\ p.crate \in Crates
  BY PendingLate DEF RunInv
<1>3. PayloadMessage(p) \in Message /\ IsPayload(PayloadMessage(p)) /\ PayloadMessage(p).payload = p
  BY DEF TypeInv, TypeOK, PayloadMessage, Message, IsPayload
<1>4. ASSUME NEW c \in Crates PROVE CrateUnique(c)'
  <2>1. CrateUnique(c)
    BY DEF UniqueInv
  <2>2. \A q : InFrames(c, q)' <=> InFrames(c, q)
    BY <1>1 DEF InFrames
  <2>3. FramesDistinct(c)' /\ FileDistinct(c)'
    BY <1>1, <2>1 DEF CrateUnique, FramesDistinct, FileDistinct
  <2>4. CASE c = p.crate
    <3>1. inbox'[c] = Append(inbox[c], PayloadMessage(p))
      BY <1>1, <2>4 DEF TypeInv, TypeOK
    <3>2. /\ Len(inbox'[c]) = Len(inbox[c]) + 1 /\ Len(inbox[c]) \in Nat
          /\ \A i \in 1..Len(inbox[c]) : inbox'[c][i] = inbox[c][i]
          /\ inbox'[c][Len(inbox[c]) + 1] = PayloadMessage(p)
          /\ \A q : InInbox(c, q)' => InInbox(c, q) \/ q = p
      BY <1>3, <3>1, InboxAppend
    <3>3. p \notin Released(c) /\ ~InInbox(c, p) /\ ~InFrames(c, p)
      BY <1>2, <2>1, <2>4 DEF CrateUnique, OnePlace, Released
    <3>4. \A q \in Released(c)' : q \in Released(c) \/ q = p
      BY <1>1, <2>2, <3>2, ExpectedKept DEF Released
    <3>5. OnePlace(c)'
      <4>1. \A q \in pending' : q \notin Released(c)'
        BY <1>1, <2>1, <3>4 DEF CrateUnique, OnePlace
      <4>2. \A q \in pending' \cup Released(c)' : q.sequence <= streamed'[q.event]
        BY <1>1, <2>1, <3>4 DEF CrateUnique, OnePlace
      <4>3. ASSUME NEW q \in Released(c)' PROVE ~(InInbox(c, q)' /\ InFrames(c, q)')
        BY <2>1, <2>2, <3>2, <3>3, <3>4 DEF CrateUnique, OnePlace
      <4>. QED
        BY <4>1, <4>2, <4>3 DEF OnePlace
    <3>6. InboxDistinct(c)'
      <4>1. ASSUME NEW i \in 1..Len(inbox[c]), IsPayload(inbox[c][i]) PROVE inbox[c][i].payload # p
        BY <3>3, <4>1 DEF InInbox
      <4>2. \A i \in 1..Len(inbox'[c]) : i \in 1..Len(inbox[c]) \/ i = Len(inbox[c]) + 1
        BY <3>2
      <4>. QED
        BY <1>3, <2>1, <3>2, <4>1, <4>2 DEF CrateUnique, InboxDistinct
    <3>. QED
      BY <2>3, <3>5, <3>6 DEF CrateUnique
  <2>5. CASE c # p.crate
    <3>1. inbox'[c] = inbox[c]
      BY <1>1, <2>5 DEF TypeInv, TypeOK
    <3>4. \A q : InInbox(c, q)' <=> InInbox(c, q)
      BY <3>1 DEF InInbox
    <3>2. Released(c)' = Released(c)
      BY <1>1, <2>2, <3>4, ExpectedKept DEF Released
    <3>3. OnePlace(c)'
      BY <1>1, <2>1, <2>2, <3>1, <3>2 DEF CrateUnique, OnePlace, InInbox
    <3>. QED
      BY <2>1, <2>3, <3>1, <3>3 DEF CrateUnique, InboxDistinct
  <2>. QED
    BY <2>4, <2>5
<1>. QED
  BY <1>4 DEF UniqueInv

LEMMA PublishUnique ==
  ASSUME TypeInv, UniqueInv, PublishProgress
  PROVE  UniqueInv'
<1>. USE DEF worker, crate
<1>1. PICK first \in 0..EventCount :
        /\ inbox' = [c \in Crates |-> Append(inbox[c], AdvanceMessage(EarliestRemaining(clock, first)))]
        /\ UNCHANGED <<input, streamed, pending, frames, file>>
  BY DEF PublishProgress
<1>. DEFINE m == AdvanceMessage(EarliestRemaining(clock, first))
<1>2. EarliestRemaining(clock, first) \in Int
  BY EventStartType, RunAssumption DEF TypeInv, TypeOK
<1>3. m \in Message /\ ~IsPayload(m)
  BY <1>2 DEF AdvanceMessage, Message, IsPayload
<1>4. ASSUME NEW c \in Crates PROVE CrateUnique(c)'
  <2>1. CrateUnique(c)
    BY DEF UniqueInv
  <2>2. inbox'[c] = Append(inbox[c], m)
    BY <1>1
  <2>. HIDE DEF m
  <2>3. /\ Len(inbox'[c]) = Len(inbox[c]) + 1 /\ Len(inbox[c]) \in Nat
        /\ \A i \in 1..Len(inbox[c]) : inbox'[c][i] = inbox[c][i]
        /\ inbox'[c][Len(inbox[c]) + 1] = m
        /\ \A q : InInbox(c, q)' => InInbox(c, q)
    BY <1>3, <2>2, InboxAppend
  <2>4. \A q : InFrames(c, q)' => InFrames(c, q)
    BY <1>1 DEF InFrames
  <2>5. OnePlace(c)'
    BY <1>1, <2>1, <2>3, <2>4, PlaceKept DEF CrateUnique
  <2>6. InboxDistinct(c)'
    <3>1. \A i \in 1..Len(inbox'[c]) : i \in 1..Len(inbox[c]) \/ i = Len(inbox[c]) + 1
      BY <2>3
    <3>. QED
      BY <1>3, <2>1, <2>3, <3>1 DEF CrateUnique, InboxDistinct
  <2>. QED
    BY <1>1, <2>1, <2>5, <2>6 DEF CrateUnique, FramesDistinct, FileDistinct
<1>. QED
  BY <1>4 DEF UniqueInv

(* A sample leaves the inbox for its frame, where it was not before.       *)
LEMMA ConsumeUnique ==
  ASSUME TypeInv, RunInv, UniqueInv, NEW c \in Crates, ConsumePayload(c)
  PROVE  CrateUnique(c)'
<1>. USE DEF worker, service
<1>. DEFINE m == Head(inbox[c])
            p == m.payload
            id == FrameOf(p.time)
<1>1. /\ UNCHANGED <<input, streamed, pending, file>>
      /\ inbox[c] # <<>> /\ IsPayload(m)
      /\ inbox'[c] = Tail(inbox[c])
      /\ frames'[c] = Filed(c, id, p)
  BY DEF ConsumePayload, Receiving, IsPayload, TypeInv, TypeOK
<1>2. CrateUnique(c)
  BY DEF UniqueInv
<1>3. /\ m = inbox[c][1] /\ 1 \in 1..Len(inbox[c])
      /\ Len(inbox[c]) \in Nat /\ Len(inbox'[c]) \in Nat
      /\ \A i \in 1..Len(inbox'[c]) :
           i + 1 \in 1..Len(inbox[c]) /\ 1 < i + 1 /\ inbox'[c][i] = inbox[c][i + 1]
      /\ \A q : InInbox(c, q)' => InInbox(c, q)
  BY <1>1, InboxTail
<1>4. p \in Expected(c) /\ InInbox(c, p)
  <2>1. p \in Expected(c)
    BY <1>1, <1>3 DEF RunInv, CrateInv, InboxOrdered, Ordered, MessageFits
  <2>. QED
    BY <2>1, <1>1, <1>3 DEF InInbox
<1>5. p \in Sample
  BY ReceivedTypes DEF ConsumePayload, TypeInv
<1>6. ~InFrames(c, p) /\ \A q : InInbox(c, q)' => q # p
  <2>1. ~InFrames(c, p)
    BY <1>2, <1>4 DEF CrateUnique, OnePlace, Released
  <2>2. ASSUME NEW i \in 1..Len(inbox'[c]), IsPayload(inbox'[c][i]), inbox'[c][i].payload = p
        PROVE  FALSE
    <3>1. i + 1 = 1
      BY <1>1, <1>2, <1>3, <2>2 DEF CrateUnique, InboxDistinct
    <3>. QED
      BY <1>3, <3>1
  <2>. QED
    BY <2>1, <2>2 DEF InInbox
<1>. HIDE DEF p, m
<1>7. id \in Nat
  BY <1>5, FrameHolds DEF Sample
<1>. HIDE DEF id
<1>8. /\ SamplesOf(c, id) \in Seq(Sample)
      /\ Elements(Append(SamplesOf(c, id), p)) = Elements(SamplesOf(c, id)) \cup {p}
  <2>1. SamplesOf(c, id) \in Seq(Sample)
    BY <1>5, <1>7, FiledTypes DEF TypeInv
  <2>. QED
    BY <2>1, <1>5, ElementsAppend
<1>9. \A q : InFrames(c, q)' => InFrames(c, q) \/ q = p
  <2>1. ASSUME NEW i \in DOMAIN Filed(c, id, p), NEW q \in Elements(Filed(c, id, p)[i]), q # p
        PROVE  InFrames(c, q)
    <3>1. CASE i = id
      <4>1. q \in Elements(SamplesOf(c, id))
        BY <1>8, <2>1, <3>1 DEF Filed
      <4>. QED
        BY <4>1 DEF SamplesOf, Elements, InFrames
    <3>2. CASE i # id
      BY <2>1, <3>2 DEF Filed, InFrames
    <3>. QED
      BY <3>1, <3>2
  <2>. QED
    BY <1>1, <2>1 DEF InFrames
<1>10. Released(c)' \subseteq Released(c)
  BY <1>1, <1>3, <1>4, <1>9, ReleasedSub
<1>11. OnePlace(c)'
  <2>1. \A q \in pending' : q \notin Released(c)'
    BY <1>1, <1>2, <1>10 DEF CrateUnique, OnePlace
  <2>2. \A q \in pending' \cup Released(c)' : q.sequence <= streamed'[q.event]
    BY <1>1, <1>2, <1>10 DEF CrateUnique, OnePlace
  <2>3. ASSUME NEW q \in Released(c)', InInbox(c, q)', InFrames(c, q)' PROVE FALSE
    <3>1. q \in Released(c) /\ InInbox(c, q) /\ q # p
      BY <1>3, <1>6, <1>10, <2>3
    <3>2. InFrames(c, q)
      BY <1>9, <2>3, <3>1
    <3>. QED
      BY <1>2, <3>1, <3>2 DEF CrateUnique, OnePlace
  <2>. QED
    BY <2>1, <2>2, <2>3 DEF OnePlace
<1>12. InboxDistinct(c)'
  <2>1. ASSUME NEW i \in 1..Len(inbox'[c]), NEW j \in 1..Len(inbox'[c]),
               IsPayload(inbox'[c][i]), IsPayload(inbox'[c][j]),
               inbox'[c][i].payload = inbox'[c][j].payload
        PROVE  i = j
    <3>1. i + 1 = j + 1
      BY <1>2, <1>3, <2>1 DEF CrateUnique, InboxDistinct
    <3>. QED
      BY <3>1
  <2>. QED
    BY <2>1 DEF InboxDistinct
<1>13. FramesDistinct(c)'
  <2>1. Distinct(Append(SamplesOf(c, id), p))
    <3>. DEFINE s == SamplesOf(c, id)
    <3>1. s \in Seq(Sample)
      BY <1>8
    <3>2. Distinct(s)
      BY <1>2 DEF CrateUnique, FramesDistinct, SamplesOf, Distinct
    <3>3. \A i \in 1..Len(s) : s[i] # p
      BY <1>6 DEF InFrames, SamplesOf, Elements
    <3>. HIDE DEF s
    <3>4. /\ Len(Append(s, p)) = Len(s) + 1 /\ Len(s) \in Nat
          /\ \A i \in 1..Len(s) : Append(s, p)[i] = s[i]
          /\ Append(s, p)[Len(s) + 1] = p
      BY <3>1
    <3>5. \A i \in 1..Len(Append(s, p)) : i \in 1..Len(s) \/ i = Len(s) + 1
      BY <3>4
    <3>6. Distinct(Append(s, p))
      BY <3>2, <3>3, <3>4, <3>5 DEF Distinct
    <3>. QED
      BY <3>6 DEF s
  <2>2. \A i \in DOMAIN Filed(c, id, p) : Distinct(Filed(c, id, p)[i])
    BY <1>2, <2>1 DEF Filed, CrateUnique, FramesDistinct
  <2>. QED
    BY <1>1, <2>2 DEF FramesDistinct
<1>14. FileDistinct(c)'
  BY <1>1, <1>2 DEF CrateUnique, FileDistinct
<1>. QED
  BY <1>11, <1>12, <1>13, <1>14 DEF CrateUnique

(* A crate that takes a message away or loses open frames.                 *)
LEMMA ShrinkUnique ==
  ASSUME TypeInv, UniqueInv, NEW c \in Crates, UNCHANGED <<input, streamed, pending>>,
         inbox'[c] = inbox[c] \/ (inbox[c] # <<>> /\ inbox'[c] = Tail(inbox[c])),
         \A id \in DOMAIN frames'[c] : id \in DOMAIN frames[c] /\ frames'[c][id] = frames[c][id],
         FileDistinct(c)'
  PROVE  CrateUnique(c)'
<1>1. CrateUnique(c)
  BY DEF UniqueInv
<1>2. \A p : InFrames(c, p)' => InFrames(c, p)
  BY DEF InFrames
<1>3. FramesDistinct(c)'
  BY <1>1 DEF CrateUnique, FramesDistinct
<1>4. CASE inbox'[c] = inbox[c]
  <2>1. \A p : InInbox(c, p)' => InInbox(c, p)
    BY <1>4 DEF InInbox
  <2>2. OnePlace(c)'
    BY <1>1, <1>2, <2>1, PlaceKept DEF CrateUnique
  <2>. QED
    BY <1>1, <1>3, <1>4, <2>2 DEF CrateUnique, InboxDistinct
<1>5. CASE inbox[c] # <<>> /\ inbox'[c] = Tail(inbox[c])
  <2>1. /\ \A i \in 1..Len(inbox'[c]) :
             i + 1 \in 1..Len(inbox[c]) /\ inbox'[c][i] = inbox[c][i + 1]
        /\ \A p : InInbox(c, p)' => InInbox(c, p)
    BY <1>5, InboxTail
  <2>2. OnePlace(c)'
    BY <1>1, <1>2, <2>1, PlaceKept DEF CrateUnique
  <2>3. ASSUME NEW i \in 1..Len(inbox'[c]), NEW j \in 1..Len(inbox'[c]),
               IsPayload(inbox'[c][i]), IsPayload(inbox'[c][j]),
               inbox'[c][i].payload = inbox'[c][j].payload
        PROVE  i = j
    <3>1. i + 1 = j + 1
      BY <1>1, <2>1, <2>3 DEF CrateUnique, InboxDistinct
    <3>. QED
      BY <3>1
  <2>. QED
    BY <1>3, <2>2, <2>3 DEF CrateUnique, InboxDistinct
<1>. QED
  BY <1>4, <1>5

(* What a step other than consume_payload does to inbox, frames and file.  *)
LEMMA CrateShrinks ==
  ASSUME TypeInv, NEW c \in Crates, CrateThread(c)
  PROVE  \/ ConsumePayload(c)
         \/ /\ inbox'[c] = inbox[c] \/ (inbox[c] # <<>> /\ inbox'[c] = Tail(inbox[c]))
            /\ \A id \in DOMAIN frames'[c] :
                 id \in DOMAIN frames[c] /\ frames'[c][id] = frames[c][id]
            /\ \/ file'[c] = file[c]
               \/ \E id \in DOMAIN frames[c] : file'[c] = Append(file[c], Frame(c, id))
               \/ FileCut(c)
<1>1. CASE OpenSink(c) \/ EndAdvance(c)
  BY <1>1 DEF OpenSink, EndAdvance
<1>2. CASE RefusePayload(c) \/ BeginAdvance(c)
  BY <1>2 DEF RefusePayload, BeginAdvance, Receiving, TypeInv, TypeOK
<1>3. CASE WriteFrame(c)
  <2>1. PICK id \in DOMAIN frames[c] : /\ frames' = [frames EXCEPT ![c] = Extracted(c, id)]
                                       /\ file' = [file EXCEPT ![c] = Append(@, Frame(c, id))]
    BY <1>3 DEF WriteFrame
  <2>2. frames'[c] = Extracted(c, id) /\ file'[c] = Append(file[c], Frame(c, id))
    BY <2>1 DEF TypeInv, TypeOK
  <2>. QED
    BY <1>3, <2>2 DEF WriteFrame, Extracted
<1>4. CASE WriteFails(c)
  <2>1. PICK id \in DOMAIN frames[c] : frames' = [frames EXCEPT ![c] = Extracted(c, id)]
    BY <1>4, WriteFailsParts
  <2>2. frames'[c] = Extracted(c, id)
    BY <2>1 DEF TypeInv, TypeOK
  <2>. QED
    BY <1>4, <2>2, WriteFailsParts DEF Extracted
<1>5. CASE FinishRun(c)
  <2>1. frames'[c] = <<>>
    BY <1>5, FinishRunParts DEF TypeInv, TypeOK
  <2>. QED
    BY <1>5, <2>1, FinishRunParts
<1>. QED
  BY <1>1, <1>2, <1>3, <1>4, <1>5 DEF CrateThread

LEMMA CrateThreadUnique ==
  ASSUME TypeInv, RunInv, UniqueInv, NEW c \in Crates, CrateThread(c)
  PROVE  UniqueInv'
<1>1. /\ UNCHANGED <<input, streamed, pending>>
      /\ \A d \in Crates \ {c} :
           inbox'[d] = inbox[d] /\ frames'[d] = frames[d] /\ file'[d] = file[d]
  BY CrateStep DEF worker, service
<1>2. CrateUnique(c)'
  <2>1. CASE ConsumePayload(c)
    BY <2>1, ConsumeUnique
  <2>2. CASE ~ConsumePayload(c)
    <3>1. FileDistinct(c)'
      <4>1. FileDistinct(c) /\ FramesDistinct(c)
        BY DEF UniqueInv, CrateUnique
      <4>2. CASE file'[c] = file[c]
        BY <4>1, <4>2 DEF FileDistinct
      <4>3. CASE \E id \in DOMAIN frames[c] : file'[c] = Append(file[c], Frame(c, id))
        <5>1. PICK id \in DOMAIN frames[c] : file'[c] = Append(file[c], Frame(c, id))
          BY <4>3
        <5>2. file[c] \in Seq(FrameRecord)
          BY DEF TypeInv, TypeOK
        <5>3. Frame(c, id).samples = frames[c][id] /\ Distinct(frames[c][id])
          BY <4>1 DEF Frame, FramesDistinct
        <5>. QED
          BY <4>1, <5>1, <5>2, <5>3 DEF FileDistinct
      <4>4. CASE FileCut(c)
        BY <4>1, <4>4, CutParts DEF FileDistinct
      <4>. QED
        BY <2>2, <4>2, <4>3, <4>4, CrateShrinks
    <3>. QED
      BY <1>1, <2>2, <3>1, CrateShrinks, ShrinkUnique
  <2>. QED
    BY <2>1, <2>2
<1>3. ASSUME NEW d \in Crates, d # c PROVE CrateUnique(d)'
  BY <1>1, <1>3, UniqueKept DEF UniqueInv
<1>. QED
  BY <1>2, <1>3 DEF UniqueInv

LEMMA UniqueNext == TypeInv /\ RunInv /\ UniqueInv /\ [Next]_vars => UniqueInv'
<1>. SUFFICES ASSUME TypeInv, RunInv, UniqueInv, [Next]_vars PROVE UniqueInv'
  OBVIOUS
<1>1. CASE \E e \in Events : Claim(e) \/ Worker(e)
  BY <1>1, WorkerUnique
<1>2. CASE \E p \in pending : Release(p)
  BY <1>2, ReleaseUnique
<1>3. CASE PublishProgress
  BY <1>3, PublishUnique
<1>4. CASE EndRun \/ Interrupt \/ UNCHANGED vars
  <2>1. UNCHANGED <<input, streamed, pending, inbox, frames, file>>
    BY <1>4 DEF EndRun, Interrupt, vars, input, worker, service, crate
  <2>. QED
    BY <2>1, UniqueKept DEF UniqueInv
<1>5. CASE \E c \in Crates : CrateThread(c)
  BY <1>5, CrateThreadUnique
<1>. QED
  BY <1>1, <1>2, <1>3, <1>4, <1>5 DEF Next, Step, Stop, Service

LEMMA UniqueAlways == Spec => []UniqueInv
<1>1. Init => UniqueInv
  <2>. SUFFICES ASSUME Init, NEW c \in Crates PROVE CrateUnique(c)
    BY DEF UniqueInv
  <2>1. Released(c) = {}
    BY DEF Init, Released, InInbox, InFrames
  <2>2. OnePlace(c)
    BY <2>1 DEF Init, OnePlace
  <2>. QED
    BY <2>2 DEF Init, CrateUnique, InboxDistinct, FramesDistinct, FileDistinct
<1>. QED
  BY <1>1, UniqueNext, TypeAlways, RunInvariant, PTL DEF Spec

(* "One and four workers must produce identical completed output"          *)
(* (sro/README.md), whatever the number of workers, the schedule and the   *)
(* input; and no file, completed or not, holds a sample twice.             *)
THEOREM CompletedOutputIsOwed == Spec => []CompletedOutput
<1>1. TypeInv /\ RunInv /\ DrainInv /\ UniqueInv => CompletedOutput
  <2>. SUFFICES ASSUME TypeInv, RunInv, DrainInv, UniqueInv, NEW c \in Crates
                PROVE  /\ phase[c] = "completed" => Written(c) = Owed(c)
                       /\ \A m, n \in 1..Len(file[c]) :
                            \A i \in 1..Len(file[c][m].samples) :
                              \A j \in 1..Len(file[c][n].samples) :
                                file[c][m].samples[i] = file[c][n].samples[j] => m = n /\ i = j
    BY DEF CompletedOutput
  <2>1. phase[c] = "completed" => Written(c) = Owed(c)
    BY DEF DrainInv, CrateDrained
  <2>2. ASSUME NEW m \in 1..Len(file[c]), NEW n \in 1..Len(file[c]),
               NEW i \in 1..Len(file[c][m].samples), NEW j \in 1..Len(file[c][n].samples),
               file[c][m].samples[i] = file[c][n].samples[j]
        PROVE  m = n /\ i = j
    <3>1. FileAscending(c) /\ FileFinal(c) /\ FileDistinct(c)
      BY DEF RunInv, CrateInv, UniqueInv, CrateUnique
    <3>2. /\ file[c][m].samples[i] \in ExpectedIn(c, file[c][m].id)
          /\ file[c][n].samples[j] \in ExpectedIn(c, file[c][n].id)
      BY <3>1 DEF FileFinal, Elements
    <3>3. file[c][m].id = file[c][n].id
      BY <2>2, <3>2 DEF ExpectedIn
    <3>4. file[c][m].id \in Nat /\ m \in Int /\ n \in Int
      BY FileTypes
    <3>5. m = n
      BY <3>1, <3>3, <3>4 DEF FileAscending
    <3>6. i = j
      BY <2>2, <3>1, <3>5 DEF FileDistinct, Distinct
    <3>. QED
      BY <3>5, <3>6
  <2>. QED
    BY <2>1, <2>2
<1>. QED
  BY <1>1, TypeAlways, RunInvariant, DrainAlways, UniqueAlways, PTL

-----------------------------------------------------------------------------
(* The order a service that keeps the order of events fixes.               *)

(* Events stay delivered, and no worker adds to what comes before.         *)
LEMMA WorkerOrder ==
  ASSUME TypeInv, UniqueInv, OrderInv, NEW e \in Events, Claim(e) \/ Worker(e)
  PROVE  OrderInv'
<1>1. UNCHANGED <<input, inbox, frames, file>> /\ status[e] # "complete"
  BY WorkerStreams
<1>2. ASSUME inOrder, NEW c \in Crates PROVE InOrder(c)'
  <2>1. InOrder(c) /\ OnePlace(c)
    BY <1>2 DEF OrderInv, UniqueInv, CrateUnique
  <2>2. Released(c)' = Released(c)
    BY <1>1, ExpectedKept DEF Released, InInbox, InFrames
  <2>3. ASSUME NEW d \in Events, Delivered(d) PROVE Delivered(d)'
    BY <1>1, <2>3, WorkerStreams DEF Delivered
  <2>4. ASSUME NEW p \in Released(c)
        PROVE  /\ \A d \in 0..(p.event - 1) : Delivered(d)'
               /\ \A q \in pending' : q.event = p.event => p.sequence < q.sequence
    <3>1. p.event \in Events /\ p.sequence \in Nat
      BY SampleOf DEF Released
    <3>2. \A d \in 0..(p.event - 1) : d \in Events /\ Delivered(d)
      BY <2>1, <3>1, RunAssumption DEF InOrder, ReleasedFirst, Events
    <3>3. ASSUME NEW q \in pending', q.event = p.event PROVE p.sequence < q.sequence
      <4>1. CASE q \in pending
        BY <2>1, <3>3, <4>1 DEF InOrder, ReleasedFirst
      <4>2. CASE q \notin pending
        <5>1. q.event = e /\ q.sequence = streamed[e] + 1 /\ streamed[e] \in Nat
          BY <4>2, WorkerStreams
        <5>2. p.sequence <= streamed[e]
          BY <2>1, <3>3, <5>1 DEF OnePlace
        <5>. QED
          BY <3>1, <5>1, <5>2
      <4>. QED
        BY <4>1, <4>2
    <3>. QED
      BY <2>3, <3>2, <3>3
  <2>5. ReleasedFirst(c)'
    BY <2>2, <2>4 DEF ReleasedFirst
  <2>. QED
    BY <1>1, <2>1, <2>5 DEF InOrder, InboxSorted, FramesSorted, FileSorted
<1>. QED
  BY <1>1, <1>2 DEF OrderInv, input

(* What is released next comes after all that was released before.         *)
LEMMA ReleaseOrder ==
  ASSUME TypeInv, RunInv, UniqueInv, OrderInv, NEW p \in pending, Release(p)
  PROVE  OrderInv'
<1>. USE DEF worker, crate
<1>1. /\ UNCHANGED <<input, status, streamed, frames, file>>
      /\ pending' = pending \ {p} /\ MayRelease(p)
      /\ inbox' = [inbox EXCEPT ![p.crate] = Append(@, PayloadMessage(p))]
  BY DEF Release
<1>2. p \in Expected(p.crate) /\ p.crate \in Crates /\ p.event \in Events /\ p.sequence \in Nat
  BY PendingLate, SampleOf DEF RunInv
<1>3. PayloadMessage(p) \in Message /\ IsPayload(PayloadMessage(p)) /\ PayloadMessage(p).payload = p
  BY DEF TypeInv, TypeOK, PayloadMessage, Message, IsPayload
<1>4. \A d \in Events : Delivered(d) => Delivered(d)'
  BY <1>1 DEF Delivered
<1>5. ASSUME inOrder, NEW c \in Crates PROVE InOrder(c)'
  <2>1. InOrder(c) /\ OnePlace(c)
    BY <1>5 DEF OrderInv, UniqueInv, CrateUnique
  <2>2. \A q : InFrames(c, q)' <=> InFrames(c, q)
    BY <1>1 DEF InFrames
  <2>3. FileSorted(c)'
    BY <1>1, <2>1 DEF InOrder, FileSorted
  <2>4. ASSUME NEW r \in Released(c)
        PROVE  /\ \A d \in 0..(r.event - 1) : Delivered(d)'
               /\ \A q \in pending' : q.event = r.event => r.sequence < q.sequence
    <3>1. r.event \in Events
      BY SampleOf DEF Released
    <3>2. \A d \in 0..(r.event - 1) : d \in Events /\ Delivered(d)
      BY <2>1, <3>1, RunAssumption DEF InOrder, ReleasedFirst, Events
    <3>. QED
      BY <1>1, <1>4, <2>1, <3>2 DEF InOrder, ReleasedFirst
  <2>5. CASE c = p.crate
    <3>1. inbox'[c] = Append(inbox[c], PayloadMessage(p))
      BY <1>1, <2>5 DEF TypeInv, TypeOK
    <3>2. /\ Len(inbox'[c]) = Len(inbox[c]) + 1 /\ Len(inbox[c]) \in Nat
          /\ \A i \in 1..Len(inbox[c]) : inbox'[c][i] = inbox[c][i]
          /\ inbox'[c][Len(inbox[c]) + 1] = PayloadMessage(p)
          /\ \A q : InInbox(c, q)' => InInbox(c, q) \/ q = p
      BY <1>3, <3>1, InboxAppend
    <3>3. \A i \in 1..Len(inbox'[c]) : i \in 1..Len(inbox[c]) \/ i = Len(inbox[c]) + 1
      BY <3>2
    <3>4. \A q \in Released(c)' : q \in Released(c) \/ q = p
      BY <1>1, <2>2, <3>2, ExpectedKept DEF Released
    <3>5. /\ \A d \in 0..(p.event - 1) : Delivered(d)'
          /\ \A q \in pending' : q.event = p.event => p.sequence < q.sequence
      <4>1. \A d \in 0..(p.event - 1) : d \in Events /\ Delivered(d)
        BY <1>1, <1>2, <1>5, RunAssumption DEF MayRelease, Events
      <4>2. ASSUME NEW q \in pending', q.event = p.event PROVE p.sequence < q.sequence
        <5>1. q \in pending /\ q # p /\ p.sequence <= q.sequence
          BY <1>1, <1>5, <4>2 DEF MayRelease
        <5>2. q = PayloadOf(q.event, q.sequence) /\ p = PayloadOf(p.event, p.sequence)
              /\ q.sequence \in Nat
          BY <1>2, <5>1, PendingLate, SampleOf DEF RunInv
        <5>. QED
          BY <1>2, <4>2, <5>1, <5>2
      <4>. QED
        BY <1>4, <4>1, <4>2
    <3>6. ReleasedFirst(c)'
      BY <2>4, <3>4, <3>5 DEF ReleasedFirst
    <3>7. ASSUME NEW r \in Released(c) PROVE Before(r, p)
      <4>1. r.event \in Events
        BY SampleOf DEF Released
      <4>2. r.event <= p.event
        <5>1. ~Delivered(p.event)
          BY DEF Delivered
        <5>2. p.event \notin 0..(r.event - 1)
          BY <2>1, <5>1 DEF InOrder, ReleasedFirst
        <5>. QED
          BY <1>2, <4>1, <5>2, RunAssumption DEF Events
      <4>3. r.event = p.event => r.sequence < p.sequence
        BY <2>1 DEF InOrder, ReleasedFirst
      <4>. QED
        BY <1>2, <4>1, <4>2, <4>3, RunAssumption DEF Before, Events
    <3>8. ASSUME NEW i \in 1..Len(inbox[c]), IsPayload(inbox[c][i])
          PROVE  Before(inbox[c][i].payload, p)
      <4>1. inbox[c][i].payload \in Expected(c)
        BY <3>8 DEF RunInv, CrateInv, InboxOrdered, Ordered, MessageFits
      <4>2. inbox[c][i].payload \in Released(c)
        BY <3>8, <4>1 DEF Released, InInbox
      <4>. QED
        BY <3>7, <4>2
    <3>9. InboxSorted(c)'
      <4>1. ASSUME NEW i \in 1..Len(inbox'[c]), NEW j \in 1..Len(inbox'[c]), i < j,
                   IsPayload(inbox'[c][i]), IsPayload(inbox'[c][j])
            PROVE  Before(inbox'[c][i].payload, inbox'[c][j].payload)
        <5>1. i \in 1..Len(inbox[c]) /\ inbox'[c][i] = inbox[c][i]
          BY <3>2, <4>1
        <5>2. CASE j \in 1..Len(inbox[c])
          BY <2>1, <3>2, <4>1, <5>1, <5>2 DEF InOrder, InboxSorted
        <5>3. CASE j = Len(inbox[c]) + 1
          BY <1>3, <3>2, <3>8, <4>1, <5>1, <5>3
        <5>. QED
          BY <3>3, <5>2, <5>3
      <4>. QED
        BY <4>1 DEF InboxSorted
    <3>10. FramesSorted(c)'
      <4>1. ASSUME NEW id \in DOMAIN frames[c], NEW r \in Elements(frames[c][id]),
                   NEW i \in 1..Len(inbox'[c]), IsPayload(inbox'[c][i])
            PROVE  Before(r, inbox'[c][i].payload)
        <5>1. CASE i \in 1..Len(inbox[c])
          BY <2>1, <3>2, <4>1, <5>1 DEF InOrder, FramesSorted
        <5>2. CASE i = Len(inbox[c]) + 1
          <6>1. r \in Released(c)
            BY DEF RunInv, CrateInv, FramesOpen, ExpectedIn, Released, InFrames
          <6>. QED
            BY <1>3, <3>2, <3>7, <5>2, <6>1
        <5>. QED
          BY <3>3, <5>1, <5>2
      <4>. QED
        BY <1>1, <2>1, <4>1 DEF InOrder, FramesSorted
    <3>. QED
      BY <2>3, <3>6, <3>9, <3>10 DEF InOrder
  <2>6. CASE c # p.crate
    <3>1. inbox'[c] = inbox[c]
      BY <1>1, <2>6 DEF TypeInv, TypeOK
    <3>2. \A q : InInbox(c, q)' <=> InInbox(c, q)
      BY <3>1 DEF InInbox
    <3>3. Released(c)' = Released(c)
      BY <1>1, <2>2, <3>2, ExpectedKept DEF Released
    <3>4. ReleasedFirst(c)'
      BY <2>4, <3>3 DEF ReleasedFirst
    <3>. QED
      BY <1>1, <2>1, <2>3, <3>1, <3>4 DEF InOrder, InboxSorted, FramesSorted
  <2>. QED
    BY <2>5, <2>6
<1>. QED
  BY <1>1, <1>5 DEF OrderInv, input

LEMMA PublishOrder ==
  ASSUME TypeInv, OrderInv, PublishProgress
  PROVE  OrderInv'
<1>. USE DEF worker, crate
<1>1. PICK first \in 0..EventCount :
        /\ inbox' = [c \in Crates |-> Append(inbox[c], AdvanceMessage(EarliestRemaining(clock, first)))]
        /\ UNCHANGED <<input, status, pending, frames, file>>
  BY DEF PublishProgress
<1>. DEFINE m == AdvanceMessage(EarliestRemaining(clock, first))
<1>2. EarliestRemaining(clock, first) \in Int
  BY EventStartType, RunAssumption DEF TypeInv, TypeOK
<1>3. m \in Message /\ ~IsPayload(m)
  BY <1>2 DEF AdvanceMessage, Message, IsPayload
<1>4. ASSUME inOrder, NEW c \in Crates PROVE InOrder(c)'
  <2>1. InOrder(c)
    BY <1>4 DEF OrderInv
  <2>2. inbox'[c] = Append(inbox[c], m)
    BY <1>1
  <2>. HIDE DEF m
  <2>3. /\ Len(inbox'[c]) = Len(inbox[c]) + 1 /\ Len(inbox[c]) \in Nat
        /\ \A i \in 1..Len(inbox[c]) : inbox'[c][i] = inbox[c][i]
        /\ inbox'[c][Len(inbox[c]) + 1] = m
        /\ \A q : InInbox(c, q)' => InInbox(c, q)
    BY <1>3, <2>2, InboxAppend
  <2>4. \A i \in 1..Len(inbox'[c]) : IsPayload(inbox'[c][i]) =>
          i \in 1..Len(inbox[c]) /\ inbox'[c][i] = inbox[c][i]
    BY <1>3, <2>3
  <2>5. \A q : InFrames(c, q)' => InFrames(c, q)
    BY <1>1 DEF InFrames
  <2>6. Released(c)' \subseteq Released(c)
    BY <1>1, <2>3, <2>5, ReleasedSub
  <2>7. ReleasedFirst(c)'
    BY <1>1, <2>1, <2>6 DEF InOrder, ReleasedFirst, Delivered
  <2>8. InboxSorted(c)'
    BY <2>1, <2>4 DEF InOrder, InboxSorted
  <2>9. FramesSorted(c)'
    BY <1>1, <2>1, <2>4 DEF InOrder, FramesSorted
  <2>. QED
    BY <1>1, <2>1, <2>7, <2>8, <2>9 DEF InOrder, FileSorted
<1>. QED
  BY <1>1, <1>4 DEF OrderInv, input

(* A sample is taken from the front, and so after those taken before.      *)
LEMMA ConsumeOrder ==
  ASSUME TypeInv, RunInv, NEW c \in Crates, InOrder(c), ConsumePayload(c)
  PROVE  InOrder(c)'
<1>. USE DEF worker, service
<1>. DEFINE m == Head(inbox[c])
            p == m.payload
            id == FrameOf(p.time)
<1>1. /\ UNCHANGED <<input, status, pending, file>>
      /\ inbox[c] # <<>> /\ IsPayload(m)
      /\ inbox'[c] = Tail(inbox[c])
      /\ frames'[c] = Filed(c, id, p)
  BY DEF ConsumePayload, Receiving, IsPayload, TypeInv, TypeOK
<1>2. /\ m = inbox[c][1] /\ 1 \in 1..Len(inbox[c])
      /\ \A i \in 1..Len(inbox'[c]) :
           i + 1 \in 1..Len(inbox[c]) /\ 1 < i + 1 /\ inbox'[c][i] = inbox[c][i + 1]
      /\ \A q : InInbox(c, q)' => InInbox(c, q)
  BY <1>1, InboxTail
<1>3. p \in Sample /\ InInbox(c, p)
  BY <1>1, <1>2, ReceivedTypes DEF ConsumePayload, InInbox, TypeInv
<1>4. \A i \in 1..Len(inbox'[c]) : IsPayload(inbox'[c][i]) => Before(p, inbox'[c][i].payload)
  BY <1>1, <1>2 DEF InOrder, InboxSorted
<1>5. \A j \in DOMAIN frames[c] : \A q \in Elements(frames[c][j]) : Before(q, p)
  BY <1>1, <1>2 DEF InOrder, FramesSorted
<1>. HIDE DEF p, m
<1>6. id \in Nat
  BY <1>3, FrameHolds DEF Sample
<1>. HIDE DEF id
<1>7. /\ SamplesOf(c, id) \in Seq(Sample)
      /\ Elements(Append(SamplesOf(c, id), p)) = Elements(SamplesOf(c, id)) \cup {p}
  <2>1. SamplesOf(c, id) \in Seq(Sample)
    BY <1>3, <1>6, FiledTypes DEF TypeInv
  <2>. QED
    BY <2>1, <1>3, ElementsAppend
<1>8. \A i \in 1..Len(inbox'[c]) : \A j \in DOMAIN frames[c] : \A q \in Elements(frames[c][j]) :
        IsPayload(inbox'[c][i]) => Before(q, inbox'[c][i].payload)
  BY <1>2 DEF InOrder, FramesSorted
<1>9. /\ Sorted(SamplesOf(c, id))
      /\ \A q \in Elements(SamplesOf(c, id)) : \E j \in DOMAIN frames[c] : q \in Elements(frames[c][j])
  BY DEF InOrder, FramesSorted, SamplesOf, Sorted, Elements
<1>10. ASSUME NEW i \in DOMAIN Filed(c, id, p), NEW q \in Elements(Filed(c, id, p)[i])
       PROVE  q = p \/ \E j \in DOMAIN frames[c] : q \in Elements(frames[c][j])
  <2>1. CASE i = id
    BY <1>7, <1>9, <1>10, <2>1 DEF Filed
  <2>2. CASE i # id
    BY <1>10, <2>2 DEF Filed
  <2>. QED
    BY <2>1, <2>2
<1>11. Sorted(Append(SamplesOf(c, id), p))
  <2>. DEFINE s == SamplesOf(c, id)
  <2>1. s \in Seq(Sample) /\ Sorted(s)
    BY <1>7, <1>9
  <2>2. \A i \in 1..Len(s) : Before(s[i], p)
    BY <1>5, <1>9 DEF Elements
  <2>. HIDE DEF s
  <2>3. /\ Len(Append(s, p)) = Len(s) + 1 /\ Len(s) \in Nat
        /\ \A i \in 1..Len(s) : Append(s, p)[i] = s[i]
        /\ Append(s, p)[Len(s) + 1] = p
    BY <2>1
  <2>4. ASSUME NEW i \in 1..Len(Append(s, p)), NEW j \in 1..Len(Append(s, p)), i < j
        PROVE  Before(Append(s, p)[i], Append(s, p)[j])
    <3>1. i \in 1..Len(s)
      BY <2>3, <2>4
    <3>2. CASE j \in 1..Len(s)
      BY <2>1, <2>3, <2>4, <3>1, <3>2 DEF Sorted
    <3>3. CASE j = Len(s) + 1
      BY <2>2, <2>3, <3>1, <3>3
    <3>. QED
      BY <2>3, <3>2, <3>3
  <2>5. Sorted(Append(s, p))
    BY <2>4 DEF Sorted
  <2>. QED
    BY <2>5 DEF s
<1>12. FramesSorted(c)'
  <2>1. \A i \in DOMAIN Filed(c, id, p) : Sorted(Filed(c, id, p)[i])
    BY <1>11 DEF Filed, InOrder, FramesSorted
  <2>2. ASSUME NEW i \in DOMAIN Filed(c, id, p), NEW q \in Elements(Filed(c, id, p)[i]),
               NEW k \in 1..Len(inbox'[c]), IsPayload(inbox'[c][k])
        PROVE  Before(q, inbox'[c][k].payload)
    BY <1>4, <1>8, <1>10, <2>2
  <2>. QED
    BY <1>1, <2>1, <2>2 DEF FramesSorted
<1>13. \A q : InFrames(c, q)' => InFrames(c, q) \/ InInbox(c, q)
  BY <1>1, <1>3, <1>10 DEF InFrames
<1>14. ReleasedFirst(c)'
  <2>1. Released(c)' \subseteq Released(c)
    BY <1>1, <1>2, <1>13, ReleasedSub
  <2>. QED
    BY <1>1, <2>1 DEF InOrder, ReleasedFirst, Delivered
<1>15. InboxSorted(c)'
  <2>1. ASSUME NEW i \in 1..Len(inbox'[c]), NEW j \in 1..Len(inbox'[c]), i < j,
               IsPayload(inbox'[c][i]), IsPayload(inbox'[c][j])
        PROVE  Before(inbox'[c][i].payload, inbox'[c][j].payload)
    <3>1. i + 1 < j + 1
      BY <2>1
    <3>. QED
      BY <1>2, <2>1, <3>1 DEF InOrder, InboxSorted
  <2>. QED
    BY <2>1 DEF InboxSorted
<1>16. FileSorted(c)'
  BY <1>1 DEF InOrder, FileSorted
<1>. QED
  BY <1>12, <1>14, <1>15, <1>16 DEF InOrder

(* A crate that takes a message away, loses open frames or writes one.     *)
LEMMA ShrinkOrder ==
  ASSUME TypeInv, NEW c \in Crates, InOrder(c), UNCHANGED <<input, status, pending>>,
         inbox'[c] = inbox[c] \/ (inbox[c] # <<>> /\ inbox'[c] = Tail(inbox[c])),
         \A id \in DOMAIN frames'[c] : id \in DOMAIN frames[c] /\ frames'[c][id] = frames[c][id],
         FileSorted(c)'
  PROVE  InOrder(c)'
<1>1. \A p : InFrames(c, p)' => InFrames(c, p)
  BY DEF InFrames
<1>2. PICK shift \in {0, 1} : \A i \in 1..Len(inbox'[c]) :
        i + shift \in 1..Len(inbox[c]) /\ inbox'[c][i] = inbox[c][i + shift] /\ i \in Int
  <2>1. CASE inbox'[c] = inbox[c]
    BY <2>1
  <2>2. CASE inbox[c] # <<>> /\ inbox'[c] = Tail(inbox[c])
    BY <2>2, InboxTail
  <2>. QED
    BY <2>1, <2>2
<1>3. \A p : InInbox(c, p)' => InInbox(c, p)
  BY <1>2 DEF InInbox
<1>4. Released(c)' \subseteq Released(c)
  BY <1>1, <1>3, ReleasedSub
<1>5. ReleasedFirst(c)'
  BY <1>4 DEF InOrder, ReleasedFirst, Delivered
<1>6. InboxSorted(c)'
  <2>1. ASSUME NEW i \in 1..Len(inbox'[c]), NEW j \in 1..Len(inbox'[c]), i < j,
               IsPayload(inbox'[c][i]), IsPayload(inbox'[c][j])
        PROVE  Before(inbox'[c][i].payload, inbox'[c][j].payload)
    <3>1. i + shift < j + shift
      BY <1>2, <2>1
    <3>. QED
      BY <1>2, <2>1, <3>1 DEF InOrder, InboxSorted
  <2>. QED
    BY <2>1 DEF InboxSorted
<1>7. FramesSorted(c)'
  BY <1>2 DEF InOrder, FramesSorted
<1>. QED
  BY <1>5, <1>6, <1>7 DEF InOrder

LEMMA CrateThreadOrder ==
  ASSUME TypeInv, RunInv, OrderInv, NEW c \in Crates, CrateThread(c)
  PROVE  OrderInv'
<1>1. /\ UNCHANGED <<input, status, pending>>
      /\ \A d \in Crates \ {c} :
           inbox'[d] = inbox[d] /\ frames'[d] = frames[d] /\ file'[d] = file[d]
  BY CrateStep DEF worker, service
<1>2. ASSUME InOrder(c) PROVE InOrder(c)'
  <2>1. CASE ConsumePayload(c)
    BY <1>2, <2>1, ConsumeOrder
  <2>2. CASE ~ConsumePayload(c)
    <3>1. FileSorted(c)'
      <4>1. FileSorted(c) /\ FramesSorted(c)
        BY <1>2 DEF InOrder
      <4>2. CASE file'[c] = file[c]
        BY <4>1, <4>2 DEF FileSorted
      <4>3. CASE \E id \in DOMAIN frames[c] : file'[c] = Append(file[c], Frame(c, id))
        <5>1. PICK id \in DOMAIN frames[c] : file'[c] = Append(file[c], Frame(c, id))
          BY <4>3
        <5>2. file[c] \in Seq(FrameRecord)
          BY DEF TypeInv, TypeOK
        <5>3. Frame(c, id).samples = frames[c][id] /\ Sorted(frames[c][id])
          BY <4>1 DEF Frame, FramesSorted
        <5>. QED
          BY <4>1, <5>1, <5>2, <5>3 DEF FileSorted
      <4>4. CASE FileCut(c)
        BY <4>1, <4>4, CutParts DEF FileSorted
      <4>. QED
        BY <2>2, <4>2, <4>3, <4>4, CrateShrinks
    <3>. QED
      BY <1>1, <1>2, <2>2, <3>1, CrateShrinks, ShrinkOrder
  <2>. QED
    BY <2>1, <2>2
<1>3. ASSUME NEW d \in Crates, d # c, InOrder(d) PROVE InOrder(d)'
  BY <1>1, <1>3, ShrinkOrder DEF InOrder, FileSorted
<1>. QED
  BY <1>1, <1>2, <1>3 DEF OrderInv, input

LEMMA OrderNext ==
  TypeInv /\ RunInv /\ UniqueInv /\ OrderInv /\ [Next]_vars => OrderInv'
<1>. SUFFICES ASSUME TypeInv, RunInv, UniqueInv, OrderInv, [Next]_vars PROVE OrderInv'
  OBVIOUS
<1>1. CASE \E e \in Events : Claim(e) \/ Worker(e)
  BY <1>1, WorkerOrder
<1>2. CASE \E p \in pending : Release(p)
  BY <1>2, ReleaseOrder
<1>3. CASE PublishProgress
  BY <1>3, PublishOrder
<1>4. CASE EndRun \/ Interrupt \/ UNCHANGED vars
  <2>1. UNCHANGED <<input, status, pending, inbox, frames, file>>
    BY <1>4 DEF EndRun, Interrupt, vars, input, worker, service, crate
  <2>2. ASSUME NEW c \in Crates, InOrder(c) PROVE InOrder(c)'
    BY <2>1, <2>2, ShrinkOrder DEF InOrder, FileSorted
  <2>. QED
    BY <2>1, <2>2 DEF OrderInv, input
<1>5. CASE \E c \in Crates : CrateThread(c)
  BY <1>5, CrateThreadOrder
<1>. QED
  BY <1>1, <1>2, <1>3, <1>4, <1>5 DEF Next, Step, Stop, Service

(* With a service that keeps the order of events, the bytes of a frame do  *)
(* not depend on the schedule either: its samples lie in the order of the  *)
(* events and of their hits.                                               *)
THEOREM OrderIsCanonical == Spec => []CanonicalOrder
<1>1. Init => OrderInv
  <2>. SUFFICES ASSUME Init, NEW c \in Crates PROVE InOrder(c)
    BY DEF OrderInv
  <2>1. Released(c) = {}
    BY DEF Init, Released, InInbox, InFrames
  <2>. QED
    BY <2>1 DEF Init, InOrder, ReleasedFirst, InboxSorted, FramesSorted, FileSorted
<1>2. OrderInv => CanonicalOrder
  BY DEF OrderInv, InOrder, FileSorted, CanonicalOrder
<1>. QED
  BY <1>1, <1>2, OrderNext, TypeAlways, RunInvariant, UniqueAlways, PTL DEF Spec
-----------------------------------------------------------------------------
(* Progress, as far as it is safety: nothing is left behind by a crate     *)
(* that has caught up with its messages, somebody can always go on, and    *)
(* whoever does brings the run closer to its end.                          *)

(* A crate with an empty inbox knows the last bound, and a frame that this *)
(* bound covers can only be in its file.                                   *)
LEMMA IdleWritten ==
  ASSUME TypeInv, RunInv, DrainInv, NEW c \in Crates,
         phase[c] = "receive", inbox[c] = <<>>,
         NEW p \in Expected(c), FrameEnd(FrameOf(p.time)) <= published
  PROVE  \E k \in 1..Len(file[c]) : file[c][k].id = FrameOf(p.time)
<1>1. CrateInv(c) /\ CrateDrained(c)
  BY DEF RunInv, DrainInv
<1>2. safe[c] = published
  BY <1>1 DEF CrateDrained, LastBound
<1>3. InFrames(c, p) \/ InFile(c, p)
  BY <1>2, CoveredLocated DEF Ended, Failures
<1>4. CASE InFrames(c, p)
  <2>1. PICK id \in DOMAIN frames[c] : p \in Elements(frames[c][id])
    BY <1>4 DEF InFrames
  <2>2. id = FrameOf(p.time)
    BY <1>1, <2>1 DEF CrateInv, FramesOpen, ExpectedIn
  <2>3. FrameEnd(id) > safe[c]
    BY <1>1, <2>1 DEF CrateDrained, OpenLate
  <2>4. id \in Nat /\ published \in Int
    BY <2>1, FrameTypes DEF TypeInv, TypeOK
  <2>5. FrameEnd(id) \in Int
    BY <2>4, FrameBoundsType
  <2>. QED
    BY <1>2, <2>2, <2>3, <2>4, <2>5
<1>5. CASE InFile(c, p)
  <2>1. PICK k \in 1..Len(file[c]) : p \in Elements(file[c][k].samples)
    BY <1>5 DEF InFile
  <2>2. p \in ExpectedIn(c, file[c][k].id)
    BY <1>1, <2>1 DEF CrateInv, FileFinal
  <2>. QED
    BY <2>2 DEF ExpectedIn
<1>. QED
  BY <1>3, <1>4, <1>5

(* A crate without a message to process has written every frame the last   *)
(* bound covers: the safety half of CoveredFramesAreWritten.               *)
THEOREM IdleCratesAreCaughtUp == Spec => []IdleCratesCaughtUp
<1>1. TypeInv /\ RunInv /\ DrainInv => IdleCratesCaughtUp
  BY IdleWritten DEF IdleCratesCaughtUp, CaughtUp
<1>. QED
  BY <1>1, TypeAlways, RunInvariant, DrainAlways, PTL

(* An event that failed has stopped the run.                               *)
FailureStops == \A e \in Events : status[e] = "failed" => run # "running"

LEMMA FailureStopsNext == TypeInv /\ FailureStops /\ [Next]_vars => FailureStops'
<1>. SUFFICES ASSUME TypeInv, FailureStops, [Next]_vars PROVE FailureStops'
  OBVIOUS
<1>. USE DEF FailureStops, TypeInv, TypeOK
<1>1. CASE \E e \in Events : Claim(e) \/ Worker(e)
  BY <1>1 DEF Claim, Worker, StreamHit, DropHit, RejectHit, CompleteEvent
<1>2. CASE Service \/ Interrupt
  BY <1>2 DEF Service, Release, PublishProgress, EndRun, Interrupt, worker
<1>3. CASE \E c \in Crates : CrateThread(c)
  <2>1. status' = status /\ (run' = run \/ run' = "failed")
    BY <1>3, CrateStep DEF worker
  <2>. QED
    BY <2>1
<1>4. CASE UNCHANGED vars
  BY <1>4 DEF vars
<1>. QED
  BY <1>1, <1>2, <1>3, <1>4 DEF Next, Step, Stop

LEMMA FailureStopsAlways == Spec => []FailureStops
<1>1. Init => FailureStops
  BY DEF Init, FailureStops
<1>. QED
  BY <1>1, FailureStopsNext, TypeAlways, PTL DEF Spec

(* Of the payloads that are pending, the first one of the first event may  *)
(* be released, whether or not the service keeps the order.                *)
LEMMA FirstPending ==
  ASSUME TypeInv, pending # {}, \A e \in Events : status[e] = "complete"
  PROVE  \E p \in pending : MayRelease(p)
<1>. DEFINE ids == {p.event : p \in pending}
<1>0. /\ pending \subseteq Sample /\ EventCount \in Nat /\ Events = 0..(EventCount - 1)
      /\ \A p \in pending : p.event \in Events /\ p.event \in Nat /\ p.sequence \in Nat
  BY RunAssumption DEF TypeInv, TypeOK, Sample, Events
<1>1. ids \in SUBSET Nat /\ ids # {}
  BY <1>0
<1>2. PICK first \in ids : \A e \in ids : first <= e
  BY <1>1, LowestExists
<1>. DEFINE places == {p.sequence : p \in {q \in pending : q.event = first}}
<1>3. places \in SUBSET Nat /\ places # {}
  BY <1>0, <1>2
<1>4. PICK place \in places : \A s \in places : place <= s
  BY <1>3, LowestExists
<1>5. PICK p \in pending : p.event = first /\ p.sequence = place
  BY <1>4
<1>6. ASSUME NEW d \in 0..(p.event - 1) PROVE Delivered(d)
  <2>1. d \in Events /\ d < first /\ first \in Nat
    BY <1>0, <1>5
  <2>2. ASSUME NEW q \in pending, q.event = d PROVE FALSE
    <3>1. d \in ids
      BY <2>2
    <3>. QED
      BY <1>2, <2>1, <3>1
  <2>. QED
    BY <2>1, <2>2 DEF Delivered
<1>7. ASSUME NEW q \in pending, q.event = p.event PROVE p.sequence <= q.sequence
  BY <1>4, <1>5, <1>7
<1>. QED
  BY <1>6, <1>7 DEF MayRelease

(* With every event complete and nothing pending, the final bound is still *)
(* to be published, or the run ends.                                       *)
LEMMA LastBoundOrEnd ==
  ASSUME TypeInv, DrainInv, run = "running", pending = {},
         \A e \in Events : status[e] = "complete"
  PROVE  ServiceCanGo
<1>1. \A e \in Events : Delivered(e)
  BY DEF Delivered
<1>2. published \in Int /\ FinalBound \in Int /\ published <= FinalBound
  BY EventStartType, RunAssumption DEF TypeInv, TypeOK, FinalBound, DrainInv
<1>3. CASE published = FinalBound
  BY <1>1, <1>3 DEF ServiceCanGo
<1>4. CASE published < FinalBound
  <2>1. EventCount \in 0..EventCount /\ FirstRemaining(EventCount)
    BY <1>1, RunAssumption DEF FirstRemaining, Events
  <2>. QED
    BY <1>2, <1>4, <2>1 DEF ServiceCanGo, FinalBound
<1>. QED
  BY <1>2, <1>3, <1>4

(* advance_time either writes the lowest frame or ends its loop.           *)
LEMMA LoopGoesOn ==
  ASSUME TypeInv, NEW c \in Crates
  PROVE  \/ \E id \in DOMAIN frames[c] : MayWrite(c, id)
         \/ \A id \in DOMAIN frames[c] : Lowest(c, id) => FrameEnd(id) > safe[c]
<1>1. ASSUME NEW id \in DOMAIN frames[c] PROVE FrameEnd(id) \in Int /\ safe[c] \in Int
  <2>1. id \in Nat /\ safe[c] \in Int
    BY FrameTypes DEF TypeInv, TypeOK
  <2>. QED
    BY <2>1, FrameBoundsType
<1>. QED
  BY <1>1 DEF MayWrite

LEMMA SomebodyCanGo ==
  ASSUME TypeInv, DrainInv, FailureStops PROVE NobodyWaits
<1>. SUFFICES ASSUME ~Over, \A e \in Events : ~WorkerCanGo(e), \A c \in Crates : ~CrateCanGo(c)
              PROVE  ServiceCanGo
  BY DEF NobodyWaits
<1>1. PICK c \in Crates : phase[c] \notin Ended
  BY DEF Over
<1>2. phase[c] # "advance"
  BY LoopGoesOn DEF CrateCanGo
<1>3. phase[c] = "receive" /\ inbox[c] = <<>> /\ \A how \in {"completed", "interrupted"} : ~MayFinish(c, how)
  BY <1>1, <1>2 DEF CrateCanGo, TypeInv, TypeOK
<1>4. run = "running"
  BY <1>3 DEF MayFinish, Over, TypeInv, TypeOK
<1>5. Cardinality(Active) < WorkerCount
  <2>1. Active = {}
    BY DEF WorkerCanGo, Active
  <2>. QED
    BY <2>1, FS_EmptySet, RunAssumption
<1>6. \A e \in Events : status[e] = "complete"
  BY <1>4, <1>5 DEF WorkerCanGo, FailureStops, TypeInv, TypeOK
<1>7. CASE pending # {}
  BY <1>6, <1>7, FirstPending DEF ServiceCanGo
<1>8. CASE pending = {}
  BY <1>4, <1>6, <1>8, LastBoundOrEnd
<1>. QED
  BY <1>7, <1>8

(* No state of a run that is not over finds every thread and the service   *)
(* waiting for another.                                                    *)
LEMMA NobodyEverWaits == Spec => []NobodyWaits
<1>1. TypeInv /\ DrainInv /\ FailureStops => NobodyWaits
  BY SomebodyCanGo
<1>. QED
  BY <1>1, TypeAlways, DrainAlways, FailureStopsAlways, PTL

(* A worker uses up a hit or the status of its event.                      *)
LEMMA WorkerAdvances ==
  ASSUME TypeInv, NEW e \in Events, Claim(e) \/ Worker(e)
  PROVE  StepAdvances
<1>. USE DEF input, service, crate
<1>1. streamed[e] \in Nat /\ Len(hits[e]) \in Nat
  BY DEF TypeInv, TypeOK
<1>2. CASE Claim(e)
  <2>1. StatusRank(status[e]) = 0 /\ StatusRank(status'[e]) = 1
    BY <1>2 DEF Claim, StatusRank, TypeInv, TypeOK
  <2>2. WorkAdvances
    BY <1>2, <2>1 DEF Claim, WorkAdvances, TypeInv, TypeOK
  <2>. QED
    BY <1>2, <2>2 DEF Claim, StepAdvances
<1>3. CASE StreamHit(e) \/ DropHit(e)
  <2>1. streamed'[e] = streamed[e] + 1 /\ streamed[e] < Len(hits[e]) /\ status' = status
    BY <1>3 DEF StreamHit, DropHit, HasHit, TypeInv, TypeOK
  <2>2. \A d \in Events \ {e} : streamed'[d] = streamed[d]
    BY <1>3 DEF StreamHit, DropHit, TypeInv, TypeOK
  <2>3. WorkAdvances
    BY <1>1, <2>1, <2>2 DEF WorkAdvances
  <2>. QED
    BY <1>3, <2>3 DEF StreamHit, DropHit, StepAdvances
<1>4. CASE RejectHit(e) \/ CompleteEvent(e)
  <2>1. StatusRank(status[e]) = 1 /\ StatusRank(status'[e]) = 2
    BY <1>4 DEF RejectHit, HasHit, CompleteEvent, StatusRank, TypeInv, TypeOK
  <2>2. /\ streamed' = streamed
        /\ \A d \in Events \ {e} : status'[d] = status[d]
    BY <1>4 DEF RejectHit, CompleteEvent, TypeInv, TypeOK
  <2>3. WorkAdvances
    BY <2>1, <2>2 DEF WorkAdvances
  <2>. QED
    BY <1>4, <2>3 DEF RejectHit, CompleteEvent, StepAdvances
<1>. QED
  BY <1>2, <1>3, <1>4 DEF Worker

(* The service uses up a payload, or some way to the final bound.          *)
LEMMA ServiceAdvances ==
  ASSUME TypeInv, Service PROVE StepAdvances
<1>. USE DEF input, worker, crate
<1>1. ASSUME NEW p \in pending, Release(p) PROVE StepAdvances
  BY <1>1 DEF Release, StepAdvances, PendingShrinks
<1>2. CASE PublishProgress
  <2>1. PICK first \in 0..EventCount : /\ EarliestRemaining(clock, first) > published
                                       /\ published' = EarliestRemaining(clock, first)
    BY <1>2 DEF PublishProgress
  <2>2. published \in Int /\ published' \in Int /\ published < published' /\ published' <= FinalBound
    BY <2>1, BoundMonotone, EventStartType, RunAssumption DEF TypeInv, TypeOK, FinalBound
  <2>3. UNCHANGED <<input, run, worker, pending>>
    BY <1>2 DEF PublishProgress
  <2>. QED
    BY <2>2, <2>3 DEF StepAdvances
<1>3. CASE EndRun
  BY <1>3 DEF EndRun, StepAdvances, service
<1>. QED
  BY <1>1, <1>2, <1>3 DEF Service

(* A crate uses up a message, an open frame or its phase.                  *)
LEMMA CrateAdvancesStep ==
  ASSUME TypeInv, NEW c \in Crates, CrateThread(c)
  PROVE  StepAdvances
<1>1. /\ UNCHANGED <<input, worker, service>> /\ (run' = run \/ run' = "failed")
      /\ \A d \in Crates \ {c} :
           inbox'[d] = inbox[d] /\ frames'[d] = frames[d] /\ phase'[d] = phase[d]
  BY CrateStep
<1>2. \/ inbox[c] # <<>> /\ inbox'[c] = Tail(inbox[c])
      \/ inbox'[c] = inbox[c] /\ FramesShrink(c)
      \/ /\ inbox'[c] = inbox[c] /\ DOMAIN frames'[c] = DOMAIN frames[c]
         /\ PhaseRank(phase'[c]) < PhaseRank(phase[c])
  <2>1. CASE OpenSink(c)
    BY <2>1 DEF OpenSink, Fail, PhaseRank, TypeInv, TypeOK
  <2>2. CASE ConsumePayload(c) \/ RefusePayload(c) \/ BeginAdvance(c)
    BY <2>2 DEF ConsumePayload, RefusePayload, BeginAdvance, Receiving, TypeInv, TypeOK
  <2>3. CASE WriteFrame(c) \/ WriteFails(c)
    <3>1. PICK id \in DOMAIN frames[c] : frames' = [frames EXCEPT ![c] = Extracted(c, id)]
      BY <2>3 DEF WriteFrame, WriteFails
    <3>2. DOMAIN frames'[c] = DOMAIN frames[c] \ {id} /\ inbox'[c] = inbox[c]
      BY <2>3, <3>1 DEF Extracted, WriteFrame, WriteFails, TypeInv, TypeOK
    <3>. QED
      BY <3>1, <3>2 DEF FramesShrink
  <2>4. CASE EndAdvance(c)
    BY <2>4 DEF EndAdvance, PhaseRank, TypeInv, TypeOK
  <2>5. CASE FinishRun(c)
    <3>1. /\ inbox'[c] = inbox[c] /\ frames'[c] = <<>> /\ phase[c] = "receive"
          /\ phase'[c] \in {"completed", "interrupted", "unwritable", "torn"}
      BY <2>5, FinishRunParts DEF TypeInv, TypeOK
    <3>2. DOMAIN frames'[c] = {} /\ PhaseRank(phase'[c]) = 0 /\ PhaseRank(phase[c]) = 1
      BY <3>1 DEF PhaseRank
    <3>. QED
      BY <3>1, <3>2 DEF FramesShrink
  <2>. QED
    BY <2>1, <2>2, <2>3, <2>4, <2>5 DEF CrateThread
<1>3. CrateAdvances
  BY <1>1, <1>2 DEF CrateAdvances
<1>. QED
  BY <1>1, <1>3 DEF StepAdvances, service

(* A run always goes on, and closer to its end: the safety half of RunEnds.*)
THEOREM RunAlwaysProgresses == Spec => RunProgresses
<1>1. TypeInv /\ [Next]_vars => [StepAdvances]_vars
  <2>. SUFFICES ASSUME TypeInv, [Next]_vars PROVE [StepAdvances]_vars
    OBVIOUS
  <2>1. CASE Interrupt
    BY <2>1 DEF Interrupt, StepAdvances, service
  <2>. QED
    BY <2>1, WorkerAdvances, ServiceAdvances, CrateAdvancesStep DEF Next, Step, Stop
<1>. QED
  BY <1>1, TypeAlways, NobodyEverWaits, PTL DEF Spec, RunProgresses
=============================================================================
