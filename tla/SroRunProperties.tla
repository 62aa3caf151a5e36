-------------------------- MODULE SroRunProperties --------------------------
(***************************************************************************)
(* What a streaming-readout run must do, and the mapping under which it    *)
(* implements SroOutput.                                                   *)
(***************************************************************************)
EXTENDS SroRun

PayloadOf(e, k) == Payload(clock, e, k, hits[e][k])

(* The hits of the input that become payloads of a crate, whoever streams  *)
(* them and when.                                                          *)
Emits(c, e) == {k \in 1..Len(hits[e]) :
                  Emitted(clock, e, hits[e][k]) /\ hits[e][k].address.crate = c}

Expected(c) == UNION {{PayloadOf(e, k) : k \in Emits(c, e)} : e \in Events}

ExpectedIn(c, id) == {p \in Expected(c) : FrameOf(p.time) = id}

Elements(seq) == {seq[k] : k \in 1..Len(seq)}

FinalBound == EarliestRemaining(clock, EventCount)

(* The frames a completed run owes: a function of its input alone.         *)
Owed(c) ==
  {[id |-> id, samples |-> ExpectedIn(c, id)] :
     id \in {i \in {FrameOf(p.time) : p \in Expected(c)} : FrameEnd(i) <= FinalBound}}

(* The frames of a crate's file, the order of their samples forgotten.     *)
Written(c) == {[id |-> f.id, samples |-> Elements(f.samples)] : f \in Elements(file[c])}

-----------------------------------------------------------------------------
Sample == [crate : Crates, event : Events, sequence : Nat \ {0}, time : Nat,
           data : [crate : Crates, slot : Slots, channel : 0..MaxChannel,
                   charge : 0..MaxCharge, time : 0..(FrameDuration - 1)]]

FrameRecord == [crate : Crates, id : Nat, begin : Nat, end : Nat, samples : Seq(Sample)]

Message == [kind : {"payload"}, payload : Sample] \cup [kind : {"advance"}, bound : Int]

OpenFrames(c) ==
  /\ DOMAIN frames[c] \subseteq Nat
  /\ frames[c] \in [DOMAIN frames[c] -> Seq(Sample)]

(* Type correctness of the run's state.                                    *)
TypeOK ==
  /\ clock \in Clock
  /\ hits \in [Events -> Seq(Hit)]
  /\ inOrder \in BOOLEAN
  /\ run \in {"refused", "running", "completed", "failed", "interrupted"}
  /\ status \in [Events -> {"queued", "active", "complete", "failed"}]
  /\ streamed \in [Events -> Nat]
  /\ \A e \in Events : streamed[e] <= Len(hits[e])
  /\ pending \subseteq Sample
  /\ published \in Int
  /\ inbox \in [Crates -> Seq(Message)]
  /\ phase \in [Crates -> {"unopened", "receive", "advance"} \cup Ended]
  /\ safe \in [Crates -> Int]
  /\ DOMAIN frames = Crates
  /\ \A c \in Crates : OpenFrames(c)
  /\ file \in [Crates -> Seq(FrameRecord)]

-----------------------------------------------------------------------------
(* Every frame of a crate's file is whole, and the frames are in order.    *)
FileFinal(c) ==
  \A k \in 1..Len(file[c]) : Elements(file[c][k].samples) = ExpectedIn(c, file[c][k].id)

FileAscending(c) ==
  \A j, k \in 1..Len(file[c]) : j < k => file[c][j].id < file[c][k].id

(* "rather than silently writing late data into an already completed       *)
(* frame" (sro/README.md): a frame in a file holds exactly the samples     *)
(* that all the events of the run, streamed or not, put there.  No later   *)
(* delivery, failure or interruption can find it incomplete.  What a file  *)
(* that is torn holds after its last whole frame is part of one frame.     *)
WrittenFramesFinal == \A c \in Crates : FileFinal(c)

(* advance_time writes the frames of a crate in time order over all of its *)
(* calls: a frame never repeats in the file and never follows a later one. *)
FramesAscending == \A c \in Crates : FileAscending(c)

(* "One and four workers must produce identical completed output; an extra *)
(* partial frame must be discarded" (sro/README.md): what a completed      *)
(* crate file holds is decided by the hits and the clock, never by the     *)
(* schedule, and nothing past the final bound is in it; and no sample is   *)
(* twice in a file, completed or not: from emit through the queue and the  *)
(* frame map it is moved, never copied.                                    *)
CompletedOutput ==
  \A c \in Crates :
    /\ phase[c] = "completed" => Written(c) = Owed(c)
    /\ \A m, n \in 1..Len(file[c]) :
         \A i \in 1..Len(file[c][m].samples) : \A j \in 1..Len(file[c][n].samples) :
           file[c][m].samples[i] = file[c][n].samples[j] => m = n /\ i = j

(* The worker and the collector agree on envelopes, and the collector and  *)
(* the encoder on frames: no crate is ever stopped by the checks of        *)
(* consume_payload or encode_frame on what stream_hit emitted.             *)
NothingRejected == \A c \in Crates : phase[c] # "rejected"

(* The order of events and, within one, of the hits of its hit list.       *)
Before(p, q) == p.event < q.event \/ (p.event = q.event /\ p.sequence < q.sequence)

Sorted(samples) == \A i, j \in 1..Len(samples) : i < j => Before(samples[i], samples[j])

(* A service that releases events in order fixes even the order of samples *)
(* inside a frame, which is what makes the files of check_ftcal_sro.py     *)
(* identical byte for byte for every number of workers.                    *)
CanonicalOrder ==
  inOrder => \A c \in Crates : \A n \in 1..Len(file[c]) : Sorted(file[c][n].samples)

(* Whatever fails, every thread comes to rest if the workers go on: no     *)
(* crate waits for a bound that is never sent, and the service waits for   *)
(* no crate.                                                               *)
RunEnds == WorkerFairness => <>Over

(* Streaming: a crate's file catches up with the published bound, or the   *)
(* crate ends, again and again and however long a worker takes over the    *)
(* events that remain.                                                     *)
CaughtUp(c) ==
  \A id \in {FrameOf(p.time) : p \in Expected(c)} :
    FrameEnd(id) <= published => \E k \in 1..Len(file[c]) : file[c][k].id = id

CoveredFramesAreWritten ==
  \A c \in Crates : []<>(CaughtUp(c) \/ phase[c] \in Ended)

-----------------------------------------------------------------------------
(* What the two promises above rest on at every single state and step.     *)

(* A crate with no message left to process has written every frame the     *)
(* last bound covers: advance_time leaves none behind, consume_payload     *)
(* opens none after it, and no bound is sent before its events are         *)
(* delivered.                                                              *)
IdleCratesCaughtUp ==
  \A c \in Crates : phase[c] = "receive" /\ inbox[c] = <<>> => CaughtUp(c)

(* Someone other than the user can go on.                                  *)
WorkerCanGo(e) ==
  \/ status[e] = "active"
  \/ run = "running" /\ status[e] = "queued" /\ Cardinality(Active) < WorkerCount

ServiceCanGo ==
  \/ \E p \in pending : MayRelease(p)
  \/ \E first \in 0..EventCount :
       FirstRemaining(first) /\ EarliestRemaining(clock, first) > published
  \/ run = "running" /\ published = FinalBound /\ \A e \in Events : Delivered(e)

CrateCanGo(c) ==
  \/ phase[c] = "unopened"
  \/ /\ phase[c] = "advance"
     /\ \/ \E id \in DOMAIN frames[c] : MayWrite(c, id)
        \/ \A id \in DOMAIN frames[c] : Lowest(c, id) => FrameEnd(id) > safe[c]
  \/ phase[c] = "receive" /\ inbox[c] # <<>>
  \/ phase[c] = "receive" /\ \E how \in {"completed", "interrupted"} : MayFinish(c, how)

NobodyWaits == Over \/ ServiceCanGo \/ (\E e \in Events : WorkerCanGo(e)) \/ \E c \in Crates : CrateCanGo(c)

StatusRank(s) == CASE s = "queued" -> 0 [] s = "active" -> 1 [] OTHER -> 2

PhaseRank(p) == CASE p = "unopened" -> 3 [] p = "advance" -> 2 [] p = "receive" -> 1 [] OTHER -> 0

WorkAdvances ==
  \E e \in Events :
    /\ \A d \in Events \ {e} : status'[d] = status[d] /\ streamed'[d] = streamed[d]
    /\ \/ streamed'[e] > streamed[e] /\ streamed'[e] <= Len(hits[e]) /\ status'[e] = status[e]
       \/ streamed'[e] = streamed[e] /\ StatusRank(status'[e]) > StatusRank(status[e])

PendingShrinks == pending' \subseteq pending /\ pending' # pending

FramesShrink(c) == DOMAIN frames'[c] \subseteq DOMAIN frames[c] /\ DOMAIN frames'[c] # DOMAIN frames[c]

CrateAdvances ==
  \E c \in Crates :
    /\ \A d \in Crates \ {c} :
         inbox'[d] = inbox[d] /\ frames'[d] = frames[d] /\ phase'[d] = phase[d]
    /\ \/ inbox[c] # <<>> /\ inbox'[c] = Tail(inbox[c])
       \/ /\ inbox'[c] = inbox[c]
          /\ \/ FramesShrink(c)
             \/ /\ DOMAIN frames'[c] = DOMAIN frames[c]
                /\ PhaseRank(phase'[c]) < PhaseRank(phase[c])

StepAdvances ==
  /\ UNCHANGED input
  /\ run # "running" => run' # "running"
  /\ \/ WorkAdvances
     \/ UNCHANGED worker /\ PendingShrinks
     \/ UNCHANGED <<worker, pending>> /\ published < published' /\ published' <= FinalBound
     \/ /\ UNCHANGED <<worker, pending, published>>
        /\ \/ run = "running" /\ run' # "running" /\ UNCHANGED <<inbox, crate>>
           \/ CrateAdvances

(* Nobody waits on anybody: until the process exits, a worker has a hit or *)
(* an event to take, the service a payload to release, a bound to publish  *)
(* or the run to end, or a crate a message or its end; a run that failed   *)
(* or was interrupted leaves no crate waiting for a bound.  And every step *)
(* uses up something that is never given back: a hit or the status of one  *)
(* event; with the workers still, a pending payload; with those still,     *)
(* some of the distance to the final bound; then the run, and last of all  *)
(* the messages, open frames and phase of one crate.  No loop of the code  *)
(* polls or retries, so that every run of actors that go on ends.          *)
RunProgresses == []NobodyWaits /\ [][StepAdvances]_vars

-----------------------------------------------------------------------------
(* The inductive invariant behind WrittenFramesFinal and FramesAscending.  *)

(* Undelivered events are late: the bound has not passed their earliest    *)
(* signal, and a complete event has streamed all of its hits.              *)
BoundHolds ==
  /\ \A e \in Events : ~Delivered(e) => published <= EarliestRemaining(clock, e)
  /\ \A e \in Events : status[e] = "complete" => streamed[e] = Len(hits[e])

(* What is pending was emitted for a hit already streamed.                 *)
PendingEmitted ==
  \A p \in pending : \E c \in Crates : p \in Expected(c) /\ p.crate = c

IsPayload(m) == m.kind = "payload"

(* A crate never receives a payload after a bound that covers it, and its  *)
(* bounds never go back: low is the bound it knows, high the last one sent.*)
MessageFits(m, samples, low, high) ==
  IF IsPayload(m) THEN m.payload \in samples /\ low <= m.payload.time
                  ELSE low <= m.bound /\ m.bound <= high

MayFollow(m, n) ==
  ~IsPayload(m) => IF IsPayload(n) THEN m.bound <= n.payload.time ELSE m.bound <= n.bound

Ordered(messages, samples, low, high) ==
  /\ low <= high
  /\ \A i \in 1..Len(messages) : MessageFits(messages[i], samples, low, high)
  /\ \A i, j \in 1..Len(messages) : i < j => MayFollow(messages[i], messages[j])

InboxOrdered(c) == Ordered(inbox[c], Expected(c), safe[c], published)

(* Open frames hold samples of their own and lie after every written one.  *)
FramesOpen(c) ==
  \A id \in DOMAIN frames[c] :
    /\ Elements(frames[c][id]) \subseteq ExpectedIn(c, id)
    /\ \A k \in 1..Len(file[c]) : file[c][k].id < id

FileCovered(c) == \A k \in 1..Len(file[c]) : FrameEnd(file[c][k].id) <= safe[c]

(* Nothing is lost on the way: a payload of the input is still to be       *)
(* streamed, pending, in the inbox, in an open frame, or in the file.      *)
InInbox(c, p) == \E i \in 1..Len(inbox[c]) : IsPayload(inbox[c][i]) /\ inbox[c][i].payload = p

InFrames(c, p) == \E id \in DOMAIN frames[c] : p \in Elements(frames[c][id])

InFile(c, p) == \E k \in 1..Len(file[c]) : p \in Elements(file[c][k].samples)

Located(c, e, k) ==
  \/ streamed[e] < k
  \/ PayloadOf(e, k) \in pending
  \/ InInbox(c, PayloadOf(e, k))
  \/ InFrames(c, PayloadOf(e, k))
  \/ InFile(c, PayloadOf(e, k))

NothingLost(c) ==
  phase[c] \notin Ended => \A e \in Events : \A k \in Emits(c, e) : Located(c, e, k)

CrateInv(c) ==
  /\ InboxOrdered(c)
  /\ FramesOpen(c)
  /\ FileCovered(c)
  /\ NothingLost(c)
  /\ FileAscending(c)
  /\ FileFinal(c)

(* The conjunction the proof carries through every step.                   *)
RunInv ==
  /\ BoundHolds
  /\ PendingEmitted
  /\ \A c \in Crates : CrateInv(c)

-----------------------------------------------------------------------------
(* The inductive invariants behind the other promises; each is carried     *)
(* beside RunInv.                                                          *)

(* consume_payload opens a frame only to fill it, and never past capacity: *)
(* what the checks of the collector and the encoder would stop on cannot   *)
(* be in an inbox or a frame.                                              *)
FramesFit(c) == \A id \in DOMAIN frames[c] : Len(frames[c][id]) \in 1..FrameCapacity

FileFilled(c) == \A k \in 1..Len(file[c]) : Len(file[c][k].samples) > 0

FillInv == \A c \in Crates : FramesFit(c) /\ FileFilled(c) /\ phase[c] # "rejected"

(* The last bound has reached a crate or is on its way, and outside its    *)
(* loop a crate holds no frame the bound it knows would let it write.      *)
LastBound(c) ==
  \/ safe[c] = published
  \/ \E i \in 1..Len(inbox[c]) : ~IsPayload(inbox[c][i]) /\ inbox[c][i].bound = published

OpenLate(c) ==
  phase[c] \in {"unopened", "receive"} => \A id \in DOMAIN frames[c] : FrameEnd(id) > safe[c]

CrateDrained(c) ==
  /\ LastBound(c)
  /\ OpenLate(c)
  /\ phase[c] = "completed" => Written(c) = Owed(c)

RunDrained == published = FinalBound /\ \A e \in Events : Delivered(e)

DrainInv ==
  /\ published <= FinalBound
  /\ run = "completed" => RunDrained
  /\ \A c \in Crates : CrateDrained(c)

(* A payload is in one place at a time, and in one position there; none of *)
(* a hit that is not streamed yet is anywhere.                             *)
Distinct(samples) == \A i, j \in 1..Len(samples) : samples[i] = samples[j] => i = j

Released(c) == {p \in Expected(c) : InInbox(c, p) \/ InFrames(c, p)}

InboxDistinct(c) ==
  \A i, j \in 1..Len(inbox[c]) :
    IsPayload(inbox[c][i]) /\ IsPayload(inbox[c][j]) /\ inbox[c][i].payload = inbox[c][j].payload
      => i = j

OnePlace(c) ==
  /\ \A p \in pending : p \notin Released(c)
  /\ \A p \in pending \cup Released(c) : p.sequence <= streamed[p.event]
  /\ \A p \in Released(c) : ~(InInbox(c, p) /\ InFrames(c, p))

FramesDistinct(c) == \A id \in DOMAIN frames[c] : Distinct(frames[c][id])

FileDistinct(c) == \A k \in 1..Len(file[c]) : Distinct(file[c][k].samples)

CrateUnique(c) == OnePlace(c) /\ InboxDistinct(c) /\ FramesDistinct(c) /\ FileDistinct(c)

UniqueInv == \A c \in Crates : CrateUnique(c)

(* Of a service that keeps the order: a released payload comes before all  *)
(* that is not released yet, and what a crate has taken before what it     *)
(* still has to take.                                                      *)
ReleasedFirst(c) ==
  \A p \in Released(c) :
    /\ \A d \in 0..(p.event - 1) : Delivered(d)
    /\ \A q \in pending : q.event = p.event => p.sequence < q.sequence

InboxSorted(c) ==
  \A i, j \in 1..Len(inbox[c]) :
    i < j /\ IsPayload(inbox[c][i]) /\ IsPayload(inbox[c][j])
      => Before(inbox[c][i].payload, inbox[c][j].payload)

FramesSorted(c) ==
  \A id \in DOMAIN frames[c] :
    /\ Sorted(frames[c][id])
    /\ \A p \in Elements(frames[c][id]) : \A i \in 1..Len(inbox[c]) :
         IsPayload(inbox[c][i]) => Before(p, inbox[c][i].payload)

FileSorted(c) == \A k \in 1..Len(file[c]) : Sorted(file[c][k].samples)

InOrder(c) == ReleasedFirst(c) /\ InboxSorted(c) /\ FramesSorted(c) /\ FileSorted(c)

OrderInv == inOrder => \A c \in Crates : InOrder(c)

-----------------------------------------------------------------------------
(* The refinement mapping: a crate is sealed by finish_run in a completed  *)
(* run and abandoned by any other end; the order of samples is forgotten.  *)
OutputView == [c \in Crates |->
  [k \in 1..Len(file[c]) |->
     [id |-> file[c][k].id, samples |-> Elements(file[c][k].samples)]]]

StateView == [c \in Crates |->
  CASE phase[c] = "completed" -> "sealed"
    [] phase[c] \in Ended \ {"completed"} -> "abandoned"
    [] OTHER -> "open"]

PromisedView == [c \in Crates |-> Owed(c)]

Promise == INSTANCE SroOutput
             WITH promised <- PromisedView, output <- OutputView, state <- StateView

(* Every run implements SroOutput: each step of the threads writes the     *)
(* next owed frame of one crate, seals or abandons a crate, or stutters.   *)
ImplementsOutput == Promise!Spec
=============================================================================
