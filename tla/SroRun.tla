------------------------------- MODULE SroRun -------------------------------
(***************************************************************************)
(* One streaming-readout run of FT-Cal: worker threads stream the hits of  *)
(* their events in any order, GEMC's service hands the payloads and the    *)
(* progress bound to the crates, and every crate thread files payloads     *)
(* into frames and writes the frames that can no longer change.            *)
(*                                                                         *)
(* Inside the repository are the decisions on a hit (FtCalStream), the     *)
(* clock (FtCalClock), the crate plugin and its sink (jlab_sro.cc) and the *)
(* encoder (SroFrame).  GEMC's event dispatch and transport are external:  *)
(* all that is assumed of them is what the plugin interface states, "the   *)
(* progress bound after events [0, first) are fully delivered", and that a *)
(* crate's messages are processed one by one in the order they were sent.  *)
(***************************************************************************)
EXTENDS FtCalStream, SroFrame

CONSTANTS
  Crates,         \* the crates of the translation table
  EventCount,     \* run.event_count
  WorkerCount,    \* events that can be in work at once (-nthreads)
  FrameCapacity,  \* samples a frame may hold (65500 in the code)
  Inputs          \* runs to consider: a clock, the hits of every event, and
                  \* whether the service hands them over in event order

Events == 0..(EventCount - 1)

ASSUME RunAssumption ==
  /\ Crates \subseteq 0..MaxCrate
  /\ EventCount \in Nat
  /\ WorkerCount \in Nat \ {0}
  /\ FrameCapacity \in Nat \ {0}

(* A frame of this size cannot overflow the slot directory, whatever slots *)
(* its samples are in (65500 + 2 + 2 * 15 words against 65535).            *)
ASSUME CapacityAssumption == FrameCapacity + 2 + 2 * MaxSlot <= DirectoryLimit

(* Every address the table can hand out belongs to a known crate.          *)
ASSUME InputAssumption ==
  \A given \in Inputs :
    /\ given.clock \in Clock
    /\ given.hits \in [Events -> Seq(Hit)]
    /\ given.inOrder \in BOOLEAN
    /\ \A e \in Events : \A k \in 1..Len(given.hits[e]) :
         Addressable(given.hits[e][k].address) => given.hits[e][k].address.crate \in Crates

VARIABLES
  clock, hits, inOrder,  \* the input of the run, never changed
  run,          \* "refused" | "running" | "completed" | "failed" | "interrupted"
  status,       \* of every event: "queued" | "active" | "complete" | "failed"
  streamed,     \* of every event, the hits already given to stream_hit
  pending,      \* payloads emitted and not yet handed to their crate
  published,    \* the last progress bound
  inbox,        \* messages on their way to every crate thread
  phase,        \* what every crate thread is doing, or how it ended
  safe,         \* argument of every crate's latest advance_time
  frames,       \* of every crate, the open frames: frame id -> samples
  file          \* of every crate, the frames given to its stream, in order;
                \* after that has failed, those that are whole on disk

input == <<clock, hits, inOrder>>
worker == <<status, streamed>>
service == <<pending, published>>
crate == <<phase, safe, frames, file>>
vars == <<clock, hits, inOrder, run, status, streamed, pending, published, inbox, phase, safe, frames, file>>

(* A file is torn when a part of a record follows its last whole frame.    *)
Failures == {"rejected", "overfull", "unwritable", "torn"}
Ended == {"completed", "interrupted"} \cup Failures

PayloadMessage(p) == [kind |-> "payload", payload |-> p]
AdvanceMessage(bound) == [kind |-> "advance", bound |-> bound]

Init ==
  /\ \E given \in Inputs :
       clock = given.clock /\ hits = given.hits /\ inOrder = given.inOrder
  /\ run = IF RunAccepted(clock, EventCount) THEN "running" ELSE "refused"
  /\ status = [e \in Events |-> "queued"]
  /\ streamed = [e \in Events |-> 0]
  /\ pending = {}
  /\ published = EarliestRemaining(clock, 0)
  /\ inbox = [c \in Crates |-> <<>>]
  /\ phase = [c \in Crates |-> "unopened"]
  /\ safe = [c \in Crates |-> EarliestRemaining(clock, 0)]
  /\ frames = [c \in Crates |-> <<>>]
  /\ file = [c \in Crates |-> <<>>]

-----------------------------------------------------------------------------
(* Worker threads.                                                         *)

Active == {e \in Events : status[e] = "active"}

(* GEMC gives an event to an idle worker, in any order.                    *)
Claim(e) ==
  /\ run = "running"
  /\ status[e] = "queued"
  /\ Cardinality(Active) < WorkerCount
  /\ status' = [status EXCEPT ![e] = "active"]
  /\ UNCHANGED <<input, run, streamed, service, inbox, crate>>

NextHit(e) == hits[e][streamed[e] + 1]

HasHit(e) == status[e] = "active" /\ streamed[e] < Len(hits[e])

(* stream_hit emits a payload for the event's next hit.                    *)
StreamHit(e) ==
  /\ HasHit(e)
  /\ Emitted(clock, e, NextHit(e))
  /\ pending' = pending \cup {Payload(clock, e, streamed[e] + 1, NextHit(e))}
  /\ streamed' = [streamed EXCEPT ![e] = @ + 1]
  /\ UNCHANGED <<input, run, status, published, inbox, crate>>

(* stream_hit returns without one.                                         *)
DropHit(e) ==
  /\ HasHit(e)
  /\ Dropped(clock, e, NextHit(e))
  /\ streamed' = [streamed EXCEPT ![e] = @ + 1]
  /\ UNCHANGED <<input, run, status, service, inbox, crate>>

(* stream_hit throws: the event is abandoned and the run fails.            *)
RejectHit(e) ==
  /\ HasHit(e)
  /\ Rejected(clock, e, NextHit(e))
  /\ status' = [status EXCEPT ![e] = "failed"]
  /\ run' = "failed"
  /\ UNCHANGED <<input, streamed, service, inbox, crate>>

CompleteEvent(e) ==
  /\ status[e] = "active"
  /\ streamed[e] = Len(hits[e])
  /\ status' = [status EXCEPT ![e] = "complete"]
  /\ UNCHANGED <<input, run, streamed, service, inbox, crate>>

-----------------------------------------------------------------------------
(* GEMC's readout service.                                                 *)

Delivered(e) == status[e] = "complete" /\ \A p \in pending : p.event # e

(* One payload is handed to its crate.  In order means all of the earlier  *)
(* events first, and within an event the order in which it was emitted.    *)
MayRelease(p) ==
  inOrder => /\ \A d \in 0..(p.event - 1) : Delivered(d)
             /\ \A q \in pending : q.event = p.event => p.sequence <= q.sequence

Release(p) ==
  /\ MayRelease(p)
  /\ pending' = pending \ {p}
  /\ inbox' = [inbox EXCEPT ![p.crate] = Append(@, PayloadMessage(p))]
  /\ UNCHANGED <<input, run, worker, published, crate>>

(* Events [0, first) are fully delivered and event first is not.           *)
FirstRemaining(first) ==
  /\ \A d \in 0..(first - 1) : Delivered(d)
  /\ first # EventCount => ~Delivered(first)

(* A bound that has moved is sent to every crate.                          *)
PublishProgress ==
  \E first \in 0..EventCount :
    /\ FirstRemaining(first)
    /\ EarliestRemaining(clock, first) > published
    /\ published' = EarliestRemaining(clock, first)
    /\ inbox' = [c \in Crates |-> Append(inbox[c], AdvanceMessage(EarliestRemaining(clock, first)))]
    /\ UNCHANGED <<input, run, worker, pending, crate>>

(* All events are delivered and the last bound is out.                     *)
EndRun ==
  /\ run = "running"
  /\ \A e \in Events : Delivered(e)
  /\ published = EarliestRemaining(clock, EventCount)
  /\ run' = "completed"
  /\ UNCHANGED <<input, worker, service, inbox, crate>>

(* The user stops the run.                                                 *)
Interrupt ==
  /\ run = "running"
  /\ run' = "interrupted"
  /\ UNCHANGED <<input, worker, service, inbox, crate>>

-----------------------------------------------------------------------------
(* Crate threads: the sink is opened, written and closed on its own thread.*)

Fail(c, how) ==
  /\ phase' = [phase EXCEPT ![c] = how]
  /\ run' = "failed"

(* BinarySink's constructor opens the file and writes the preamble.        *)
OpenSink(c) ==
  /\ run # "refused"
  /\ phase[c] = "unopened"
  /\ \/ phase' = [phase EXCEPT ![c] = "receive"] /\ UNCHANGED run
     \/ Fail(c, "unwritable")
  /\ UNCHANGED <<input, worker, service, inbox, safe, frames, file>>

Receiving(c, kind) ==
  /\ phase[c] = "receive"
  /\ inbox[c] # <<>>
  /\ Head(inbox[c]).kind = kind
  /\ inbox' = [inbox EXCEPT ![c] = Tail(@)]

(* The checks of consume_payload on the envelope and its payload.          *)
EnvelopeValid(c, p) ==
  /\ p.crate = c
  /\ p.data.crate = c
  /\ p.time >= 0
  /\ p.data.time = p.time % FrameDuration

SamplesOf(c, id) == IF id \in DOMAIN frames[c] THEN frames[c][id] ELSE <<>>

(* Mutant: a new sample goes to the front.                                 *)
Filed_AtFront(c, id, p) ==
  [k \in DOMAIN frames[c] \cup {id} |->
     IF k = id THEN <<p>> \o SamplesOf(c, id) ELSE frames[c][k]]

Filed(c, id, p) ==
  [k \in DOMAIN frames[c] \cup {id} |->
     IF k = id THEN Append(SamplesOf(c, id), p) ELSE frames[c][k]]

ConsumePayload(c) ==
  /\ Receiving(c, "payload")
  /\ LET p == Head(inbox[c]).payload
         id == FrameOf(p.time)
     IN  /\ EnvelopeValid(c, p)
         /\ Len(SamplesOf(c, id)) < FrameCapacity
         /\ frames' = [frames EXCEPT ![c] = Filed(c, id, p)]
  /\ UNCHANGED <<input, run, worker, service, phase, safe, file>>

(* consume_payload throws on a payload that does not match its envelope,   *)
(* and then on a frame that is already full.                               *)
RefusePayload(c) ==
  /\ Receiving(c, "payload")
  /\ LET p == Head(inbox[c]).payload
     IN  \/ /\ ~EnvelopeValid(c, p)
            /\ Fail(c, "rejected")
         \/ /\ EnvelopeValid(c, p)
            /\ Len(SamplesOf(c, FrameOf(p.time))) >= FrameCapacity
            /\ Fail(c, "overfull")
  /\ UNCHANGED <<input, worker, service, safe, frames, file>>

(* advance_time starts its loop over the open frames.                      *)
BeginAdvance(c) ==
  /\ Receiving(c, "advance")
  /\ safe' = [safe EXCEPT ![c] = Head(inbox[c]).bound]
  /\ phase' = [phase EXCEPT ![c] = "advance"]
  /\ UNCHANGED <<input, run, worker, service, frames, file>>

Lowest(c, id) == id \in DOMAIN frames[c] /\ \A k \in DOMAIN frames[c] : id <= k

(* Mutant: the open frames are not visited in order.                       *)
MayWrite_Unordered(c, id) == FrameEnd(id) <= safe[c]

(* Mutant: a frame that ends exactly at the bound is kept back.            *)
MayWrite_Strict(c, id) == Lowest(c, id) /\ FrameEnd(id) < safe[c]

(* Mutant: a frame is written once the bound has reached its beginning.    *)
MayWrite_Begun(c, id) == Lowest(c, id) /\ FrameBegin(id) <= safe[c]

MayWrite(c, id) == Lowest(c, id) /\ FrameEnd(id) <= safe[c]

(* Mutant: the frame that is written stays in the map.                     *)
Extracted_Kept(c, id) == frames[c]

Extracted(c, id) == [k \in DOMAIN frames[c] \ {id} |-> frames[c][k]]

Frame(c, id) ==
  [crate |-> c, id |-> id, begin |-> FrameBegin(id), end |-> FrameEnd(id),
   samples |-> frames[c][id]]

(* One turn of the loop: the lowest frame leaves the map and is written.   *)
WriteFrame(c) ==
  /\ phase[c] = "advance"
  /\ \E id \in DOMAIN frames[c] :
       /\ MayWrite(c, id)
       /\ Encodable(Frame(c, id))
       /\ frames' = [frames EXCEPT ![c] = Extracted(c, id)]
       /\ file' = [file EXCEPT ![c] = Append(@, Frame(c, id))]
  /\ UNCHANGED <<input, run, worker, service, inbox, phase, safe>>

(* The stream throws. It buffers: of the records given to it, some from    *)
(* the first on are on disk, and the next one may be there in part.        *)
StreamFails(c, given) ==
  \E n \in 0..Len(file[c]), how \in {"unwritable", "torn"} :
    /\ how = "torn" => n < given
    /\ file' = [file EXCEPT ![c] = SubSeq(@, 1, n)]
    /\ Fail(c, how)

(* The encoder throws, or the stream does: the frame has already left the  *)
(* map.                                                                    *)
WriteFails(c) ==
  /\ phase[c] = "advance"
  /\ \E id \in DOMAIN frames[c] :
       /\ MayWrite(c, id)
       /\ frames' = [frames EXCEPT ![c] = Extracted(c, id)]
       /\ \/ ~Encodable(Frame(c, id)) /\ Fail(c, "rejected") /\ UNCHANGED file
          \/ Encodable(Frame(c, id)) /\ StreamFails(c, Len(file[c]) + 1)
  /\ UNCHANGED <<input, worker, service, inbox, safe>>

(* Mutant: the loop ends only when no frame is left.                       *)
EndAdvance_Emptied(c) ==
  /\ phase[c] = "advance"
  /\ DOMAIN frames[c] = {}
  /\ phase' = [phase EXCEPT ![c] = "receive"]
  /\ UNCHANGED <<input, run, worker, service, inbox, safe, frames, file>>

(* Mutant: the loop may stop while the bound covers another frame.         *)
EndAdvance_Early(c) ==
  /\ phase[c] = "advance"
  /\ phase' = [phase EXCEPT ![c] = "receive"]
  /\ UNCHANGED <<input, run, worker, service, inbox, safe, frames, file>>

(* No frame is left, or the lowest one ends after the bound.               *)
EndAdvance(c) ==
  /\ phase[c] = "advance"
  /\ \A id \in DOMAIN frames[c] : Lowest(c, id) => FrameEnd(id) > safe[c]
  /\ phase' = [phase EXCEPT ![c] = "receive"]
  /\ UNCHANGED <<input, run, worker, service, inbox, safe, frames, file>>

(* A crate is told to finish after the last message of a completed run, or *)
(* at any message of a failed or interrupted one.                          *)
MayFinish(c, how) ==
  \/ how = "completed" /\ run = "completed" /\ inbox[c] = <<>>
  \/ how = "interrupted" /\ run \in {"failed", "interrupted"}

(* finish_run discards the open frames, finish_output closes the file and  *)
(* may fail to.                                                            *)
FinishRun(c) ==
  /\ phase[c] = "receive"
  /\ frames' = [frames EXCEPT ![c] = <<>>]
  /\ \E how \in {"completed", "interrupted"} :
       /\ MayFinish(c, how)
       /\ \/ phase' = [phase EXCEPT ![c] = how] /\ UNCHANGED <<run, file>>
          \/ StreamFails(c, Len(file[c]))
  /\ UNCHANGED <<input, worker, service, inbox, safe>>

-----------------------------------------------------------------------------
(* All crate threads are done, or none was started: the process exits.     *)
Over == run = "refused" \/ \A c \in Crates : phase[c] \in Ended

Stop == Over /\ UNCHANGED vars

Worker(e) == StreamHit(e) \/ DropHit(e) \/ RejectHit(e) \/ CompleteEvent(e)

Service == (\E p \in pending : Release(p)) \/ PublishProgress \/ EndRun

CrateThread(c) ==
  \/ OpenSink(c) \/ ConsumePayload(c) \/ RefusePayload(c) \/ BeginAdvance(c)
  \/ WriteFrame(c) \/ WriteFails(c) \/ EndAdvance(c) \/ FinishRun(c)

Step ==
  \/ \E e \in Events : Claim(e) \/ Worker(e)
  \/ Service
  \/ \E c \in Crates : CrateThread(c)
  \/ Interrupt

Next == (~Over /\ Step) \/ Stop

Spec == Init /\ [][Next]_vars

(* The service and the crate threads run, whatever becomes of the workers. *)
ReadoutFairness ==
  /\ WF_vars(Service)
  /\ \A c \in Crates : WF_vars(CrateThread(c))

(* So do the workers, unless the machine starves them.  Nothing obliges a  *)
(* user to interrupt.                                                      *)
WorkerFairness ==
  /\ \A e \in Events : WF_vars(Worker(e))
  /\ WF_vars(\E e \in Events : Claim(e))

ReadoutSpec == Spec /\ ReadoutFairness
=============================================================================
