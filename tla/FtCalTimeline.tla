---------------------------- MODULE FtCalTimeline ----------------------------
(***************************************************************************)
(* The acquisition clock over a whole run, up to the end of the 64-bit     *)
(* range: the service asks for the bound of the remaining events, one      *)
(* after the other, while workers stream hits of any of those events.      *)
(* SroRun shows what the threads do with these times; this module is about *)
(* the times alone, at the limits where an addition could wrap.            *)
(***************************************************************************)
EXTENDS FtCalStream

CONSTANTS
  Clocks,  \* clocks to consider
  Counts,  \* event counts to consider
  Hits     \* hits to consider

ASSUME TimelineAssumption ==
  Clocks \subseteq Clock /\ Counts \subseteq Nat /\ Hits \subseteq Hit

VARIABLES
  timing, total,  \* the run configure_run was given
  remaining,         \* the events before it are fully delivered
  lastEvent, lastHit     \* the latest call of stream_hit

timelineVars == <<timing, total, remaining, lastEvent, lastHit>>

(* configure_run has accepted the run.                                     *)
ConfigureRun ==
  /\ timing \in Clocks
  /\ total \in Counts
  /\ RunAccepted(timing, total)
  /\ remaining = 0
  /\ lastEvent = 0
  /\ lastHit \in Hits

(* The next event is delivered and earliest_remaining_time asked again.    *)
AskBound ==
  /\ remaining < total
  /\ remaining' = remaining + 1
  /\ UNCHANGED <<timing, total, lastEvent, lastHit>>

(* A worker streams a hit of an event that is not delivered yet.           *)
Stream ==
  /\ lastEvent' \in remaining..(total - 1)
  /\ lastHit' \in Hits
  /\ UNCHANGED <<timing, total, remaining>>

TimelineNext == AskBound \/ Stream

TimelineSpec == ConfigureRun /\ [][TimelineNext]_timelineVars

-----------------------------------------------------------------------------
TimelineTypeOK ==
  /\ timing \in Clocks
  /\ total \in Counts
  /\ RunAccepted(timing, total)
  /\ remaining \in 0..total
  /\ lastEvent \in Nat
  /\ lastHit \in Hits

(* "The progress bound after events [0, first) are fully delivered"        *)
(* (sro/README.md): while an event remains, no payload stream_hit emits    *)
(* for it or for a later one precedes earliest_remaining_time.             *)
BoundIsHonest ==
  lastEvent >= remaining /\ Emitted(timing, lastEvent, lastHit) =>
    EarliestRemaining(timing, remaining) <= ArrivalTime(timing, lastEvent, lastHit)

(* advance_time computes the end of every open frame in 64 bits: the frame *)
(* of an emitted payload always ends at or below the largest time.         *)
FrameStaysRepresentable ==
  Emitted(timing, lastEvent, lastHit) =>
    FrameEnd(FrameOf(ArrivalTime(timing, lastEvent, lastHit))) <= TimeMax

(* "Reject an overflowing timeline before any worker starts"               *)
(* (sro_implementation.cc): in an accepted run earliest_remaining_time     *)
(* never throws, not even for the bound after the last event.              *)
BoundNeverOverflows == StartFits(timing, remaining)
=============================================================================
