---------------------------- MODULE PhotonCache ----------------------------
(***************************************************************************)
(* The Cherenkov counters (LTCC and HTCC) decide at a photon's step with   *)
(* which probability it will be detected and apply the decision when the   *)
(* hit is digitized, at the end of the event. In between, the probability  *)
(* waits in a map of the worker thread, by photomultiplier and track       *)
(* number. Track numbers start again in every event; nothing empties the   *)
(* map but the digitization of the photon's hit.                           *)
(*                                                                         *)
(* A probability is known here by the event whose step stored it.          *)
(***************************************************************************)
EXTENDS Integers

CONSTANTS
  Workers,    \* worker threads
  Pmts,       \* photomultipliers, the identity of a hit
  Cells,      \* time cells: steps of one identity and cell share a hit
  Tracks,     \* track numbers, reused by every event
  Unusable,   \* photomultipliers out of range or with no TDC conversion
  MaxEvents   \* bound: events of the run

ASSUME PhotonAssumption ==
  /\ Unusable \subseteq Pmts
  /\ MaxEvents \in Nat

VARIABLES
  events,   \* events begun so far, in the whole run
  event,    \* worker |-> number of its event, 0 between events
  phase,    \* worker |-> stepping, or digitizing its event
  kind,     \* worker |-> track |-> what the track is, once it has stepped
  hits,     \* worker |-> hit |-> its first step's particle and its tracks
  cache,    \* worker |-> photomultiplier and track |-> event, or Absent
  counted   \* the tracks that went into a signal, with the event and the
            \* probability used

vars == <<events, event, phase, kind, hits, cache, counted>>

Absent == 0

Keys == Pmts \X Tracks

NoHit == [first |-> "none", tracks |-> {}]

NoHits == [h \in Pmts \X Cells |-> NoHit]

Init ==
  /\ events = 0
  /\ event = [w \in Workers |-> 0]
  /\ phase = [w \in Workers |-> "idle"]
  /\ kind = [w \in Workers |-> [t \in Tracks |-> "unborn"]]
  /\ hits = [w \in Workers |-> NoHits]
  /\ cache = [w \in Workers |-> [k \in Keys |-> Absent]]
  /\ counted = {}

BeginEvent(w) ==
  /\ phase[w] = "idle"
  /\ events < MaxEvents
  /\ events' = events + 1
  /\ event' = [event EXCEPT ![w] = events + 1]
  /\ phase' = [phase EXCEPT ![w] = "stepping"]
  /\ UNCHANGED <<kind, hits, cache, counted>>

-----------------------------------------------------------------------------
(* The map is thread_local: each worker has its own.                       *)
MapOf_Shared(w) == CHOOSE v \in Workers : TRUE

MapOf(w) == w

(* processTouchableImpl assigns: what an earlier event left is replaced.   *)
Stored(w, key) == event[w]

(* A photon is stopped by its hit (shouldStopTrackAfterHitImpl).           *)
AfterPhotonStep_Goes == "photon"

AfterPhotonStep == "stopped"

JoinHit(w, h, particle, t) ==
  hits' = [hits EXCEPT ![w][h] =
    [first |-> IF @.first = "none" THEN particle ELSE @.first,
     tracks |-> @.tracks \cup {t}]]

PhotonStep(w, t, h) ==
  /\ phase[w] = "stepping"
  /\ kind[w][t] \in {"unborn", "photon"}
  /\ LET key == <<h[1], t>> IN
       cache' = [cache EXCEPT ![MapOf(w)][key] = Stored(w, key)]
  /\ JoinHit(w, h, "photon", t)
  /\ kind' = [kind EXCEPT ![w][t] = AfterPhotonStep]
  /\ UNCHANGED <<events, event, phase, counted>>

(* Any other particle with enough energy makes hits too, and goes on.      *)
OtherStep(w, t, h) ==
  /\ phase[w] = "stepping"
  /\ kind[w][t] \in {"unborn", "other"}
  /\ JoinHit(w, h, "other", t)
  /\ kind' = [kind EXCEPT ![w][t] = "other"]
  /\ UNCHANGED <<events, event, phase, cache, counted>>

EndStepping(w) ==
  /\ phase[w] = "stepping"
  /\ phase' = [phase EXCEPT ![w] = "digitizing"]
  /\ UNCHANGED <<events, event, kind, hits, cache, counted>>

-----------------------------------------------------------------------------
(* digitizeHitImpl: a hit of no use, or begun by another particle, returns *)
(* early and leaves the map alone; else every track of the hit looks its   *)
(* probability up, takes it out, and without one is counted for certain.   *)

Lookups(w, h) == {<<h[1], t>> : t \in hits[w][h].tracks}

Signals(w, h) == h[1] \notin Unusable /\ hits[w][h].first = "photon"

Erased(w, h) == [k \in Keys |->
  IF k \in Lookups(w, h) THEN Absent ELSE cache[MapOf(w)][k]]

Digitize(w, h) ==
  /\ phase[w] = "digitizing"
  /\ hits[w][h] # NoHit
  /\ hits' = [hits EXCEPT ![w][h] = NoHit]
  /\ IF Signals(w, h)
       THEN /\ counted' = counted \cup
                 {[event |-> event[w], hit |-> h, track |-> k[2],
                   kind |-> kind[w][k[2]], from |-> cache[MapOf(w)][k]] :
                  k \in Lookups(w, h)}
            /\ cache' = [cache EXCEPT ![MapOf(w)] = Erased(w, h)]
       ELSE UNCHANGED <<counted, cache>>
  /\ UNCHANGED <<events, event, phase, kind>>

EndEvent(w) ==
  /\ phase[w] = "digitizing"
  /\ hits[w] = NoHits
  /\ phase' = [phase EXCEPT ![w] = "idle"]
  /\ event' = [event EXCEPT ![w] = 0]
  /\ kind' = [kind EXCEPT ![w] = [t \in Tracks |-> "unborn"]]
  /\ UNCHANGED <<events, hits, cache, counted>>

Next == \E w \in Workers :
  \/ BeginEvent(w)
  \/ EndStepping(w)
  \/ EndEvent(w)
  \/ \E h \in Pmts \X Cells :
       \/ Digitize(w, h)
       \/ \E t \in Tracks : PhotonStep(w, t, h) \/ OtherStep(w, t, h)

Spec == Init /\ [][Next]_vars

-----------------------------------------------------------------------------
(* A photon is weighed with the probability its own step stored in its own *)
(* event: never another event's under the same track number, never another *)
(* worker's, and never none, whatever earlier events left in the map.      *)
OwnProbability ==
  \A c \in counted : c.kind # "other" => c.from = c.event

(* A photon goes into one signal of its event at most, although the map    *)
(* does not tell time cells apart: its hit was its last step, and what it  *)
(* had stored for its photomultiplier is gone from every worker's map.     *)
PhotonCountedOnce ==
  /\ \A c, d \in counted :
       c.kind # "other" /\ c.event = d.event /\ c.track = d.track => c.hit = d.hit
  /\ \A c \in counted, w \in Workers : cache[w][<<c.hit[1], c.track>>] # c.event
=============================================================================
