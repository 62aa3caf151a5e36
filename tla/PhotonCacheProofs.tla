-------------------------- MODULE PhotonCacheProofs --------------------------
(***************************************************************************)
(* A photon is weighed with its own probability, and once, for any number  *)
(* of workers, photomultipliers, time cells, tracks and events.            *)
(***************************************************************************)
EXTENDS PhotonCache, TLAPS

(* Why the map may outlive its event. Every stopped track of a worker's    *)
(* event is in one hit, and its probability is in the map until that hit   *)
(* is digitized; what is left over names an event that is over.            *)

Entry == [event : Nat, hit : Pmts \X Cells, track : Tracks,
          kind : {"photon", "stopped", "other", "unborn"}, from : Nat]

TypeInv ==
  /\ events \in Nat
  /\ event \in [Workers -> Nat]
  /\ phase \in [Workers -> {"idle", "stepping", "digitizing"}]
  /\ kind \in [Workers -> [Tracks -> {"unborn", "photon", "stopped", "other"}]]
  /\ hits \in [Workers -> [Pmts \X Cells ->
       [first : {"none", "photon", "other"}, tracks : SUBSET Tracks]]]
  /\ cache \in [Workers -> [Keys -> Nat]]
  /\ counted \subseteq Entry

EventsInv ==
  /\ \A w \in Workers : event[w] <= events /\ (event[w] = 0 <=> phase[w] = "idle")
  /\ \A v, w \in Workers : event[v] = event[w] /\ event[v] # 0 => v = w
  /\ \A w \in Workers, k \in Keys : cache[w][k] <= events
  /\ \A v, w \in Workers, k \in Keys :
       cache[v][k] = event[w] /\ event[w] # 0 => v = w
  /\ \A c \in counted : c.event # 0 /\ c.event <= events

HitsInv == \A w \in Workers, h \in Pmts \X Cells :
  /\ phase[w] = "idle" => hits[w][h] = NoHit
  /\ \A t \in hits[w][h].tracks :
       /\ kind[w][t] \in {"stopped", "other"}
       /\ kind[w][t] = "stopped" =>
            /\ cache[w][<<h[1], t>>] = event[w]
            /\ \A g \in Pmts \X Cells : t \in hits[w][g].tracks => g = h

CountedInv == \A c \in counted, w \in Workers : c.event = event[w] =>
  /\ phase[w] = "digitizing"
  /\ c.kind = kind[w][c.track]
  /\ c.kind # "other" => \A h \in Pmts \X Cells : c.track \notin hits[w][h].tracks

Inv == TypeInv /\ EventsInv /\ HitsInv /\ CountedInv /\ OwnProbability
         /\ PhotonCountedOnce

-----------------------------------------------------------------------------
(* Nothing is in any map, hit or signal before the first event.            *)
LEMMA InitInv == Init => Inv
<1> SUFFICES ASSUME Init PROVE Inv
  OBVIOUS
<1> USE DEF Init, NoHits, NoHit, Keys, Absent
<1>1. TypeInv
  BY DEF TypeInv
<1>2. EventsInv
  BY DEF EventsInv
<1>3. HitsInv
  BY DEF HitsInv
<1>4. CountedInv /\ OwnProbability /\ PhotonCountedOnce
  BY DEF CountedInv, OwnProbability, PhotonCountedOnce
<1> QED
  BY <1>1, <1>2, <1>3, <1>4 DEF Inv

(* The number of a new event is above every number in every map.           *)
LEMMA BeginEventInv ==
  ASSUME Inv, NEW w \in Workers, BeginEvent(w)
  PROVE  Inv'
<1> USE DEF Inv, BeginEvent
<1>1. TypeInv'
  <2>1. events' \in Nat /\ event' \in [Workers -> Nat]
    BY DEF TypeInv
  <2>2. phase' \in [Workers -> {"idle", "stepping", "digitizing"}]
    BY DEF TypeInv
  <2> QED
    BY <2>1, <2>2 DEF TypeInv
<1>2. \A v \in Workers : event'[v] = IF v = w THEN events + 1 ELSE event[v]
  BY DEF TypeInv
<1>3. \A v \in Workers : phase'[v] = IF v = w THEN "stepping" ELSE phase[v]
  BY DEF TypeInv
<1>4. EventsInv'
  <2>1. \A v \in Workers : event'[v] <= events' /\ (event'[v] = 0 <=> phase'[v] = "idle")
    BY <1>2, <1>3 DEF TypeInv, EventsInv
  <2>2. \A u, v \in Workers : event'[u] = event'[v] /\ event'[u] # 0 => u = v
    BY <1>2 DEF TypeInv, EventsInv
  <2>3. \A v \in Workers, k \in Keys : cache'[v][k] <= events' /\ cache[v][k] # events + 1
    BY DEF TypeInv, EventsInv
  <2>4. \A u, v \in Workers, k \in Keys :
          cache'[u][k] = event'[v] /\ event'[v] # 0 => u = v
    BY <1>2, <2>3 DEF EventsInv
  <2>5. \A c \in counted' : c.event # 0 /\ c.event <= events'
    BY DEF TypeInv, EventsInv, Entry
  <2> QED
    BY <2>1, <2>2, <2>3, <2>4, <2>5 DEF EventsInv
<1>5. HitsInv'
  BY <1>2, <1>3 DEF HitsInv, NoHit
<1>6. \A c \in counted, v \in Workers : c.event = event'[v] => v # w
  BY <1>2 DEF TypeInv, EventsInv, Entry
<1>7. CountedInv'
  BY <1>2, <1>3, <1>6 DEF CountedInv
<1>8. OwnProbability' /\ PhotonCountedOnce'
  BY DEF OwnProbability, PhotonCountedOnce
<1> QED
  BY <1>1, <1>4, <1>5, <1>7, <1>8

(* What a step adds to the hit it falls into.                              *)
Joined(w, t, h) ==
  /\ hits' \in [Workers -> [Pmts \X Cells ->
       [first : {"none", "photon", "other"}, tracks : SUBSET Tracks]]]
  /\ \A v \in Workers, g \in Pmts \X Cells : v # w \/ g # h => hits'[v][g] = hits[v][g]
  /\ hits'[w][h].tracks = hits[w][h].tracks \cup {t}

(* Whoever begins a hit, a step adds its own track and nothing else.       *)
LEMMA JoinHitEffect ==
  ASSUME TypeInv, NEW w \in Workers, NEW t \in Tracks, NEW h \in Pmts \X Cells,
         NEW p \in {"photon", "other"}, JoinHit(w, h, p, t)
  PROVE  Joined(w, t, h)
<1>1. hits[w] \in [Pmts \X Cells ->
        [first : {"none", "photon", "other"}, tracks : SUBSET Tracks]]
  BY DEF TypeInv
<1> DEFINE joined == [first |-> IF hits[w][h].first = "none" THEN p ELSE hits[w][h].first,
                      tracks |-> hits[w][h].tracks \cup {t}]
<1>2. joined \in [first : {"none", "photon", "other"}, tracks : SUBSET Tracks]
  BY <1>1
<1>3. hits' = [hits EXCEPT ![w][h] = joined]
  BY DEF JoinHit
<1>4. joined.tracks = hits[w][h].tracks \cup {t}
  OBVIOUS
<1> HIDE DEF joined
<1> QED
  BY <1>1, <1>2, <1>3, <1>4 DEF TypeInv, Joined

(* A photon that steps was in no hit: its only hit is this one, and its    *)
(* probability is stored under its photomultiplier.                        *)
LEMMA PhotonStepInv ==
  ASSUME Inv, NEW w \in Workers, NEW t \in Tracks, NEW h \in Pmts \X Cells,
         PhotonStep(w, t, h)
  PROVE  Inv'
<1> DEFINE key == <<h[1], t>>
<1>1. key \in Keys /\ h[1] \in Pmts
  BY DEF Keys
<1>2. /\ TypeInv /\ EventsInv /\ HitsInv /\ CountedInv
      /\ OwnProbability /\ PhotonCountedOnce
  BY DEF Inv
<1>3. /\ phase[w] = "stepping" /\ kind[w][t] \in {"unborn", "photon"}
      /\ cache' = [cache EXCEPT ![w][key] = event[w]]
      /\ JoinHit(w, h, "photon", t)
      /\ kind' = [kind EXCEPT ![w][t] = "stopped"]
      /\ UNCHANGED <<events, event, phase, counted>>
  BY DEF PhotonStep, MapOf, Stored, AfterPhotonStep
<1> HIDE DEF key
<1>4. \A v \in Workers, k \in Keys :
        cache'[v][k] = IF v = w /\ k = key THEN event[w] ELSE cache[v][k]
  BY <1>1, <1>2, <1>3 DEF TypeInv
<1>5. \A v \in Workers, s \in Tracks :
        kind'[v][s] = IF v = w /\ s = t THEN "stopped" ELSE kind[v][s]
  BY <1>2, <1>3 DEF TypeInv
<1>6. Joined(w, t, h)
  <2>1. "photon" \in {"photon", "other"}
    OBVIOUS
  <2> QED
    BY <1>2, <1>3, <2>1, JoinHitEffect
<1> USE DEF Joined
<1>7. TypeInv'
  BY <1>1, <1>2, <1>3, <1>6 DEF TypeInv
<1>8. EventsInv'
  BY <1>2, <1>3, <1>4 DEF TypeInv, EventsInv
<1>9. \A g \in Pmts \X Cells : t \notin hits[w][g].tracks
  BY <1>2, <1>3 DEF HitsInv
<1>10. HitsInv'
  <2> SUFFICES ASSUME NEW v \in Workers, NEW g \in Pmts \X Cells
               PROVE  /\ phase'[v] = "idle" => hits'[v][g] = NoHit
                      /\ \A s \in hits'[v][g].tracks :
                           /\ kind'[v][s] \in {"stopped", "other"}
                           /\ kind'[v][s] = "stopped" =>
                                /\ cache'[v][<<g[1], s>>] = event'[v]
                                /\ \A f \in Pmts \X Cells :
                                     s \in hits'[v][f].tracks => f = g
    BY DEF HitsInv
  <2>1. phase'[v] = "idle" => hits'[v][g] = NoHit
    <3> SUFFICES ASSUME phase[v] = "idle" PROVE hits'[v][g] = NoHit
      BY <1>2, <1>3
    <3>1. v # w /\ hits[v][g] = NoHit
      BY <1>2, <1>3 DEF HitsInv
    <3> QED
      BY <1>6, <3>1
  <2> SUFFICES ASSUME NEW s \in hits'[v][g].tracks
               PROVE  /\ kind'[v][s] \in {"stopped", "other"}
                      /\ kind'[v][s] = "stopped" =>
                           /\ cache'[v][<<g[1], s>>] = event'[v]
                           /\ \A f \in Pmts \X Cells : s \in hits'[v][f].tracks => f = g
    BY <2>1
  <2>2. s \in Tracks /\ g[1] \in Pmts /\ <<g[1], s>> \in Keys
    BY <1>6 DEF Keys
  <2>3. CASE v = w /\ s = t
    <3>1. g = h
      BY <1>6, <1>9, <2>3
    <3> QED
      BY <1>1, <1>3, <1>4, <1>5, <1>6, <1>9, <2>3, <3>1 DEF key
  <2>4. CASE ~(v = w /\ s = t)
    <3>1. \A f \in Pmts \X Cells : s \in hits'[v][f].tracks <=> s \in hits[v][f].tracks
      BY <1>6, <2>4
    <3>2. kind'[v][s] = kind[v][s]
      BY <1>5, <2>2, <2>4
    <3>3. v # w \/ <<g[1], s>> # key
      BY <2>4 DEF key
    <3>4. cache'[v][<<g[1], s>>] = cache[v][<<g[1], s>>]
      BY <1>4, <2>2, <3>3
    <3> QED
      BY <1>2, <1>3, <3>1, <3>2, <3>4 DEF HitsInv
  <2> QED
    BY <2>3, <2>4
<1>11. \A c \in counted : c.event # event[w] /\ c.track \in Tracks
  BY <1>2, <1>3 DEF CountedInv, TypeInv, Entry
<1>12. CountedInv'
  <2> SUFFICES ASSUME NEW c \in counted, NEW v \in Workers, c.event = event[v]
               PROVE  /\ phase[v] = "digitizing"
                      /\ c.kind = kind'[v][c.track]
                      /\ c.kind # "other" =>
                           \A g \in Pmts \X Cells : c.track \notin hits'[v][g].tracks
    BY <1>3 DEF CountedInv
  <2>1. v # w /\ c.track \in Tracks
    BY <1>11
  <2>2. kind'[v][c.track] = kind[v][c.track]
    BY <1>5, <2>1
  <2>3. \A g \in Pmts \X Cells : hits'[v][g] = hits[v][g]
    BY <1>6, <2>1
  <2> QED
    BY <1>2, <2>2, <2>3 DEF CountedInv
<1>13. OwnProbability'
  BY <1>2, <1>3 DEF OwnProbability
<1>14. PhotonCountedOnce'
  <2>1. \A c \in counted : <<c.hit[1], c.track>> \in Keys
    BY <1>2 DEF TypeInv, Entry, Keys
  <2> QED
    BY <1>2, <1>3, <1>4, <1>11, <2>1 DEF PhotonCountedOnce
<1> QED
  BY <1>7, <1>8, <1>10, <1>12, <1>13, <1>14 DEF Inv

(* Another particle joins a hit and leaves the map alone.                  *)
LEMMA OtherStepInv ==
  ASSUME Inv, NEW w \in Workers, NEW t \in Tracks, NEW h \in Pmts \X Cells,
         OtherStep(w, t, h)
  PROVE  Inv'
<1>1. /\ TypeInv /\ EventsInv /\ HitsInv /\ CountedInv
      /\ OwnProbability /\ PhotonCountedOnce
  BY DEF Inv
<1>2. /\ phase[w] = "stepping" /\ kind[w][t] \in {"unborn", "other"}
      /\ JoinHit(w, h, "other", t)
      /\ kind' = [kind EXCEPT ![w][t] = "other"]
      /\ UNCHANGED <<events, event, phase, cache, counted>>
  BY DEF OtherStep
<1>3. \A v \in Workers, s \in Tracks :
        kind'[v][s] = IF v = w /\ s = t THEN "other" ELSE kind[v][s]
  BY <1>1, <1>2 DEF TypeInv
<1>4. Joined(w, t, h)
  <2>1. "other" \in {"photon", "other"}
    OBVIOUS
  <2> QED
    BY <1>1, <1>2, <2>1, JoinHitEffect
<1> USE DEF Joined
<1>5. TypeInv'
  BY <1>1, <1>2, <1>4 DEF TypeInv
<1>6. EventsInv'
  BY <1>1, <1>2 DEF EventsInv
<1>7. HitsInv'
  <2> SUFFICES ASSUME NEW v \in Workers, NEW g \in Pmts \X Cells
               PROVE  /\ phase'[v] = "idle" => hits'[v][g] = NoHit
                      /\ \A s \in hits'[v][g].tracks :
                           /\ kind'[v][s] \in {"stopped", "other"}
                           /\ kind'[v][s] = "stopped" =>
                                /\ cache'[v][<<g[1], s>>] = event'[v]
                                /\ \A f \in Pmts \X Cells :
                                     s \in hits'[v][f].tracks => f = g
    BY DEF HitsInv
  <2>1. phase'[v] = "idle" => hits'[v][g] = NoHit
    <3> SUFFICES ASSUME phase[v] = "idle" PROVE hits'[v][g] = NoHit
      BY <1>1, <1>2
    <3>1. v # w /\ hits[v][g] = NoHit
      BY <1>1, <1>2 DEF HitsInv
    <3> QED
      BY <1>4, <3>1
  <2> SUFFICES ASSUME NEW s \in hits'[v][g].tracks
               PROVE  /\ kind'[v][s] \in {"stopped", "other"}
                      /\ kind'[v][s] = "stopped" =>
                           /\ cache'[v][<<g[1], s>>] = event'[v]
                           /\ \A f \in Pmts \X Cells : s \in hits'[v][f].tracks => f = g
    BY <2>1
  <2>2. s \in Tracks
    BY <1>4
  <2>3. CASE v = w /\ s = t
    BY <1>3, <2>3
  <2>4. CASE ~(v = w /\ s = t)
    <3>1. \A f \in Pmts \X Cells : s \in hits'[v][f].tracks <=> s \in hits[v][f].tracks
      BY <1>4, <2>4
    <3> QED
      BY <1>1, <1>2, <1>3, <2>2, <2>4, <3>1 DEF HitsInv
  <2> QED
    BY <2>3, <2>4
<1>8. \A c \in counted : c.event # event[w] /\ c.track \in Tracks
  BY <1>1, <1>2 DEF CountedInv, TypeInv, Entry
<1>9. CountedInv'
  <2> SUFFICES ASSUME NEW c \in counted, NEW v \in Workers, c.event = event[v]
               PROVE  /\ phase[v] = "digitizing"
                      /\ c.kind = kind'[v][c.track]
                      /\ c.kind # "other" =>
                           \A g \in Pmts \X Cells : c.track \notin hits'[v][g].tracks
    BY <1>2 DEF CountedInv
  <2>1. v # w /\ c.track \in Tracks
    BY <1>8
  <2>2. kind'[v][c.track] = kind[v][c.track]
    BY <1>3, <2>1
  <2>3. \A g \in Pmts \X Cells : hits'[v][g] = hits[v][g]
    BY <1>4, <2>1
  <2> QED
    BY <1>1, <2>2, <2>3 DEF CountedInv
<1>10. OwnProbability' /\ PhotonCountedOnce'
  BY <1>1, <1>2 DEF OwnProbability, PhotonCountedOnce
<1> QED
  BY <1>5, <1>6, <1>7, <1>9, <1>10 DEF Inv

(* Steps over, the map waits for the hits.                                 *)
LEMMA EndSteppingInv ==
  ASSUME Inv, NEW w \in Workers, EndStepping(w)
  PROVE  Inv'
<1> USE DEF Inv, EndStepping
<1>1. TypeInv'
  BY DEF TypeInv
<1>2. \A v \in Workers : phase'[v] = IF v = w THEN "digitizing" ELSE phase[v]
  BY DEF TypeInv
<1>3. EventsInv'
  BY <1>2 DEF EventsInv
<1>4. HitsInv'
  BY <1>2 DEF HitsInv
<1>5. CountedInv'
  BY <1>2 DEF CountedInv
<1>6. OwnProbability' /\ PhotonCountedOnce'
  BY DEF OwnProbability, PhotonCountedOnce
<1> QED
  BY <1>1, <1>3, <1>4, <1>5, <1>6

(* A hit that is digitized counts each of its photons with the probability *)
(* found for it, and takes that out of the map.                            *)
LEMMA DigitizeInv ==
  ASSUME Inv, NEW w \in Workers, NEW h \in Pmts \X Cells, Digitize(w, h)
  PROVE  Inv'
<1>1. /\ TypeInv /\ EventsInv /\ HitsInv /\ CountedInv
      /\ OwnProbability /\ PhotonCountedOnce
  BY DEF Inv
<1>2. /\ phase[w] = "digitizing"
      /\ hits' = [hits EXCEPT ![w][h] = NoHit]
      /\ UNCHANGED <<events, event, phase, kind>>
  BY DEF Digitize
<1> DEFINE found == [t \in Tracks |->
             [event |-> event[w], hit |-> h, track |-> t,
              kind |-> kind[w][t], from |-> cache[w][<<h[1], t>>]]]
           new == {found[t] : t \in hits[w][h].tracks}
<1>3. /\ hits[w] \in [Pmts \X Cells ->
           [first : {"none", "photon", "other"}, tracks : SUBSET Tracks]]
      /\ hits[w][h].tracks \subseteq Tracks /\ h[1] \in Pmts
      /\ \A t \in Tracks : <<h[1], t>> \in Keys
  <2>1. hits[w] \in [Pmts \X Cells ->
          [first : {"none", "photon", "other"}, tracks : SUBSET Tracks]]
    BY <1>1 DEF TypeInv
  <2>2. h[1] \in Pmts /\ \A t \in Tracks : <<h[1], t>> \in Keys
    BY DEF Keys
  <2> QED
    BY <2>1, <2>2
<1>4. /\ hits' \in [Workers -> [Pmts \X Cells ->
           [first : {"none", "photon", "other"}, tracks : SUBSET Tracks]]]
      /\ \A v \in Workers, g \in Pmts \X Cells :
           hits'[v][g] = IF v = w /\ g = h THEN NoHit ELSE hits[v][g]
  BY <1>1, <1>2, <1>3 DEF TypeInv, NoHit
<1>5. \/ UNCHANGED <<counted, cache>>
      \/ /\ counted' = counted \cup new
         /\ cache' = [cache EXCEPT ![w] = Erased(w, h)]
  <2>1. CASE ~Signals(w, h)
    BY <2>1 DEF Digitize
  <2>2. CASE Signals(w, h)
    <3>1. {[event |-> event[w], hit |-> h, track |-> k[2],
            kind |-> kind[w][k[2]], from |-> cache[w][k]] : k \in Lookups(w, h)} = new
      <4> DEFINE Found(k) == [event |-> event[w], hit |-> h, track |-> k[2],
                              kind |-> kind[w][k[2]], from |-> cache[w][k]]
      <4>1. \A t \in hits[w][h].tracks : Found(<<h[1], t>>) = found[t]
        BY <1>3
      <4> HIDE DEF Found, found
      <4>2. {Found(k) : k \in Lookups(w, h)} = new
        BY <4>1 DEF Lookups
      <4> QED
        BY <4>2 DEF Found
    <3> QED
      BY <2>2, <3>1 DEF Digitize, MapOf
  <2> QED
    BY <2>1, <2>2
<1>6. \A t \in hits[w][h].tracks :
        /\ found[t] \in Entry /\ found[t].event = event[w] /\ found[t].hit = h
        /\ found[t].track = t /\ found[t].kind = kind[w][t]
        /\ found[t].from = cache[w][<<h[1], t>>]
  BY <1>1, <1>3 DEF Entry, TypeInv
<1>7. event[w] # 0 /\ event[w] \in Nat
  BY <1>1, <1>2 DEF EventsInv, TypeInv
<1> HIDE DEF found
<1>8. \A c \in counted' : c \in counted \/
        /\ cache' = [cache EXCEPT ![w] = Erased(w, h)]
        /\ \E t \in hits[w][h].tracks :
             /\ c \in Entry /\ c.event = event[w] /\ c.hit = h /\ c.track = t
             /\ c.kind = kind[w][t] /\ c.from = cache[w][<<h[1], t>>]
  BY <1>5, <1>6
<1> HIDE DEF new
<1>9. /\ cache' \in [Workers -> [Keys -> Nat]]
      /\ \A v \in Workers, k \in Keys :
           /\ cache'[v][k] = cache[v][k] \/ cache'[v][k] = 0
           /\ v # w \/ k \notin Lookups(w, h) => cache'[v][k] = cache[v][k]
  <2>1. Erased(w, h) \in [Keys -> Nat] /\ \A k \in Keys :
          /\ Erased(w, h)[k] = cache[w][k] \/ Erased(w, h)[k] = 0
          /\ k \notin Lookups(w, h) => Erased(w, h)[k] = cache[w][k]
    BY <1>1 DEF Erased, MapOf, Absent, TypeInv
  <2> QED
    BY <1>1, <1>5, <2>1 DEF TypeInv
<1>10. TypeInv'
  <2>1. counted' \subseteq Entry
    BY <1>1, <1>8 DEF TypeInv
  <2> QED
    BY <1>1, <1>2, <1>4, <1>9, <2>1 DEF TypeInv
<1>11. EventsInv'
  <2>1. \A c \in counted' : c.event # 0 /\ c.event <= events
    <3>1. event[w] <= events
      BY <1>1 DEF EventsInv
    <3> QED
      BY <1>1, <1>7, <1>8, <3>1 DEF EventsInv
  <2>2. \A v \in Workers, k \in Keys : cache'[v][k] <= events
    <3>1. events \in Nat /\ \A v \in Workers, k \in Keys : cache[v][k] <= events
      BY <1>1 DEF EventsInv, TypeInv
    <3> QED
      BY <1>9, <3>1
  <2>3. \A u, v \in Workers, k \in Keys : cache'[u][k] = event[v] /\ event[v] # 0 => u = v
    BY <1>1, <1>9 DEF EventsInv
  <2> QED
    BY <1>1, <1>2, <2>1, <2>2, <2>3 DEF EventsInv
<1>12. HitsInv'
  <2> SUFFICES ASSUME NEW v \in Workers, NEW g \in Pmts \X Cells
               PROVE  /\ phase[v] = "idle" => hits'[v][g] = NoHit
                      /\ \A s \in hits'[v][g].tracks :
                           /\ kind[v][s] \in {"stopped", "other"}
                           /\ kind[v][s] = "stopped" =>
                                /\ cache'[v][<<g[1], s>>] = event[v]
                                /\ \A f \in Pmts \X Cells :
                                     s \in hits'[v][f].tracks => f = g
    BY <1>2 DEF HitsInv
  <2>1. phase[v] = "idle" => hits'[v][g] = NoHit
    BY <1>1, <1>4 DEF HitsInv
  <2>2. \A f \in Pmts \X Cells : \A s \in hits'[v][f].tracks :
          s \in hits[v][f].tracks /\ ~(v = w /\ f = h)
    BY <1>4 DEF NoHit
  <2> SUFFICES ASSUME NEW s \in hits'[v][g].tracks, kind[v][s] = "stopped"
               PROVE  cache'[v][<<g[1], s>>] = event[v]
    BY <1>1, <2>1, <2>2 DEF HitsInv
  <2>3. /\ s \in hits[v][g].tracks /\ ~(v = w /\ g = h)
        /\ \A f \in Pmts \X Cells : s \in hits[v][f].tracks => f = g
        /\ cache[v][<<g[1], s>>] = event[v]
    BY <1>1, <2>2 DEF HitsInv
  <2>4. <<g[1], s>> \in Keys
    BY <1>1, <2>3 DEF TypeInv, Keys
  <2>5. v # w \/ <<g[1], s>> \notin Lookups(w, h)
    BY <2>3 DEF Lookups
  <2> QED
    BY <1>9, <2>3, <2>4, <2>5
<1>13. CountedInv'
  <2> SUFFICES ASSUME NEW c \in counted', NEW v \in Workers, c.event = event[v]
               PROVE  /\ phase[v] = "digitizing"
                      /\ c.kind = kind[v][c.track]
                      /\ c.kind # "other" =>
                           \A g \in Pmts \X Cells : c.track \notin hits'[v][g].tracks
    BY <1>2 DEF CountedInv
  <2>1. \A g \in Pmts \X Cells : \A t \in hits'[v][g].tracks :
          t \in hits[v][g].tracks /\ ~(v = w /\ g = h)
    BY <1>4 DEF NoHit
  <2>2. CASE c \in counted
    BY <1>1, <2>1, <2>2 DEF CountedInv
  <2>3. CASE c \notin counted
    <3>1. PICK t \in hits[w][h].tracks :
            /\ c.event = event[w] /\ c.hit = h /\ c.track = t
            /\ c.kind = kind[w][t] /\ c.from = cache[w][<<h[1], t>>]
      BY <1>8, <2>3
    <3>2. v = w
      <4>1. \A u, x \in Workers : event[u] = event[x] /\ event[u] # 0 => u = x
        BY <1>1 DEF EventsInv
      <4> QED
        BY <1>7, <3>1, <4>1
    <3>3. kind[w][t] \in {"stopped", "other"} /\ (kind[w][t] = "stopped" =>
            \A g \in Pmts \X Cells : t \in hits[w][g].tracks => g = h)
      BY <1>1 DEF HitsInv
    <3>4. c.kind # "other" => \A g \in Pmts \X Cells : t \notin hits'[w][g].tracks
      BY <2>1, <3>1, <3>2, <3>3
    <3> QED
      BY <1>2, <3>1, <3>2, <3>4
  <2> QED
    BY <2>2, <2>3
<1>14. OwnProbability'
  <2> SUFFICES ASSUME NEW c \in counted', c.kind # "other" PROVE c.from = c.event
    BY DEF OwnProbability
  <2>1. CASE c \in counted
    BY <1>1, <2>1 DEF OwnProbability
  <2>2. CASE c \notin counted
    <3>1. PICK t \in hits[w][h].tracks :
            /\ c.event = event[w] /\ c.hit = h /\ c.track = t
            /\ c.kind = kind[w][t] /\ c.from = cache[w][<<h[1], t>>]
      BY <1>8, <2>2
    <3>2. kind[w][t] \in {"stopped", "other"} /\
            (kind[w][t] = "stopped" => cache[w][<<h[1], t>>] = event[w])
      BY <1>1 DEF HitsInv
    <3> QED
      BY <3>1, <3>2
  <2> QED
    BY <2>1, <2>2
<1>15. PhotonCountedOnce'
  <2>1. ASSUME NEW c \in counted', NEW d \in counted',
               c.event = d.event, c.track = d.track, c.kind # "other"
        PROVE  c.hit = d.hit
    <3>1. CASE c \in counted /\ d \in counted
      BY <1>1, <2>1, <3>1 DEF PhotonCountedOnce
    <3>2. CASE c \in counted /\ d \notin counted
      <4>1. PICK t \in hits[w][h].tracks :
            d.event = event[w] /\ d.hit = h /\ d.track = t /\ d.kind = kind[w][t]
        BY <1>8, <3>2
      <4>2. c.event = event[w] => c.kind = kind[w][c.track] /\
              (c.kind # "other" => c.track \notin hits[w][h].tracks)
        BY <1>1, <3>2 DEF CountedInv
      <4> QED
        BY <2>1, <4>1, <4>2
    <3>3. CASE c \notin counted /\ d \in counted
      <4>1. PICK t \in hits[w][h].tracks :
            /\ c.event = event[w] /\ c.hit = h /\ c.track = t
            /\ c.kind = kind[w][t] /\ c.from = cache[w][<<h[1], t>>]
        BY <1>8, <3>3
      <4>2. d.event = event[w] => d.kind = kind[w][d.track] /\
              (d.kind # "other" => d.track \notin hits[w][h].tracks)
        BY <1>1, <3>3 DEF CountedInv
      <4> QED
        BY <2>1, <4>1, <4>2
    <3>4. CASE c \notin counted /\ d \notin counted
      BY <1>8, <3>4
    <3> QED
      BY <3>1, <3>2, <3>3, <3>4
  <2>2. ASSUME NEW c \in counted', NEW v \in Workers
        PROVE  cache'[v][<<c.hit[1], c.track>>] # c.event
    <3>1. c.event # 0 /\ <<c.hit[1], c.track>> \in Keys
      BY <1>10, <1>11 DEF EventsInv, TypeInv, Entry, Keys
    <3>2. CASE c \in counted
      BY <1>1, <1>9, <3>1, <3>2 DEF PhotonCountedOnce
    <3>3. CASE c \notin counted
      <4>1. PICK t \in hits[w][h].tracks :
            /\ c.event = event[w] /\ c.hit = h /\ c.track = t
            /\ c.kind = kind[w][t] /\ c.from = cache[w][<<h[1], t>>]
        BY <1>8, <3>3
      <4>2. <<c.hit[1], c.track>> \in Lookups(w, h)
        BY <4>1 DEF Lookups
      <4>3. cache' = [cache EXCEPT ![w] = Erased(w, h)]
        BY <1>8, <3>3
      <4>4. CASE v = w
        <5>1. cache'[w] = Erased(w, h)
          BY <1>1, <4>3 DEF TypeInv
        <5> QED
          BY <3>1, <4>2, <4>4, <5>1 DEF Erased, Absent
      <4>5. CASE v # w
        <5>1. cache[v][<<c.hit[1], c.track>>] # event[w]
          BY <1>1, <1>7, <3>1, <4>5 DEF EventsInv
        <5> QED
          BY <1>9, <3>1, <4>1, <4>5, <5>1
      <4> QED
        BY <4>4, <4>5
    <3> QED
      BY <3>2, <3>3
  <2> QED
    BY <2>1, <2>2 DEF PhotonCountedOnce
<1> QED
  BY <1>10, <1>11, <1>12, <1>13, <1>14, <1>15 DEF Inv

(* An event ends with its hits digitized; what it leaves in the map names  *)
(* it, and no later event bears its number.                                *)
LEMMA EndEventInv ==
  ASSUME Inv, NEW w \in Workers, EndEvent(w)
  PROVE  Inv'
<1> USE DEF Inv, EndEvent
<1>1. TypeInv'
  <2>1. event' \in [Workers -> Nat]
    BY DEF TypeInv
  <2>2. phase' \in [Workers -> {"idle", "stepping", "digitizing"}]
    BY DEF TypeInv
  <2>3. kind' \in [Workers -> [Tracks -> {"unborn", "photon", "stopped", "other"}]]
    BY DEF TypeInv
  <2> QED
    BY <2>1, <2>2, <2>3 DEF TypeInv
<1>2. \A v \in Workers :
        /\ event'[v] = IF v = w THEN 0 ELSE event[v]
        /\ phase'[v] = IF v = w THEN "idle" ELSE phase[v]
        /\ v # w => kind'[v] = kind[v]
  BY DEF TypeInv
<1>3. EventsInv'
  BY <1>2 DEF EventsInv, TypeInv
<1>4. \A h \in Pmts \X Cells : hits[w][h] = NoHit /\ hits[w][h].tracks = {}
  BY DEF NoHits, NoHit
<1>5. HitsInv'
  BY <1>2, <1>4 DEF HitsInv
<1>6. CountedInv'
  BY <1>2 DEF CountedInv, EventsInv
<1>7. OwnProbability' /\ PhotonCountedOnce'
  BY DEF OwnProbability, PhotonCountedOnce
<1> QED
  BY <1>1, <1>3, <1>5, <1>6, <1>7

(* Every step of any worker, and so every state of the run.                *)
LEMMA InvHolds == Spec => []Inv
<1>1. Inv /\ [Next]_vars => Inv'
  <2> SUFFICES ASSUME Inv, [Next]_vars PROVE Inv'
    OBVIOUS
  <2>1. CASE UNCHANGED vars
    <3>1. TypeInv' /\ EventsInv' /\ OwnProbability' /\ PhotonCountedOnce'
      BY <2>1 DEF vars, Inv, TypeInv, EventsInv, OwnProbability, PhotonCountedOnce
    <3>2. HitsInv' /\ CountedInv'
      BY <2>1 DEF vars, Inv, HitsInv, CountedInv
    <3> QED
      BY <3>1, <3>2 DEF Inv
  <2>2. CASE Next
    BY <2>2, BeginEventInv, EndSteppingInv, EndEventInv, DigitizeInv,
       PhotonStepInv, OtherStepInv DEF Next
  <2> QED
    BY <2>1, <2>2
<1> QED
  BY <1>1, InitInv, PTL DEF Spec

(* For any workers, photomultipliers, time cells, track numbers and events *)
(* a photon is weighed with its own probability.                           *)
THEOREM OwnProbabilityHolds == Spec => []OwnProbability
<1>1. Inv => OwnProbability
  BY DEF Inv
<1> QED
  BY <1>1, InvHolds, PTL

(* And, for any of them, it is counted in one signal at most.              *)
THEOREM PhotonCountedOnceHolds == Spec => []PhotonCountedOnce
<1>1. Inv => PhotonCountedOnce
  BY DEF Inv
<1> QED
  BY <1>1, InvHolds, PTL

=============================================================================
