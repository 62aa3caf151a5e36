----------------------------- MODULE SroOutput ------------------------------
(***************************************************************************)
(* What a streaming-readout run promises of its crate files, whatever the  *)
(* schedule of its threads.                                                *)
(*                                                                         *)
(* The events of a run determine, for every crate, a set of promised       *)
(* frames: the non-empty frames that end at or before the final progress   *)
(* bound, each with all of its samples.  A crate's file receives promised  *)
(* frames only, one at a time and in order; it is sealed only when it has  *)
(* received all of them, and may be abandoned before (a failed or          *)
(* interrupted run), which leaves a prefix: a stream that fails may also   *)
(* lose the last of what it was given.                                     *)
(***************************************************************************)
EXTENDS Integers, Sequences

CONSTANT Crates

VARIABLES
  promised,  \* of every crate, the set of frames the run owes
  output,    \* of every crate, the frames its file holds
  state      \* of every crate: "open" | "sealed" | "abandoned"

vars == <<promised, output, state>>

Held(c) == {output[c][k] : k \in 1..Len(output[c])}

(* The frame a crate owes next: the lowest one it has not written.         *)
NextOwed(c, f) ==
  /\ f \in promised[c] \ Held(c)
  /\ \A g \in promised[c] \ Held(c) : f.id <= g.id

Init ==
  /\ \A c \in Crates : \A f, g \in promised[c] : f.id = g.id => f = g
  /\ output = [c \in Crates |-> <<>>]
  /\ state = [c \in Crates |-> "open"]

WriteFrame(c) ==
  /\ state[c] = "open"
  /\ \E f \in promised[c] :
       /\ NextOwed(c, f)
       /\ output' = [output EXCEPT ![c] = Append(@, f)]
  /\ UNCHANGED <<promised, state>>

Seal(c) ==
  /\ state[c] = "open"
  /\ Held(c) = promised[c]
  /\ state' = [state EXCEPT ![c] = "sealed"]
  /\ UNCHANGED <<promised, output>>

Abandon(c) ==
  /\ state[c] = "open"
  /\ state' = [state EXCEPT ![c] = "abandoned"]
  /\ \E n \in 0..Len(output[c]) : output' = [output EXCEPT ![c] = SubSeq(@, 1, n)]
  /\ UNCHANGED promised

Next == \E c \in Crates : WriteFrame(c) \/ Seal(c) \/ Abandon(c)

Spec == Init /\ [][Next]_vars
=============================================================================
