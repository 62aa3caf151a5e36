------------------------------ MODULE MCSroRun ------------------------------
(***************************************************************************)
(* Instances of SroRun for TLC: three events two time units apart, frames  *)
(* of two units, a minimum signal time of -1.  The final bound is 5, so    *)
(* frames 0 and 1 can be completed and frame 2 is an unproven tail.        *)
(***************************************************************************)
EXTENDS SroRunProperties

At(c, signal) ==
  [identified |-> TRUE, address |-> [crate |-> c, slot |-> 0, channel |-> 0],
   silent |-> FALSE, measurable |-> TRUE, adc |-> 1, signal |-> signal]

InSlotOne(c, signal) == [At(c, signal) EXCEPT !.address.slot = 1, !.adc = MaxCharge + 3]
Silent(c) == [At(c, -9) EXCEPT !.silent = TRUE]
Unmeasurable(c) == [At(c, 0) EXCEPT !.measurable = FALSE]
Misaddressed == [At(0, 0) EXCEPT !.address.crate = MaxCrate + 1]
TooLate(c) == At(c, OptionLimit + 1)

Hits(first, second, third) == [e \in 0..2 |-> <<first, second, third>>[e + 1]]

Steady == [spacing |-> 2, minimum |-> -1]
OnBoundary == [spacing |-> 2, minimum |-> 0]
TooSparse == [spacing |-> OptionLimit, minimum |-> 0]

Given(c, h) == [clock |-> c, hits |-> h, inOrder |-> FALSE]

(* Runs in which no hit is rejected: samples of one frame from two events, *)
(* out of time order; a frame past the final bound; an event without hits; *)
(* a signal before acquisition time zero.                                  *)
CleanInputs == {
  Given(Steady, Hits(<<At(0, 3), At(1, 0)>>, <<At(0, -1)>>, <<At(0, -1)>>)),
  Given(Steady, Hits(<<At(0, 0)>>, <<InSlotOne(0, 3), At(0, -1)>>, <<At(1, -1)>>)),
  Given(Steady, Hits(<<At(0, -1), InSlotOne(1, 3)>>, <<Silent(1), At(1, 1)>>, <<>>)) }

(* Runs that must fail, or not start: a frame with one sample too many, a  *)
(* signal that would fall into a completed frame, and hits that stream_hit *)
(* throws on.                                                              *)
FailingInputs == {
  Given(Steady, Hits(<<At(0, 1), At(0, 0)>>, <<At(0, -1)>>, <<>>)),
  Given(Steady, Hits(<<At(0, 0)>>, <<>>, <<At(0, -3)>>)),
  Given(Steady, Hits(<<At(0, 0), Misaddressed>>, <<At(1, 0)>>, <<>>)),
  Given(Steady, Hits(<<>>, <<At(1, -1), Unmeasurable(0)>>, <<TooLate(0)>>)),
  Given(TooSparse, Hits(<<>>, <<>>, <<>>)) }

(* Every assignment of two hit lists to the first two events.              *)
MixedInputs ==
  LET lists == {<<At(0, -1)>>, <<At(0, 3), At(1, 0)>>}
  IN {Given(Steady, Hits(first, second, <<At(0, -1)>>)) : first \in lists, second \in lists}

(* The bound meets the frame boundaries exactly.                           *)
BoundaryInput ==
  Given(OnBoundary, Hits(<<At(0, 1), At(1, 2)>>, <<At(0, 0)>>, <<At(1, 0)>>))

AnyInputs == CleanInputs \cup {BoundaryInput} \cup FailingInputs \cup MixedInputs

(* For the costlier properties: bounds on frame boundaries with a frame of *)
(* samples of two events, a run whose last hit would land in a frame       *)
(* already completed, and clean runs with a service that keeps the order.  *)
ReadoutInputs == {
  Given(OnBoundary, Hits(<<At(0, 2), At(1, 2)>>, <<At(0, 0)>>, <<At(1, 0)>>)),
  Given(Steady, Hits(<<At(0, 1)>>, <<At(0, 3)>>, <<At(0, -3)>>)) }
  \cup {[given EXCEPT !.inOrder = TRUE] : given \in CleanInputs}
=============================================================================
