--------------------------- MODULE MCFtCalTimeline ---------------------------
(***************************************************************************)
(* FtCalTimeline with a largest time of 31: runs of up to 28 events whose  *)
(* last starts touch the limit, and every signal around the two bounds.    *)
(***************************************************************************)
EXTENDS FtCalTimeline

Signal(adc, s) ==
  [identified |-> TRUE, address |-> [crate |-> 0, slot |-> 0, channel |-> 0],
   silent |-> FALSE, measurable |-> TRUE, adc |-> adc, signal |-> s]

AnyClock == [spacing : 1..OptionLimit, minimum : {-OptionLimit, -3, 0}]
AnyCount == {0, 1, 2, 3, 4, 9, 13, 14, 27, 28}
AnyHit == {Signal(1, s) : s \in -(OptionLimit + 1)..(OptionLimit + 1)}
=============================================================================
