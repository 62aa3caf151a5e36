----------------------------- MODULE FtCalClock -----------------------------
(***************************************************************************)
(* The acquisition clock of FT-Cal streaming readout: how an event id      *)
(* becomes a run time, and which run time no remaining event can precede.  *)
(*                                                                         *)
(* geometry_src/ft/plugin/ft_cal/sro_timing.h and sro_implementation.cc.   *)
(***************************************************************************)
EXTENDS SroFormat

CONSTANTS
  TimeMax,      \* largest run time, std::numeric_limits<int64_t>::max()
  OptionLimit   \* 1e12: limit of the spacing, of -minimum and of a delay

ASSUME ClockAssumption ==
  /\ OptionLimit \in Nat \ {0}
  /\ TimeMax \in Nat
  /\ TimeMax >= FrameDuration + OptionLimit

(* The clocks clock_from_options returns: the options outside these ranges *)
(* (or not integral) make it throw.                                        *)
Clock == [spacing : 1..OptionLimit, minimum : -OptionLimit..0]

(* event_start throws for an id above this quotient.                       *)
StartFits(clock, id) == id <= (TimeMax - FrameDuration) \div clock.spacing

EventStart(clock, id) == clock.spacing * id

(* Timing::earliest_remaining_time: no payload of an event in first, first *)
(* + 1, ... precedes this time.                                            *)
EarliestRemaining(clock, first) == EventStart(clock, first) + clock.minimum

(* Implementation::configure_run refuses the run before any worker starts  *)
(* unless the start of the event after the last one is representable.      *)
RunAccepted(clock, eventCount) == StartFits(clock, eventCount)
=============================================================================
