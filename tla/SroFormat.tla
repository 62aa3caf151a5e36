----------------------------- MODULE SroFormat ------------------------------
(***************************************************************************)
(* The constants of the JLAB streaming-readout format that the FT-Cal      *)
(* worker, the crate collector and the encoder share, and the frame        *)
(* arithmetic built on the frame duration.  Times are integral ns.         *)
(*                                                                         *)
(* geometry_src/sro/daq/format.h, geometry_src/sro/jlab_sro.{h,cc}.        *)
(***************************************************************************)
EXTENDS Integers

CONSTANTS
  FrameDuration,  \* frame_duration_ns: 65536
  MaxCrate,       \* max_crate: 255
  MaxSlot,        \* slot_count - 1: 15
  MaxChannel,     \* max_channel: 15
  MaxCharge       \* max_charge: 8191

ASSUME FormatAssumption ==
  /\ FrameDuration \in Nat \ {0}
  /\ MaxCrate \in Nat
  /\ MaxSlot \in Nat
  /\ MaxChannel \in Nat
  /\ MaxCharge \in Nat

Slots == 0..MaxSlot

(* Crate::consume_payload files a payload under this frame id, and         *)
(* Crate::advance_time rebuilds the frame's boundaries from the id.        *)
FrameOf(time) == time \div FrameDuration

FrameBegin(id) == FrameDuration * id

FrameEnd(id) == FrameBegin(id) + FrameDuration
=============================================================================
