---------------------------- MODULE FtCalStream -----------------------------
(***************************************************************************)
(* FTCALDigitization::stream_hit: what one calorimeter hit becomes.  A hit *)
(* fails the run, is dropped, or is emitted as one integral payload.       *)
(*                                                                         *)
(* A hit is abstracted to what these decisions read:                       *)
(*   identified   crystal identity, dimensions, steps and translation      *)
(*                table are all there                                      *)
(*   address      the electronics address of the translation table         *)
(*   silent       disabled by hardware status, or no deposited energy      *)
(*   measurable   positive calibration, finite charge and signal time      *)
(*   adc          the calibrated charge, truncated                         *)
(*   signal       the event-relative arrival time, floored (the minimum is *)
(*                integral, so flooring does not change that comparison; a *)
(*                fractional excess over the delay limit is not measurable)*)
(***************************************************************************)
EXTENDS FtCalClock

Address == [crate : Nat, slot : Nat, channel : Nat]

Hit == [identified : BOOLEAN, address : Address, silent : BOOLEAN,
        measurable : BOOLEAN, adc : Nat, signal : Int]

Addressable(a) == a.crate <= MaxCrate /\ a.slot <= MaxSlot /\ a.channel <= MaxChannel

ArrivalTime(clock, id, h) == EventStart(clock, id) + h.signal

(* Mutant: only the upper limit is enforced.                               *)
SignalInBounds_NoMinimum(clock, h) == h.signal <= OptionLimit

SignalInBounds(clock, h) == clock.minimum <= h.signal /\ h.signal <= OptionLimit

(* A positive signal is added to the start of its event only if the end of *)
(* the arrival's frame stays representable.                                *)
ArrivalFits(clock, id, h) ==
  /\ StartFits(clock, id)
  /\ h.signal > 0 => EventStart(clock, id) <= TimeMax - FrameDuration - h.signal

(* stream_hit throws, in the order of its checks.                          *)
Rejected(clock, id, h) ==
  \/ ~h.identified
  \/ ~Addressable(h.address)
  \/ /\ ~h.silent
     /\ \/ ~h.measurable
        \/ ~SignalInBounds(clock, h)
        \/ ~ArrivalFits(clock, id, h)

(* stream_hit returns without a payload: a silent hit, or a signal before  *)
(* acquisition time zero.                                                  *)
Dropped(clock, id, h) ==
  /\ ~Rejected(clock, id, h)
  /\ h.silent \/ ArrivalTime(clock, id, h) < 0

Emitted(clock, id, h) ==
  /\ ~Rejected(clock, id, h)
  /\ ~h.silent
  /\ ArrivalTime(clock, id, h) >= 0

(* Mutant: the payload keeps the absolute time.                            *)
Payload_AbsoluteTime(clock, id, sequence, h) ==
  [crate |-> h.address.crate, event |-> id, sequence |-> sequence,
   time |-> ArrivalTime(clock, id, h),
   data |-> [crate |-> h.address.crate, slot |-> h.address.slot, channel |-> h.address.channel,
             charge |-> IF h.adc < MaxCharge THEN h.adc ELSE MaxCharge,
             time |-> ArrivalTime(clock, id, h)]]

(* Mutant: the charge is not saturated.                                    *)
Payload_RawCharge(clock, id, sequence, h) ==
  [crate |-> h.address.crate, event |-> id, sequence |-> sequence,
   time |-> ArrivalTime(clock, id, h),
   data |-> [crate |-> h.address.crate, slot |-> h.address.slot, channel |-> h.address.channel,
             charge |-> h.adc, time |-> ArrivalTime(clock, id, h) % FrameDuration]]

(* The envelope emit() builds around the IntegralPayload: crate and        *)
(* absolute time outside, electronics address, saturated charge and        *)
(* frame-relative time inside.                                             *)
Payload(clock, id, sequence, h) ==
  LET time == ArrivalTime(clock, id, h) IN
    [crate |-> h.address.crate, event |-> id, sequence |-> sequence, time |-> time,
     data |-> [crate   |-> h.address.crate,
               slot    |-> h.address.slot,
               channel |-> h.address.channel,
               charge  |-> IF h.adc < MaxCharge THEN h.adc ELSE MaxCharge,
               time    |-> time % FrameDuration]]
=============================================================================
