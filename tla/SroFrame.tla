------------------------------ MODULE SroFrame ------------------------------
(***************************************************************************)
(* What encode_frame accepts and how it lays a frame out: the validation   *)
(* of the boundaries and of every sample, and the slot directory whose     *)
(* counts and offsets are 16-bit numbers of 32-bit words.                  *)
(*                                                                         *)
(* geometry_src/sro/jlab_sro.cc, encode_frame.                             *)
(***************************************************************************)
EXTENDS SroFormat, Sequences, FiniteSets

CONSTANT
  DirectoryLimit  \* 65535: the largest 16-bit directory field

ASSUME DirectoryAssumption == DirectoryLimit \in Nat

BoundaryValid(frame) ==
  /\ frame.crate <= MaxCrate
  /\ frame.begin >= 0
  /\ frame.end - frame.begin = FrameDuration
  /\ frame.begin % FrameDuration = 0
  /\ frame.id = frame.begin \div FrameDuration

SampleValid(frame, d) ==
  /\ d.crate = frame.crate
  /\ d.slot \in Slots
  /\ d.channel <= MaxChannel
  /\ d.charge <= MaxCharge
  /\ d.time < FrameDuration

(* The samples of one slot, by their positions.                            *)
InSlot(samples, slot) == {k \in 1..Len(samples) : samples[k].data.slot = slot}

(* Words of a slot's block: a marker and one word a sample, or nothing.    *)
BlockWords(samples, slot) ==
  LET n == Cardinality(InSlot(samples, slot)) IN IF n = 0 THEN 0 ELSE n + 1

(* Words before a slot's block: the payload word, the directory, and of    *)
(* the slots before it a marker for every occupied one and their samples.  *)
Offset(samples, slot) ==
  LET occupied == {s \in 0..(slot - 1) : InSlot(samples, s) # {}}
  IN 2 + MaxSlot + Cardinality(occupied)
       + Cardinality(UNION {InSlot(samples, s) : s \in occupied})

DirectoryFits(samples) ==
  \A s \in Slots : /\ Offset(samples, s) <= DirectoryLimit
                   /\ BlockWords(samples, s) <= DirectoryLimit

(* encode_frame returns words rather than throws.                          *)
Encodable(frame) ==
  /\ BoundaryValid(frame)
  /\ \A k \in 1..Len(frame.samples) : SampleValid(frame, frame.samples[k].data)
  /\ DirectoryFits(frame.samples)
=============================================================================
