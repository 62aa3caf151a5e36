------------------------- MODULE CalibrationTables -------------------------
(***************************************************************************)
(* The CCDB tables that the digitization plugins read, in the order they   *)
(* read them, and what digitizing a hit asks of what was read.             *)
(*                                                                         *)
(* A table is known by where its rows are put:                             *)
(*   "array"    in a fixed array, at the component the row names;          *)
(*   "channel"  in a vector that grows to the component the row names;     *)
(*   "rows"     appended to a vector, whatever component the row names;    *)
(*   "slots"    in a fixed array, in the order of the rows;                *)
(*   "first"    only the first row is used;                                *)
(*   "later"    only a row after the first is used.                        *)
(* A guarded table is read through clas12ccdb::loadTable, or with the same *)
(* handlers written out: an exception or an empty answer ends the load. A  *)
(* status table is read only when the hardware status option is set.       *)
(***************************************************************************)

Plugins == {"dc", "ec", "ftof", "ltcc", "htcc", "ft_cal", "ft_hodo"}

(* The plugins that test each row before they take it: rows with too few   *)
(* columns, or of no component of the detector, are passed over. (HTCC     *)
(* tests the component alone. The others index with what a row names.)     *)
Selective == {"htcc", "ft_cal", "ft_hodo"}

Table(name, kind) ==
  [name |-> name, kind |-> kind, guarded |-> TRUE, status |-> FALSE]

StatusTable(kind, guarded) ==
  [name |-> "status", kind |-> kind, guarded |-> guarded, status |-> TRUE]

TranslationTable(guarded) ==
  [name |-> "tt", kind |-> "array", guarded |-> guarded, status |-> FALSE]

-----------------------------------------------------------------------------
(* The constants, detector by detector.                                    *)

DcConstants == <<
  Table("inefficiency", "array"), Table("doca_smearing", "array"),
  Table("ref_pressure", "first"), Table("pressure", "later"),
  Table("t2d_pressure", "array"), Table("t0", "array"),
  Table("time_jitter", "first"), Table("superlayer", "slots") >>

EcConstants == <<
  Table("gain", "rows"), Table("atten", "rows"), Table("ftime", "rows"),
  Table("dtime", "rows"), Table("tdc_global_offset", "first"),
  Table("fadc_global_offset", "first"), Table("global_time_walk", "rows"),
  Table("time_jitter", "first"), Table("fadc_offset", "rows"),
  Table("tmf_offset", "rows"), Table("fveff", "rows"),
  Table("dveff", "rows"), Table("deff", "rows"), Table("fthr", "rows"),
  Table("ftres", "rows"), Table("dtres", "rows"),
  StatusTable("rows", FALSE) >>

FtofConstants == <<
  Table("attenuation", "rows"), Table("effective_velocity", "rows"),
  StatusTable("rows", FALSE), Table("threshold", "rows"),
  Table("efficiency", "rows"), Table("gain_balance", "rows"),
  Table("time_walk", "rows"), Table("time_walk_exp", "rows"),
  Table("time_walk_pos", "rows"), Table("time_offsets", "rows"),
  Table("tdc_conv", "rows"), Table("time_jitter", "first"),
  Table("fadc_offset", "rows"), Table("tres", "array") >>

LtccConstants == <<
  Table("spe", "array"), Table("time_offsets", "array"),
  Table("tdc_conv", "array") >>

HtccConstants == <<
  Table("gain", "array"), Table("mc_gain", "array"),
  Table("mc_smear", "array"), Table("time", "array"),
  Table("tdc_conv", "array"), Table("ring_time", "slots") >>

FtCalConstants == <<
  StatusTable("array", TRUE), Table("noise", "array"),
  Table("charge_to_energy", "array"), Table("time_offsets", "array") >>

FtHodoConstants == <<
  StatusTable("channel", TRUE), Table("noise", "channel"),
  Table("charge_to_energy", "channel"), Table("time_offsets", "channel") >>

ConstantsOf == [
  dc |-> DcConstants, ec |-> EcConstants, ftof |-> FtofConstants,
  ltcc |-> LtccConstants, htcc |-> HtccConstants,
  ft_cal |-> FtCalConstants, ft_hodo |-> FtHodoConstants ]

-----------------------------------------------------------------------------
(* The translation tables: one query each, after a connection of its own.  *)

DcTranslation == TranslationTable(FALSE)
EcTranslation == TranslationTable(FALSE)
FtofTranslation == TranslationTable(FALSE)
LtccTranslation == TranslationTable(FALSE)
HtccTranslation == TranslationTable(FALSE)
FtCalTranslation == TranslationTable(TRUE)
FtHodoTranslation == TranslationTable(TRUE)

TranslationOf == [
  dc |-> DcTranslation, ec |-> EcTranslation, ftof |-> FtofTranslation,
  ltcc |-> LtccTranslation, htcc |-> HtccTranslation,
  ft_cal |-> FtCalTranslation, ft_hodo |-> FtHodoTranslation ]

-----------------------------------------------------------------------------
(* What digitizeHitImpl and its hooks check and read, by table:            *)
(*   covered  must reach the hit's component, or the hit is dropped;       *)
(*   present  must not be empty, or the hit is dropped; read at its start; *)
(*   nonzero  must hold something for the component, or the hit is dropped;*)
(* then, for a hit that was not dropped,                                   *)
(*   reads    are read at its component, in digitizeHitImpl or in the      *)
(*            threshold and efficiency hooks;                              *)
(*   firsts   are read at their first entry.                               *)

Checks(covered, present, nonzero, reads, firsts) ==
  [covered |-> covered, present |-> present, nonzero |-> nonzero,
   reads |-> reads, firsts |-> firsts]

DcDigitize == Checks({}, {}, {},
  {"inefficiency", "doca_smearing", "t2d_pressure", "t0", "superlayer"}, {})

EcCovered == {"gain", "atten", "ftime", "dtime", "fveff", "dveff", "deff",
              "fthr"}

EcPresent == {"fadc_offset", "tmf_offset", "global_time_walk", "ftres",
              "dtres"}

EcDigitize == Checks(EcCovered, EcPresent, {},
  {"atten", "gain", "tmf_offset", "ftime", "dtime", "fveff", "dveff",
   "fthr", "deff"},
  {"fadc_offset", "global_time_walk", "ftres", "dtres"})

FtofCovered == {"attenuation", "effective_velocity", "tdc_conv",
                "fadc_offset", "gain_balance", "threshold", "efficiency",
                "time_walk", "time_walk_exp", "time_walk_pos",
                "time_offsets", "tres"}

FtofReads == {"fadc_offset", "tdc_conv", "attenuation", "gain_balance",
              "time_walk", "time_walk_exp", "time_walk_pos",
              "effective_velocity", "time_offsets", "tres", "threshold",
              "efficiency"}

FtofDigitize_NoEfficiency ==
  Checks(FtofCovered \ {"efficiency"}, {}, {}, FtofReads, {})

FtofDigitize == Checks(FtofCovered, {}, {}, FtofReads, {})

LtccDigitize == Checks({}, {}, {"tdc_conv"},
  {"spe", "time_offsets", "tdc_conv"}, {})

HtccDigitize == Checks({}, {}, {"tdc_conv"},
  {"gain", "mc_gain", "mc_smear", "time", "tdc_conv", "ring_time"}, {})

FtCalDigitize == Checks({}, {}, {"charge_to_energy"},
  {"charge_to_energy", "time_offsets"}, {})

FtHodoDigitize == Checks({"noise", "charge_to_energy", "time_offsets"}, {},
  {"noise", "charge_to_energy"},
  {"noise", "charge_to_energy", "time_offsets"}, {})

DigitizeOf == [
  dc |-> DcDigitize, ec |-> EcDigitize, ftof |-> FtofDigitize,
  ltcc |-> LtccDigitize, htcc |-> HtccDigitize,
  ft_cal |-> FtCalDigitize, ft_hodo |-> FtHodoDigitize ]
=============================================================================
