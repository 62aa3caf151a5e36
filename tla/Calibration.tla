---------------------------- MODULE Calibration ----------------------------
(***************************************************************************)
(* How a digitization plugin gets its calibration constants and its        *)
(* translation table, run after run, from a database that may hold fewer   *)
(* rows than the detector has components, none, or fail at any query.      *)
(*                                                                         *)
(* One behaviour is one plugin. A hit of component c changes nothing here: *)
(* what its digitization would find is stated by Accepted and by the       *)
(* properties over what is stored.                                         *)
(***************************************************************************)
EXTENDS CalibrationTables, Integers, Sequences, FiniteSets, Functions

CONSTANTS
  NumComponents, \* readout components of one detector layer
  MaxRuns,       \* bound: runs of one process
  MaxGaps        \* bound: answers that are not complete, in one behaviour

Components == 1 .. NumComponents

ASSUME CalibrationAssumption ==
  /\ NumComponents \in Nat \ {0}
  /\ MaxRuns \in Nat
  /\ MaxGaps \in Nat

VARIABLES
  plugin,   \* the plugin, chosen once
  hardware, \* accountForHardwareStatus
  run,      \* number of the run whose constants were last asked for
  stage,    \* where the load is
  next,     \* index of the table to query
  store,    \* table |-> component or position |-> what is stored there
  tt,       \* the translation table: component |-> what is stored for it
  gaps,     \* incomplete answers so far
  partial   \* the incomplete answers among those behind the constants

vars == <<plugin, hardware, run, stage, next, store, tt, gaps, partial>>

Default == [of |-> 0, run |-> 0]

Blank == [c \in Components |-> Default]

Tables(p) == Range(ConstantsOf[p])

Names(p) == {t.name : t \in Tables(p)}

Init ==
  /\ plugin \in Plugins
  /\ hardware \in BOOLEAN
  /\ plugin \in {"dc", "ltcc", "htcc"} => ~hardware
  /\ run = 0
  /\ stage = "idle"
  /\ next = 1
  /\ store = [n \in Names(plugin) |-> Blank]
  /\ tt = Blank
  /\ gaps = 0
  /\ partial = {}

-----------------------------------------------------------------------------
(* Every plugin but the drift chambers' starts a load from fresh constants. *)
Cleared_Never == FALSE

Cleared == plugin # "dc"

BeginRun ==
  /\ stage \in {"idle", "events"}
  /\ run < MaxRuns
  /\ run' = run + 1
  /\ store' = IF Cleared THEN [n \in Names(plugin) |-> Blank] ELSE store
  /\ partial' = IF Cleared THEN {} ELSE partial
  /\ stage' = "connect"
  /\ UNCHANGED <<plugin, hardware, next, tt, gaps>>

(* clas12ccdb::connect hands back a handle, or reports and ends the load.  *)
Connect ==
  /\ stage = "connect"
  /\ stage' \in {"constants", "aborted"}
  /\ next' = 1
  /\ UNCHANGED <<plugin, hardware, run, store, tt, gaps, partial>>

-----------------------------------------------------------------------------
Asked == ConstantsOf[plugin][next]

Querying ==
  /\ stage = "constants"
  /\ next <= Len(ConstantsOf[plugin])
  /\ Asked.status => hardware

(* The k-th row of a table that lists its components in ascending order.   *)
Row(rows, k) ==
  CHOOSE c \in rows : Cardinality({d \in rows : d <= c}) = k

Read_Unshifted(c) == [of |-> (c % NumComponents) + 1, run |-> run]

Read(c) == [of |-> c, run |-> run]

Placed(kind, rows, old) == [c \in Components |->
  CASE kind \in {"array", "channel"} /\ c \in rows -> Read(c)
    [] kind \in {"rows", "slots"} /\ c <= Cardinality(rows) ->
         Read(Row(rows, c))
    [] kind = "first" /\ c = 1 /\ rows # {} -> Read(Row(rows, 1))
    [] kind = "later" /\ c = 1 /\ Cardinality(rows) > 1 -> Read(Row(rows, 2))
    [] OTHER -> old[c]]

(* The components whose rows the loop over an answer takes.                *)
Answers == SUBSET Components

(* loadTable: no rows, no constants. Rows that are all passed over are     *)
(* rows to it.                                                             *)
PassesOver(t) == plugin \in Selective /\ t.kind \in {"array", "channel"}

Usable_Any(rows) == TRUE

Usable(rows) == rows # {} \/ PassesOver(Asked) \/ ~Asked.guarded

Gap(rows) == IF rows = Components THEN 0 ELSE 1

Answered(rows) ==
  /\ gaps + Gap(rows) <= MaxGaps
  /\ gaps' = gaps + Gap(rows)

LoadTable(rows) ==
  /\ Querying
  /\ Usable(rows)
  /\ Answered(rows)
  /\ partial' = partial \cup
       IF rows = Components THEN {} ELSE {<<Asked.name, rows>>}
  /\ store' = [store EXCEPT ![Asked.name] = Placed(Asked.kind, rows, @)]
  /\ next' = next + 1
  /\ UNCHANGED <<plugin, hardware, run, stage, tt>>

(* A guarded query threw, or found no rows: loadConstantsImpl says false   *)
(* and the dispenser stops the run.                                        *)
RefuseTable ==
  /\ Querying
  /\ Asked.guarded
  /\ stage' = "aborted"
  /\ UNCHANGED <<plugin, hardware, run, next, store, tt, gaps, partial>>

SkipStatus ==
  /\ stage = "constants"
  /\ next <= Len(ConstantsOf[plugin])
  /\ Asked.status /\ ~hardware
  /\ next' = next + 1
  /\ UNCHANGED <<plugin, hardware, run, stage, store, tt, gaps, partial>>

(* An exception nobody catches ends the process.                           *)
QueryThrows ==
  /\ Querying
  /\ ~Asked.guarded
  /\ stage' = "terminated"
  /\ UNCHANGED <<plugin, hardware, run, next, store, tt, gaps, partial>>

ConstantsLoaded ==
  /\ stage = "constants"
  /\ next > Len(ConstantsOf[plugin])
  /\ stage' = "translation"
  /\ UNCHANGED <<plugin, hardware, run, next, store, tt, gaps, partial>>

-----------------------------------------------------------------------------
(* loadTTImpl connects, asks for one table and replaces the whole          *)
(* translation table; without the guards an empty answer is an empty table *)
(* and an exception, of the connection or of the query, is nobody's. The   *)
(* guarded ones pass over rows that are too short, all of them if need be. *)

LoadTranslation(rows) ==
  /\ stage = "translation"
  /\ rows # {} \/ PassesOver(TranslationOf[plugin])
              \/ ~TranslationOf[plugin].guarded
  /\ Answered(rows)
  /\ tt' = Placed("array", rows, Blank)
  /\ stage' = "events"
  /\ UNCHANGED <<plugin, hardware, run, next, store, partial>>

RefuseTranslation ==
  /\ stage = "translation"
  /\ TranslationOf[plugin].guarded
  /\ stage' = "aborted"
  /\ UNCHANGED <<plugin, hardware, run, next, store, tt, gaps, partial>>

TranslationThrows ==
  /\ stage = "translation"
  /\ ~TranslationOf[plugin].guarded
  /\ stage' = "terminated"
  /\ UNCHANGED <<plugin, hardware, run, next, store, tt, gaps, partial>>

Next ==
  \/ BeginRun
  \/ Connect
  \/ \E rows \in Answers : LoadTable(rows)
  \/ RefuseTable
  \/ SkipStatus
  \/ QueryThrows
  \/ ConstantsLoaded
  \/ \E rows \in Answers : LoadTranslation(rows)
  \/ RefuseTranslation
  \/ TranslationThrows

Spec == Init /\ [][Next]_vars
=============================================================================
