---------------------------- MODULE MCGeometryCollect ----------------------------
(* Small groups of detectors, a database of their own or of an older       *)
(* checkout, three drivers' processes and two runs of the script.          *)
EXTENDS GeometryCollect

MCGroups == {{"beamline", "ec"}, {"magnets", "pcal"}, {"dc", "htcc"}, {"ltcc", "ft"}, {"ftof"}}

Row(bank, v) ==
    [table |-> "geometry", bank |-> bank, label |-> v[1], run |-> v[2],
     part |-> <<"native", 1>>, mesh |-> "none", made |-> 0]

(* What a checkout left that kept the variations apart by name and still   *)
(* had the retired banks and one variation more.                           *)
OldBanks == {Row(b, v) : b \in UNION {Owned(d) : d \in DOMAIN Program},
                         v \in {<<"rga_spring2018", 3029>>, <<"retired", 17>>}}

(* ... and what a younger one left that had renamed its rows already: a    *)
(* portion of every bank at the run of every card that loads it.           *)
OldIndexed == UNION {{Row(b, <<"default", c.run>>) : b \in c.banks} :
                         c \in UNION {Cards(d) : d \in DOMAIN Program}}

MCOld == {{}, OldBanks, OldIndexed}
=============================================================================
