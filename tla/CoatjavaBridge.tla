---------------------------- MODULE CoatjavaBridge ----------------------------
(***************************************************************************)
(* generate_volumes of ec, pcal, ftof and dc (coatjava.py): a Java factory *)
(* writes a table of volumes into the detector's directory, the script     *)
(* reads it, removes it and publishes a volume for each row.  What the     *)
(* installation, Java and the factory do is the environment's choice; a    *)
(* failed or killed attempt may leave a table where the next one looks.    *)
(***************************************************************************)
EXTENDS FactoryDetectors

VARIABLES bridge,       \* what the running call of generate_volumes does next
          table,        \* what lies where the factory writes, or NoTable
          rows,         \* the rows the script holds
          tries,        \* attempts of the driver so far
          published     \* the volumes published in this attempt
bridgeVars == <<bridge, table, rows, tries, published>>

NoTable == [by |-> 0, holds |-> "nothing"]

(* Candidates for a Java command, the first usable one is taken.           *)
JavaPlaces == <<"JAVA_HOME", "homebrew", "libexec", "PATH">>
JavaCommand(usable) ==
    IF usable = {} THEN "none"
    ELSE JavaPlaces[CHOOSE i \in DOMAIN JavaPlaces :
                        /\ JavaPlaces[i] \in usable
                        /\ \A j \in 1 .. i - 1 : JavaPlaces[j] \notin usable]

(* Compiled classes: a directory the environment names comes before the    *)
(* build directory; without either Java compiles the source.               *)
CompiledFactoryDir(withClass) ==
    CASE "COATJAVA_FACTORY_CLASSES" \in withClass -> "COATJAVA_FACTORY_CLASSES"
      [] "build" \in withClass -> "build"
      [] OTHER -> "none"

(* One readable jar with the class the factories need is enough.           *)
CoatjavaClasspath(jars) == \E jar \in jars : jar = "complete"

FactoryCommand(jars, withClass, usable) ==
    IF ~CoatjavaClasspath(jars) \/ JavaCommand(usable) = "none" THEN <<>>
    ELSE <<JavaCommand(usable), CompiledFactoryDir(withClass)>>

(* The rows of a table by what it holds: all, those written before the     *)
(* factory was stopped, or, from another coatjava, one nobody expects.     *)
RowsOf(system, holds) ==
    CASE holds = "whole" -> TableRows(system)
      [] holds = "part" -> {r \in TableRows(system) : r.mother = Root}
      [] holds = "surplus" -> TableRows(system) \cup {Unexpected}

LocateFactory(jars, withClass, usable) ==
    /\ bridge = "locate"
    /\ bridge' = IF FactoryCommand(jars, withClass, usable) = <<>> THEN "failed" ELSE "run"
    /\ UNCHANGED <<table, rows, tries, published>>

(* Mutant: the exit code is not looked at.                                 *)
RunFactory_Unchecked(holds, exit) ==
    /\ bridge = "run"
    /\ table' = IF holds = "nothing" THEN table ELSE [by |-> tries, holds |-> holds]
    /\ bridge' = IF table' = NoTable THEN "failed" ELSE "read"
    /\ UNCHANGED <<rows, tries, published>>

(* The factory replaces the table only once it has computed its volumes; a *)
(* process that fails or is killed exits with another code than 0.         *)
RunFactory(holds, exit) ==
    /\ bridge = "run"
    /\ table' = IF holds = "nothing" THEN table ELSE [by |-> tries, holds |-> holds]
    /\ bridge' = IF exit = 0 THEN "read" ELSE "failed"
    /\ UNCHANGED <<rows, tries, published>>

(* A line without seven fields is an error, and the table stays.           *)
ReadVolumes(system) ==
    /\ bridge = "read"
    /\ IF table.holds = "malformed"
       THEN bridge' = "failed" /\ UNCHANGED rows
       ELSE bridge' = "unlink" /\ rows' = RowsOf(system, table.holds)
    /\ UNCHANGED <<table, tries, published>>

UnlinkTable ==
    /\ bridge = "unlink"
    /\ table' = NoTable /\ bridge' = "publish"
    /\ UNCHANGED <<rows, tries, published>>

(* EC, PCAL and FTOF stop at a row they do not know, which may come before *)
(* or after all the others; DC passes over it.                             *)
PublishRows(system, last) ==
    /\ bridge = "publish"
    /\ LET known == {r \in rows : Classified(system, r) # NoVolume}
           stops == known # rows /\ system # "dc"
       IN  /\ bridge' = IF stops THEN "failed" ELSE "idle"
           /\ published' = IF stops /\ ~last THEN published
                           ELSE published \cup {Classified(system, r) : r \in known}
    /\ UNCHANGED <<table, rows, tries>>

GenerateVolumes(system) ==
    \/ \E jars \in SUBSET {"complete", "broken"}, withClass \in SUBSET {"COATJAVA_FACTORY_CLASSES", "build"},
          usable \in {{}, {"PATH"}, {"JAVA_HOME", "PATH"}} : LocateFactory(jars, withClass, usable)
    \/ \E holds \in {"whole", "surplus", "malformed"} : RunFactory(holds, 0)
    \/ \E holds \in {"nothing", "part"} : RunFactory(holds, 1)
    \/ ReadVolumes(system) \/ UnlinkTable
    \/ \E last \in BOOLEAN : PublishRows(system, last)
=============================================================================
