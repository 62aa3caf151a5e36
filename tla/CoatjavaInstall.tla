-------------------------- MODULE CoatjavaInstall --------------------------
(***************************************************************************)
(* install_coatjava.sh, run by hand or by Meson's configure step, over     *)
(* whatever earlier runs left in geometry_src: a run may fail at any       *)
(* command that needs the network, the build or the disk, and may be       *)
(* killed between any two of its effects (set -e ends it at the first      *)
(* failure; nothing cleans up).  Which bash runs it matters in one place.  *)
(***************************************************************************)
EXTENDS Integers

CONSTANT Attempts   \* times the latest release is asked for

ASSUME AttemptsAssumption == Attempts \in Nat \ {0}

VARIABLES
  pc,           \* the next command of the running installer, or idle
  reset,        \* -r
  choice,       \* -l (the default), -t or -g
  oldBash,      \* bash before 4.4 (macOS ships 3.2)
  attempt,      \* of asking for the latest release
  failed,       \* a command of this run failed, or the run was killed
  exit,         \* what the last run reported; none while one is running
  installDir,   \* geometry_src/coatjava: absent, partial or complete,
                \* as the next two
  srcDir,       \* geometry_src/coatjava_src
  jars          \* jars in geometry_src

control == <<pc, reset, choice, oldBash, attempt, failed, exit>>
disk == <<installDir, srcDir, jars>>
installVars == <<control, disk>>

InstallInit ==
  /\ pc = "idle" /\ reset = FALSE /\ choice = "latest" /\ oldBash = FALSE
  /\ attempt = 1 /\ failed = FALSE /\ exit = "none"
  /\ installDir = "absent" /\ srcDir = "absent" /\ jars = "absent"

-----------------------------------------------------------------------------
(* Whichever bash is first in the path (#!/usr/bin/env bash).              *)
Begin(r, c) ==
  /\ pc = "idle"
  /\ pc' = "check" /\ reset' = r /\ choice' = c /\ oldBash' \in BOOLEAN
  /\ attempt' = 1 /\ failed' = FALSE /\ exit' = "none"
  /\ UNCHANGED disk

RunByHand == \E r \in BOOLEAN, c \in {"latest", "tag", "devel"} :
  Begin(r, c)

(* meson.build: without the directory, run the installer and require that  *)
(* it succeeds; with it, do nothing.                                       *)
Configure == installDir = "absent" /\ Begin(FALSE, "latest")

Goto(label) ==
  /\ pc' = label
  /\ UNCHANGED <<reset, choice, oldBash, attempt, failed, exit>>

End(code) ==
  /\ pc' = "idle" /\ exit' = code
  /\ UNCHANGED <<reset, choice, oldBash, attempt>>

Exit(code) == End(code) /\ UNCHANGED failed

(* A failing command under set -e, or a kill.                              *)
Fail == End("failure") /\ failed' = TRUE

-----------------------------------------------------------------------------
Existing == \E d \in {installDir, srcDir, jars} : d # "absent"

MayReset == reset

AfterCheck == IF choice = "latest" THEN "fetch" ELSE "clone"

CheckExisting ==
  /\ pc = "check"
  /\ IF ~Existing THEN Goto(AfterCheck)
     ELSE IF MayReset THEN Goto("remove")
     ELSE Exit("success")
  /\ UNCHANGED disk

(* rm -rf of everything, file by file, in this order.                      *)
Removed_KeepsSource == installDir = "absent" /\ jars = "absent"

Removed == installDir = "absent" /\ srcDir = "absent" /\ jars = "absent"

(* Without -f, rm would stop and ask about git's write-protected files.    *)
Shrunk_Prompts(d) == {"partial"}

Shrunk(d) == IF d = "complete" THEN {"partial", "absent"} ELSE {"absent"}

(* The command names the jars it is to remove. An old bash takes an empty  *)
(* array for a variable that was never set, and set -u ends the script     *)
(* before rm begins.                                                       *)
Unbound == oldBash /\ jars = "absent" /\ ~Removed

RemoveExisting ==
  /\ pc = "remove"
  /\ \/ Removed /\ Goto(AfterCheck) /\ UNCHANGED disk
     \/ Unbound /\ Exit("failure") /\ UNCHANGED disk
     \/ ~Removed /\ ~Unbound /\ Goto("remove") /\
          \/ /\ installDir # "absent"
             /\ installDir' \in Shrunk(installDir) /\ UNCHANGED <<srcDir, jars>>
          \/ /\ installDir = "absent" /\ srcDir # "absent"
             /\ srcDir' \in Shrunk(srcDir) /\ UNCHANGED <<installDir, jars>>
          \/ /\ installDir = "absent" /\ srcDir = "absent" /\ jars # "absent"
             /\ jars' \in Shrunk(jars) /\ UNCHANGED <<installDir, srcDir>>

(* Mutant: the release is asked for once more than was counted.            *)
MoreAttempts_OneMore == attempt <= Attempts

MoreAttempts == attempt < Attempts

(* Attempts queries; the run ends when the last of them fails.             *)
Fetch ==
  /\ pc = "fetch"
  /\ \/ Goto("clone")
     \/ /\ MoreAttempts
        /\ attempt' = attempt + 1
        /\ UNCHANGED <<pc, reset, choice, oldBash, failed, exit>>
     \/ ~MoreAttempts /\ Fail
  /\ UNCHANGED disk

(* git does not clone into a directory with something in it. A clone that  *)
(* fails takes the directory away again, one whose submodules fail leaves  *)
(* it.                                                                     *)
Clone ==
  /\ pc = "clone"
  /\ UNCHANGED <<installDir, jars>>
  /\ IF srcDir # "absent" THEN Exit("failure") /\ UNCHANGED srcDir
     ELSE \/ srcDir' = "partial" /\ (Goto("cloning") \/ Fail)
          \/ UNCHANGED srcDir /\ Fail

Cloned ==
  /\ pc = "cloning"
  /\ srcDir' = "complete" /\ UNCHANGED <<installDir, jars>>
  /\ Goto("build")

(* A build that fails is reported, and leaves the sources.                 *)
Build ==
  /\ pc = "build"
  /\ Goto("copy_jars") \/ Fail
  /\ UNCHANGED disk

AfterFailedCopy_GoesOn == Goto("copy_install")

AfterFailedCopy == Fail

(* cp fills its destination file by file.                                  *)
Grown(d) == IF d = "absent" THEN "partial" ELSE "complete"

CopyJars ==
  /\ pc = "copy_jars"
  /\ \/ /\ jars' = Grown(jars)
        /\ IF jars' = "complete" THEN Goto("copy_install") ELSE Goto("copy_jars")
     \/ UNCHANGED jars /\ AfterFailedCopy
  /\ UNCHANGED <<installDir, srcDir>>

CopyInstall ==
  /\ pc = "copy_install"
  /\ \/ /\ installDir' = Grown(installDir)
        /\ IF installDir' = "complete" THEN Exit("success") ELSE Goto("copy_install")
     \/ UNCHANGED installDir /\ AfterFailedCopy
  /\ UNCHANGED <<srcDir, jars>>

(* The run is killed, or rm fails.                                         *)
InstallKilled == pc # "idle" /\ Fail /\ UNCHANGED disk

Step ==
  CheckExisting \/ RemoveExisting \/ Fetch \/ Clone \/ Cloned \/ Build \/ CopyJars \/ CopyInstall

InstallNext == RunByHand \/ Configure \/ Step \/ InstallKilled

InstallSpec == InstallInit /\ [][InstallNext]_installVars /\ WF_installVars(Step)

-----------------------------------------------------------------------------
(* A product that was whole is not any more.                               *)
Lost(d, e) == d = "complete" /\ e # "complete"

(* A run that got past the check for an earlier installation reports       *)
(* success only with the directory and the jars there in full, whatever    *)
(* it began with and whichever of its commands failed on the way; and no   *)
(* run, and no failure, takes anything of an installation away unless a    *)
(* reset was asked for (README).                                           *)
StepIsHonest ==
  /\ pc \notin {"idle", "check"} /\ exit' = "success" =>
       installDir' = "complete" /\ jars' = "complete"
  /\ Lost(installDir, installDir') \/ Lost(jars, jars') => reset

(* Every step of every run is one of those.                                *)
SuccessMeansInstalled == [][StepIsHonest]_installVars

(* Whatever failed and killed runs left behind, a reset in which no        *)
(* download, build, copy or removal fails installs, directory and jars; it *)
(* fails only where an old bash meets leftovers without a jar, the sources *)
(* of a clone or build that failed above all, and then nothing is removed, *)
(* so that no further reset with that bash helps either (README).          *)
ResetRepairs ==
  pc = "idle" /\ exit # "none" /\ reset /\ ~failed =>
    \/ exit = "success" /\ installDir = "complete" /\ jars = "complete"
    \/ exit = "failure" /\ Unbound

(* The installer ends, however often the release cannot be found.          *)
InstallerEnds == pc # "idle" ~> pc = "idle"

(* Steps of rm and cp over one of the three products.                      *)
Present(d) == CASE d = "absent" -> 0 [] d = "partial" -> 1 [] OTHER -> 2

Missing(d) == 2 - Present(d)

(* The most commands a run can still give, the attempts to find a release  *)
(* and the file by file work of rm and cp counted one by one.              *)
CountFrom(label, tries, installed, source, copied) ==
  CASE label = "idle" -> 0
    [] label = "copy_install" -> 1 + Missing(installed)
    [] label = "copy_jars" -> 4 + Missing(copied)
    [] label = "build" -> 7
    [] label = "cloning" -> 8
    [] label = "clone" -> 9
    [] label = "fetch" -> 10 + Attempts - tries
    [] label = "remove" -> 10 + Attempts + Present(installed) + Present(source) + Present(copied)
    [] OTHER -> 17 + Attempts

CommandsLeft == CountFrom(pc, attempt, installDir, srcDir, jars)

(* No command of a run repeats for nothing: the loop over the attempts and *)
(* the removal and the copies that go on count down to the end, whatever a *)
(* run finds on the disk.  It is why InstallerEnds holds.                  *)
CommandsRunOut == [][pc # "idle" => CommandsLeft' \in 0..(CommandsLeft - 1)]_installVars
=============================================================================
