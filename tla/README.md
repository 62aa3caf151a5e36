# CLAS12 systems: specification and proofs

TLA+ models of the detector plugins and tools of `clas12-systems`, checked with TLC; most of the safety properties
that TLC checks on small instances are proved with TLAPS for all values of the constants. The reference for every definition is the source under `src/`; `PROJECT.json` maps each
definition to the lines it stands for. Code that is not in the repository (GEMC, Geant4, CCDB, HIPO) is
modelled only as far as the plugins' interfaces show it, and marked external in the map.

## 1. The system and its parts

| Component | State it keeps | Operations | Interacts with | Hard behaviour | Status |
|---|---|---|---|---|---|
| FT-Cal streaming readout, worker side (`ft/plugin/ft_cal/stream_hit.cc`, `sro_timing.h`, `sro_implementation.cc`) | none of its own; the clock of the run | `stream_hit`, `earliest_remaining_time`, `configure_run` | called by GEMC workers and GEMC's readout service; emits payloads | ordering, 64-bit limits, errors thrown on a worker thread | modelled |
| JLAB crate collector, encoder, sink (`geometry_src/sro`) | open frames by id; one file per crate | `consume_payload`, `advance_time`, `finish_run`, `encode_frame`, sink open/write/close | one thread per crate, fed by GEMC's service | late data, partial failure, interrupted runs, 16-bit limits | modelled (not the word layout) |
| GEMC core (not in the repository) | events, queues, bounds | event dispatch, readout service, run end | everything | scheduling | partly, external |
| HIPO gstreamer (`plugins/hipo`) | writer, current event, true-information buffer | open, start/end run and event, publish*, close | called by GEMC per event and per detector | protocol order, banks decided by the first hit | modelled |
| Digitization plugins (`*/plugin`) | calibration constants, translation table, per-thread caches | `loadConstantsImpl`, `loadTTImpl`, `digitizeHitImpl`, efficiency and threshold hooks | CCDB, GEMC workers | failed or empty loads, caches that outlive a run | partly |
| Magnetic field plugin (`plugins/field`) | per-thread field maps | load, interpolate | vendored library | floating point | not modelled |
| coatjava installation (`install_coatjava.sh`) | directories and jars | clone, build, download, reset | Meson configure, CI | partial runs taken for complete ones | partly |
| Geometry generation (`generate_geometry.zsh`, `clas12_common.py`, the drivers `<detector>.py`, `scripts/check_geometry_gemc.py`) | one SQLite database of all detectors; mesh directories; the installed copy | clear, publish, copy and rename banks; collect meshes and rewrite their paths; install; check | nine drivers on three tables, the steering cards, the test suite | killed drivers, rows of older runs and older checkouts, run-number keys | modelled but for the ASCII factory |
| Detector geometry (`*/geometry.py`, `materials.py`, `mirrors.py`) | the volumes published so far | builder functions per variation | driver; each other, through names and shared space | lengths that depend on lengths, names computed in several places, two tables of one thing | modelled but for curved surfaces and colours |
| coatjava bridge (`*/coatjava.py`) | the factory's table in the source directory | locate, run, read, remove, publish | Java, the installed coatjava | stale and partial tables | modelled |
| CAD mesh builders (`build_cad_meshes.py`, `*_mesh.py`, ...) | none | surface computations | STL files | floating point | not modelled |
| hipo-histos and its gate (`hipo-histos`) | histograms of one or two files, verdicts | parse options, read, fill, finalize, compare, write | CI | correlated hits, comparisons that silently do not count | modelled but for drawing |
| Database comparison (`scripts/compare_ascii_databases.py`) | working directory, failures so far | read two schemas, normalize, match, compare, conclude | drivers, clas12Tags reference | forgiving too much or too little; one system's failure hiding another's | modelled |
| Other scripts, CI and dependency installation (`scripts`, `ci`, `meson`) | logs, exit codes | measuring, downloading, staged build | everything | networks and runners | not modelled |

What makes each of them correct:

- *Streaming readout*: a frame is written once, in order, with all the samples of all events; a completed
  file depends on the input alone, not on the number of workers or the schedule; errors stop the run rather
  than leave a wrong file; every thread comes to rest; no time computation overflows.
- *HIPO gstreamer*: every event is written once, with the rows of that event only, and no hit of a detector
  loses its bank because of another hit.
- *Digitization*: a worker never digitizes with constants or a table that failed to load or belong to an
  earlier run.
- *coatjava installation*: a run that reports success leaves a usable installation.
- *Geometry generation*: what a driver that finished leaves behind depends on nothing that was there before, serves
  every steering card, and touches no other detector; what is installed is complete.
- *Detector geometry*: volumes fit into each other, everything a volume refers to is published with it, channels
  are distinct, and each mirror faces its photomultiplier.
- *coatjava bridge*: a detector's volumes come from one whole table of the attempt that publishes them.
- *Database comparison*: a change that matters is reported, another way of writing the same is not.
- *Comparison gates*: success means that what should be compared was compared, and files that say the same
  per event agree.

`PROJECT.json` lists the hazards, each at its line, with the properties that would catch it.

## 2. Streaming readout

### 2.1 Modules

- `SroFormat`: the constants of the format and the frame of a time (`FrameOf`, `FrameBegin`, `FrameEnd`).
- `FtCalClock`: event id to run time, the bound of the remaining events, the refusal of a run that would
  overflow (`sro_timing.h`, `sro_implementation.cc`).
- `FtCalStream`: `stream_hit` as three exclusive outcomes for a hit (`Rejected`, `Dropped`, `Emitted`) and the
  payload of an emitted one. A hit is a record of what those decisions read. Calibrated charge and signal
  time are inputs, because everything the rest of the system sees of the energy, the calibration and the
  Gaussian draw is those two numbers (or that they are not finite: `measurable`).
- `FtCalTimeline`: the clock alone up to the largest time, with the questions of the service
  (`AskBound`) and the hits of the workers (`Stream`) interleaved.
- `SroFrame`: what `encode_frame` accepts: boundaries, samples, and a slot directory of 16-bit fields.
- `SroRun`: the whole run. It composes the modules above with the crate threads of `jlab_sro.cc` and with the
  external service.
- `SroOutput`: the abstract specification of the files of a run.
- `SroRunProperties`: the properties of a run, the inductive invariant and the refinement mapping to
  `SroOutput`.
- `SroRunProofs`: the proofs, first about the stream and the timeline, then about the run.
- `MCSroRun`, `MCFtCalTimeline`: instances for TLC.

### 2.2 State and actions of `SroRun`

| Variable | In the code |
|---|---|
| `clock`, `hits` | the options of the run and what the simulation produces, fixed before the run starts |
| `inOrder` | whether the service hands events over in their order; fixed, and FALSE where nothing is assumed of it |
| `run` | GEMC's run state: refused by `configure_run`, running, completed, failed (any thread threw), interrupted |
| `status`, `streamed` | per event: queued, in work on a worker thread, complete, failed; hits already given to `stream_hit` |
| `pending` | payloads emitted and not yet handed to a crate |
| `published` | the last bound the service sent |
| `inbox` | per crate thread, messages in flight (payloads and bounds), first in first out |
| `phase` | per crate thread: sink not open, between messages, inside the loop of `advance_time`, or how it ended |
| `safe` | argument of the latest `advance_time` |
| `frames` | `Crate::frames`; the samples keep the order of `push_back` |
| `file` | the frames given to the sink's stream; when it has failed, those that are whole on disk |

A payload carries the event and the position of its hit. The code does not keep them: they are history
variables that give samples an identity, so that "which samples" can be said at all.

Actions of the workers are `Claim`, `StreamHit`, `DropHit`, `RejectHit`, `CompleteEvent`; of the service
`Release`, `PublishProgress`, `EndRun`; of a crate thread `OpenSink`, `ConsumePayload`, `RefusePayload`,
`BeginAdvance`, `WriteFrame`, `WriteFails`, `EndAdvance`, `FinishRun`; of the user `Interrupt`. `advance_time`
is split into one step per turn of its loop, since the write of a frame may fail between two turns and other
threads run in the meantime. A step that throws in the code is an action that ends the crate (`RefusePayload`,
`WriteFails`, the second branch of `OpenSink` and `FinishRun`) or the event (`RejectHit`) and fails the run.

A stream that fails (`StreamFails`, in a write or in the close of `finish_output`) is a buffered `std::ofstream`: of the records given
to it some from the first on are on disk, and the next may be there in part (`phase` is then `torn`). A crate that stops for another
reason closes its stream in the destructor, where a failure goes unseen; that last failure is not modelled.

### 2.3 What is assumed of GEMC

The service is not in the repository. The model assumes what `sro/README.md` and the plugin interface
state of it: (1) a bound is sent for `first` only when the events `[0, first)` are fully delivered, that is, all their
payloads are in the crates' queues; (2) a crate's messages are processed one at a time in the order sent; (3) a
completed run finishes a crate after its last message, a failed or interrupted one at any message. Nothing
is assumed of the order in which events or payloads are handed over, except in the inputs with `inOrder`, which
exist to ask what a service that releases events in order adds (the same order of samples inside a frame,
`CanonicalOrder`, and with it files that are identical byte for byte, as `check_ftcal_sro.py` demands). A
worker that threw fails the run; its event never counts as delivered. A failed or interrupted run still
lets threads take steps, in any order, until the crates have finished.

### 2.4 Properties

- `WrittenFramesFinal`: a frame in a file holds exactly the samples all events of the run put there, those
  that have not been streamed yet included; a record in part can only follow the last frame of a crate that failed. This is what "rather than silently writing late data into an
  already completed frame" (`sro/README.md`) asks for.
- `FramesAscending`: over all calls of `advance_time`, no frame is written twice or after a later one. With
  `WrittenFramesFinal` and `CompletedOutput` this also means that no sample is written twice.
- `CompletedOutput`: a crate that finished a completed run holds exactly the frames that end at or before the
  final bound, a function of hits and clock.
- `NothingRejected`: worker, collector and encoder agree: neither the checks of `consume_payload` nor those of
  `encode_frame` ever fire on what `stream_hit` emits.
- `CanonicalOrder` (in-order service), `RunEnds` (every run whose workers go on comes to rest),
  `CoveredFramesAreWritten` (files keep up with the bound while events are in work).
- `IdleCratesCaughtUp` is what the last one rests on at every state: a crate with nothing left to process has every frame the last
  bound covers in its file. `RunProgresses` is what `RunEnds` rests on: until the process exits some worker, the service or some crate can go
  on (`NobodyWaits`), and each of their steps uses up something that is never given back (`StepAdvances`): a hit or the status of an
  event, then a pending payload, then distance to the final bound, then the run, then a message, an open frame or the phase of one crate.
- `ImplementsOutput`: the run refines `SroOutput`.
- `BoundIsHonest` (timeline): see the run. `FrameStaysRepresentable` and `BoundNeverOverflows` are proved for all
  values of the constants (2.6) and not run as well.

### 2.5 Runs, bounds and fairness

| Run | Specification | Inputs | Properties |
|---|---|---|---|
| `any_order` | `Spec` | 12, clean and failing | `TypeOK`, `WrittenFramesFinal`, `FramesAscending`, `CompletedOutput`, `NothingRejected`, `IdleCratesCaughtUp`, `RunProgresses` |
| `streaming` | `ReadoutSpec` | a clean run with bounds on frame boundaries, a failing one, three clean ones in order | `CanonicalOrder`, `CoveredFramesAreWritten`, `ImplementsOutput`, `RunEnds` |
| `timeline` | `FtCalTimeline` | 27 clocks, 10 event counts, 21 signals | `BoundIsHonest` |

The instances of `SroRun` have three events, two workers, two crates, frames of two time units, events two
units apart and a minimum signal of -1. That is the smallest size at which the interesting cases exist: a
frame fed by two events, an event overtaken by a later one, a frame past the final bound, a frame that ends
exactly at a bound, a crate that gets nothing while the other one does. `FrameCapacity = 2` makes a full frame
reachable with three samples; `DirectoryLimit = 9` is the value for which the capacity is just small enough, as 65500 is for
16 bits (65500 samples, 17 words of head and directory, at most 16 markers). The inputs contain what `stream_hit` throws on (bad address,
not measurable, below the minimum, beyond the limit), drops (silent, before time zero), and a run that
`configure_run` refuses. `OptionLimit`, `TimeMax` and `MaxCharge` stand for 1e12, the largest 64-bit integer and 8191.

Fairness: `ReadoutSpec` lets the service and the crate threads run (threads that are never starved by the operating
system), so `CoveredFramesAreWritten` holds even when a worker never comes back. `RunEnds` has `WorkerFairness` as its
premise: workers with an event take steps and GEMC hands out queued events. Nothing obliges a user to interrupt,
a write to fail or an error to occur. Deadlock is checked in the runs of `SroRun`;
`Stop` is the stuttering of a run that is over. In `timeline` it is off: after the last event nothing is
left to ask.

### 2.6 Proofs

All theorems hold for every frame duration, address range, capacity, set of crates, number of events and
workers, and every set of inputs. They rest on the named assumptions on the constants (`FormatAssumption`,
`ClockAssumption`, `RunAssumption`, `CapacityAssumption`, `InputAssumption`, `TimelineAssumption`), which TLC evaluates in the runs.
`InputAssumption` says that the clock is one `clock_from_options` can return and that an address of the translation table belongs to a
known crate; `CapacityAssumption` that a full frame with all its slot markers fits the directory (65500 + 2 + 30 = 65532 words against 65535).
All proofs are in `SroRunProofs`.

*Operators.* `ArrivalAfterBound` (an emitted payload is never before the bound of its event), `ArrivalFrameFits` (its frame
ends in range), `PayloadFits` (its fields fit the format), `BoundMonotone`, `FrameHolds`.

*Timeline.* `BoundStaysHonest`, `FramesStayRepresentable`, `BoundsNeverOverflow`.

*Run, safety of what is written* (`TypeCorrect`, `RunInvariant`, `WrittenFramesAreFinal`, `FramesAreAscending`).
`WrittenFramesFinal` is not inductive: nothing in it says why the sample of a slow event cannot turn up
later. `RunInv` adds the reason. A bound never passes an event that is not delivered (`BoundHolds`); what is
pending comes from such an event (`PendingEmitted`), so it is at or after the bound; inboxes keep the order, so a
payload never follows a bound that covers it (`InboxOrdered`); open frames lie behind all written ones
(`FramesOpen`, `FileCovered`); and every payload is still to be streamed, pending, in the inbox, in an open frame
or in the file as long as its crate lives (`NothingLost`). When a frame is written its end is at or before the
bound, so each of its samples can only be in the open frame itself (lemma `FrameWhole`).

*Nothing is rejected* (`NothingIsRejected`). With `FillInv`: an open frame has at least one and at most `FrameCapacity` samples, and no
crate was rejected. What `consume_payload` checks is an invariant of the payloads in an inbox. What `encode_frame` checks follows from
the directory lemma: the offset of a slot is the number of markers and samples before it, and the samples of different
slots are disjoint parts of one frame, so that no offset exceeds `CapacityAssumption`'s bound.

*The files are a function of the input* (`RunImplementsOutput`, `CompletedOutputIsOwed`). Every step of a run is a step of `SroOutput` or leaves
what it sees unchanged: `WriteFrame` appends the lowest owed frame that is missing (by `RunInv`, whatever lies before it is in the
file already), `FinishRun` seals a crate only when nothing owed is missing, and every other end abandons it, with what its stream had brought to the disk. The last part needs
`DrainInv`: the last bound has reached a crate or is in its inbox, outside its loop a crate has no open frame that ends at or before the bound
it knows, and a completed run has delivered all events and sent the final bound. That no file has a sample twice needs `UniqueInv`: a payload
is in one place and in one position there.

*Order* (`OrderIsCanonical`). For a service that keeps the order of events, `OrderInv`: what was released comes before all that is not, an
inbox is sorted, and what a crate has taken comes before what it has yet to take; so appending keeps frames sorted.

*The safety half of liveness* (`IdleCratesAreCaughtUp`, `RunAlwaysProgresses`). `DrainInv` gives the first: an idle crate knows the last bound, so a
payload this bound covers is in no open frame, and `RunInv` leaves only the file. For the second, `FailureStops` (a failed event has ended the run) and `DrainInv`
decide by the state of the run who can go on: a worker, the release of what is pending, the bound of the first event that remains, the end of the run, or a crate
with a message or, once the run is over, its end. That each step advances the measure is one case per action.

Only model-checked: liveness itself (`RunEnds`, `CoveredFramesAreWritten`), which TLAPS does not do. What is missing between
`RunProgresses` and `RunEnds` is that fair actors take the steps they can take, and that the measure is well-founded.

## 3. Calibration constants and translation tables

`CalibrationTables` lists, for the seven plugins that ask CCDB for anything, the tables in the order they are
read, where the rows go (a fixed array, a vector by row order, a vector by channel, one row) and whether the query
is guarded, and next to it what digitizing a hit checks and then indexes. `Calibration` is the load itself, run after
run in one process: `Connect`, one `LoadTable`, `RefuseTable`, `QueryThrows` or `SkipStatus` per table, and the
translation table with its own three outcomes. What is stored for a component is the component and run whose row it
came from, or a default; a hit changes nothing, so digitization is stated by `Accepted` and `Reads` in
`CalibrationProperties`.

Abstractions: a stored constant is not zero (so "zero means not calibrated" is "default"); one behaviour is one plugin;
one layer of `NumComponents = 3` components stands for all. `Answers` are the sets of components whose rows the loop over
an answer takes. The plugins in `Selective` (HTCC, FT_CAL, FT_HODO) pass over rows that name no component of theirs, or
(the two FT ones) have too few columns; such rows leave no trace, but a table of nothing else is not empty to `loadTable`, so
`PassesOver` lets it through. The other plugins index with what a row names, unchecked: their rows name components and have the
columns that are read. `partial` remembers the incomplete answers behind the constants; a load that clears the constants clears it.
`MaxGaps` bounds the incomplete answers of a behaviour, `MaxRuns = 2` is what staleness needs. A load may
end aborted or terminated, and runs are bounded, so deadlock is not checked.

Run `constants` checks `RequiredTablesLoaded`, `NothingStale`, `ReadsInBounds` and `OwnConstants`. The code has a fault in
three places, and each property says how far it goes instead of leaving the plugin or the table out:

- The drift chambers do not clear their constants: `NothingStale` holds for them while every answer was complete.
- ECAL asks only that `tmf_offset` is not empty, and then reads it at the strip: `ReadsInBounds` holds of it when its own
  table was complete in this run, and of every other index without condition. What is checked (`covered`, `present`) and what is read
  (`reads`, `firsts`) are transcribed from different lines: the test at the start of a hit, and the digitization with its two hooks.
- ECAL and FTOF store rows by their order: `OwnConstants` excludes a table of that kind with a row after a missing one,
  and only that table.

`RequiredTablesLoaded` exempts, besides tables whose rows were all passed over, the fourth row of the pressure table
(`UncheckedAtLoad`). An empty translation table counts as loaded where the code accepts it (section 13).

All four are proved in `CalibrationProofs`, for any number of components, runs and gaps and any set of answers (`RequiredTablesAreLoaded`, `NothingIsStale`,
`ReadsStayInBounds`, `ConstantsAreOwn`). Of the lists of tables the proof uses only that two tables of a plugin never have one name, how each is stored,
and that a hit asks for what it reads unless that is in a fixed array or is `tmf_offset`; the lemmas `TablesWellFormed` and `TablesReadSafely` derive this from the lists. The
properties speak of the state while events are digitized; `CalibrationInv` says what holds table by table on the way there. `LoadInv`: the
mandatory tables before `next` have a row of this run (`HasRow`), and a row for every component after a complete answer (`IsFull`), which is
what bounds the drift chambers' stale values and the reads of `tmf_offset`. `CurrentInv`: a stored constant is of this run or a default,
except for the drift chambers. `OwnInv`: a row sits where its component is, table by table, unless the table is stored in row order and had a
hole; the lemma `RowWithoutHole` says that the rows of a set without
holes are numbered as their components (the position of a component in the order of a finite set, by well-founded induction on the naturals).

`QueryThrows` and `TranslationThrows` are exceptions that leave the plugin: five `loadTTImpl` and the status queries of
ECAL and FTOF are unguarded, where the README promises a clear error.

## 4. Photon caches of LTCC and HTCC

`PhotonCache` (proofs: `PhotonCacheProofs`, section 11) models workers that step and digitize events, with the `thread_local` map from photomultiplier and track
number to detection probability. A probability is represented by the event whose step stored it; hits are the
(photomultiplier, time cell) pairs GEMC collects, with the particle of their first step and the tracks in them.
Collection and the end of the event are external. `Unusable` are photomultipliers whose hits return before the lookup
(invalid index, no TDC conversion); they leave entries in the map for good.

Run `photons`: two workers, two photomultipliers (one unusable), two time cells, two track numbers, two events, with
workers and track numbers symmetric (no definition distinguishes them). Two events suffice for an entry to be
left and met again; two cells for a photon to be found twice. `OwnProbability` and `PhotonCountedOnce` hold. They speak of photons: another particle that joins a hit begun by a photon in the same
time cell is collected with the photons and, without an entry in the map, counted for certain.

## 5. HIPO streamer

`HipoStreamer` has an action for each method GEMC calls. State: `connection`, `dictionary` (the schemas in the file's
head), `runNumber`, `outEvent`, `trueInfoBuffer`, the `file`, and `gevent` and `given`, which stand for GEMC: the event being
published and the data of all events so far. A digitized hit is the set of prefixes its variables carry, as the
digitizers of this repository produce them (`HitKinds`); a row is known by event, detector and hit. The order of calls in an
event (header, particles, then detector by detector in any order) is external.

Run `hipo`: two events of up to two hits of LTCC, whose hits differ in their variables, and of ft_trk, whose bank is found
through an alias; the other detectors behave like one of the two. A file may end at any time and holds at most
`MaxEvents` events, so deadlock is not checked. `EventsIsolated` says that an event on file is whole and its own: its number,
its run, the true information and the digitized rows of its hits under banks the file's head describes. `AgreeingHitsHaveBanks` is limited
to hits that agree on their variables, since the first hit decides for all (section 13).

Both are proved in `HipoStreamerProofs`, for any set of the detectors, number of events and of hits (`EventsAreIsolated`, `AgreeingHitsKeepBanks`). They speak of
events on file. `MakingInv` says the same of the event in the making, as far as it has got: of each detector that has published its
true information, and of no other, the buffer has one row per hit; of each that has published its digitized hits, the banks are those hits; the header is there
once it was published, and `MC::True` is not there before the end. `CallsInv` counts the events made and written, so that what the
buffer holds is of this event. A publication adds banks of its own detector only (`SchemasDiffer`, from the schemas and aliases of the source), which
is why the order of the detectors does not matter. The model lists the banks of a detector with the rows of the digitized hits (`Digitized`), those with
none of the bank's variables included, as the loop over the hits does once the first has decided for the bank.

## 6. coatjava installer

`CoatjavaInstall` has an action per command of the script that can fail or leave something behind, `RunByHand` and
`Configure` that start it (Meson only runs the script when the installation directory is absent, without a reset and for the latest
release), and `InstallKilled`. The three products grow and shrink in two steps (absent, partial, complete), so that a kill
finds every intermediate extent. `set -e` is `Fail`: a failing command ends the run and cleans nothing up. `set -u` is `Unbound`: a bash before 4.4
(`oldBash`; macOS ships 3.2) takes an empty array for an unset variable, so that line 89, which names the jars to be removed, ends a reset over leftovers
without a jar before anything is removed. `ResetRepairs` speaks of a reset in which no download, build, copy or removal failed, over any history of runs
that did: it installs, or it met just that case. `SuccessMeansInstalled`, an action property, covers what the
script may do to an installation that is there as well: it is only removed on request. `InstallerEnds` assumes only that a
running script goes on (`WF_installVars(Step)`); failing or being killed is never assumed, nor excluded. `CommandsRunOut`, also an action property, is why it holds: the number of
commands a run can still give, the attempts at asking for a release and the work of `rm` and `cp` counted one by one, goes down with each. `Attempts` is the script's 3. Run
`coatjava` checks the module itself; the proofs of its three safety properties are in `InstallationProofs` (section 11).

## 7. hipo-histos

`HistoSubsystems` is what the seven subsystems do with an event: which rows of which banks count (`Accepted`,
`WireHit`), the bins they fill (`Fill`, a bag of pairs of histogram and bin), which histograms a comparison diagnoses
(`Diagnosed`) and what divides their contents (`FinalDivisor` for `finalize`, `ScaleDivisor` for the inverse of
`diagnostic_scale`). `HistoCompare` is the process: `parse_args`, per file `open_file`, `process_event`, `end_file`, then
`diagnose`, `save_comparison`, `write_output`, `finish`. A step that throws ends it with "error". Its state is the stage,
the contents per file, the verdicts, the directories written and how the process ended.

Abstractions: contents are the raw sums of what was filled, and all divisions are carried to the comparison, which is
then exact in integers; constants that only fix a unit (MHz, percent) are one. A row has one value, the index of
its bin (0 is off the axis), and hits of a layer stand for those of its twelve in a drift-chamber region. A label is
its sanitized form. That ROOT makes no second directory of a name and returns null is external, as are the HIPO reader
and writing to disk (`disk` says whether the directories of an input can be made). Histograms that are only drawn are filled but not
diagnosed.

Run `histos`: for each of the seven subsystems all ordered pairs of eight file contents (none, a quiet event, a hit, several
hits of one event in one bin, rows off channel, axis, threshold or digitized hit) under three sets of options, and the
command lines and disks that make each step throw. Two sectors, one layer per region, two bins, `MaxSigma = 1`, `MaxPercent = 50` and
`MinChi2Bins = 2` are the smallest values at which each of the gates opens and closes. The process stops, so deadlock is not
checked.

- `VertexCountsEvents`: vertex bins count events, and the error that `finalize` computes from two sums is the spread
  over all pairs of events.
- `VerdictFollowsRates`: two files with the same contents per event agree in every histogram, and a spectrum that is empty in one of
  two files of as many events fails, in spite of the three ways the gates have to excuse low statistics. `NotPerEvent` names the
  exceptions the code makes: hit positions that are never scaled, maps of sectors without primaries, and the drift
  chambers' vertex rates (section 13). With a floor on the entries an empty spectrum does not fail: all its bins are skipped.
  And which file is named first makes no difference to any verdict.
- `ExitTellsVerdict`: the meaning of the exit status.

### 7.1 What is proved

`HistoCompareProofs` proves all three for every command line, detector size, limit and pair of files (`EventsAreCounted`, `RatesDecide`,
`ExitStatus`). The assumptions say that banks and layers are finite, that files hold sequences of events and that the numeric
options are integers (`EventsAssumption`, `SubsystemAssumption`, `OptionsAssumption`). The inductive invariant `RunInv` has three parts.

- `StagesInv`, what each stage has established: after `diagnose` the verdicts cover the diagnosed histograms exactly if two files were
  read, which `parse_args` has tied to `--fail-on-diff`; after `write_output` every label has its directory. `ExitStatus` needs no more.
- `HistosInv`: the contents of a file are counts, a file without events has none, no more events were added than the file has, and at the comparison the
  verdicts are those of the two files read. From there the argument is about one histogram. Exchanging the files exchanges the scaled
  contents and the terms of each variance, and none of the three gates tells the two apart (`PassedIgnoresOrder`, `OrderIgnored`). Files of the same content per
  event come to the same scaled contents whichever of its divisors a histogram has (`SameRatesScale`), which the gates then accept
  (`SameContentsPass`). A histogram empty in one file has the other's entries both as difference and as variance, so that both halves of the
  integral gate close on it (`QuietFails`).
- `SumsInv`: a content is the sum over the events added so far of what each of them fills, and the squares are the sum of their squares.
  With this `VertexCountsEvents` is a fact about sums: one of zeros and ones counts the ones (`SumCounts`), and n times the sum of the squares
  less the square of the sum is the sum over all pairs of their squared distances (`SpreadOfPairs`).

The fold behind `SumOver` picks elements in an order of its own. The lemmas from `SumDefinition` to `SumWithElement` establish what it
computes over a finite set: that the function it is defined by exists and is the only one, that any element may come first, that it is
linear. They go by induction on the number of elements, stated over a set of the good ones (`NaturalsCounted`, `SubsetsCounted`).

## 8. The geometry database

### 8.1 Modules

`GeometryDatabase` has the rows of the three tables as its state and a driver as the list of its steps (`Program`): clear
(`Resets`), publish materials, mirrors and volumes variation by variation (`ForEach`), copy the transverse banks, rename to
"default" (`Indexes`). The run numbers of all variations are those of the source. A row is known by table, bank, label, run and the
builder that made it, with the start of the driver that published it (`made`) and, for a CAD row, what its mesh path is relative to. The
volumes of one builder are two rows, so that a driver can die inside a builder. `Start`, `ResetBank`, `PublishRow`,
`CopyTransverse`, `IndexBank`, `Finish` are a driver; `Killed` ends one anywhere; `Check` is `check_geometry_gemc.py` up to the
steering files it writes.

`GeometryCollect` puts `generate_geometry.zsh` around the same drivers: `Select` (the old database is removed first), `Drive`,
`DriverEnds`, `CopyMeshes` (the mapped directories of a detector in their order, any of whose files may be missing in the source; the first directory without
a mesh ends the script after those before it), `RelocateMeshes` (one transaction over the local CAD rows, which passes over those collected before and
which a row whose file was not copied rolls back), `Erase`, `CopyExperiments`, each with its way to fail, and `ScriptKilled`. In stage "off" the
drivers are the geometry tests, which keep their database from run to run.

### 8.2 The run `geometry`

All nine detectors, in pairs that share a database (`MCGroups`), over an empty one and over what an older checkout may have left (`MCOld`: rows
under retired bank names, labelled by variation, and of a run that is no longer used; or rows already renamed, half of every bank at the run of every card), three starts of a driver and two runs of the script. Three starts are a killed one, one
that repeats it and one of a second detector. Processes are bounded, so deadlock is not checked.

- `FinishedBanksAreFresh`, `FinishedBanksServeCards`: what a driver leaves when it runs to its end is its own, under "default",
  and everything the steering cards ask for, whatever came before; and `index_detector_banks_by_run` never stops a
  driver for ambiguous runs.
- `PassedCheckSawWholeBanks`: the check counts rows, and passes no driver of this checkout that died half way, whatever an older one left: a driver clears all its
  banks before it publishes the first row, and renaming comes last. Of a detector none of whose drivers came to publish a row (`Older`) the check passes what
  the older checkout had indexed, whole or not: it cannot tell, and in `geometry` it does.
- `OthersBanksStay`, an action property: a driver changes no row of another detector.
- `InstalledMeshesExist`: every row of a whole installation names a mesh that is installed, and every card finds its banks.

### 8.3 Proofs

`InstallationProofs` proves all five, for any groups of detectors, any rows an older checkout may have left (`GroupsAssumption`), and any number of
driver starts and runs of the script: `BanksAreFresh`, `BanksServeCards`, `ChecksSawWholeBanks`, `OthersBanksAreKept`, `InstallationsAreWhole`.

What the programs of the nine drivers promise is stated as assumptions, because a program is put together by a fold over lists and no
installed prover evaluates one. They have no free constant: `ProgramAssumption` (a program clears all banks its detector owns before it publishes and
indexes every bank after it has published, and no two detectors own a bank together), `ContentsAssumption` (rows of one table, bank and run have one label, and only
the run of the default variation is labelled "default"), `CardsAssumption` (the rows of a program serve its cards) and `MeshAssumption` (only the detectors whose STL
directories the script maps publish CAD rows) are facts about the fixed programs of the source, all of which TLC evaluates in run
`geometry`. `GroupsAssumption` says of an older checkout's rows only that they are rows and that no driver of this checkout made them; any label at any run may be among them.

The invariant, `GeometryInv`, has two halves. Of the database:

- `DriverInv`: what the process has left is a rest of its program (`Remaining`): still ordered, and still due to index each bank unless it indexes already.
- `WorkInv`: a bank that is cleared has rows of the running driver only, each one a row of the program, under its own label until the bank is indexed; and
  every row of the program is in the table or still to come. The copies of the transverse rows come after all rows, so they find all they copy.
- `FinishedInv`: the banks of a finished driver are exactly the contents of its program, under "default".
- `AgeInv`: the banks of a detector hold rows of an older checkout or rows of this one, never both.
- `WholeInv`: each bank is whole, or has no row of another run under "default", or is the older checkout's, wherever a driver died. This is what the check relies on: a
  card it passes has found volumes, and each bank is named by a card of a run that is not the default variation's (`CardsAssumption`).

`IndexBank` never aborts because of `WorkInv`: two rows of one bank, table and run are rows of the program and have one label (lemma `NeverAmbiguous`). Of the script:
`ScriptInv` (no driver runs outside "off" and "driving"; meshes are copied for the head of the selection, which is finished) and `CollectedInv` (every
detector that is not in the selection any more is finished and names only mesh files that were copied), which holds for the next detector
because relocating changes nothing but mesh paths (lemma `RelocateRows`) and a driver changes only its own banks (lemma `DriverStepFrame`).
When the selection is empty that is all detectors, and installing copies it.

Not in the model: the ASCII factory, whose files are separate per variation, and that the check then runs `gemc`.

## 9. Detector volumes and materials

### 9.1 Modules

`GVolumes` is what a builder may publish (names are sequences, lengths integers in micrometres, angles in
hundredths of a degree) and the arithmetic of space: `Disjoint` and `Holds` for axial tubes, polycones and boxes.
`FtCalorimeter` and `FtTracker` (the whole of `ft/geometry.py`), `HtccGeometry`, `LtccGeometry`, `BeamlineMagnets` and
`FactoryDetectors` (what ec, pcal, ftof and dc make of a row of a factory's table) define the sets of volumes each builder function
publishes; `DetectorMaterials` the materials and mirror surfaces. These are definitions without state. `DetectorBuild` is one turn of a driver's
loop: `CallBuilder` after `CallBuilder`, or `CallCoatjava` and the bridge, with `Interrupted` and `RunAgain`. `DetectorProperties` says what a
bank that came through must be like.

Left out: colours, descriptions, styles; the equations of the curved mirrors (a curved solid is a solid of its own that space is
not computed for); what a factory writes besides names, mothers and solids. The tables of the factories are external: `TableSectors` limits them to
the sectors that differ, with every strip of a sector.

### 9.2 The coatjava bridge

`CoatjavaBridge` is `generate_volumes`: find Java, classes and jars; run the factory; read its table; remove it; publish row by row. The
factory may fail or be killed after writing a part, and what lies where it writes may be of an earlier attempt. `RunFactory` gives all combinations
of what is written and the exit code that the factory's order of writing allows.

### 9.3 The run `detectors`

`MCBuilds` has every detector with each variation that builds something of its own, and `MaxTries = 2` lets an attempt meet what the one
before it left. A driver may stop, so deadlock is not checked.

- `VolumesDoNotOverlap`: two solids of one mother share no space and lie in their mother, and beamline, magnets, HTCC and FT,
  which one experiment loads together, share none in the world. `KnownOverlap` names the one exception: the
  pre-shield of `rghFTOut` stands in the lead (`FTPreShieldCylinder` with `Cylinder` and `SupportTube`, `beamline/geometry.py:147`).
- `ReferencesResolve`: mothers, operands, copies, surfaces and materials are published with whoever names them, and the materials can
  be used: fractions, components, lists and grids; equal names mean equal matter. HTCC and LTCC both publish `HTCCgas`,
  with lists over different grids, which is the one difference it lets pass.
- `ChannelsAreDistinct`: identifiers; `ReadTogether` names the strips that share one by design.
- `CherenkovChannelsAreWhole`: in HTCC photomultipliers stand in the foci of their mirrors, two tables and a rule of names agreeing, and
  neighbouring mirrors are cut by one plane; in LTCC each channel of a sector has all of its optics, on its side, and absent sectors have nothing.
- `BankIsWhole`: what a driver leaves is the volumes of all its builder functions and of each row of its factory's table, a function of detector and
  variation alone, however many attempts failed before and wherever. The table is a whole one of this attempt and is gone; rows nobody
  expects stop every driver but that of the drift chambers, which passes over them.

The first four are about the bank a driver has filled, so one state per build decides them. `BankIsWhole` needs the failures, and is what makes one
state enough: it is proved for any number of attempts (section 11), so no sequence of failures leads to a bank the other four have not seen.

## 10. The comparison of ASCII databases

`AsciiCompare` is `compare_ascii_databases.py`. A field is a sequence of words and numbers with a unit (integers, in
1e-5); the normalizations, the two schemas and their column order, companions, drift-chamber aliases, CAD placements and tolerances are
operators, and the run over the systems is `MakeWorkdir`, `EnterTry`, `RunSystem`, `CompareFiles` (per section), `CompareCadFiles`, `Finish`, `Interrupted` and `Killed`.
The working directory is there from `MakeWorkdir` on, and the `finally` clause removes a temporary one only from `EnterTry` on: it stays behind after an
interrupt before that, after a signal that kills the process, and after a removal that fails or is interrupted. No property is stated of it.

Run `ascii`: three systems, one of which is written with one change, after one whose driver may have failed; every combination of `--workdir` and
`--keep`. The process ends, so deadlock is not checked. `Told` lists ways of writing the same, `Changed` changes of each field and file, `Unseen` what the
script cannot see: a row that a later row of the same name hides, and a CAD mesh of dc or magnets that the reference does not place.

- `ReportsExactlyTheChanges`: every change of `Changed` fails its system, whichever it is and whatever became of the others, and none of `Told` does.
- `VerdictIsPerSystem`: when `main` returns, the systems named as failing are those that do not agree on their own; proved. A run whose clean-up raises ends with a
  traceback, whose status is 1 too.
- `PassMeansSame`: what a status of 0 promises, stated over the rows of the files: every variation of the reference was written, and each row of either side has one of its
  name on the other that says the same; proved. The normal forms of a row are the script's. Excepted by name is what the script passes over: a row that a later one of its
  name hides, the light stoppers, the readout of mirrors, and the meshes of dc and magnets that the reference does not place; of these a pass says nothing. It is what
  would catch a record that is dropped on one side only, or a field that is excused for more volumes than the mirrors.

A number that is zero loses its unit in the normalization, so that 0 and 0.00001 mm differ although both are within the tolerance that the docstring of `values_equivalent` promises.

## 11. Proofs about these modules

- `AsciiCompareProofs.VerdictCorrect`, for any systems, drivers and references. `VerdictIsPerSystem` speaks of the end only; the
  invariant says that the failures are the disagreeing systems among those that are done with, and that `differs` is
  whether one of the sections compared so far differed.
  `PassIsAgreement` builds on `VerdictCorrect`: a status of 0 means that each system agrees, and the lemmas `VariationAgrees`, `SectionOfAgreement` and `MeshesOfAgreement`
  show, from the operators alone, that agreement in the script's sense is a counterpart for each row that is not passed over. `PolyconesCompare` is about the one
  normalization that moves data: for any number of planes, the two orders of a polycone's arrays come to the same dimensions exactly when head and arrays are equal.
- `DetectorBuildProofs.BankIsAlwaysWhole`, for any builds and number of attempts. The invariant: after a factory that exited with 0 the table is of
  this attempt and whole (or malformed, or with a surplus row); rows that have been read are of such a table and the table is gone (`IInv`); and the functions
  still to be called are the rest of the driver's list, while what is published is the bank of those that were called (`BankInv`). It rests on
  `RowsAssumption` (each row of a table becomes a volume of its name and mother), which TLC evaluates for the four tables.
- `DetectorBuildProofs.PcalChannels`, about `pcal_strip_id` for any number of strips: two strips of a view share a channel only as the two singles of a pair or as
  the double strip that stands for them. `ChannelsAreDistinct` finds the same in the tables of the run.
- `InstallationProofs.SuccessMeansInstalledHolds` and `ResetRepairsHolds`, for any number of attempts at asking for the release. The invariant: a run
  under way has not failed; it asks for the release and clones only when nothing of an earlier installation is left; it removes only for
  a reset; it begins to copy the installation when all the jars are there; and it ends in failure only after a failing command or in `Unbound`. Without the second part `Clone` could refuse a
  directory that exists and end a reset without one failing command. `CommandsAlwaysRunOut` needs only the types (`InstallTypes`): each
  label of the script counts fewer commands than the one before it, whatever is on the disk.
- `PhotonCacheProofs.OwnProbabilityHolds` and `PhotonCountedOnceHolds`, for any workers, photomultipliers, time cells, track numbers and events. The invariant:
  a stopped track of the current event is in one hit, and until that is digitized its probability is in its worker's map under
  the number of the current event; an entry of one worker never bears the number of an event another worker is in; what went into a signal of the
  current event is in no hit any more. This is why a map that nothing clears at the end of an event does no harm.
- The proofs of `SroRunProofs` are described in 2.6, those of `CalibrationProofs` in 3, of `HipoStreamerProofs` in 5, of
  `HistoCompareProofs` in 7.1 and of the geometry database in `InstallationProofs` in 8.3.

## 12. What is only model-checked

- Liveness: `RunEnds`, `CoveredFramesAreWritten` and `InstallerEnds`, which TLAPS does not do. The invariants and action properties
  they rest on are proved (`RunAlwaysProgresses`, `IdleCratesAreCaughtUp`, `CommandsAlwaysRunOut`).
- `VolumesDoNotOverlap`, `ReferencesResolve`, `ChannelsAreDistinct` and `CherenkovChannelsAreWhole`: facts about the fixed numbers and names of hundreds of
  volumes, for which a proof would repeat TLC's evaluation. That one attempt stands for all is proved (`BankIsAlwaysWhole`).
- `ReportsExactlyTheChanges`, which is about listed examples. Its general part is proved: a pass is an agreement
  (`PassIsAgreement`), and each system is judged on its own (`VerdictCorrect`).
- What the geometry drivers' programs are (`ProgramAssumption` and the others of 8.3): TLC evaluates them, since they come out of folds.

## 13. Disagreements between docs and code

| Where | Says | Does |
|---|---|---|
| run `vertex_rates` | `hipo-histos/README.md`: files of different lengths are compared per event | the drift chambers' vertex rates are divided by the events twice |
| `*/plugin/load_tt.cc` | README: an empty table aborts the run | five of seven `loadTTImpl` accept an empty translation table |
| `plugins/hipo/event/publishDigitized.cc:30` | `gstreamerHIPOFactory.h`: ADC and TDC banks per active detector per event | an LTCC placeholder as first hit suppresses them |
| `install_coatjava.sh:86` | README: configure installs coatjava if it is missing | not after a clone or build that failed, whose directories it takes for an installation |
| `install_coatjava.sh:89` | line 108: bash before 4.4 takes an empty array for unbound, and macOS ships 3.2 | expands an array that may be empty all the same: there a reset over leftovers without a jar fails and removes nothing |
| `compare_ascii_databases.py:150` | line 493: last-digit rounding is no difference | a zero loses its unit, so that a zero that was rounded is one |

The first has a run of its own. The other five are seen in the source and follow from one guard each; the models behave as the code does.

## 14. Plan

1. `SroCodec`: the word layout of `encode_frame` and its inverse.
2. Which wire or strips a step belongs to (`processTouchableImpl` of dc and ft_trk), over bounded positions.

## 15. Not modelled

The builders of CAD meshes (`build_cad_meshes.py`, `*_mesh.py`, the coil and hub builders), their benchmarks and audits compute surfaces in floating
point and write STL files: there is no state and no order in them. The same holds for clearance and release scripts. Workflows, `ci/*` and
`install_fields.py` download and run commands on hosted machines. Floating-point response functions (drift, light yield, interpolation of the
field) are outside TLA+; where a decision depends on such a value, the value is an input. ROOT macros and translations are not part of the
program. `configure_run`'s last two fields belong to GEMC's configuration, whose meaning is not in this repository.
