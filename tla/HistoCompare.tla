---------------------------- MODULE HistoCompare ----------------------------
(***************************************************************************)
(* A run of hipo-histos: options are checked, the input files are read     *)
(* event by event into the histograms of one subsystem, the histograms of  *)
(* two files are compared, and output is written. Contents are the raw     *)
(* sums of what was filled; every division the code makes is a divisor of  *)
(* the comparison, so that all of it is done in integers.                  *)
(***************************************************************************)
EXTENDS HistoSubsystems

CONSTANTS
  Inputs,       \* command lines, with the files they name
  MaxChi2,      \* --max-chi2-ndf
  MaxPercent,   \* --max-integral-diff, in percent
  MaxSigma,     \* --max-integral-sigma; negative turns the gate off
  MinChi2Bins   \* --min-chi2-bins

ASSUME CompareAssumption ==
  {MaxChi2, MaxPercent, MinChi2Bins} \subseteq Nat /\ MaxSigma \in Int

ASSUME FilesAssumption ==
  \A in \in Inputs :
    Len(in.files) \in Nat /\ DOMAIN in.files = 1 .. Len(in.files)

(* The banks of an event are finite lists of rows.                         *)
ASSUME EventsAssumption ==
  \A in \in Inputs : \A f \in DOMAIN in.files :
    /\ Len(in.files[f].events) \in Nat
    /\ DOMAIN in.files[f].events = 1 .. Len(in.files[f].events)
    /\ \A e \in DOMAIN in.files[f].events :
         LET event == in.files[f].events[e]
         IN \A rows \in {event.adc, event.tdc, event.true, event.particles} :
              IsFiniteSet(DOMAIN rows)

ASSUME OptionsAssumption ==
  \A in \in Inputs : {in.options.floor, in.options.limit, in.options.maxBinDiff} \subseteq Int

VARIABLES
  input,     \* the command line
  stage,
  histos,    \* per file begun: events, contents, sums of squares
  statuses,  \* DiagnosticSummary
  written,   \* directories of the ROOT output
  result     \* how the process ended

vars == <<input, stage, histos, statuses, written, result>>

s == input.system
Comparing == Len(histos) = 2

-----------------------------------------------------------------------------
NoHistos == [events |-> 0, filled |-> EmptyBag, squares |-> EmptyBag]

AddEvent(system, file, event) ==
  LET filled == Fill(system, event)
  IN [events |-> file.events + 1,
      filled |-> file.filled (+) filled,
      squares |-> file.squares (+) EventSquares(filled)]

Content(file, h, bin) == Copies(<<h, bin>>, file.filled)

(* Squared error of a raw content, as a fraction: the spread between       *)
(* events, or one per entry and weight.                                    *)
ErrorDivisor(h, file) ==
  IF h[1] \in EventLevel /\ file.events > 1 THEN file.events - 1 ELSE 1

SquaredError(h, file, bin) ==
  LET content == Content(file, h, bin)
  IN CASE h[1] \in EventLevel ->
            IF file.events > 1
              THEN file.events * Copies(<<h, bin>>, file.squares) - Square(content)
              ELSE 0
       [] h[1] = "layer_wire" -> Weight(Region(bin[2])) * content
       [] OTHER -> content

Distance(x, y) == IF x > y THEN x - y ELSE y - x
Larger(x, y) == IF x > y THEN x ELSE y
SumOver(f, S) == SumFunctionOnSet(f, S)

AddFractions(x, y) == <<x[1] * y[2] + y[1] * x[2], x[2] * y[2]>>

(* passes_entries_floor sees the contents as finalize leaves them.         *)
PassesFloor(system, h, a, b, bin, floor) ==
  floor < 0 \/ \A f \in {a, b} :
                 Content(f, h, bin) >= floor * FinalDivisor(system, h, f.events)

Compared(system, h, a, b, options) ==
  {bin \in Bins(system, h) : PassesFloor(system, h, a, b, bin, options.floor)}

Divisor(system, h, f, normalize) ==
  FinalDivisor(system, h, f.events) * ScaleDivisor(system, h, f, normalize)

Significant(difference, variance, k) ==
  MaxSigma < 0 \/ (variance > 0 /\ Square(difference) * k > Square(MaxSigma) * variance)

(* The gates two histograms may fail, given their contents A and B in the  *)
(* bins compared, brought to the common unit, and k times their variances. *)
Chi2(x, y, variance, k, unit) ==
  IF variance > 0 THEN <<Square(x - y) * k, variance>>
  ELSE <<Square(x - y), unit * Larger(x + y, unit)>>

ShapeDiffers(A, B, Variance, bins, k, unit) ==
  LET chi2 == FoldFunctionOnSet(AddFractions, <<0, 1>>,
                [bin \in bins |-> Chi2(A[bin], B[bin], Variance[bin], k, unit)],
                {bin \in bins : A[bin] # B[bin]})
  IN /\ Cardinality(bins) >= MinChi2Bins
     /\ chi2[1] > MaxChi2 * Cardinality(bins) * chi2[2]

RateDiffers(A, B, Variance, bins, k, unit) ==
  LET difference == Distance(SumOver(A, bins), SumOver(B, bins))
  IN /\ 100 * difference >
          MaxPercent * Larger(unit, Larger(SumOver(A, bins), SumOver(B, bins)))
     /\ Significant(difference, SumOver(Variance, bins), k)

BinDiffers(A, B, bins, limit, unit) ==
  limit >= 0 /\ \E bin \in bins : Distance(A[bin], B[bin]) > limit * unit

(* compare_th1 and compare_th2: contents are scaled to the unit            *)
(* divisor(a) * divisor(b).                                                *)
Passed(system, h, a, b, options) ==
  LET normalize == a.events # b.events
      ofA == Divisor(system, h, a, normalize)
      ofB == Divisor(system, h, b, normalize)
      bins == Compared(system, h, a, b, options)
      A == [bin \in bins |-> Content(a, h, bin) * ofB]
      B == [bin \in bins |-> Content(b, h, bin) * ofA]
      Variance == [bin \in bins |->
        SquaredError(h, a, bin) * ErrorDivisor(h, b) * Square(ofB) +
        SquaredError(h, b, bin) * ErrorDivisor(h, a) * Square(ofA)]
      k == ErrorDivisor(h, a) * ErrorDivisor(h, b)
  IN /\ ~ShapeDiffers(A, B, Variance, bins, k, ofA * ofB)
     /\ ~RateDiffers(A, B, Variance, bins, k, ofA * ofB)
     /\ ~BinDiffers(A, B, bins, options.maxBinDiff, ofA * ofB)

run_diagnostics(system, a, b, options) ==
  [h \in Diagnosed(system) |-> Passed(system, h, a, b, options)]

-----------------------------------------------------------------------------
NoStatus == [h \in {} |-> TRUE]

Init ==
  /\ input \in Inputs
  /\ stage = "parse" /\ histos = <<>> /\ statuses = NoStatus
  /\ written = {} /\ result = "none"

End(how) == stage' = "ended" /\ result' = how

(* An exception ends the process with the message and EXIT_FAILURE.        *)
Throw == End("error") /\ UNCHANGED <<input, histos, statuses, written>>

Rejected_NotAlone(in) ==
  \/ Len(in.files) # (IF in.compare THEN 2 ELSE 1)
  \/ in.options.interactive /\ ~in.options.plots
  \/ in.system \notin Subsystems

(* parse_args and make_subsystem.                                          *)
Rejected(in) ==
  \/ Len(in.files) # (IF in.compare THEN 2 ELSE 1)
  \/ in.options.interactive /\ ~in.options.plots
  \/ (in.options.diagnostics \/ in.options.failOnDiff) /\ ~in.compare
  \/ in.system \notin Subsystems

parse_args ==
  /\ stage = "parse"
  /\ IF Rejected(input) THEN Throw
     ELSE stage' = "open" /\ UNCHANGED <<input, histos, statuses, written, result>>

open_file ==
  /\ stage = "open"
  /\ IF ~(Banks(s) \subseteq input.files[Len(histos) + 1].banks) THEN Throw
     ELSE /\ stage' = "read" /\ histos' = Append(histos, NoHistos)
          /\ UNCHANGED <<input, statuses, written, result>>

(* The next event is there, and --max-events allows it.                    *)
Unread ==
  /\ Last(histos).events < Len(input.files[Len(histos)].events)
  /\ input.options.limit < 0 \/ Last(histos).events < input.options.limit

process_event ==
  /\ stage = "read" /\ Unread
  /\ histos' = [histos EXCEPT ![Len(histos)] =
                  AddEvent(s, @, input.files[Len(histos)].events[@.events + 1])]
  /\ UNCHANGED <<input, stage, statuses, written, result>>

end_file ==
  /\ stage = "read" /\ ~Unread
  /\ stage' = IF Len(histos) < Len(input.files) THEN "open" ELSE "diagnose"
  /\ UNCHANGED <<input, histos, statuses, written, result>>

diagnose ==
  /\ stage = "diagnose"
  /\ statuses' = IF Comparing
                   THEN run_diagnostics(s, histos[1], histos[2], input.options)
                   ELSE NoStatus
  /\ stage' = "compare"
  /\ UNCHANGED <<input, histos, written, result>>

(* Files of equally many events are drawn before the output is written.    *)
save_comparison ==
  /\ stage = "compare"
  /\ IF /\ input.options.plots /\ Comparing
        /\ histos[1].events = histos[2].events
        /\ ~input.disk.plots
       THEN Throw
       ELSE stage' = "write" /\ UNCHANGED <<input, histos, statuses, written, result>>

(* Every file gets a directory of its label. ROOT makes no second one of a *)
(* name, and the code enters what mkdir returned without a look.           *)
write_output ==
  /\ stage = "write"
  /\ IF ~input.disk.output THEN Throw
     ELSE /\ written' = {input.files[f].label : f \in DOMAIN histos}
          /\ IF Cardinality(written') < Len(histos)
               THEN End("crash") ELSE stage' = "plots" /\ result' = result
          /\ UNCHANGED <<input, histos, statuses>>

AllPassed == \A h \in DOMAIN statuses : statuses[h]

Difference == input.options.failOnDiff /\ ~AllPassed

finish ==
  /\ stage = "plots"
  /\ IF input.options.plots /\ ~input.disk.plots THEN Throw
     ELSE /\ End(IF Difference THEN "difference" ELSE "success")
          /\ UNCHANGED <<input, histos, statuses, written>>

Next ==
  \/ parse_args \/ open_file \/ process_event \/ end_file
  \/ diagnose \/ save_comparison \/ write_output \/ finish

Spec == Init /\ [][Next]_vars

-----------------------------------------------------------------------------
Labels == {input.files[f].label : f \in DOMAIN input.files}

(* The squared distances of all pairs of events.                           *)
Spread(f, h, bin) ==
  LET n == histos[f].events
      X(e) == Copies(<<h, bin>>, Fill(s, input.files[f].events[e]))
      pairs == {p \in (1 .. n) \X (1 .. n) : p[1] < p[2]}
  IN SumOver([p \in pairs |-> Square(X(p[1]) - X(p[2]))], pairs)

(* A bin of a vertex histogram holds the number of events with a hit above *)
(* threshold from there (dc/histos.cc, "The z-vertex histogram is an       *)
(* event-count histogram"), whatever the number of their hits; and the     *)
(* errors finalize gives the histograms of correlated hits are the spread  *)
(* between events.                                                         *)
VertexCountsEvents ==
  s = "dc" =>
    /\ \A f \in DOMAIN histos, r \in Regions, v \in 1 .. BinCount :
         Content(histos[f], <<"z_vertex", r, 0>>, At(v)) =
           Cardinality({e \in 1 .. histos[f].events :
             LET event == input.files[f].events[e]
             IN \E row \in Range(event.true) :
                  WireHit(event, row) /\ row.vertex = v /\ WireRegion(event, row) = r})
    /\ stage = "diagnose" =>
         \A f \in DOMAIN histos, h \in {d \in Diagnosed(s) : d[1] \in EventLevel} :
           \A bin \in Bins(s, h) : SquaredError(h, histos[f], bin) = Spread(f, h, bin)

Verdict == stage = "compare" /\ Comparing

(* The hit positions of three subsystems are never scaled, the maps of a   *)
(* sector without primaries are not either, and the vertex rates of the    *)
(* drift chambers are scaled twice.                                        *)
NotPerEvent(h) ==
  \/ h[1] = "xy" /\ s \in Calorimeters \cup {"dc"}
  \/ h[1] = "rz_vertex"
  \/ /\ h[1] = "occupancy" /\ s \in Calorimeters
     /\ \A f \in 1 .. 2 :
          Copies(One("primary_sector", h[2]), histos[f].filled) = 0

(* "If the two inputs have different event counts, the comparison is made  *)
(* after normalizing histograms by event count" (hipo-histos/README.md):   *)
(* vertex rates of the drift chambers that are the same per event agree.   *)
VertexRatesAgree ==
  Verdict => \A h \in {d \in DOMAIN statuses : d[1] = "rz_vertex"} :
    (\A bin \in Bins(s, h) :
       Content(histos[1], h, bin) * histos[2].events =
       Content(histos[2], h, bin) * histos[1].events)
    => statuses[h]

Entries(f, h) ==
  SumOver([bin \in Bins(s, h) |-> Content(histos[f], h, bin)], Bins(s, h))

SameRate(h) ==
  /\ histos[1].events # histos[2].events => ~NotPerEvent(h)
  /\ DOMAIN histos[1].filled = DOMAIN histos[2].filled
  /\ \A fill \in DOMAIN histos[1].filled :
       histos[1].filled[fill] * histos[2].events =
       histos[2].filled[fill] * histos[1].events

WentQuiet(h) ==
  /\ input.options.floor < 0 /\ histos[1].events = histos[2].events
  /\ h[1] \notin EventLevel \cup {"layer_wire", "rz_vertex"}
  /\ s \in Calorimeters => h[1] # "occupancy"
  /\ MaxPercent < 100
  /\ \E f \in 1 .. 2 : Entries(f, h) > Square(MaxSigma) /\ Entries(3 - f, h) = 0

(* Two files with the same content per event agree, however many events    *)
(* each has (run_subsystem's normalize_comparison), but for NotPerEvent.   *)
(* A histogram of counts that is empty in one of two files of as many      *)
(* events fails once the other has more entries than chance explains, with *)
(* the default floor and any limit below 100 percent: a detector that went *)
(* quiet does not pass the gate.  And which file is named first makes no   *)
(* difference to a verdict.                                                *)
VerdictFollowsRates ==
  Verdict =>
    /\ \A h \in DOMAIN statuses : (SameRate(h) => statuses[h]) /\ (WentQuiet(h) => ~statuses[h])
    /\ statuses = run_diagnostics(s, histos[2], histos[1], input.options)

(* The exit status: success under --fail-on-diff means that every          *)
(* histogram of the subsystem was compared and passed; the status of a     *)
(* difference is only given for one that did not, after the output is      *)
(* complete; a crash is two inputs of one label.                           *)
ExitTellsVerdict ==
  /\ result = "success" =>
       /\ written = Labels
       /\ input.options.failOnDiff => AllPassed /\ DOMAIN statuses = Diagnosed(s)
  /\ result = "difference" =>
       /\ input.options.failOnDiff /\ written = Labels
       /\ \E h \in Diagnosed(s) : ~statuses[h]
  /\ result = "crash" => Len(input.files) = 2 /\ Cardinality(Labels) = 1
=============================================================================
