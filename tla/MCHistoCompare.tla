--------------------------- MODULE MCHistoCompare ---------------------------
(* HistoCompare for all seven subsystems with small detectors: two         *)
(* sectors, one drift-chamber layer in each region.                        *)
EXTENDS HistoCompare

Small ==
  [dc |-> [layer \in 1 .. 3 |-> 2], ec |-> [layer \in 4 .. 9 |-> 1],
   pcal |-> [layer \in 1 .. 3 |-> 1], ftof |-> <<2, 1, 1>>, ft |-> <<1, 1, 1>>,
   htcc |-> <<2, 2>>, ltcc |-> <<2, 2>>]

-----------------------------------------------------------------------------
Row(sector, layer, component, value) ==
  [sector |-> sector, layer |-> layer, component |-> component, value |-> value]
True(own, hitn, above, value, vertex) ==
  [own |-> own, hitn |-> hitn, above |-> above, sector |-> 1,
   value |-> value, vertex |-> vertex]
Particle(moving, sector) == [moving |-> moving, sector |-> sector, value |-> 1]

Event(rows, true, particles) ==
  [adc |-> rows, tdc |-> rows, true |-> true, particles |-> particles]

Quiet == Event(<<>>, <<>>, <<>>)

Hit(system) ==
  Event(<<Row(1, Max(Layers(system)), 1, 1)>>, <<True(TRUE, 1, TRUE, 1, 1)>>,
        <<Particle(TRUE, 1)>>)

(* Hits of one event in the same bins.                                     *)
Shower(system) ==
  LET hit == Row(1, Max(Layers(system)), 1, 1)
  IN Event(<<hit, hit, hit>>,
           <<True(TRUE, 1, TRUE, 1, 1), True(TRUE, 2, TRUE, 1, 1),
             True(TRUE, 3, TRUE, 1, 2)>>,
           <<Particle(TRUE, 1), Particle(TRUE, 2)>>)

(* Rows that miss a channel, an axis, a digitized hit or the threshold.    *)
Odd(system) ==
  LET layer == Min(Layers(system))
  IN Event(<<Row(3, layer, 1, 1), Row(2, 10, 1, 1), Row(2, layer, 3, 2), Row(2, layer, 1, 0)>>,
           <<True(FALSE, 4, TRUE, 1, 1), True(TRUE, 0, TRUE, 1, 1),
             True(TRUE, 1, TRUE, 2, 1), True(TRUE, 3, TRUE, 0, 2),
             True(TRUE, 4, FALSE, 2, 2), True(TRUE, 4, TRUE, 2, 0)>>,
           <<Particle(FALSE, 1)>>)

Contents(system) ==
  {<<>>, <<Quiet>>, <<Hit(system)>>, <<Hit(system), Hit(system)>>,
   <<Shower(system), Quiet>>, <<Odd(system), Shower(system)>>,
   <<Hit(system), Hit(system), Hit(system), Hit(system)>>,
   <<Hit(system), Hit(system), Odd(system)>>}

File(system, events, label) ==
  [events |-> events, banks |-> Banks(system), label |-> label]

-----------------------------------------------------------------------------
Plain ==
  [limit |-> -1, floor |-> -1, maxBinDiff |-> -1, failOnDiff |-> FALSE,
   diagnostics |-> TRUE, plots |-> FALSE, interactive |-> FALSE]

OptionSets ==
  {Plain, [Plain EXCEPT !.floor = 1, !.failOnDiff = TRUE],
   [Plain EXCEPT !.limit = 1, !.maxBinDiff = 1]}

Disk == [plots |-> TRUE, output |-> TRUE]

Run(system, compare, files, options) ==
  [system |-> system, compare |-> compare, files |-> files,
   options |-> options, disk |-> Disk]

Comparisons ==
  UNION {{Run(system, TRUE, <<File(system, a, "a"), File(system, b, "b")>>, options) :
            a \in Contents(system), b \in Contents(system), options \in OptionSets} :
         system \in Subsystems}

(* One file alone, command lines and files that are refused, directories   *)
(* that cannot be written, two files of one label.                         *)
Others ==
  LET file == File("htcc", <<Hit("htcc")>>, "a")
      two == Run("htcc", TRUE, <<file, [file EXCEPT !.label = "b"]>>,
                 [Plain EXCEPT !.plots = TRUE])
      longer == [two EXCEPT !.files[2].events = Append(@, Quiet)]
      alone == Run("htcc", FALSE, <<file>>, [Plain EXCEPT !.diagnostics = FALSE])
  IN {two, longer, alone,
      [alone EXCEPT !.options.diagnostics = TRUE],
      [alone EXCEPT !.options.failOnDiff = TRUE],
      [alone EXCEPT !.options.interactive = TRUE],
      [alone EXCEPT !.compare = TRUE],
      [two EXCEPT !.compare = FALSE],
      [two EXCEPT !.system = "rich"],
      [two EXCEPT !.files[2].label = "a"],
      [two EXCEPT !.files[2].banks = {"adc"}]}
     \cup {[run EXCEPT !.disk.plots = FALSE] : run \in {two, longer}}
     \cup {[two EXCEPT !.disk.output = FALSE]}

CommandLines == Comparisons \cup Others

(* Two and eight events of the same hits, at two vertices.                 *)
VertexRates ==
  LET Times(n) == [e \in 1 .. n |-> Shower("dc")]
  IN {Run("dc", TRUE, <<File("dc", Times(2), "a"), File("dc", Times(8), "b")>>, Plain)}
=============================================================================
