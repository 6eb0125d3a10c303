# TLA+ models of the afabric experiment runner

This directory holds TLA+ models of the Python scripts in `src/scripts`:
`congestion_runner` (configuration, run construction, simulator driver) and
`plot_generation` (trace statistics and plot tables).  They are checked with
TLC.  Every definition is translated from the source; `PROJECT.json` names
the lines each definition stands for (`map`), the runs, the mutants that show
each property can fail, the findings and the hazards.

## 1. The system

The scripts are sequential Python, except `generate_plots.py`, which runs one
coroutine per value under `asyncio.gather`.  A run of an experiment goes:

1. **CLI run construction** (`run.py: config_params`).  `single_wrapper`
   builds a `Run` with *every* `Aspect` (INPUT, BUFFER, CONTROL, SLACKS,
   SCALE, LOAD, ALPHA) as a key and `None` for a flag not given;
   `multi_wrapper` builds the product of the given values and leaves out
   aspects with no value.
2. **Configuration resolution** (`config.py: Config.from_file`,
   `__getitem__`, `get`, `__contains__`, `load`).  `from_file` reads the TOML
   document, takes for every non-LOAD/ALPHA aspect of the run the table
   `config[aspect][profile]` (one *inherited* layer each) and deletes the
   section; what is left is the *default* table.  A key is found in exactly one
   layer (two is an "inherited from multiple bases" KeyError) or else in the
   default; a list value is re-indexed by the run's load through
   `DELAYS = [0.9 .. 0.5]` with a `zip`.  `get` turns any KeyError into the
   fallback.
3. **Derived generators** (`config.py`).  `DelayAssignmentConfig.json`
   dispatches a `delay_assignment` sub-table on the first of
   `delay, delay_min, exp, gp, nfct, file, uniform_min_delay` it contains;
   `PacketPropertiesAssignerConfig`, `ArrivalsConfig` and the derived numbers
   (`num_servers`, `per_server_rate_bps`, `get_pias_threshold`,
   `priority_scheme`) feed the simulator arguments.
4. **Random variables** (`random_variables.py`): fixed, uniform,
   exponential and empirical variables; the empirical mean is a sum over
   consecutive CDF points with NONE / CONTINUOUS / INTEGRAL interpolation.
5. **Simulator driver** (`run.py: run_single_config, run_it`): computes the
   argument list, writes the JSON descriptors into the results directory named
   by `get_run_name`, runs ns and reports its exit status.
6. **Trace statistics** (`result.py`): reads `flow.tr` and `ofct.tr` in
   lock-step, adds each flow to the overall/short/median/large/custom flow sets
   by size bound, and reports averages, tails and deadlines as JSON or text.
7. **Plot generation** (`generate_plots.py`): for every run, builds one
   Config per value of the varied aspect, runs `append_true_fct` and
   `result.py` for each concurrently, and writes one CSV row per value.

State: the parsed document and run (immutable once the Config is built), the
files of a results directory, the flow-set accumulators of `result.py`, and
the coroutines of `generate_plots.py`.  Interactions: (1) feeds (2), which
every later step reads; (5) writes the directory (7) reads; (7) calls (6) as
a subprocess.

### Hard behaviours (the hazards of `PROJECT.json`)

* lookups that fail in one way and are caught as another (`get` catching the
  ambiguity error, the `zip` truncation, a `None` load raising TypeError);
* numeric edges in the generators: `count = 1`, `nfct = 0`, double scaling
  of the load, truncation where the spec rounds, `num_servers = 1`;
* the run name as a directory key: two runs may share one;
* concurrent coroutines of `generate_plots.py` sharing a directory;
* the lock-step read of two trace files and the flow-set bounds in
  `result.py`.

Properties per component: the resolver refines the spec's layered lookup
(ambiguity fatal, default fallback, lists by load, `get` suppressing missing
keys only); the delay generator emits well-formed descriptors, rounds the
nfct goodput and passes the percent load; the arrival process reproduces the
configured load; the simulator of one invocation reads only the descriptors
that invocation wrote; the flow sets of `result.py` partition the overall
set; every CSV row is what `result.py` reports on its own directory alone, plot
generation fails only for a missing trace or aspect, and it always ends.

## 2. Modules

| Module | Models | Status |
|---|---|---|
| `LayeredLookup` | abstract: what spec §4.1/§9 promise of a Config | done |
| `ConfigResolver` | `from_file`, `__getitem__`, `get`, `__contains__`, `load`; refines `LayeredLookup` | done |
| `MC_ConfigResolver` | constants for TLC: aspects, small documents, lists of 4/5/6 entries | done |
| `DelayAssignment` | `DelayAssignmentConfig` and `Config.delay_assignment_json` | done |
| `MC_DelayAssignment` | 20 sub-table shapes covering every branch | done |
| `DerivedParams` | `num_servers`, `per_server_rate_bps`, `priority_scheme`, `get_pias_threshold`, packet properties, `ArrivalsConfig`, the random variables' means and `EmpiricalInterpolation` (RECURSIVE `MeanSum`, checked against the spec's sum) | done |
| `MC_DerivedParams` | resolved values reaching every branch; four CDFs | done |
| `RunDriver` | `single_wrapper` + `from_file` + `get_run_name` + `run_single_config` + `run_it` + `main`, over a sequence of invocations sharing results directories | done |
| `MC_RunDriver` | three aspects, flags given or not, loads 0.5/0.56/0.57 | done |
| `ResultStats` | `result.py`: lock-step read of `flow.tr`/`ofct.tr`, flow sets by size bound, `report --json`; one loop iteration is the operator `Step` | done |
| `PlotGeneration` | `multi_wrapper` (RECURSIVE `Product` for `itertools.product`) + `generate` + `generate_for_name` + `generate_for` + `save_result`: the runs one after the other, one coroutine per value, interleaved at their awaits, with `append_true_fct` and `result.py` (an instance of `ResultStats`) running as concurrent processes; directories come from `get_run_name` through the constant `RunName` | done |
| `PlotResults` | what `generate` promises, without the event loop and the processes: per run, in order, fail if it cannot be plotted, else write the CSV of the reports each directory gives alone (one step); `PlotGeneration` is checked to refine it | done |
| `MC_PlotGeneration` | two aspects standing for the seven, three command lines, two values (distinct or sharing a directory), flow lines at the 100 KiB and 10 MiB edges, an unfinished flow, per-load `plot_generation_bounds` lists that give a later value fewer or more bounds | done |

The order follows importance: every experiment goes through the resolver, and
every simulation reads the delay descriptor.

### ConfigResolver

State: `toml` (the document), `run`, `phase` (`init`, `loaded`, `failed`),
`inherited` (the sequence of layers, in run order), `default`, and `result`
(the last lookup).  Actions: `FromFile` (whole of `from_file`: the loop, the
indexing that may raise, the deletion), `LookupItem(k)`, `LookupGet(k)`,
`LookupIn(k)`.  Data: a document is a record of one section per layer aspect
(absent, or a table per defined profile) and a top-level table; values are a
few scalars or the name of a list whose entries `ListEntries` gives; loads are
in hundredths.  `Init` enumerates every such document and every run
`single_wrapper` can build (any aspect may be `None`).

`LayeredLookup` is the abstract specification: layers are a function from
aspect to table; lookups return a *set* of allowed outcomes, failures named by
class (`Ambiguous`, `Missing` — the class `get_with_default` suppresses —
and `BadLoad`).  `ConfigResolver` maps its sequence of layers to that
function and its error tags to the classes, and `ImplementsLayeredLookup`
(= `Abstract!Spec`) is checked as a temporal PROPERTY.

### DelayAssignment

State: `sub` (the `delay_assignment` sub-table or `None`), `load`, `linkRate`,
and `out` (the descriptor or the exception).  One action, `Compute`, is the
whole of `delay_assignment_json` with the `json` property it calls.  Delays are
exact rationals `<<num, den>>`; tenths for nfct.  This abstracts the range:
`get_json_range` adds a float step `(max-min)/(count-1)` that may be inexact,
so its last delay can come out as 0.9999999999999999 rather than 1.0, and
the model, which computes each delay exactly, says nothing about that
rounding (no property states the endpoints for that reason).  `MCShapes` gives 20 sub-table
shapes: every branch, bounds with and without, shadowed keys, missing
companion keys, the empty table and bounds only.

### DerivedParams

State: `cfg` (the resolved keys the derived properties read: topology,
link rate, `prio_scheme`, one `pias_thresh_<i>`, the
`packet_properties_assignment` key set and the `arrivals` table), `load`,
and `out`, the outcome of the last query.  One action per property
(`GetNumServers` ... `GetUseAlphaProbability`); the arrivals queries go
through `ArrivalsQuery`, which first fails the way `Config.arrivals_config`
does: `self['arrivals']` and `per_server_rate_bps` are evaluated when the
`ArrivalsConfig` is built, so a one-server topology fails `flow_size_rv` too.
Numbers are exact rationals in lowest terms (`Reduce`); the interpolation
functions are doubled so that every mean is an integer over 200; a rate is
in Gbit/s.  A CDF file is given as its rows `<<size, cdf in hundredths>>`.

### RunDriver

State: `fs` (results directory name -> for each of `delay`, `pkt`,
`stdout`, `stderr`, `flow`, `drop`: the invocations whose output it holds
and whether it is complete), `inv`, `pc` (`idle`, `prepared`, `written`,
`sim`, `exited`), `cur` (the current invocation: run, run name, what
config.toml yielded, which file names the simulator is given, dry run,
exit status), `outcome` and `runOf` per invocation.  `RunSingleConfig` is
`run_single_config` up to `run_it` (it writes nothing, so it is one step;
from_file's KeyError, get_run_name's TypeError or any failing key end the
invocation; `NsPathNotFound` is `main`'s earlier RuntimeError when
`_get_ns_path` finds no simulator); `WriteDescriptors`, `StartSimulator`, `SimulatorExits`,
`Killed` and `Report` are the steps of `run_it` and `main` between which
the file system changes or the process may die.  config.toml is re-read by
each invocation, so whether it yields descriptors and whether every
argument resolves are chosen per invocation.  A LOAD flag carries its exact
decimal value and `py`, the value of `int(float(v) * 100)` in double
precision (0.57 gives 56), computed once outside the model.

### ResultStats

A `result.py` process is a record: `state` (`run`, `exit`, `crash`),
`fpos` (flow.tr lines read), `rh` (ofct.tr offset, in half lines), `sets`
(one `FlowSetStats` per flow set: counts and the pairs behind `real_nfcts`)
and `out` (the reports).  `Step(r, flow, E)` is one iteration of the loop at
lines 301-326 against ofct.tr as it is at that moment, and returns every
outcome it may have: the end of flow.tr prints the reports (`Finish`); a
ofct.tr line is parsed with its flow line before the `time == 0` skip
(lines 310-314), so an empty ofct line (the unpacking fails) or zero bytes
(`float()` fails) crash even for an unfinished flow, and a skipped flow
line still consumes its ofct.tr line; a line cut short either crashes
(`float()` fails, or, for a flow that is not skipped, it parses as 0 and
line 58 divides by it) or is taken as another number (0).  FCTs are
abstracted to the oracle's line number, so a pair `<<line, oracle line>>`
says whether the two files were read in step.  ofct.tr is a sequence of
half lines (TRUE written, FALSE a zero byte of a hole): that is the
granularity at which a concurrent writer can be observed.

### PlotGeneration

State: `flags` (the values given per aspect on the command line), `runs`
(what `multi_wrapper` builds from them: `Product` is `itertools.product`
over `kwargs.get(a) or [None]`, the `None` choices dropped), `ri` (the run
`generate` is at), `flow` and `ofct` per directory, `pc` per coroutine
(`start`, `append`, `result`, `done`, `failed`), `wr` (half lines
`append_true_fct` has written), `rd` (the `result.py` record), `outcome`
(`configs`, `running`, `raised`, `done`) and `csv` (file name -> rows).
`GenerateForName` is the synchronous start of `generate_for_name`: the
per-value runs `{a: run[a] if a is not aspect else nv for a in Aspect}`,
a KeyError when the run lacks an aspect (`Config.from_file` is taken to
succeed; ConfigResolver models its failures).  Then the slices between awaits:
`Open` (both opens, the truncating `open(ofct, 'w')`, the spawn),
`AwaitAppend` (`process.wait()` returns, `result.py` is spawned),
`AwaitResult` (`communicate()` returns; a crashed `result.py` makes
`json.loads` raise, and a directory without `drop.tr` makes
`_get_all_drops` raise FileNotFoundError; `gather` re-raises, which ends
`generate`; the variable `dropTr` says which directories hold `drop.tr`),
`SaveResult` (the CSV named `get_run_name(run)` under the header of the
first value's result, as `DictWriter` writes it: blank cells for a flow set
a row lacks, a ValueError after the rows before it for a set the header
lacks; then `asyncio.run` returns and the loop takes the next run, or
`generate` ends); and the process
steps `AppendTrueFct(c)` (one half line at its own offset) and `Read(c)`
(one `ResultStats!Step`).  `gather` runs the first slice of every task, in
order, before any task resumes: `Open(c)` waits for the tasks before it,
and the later slices wait for all to have started.  `append_true_fct` is
not in the repository; it is assumed to write one ofct.tr line per flow.tr
line.

`PlotResults` is the abstract specification: its state is `ri`, `csv` and
a `status` (`busy`, `raised`, `done`); `Plot` writes the CSV of run `ri` in
one step from `ResultStats!CompleteReports` of each value's directory with
that value's bounds (the header of the first value, the rows up to the
first value with a flow set outside it), and `Fail` ends a run that lacks
an aspect or a value directory without `flow.tr` or `drop.tr`.
`PlotGeneration` instantiates it with `status` mapped from `outcome`
(`configs` and `running` are `busy`), every other variable mapped to
itself; `ImplementsPlotResults` is its `Init /\ [][Next]_vars`.  Its weak
fairness is not part of the checked formula: TLC evaluates `ENABLED`
through the mapping too slowly, and since `Next` is enabled in every busy
state of `PlotResults`, that fairness says just what `Termination` says.

## 3. Runs

| Run | Checks | Result |
|---|---|---|
| `resolver_refines` | TypeOK, ImplementsLayeredLookup for `__getitem__` and `__contains__` over every document of 1 key, 2 profiles, 2 layer aspects with 1 defined profile | passes (15 424 states) |
| `resolver_get_unambiguous` | ImplementsLayeredLookup for `get` too, on documents without a key defined twice | passes (9 888 states) |
| `get_masks_ambiguity` | ImplementsLayeredLookup with `get` on all documents | violated: `get` returns `None` for an ambiguous key |
| `list_length_resolves` | ImplementsLayeredLookup with lists of 4 and 6 entries | violated: a 4-entry list resolves at load 0.9 |
| `delay_assignment` | TypeOK over 20 shapes × loads × link rates: every descriptor or exception well formed | passes (1 116 states) |
| `delay_file_load` | FileLoadIsPercent | violated: load 0.5 fills the template with 5000 |
| `delay_nfct_rounding` | NfctIsRounded | violated: nfct 3.0 gives goodput 2, not 3 |
| `derived_params` | TypeOK: every query yields a value or the exception the code raises | passes (79 704 states) |
| `offered_load_truncated` | OfferedLoadReproduced | violated: a CDF of mean 2.75 packets offers 11/8 of the load |
| `run_driver` | TypeOK, SimulatorReadsOwnDescriptors over three invocations | passes (786 942 states) |
| `plot_generation` | TypeOK, FlowSetsPartition, ImplementsPlotResults, Termination over three command lines, two values with their own directories and bounds, one directory possibly without `drop.tr` | passes (74 415 states) |
| `plot_ofct_race` | SavedResultsAligned for loads 0.56 and 0.57 | violated: both map to `p1.56.150`; both `open(ofct, 'w')` come before any `result.py` starts, the second truncating the file under the first writer (which may have finished), and the first `result.py` then reads it while the second writer writes it, pairing a fragment as an oracle |

What the findings mean for the code:

* `Config.get` (config.py:321) catches the ambiguity KeyError, so an
  ambiguous `delay_assignment` or `custom_script` silently reads as absent.
* The load re-indexing (config.py:314) uses `zip`, which truncates; a list of
  the wrong length resolves for some loads.
* `delay_assignment_json` passes `int(load*100)` and `get_json_file`
  multiplies by 100 again (config.py:343 and 103).
* The nfct goodput truncates (config.py:47) where the spec rounds.
* `mean_flow_size` truncates the mean to whole packets (config.py:196), so
  the arrival process does not reproduce the configured load.
* `get_run_name` (config.py:219) truncates a double-precision product, so
  two loads can share a results directory.  Plot generation then runs two
  coroutines on one `ofct.tr` (generate_plots.py:92).  `gather` starts
  both, and each opens `ofct.tr` with `'w'` before its first await, so both
  opens precede any `result.py`.  The second open truncates the file under
  the first `append_true_fct`, which may already have finished (if not,
  its later writes at its own offset leave a hole of zero bytes); the first
  `result.py` then reads `ofct.tr` while the second `append_true_fct` is
  writing it, and takes a line that is not its own.  The CSV is saved with mismatched oracle FCTs,
  or generation fails though every run exists.  Across runs the same
  collision is harmless: two runs of one `generate` with one name also
  share every per-value directory, so the CSV written twice holds the same
  rows (`ImplementsPlotResults` holds with such runs).

Not a run, for want of a slot: `multi_wrapper` leaves out of a run every
aspect given no value, but `generate_for_name` (generate_plots.py:49) then
reads `run[a]` for every aspect but the varied one, so plotting runs that
omit an aspect raises KeyError at once; the model reaches it, and
`PlotResults` admits exactly that failure.

Also not a run, for the same reason: `save_result` (generate_plots.py:70-85)
takes the CSV header from the first value's result, while each value's
`result.py` gets the `plot_generation_bounds` of its own config, which a
per-load list makes differ.  A later value with fewer bounds gets blank
`custom{i}` cells; one with more makes `writerow` raise ValueError after the
rows before it are written, so a truncated CSV is left behind and
`generate` stops; and a `custom{i}` column may hold different bounds in
different rows.  `plot_generation` reaches all three, and `ImplementsPlotResults` checks that
every row written is its directory's report under its own bounds, under the
first value's header, with the ValueError the one failure of a run that can
be plotted.

Bounds.  One key is enough for the resolver because lookups of distinct keys
do not interact; two profiles with one defined lets every section be
absent, present without the profile asked for, or present with it; five layer
aspects are not needed to hit ambiguity, so the model keeps INPUT and BUFFER
(two layers) plus LOAD and ALPHA; loads 0.9 and 0.5 (both ends of `DELAYS`) and
0.75 (outside it).  For the delay generator, counts 0–3 reach the empty range,
the division by zero and a range with an interior point; nfct 0, 1.5 and 3.0
reach the division by zero, an exact and an inexact quotient.  For the
derived parameters, a one-server and a four-server topology reach the
division by zero and a real rate; four CDFs give a fractional mean, a whole
mean, a single row (mean 0) and decreasing probabilities (a negative mean).
For the run driver, three invocations are enough for a directory to be
written by two runs and read by a third; a second profile (undefined) and
omitted flags reach every early failure.  For plot generation, two values
are the least for two coroutines to interleave (loads 0.5 and 0.6, and
0.56 and 0.57, which share a directory); `result.py` gets the `--bound`
arguments of each value's own config, and the document gives
`plot_generation_bounds` as a list indexed by load, so that profile a has
two bounds at 0.5 and one at 0.6 (blank cells in the CSV) and profile b
none at 0.5 and one at 0.6 (the ValueError of `writerow`, after the first
row is written); the directory of profile a at load 0.6 may lack
`drop.tr`, the one file `_get_all_drops` reads; flow lines of 70, 71, 7182 and 7183 packets sit
on either side of the 100 KiB and 10 MiB bounds; one unfinished flow
(`time == 0`) is skipped; flow.tr of one or two lines, or absent, gives
every length of race between writer, truncation and reader.  The three
command lines give two runs (two profiles), a run without an aspect (the
KeyError), and two runs whose names coincide (loads 0.56 and 0.57 given
with the varied aspect LOAD), so that one CSV is written twice.

Fairness.  Only PlotGeneration has concurrency and a liveness property.  It
assumes weak fairness of every coroutine slice and every process step, and of
`SaveResult`: the asyncio event loop resumes every task whose awaited
future is done, and the operating system runs every live subprocess, so
a step that stays enabled is eventually taken.  `Termination` says that
`generate` then always writes the CSV of every run or raises.  The other components are
one-shot sequential computations, and `run.py` invocations are sequential
processes; their properties are safety properties and a refinement.  ConfigResolver and RunDriver stutter in a
`Done` step once nothing is left to do (a failed from_file, the last
invocation); DelayAssignment runs with deadlock checking off because it
stops after its one computation by design; DerivedParams keeps answering
queries, so it never stops; PlotGeneration stutters in `Done` after the
last CSV or a raise (the orphaned processes of a failed run may still step).

Spec notes met while modelling: the NONE example of spec §8 states a mean of
30 for the CDF `[(0,0),(1,10),(1,20)]`, but its own formula gives
(10-0)×1 + (20-10)×1 = 20; the code computes 20, by the formula.  The spec allows two-or-three-column CDF rows; `_read_cdf` unpacks
exactly three (random_variables.py:106), so a two-column file raises
ValueError.

## 4. Not modelled

* TOML parsing, `os.path` and JSON encoding: I/O, taken as given.
* Process spawning (`subprocess.run`, `asyncio.create_subprocess_exec`) and
  the simulator itself: their effects are modelled as results (exit status,
  files written, the half lines a process writes or reads).
* The `click` option declarations of `config_params` and `generate`:
  argument parsing, taken as given (the model starts from the values).
* `result.py` text reports and `--all` (generate always passes `--json`,
  and text mode crashes at result.py:167 on `json[...]` of None);
  `Bound.from_string` (bounds are given parsed; a malformed one makes
  argparse exit and `json.loads` of the empty output raise); the FCT and
  slowdown arithmetic and percentiles; `_get_all_drops`; the CSV layout.
* Text formatting of reports and CSV layout.
* `_to_tcl_arg` and the random variables' `name`/`args`: the string form of
  values the model keeps abstract; the valgrind/perf/debug flags, which
  only prefix the simulator's command line.
* `FlowSetStats` averages and percentiles: the index `99 * n // 100` is the
  largest FCT for every set of at most 100 flows, far more than the model
  can hold, so the percentile edge is out of TLC's reach.
