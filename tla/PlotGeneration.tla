--------------------------- MODULE PlotGeneration ---------------------------
(***************************************************************************)
(* plot_generation/generate_plots.py.  generate takes the runs that        *)
(* config_params(multi=True) builds (multi_wrapper: every combination of   *)
(* the values given per aspect, the aspects given none left out) and, one  *)
(* run after the other, asyncio.run(generate_for_name(...)); an exception  *)
(* ends the command.  generate_for_name builds one run per value of the    *)
(* varied aspect and gathers one coroutine per value.  Each opens flow.tr  *)
(* and, with mode 'w', ofct.tr in the value's results directory, runs      *)
(* append_true_fct (flow.tr on stdin, ofct.tr on stdout), waits for it,    *)
(* then runs result.py (ResultStats) on the two files and parses its JSON. *)
(* When every coroutine has returned, save_result writes one CSV, named    *)
(* after the run, with one row per value in the order of the values.       *)
(*                                                                         *)
(* A coroutine step is the code between two awaits (the event loop runs    *)
(* one task at a time); the two subprocesses of each coroutine run         *)
(* concurrently with everything.  gather starts its tasks in order, so the *)
(* first slice of every task (the opens and the spawn of append_true_fct)  *)
(* runs, in order, before any task resumes.  append_true_fct is outside    *)
(* the repository: it is taken to copy flow.tr to one ofct.tr line per     *)
(* line, written half a line at a time at its own file offset, as a        *)
(* process with a file opened by open(..., 'w') does.                      *)
(***************************************************************************)
EXTENDS Integers, Sequences, FiniteSets

LOCAL INSTANCE SequencesExt

CONSTANTS
  AspectOrder,   \* the members of Aspect, in declaration order
  Aspect,        \* the --aspect argument: the aspect the values vary
  GivenChoices,  \* the command lines: aspect -> its flag values, in order
  Values,        \* the --value arguments, in order (a sequence)
  RunName(_),    \* run -> get_run_name(run), its directory and CSV name
  FlowFiles,     \* the flow.tr contents a directory may hold
  Absent,        \* a directory without flow.tr
  MayLackDrop,   \* the directories that may hold flow.tr but no drop.tr
  BoundsOf(_),   \* run -> its config's plot_generation_bounds, parsed
  None

RS == INSTANCE ResultStats

Aspects == Range(AspectOrder)
Cor     == DOMAIN Values

VARIABLES
  flags,    \* aspect -> the values its option was given (<<>>: not given)
  runs,     \* the runs multi_wrapper passes to generate
  ri,       \* the index of the run generate is at
  flow,     \* directory -> flow.tr (never written here)
  dropTr,   \* directory -> whether it holds drop.tr (never written here)
  ofct,     \* directory -> ofct.tr, as half lines (see ResultStats)
  pc,       \* coroutine -> "start", "append", "result", "done", "failed"
  wr,       \* coroutine -> halves its append_true_fct has written
  rd,       \* coroutine -> its result.py process (ResultStats record)
  outcome,  \* "configs", "running" (the gather), "raised" or "done"
  csv       \* CSV file name -> the rows save_result wrote

vars == <<flags, runs, ri, flow, dropTr, ofct, pc, wr, rd, outcome, csv>>

\* kwargs.get(aspect) or [None]: an aspect given no value is one None.
OptionValues(g, a) == IF g[a] = <<>> THEN <<None>> ELSE g[a]

\* itertools.product: the tuples in order, the last position varying
\* fastest.
RECURSIVE Product(_)
Product(s) ==
  IF s = <<>> THEN << <<>> >>
  ELSE LET rest == Product(Tail(s))
       IN  FlattenSeq([x \in DOMAIN Head(s) |->
                         [t \in DOMAIN rest |-> <<Head(s)[x]>> \o rest[t]]])

\* multi_wrapper: one run per tuple of the product, the None choices
\* dropped.
MultiRuns(g) ==
  LET P == Product([j \in DOMAIN AspectOrder |-> OptionValues(g, AspectOrder[j])])
  IN  [i \in DOMAIN P |->
         [a \in {AspectOrder[j] : j \in {j \in DOMAIN P[i] : P[i][j] # None}} |->
            P[i][CHOOSE j \in DOMAIN AspectOrder : AspectOrder[j] = a]]]

\* The comprehension of generate_for_name reads run[a] for every aspect but
\* the varied one: a KeyError unless the run has them all.
HasAllAspects(run) == Aspects \ {Aspect} \subseteq DOMAIN run

\* Mutant of PerValueRun: run.get(a, nv), the varied aspect overridden only
\* when the run lacks it.
PerValueRunNoOverride(run, c) ==
  [a \in Aspects |-> IF a \in DOMAIN run THEN run[a] ELSE Values[c]]

\* {a: run[a] if a is not aspect else nv for a in Aspect}
PerValueRun(run, c) ==
  [a \in Aspects |-> IF a = Aspect THEN Values[c] ELSE run[a]]

Dir(c) == RunName(PerValueRun(runs[ri], c))

\* The --bound arguments of the value's result.py: the plot_generation_bounds
\* of its own config, which a list-valued key resolves by its load.
Bounds(c) == BoundsOf(PerValueRun(runs[ri], c))

\* Every directory some command line can name.
AllDirs ==
  UNION {{RunName(PerValueRun(r, c)) : r \in {r \in Range(MultiRuns(g)) :
                                                  HasAllAspects(r)},
                                      c \in Cor} : g \in GivenChoices}

Idle == [RS!Start(<<>>) EXCEPT !.state = "idle"]

\* The first slices of gather's tasks have all run.
Started == \A b \in Cor : pc[b] # "start"

Halves(c) == 2 * Len(flow[Dir(c)])

\* generate_for_name up to the gather: the value configs.
GenerateForName ==
  /\ outcome = "configs"
  /\ outcome' = IF HasAllAspects(runs[ri]) THEN "running" ELSE "raised"
  /\ UNCHANGED <<flags, runs, ri, flow, dropTr, ofct, pc, wr, rd, csv>>

-----------------------------------------------------------------------------
(* The first slice of generate_for: open(flow_path) (FileNotFoundError when *)
(* the run never produced it), open(ofct_path, 'w'), which truncates, and  *)
(* the spawn of append_true_fct.                                           *)
Open(c) ==
  /\ outcome = "running"
  /\ pc[c] = "start"
  /\ \A b \in Cor : b < c => pc[b] # "start"
  /\ IF flow[Dir(c)] = Absent
       THEN /\ pc' = [pc EXCEPT ![c] = "failed"]
            /\ outcome' = "raised"
            /\ UNCHANGED ofct
       ELSE /\ pc' = [pc EXCEPT ![c] = "append"]
            /\ ofct' = [ofct EXCEPT ![Dir(c)] = <<>>]
            /\ UNCHANGED outcome
  /\ UNCHANGED <<flags, runs, ri, flow, dropTr, wr, rd, csv>>

\* Writing at an offset past the end of the file leaves zero bytes between.
WriteAt(E, h) ==
  IF h <= Len(E) THEN [E EXCEPT ![h] = TRUE]
  ELSE E \o [i \in 1 .. h - 1 - Len(E) |-> FALSE] \o <<TRUE>>

\* Mutant of AppendTrueFct: writing on past the end of flow.tr's copy.
AppendTrueFctNoEof(c) ==
  /\ pc[c] \in {"append", "result", "done"}
  /\ wr[c] <= Halves(c)
  /\ wr' = [wr EXCEPT ![c] = @ + 1]
  /\ ofct' = [ofct EXCEPT ![Dir(c)] = WriteAt(@, wr[c] + 1)]
  /\ UNCHANGED <<flags, runs, ri, flow, dropTr, pc, rd, outcome, csv>>

\* append_true_fct writes the next half line at its own offset.
AppendTrueFct(c) ==
  /\ pc[c] \in {"append", "result", "done"}
  /\ wr[c] < Halves(c)
  /\ wr' = [wr EXCEPT ![c] = @ + 1]
  /\ ofct' = [ofct EXCEPT ![Dir(c)] = WriteAt(@, wr[c] + 1)]
  /\ UNCHANGED <<flags, runs, ri, flow, dropTr, pc, rd, outcome, csv>>

\* Mutant of AwaitAppend: result.py started without awaiting process.wait().
AwaitAppendNoWait(c) ==
  /\ outcome = "running" /\ Started
  /\ pc[c] = "append"
  /\ pc' = [pc EXCEPT ![c] = "result"]
  /\ rd' = [rd EXCEPT ![c] = RS!Start(Bounds(c))]
  /\ UNCHANGED <<flags, runs, ri, flow, dropTr, ofct, wr, outcome, csv>>

\* process.wait() returns; the slice up to communicate() builds the
\* arguments and spawns result.py.
AwaitAppend(c) ==
  /\ outcome = "running" /\ Started
  /\ pc[c] = "append"
  /\ wr[c] = Halves(c)
  /\ pc' = [pc EXCEPT ![c] = "result"]
  /\ rd' = [rd EXCEPT ![c] = RS!Start(Bounds(c))]
  /\ UNCHANGED <<flags, runs, ri, flow, dropTr, ofct, wr, outcome, csv>>

\* One iteration of result.py's loop, on ofct.tr as it is now.
Read(c) ==
  /\ rd[c].state = "run"
  /\ \E r \in RS!Step(rd[c], flow[Dir(c)], ofct[Dir(c)]) :
        rd' = [rd EXCEPT ![c] = r]
  /\ UNCHANGED <<flags, runs, ri, flow, dropTr, ofct, pc, wr, outcome, csv>>

\* communicate() returns: json.loads of the output of a crashed result.py
\* raises, which gather passes to generate_for_name; otherwise
\* _get_all_drops opens drop.tr (FileNotFoundError when it is not there),
\* its sum is added and generate_for returns.
AwaitResult(c) ==
  /\ outcome = "running" /\ Started
  /\ pc[c] = "result"
  /\ rd[c].state \in {"exit", "crash"}
  /\ IF rd[c].state = "crash" \/ ~dropTr[Dir(c)]
       THEN pc' = [pc EXCEPT ![c] = "failed"] /\ outcome' = "raised"
       ELSE pc' = [pc EXCEPT ![c] = "done"] /\ UNCHANGED outcome
  /\ UNCHANGED <<flags, runs, ri, flow, dropTr, ofct, wr, rd, csv>>

\* save_result writes the CSV named after the run (the drops of drop.tr are
\* left out).  Its header is the flow sets of the first value's result;
\* writerow fills a set a row lacks with blanks and raises ValueError for a
\* row with a set the header lacks, the rows before it being written.
CsvName == RunName(runs[ri])

Fields == DOMAIN rd[1].out

Fits(c) == DOMAIN rd[c].out \subseteq Fields

\* The values whose rows reach the file, in the order gather returns them.
Written ==
  IF \A c \in Cor : Fits(c) THEN Cor
  ELSE 1 .. (CHOOSE c \in Cor : ~Fits(c) /\ \A b \in 1 .. c - 1 : Fits(b)) - 1

\* Then asyncio.run returns (every subprocess has been awaited) and the
\* loop of generate moves to the next run, or the ValueError ends it.
SaveResult ==
  /\ outcome = "running"
  /\ \A c \in Cor : pc[c] = "done"
  /\ LET file == [fields |-> Fields,
                  rows   |-> [c \in Written |-> [value  |-> Values[c],
                                                 result |-> rd[c].out]]]
     IN  csv' = [n \in DOMAIN csv \cup {CsvName} |->
                   IF n = CsvName THEN file ELSE csv[n]]
  /\ CASE Written # Cor  -> outcome' = "raised" /\ UNCHANGED <<ri, pc, wr, rd>>
       [] ri = Len(runs) -> outcome' = "done" /\ UNCHANGED <<ri, pc, wr, rd>>
       [] OTHER          -> /\ ri' = ri + 1
                            /\ outcome' = "configs"
                            /\ pc' = [c \in Cor |-> "start"]
                            /\ wr' = [c \in Cor |-> 0]
                            /\ rd' = [c \in Cor |-> Idle]
  /\ UNCHANGED <<flags, runs, flow, dropTr, ofct>>

-----------------------------------------------------------------------------
Init ==
  /\ flags \in GivenChoices
  /\ runs = MultiRuns(flags)
  /\ ri = 1
  /\ flow \in [AllDirs -> FlowFiles \cup {Absent}]
  /\ dropTr \in {f \in [AllDirs -> BOOLEAN] : \A d \in AllDirs \ MayLackDrop : f[d]}
  /\ ofct = [d \in AllDirs |-> <<>>]
  /\ pc = [c \in Cor |-> "start"]
  /\ wr = [c \in Cor |-> 0]
  /\ rd = [c \in Cor |-> Idle]
  /\ outcome = "configs"
  /\ csv = [n \in {} |-> <<>>]

\* generate returns or raises; subprocesses still running are left alone.
Done == outcome \in {"raised", "done"} /\ UNCHANGED vars

Next ==
  \/ GenerateForName
  \/ \E c \in Cor : Open(c) \/ AppendTrueFct(c) \/ AwaitAppend(c) \/ Read(c)
                             \/ AwaitResult(c)
  \/ SaveResult
  \/ Done

\* The event loop resumes every task whose await has completed, and the
\* operating system runs every subprocess: each step, once enabled, stays
\* enabled until taken.
Fairness ==
  /\ WF_vars(GenerateForName)
  /\ \A c \in Cor : /\ WF_vars(Open(c))
                    /\ WF_vars(AppendTrueFct(c))
                    /\ WF_vars(AwaitAppend(c))
                    /\ WF_vars(Read(c))
                    /\ WF_vars(AwaitResult(c))
  /\ WF_vars(SaveResult)

Spec == Init /\ [][Next]_vars /\ Fairness

-----------------------------------------------------------------------------
Busy(c) == pc[c] \in {"append", "result", "done"}

TypeOK ==
  /\ flags \in GivenChoices
  /\ ri \in DOMAIN runs
  /\ flow \in [AllDirs -> FlowFiles \cup {Absent}]
  /\ dropTr \in [AllDirs -> BOOLEAN]
  /\ ofct \in [AllDirs -> Seq(BOOLEAN)]
  /\ pc \in [Cor -> {"start", "append", "result", "done", "failed"}]
  /\ \A c \in Cor : Busy(c) => wr[c] \in 0 .. Halves(c)
  /\ \A c \in Cor : rd[c].state \in {"idle", "run", "exit", "crash"}
  /\ outcome \in {"configs", "running", "raised", "done"}
  /\ DOMAIN csv \subseteq {RunName(runs[i]) : i \in 1 .. ri}

\* A CSV is written only from correct pairings: every flow result.py added
\* to a flow set was paired with the oracle FCT of its own ofct.tr line, the
\* lock-step read of flow.tr and ofct.tr (result.py:302-303) against a file
\* append_true_fct had finished (generate_plots.py:92-98).
SavedResultsAligned ==
  \A n \in DOMAIN csv : \A c \in DOMAIN csv[n].rows :
    \A s \in DOMAIN csv[n].rows[c].result :
      \A p \in csv[n].rows[c].result[s].real : p[1] = p[2]

\* generate implements the safety part of PlotResults: one run after the
\* other, it writes for each the CSV whose every row is what result.py
\* prints when run alone on that value's directory with that value's
\* bounds, under the first value's header, and fails only for a run that
\* cannot be plotted or at the ValueError of writerow.  The interleaving of
\* the coroutines and their subprocesses (generate_plots.py:52-53, 92-127),
\* the half-written ofct.tr a result.py may read, the loop over runs and a
\* run name shared by two runs (config.py:219) change none of it.
Abstract == INSTANCE PlotResults
              WITH status <- IF outcome \in {"raised", "done"} THEN outcome
                             ELSE "busy"

ImplementsPlotResults == Abstract!Init /\ [][Abstract!Next]_Abstract!vars

\* generate always ends: it writes the CSV of every run or raises, whatever
\* the order in which the subprocesses and tasks run.  With the safety part
\* above, this is the weak fairness of PlotResults, whose Next is enabled
\* in every state in which generate is busy.
Termination == <>(outcome \in {"raised", "done"})

\* The short, median and large sets of result.py (lines 282-290) split the
\* overall set: for flow sizes that are whole packets, the overlapping
\* bounds at 10 MiB and the gap below 100 KiB + 1 never bite, so every
\* count of the overall report is the sum of the three.
FlowSetsPartition ==
  \A c \in Cor : rd[c].state = "exit" =>
    \A f \in {"num", "thd", "max_thd", "numtos"} :
      rd[c].out[1][f] = rd[c].out[2][f] + rd[c].out[3][f] + rd[c].out[4][f]

=============================================================================
