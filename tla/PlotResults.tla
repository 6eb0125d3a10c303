---------------------------- MODULE PlotResults -----------------------------
(***************************************************************************)
(* What generate (plot_generation/generate_plots.py) promises, without the *)
(* event loop, the subprocesses or the files they share: it takes the runs *)
(* one at a time, in order.  A run it cannot plot (one lacking an aspect   *)
(* the per-value runs read, or a value's results directory without        *)
(* flow.tr or drop.tr) ends it with an exception.  Otherwise it writes the *)
(* CSV named after the run in one step: under the flow sets of the first   *)
(* value, one row per value holding the reports result.py prints when run  *)
(* alone on that value's directory with that value's bounds; a value with  *)
(* a flow set the header lacks ends it after the rows before it.  After    *)
(* the last run it is done, and it always gets there.                      *)
(***************************************************************************)
EXTENDS Integers, Sequences

CONSTANTS AspectOrder, Aspect, Values, RunName(_), BoundsOf(_), Absent, None

VARIABLES
  runs,    \* the runs, in order (never changed)
  flow,    \* directory -> flow.tr, or Absent (never changed)
  dropTr,  \* directory -> whether it holds drop.tr (never changed)
  ri,      \* the run being plotted
  status,  \* "busy", "raised" or "done"
  csv      \* CSV file name -> [fields, rows]

vars == <<runs, flow, dropTr, ri, status, csv>>

RS == INSTANCE ResultStats

Cor     == DOMAIN Values
Aspects == {AspectOrder[j] : j \in DOMAIN AspectOrder}

PerValue(i, c) == [a \in Aspects |-> IF a = Aspect THEN Values[c] ELSE runs[i][a]]

DirOf(i, c) == RunName(PerValue(i, c))

Plottable(i) ==
  /\ Aspects \ {Aspect} \subseteq DOMAIN runs[i]
  /\ \A c \in Cor : flow[DirOf(i, c)] # Absent /\ dropTr[DirOf(i, c)]

\* The reports of value c of run i, result.py run alone to its end.
Alone(i, c) == RS!CompleteReports(flow[DirOf(i, c)], BoundsOf(PerValue(i, c)))

Header(i) == DOMAIN Alone(i, 1)

\* The values whose rows are written: all, or those before the first with
\* a flow set outside the header.
Rows(i) ==
  LET Fit(c) == DOMAIN Alone(i, c) \subseteq Header(i)
  IN  IF \A c \in Cor : Fit(c) THEN Cor
      ELSE 1 .. (CHOOSE c \in Cor : ~Fit(c) /\ \A b \in 1 .. c - 1 : Fit(b)) - 1

File(i) == [fields |-> Header(i),
            rows   |-> [c \in Rows(i) |-> [value |-> Values[c], result |-> Alone(i, c)]]]

Init ==
  /\ ri = 1
  /\ status = "busy"
  /\ csv = [n \in {} |-> <<>>]

Plot ==
  /\ status = "busy"
  /\ Plottable(ri)
  /\ csv' = [n \in DOMAIN csv \cup {RunName(runs[ri])} |->
               IF n = RunName(runs[ri]) THEN File(ri) ELSE csv[n]]
  /\ CASE Rows(ri) # Cor  -> status' = "raised" /\ UNCHANGED ri
       [] ri = Len(runs)  -> status' = "done" /\ UNCHANGED ri
       [] OTHER           -> ri' = ri + 1 /\ UNCHANGED status
  /\ UNCHANGED <<runs, flow, dropTr>>

Fail ==
  /\ status = "busy"
  /\ ~Plottable(ri)
  /\ status' = "raised"
  /\ UNCHANGED <<runs, flow, dropTr, ri, csv>>

Next == Plot \/ Fail

Spec == Init /\ [][Next]_vars /\ WF_vars(Next)

=============================================================================
