---------------------------- MODULE ResultStats ----------------------------
(***************************************************************************)
(* plot_generation/result.py: the statistics process.  It reads flow.tr   *)
(* and ofct.tr in lock-step, one line of each per iteration, adds every    *)
(* finished flow to each flow set whose size bound it satisfies, and       *)
(* prints one JSON report per set.                                         *)
(*                                                                         *)
(* The process is one of several concurrent ones (plot generation runs one *)
(* per value), so its state is a record and its loop iteration the         *)
(* operator Step, which the composing module applies to the files as they  *)
(* are at that moment.  A flow.tr line is a record of the fields the loop  *)
(* uses; FCTs are abstracted away except for the oracle FCT, which is the  *)
(* number of the ofct.tr line it came from (0 for a fragment of a line).   *)
(* ofct.tr is a sequence of half lines: TRUE for written bytes, FALSE for  *)
(* the zero bytes of a hole; line k is halves 2k-1 and 2k.                 *)
(***************************************************************************)
EXTENDS Integers, Sequences

CONSTANT None

\* _PACKET_SIZE, by which line 312 turns packets into bytes.
PACKET_SIZE == 1460

\* Mutant of Bound.satisfies: the lower bound not checked.
SatisfiesNoLower(b, v) == b.upper = None \/ v <= b.upper

\* Bound.satisfies
Satisfies(b, v) ==
  /\ b.lower = None \/ v >= b.lower
  /\ b.upper = None \/ v <= b.upper

Bound(lower, upper) == [lower |-> lower, upper |-> upper]

\* flowsets = [overall, short, median, large] + custom_sets, by their bounds;
\* custom is the --bound arguments, parsed (one custom{i} set each).
FlowSets(custom) ==
  << Bound(None, None),
     Bound(None, 100 * 1024),
     Bound(100 * 1024 + 1, 10 * 1024 * 1024),
     Bound(10 * 1024 * 1024, None) >> \o custom

\* A FlowSetStats as the report reads it: flows, deadlines met, deadlines,
\* timeouts, and the (line, oracle line) pairs behind real_nfcts.
EmptyStats == [num |-> 0, thd |-> 0, max_thd |-> 0, numtos |-> 0, real |-> {}]

_has_deadline(l)    == l.deadline # 0 \/ l.early
_is_deadline_met(l) == l.deadline # 0 /\ l.time <= l.deadline /\ ~l.early

Count(b) == IF b THEN 1 ELSE 0

\* FlowSetStats.add: nothing for a flow outside the bound.
Add(st, b, pair, l) ==
  IF ~Satisfies(b, l.pkt * PACKET_SIZE) THEN st
  ELSE [st EXCEPT !.num     = @ + 1,
                  !.real    = @ \cup {pair},
                  !.thd     = @ + Count(_is_deadline_met(l)),
                  !.max_thd = @ + Count(_has_deadline(l)),
                  !.numtos  = @ + l.to]

\* report() with --json and every metric flag: the entry of one set.
Report(st) ==
  [num |-> st.num, thd |-> st.thd, max_thd |-> st.max_thd,
   thd_fraction |-> IF st.max_thd # 0 THEN <<st.thd, st.max_thd>> ELSE None,
   numtos |-> st.numtos, real |-> st.real]

\* ofct_fp.readline() from half offset rh: the text and the new offset.  A
\* whole line yields its number; a line cut by the end of the file, or the
\* rest of one, is a fragment; zero bytes are garbage; nothing left is "eof".
ReadOfct(E, rh) ==
  LET k    == rh \div 2 + 1
      last == IF Len(E) < 2 * k THEN Len(E) ELSE 2 * k
  IN  IF Len(E) <= rh THEN [text |-> "eof", rh |-> rh]
      ELSE [text |-> CASE \E h \in rh + 1 .. last : ~E[h] -> "garbage"
                       [] last = 2 * k /\ rh % 2 = 0     -> "line"
                       [] OTHER                          -> "fragment",
            rh   |-> last,
            k    |-> k]

\* result.py started with the --bound arguments custom: its flow sets, all
\* empty, and both files at their start.
Start(custom) ==
  [state |-> "run", fpos |-> 0, rh |-> 0, fs |-> FlowSets(custom),
   sets |-> [i \in DOMAIN FlowSets(custom) |-> EmptyStats], out |-> <<>>]

AddAll(r, oracle, l) ==
  [r EXCEPT !.sets = [i \in DOMAIN r.fs |->
                        Add(r.sets[i], r.fs[i], <<r.fpos, oracle>>, l)]]

\* After the loop: one report per flow set, printed as JSON; the process
\* exits.
Finish(r) == [r EXCEPT !.state = "exit",
                       !.out = [i \in DOMAIN r.sets |-> Report(r.sets[i])]]

\* Mutant of the loop: a skipped line (time == 0) leaves both files where
\* they were, as an index advanced after the continue would.
StepSkipStalls(r, flow, E) ==
  IF r.fpos = Len(flow)
    THEN {Finish(r)}
    ELSE LET l     == flow[r.fpos + 1]
             o     == ReadOfct(E, r.rh)
             adv   == [r EXCEPT !.fpos = @ + 1, !.rh = o.rh]
             crash == [adv EXCEPT !.state = "crash"]
         IN  (IF o.text = "line" THEN {} ELSE {crash})
             \cup (IF o.text \in {"eof", "garbage"} THEN {}
                  ELSE IF l.time = 0 THEN {r}
                  ELSE {AddAll(adv, IF o.text = "line" THEN o.k ELSE 0, l)})

\* One iteration of the while loop, the outcomes it may have.  Both lines
\* are read first; at the end of flow.tr the loop breaks and the reports
\* are printed.  _parse_line parses both lines before the time == 0 skip,
\* so a skipped line still consumes its ofct.tr line and still fails on a
\* bad one: an empty ofct line fails the unpacking, garbage fails float(),
\* a fragment may fail float() or parse as some other number (for a flow
\* that is not skipped, as 0 it fails the division at line 58).
Step(r, flow, E) ==
  IF r.fpos = Len(flow)
    THEN {Finish(r)}
    ELSE LET l     == flow[r.fpos + 1]
             o     == ReadOfct(E, r.rh)
             adv   == [r EXCEPT !.fpos = @ + 1, !.rh = o.rh]
             crash == [adv EXCEPT !.state = "crash"]
         IN  (IF o.text = "line" THEN {} ELSE {crash})
             \cup (IF o.text \in {"eof", "garbage"} THEN {}
                  ELSE IF l.time = 0 THEN {adv}
                  ELSE {AddAll(adv, IF o.text = "line" THEN o.k ELSE 0, l)})

\* A reference, not code: the reports result.py prints for flow.tr read
\* against an ofct.tr that append_true_fct has finished, so that every read
\* is a whole line and each iteration has one outcome.
Complete(flow) == [h \in 1 .. 2 * Len(flow) |-> TRUE]

RECURSIVE RunToEnd(_, _)
RunToEnd(r, flow) ==
  IF r.state # "run" THEN r
  ELSE RunToEnd(CHOOSE x \in Step(r, flow, Complete(flow)) : TRUE, flow)

CompleteReports(flow, custom) == RunToEnd(Start(custom), flow).out

=============================================================================
