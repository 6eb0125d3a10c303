------------------------- MODULE MC_PlotGeneration -------------------------
(***************************************************************************)
(* Model-checking instances of PlotGeneration: two values of the varied    *)
(* aspect LOAD, over the runs of three command lines.  Directories are     *)
(* named by get_run_name, so loads 0.5 and 0.6 get their own and 0.56 and  *)
(* 0.57 share one (0.57 * 100 is 56.99999999999999 in double precision).   *)
(* flow.tr lines sit next to the size bounds of result.py: 70 and 71       *)
(* packets straddle 100 KiB, 7182 and 7183 packets straddle 10 MiB; one    *)
(* line is unfinished (time 0).                                            *)
(***************************************************************************)
EXTENDS PlotGeneration, Sequences, TLC

\* LOAD flag values: the text, and int(float(text) * 100) as Python gives it.
L50 == [text |-> "0.5",  py |-> 50]
L56 == [text |-> "0.56", py |-> 56]
L57 == [text |-> "0.57", py |-> 56]
L60 == [text |-> "0.6",  py |-> 60]

MCValuesDistinct == <<L50, L60>>
MCValuesShared   == <<L56, L57>>

\* Two members of Aspect stand for the seven: INPUT (a profile name) and
\* LOAD (varied by --aspect load).
MCAspectOrder == <<"input", "load">>
MCAspect      == "load"

\* get_run_name(run): the fields of the run name, in Aspect order, the
\* aspects the run lacks left out, a load as int(float(v) * 100).
MCRunName(run) ==
  LET present == SelectSeq(MCAspectOrder, LAMBDA a : a \in DOMAIN run)
      Field(a) == IF a = "load" THEN run[a].py ELSE run[a]
  IN  [i \in DOMAIN present |-> Field(present[i])]

\* Command lines: two profiles; no flag at all; one profile and two loads
\* that share a run name, so that two runs write one CSV.
MCGivenChoices ==
  { [input |-> <<"a", "b">>, load |-> <<>>],
    [input |-> <<>>,         load |-> <<>>],
    [input |-> <<"a">>,      load |-> <<L56, L57>>] }

\* One profile, as in the run whose values share a directory.
MCGivenOne == { [input |-> <<"a">>, load |-> <<>>] }

\* flow.tr lines: packets, FCT, timeouts, deadline, early termination.
Short    == [pkt |-> 70,   time |-> 1, to |-> 0, deadline |-> 2, early |-> FALSE]
Median   == [pkt |-> 71,   time |-> 2, to |-> 1, deadline |-> 1, early |-> FALSE]
Median10 == [pkt |-> 7182, time |-> 1, to |-> 0, deadline |-> 0, early |-> TRUE]
Large    == [pkt |-> 7183, time |-> 1, to |-> 1, deadline |-> 1, early |-> FALSE]
Unfinished == [pkt |-> 7183, time |-> 0, to |-> 0, deadline |-> 0, early |-> FALSE]

MCFlowFiles == {<<Unfinished, Short>>, <<Median, Median10>>, <<Large>>}

\* The results directory of profile a at load 0.6 may hold flow.tr but no
\* drop.tr (a simulator stopped between opening the two).
MCMayLackDrop == {<<"a", 60>>}

\* --bound "100000," and ",10485760", as Bound.from_string parses them.
B100K == [lower |-> 100000, upper |-> None]
B10M  == [lower |-> None,   upper |-> 10485760]

\* config.plot_generation_bounds, split: the document gives profile a the
\* list ["", "", "", "100000,", "100000, ,10485760"] and profile b the list
\* ["", "", "", "100000,", ""], indexed by load through DELAYS.  For the
\* loads 0.56 and 0.57, which a list does not resolve, the document
\* defines no plot_generation_bounds.
MCBoundsOf(run) ==
  CASE run.load = L50 /\ run.input = "a" -> <<B100K, B10M>>
    [] run.load = L50                    -> <<>>
    [] run.load = L60                    -> <<B100K>>
    [] OTHER                             -> <<>>
=============================================================================
