---------------------------- MODULE MC_RunDriver ----------------------------
(* Constants for checking RunDriver: three aspects (one profile aspect and  *)
(* the two numeric ones), flags given or not, and loads 0.5, 0.56 and     *)
(* 0.57, the last two with one run name.                                   *)
EXTENDS RunDriver, TLC

CONSTANTS p1, p2   \* profile names

MCAspects == <<"INPUT", "LOAD", "ALPHA">>

\* py: int(float(text) * 100) in IEEE-754 double arithmetic
\* (0.57 * 100 = 56.99999999999999).
L50  == [text |-> "0.5",  py |-> 50]
L56  == [text |-> "0.56", py |-> 56]
L57  == [text |-> "0.57", py |-> 56]
A150 == [text |-> "1.5",  py |-> 150]

MCFlagValues ==
  [a \in {"INPUT", "LOAD", "ALPHA"} |->
     CASE a = "INPUT" -> {p1, p2, None}
       [] a = "LOAD"  -> {L50, L56, L57, None}
       [] a = "ALPHA" -> {A150, None}]
=============================================================================
