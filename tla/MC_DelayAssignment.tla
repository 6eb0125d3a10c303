------------------------- MODULE MC_DelayAssignment -------------------------
(***************************************************************************)
(* Sub-tables of every shape the dispatch tells apart: each branch alone,  *)
(* each with and without its size bounds, a higher-priority key shadowing  *)
(* a lower one, a branch missing a key it reads, and no known key.  Counts *)
(* 0..3 reach the empty range, the division by zero and the real ranges;  *)
(* nfct 1.5 and 3.0 (in tenths) have quotients 5.33 and 2.67.             *)
(***************************************************************************)
EXTENDS DelayAssignment

\* use_capping = "true", use_capping = true, use_capping = "false"; a
\* file path template.
CONSTANTS StrTrue, BoolTrue, StrFalse, Template

MCShapes ==
  { {"delay"}, {"delay", "size_upper_bound", "size_lower_bound"},
    {"delay", "exp", "use_capping"},
    {"delay_min", "delay_max", "count"},
    {"delay_min", "delay_max", "count", "size_upper_bound"},
    {"delay_min", "count"},
    {"exp", "use_capping"}, {"exp", "use_capping", "size_lower_bound"},
    {"exp"},
    {"gp"}, {"gp", "size_upper_bound"},
    {"nfct"}, {"nfct", "size_lower_bound"},
    {"file"}, {"file", "size_upper_bound"},
    {"uniform_min_delay", "uniform_max_delay"},
    {"uniform_min_delay", "uniform_max_delay", "size_upper_bound"},
    {"uniform_min_delay"},
    {}, {"size_lower_bound"} }
=============================================================================
