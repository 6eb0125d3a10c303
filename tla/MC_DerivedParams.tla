-------------------------- MODULE MC_DerivedParams --------------------------
(* Constants for checking DerivedParams: resolved values chosen to reach   *)
(* every branch of the derived properties and of the arrivals generator.   *)
EXTENDS DerivedParams, TLC

CONSTANTS SV   \* a string-valued pias_thresh entry

\* prio_scheme strings and their str.upper()
MCPrioNames == {"remaining_size", "Bytes_Sent", "srpt"}
MCUpper == [n \in MCPrioNames |->
              CASE n = "remaining_size" -> "REMAINING_SIZE"
                [] n = "Bytes_Sent"     -> "BYTES_SENT"
                [] n = "srpt"           -> "SRPT"]

MCPropTables == {NoValue, {}, {"las"}, {"inv_size", "las"},
                 {"uniform", "inv_rem_size"}, {"lifo"}}

\* CDF files as rows <<size in packets, cdf in hundredths>>.
CdfFractional == <<<<1, 0>>, <<3, 50>>, <<6, 100>>>>   \* INTEGRAL mean 11/4
CdfWhole      == <<<<1, 0>>, <<2, 100>>>>              \* INTEGRAL mean 1
CdfOneRow     == <<<<4, 0>>>>                          \* mean 0
CdfUnsorted   == <<<<1, 100>>, <<10, 0>>>>             \* mean -5

MCFlowSizes ==
  {NoValue,
   [cdf |-> CdfFractional], [cdf |-> CdfWhole], [cdf |-> CdfOneRow],
   [cdf |-> CdfUnsorted], [fixed |-> 3], [fixed |-> 0],
   [uniform |-> [min |-> 1, max |-> 4]],
   [fixed |-> 3, cdf |-> CdfFractional], [pareto |-> 2]}


\* <<topology_spt, topology_tors>>: one server in all, and four.
MCTopologies == {<<1, 1>>, <<2, 2>>}
=============================================================================
