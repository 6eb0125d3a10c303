\* Spec 4.3 (d): the arrival process reproduces the configured load.  The
\* generator takes int() of the mean flow size, so a CDF with mean 2.75
\* packets gives arrivals sized for 2 and an offered load 11/8 too high.
CONSTANTS
  Topologies <- MCTopologies
  LinkRates = {10}
  Loads = {50, None}
  PrioNames <- MCPrioNames
  Upper <- MCUpper
  SV = SV
  PiasVals = {3, SV, NoValue}
  StrVals = {SV}
  PropTables <- MCPropTables
  FlowSizes <- MCFlowSizes
  MeanOverrides = {NoValue, 4}
  AlphaProbs = {NoValue, 1}
  None = None
  NoValue = NoValue
SPECIFICATION Spec
INVARIANT OfferedLoadReproduced
