\* Every derived property of a Config over resolved values reaching each
\* branch: one-server and four-server topologies, a missing load, known,
\* mixed-case and unknown priority schemes, integer, string and missing
\* pias thresholds, packet-property tables with zero, one, two and unknown
\* keys, and flow-size tables of every shape.
CONSTANTS
  Topologies <- MCTopologies
  LinkRates = {10}
  Loads = {50, None}
  PrioNames <- MCPrioNames
  Upper <- MCUpper
  SV = SV
  PiasVals = {3, SV, NoValue}
  StrVals = {SV}
  PropTables <- MCPropTables
  FlowSizes <- MCFlowSizes
  MeanOverrides = {NoValue, 4}
  AlphaProbs = {NoValue, 1}
  None = None
  NoValue = NoValue
SPECIFICATION Spec
INVARIANT TypeOK
