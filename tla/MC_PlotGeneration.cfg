\* Plot generation over the runs of three command lines, one results
\* directory per value: flow sets partition, generate implements
\* PlotResults, and it ends.
CONSTANTS
  Absent = Absent
  MayLackDrop <- MCMayLackDrop
  None = None
  AspectOrder <- MCAspectOrder
  Aspect <- MCAspect
  GivenChoices <- MCGivenChoices
  Values <- MCValuesDistinct
  RunName <- MCRunName
  FlowFiles <- MCFlowFiles
  BoundsOf <- MCBoundsOf
SPECIFICATION Spec
INVARIANT TypeOK
INVARIANT FlowSetsPartition
PROPERTY ImplementsPlotResults
PROPERTY Termination
