\* Loads 0.56 and 0.57 get one run name and share a results directory: a
\* CSV can be saved from misaligned oracle FCTs.
CONSTANTS
  Absent = Absent
  MayLackDrop <- MCMayLackDrop
  None = None
  AspectOrder <- MCAspectOrder
  Aspect <- MCAspect
  GivenChoices <- MCGivenOne
  Values <- MCValuesShared
  RunName <- MCRunName
  FlowFiles <- MCFlowFiles
  BoundsOf <- MCBoundsOf
SPECIFICATION Spec
INVARIANT SavedResultsAligned
