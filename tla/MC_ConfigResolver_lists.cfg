\* __getitem__ on lists one entry shorter and one longer than DELAYS: zip
\* truncates, so they resolve for some loads where the spec says they fail.
CONSTANTS
  Aspects <- MCAspects
  Keys = {"k1"}
  Profiles = {p1, p2}
  Defined = {p1}
  p1 = p1
  p2 = p2
  Scalars <- MCScalars
  ListEntries <- MCListsOff
  L4 = L4
  L5 = L5
  L6 = L6
  Loads <- MCLoads
  Alphas <- MCAlphas
  Ops = {"getitem"}
  None = None
  NoValue = NoValue
SPECIFICATION Spec
PROPERTY ImplementsLayeredLookup
