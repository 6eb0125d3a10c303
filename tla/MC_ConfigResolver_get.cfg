\* Config.get on every key: every KeyError, the ambiguity included, becomes
\* the fallback, where the specification keeps ambiguity fatal.
CONSTANTS
  Aspects <- MCAspects
  Keys = {"k1"}
  Profiles = {p1, p2}
  Defined = {p1}
  p1 = p1
  p2 = p2
  Scalars <- MCScalars
  ListEntries <- MCLists5
  L4 = L4
  L5 = L5
  L6 = L6
  Loads <- MCLoads
  Alphas <- MCAlphas
  Ops = {"get"}
  None = None
  NoValue = NoValue
SPECIFICATION Spec
PROPERTY ImplementsLayeredLookup
