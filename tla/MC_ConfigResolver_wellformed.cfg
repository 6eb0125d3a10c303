\* Config.get, __getitem__ and __contains__ on documents without ambiguous
\* keys: get() suppresses exactly the failures the specification lets it.
CONSTANTS
  Aspects <- MCAspects
  Keys = {"k1"}
  Profiles = {p1, p2}
  Defined = {p1}
  p1 = p1
  p2 = p2
  Scalars <- MCScalars
  ListEntries <- MCLists5
  L4 = L4
  L5 = L5
  L6 = L6
  Loads <- MCLoads
  Alphas <- MCAlphas
  Ops = {"getitem", "get", "contains"}
  Files <- MCUnambiguousFiles
  None = None
  NoValue = NoValue
SPECIFICATION Spec
PROPERTY ImplementsLayeredLookup
