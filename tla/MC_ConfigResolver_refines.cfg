\* Config built from every small document and every CLI-shaped run, then
\* __getitem__ and __contains__ on every key: the code refines LayeredLookup.
CONSTANTS
  Aspects <- MCAspects
  Keys = {"k1"}
  Profiles = {p1, p2}
  Defined = {p1}
  p1 = p1
  p2 = p2
  Scalars <- MCScalars
  ListEntries <- MCLists5
  L4 = L4
  L5 = L5
  L6 = L6
  Loads <- MCLoads
  Alphas <- MCAlphas
  Ops = {"getitem", "contains"}
  None = None
  NoValue = NoValue
SPECIFICATION Spec
INVARIANT TypeOK
PROPERTY ImplementsLayeredLookup
