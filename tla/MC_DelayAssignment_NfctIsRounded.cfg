\* The nfct branch: the goodput target is int(8.0 / nfct), a truncation,
\* where the specification says round(8.0 / nfct).
CONSTANTS
  Delays = {10, 20}
  Counts = {0, 1, 2, 3}
  Nfcts = {0, 15, 30}
  Goodputs = {2}
  Bounds = {100}
  Cappings = {StrTrue, BoolTrue, StrFalse}
  TrueString = StrTrue
  StrTrue = StrTrue
  BoolTrue = BoolTrue
  StrFalse = StrFalse
  Templates = {Template}
  Template = Template
  Loads = {50, 70}
  LinkRates = {1, 2}
  Shapes <- MCShapes
  None = None
  NoValue = NoValue
SPECIFICATION Spec
CHECK_DEADLOCK FALSE
INVARIANT NfctIsRounded
