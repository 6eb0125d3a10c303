\* The file branch: Config passes int(load * 100) and get_json_file scales
\* it by 100 again before formatting the template.
CONSTANTS
  Delays = {10, 20}
  Counts = {0, 1, 2, 3}
  Nfcts = {0, 15, 30}
  Goodputs = {2}
  Bounds = {100}
  Cappings = {StrTrue, BoolTrue, StrFalse}
  TrueString = StrTrue
  StrTrue = StrTrue
  BoolTrue = BoolTrue
  StrFalse = StrFalse
  Templates = {Template}
  Template = Template
  Loads = {50, 70}
  LinkRates = {1, 2}
  Shapes <- MCShapes
  None = None
  NoValue = NoValue
SPECIFICATION Spec
CHECK_DEADLOCK FALSE
INVARIANT FileLoadIsPercent
