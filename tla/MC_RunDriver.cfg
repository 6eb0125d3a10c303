\* Three invocations of run.py main with any flags (a defined profile, an
\* undefined one or none; loads 0.5, 0.56, 0.57 or none; alpha 1.5 or none),
\* any config.toml outcome, dry or not, and every simulator ending.
CONSTANTS
  Aspects <- MCAspects
  FlagValues <- MCFlagValues
  Defined = {p1}
  p1 = p1
  p2 = p2
  MaxInvocations = 3
  None = None
SPECIFICATION Spec
INVARIANT TypeOK
INVARIANT SimulatorReadsOwnDescriptors
