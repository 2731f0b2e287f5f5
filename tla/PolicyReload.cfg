SPECIFICATION Spec
CONSTANTS
  RuleSets = {zero, default}
  SSOs = {off, on}
  Bare = {zero}
  Zero = zero
  Default = default
  Off = off
  Empty = empty
  Bad = bad
  Admins = {a1}
  Scanners = {s1}
  ToolCalls = TRUE
  MaxPending = 1
  MaxWrites = 2
  MaxCrashes = 1
INVARIANTS StaleOnlyIfBehind QuarantineOnlyIfCrossed
PROPERTIES DiesOnlyIfBare OnePolicyPerScan
CHECK_DEADLOCK FALSE
