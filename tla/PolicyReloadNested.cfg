SPECIFICATION FairSpec
CONSTANTS
  RuleSets = {zero, default}
  SSOs = {off}
  Bare = {zero}
  Zero = zero
  Default = default
  Off = off
  Empty = empty
  Bad = bad
  Admins = {a1}
  Scanners = {s1}
  ToolCalls = TRUE
  MaxPending = 2
  MaxWrites = 1
  MaxCrashes = 0
PROPERTY ReloadSettles
CHECK_DEADLOCK FALSE
