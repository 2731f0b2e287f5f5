SPECIFICATION FairSpec
CONSTANTS
  RuleSets = {zero, default}
  SSOs = {off}
  Bare = {zero}
  Zero = zero
  Default = default
  Off = off
  Empty = empty
  Bad = bad
  Admins = {a1}
  Scanners = {s1}
  ToolCalls = FALSE
  MaxPending = 1
  MaxWrites = 2
  MaxCrashes = 0
PROPERTIES ReloadSettles RequestsAnswered
CHECK_DEADLOCK FALSE
