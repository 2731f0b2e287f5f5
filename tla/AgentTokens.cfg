SPECIFICATION Spec
CONSTANTS
  Instances = {i1}
  Tokens = {root, t1, t2}
  Minted = {root}
  Agents = {agent}
  Routes <- MCRoutes
  Lifetimes = {1}
  Spawn = spawn
  NoParent = none
  Plain = {}
  MaxSpawnDepth <- MCMaxSpawnDepth
  Durations = {1}
  Spawners = {s1}
  Revokers = {r1}
  MaxTime = 2
  MaxFaults = 2
SYMMETRY MCSymmetry
  
PROPERTIES ImmortalOnlyAtDeadline
CHECK_DEADLOCK FALSE
