SPECIFICATION FairSpec
CONSTANTS
  s1 = s1
  d1 = d1
  d2 = d2
  SkillIDs = {s1}
  Docs = {d1, d2}
  Owner <- MCOwner
  None = None
  Policies <- MCPolicies
  Requests = {r1}
  K = 1
  MaxLoads = 2
  MaxChanges = 1
INVARIANTS
  QuarantineHolds
PROPERTIES
  
  
  AnsweredUnlessNested
CHECK_DEADLOCK FALSE
