SPECIFICATION FairSpec
CONSTANTS
  Sessions = {s1}
  Keys = {shadow}
  Sensitive = {shadow}
  Args = {a1}
  Callers = {c1}
  Operators = {o1, o2}
  GrantTTL = 1
  Timeout = 1
  HITL = TRUE
  SharedSlot = FALSE
  MaxRequests = 2
INVARIANTS SignedAsDecided
PROPERTIES PassOnlyIfApproved DenialHolds ImplementsBook PendingIsDecided
