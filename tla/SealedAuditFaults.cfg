SPECIFICATION Spec
CONSTANTS
  EventIDs = {e1}
  Texts = {"utf8"}
  Junk = Junk
  TornWrites = TRUE
  LossyDisk = TRUE
  MaxRecords = 2
  MaxFaults = 3
CHECK_DEADLOCK FALSE
INVARIANTS LogStaysChained
