SPECIFICATION FairSpec
CONSTANTS
  EventIDs = {e1, e2}
  Texts = {"utf8"}
  Junk = Junk
  TornWrites = FALSE
  LossyDisk = FALSE
  MaxRecords = 3
  MaxFaults = 3
CHECK_DEADLOCK FALSE
INVARIANTS DiskVerifies NothingEscapesSeals AckedInLog 
PROPERTIES ImplementsLedger EventuallySealed
