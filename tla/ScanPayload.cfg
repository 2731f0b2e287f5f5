SPECIFICATION Spec
CONSTANTS
  Enabled = {"mcp", "exec", "personal", "wasm", "secrets", "payment"}
  Marks = {"personal", "wasm", "secrets", "payment", "call"}
  RequireScope = TRUE
  MaxMessages = 2
  MaxMarks = 2
INVARIANTS RedactedLeaves NothingBlockedLeaves CredentialWhereDue LogTells
CHECK_DEADLOCK FALSE
