\* A shell in a container; the socket may drop once.
SPECIFICATION Spec
CONSTANTS
  Kinds = {"exec"}
  Drops = {"drop1"}
  Button = "button"
  MaxChunks = 0
PROPERTY RecordedShellDies
CHECK_DEADLOCK FALSE
