\* Every kind of terminal; the socket may drop twice.
SPECIFICATION Spec
CONSTANTS
  Kinds = {"page", "attach", "exec"}
  Drops = {"drop1", "drop2"}
  Button = "button"
  MaxChunks = 2
INVARIANTS TypeOK CompleteTranscript ReapedOnce
PROPERTIES ClosedSessionEnds RecordedInTimeDies
CHECK_DEADLOCK FALSE
