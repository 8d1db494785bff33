\* The terminal page; the socket may drop once.
SPECIFICATION Spec
CONSTANTS
  Kinds = {"page"}
  Drops = {"drop1"}
  Button = "button"
  MaxChunks = 0
PROPERTY GoneMeansNoProcess
CHECK_DEADLOCK FALSE
