SPECIFICATION Spec
CONSTANTS
  d1 = d1
  d2 = d2
  comment = comment
  Lines <- NoLines
  Usable <- NoLines
  StaticFile <- NoDevices
  QueueMax = 2
  CutLines = FALSE
  MsgsndFails = FALSE
  MaxReplies = 2
  MaxGets = 0
INVARIANT
  AllServed
