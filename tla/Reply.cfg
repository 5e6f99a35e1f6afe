SPECIFICATION FairSpec
CONSTANTS
  d1 = d1
  d2 = d2
  comment = comment
  Lines <- MCLines
  Usable <- MCUsable
  StaticFile <- TwoDevices
  QueueMax = 1
  CutLines = TRUE
  MsgsndFails = TRUE
  MaxReplies = 3
  MaxGets = 1
CHECK_DEADLOCK FALSE
INVARIANTS
  TypeOK
  InOrder
  StaticListExact

  
  
