SPECIFICATION Spec
CONSTANTS
  Nodes = {n1, n2}
  NoNode = NoNode
  Classes = {0}
  ReplyTypes = {"JOIN", "ACK", "PENDING_REQ"}
  MAX_PENDING_NODES = 2
  RETRY_TIMEOUT_S = 0
  INVITE_TIMEOUT_S = 0
  NUM_RETRIES = 1
  NUM_RETRIES_INV = 1
  NUM_RETRIES_BEFORE_INVITE = 1
  MaxFrames = 2
  MaxInflight = 1
INVARIANTS
  LockOK
  UniqueNode
  Addressed
PROPERTY
  ImplementsDownlink
SYMMETRY NodeSymmetry
