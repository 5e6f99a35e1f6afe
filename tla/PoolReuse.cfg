SPECIFICATION Spec
CONSTANTS
  Nodes = {n1, n2}
  NoNode = NoNode
  Classes = {0, 2}
  ReplyTypes = {"JOIN", "LIST", "KICK", "ACK", "PENDING_REQ"}
  MAX_PENDING_NODES = 1
  RETRY_TIMEOUT_S = 1
  INVITE_TIMEOUT_S = 0
  NUM_RETRIES = 2
  NUM_RETRIES_INV = 2
  NUM_RETRIES_BEFORE_INVITE = 2
  MaxFrames = 2
  MaxInflight = 1
INVARIANTS
  TypeOK
  FreshBudget
  FifoOrder
PROPERTY
  HonestGiveUp
SYMMETRY NodeSymmetry
