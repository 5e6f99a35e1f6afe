SPECIFICATION Spec
CONSTANTS
  Nodes = {n1, n2}
  NoNode = NoNode
  Classes = {0, 2}
  ReplyTypes = {"JOIN", "KICK", "ACK", "PENDING_REQ"}
  MAX_PENDING_NODES = 1
  RETRY_TIMEOUT_S = 0
  INVITE_TIMEOUT_S = 0
  NUM_RETRIES = 2
  NUM_RETRIES_INV = 2
  NUM_RETRIES_BEFORE_INVITE = 2
  MaxFrames = 1
  MaxInflight = 1
INVARIANT
  Addressed
