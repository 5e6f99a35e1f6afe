SPECIFICATION Spec
CONSTANTS
    max_inflight = 20
    max_queued = 100
    allow_duplicate_messages = FALSE
    queue_qos0_messages = FALSE
    upgrade_outgoing_qos = FALSE
    MidMax = 8
    mid_max = 8
    Users <- NoUsers
    SecurityFiles <- TreeFiles
    max_inflight_messages = 20
    Clients = {"p", "q", "s"}
    Persistent = {"s", "q"}
    Wills <- NoWills
    First <- TreeFirst
    Calls <- TreeCalls
    Conns = {1, 2, 3, 4, 5, 6}
    MaxBreaks = 0
    MaxTimeouts = 0
    MaxExpired = 1
INVARIANTS TypeOK TreeExact
PROPERTIES RoutesMatch RetainExact
