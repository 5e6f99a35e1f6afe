SPECIFICATION LifeSpec
CONSTANTS
    max_inflight = 1
    max_queued = 0
    allow_duplicate_messages = FALSE
    queue_qos0_messages = FALSE
    upgrade_outgoing_qos = FALSE
    MidMax = 8
    mid_max = 8
    Users <- LifeUsers
    SecurityFiles <- LifeFiles
    max_inflight_messages = 1
    Clients = {"p", "s"}
    Persistent = {"p", "s"}
    Wills <- LifeWills
    First <- LifeFirst
    Calls <- LifeCalls
    Conns = {1, 2, 3, 4, 5, 6}
    MaxBreaks = 0
    MaxTimeouts = 0
    MaxExpired = 0
    MaxBackups = 1
    MaxStops = 1
    MaxCuts = 0
INVARIANTS NoLossEver RestoreExact RefCounts AclCurrent
