SPECIFICATION FairSpec
CONSTANTS
    max_inflight = 1
    max_queued = 0
    allow_duplicate_messages = FALSE
    queue_qos0_messages = FALSE
    upgrade_outgoing_qos = FALSE
    MidMax = 8
    mid_max = 8
    Users <- NoUsers
    SecurityFiles <- NoFiles
    max_inflight_messages = 1
    Clients = {"p", "s"}
    Persistent = {"p", "s"}
    Wills <- PWill
    First <- SessionFirst
    Calls <- SessionCalls
    Conns = {1, 2, 3, 4, 5, 6}
    MaxBreaks = 1
    MaxTimeouts = 1
    MaxExpired = 0
INVARIANTS RefExact CountExact OneContext NoLoss UpOnce SentIsAccepted InOrder NotStuck ClientInflight
PROPERTIES WillsSaid Delivered Completes
