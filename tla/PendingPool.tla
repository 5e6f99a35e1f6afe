---------------------------- MODULE PendingPool ----------------------------
(***************************************************************************)
(* The downlink side of the LoRa gateway daemon (LORA/lora-mqtt/mqtt.c):   *)
(* the pool of per-node pending queues, and the four threads that share it *)
(*                                                                         *)
(*   mosq       the MQTT network loop, message_to_mote                     *)
(*   publisher  serve_reply: JOIN, LIST, KICK, ACK and PENDING_REQ         *)
(*   worker     pending_worker: (re)transmissions, invitations, give-ups   *)
(*   reader     uart_reader, here only as a holder of mutex_uart           *)
(*                                                                         *)
(* A step is a stretch of one thread between two points where another      *)
(* thread can see or change what it uses.  Stretches under mutex_pending   *)
(* are split where an unlocked access of another thread can fall between.  *)
(* Accesses happen in program order (the Makefile builds with -O0).        *)
(*                                                                         *)
(* A time is represented by its age in seconds, saturated at MaxAge: the   *)
(* code only ever compares current - last_msg and current - last_inv.      *)
(***************************************************************************)
EXTENDS Integers, Sequences

CONSTANTS
  Nodes,                      \* EUI-64 addresses of motes
  NoNode,                     \* the nodeid init_pending stores (0)
  Classes,                    \* node classes the gate reports
  ReplyTypes,                 \* kinds of reply the gate sends
  MAX_PENDING_NODES, RETRY_TIMEOUT_S, INVITE_TIMEOUT_S,
  NUM_RETRIES, NUM_RETRIES_INV, NUM_RETRIES_BEFORE_INVITE,
  MaxFrames,                  \* bound: MQTT commands in a behaviour
  MaxInflight                 \* bound: unanswered transmissions counted

LS_ED_CLASS_A == 0
LS_ED_CLASS_B == 1
LS_ED_CLASS_C == 2

ASSUME ConstantsAssumption ==
  /\ NoNode \notin Nodes
  /\ Classes \subseteq {LS_ED_CLASS_A, LS_ED_CLASS_B, LS_ED_CLASS_C}
  /\ ReplyTypes \subseteq {"JOIN", "LIST", "KICK", "ACK", "PENDING_REQ"}
  /\ MAX_PENDING_NODES \in Nat \ {0}
  /\ RETRY_TIMEOUT_S \in Nat /\ INVITE_TIMEOUT_S \in Nat
  /\ NUM_RETRIES \in Nat /\ NUM_RETRIES_INV \in Nat
  /\ NUM_RETRIES_BEFORE_INVITE \in Nat \ {0}
  /\ MaxFrames \in Nat /\ MaxInflight \in Nat

VARIABLES
  pending_free,   \* [Slots -> BOOLEAN]
  pending,        \* [Slots -> Item], the array of pending_item_t
  mutex_pending,  \* the thread that holds it, or Nobody
  mutex_uart,
  pc, e, call,    \* per thread: position, local pointer, arguments
  i, cur,         \* worker: loop index, age of its variable current
  nextId,         \* MQTT commands accepted so far
  inflight,       \* transmissions to a node the gate may still acknowledge
  hist            \* per slot, history of the frame at the head (see Hist)

pool    == <<pending_free, pending>>
threads == <<pc, e, call>>
vars    == <<pending_free, pending, mutex_pending, mutex_uart, pc, e, call,
             i, cur, nextId, inflight, hist>>

NULL    == 0
Slots   == 1 .. MAX_PENDING_NODES
Threads == {"mosq", "publisher", "worker", "reader"}
Callers == {"mosq", "publisher"}          \* the callers of add_device
Nobody  == "nobody"

\* The largest age any comparison in pending_worker can tell apart.
MaxAge ==
  LET inv == INVITE_TIMEOUT_S * NUM_RETRIES_INV
  IN  1 + IF RETRY_TIMEOUT_S > inv THEN RETRY_TIMEOUT_S ELSE inv

\* A queued gate command: the address it carries and its arrival number.
Frame == [addr : Nodes, id : 1 .. MaxFrames]

Item == [nodeid           : Nodes \cup {NoNode},
         pending_fifo     : Seq(Frame),
         msg_age          : 0 .. MaxAge,      \* current - last_msg
         inv_age          : 0 .. MaxAge,      \* current - last_inv
         nodeclass        : 0 .. 2,
         has_been_invited : BOOLEAN,
         can_send         : BOOLEAN,
         num_retries      : Nat,
         num_pending      : Nat]

Call == [type : {"NONE", "MSG", "JOIN", "LIST", "KICK", "ACK", "PENDING_REQ"},
         node : Nodes \cup {NoNode}, class : 0 .. 2]

\* tries: transmissions of the frame now at the head of the queue and
\* invitations made for it; tx: the transmissions alone.
Hist == [tries : Nat, tx : Nat]

FreshItem(n, c, invited) ==
  [nodeid |-> n, pending_fifo |-> <<>>, msg_age |-> MaxAge,
   inv_age |-> MaxAge, nodeclass |-> c, has_been_invited |-> invited,
   can_send |-> FALSE, num_retries |-> 0, num_pending |-> 0]

NoHist == [tries |-> 0, tx |-> 0]
NoCall == [type |-> "NONE", node |-> NoNode, class |-> LS_ED_CLASS_A]

\* main before the threads start: init_pending, both mutexes free.
Init ==
  /\ pending_free = [s \in Slots |-> TRUE]
  /\ pending = [s \in Slots |-> FreshItem(NoNode, LS_ED_CLASS_A, FALSE)]
  /\ mutex_pending = Nobody /\ mutex_uart = Nobody
  /\ pc = [t \in Threads |-> CASE t \in Callers -> "idle"
                             [] t = "worker" -> "lock"
                             [] t = "reader" -> "poll"]
  /\ e = [t \in Callers |-> NULL]
  /\ call = [t \in Callers |-> NoCall]
  /\ i = 1 /\ cur = 0 /\ nextId = 0
  /\ inflight = [n \in Nodes |-> 0]
  /\ hist = [s \in Slots |-> NoHist]

-----------------------------------------------------------------------------
(* pending_to_nodeid: the first occupied slot that holds n, else NULL.     *)

\* Mutant: the address is not compared.
MatchesAny(s, n) == ~pending_free[s]

Matches(s, n) == ~pending_free[s] /\ pending[s].nodeid = n

IsLookup(n, s) ==
  IF s = NULL THEN \A t \in Slots : ~Matches(t, n)
              ELSE Matches(s, n) /\ \A t \in 1 .. s - 1 : ~Matches(t, n)

IsFirstFree(s) == pending_free[s] /\ \A t \in 1 .. s - 1 : ~pending_free[t]

Goto(t, l) == pc' = [pc EXCEPT ![t] = l]

\* The handler returns: its locals are gone.
Return(t) ==
  /\ Goto(t, "idle")
  /\ e' = [e EXCEPT ![t] = NULL]
  /\ call' = [call EXCEPT ![t] = NoCall]

\* The handler continues at l with s in its local e.
Continue(t, l, s) ==
  /\ Goto(t, l) /\ e' = [e EXCEPT ![t] = s] /\ UNCHANGED call

\* Mutant: the last entry is removed.
DequeueLast(q) == SubSeq(q, 1, Len(q) - 1)

Dequeue(q) == IF q = <<>> THEN q ELSE Tail(q)

\* The head of the queue of s changes: its history starts again.
NewHead(s) == hist' = [hist EXCEPT ![s] = NoHist]

\* History counters saturate above every bound they are compared with.
MaxHist ==
  1 + IF NUM_RETRIES > NUM_RETRIES_INV THEN NUM_RETRIES ELSE NUM_RETRIES_INV
Count(k) == IF k < MaxHist THEN k + 1 ELSE k

-----------------------------------------------------------------------------
(* add_device(nodeid, nodeclass, was_joined), called by mosq for a node    *)
(* that is not in the pool and by publisher for every JOIN and LIST.       *)

Joined(t) == call[t].type # "MSG"

\* Mutant: add_device searches the pool before it takes the lock.
AddLockedMissing(t) == pc[t] = "add"

AddLocked(t) == pc[t] = "add" /\ mutex_pending = Nobody

\* What add_device stores in an existing record.
Rejoined(p, c, joined) ==
  [p EXCEPT !.nodeclass = c,
            !.has_been_invited = @ /\ ~(c = LS_ED_CLASS_C /\ joined)]

\* An existing record: class and invitation flag change under the lock ...
AddExisting(t) ==
  /\ AddLocked(t)
  /\ \E s \in Slots :
       /\ IsLookup(call[t].node, s)
       /\ e' = [e EXCEPT ![t] = s]
       /\ pending' = [pending EXCEPT
                        ![s] = Rejoined(@, call[t].class, Joined(t))]
  /\ Goto(t, "addreset")
  /\ UNCHANGED <<pending_free, mutex_pending, mutex_uart, call, i, cur,
                 nextId, inflight, hist>>

\* ... and num_retries after it is released.  The store may fall inside the
\* worker's num_retries++ on the same record, which then overwrites it.
AddReset(t) ==
  /\ pc[t] = "addreset"
  /\ \/ pending' = [pending EXCEPT ![e[t]].num_retries = 0]
     \/ /\ pc["worker"] \in {"invite", "send"} /\ i = e[t]
        /\ UNCHANGED pending
  /\ Goto(t, "added")
  /\ UNCHANGED <<pending_free, mutex_pending, mutex_uart, e, call, i, cur,
                 nextId, inflight, hist>>

\* A new record.  The slot is marked occupied before its nodeid is stored,
\* and the nodeid before the other fields: lookups without the lock see it.
AddOccupy(t) ==
  /\ AddLocked(t)
  /\ IsLookup(call[t].node, NULL)
  /\ \E s \in Slots :
       /\ IsFirstFree(s)
       /\ e' = [e EXCEPT ![t] = s]
       /\ pending_free' = [pending_free EXCEPT ![s] = FALSE]
  /\ mutex_pending' = t
  /\ Goto(t, "addnode")
  /\ UNCHANGED <<pending, mutex_uart, call, i, cur, nextId, inflight, hist>>

AddNodeid(t) ==
  /\ pc[t] = "addnode"
  /\ pending' = [pending EXCEPT ![e[t]].nodeid = call[t].node]
  /\ Goto(t, "addinit")
  /\ UNCHANGED <<pending_free, mutex_pending, mutex_uart, e, call, i, cur,
                 nextId, inflight, hist>>

AddInit(t) ==
  /\ pc[t] = "addinit"
  /\ pending' = [pending EXCEPT
                   ![e[t]] = FreshItem(call[t].node, call[t].class, ~Joined(t))]
  /\ hist' = [hist EXCEPT ![e[t]] = NoHist]
  /\ mutex_pending' = Nobody
  /\ Goto(t, "added")
  /\ UNCHANGED <<pending_free, mutex_uart, e, call, i, cur, nextId, inflight>>

\* No record and no free slot.
AddFull(t) ==
  /\ AddLocked(t)
  /\ IsLookup(call[t].node, NULL)
  /\ \A s \in Slots : ~pending_free[s]
  /\ Goto(t, "added")
  /\ UNCHANGED <<pool, mutex_pending, mutex_uart, e, call, i, cur, nextId,
                 inflight, hist>>

-----------------------------------------------------------------------------
(* mosq: message_to_mote(addr, payload)                                    *)

\* The first lookup, without the lock.
MessageToMote(n) ==
  /\ pc["mosq"] = "idle" /\ nextId < MaxFrames
  /\ nextId' = nextId + 1
  /\ call' = [call EXCEPT !["mosq"] =
                [type |-> "MSG", node |-> n, class |-> LS_ED_CLASS_C]]
  /\ \E s \in Slots \cup {NULL} :
       /\ IsLookup(n, s)
       /\ e' = [e EXCEPT !["mosq"] = s]
       /\ Goto("mosq", IF s = NULL THEN "add" ELSE "enqueue")
  /\ UNCHANGED <<pool, mutex_pending, mutex_uart, i, cur, inflight, hist>>

\* The lookup after add_device, also without the lock.
MessageAdded ==
  /\ pc["mosq"] = "added"
  /\ \E s \in Slots \cup {NULL} :
       /\ IsLookup(call["mosq"].node, s)
       /\ IF s = NULL THEN Return("mosq") ELSE Continue("mosq", "enqueue", s)
  /\ UNCHANGED <<pool, mutex_pending, mutex_uart, i, cur, nextId, inflight,
                 hist>>

\* Mutant: the frame is inserted at the head of the list.
QueuedFirst(p, n) ==
  [p EXCEPT !.pending_fifo = <<[addr |-> n, id |-> nextId]>> \o @]

\* What message_to_mote stores: the frame, and its count for class A.
Queued(p, n) ==
  [p EXCEPT
     !.pending_fifo = Append(@, [addr |-> n, id |-> nextId]),
     !.num_pending = IF p.nodeclass = LS_ED_CLASS_A THEN @ + 1 ELSE @]

\* For a class A node the lock is kept for the notification.
Enqueue ==
  /\ pc["mosq"] = "enqueue" /\ mutex_pending = Nobody
  /\ LET s == e["mosq"]
         a == pending[s].nodeclass = LS_ED_CLASS_A
     IN  /\ pending' = [pending EXCEPT ![s] = Queued(@, call["mosq"].node)]
         /\ mutex_pending' = IF a THEN "mosq" ELSE Nobody
         /\ IF a THEN Continue("mosq", "notify", s) ELSE Return("mosq")
  /\ UNCHANGED <<pending_free, mutex_uart, i, cur, nextId, inflight, hist>>

\* Mutant: the early return forgets the unlock.
EnqueueNoMemoryLocked ==
  /\ pc["mosq"] = "enqueue" /\ mutex_pending = Nobody
  /\ mutex_pending' = "mosq"
  /\ Return("mosq")
  /\ UNCHANGED <<pool, mutex_uart, i, cur, nextId, inflight, hist>>

\* malloc fails in m_enqueue: the command is dropped.
EnqueueNoMemory ==
  /\ pc["mosq"] = "enqueue" /\ mutex_pending = Nobody
  /\ Return("mosq")
  /\ UNCHANGED <<pool, mutex_pending, mutex_uart, i, cur, nextId, inflight,
                 hist>>

\* CMD_HAS_PENDING, then both locks are released.
EnqueueNotify ==
  /\ pc["mosq"] = "notify" /\ mutex_uart = Nobody
  /\ mutex_pending' = Nobody
  /\ Return("mosq")
  /\ UNCHANGED <<pool, mutex_uart, i, cur, nextId, inflight, hist>>

-----------------------------------------------------------------------------
(* publisher: serve_reply                                                  *)

\* The publisher takes a reply and continues at l, or has nothing to do.
Receive(type, n, c, s, l) ==
  /\ pc["publisher"] = "idle" /\ type \in ReplyTypes
  /\ IF l = "idle"
     THEN UNCHANGED threads
     ELSE /\ Goto("publisher", l)
          /\ e' = [e EXCEPT !["publisher"] = s]
          /\ call' = [call EXCEPT !["publisher"] =
                        [type |-> type, node |-> n, class |-> c]]
  /\ UNCHANGED <<pool, mutex_pending, mutex_uart, i, cur, nextId, hist>>

\* REPLY_JOIN and REPLY_LIST begin with add_device.
ReceiveJoin(n, c) == Receive("JOIN", n, c, NULL, "add") /\ UNCHANGED inflight
ReceiveList(n, c) == Receive("LIST", n, c, NULL, "add") /\ UNCHANGED inflight

\* REPLY_KICK and REPLY_ACK look the node up first, without the lock, and
\* ignore the reply for an unknown node.  A node acknowledges a transmission
\* at most once.
ReceiveKick(n) ==
  /\ \E s \in Slots \cup {NULL} :
       /\ IsLookup(n, s)
       /\ Receive("KICK", n, LS_ED_CLASS_A, s,
                  IF s = NULL THEN "idle" ELSE "kick")
  /\ UNCHANGED inflight

ReceiveAck(n) ==
  /\ inflight[n] > 0
  /\ inflight' = [inflight EXCEPT ![n] = @ - 1]
  /\ \E s \in Slots \cup {NULL} :
       /\ IsLookup(n, s)
       /\ Receive("ACK", n, LS_ED_CLASS_A, s,
                  IF s = NULL THEN "idle" ELSE "ack")

\* REPLY_PENDING_REQ also reads nodeclass and num_pending without the lock.
Grantable(s) ==
  pending[s].nodeclass = LS_ED_CLASS_A /\ pending[s].num_pending > 0

ReceivePendingReq(n) ==
  /\ \E s \in Slots \cup {NULL} :
       /\ IsLookup(n, s)
       /\ Receive("PENDING_REQ", n, LS_ED_CLASS_A, s,
                  IF s # NULL /\ Grantable(s) THEN "grant" ELSE "idle")
  /\ UNCHANGED inflight

\* After add_device: REPLY_LIST is done, REPLY_JOIN looks the node up again
\* and tells the gate when it has pending frames.
PublisherAdded ==
  /\ pc["publisher"] = "added"
  /\ \E s \in Slots \cup {NULL} :
       /\ IsLookup(call["publisher"].node, s)
       /\ IF call["publisher"].type = "JOIN" /\ s # NULL
               /\ pending[s].num_pending > 0
          THEN Continue("publisher", "notify", s)
          ELSE Return("publisher")
  /\ UNCHANGED <<pool, mutex_pending, mutex_uart, i, cur, nextId, inflight,
                 hist>>

JoinNotify ==
  /\ pc["publisher"] = "notify" /\ mutex_uart = Nobody
  /\ Return("publisher")
  /\ UNCHANGED <<pool, mutex_pending, mutex_uart, i, cur, nextId, inflight,
                 hist>>

\* kick_device: frees the slot and empties its queue; other fields stay.
KickDevice ==
  /\ pc["publisher"] = "kick" /\ mutex_pending = Nobody
  /\ \E s \in Slots \cup {NULL} :
       /\ IsLookup(call["publisher"].node, s)
       /\ IF s = NULL
          THEN UNCHANGED pool
          ELSE /\ pending_free' = [pending_free EXCEPT ![s] = TRUE]
               /\ pending' = [pending EXCEPT ![s].pending_fifo = <<>>]
  /\ Return("publisher")
  /\ UNCHANGED <<mutex_pending, mutex_uart, i, cur, nextId, inflight, hist>>

\* Mutant: num_pending is decremented also at zero.
AckedUnderflow(p) ==
  [p EXCEPT !.has_been_invited = FALSE, !.pending_fifo = Dequeue(@),
            !.num_pending = @ - 1, !.num_retries = 0]

\* Mutant: the attempts of the acknowledged frame are not cleared.
AckedKeepsRetries(p) ==
  [p EXCEPT !.has_been_invited = FALSE, !.pending_fifo = Dequeue(@),
            !.num_pending = IF @ > 0 THEN @ - 1 ELSE @]

\* REPLY_ACK: whatever frame is at the head is removed.
Acked(p) ==
  [p EXCEPT !.has_been_invited = FALSE,
            !.pending_fifo = Dequeue(@),
            !.num_pending = IF @ > 0 THEN @ - 1 ELSE @,
            !.num_retries = 0]

Acknowledge ==
  /\ pc["publisher"] = "ack" /\ mutex_pending = Nobody
  /\ LET s == e["publisher"]
     IN  /\ pending' = [pending EXCEPT ![s] = Acked(@)]
         /\ NewHead(s)
  /\ Return("publisher")
  /\ UNCHANGED <<pending_free, mutex_pending, mutex_uart, i, cur, nextId,
                 inflight>>

\* REPLY_PENDING_REQ: allow one transmission, at once.
Granted(p) == [p EXCEPT !.can_send = TRUE, !.msg_age = MaxAge]

GrantPending ==
  /\ pc["publisher"] = "grant" /\ mutex_pending = Nobody
  /\ pending' = [pending EXCEPT ![e["publisher"]] = Granted(@)]
  /\ Return("publisher")
  /\ UNCHANGED <<pending_free, mutex_pending, mutex_uart, i, cur, nextId,
                 inflight, hist>>

-----------------------------------------------------------------------------
(* worker: one scan of the pool under mutex_pending                        *)

WorkerLock ==
  /\ pc["worker"] = "lock" /\ mutex_pending = Nobody
  /\ mutex_pending' = "worker" /\ i' = 1
  /\ Goto("worker", "scan")
  /\ UNCHANGED <<pool, mutex_uart, e, call, cur, nextId, inflight, hist>>

WorkerUnlock ==
  /\ pc["worker"] = "scan" /\ i > MAX_PENDING_NODES
  /\ mutex_pending' = Nobody
  /\ Goto("worker", "lock")
  /\ UNCHANGED <<pool, mutex_uart, e, call, i, cur, nextId, inflight, hist>>


\* The slot has a frame the worker may act on.
Eligible(s) ==
  /\ ~pending_free[s] /\ pending[s].pending_fifo # <<>>
  /\ pending[s].nodeclass = LS_ED_CLASS_A => pending[s].can_send

\* The node must join before messages are sent to it.
Invited(s) ==
  pending[s].nodeclass = LS_ED_CLASS_C /\ pending[s].has_been_invited

InviteDue(s) ==
  pending[s].inv_age > pending[s].num_retries * INVITE_TIMEOUT_S

SendDue(s) == pending[s].msg_age > RETRY_TIMEOUT_S

InviteExhausted(s) == pending[s].num_retries > NUM_RETRIES_INV
SendExhausted(s)   == pending[s].num_retries > NUM_RETRIES

Scanning == pc["worker"] = "scan" /\ i \in Slots

WorkerSkip ==
  /\ Scanning
  /\ Eligible(i) => IF Invited(i) THEN ~InviteExhausted(i) /\ ~InviteDue(i)
                                  ELSE ~SendDue(i)
  /\ i' = i + 1
  /\ UNCHANGED <<pool, mutex_pending, mutex_uart, threads, cur, nextId,
                 inflight, hist>>

\* Mutant: the attempts are not cleared.
GaveUpKeepsRetries(p) == [p EXCEPT !.pending_fifo = Dequeue(@)]


\* Both give-ups clear num_retries and drop the frame at the head.
GaveUp(p) == [p EXCEPT !.num_retries = 0, !.pending_fifo = Dequeue(@)]

GiveUp(s) ==
  /\ pending' = [pending EXCEPT ![s] = GaveUp(@)]
  /\ NewHead(s)
  /\ i' = i + 1
  /\ UNCHANGED <<pending_free, mutex_pending, mutex_uart, threads, cur, nextId,
                 inflight>>

InviteGiveUp ==
  Scanning /\ Eligible(i) /\ Invited(i) /\ InviteExhausted(i) /\ GiveUp(i)

SendGiveUp ==
  /\ Scanning /\ Eligible(i) /\ ~Invited(i) /\ SendDue(i) /\ SendExhausted(i)
  /\ GiveUp(i)

\* invite_mote waits for mutex_uart; num_retries is incremented after it.
WorkerInvite ==
  /\ Scanning /\ Eligible(i) /\ Invited(i)
  /\ ~InviteExhausted(i) /\ InviteDue(i)
  /\ cur' = 0
  /\ Goto("worker", "invite")
  /\ UNCHANGED <<pool, mutex_pending, mutex_uart, e, call, i, nextId, inflight,
                 hist>>

InviteMote ==
  /\ pc["worker"] = "invite" /\ mutex_uart = Nobody
  /\ pending' = [pending EXCEPT ![i].num_retries = @ + 1, ![i].inv_age = cur]
  /\ hist' = [hist EXCEPT ![i].tries = Count(@)]
  /\ i' = i + 1
  /\ cur' = 0
  /\ Goto("worker", "scan")
  /\ UNCHANGED <<pending_free, mutex_pending, mutex_uart, e, call, nextId,
                 inflight>>

\* A transmission: num_retries is incremented before the wait for mutex_uart.
WorkerPeek ==
  /\ Scanning /\ Eligible(i) /\ ~Invited(i) /\ SendDue(i) /\ ~SendExhausted(i)
  /\ cur' = 0
  /\ pending' = [pending EXCEPT ![i].num_retries = @ + 1]
  /\ hist' = [hist EXCEPT ![i].tries = Count(@)]
  /\ Goto("worker", "send")
  /\ UNCHANGED <<pending_free, mutex_pending, mutex_uart, e, call, i, nextId,
                 inflight>>

\* What the worker stores after it wrote the frame: a class C node is to be
\* invited after NUM_RETRIES_BEFORE_INVITE transmissions.
Sent(p) ==
  LET inv == /\ p.nodeclass = LS_ED_CLASS_C
             /\ p.num_retries = NUM_RETRIES_BEFORE_INVITE
  IN  [p EXCEPT !.num_retries = IF inv THEN 1 ELSE @,
                !.inv_age = IF inv THEN cur ELSE @,
                !.has_been_invited = @ \/ inv,
                !.can_send = FALSE,
                !.msg_age = cur]

WorkerSend ==
  /\ pc["worker"] = "send" /\ mutex_uart = Nobody
  /\ pending' = [pending EXCEPT ![i] = Sent(@)]
  /\ LET n == Head(pending[i].pending_fifo).addr
     IN  inflight' = [inflight EXCEPT
                        ![n] = IF @ < MaxInflight THEN @ + 1 ELSE @]
  /\ hist' = [hist EXCEPT ![i].tx = Count(@)]
  /\ i' = i + 1
  /\ cur' = 0
  /\ Goto("worker", "scan")
  /\ UNCHANGED <<pending_free, mutex_pending, mutex_uart, e, call, nextId>>

-----------------------------------------------------------------------------
(* reader: holds mutex_uart from CMD_FLUSH until the UART has no more      *)
(* bytes.  ReplyChannel models what it reads.                              *)

ReaderLock ==
  /\ pc["reader"] = "poll" /\ mutex_uart = Nobody
  /\ mutex_uart' = "reader"
  /\ Goto("reader", "reading")
  /\ UNCHANGED <<pool, mutex_pending, e, call, i, cur, nextId, inflight, hist>>

ReaderUnlock ==
  /\ pc["reader"] = "reading"
  /\ mutex_uart' = Nobody
  /\ Goto("reader", "poll")
  /\ UNCHANGED <<pool, mutex_pending, e, call, i, cur, nextId, inflight, hist>>

\* A second passes.  The ages of a free slot are not used again, nor is cur
\* once the worker has stored it.
Older(a) == IF a < MaxAge THEN a + 1 ELSE a

Tick ==
  /\ pending' = [s \in Slots |->
       IF pending_free[s]
       THEN pending[s]
       ELSE [pending[s] EXCEPT !.msg_age = Older(@), !.inv_age = Older(@)]]
  /\ cur' = IF pc["worker"] \in {"invite", "send"} THEN Older(cur) ELSE cur
  /\ UNCHANGED <<pending_free, mutex_pending, mutex_uart, threads, i, nextId,
                 inflight, hist>>

-----------------------------------------------------------------------------
AddDevice(t) ==
  \/ AddExisting(t) \/ AddReset(t) \/ AddOccupy(t)
  \/ AddNodeid(t) \/ AddInit(t) \/ AddFull(t)

MosqStep ==
  AddDevice("mosq") \/ MessageAdded \/ Enqueue \/ EnqueueNoMemory
    \/ EnqueueNotify

PublisherStep ==
  AddDevice("publisher") \/ PublisherAdded \/ JoinNotify \/ KickDevice
    \/ Acknowledge \/ GrantPending

ReceiveReply ==
  \E n \in Nodes :
    \/ \E c \in Classes : ReceiveJoin(n, c) \/ ReceiveList(n, c)
    \/ ReceiveKick(n) \/ ReceiveAck(n) \/ ReceivePendingReq(n)

WorkerStep ==
  \/ WorkerLock \/ WorkerUnlock \/ WorkerSkip
  \/ InviteGiveUp \/ SendGiveUp
  \/ WorkerInvite \/ InviteMote \/ WorkerPeek \/ WorkerSend

ReaderStep == ReaderLock \/ ReaderUnlock

Next ==
  \/ \E n \in Nodes : MessageToMote(n)
  \/ MosqStep \/ ReceiveReply \/ PublisherStep \/ WorkerStep \/ ReaderStep
  \/ Tick

Spec == Init /\ [][Next]_vars

-----------------------------------------------------------------------------
(* Safety                                                                  *)

\* The thread is in the critical section of mutex_pending.
InPending(t) ==
  \/ t \in Callers /\ pc[t] \in {"addnode", "addinit"}
  \/ t = "mosq" /\ pc[t] = "notify"
  \/ t = "worker" /\ pc[t] \in {"scan", "invite", "send"}

\* Slot s is occupied but not yet initialised by add_device.
Raw(s) == \E t \in Callers : pc[t] \in {"addnode", "addinit"} /\ e[t] = s

\* The slots the lookups and the worker may use.
Live(s) == ~pending_free[s] /\ ~Raw(s)

MosqLabels      == {"idle", "add", "addreset", "addnode", "addinit", "added",
                    "notify", "enqueue"}
PublisherLabels == {"idle", "add", "addreset", "addnode", "addinit", "added",
                    "notify", "kick", "ack", "grant"}
WorkerLabels    == {"lock", "scan", "invite", "send"}
ReaderLabels    == {"poll", "reading"}

Labels == MosqLabels \cup PublisherLabels \cup WorkerLabels \cup ReaderLabels

\* The positions at which a caller uses its local pointer e.
UsesE == {"addreset", "addnode", "addinit", "enqueue", "notify", "ack", "grant"}

\* Types of pending_item_t and of the threads' locals; a thread that
\* dereferences e holds a pointer into the pool, and one that serves a
\* message or a reply has a node.
TypeOK ==
  /\ pending_free \in [Slots -> BOOLEAN]
  /\ pending \in [Slots -> Item]
  /\ mutex_pending \in Threads \cup {Nobody}
  /\ mutex_uart \in {"reader", Nobody}
  /\ pc \in [Threads -> Labels]
  /\ pc["mosq"] \in MosqLabels /\ pc["publisher"] \in PublisherLabels
  /\ pc["worker"] \in WorkerLabels /\ pc["reader"] \in ReaderLabels
  /\ e \in [Callers -> Slots \cup {NULL}]
  /\ call \in [Callers -> Call]
  /\ \A t \in Callers : pc[t] \in UsesE => e[t] # NULL
  /\ \A t \in Callers : pc[t] # "idle" => call[t].node \in Nodes
  /\ i \in 1 .. MAX_PENDING_NODES + 1
  /\ pc["worker"] \in {"invite", "send"} => i \in Slots
  /\ cur \in 0 .. MaxAge
  /\ nextId \in 0 .. MaxFrames
  /\ pc["mosq"] # "idle" => nextId > 0
  /\ inflight \in [Nodes -> 0 .. MaxInflight]
  /\ hist \in [Slots -> Hist]

\* mutex_pending is held by exactly the thread inside a critical section,
\* whatever path it takes out of it (mqtt.c:173-251, 1023-1042, 707-827).
LockOK ==
  /\ \A t \in Threads : InPending(t) <=> mutex_pending = t
  /\ mutex_uart = "reader" <=> pc["reader"] = "reading"

\* A node has at most one record, although mosq (invitation) and publisher
\* (join) may add it at the same time (add_device, mqtt.c:173-224).
UniqueNode ==
  \A s, t \in Slots :
    Live(s) /\ Live(t) /\ pending[s].nodeid = pending[t].nodeid => s = t

\* While add_device fills a slot, no other record is for its node.
ClaimOK ==
  \A t \in Callers : pc[t] \in {"addnode", "addinit"} =>
    /\ ~pending_free[e[t]]
    /\ \A s \in Slots : Live(s) => pending[s].nodeid # call[t].node

\* The inductive invariant behind UniqueNode.
RecordInv == LockOK /\ ClaimOK /\ UniqueNode

\* A frame starts with a full budget of attempts: a record without frames
\* has no attempts left over (num_retries, mqtt.c:192, 637, 752, 793).
FreshBudget ==
  \A s \in Slots :
    Live(s) /\ pending[s].pending_fifo = <<>> => pending[s].num_retries = 0

\* Frames wait in the order in which their commands arrived.
FifoOrder ==
  \A s \in Slots :
    LET q == pending[s].pending_fifo
    IN  \A j, k \in 1 .. Len(q) : j < k => q[j].id < q[k].id

\* A queue holds only frames for the node of its record.
Addressed ==
  \A s \in Slots : Live(s) =>
    \A k \in 1 .. Len(pending[s].pending_fifo) :
      pending[s].pending_fifo[k].addr = pending[s].nodeid

\* A frame is given up only after more than NUM_RETRIES attempts (more than
\* NUM_RETRIES_INV while the node is invited) were made for that very frame,
\* not for a predecessor or for an earlier node in the slot.
HonestGiveUp ==
  [][/\ SendGiveUp => hist[i].tries > NUM_RETRIES
     /\ InviteGiveUp => hist[i].tries > NUM_RETRIES_INV]_vars

\* The inductive invariant behind HonestGiveUp: num_retries never exceeds the
\* attempts made, even when the store of add_device after its unlock races
\* with the worker (mqtt.c:192).
RetryInv ==
  /\ \A s \in Slots :
       pending[s].num_retries <= hist[s].tries /\ hist[s].tries <= MaxHist
  /\ pc["worker"] = "invite" => pending[i].num_retries <= NUM_RETRIES_INV

\* The pool implements Downlink: the queue of a node is that of its record.
QueueOf(n) ==
  IF \E s \in Slots : Matches(s, n)
  THEN pending[CHOOSE s \in Slots : Matches(s, n)].pending_fifo
  ELSE <<>>

D == INSTANCE Downlink WITH Ids <- 1 .. MaxFrames,
                            queue <- [n \in Nodes |-> QueueOf(n)]

\* One queue per node, filled at the tail with commands for that node and
\* emptied at the head: as long as no node is kicked, whatever the threads do.
ImplementsDownlink == D!Spec

-----------------------------------------------------------------------------
(* What the source says and the code does not do                           *)

\* "Unable to send message to 0x... after %u attempts, giving up"
\* (mqtt.c:774): no frame is given up that was never sent.
SentBeforeGiveUp == [][SendGiveUp => hist[i].tx > 0]_vars

\* "Peek message from queue but don't remove. Will be removed on
\* acknowledge" (mqtt.c:800): an acknowledge removes a frame that was sent.
AckRemovesSent ==
  [][\A s \in Slots :
       Acknowledge /\ e["publisher"] = s /\ pending[s].pending_fifo # <<>>
         => hist[s].tx > 0]_vars

\* "Check if there's pending frames for this class A device" (mqtt.c:658):
\* a request for the next frame is granted when there is one.
RequestServed ==
  \A s \in Slots :
    Live(s) /\ pending[s].nodeclass = LS_ED_CLASS_A
            /\ pending[s].pending_fifo # <<>>
      => Grantable(s)

-----------------------------------------------------------------------------
(* Liveness.  Threads run; a thread that waits for a mutex gets it when it *)
(* is free again and again: mutex_uart because its holder of longest,      *)
(* uart_reader, sleeps between two polls, mutex_pending for the worker     *)
(* because the other threads take it once per message or reply.  Nothing   *)
(* makes the worker, which locks again at once, let the others have it:    *)
(* no fairness is assumed for their attempts.                              *)

Fairness ==
  /\ WF_vars(ReaderStep) /\ WF_vars(Tick)
  /\ WF_vars(WorkerStep) /\ SF_vars(WorkerLock)
  /\ SF_vars(InviteMote) /\ SF_vars(WorkerSend)
  /\ SF_vars(EnqueueNotify)
  /\ \A t \in Callers : WF_vars(AddNodeid(t)) /\ WF_vars(AddInit(t))

FairSpec == Spec /\ Fairness


HasFrame(s) ==
  /\ Live(s) /\ pending[s].pending_fifo # <<>>
  /\ pending[s].nodeclass # LS_ED_CLASS_A


=============================================================================
