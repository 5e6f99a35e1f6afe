---------------------------- MODULE PoolRefinementProofs --------------------
(* The queues of PendingPool, for every number of nodes, slots and frames: *)
(* the order of the frames and the attempts left over for the next one;    *)
(* and, without kicks, the pool is what Downlink promises: one queue per   *)
(* node.                                                                   *)
EXTENDS PendingPoolProofs, SequenceTheorems

-----------------------------------------------------------------------------
(* What the field updates do to a queue.                                   *)

LEMMA FifoOf ==
  ASSUME NEW p \in Item
  PROVE  /\ \A c, b : Rejoined(p, c, b).pending_fifo = p.pending_fifo
         /\ \A n : Queued(p, n).pending_fifo
                     = Append(p.pending_fifo, [addr |-> n, id |-> nextId])
         /\ Acked(p).pending_fifo = Dequeue(p.pending_fifo)
         /\ GaveUp(p).pending_fifo = Dequeue(p.pending_fifo)
         /\ Granted(p).pending_fifo = p.pending_fifo
         /\ Sent(p).pending_fifo = p.pending_fifo
         /\ \A n, c, b : FreshItem(n, c, b).pending_fifo = <<>>
         /\ \A v : [p EXCEPT !.num_retries = v].pending_fifo = p.pending_fifo
         /\ \A v : [p EXCEPT !.pending_fifo = v].pending_fifo = v
         /\ \A v : [p EXCEPT !.nodeid = v].pending_fifo = p.pending_fifo
         /\ \A v, w :
              [p EXCEPT !.num_retries = v, !.inv_age = w].pending_fifo = p.pending_fifo
         /\ \A v, w :
              [p EXCEPT !.msg_age = v, !.inv_age = w].pending_fifo = p.pending_fifo
BY DEF Rejoined, Queued, Acked, GaveUp, Granted, Sent, FreshItem, Item

\* A queue that is kept, emptied, or loses its head.
Shrunk(q) == {q, <<>>, Dequeue(q)}

\* Only Enqueue makes a queue longer.
LEMMA OthersShrink ==
  ASSUME TypeOK, [Next]_vars, ~Enqueue
  PROVE  \A s \in Slots : pending'[s].pending_fifo \in Shrunk(pending[s].pending_fifo)
<1> DEFINE Goal == \A s \in Slots :
                     pending'[s].pending_fifo \in Shrunk(pending[s].pending_fifo)
<1>0. \A s \in Slots : pending[s] \in Item
  BY DEF TypeOK
<1>1. ASSUME UNCHANGED pending PROVE Goal
  BY <1>1 DEF Shrunk
<1>2. ASSUME NEW x \in Slots, NEW r, pending' = [pending EXCEPT ![x] = r],
             r.pending_fifo \in Shrunk(pending[x].pending_fifo)
      PROVE Goal
  BY <1>2 DEF TypeOK, Shrunk
<1>3. ASSUME NEW t \in Callers, AddDevice(t) PROVE Goal
  <2>1. CASE AddExisting(t)
    <3>1. PICK s \in Slots :
            pending' = [pending EXCEPT ![s] = Rejoined(pending[s], call[t].class, Joined(t))]
      BY <2>1 DEF AddExisting
    <3> QED
      BY <1>0, <1>2, <3>1, FifoOf DEF Shrunk
  <2>2. CASE AddReset(t)
    <3>1. e[t] \in Slots
      BY <2>2, PointerType DEF AddReset, UsesE
    <3>2. \/ pending' = [pending EXCEPT ![e[t]] = [pending[e[t]] EXCEPT !.num_retries = 0]]
          \/ UNCHANGED pending
      BY <2>2 DEF AddReset
    <3>3. [pending[e[t]] EXCEPT !.num_retries = 0].pending_fifo
            \in Shrunk(pending[e[t]].pending_fifo)
      BY <1>0, <3>1, FifoOf DEF Shrunk
    <3> QED
      BY <1>1, <1>2, <3>1, <3>2, <3>3
  <2>3. CASE AddNodeid(t)
    <3>1. e[t] \in Slots
      BY <2>3, PointerType DEF AddNodeid, UsesE
    <3>2. pending' = [pending EXCEPT ![e[t]] = [pending[e[t]] EXCEPT !.nodeid = call[t].node]]
      BY <2>3 DEF AddNodeid
    <3> QED
      BY <1>0, <1>2, <3>1, <3>2, FifoOf DEF Shrunk
  <2>4. CASE AddInit(t)
    <3>1. e[t] \in Slots
      BY <2>4, PointerType DEF AddInit, UsesE
    <3>2. pending' = [pending EXCEPT
                        ![e[t]] = FreshItem(call[t].node, call[t].class, ~Joined(t))]
      BY <2>4 DEF AddInit
    <3> QED
      BY <1>0, <1>2, <3>1, <3>2, FifoOf DEF Shrunk
  <2>5. CASE AddOccupy(t) \/ AddFull(t)
    BY <1>1, <2>5 DEF AddOccupy, AddFull, pool
  <2> QED
    BY <1>3, <2>1, <2>2, <2>3, <2>4, <2>5 DEF AddDevice
<1>4. CASE MessageAdded \/ EnqueueNoMemory \/ EnqueueNotify \/ \E n \in Nodes : MessageToMote(n)
  BY <1>1, <1>4 DEF MessageAdded, EnqueueNoMemory, EnqueueNotify, MessageToMote, pool
<1>5. CASE ReceiveReply \/ PublisherAdded \/ JoinNotify
  BY <1>1, <1>5 DEF ReceiveReply, ReceiveJoin, ReceiveList, ReceiveKick,
     ReceiveAck, ReceivePendingReq, Receive, PublisherAdded, JoinNotify, pool
<1>6. CASE KickDevice
  <2>1. PICK r \in Slots \cup {NULL} :
          IF r = NULL
          THEN UNCHANGED pool
          ELSE pending' = [pending EXCEPT
                             ![r] = [pending[r] EXCEPT !.pending_fifo = <<>>]]
    BY <1>6 DEF KickDevice
  <2>2. CASE r = NULL
    BY <1>1, <2>1, <2>2 DEF pool
  <2>3. CASE r # NULL
    <3>1. r \in Slots /\ [pending[r] EXCEPT !.pending_fifo = <<>>].pending_fifo = <<>>
      BY <1>0, <2>3, FifoOf
    <3> QED
      BY <1>2, <2>1, <2>3, <3>1 DEF Shrunk
  <2> QED
    BY <2>2, <2>3
<1>7. CASE Acknowledge
  <2>1. e["publisher"] \in Slots
    BY <1>7, PointerType DEF Acknowledge, UsesE, Callers
  <2> QED
    BY <1>0, <1>2, <1>7, <2>1, FifoOf DEF Acknowledge, Shrunk
<1>8. CASE GrantPending
  <2>1. e["publisher"] \in Slots
    BY <1>8, PointerType DEF GrantPending, UsesE, Callers
  <2> QED
    BY <1>0, <1>2, <1>8, <2>1, FifoOf DEF GrantPending, Shrunk
<1>9. CASE WorkerLock \/ WorkerUnlock \/ WorkerSkip \/ WorkerInvite
  BY <1>1, <1>9 DEF WorkerLock, WorkerUnlock, WorkerSkip, WorkerInvite, pool
<1>10. CASE InviteGiveUp \/ SendGiveUp
  <2>1. i \in Slots /\ pending' = [pending EXCEPT ![i] = GaveUp(pending[i])]
    BY <1>10 DEF InviteGiveUp, SendGiveUp, GiveUp, Scanning
  <2> QED
    BY <1>0, <1>2, <2>1, FifoOf DEF Shrunk
<1>11. CASE InviteMote
  <2>1. i \in Slots
    BY <1>11 DEF InviteMote, TypeOK
  <2>2. pending' = [pending EXCEPT ![i] = [pending[i] EXCEPT
                      !.num_retries = pending[i].num_retries + 1, !.inv_age = cur]]
    BY <1>11 DEF InviteMote
  <2> QED
    BY <1>0, <1>2, <2>1, <2>2, FifoOf DEF Shrunk
<1>12. CASE WorkerPeek
  <2>1. i \in Slots /\ pending' = [pending EXCEPT
                         ![i] = [pending[i] EXCEPT !.num_retries = pending[i].num_retries + 1]]
    BY <1>12 DEF WorkerPeek, Scanning
  <2> QED
    BY <1>0, <1>2, <2>1, FifoOf DEF Shrunk
<1>13. CASE WorkerSend
  <2>1. i \in Slots /\ pending' = [pending EXCEPT ![i] = Sent(pending[i])]
    BY <1>13 DEF WorkerSend, TypeOK
  <2> QED
    BY <1>0, <1>2, <2>1, FifoOf DEF Shrunk
<1>14. CASE ReaderStep \/ UNCHANGED vars
  BY <1>1, <1>14 DEF ReaderStep, ReaderLock, ReaderUnlock, vars, pool
<1>15. CASE Tick
  <2>1. ASSUME NEW s \in Slots PROVE pending'[s].pending_fifo = pending[s].pending_fifo
    <3>1. pending'[s] = IF pending_free[s] THEN pending[s]
                        ELSE [pending[s] EXCEPT !.msg_age = Older(pending[s].msg_age),
                                                !.inv_age = Older(pending[s].inv_age)]
      BY <1>15 DEF Tick
    <3> QED
      BY <1>0, <3>1, FifoOf
  <2> QED
    BY <2>1 DEF Shrunk
<1> QED
  BY <1>3, <1>4, <1>5, <1>6, <1>7, <1>8, <1>9, <1>10, <1>11, <1>12, <1>13, <1>14, <1>15
  DEF Next, MosqStep, PublisherStep, WorkerStep, Callers
-----------------------------------------------------------------------------
(* Order.  Arrival numbers grow towards the tail; the command that mosq is *)
(* still working on is not in a queue before Enqueue.                      *)

Ordered(q, b) ==
  /\ \A j, k \in 1 .. Len(q) : j < k => q[j].id < q[k].id
  /\ \A k \in 1 .. Len(q) : q[k].id <= b

Arriving == pc["mosq"] \notin {"idle", "notify"}
Newest   == IF Arriving THEN nextId - 1 ELSE nextId
OrderInv == \A s \in Slots : Ordered(pending[s].pending_fifo, Newest)

LEMMA ShrunkOrdered ==
  ASSUME NEW q \in Seq(Frame), NEW b \in Nat, NEW c \in Nat, b <= c, Ordered(q, b),
         NEW r \in Shrunk(q)
  PROVE  Ordered(r, c)
<1>1. \A k \in 1 .. Len(q) : q[k].id \in Nat
  <2>1. \A k \in 1 .. Len(q) : q[k] \in Frame
    BY ElementOfSeq
  <2> QED
    BY <2>1, ConstantsAssumption DEF Frame
<1>2. CASE r = q
  BY <1>1, <1>2 DEF Ordered
<1>3. CASE r = <<>>
  BY <1>3 DEF Ordered
<1>4. CASE r = Tail(q) /\ q # <<>>
  <2>1. Len(q) \in Nat /\ Len(r) = Len(q) - 1 /\ \A k \in 1 .. Len(r) : r[k] = q[k + 1]
    BY <1>4, HeadTailProperties
  <2>2. ASSUME NEW j \in 1 .. Len(r), NEW k \in 1 .. Len(r), j < k PROVE r[j].id < r[k].id
    <3>1. j + 1 \in 1 .. Len(q) /\ k + 1 \in 1 .. Len(q) /\ j + 1 < k + 1
      BY <2>1, <2>2
    <3>2. q[j + 1].id < q[k + 1].id
      BY <3>1 DEF Ordered
    <3> QED
      BY <2>1, <3>2
  <2>3. ASSUME NEW k \in 1 .. Len(r) PROVE r[k].id <= c
    <3>1. k + 1 \in 1 .. Len(q)
      BY <2>1
    <3>2. q[k + 1].id \in Nat /\ q[k + 1].id <= b
      BY <1>1, <3>1 DEF Ordered
    <3> QED
      BY <2>1, <3>2
  <2> QED
    BY <2>2, <2>3 DEF Ordered
<1> QED
  BY <1>2, <1>3, <1>4 DEF Shrunk, Dequeue

LEMMA AppendOrdered ==
  ASSUME NEW q \in Seq(Frame), NEW b \in Nat, NEW f \in Frame, f.id = b + 1, Ordered(q, b)
  PROVE  Ordered(Append(q, f), b + 1)
<1>1. \A k \in 1 .. Len(q) : q[k].id \in Nat
  <2>1. \A k \in 1 .. Len(q) : q[k] \in Frame
    BY ElementOfSeq
  <2> QED
    BY <2>1, ConstantsAssumption DEF Frame
<1>2. /\ Len(q) \in Nat /\ Len(Append(q, f)) = Len(q) + 1
      /\ \A k \in 1 .. Len(q) : Append(q, f)[k] = q[k]
      /\ Append(q, f)[Len(q) + 1] = f
  BY AppendProperties
<1> DEFINE r == Append(q, f)
<1>3. ASSUME NEW j \in 1 .. Len(r), NEW k \in 1 .. Len(r), j < k PROVE r[j].id < r[k].id
  <2>1. j \in 1 .. Len(q) /\ (k \in 1 .. Len(q) \/ k = Len(q) + 1)
    BY <1>2, <1>3
  <2>2. r[j] = q[j] /\ q[j].id \in Nat /\ q[j].id <= b
    BY <1>1, <1>2, <2>1 DEF Ordered
  <2>3. k \in 1 .. Len(q) => q[j].id < q[k].id /\ r[k] = q[k]
    BY <1>2, <1>3, <2>1 DEF Ordered
  <2>4. k = Len(q) + 1 => r[k].id = b + 1
    BY <1>2
  <2> QED
    BY <2>1, <2>2, <2>3, <2>4
<1>4. ASSUME NEW k \in 1 .. Len(r) PROVE r[k].id <= b + 1
  <2>1. k \in 1 .. Len(q) \/ k = Len(q) + 1
    BY <1>2
  <2>2. k \in 1 .. Len(q) => r[k] = q[k] /\ q[k].id \in Nat /\ q[k].id <= b
    BY <1>1, <1>2 DEF Ordered
  <2> QED
    BY <1>2, <2>1, <2>2
<1> QED
  BY <1>3, <1>4 DEF Ordered

LEMMA OrderInit == Init => OrderInv
<1> SUFFICES ASSUME Init PROVE OrderInv
  OBVIOUS
<1>1. \A s \in Slots : pending[s].pending_fifo = <<>>
  BY DEF Init, FreshItem
<1> QED
  BY <1>1 DEF OrderInv, Ordered

\* Steps of which mosq's only begins with the next command, goes on with the
\* one it has, or drops it.
LEMMA NewestGrows ==
  ASSUME TypeOK, TypeOK', [Next]_vars, ~Enqueue
  PROVE  Newest' >= Newest /\ Newest \in Nat /\ Newest' \in Nat
<1>1. CASE \E n \in Nodes : MessageToMote(n)
  BY <1>1, ConstantsAssumption DEF MessageToMote, Newest, Arriving, TypeOK, Goto, Threads
<1>2. CASE ~\E n \in Nodes : MessageToMote(n)
  <2>1. nextId' = nextId /\ (pc'["mosq"] = pc["mosq"] \/ Arriving \/ ~Arriving')
    <3>1. CASE MosqStep
      BY ZenonT(60), <3>1 DEF MosqStep, AddDevice, AddExisting, AddReset, AddOccupy, AddNodeid, AddInit,
         AddFull, AddLocked, MessageAdded, EnqueueNoMemory, EnqueueNotify, threads, pool,
         Goto, Return, Continue, Arriving, TypeOK, Threads, Callers
    <3>2. CASE PublisherStep
      <4>1. CASE AddDevice("publisher")
        BY ZenonT(60), <4>1 DEF AddDevice, AddExisting, AddReset, AddOccupy, AddNodeid, AddInit, AddFull,
           AddLocked, threads, pool, Goto, Return, Continue, TypeOK, Threads
      <4>2. CASE PublisherAdded \/ JoinNotify
        BY ZenonT(60), <4>2 DEF PublisherAdded, JoinNotify, threads, pool, Goto, Return, Continue, TypeOK,
           Threads
      <4>3. CASE KickDevice \/ Acknowledge \/ GrantPending
        BY ZenonT(60), <4>3 DEF KickDevice, Acknowledge, GrantPending, threads, pool, Goto, Return,
           Continue, TypeOK, Threads
      <4> QED
        BY <3>2, <4>1, <4>2, <4>3 DEF PublisherStep
    <3>3. CASE ReceiveReply
      BY ZenonT(60), <3>3 DEF ReceiveReply, ReceiveJoin, ReceiveList, ReceiveKick, ReceiveAck,
         ReceivePendingReq, Receive, threads, pool, Goto, TypeOK, Threads
    <3>4. CASE WorkerStep
      BY ZenonT(60), <3>4 DEF WorkerStep, WorkerLock, WorkerUnlock, WorkerSkip, InviteGiveUp, SendGiveUp,
         GiveUp, WorkerInvite, InviteMote, WorkerPeek, WorkerSend, threads, pool, Goto, TypeOK, Threads
    <3>5. CASE ReaderStep \/ Tick \/ UNCHANGED vars
      BY ZenonT(60), <3>5 DEF ReaderStep, ReaderLock, ReaderUnlock, Tick, vars, threads, pool, Goto,
         TypeOK, Threads
    <3> QED
      BY <1>2, <3>1, <3>2, <3>3, <3>4, <3>5 DEF Next
  <2>2. Arriving => nextId \in Nat /\ nextId > 0
    BY ConstantsAssumption DEF Arriving, TypeOK
  <2>3. nextId \in Nat
    BY ConstantsAssumption DEF TypeOK
  <2>4. CASE Arriving
    BY <2>1, <2>2, <2>4 DEF Newest, Arriving
  <2>5. CASE ~Arriving
    <3>1. ~Arriving'
      BY <2>1, <2>5 DEF Arriving
    <3> QED
      BY <2>1, <2>3, <2>5, <3>1 DEF Newest
  <2> QED
    BY <2>4, <2>5
<1> QED
  BY <1>1, <1>2

LEMMA OrderStep ==
  ASSUME TypeOK, TypeOK', OrderInv, [Next]_vars PROVE OrderInv'
<1>0. \A s \in Slots : pending[s].pending_fifo \in Seq(Frame)
  BY DEF TypeOK, Item
<1>1. CASE ~Enqueue
  <2>1. Newest' >= Newest /\ Newest \in Nat /\ Newest' \in Nat
    BY <1>1, NewestGrows
  <2>2. \A s \in Slots : pending'[s].pending_fifo \in Shrunk(pending[s].pending_fifo)
    BY <1>1, OthersShrink
  <2> QED
    BY <1>0, <2>1, <2>2, ShrunkOrdered DEF OrderInv
<1>2. CASE Enqueue
  <2>1. Arriving /\ ~Arriving' /\ nextId' = nextId /\ nextId \in 1 .. MaxFrames
    BY <1>2, ConstantsAssumption
    DEF Enqueue, Arriving, Return, Continue, Goto, TypeOK, Threads
  <2>2. Newest = nextId - 1 /\ Newest' = nextId /\ Newest \in Nat /\ Newest' = Newest + 1
    BY <2>1, ConstantsAssumption DEF Newest
  <2>3. e["mosq"] \in Slots /\ call["mosq"].node \in Nodes
    BY <1>2, PointerType DEF Enqueue, UsesE, TypeOK, Callers
  <2> DEFINE f == [addr |-> call["mosq"].node, id |-> nextId]
             q == pending[e["mosq"]].pending_fifo
  <2>4. f \in Frame /\ f.id = nextId
    BY <2>1, <2>3 DEF Frame
  <2>5. /\ pending' = [pending EXCEPT ![e["mosq"]] = Queued(pending[e["mosq"]], call["mosq"].node)]
        /\ Queued(pending[e["mosq"]], call["mosq"].node).pending_fifo = Append(q, f)
    <3>1. pending[e["mosq"]] \in Item
      BY <2>3 DEF TypeOK
    <3>2. Queued(pending[e["mosq"]], call["mosq"].node).pending_fifo = Append(q, f)
      BY <3>1, FifoOf
    <3>3. pending' = [pending EXCEPT ![e["mosq"]] = Queued(pending[e["mosq"]], call["mosq"].node)]
      BY <1>2 DEF Enqueue
    <3> QED
      BY <3>2, <3>3
  <2>6. Ordered(Append(q, f), Newest')
    <3>1. q \in Seq(Frame) /\ Ordered(q, Newest)
      BY <1>0, <2>3 DEF OrderInv
    <3> HIDE DEF f, q
    <3> QED
      BY <2>2, <2>4, <3>1, AppendOrdered
  <2>7. \A s \in Slots : s # e["mosq"] => Ordered(pending[s].pending_fifo, Newest')
    <3>1. Newest <= Newest' /\ Newest' \in Nat
      BY <2>2
    <3> QED
      BY <1>0, <2>2, <3>1, ShrunkOrdered DEF OrderInv, Shrunk
  <2> QED
    BY <2>3, <2>5, <2>6, <2>7 DEF OrderInv, TypeOK
<1> QED
  BY <1>1, <1>2

\* The frames of a record leave in the order in which their commands came,
\* whatever is acknowledged, given up, kicked or enqueued in between.
THEOREM FramesInOrder == Spec => []FifoOrder
<1>1. Init => TypeOK /\ OrderInv
  BY InitType, OrderInit
<1>2. TypeOK /\ OrderInv /\ [Next]_vars => (TypeOK /\ OrderInv)'
  BY NextType, OrderStep
<1>3. OrderInv => FifoOrder
  BY DEF OrderInv, Ordered, FifoOrder
<1> QED
  BY <1>1, <1>2, <1>3, PTL DEF Spec
-----------------------------------------------------------------------------
(* The budget of attempts.  While the worker waits for mutex_uart with a   *)
(* frame of slot i it holds mutex_pending: the frame stays where it is.    *)

WorkInv == pc["worker"] \in {"invite", "send"} => pending[i].pending_fifo # <<>>

LEMMA OtherSteps ==
  ASSUME TypeOK, [Next]_vars, ~WorkerStep
  PROVE  i' = i /\ pc'["worker"] = pc["worker"]
<1> USE DEF TypeOK, Goto, Return, Continue, Threads, Callers
<1>1. ASSUME NEW n \in Nodes, MessageToMote(n)
      PROVE  i' = i /\ pc'["worker"] = pc["worker"]
  <2>1. PICK l : Goto("mosq", l)
    BY <1>1 DEF MessageToMote
  <2> QED
    BY <1>1, <2>1 DEF MessageToMote
<1>2. ASSUME NEW t \in Callers, AddDevice(t)
      PROVE  i' = i /\ pc'["worker"] = pc["worker"]
  BY <1>2 DEF AddDevice, AddExisting, AddReset, AddOccupy, AddNodeid, AddInit, AddFull
<1>3. CASE MessageAdded \/ Enqueue \/ EnqueueNoMemory \/ EnqueueNotify
  BY <1>3 DEF MessageAdded, Enqueue, EnqueueNoMemory, EnqueueNotify
<1>4. CASE PublisherAdded \/ JoinNotify \/ KickDevice \/ Acknowledge \/ GrantPending
  BY <1>4 DEF PublisherAdded, JoinNotify, KickDevice, Acknowledge, GrantPending
<1>5. CASE ReceiveReply
  <2>1. PICK type, n, c, s, l : Receive(type, n, c, s, l)
    BY <1>5 DEF ReceiveReply, ReceiveJoin, ReceiveList, ReceiveKick, ReceiveAck,
       ReceivePendingReq
  <2> QED
    BY <2>1 DEF Receive, threads
<1>6. CASE ReaderStep \/ Tick \/ UNCHANGED vars
  BY <1>6 DEF ReaderStep, ReaderLock, ReaderUnlock, Tick, threads, vars
<1> QED
  BY <1>1, <1>2, <1>3, <1>4, <1>5, <1>6 DEF Next, MosqStep, PublisherStep

\* Steps that may shorten a queue, or replace it by that of a new record.
Touches == \/ \E t \in Callers : AddInit(t)
           \/ Enqueue \/ KickDevice \/ Acknowledge \/ InviteGiveUp \/ SendGiveUp

LEMMA QueuesStay ==
  ASSUME TypeOK, [Next]_vars, ~Touches
  PROVE  \A s \in Slots : pending'[s].pending_fifo = pending[s].pending_fifo
<1> DEFINE Goal == \A s \in Slots : pending'[s].pending_fifo = pending[s].pending_fifo
<1>0. \A s \in Slots : pending[s] \in Item
  BY DEF TypeOK
<1>1. ASSUME UNCHANGED pending PROVE Goal
  BY <1>1
<1>2. ASSUME NEW x \in Slots, NEW r, pending' = [pending EXCEPT ![x] = r],
             r.pending_fifo = pending[x].pending_fifo
      PROVE Goal
  BY <1>2 DEF TypeOK
<1>3. ASSUME NEW t \in Callers, AddDevice(t) PROVE Goal
  <2>1. CASE AddExisting(t)
    <3>1. PICK s \in Slots :
            pending' = [pending EXCEPT ![s] = Rejoined(pending[s], call[t].class, Joined(t))]
      BY <2>1 DEF AddExisting
    <3> QED
      BY <1>0, <1>2, <3>1, FifoOf
  <2>2. CASE AddReset(t)
    <3>1. e[t] \in Slots
      BY <2>2, PointerType DEF AddReset, UsesE
    <3>2. \/ pending' = [pending EXCEPT ![e[t]] = [pending[e[t]] EXCEPT !.num_retries = 0]]
          \/ UNCHANGED pending
      BY <2>2 DEF AddReset
    <3>3. [pending[e[t]] EXCEPT !.num_retries = 0].pending_fifo = pending[e[t]].pending_fifo
      BY <1>0, <3>1, FifoOf
    <3> QED
      BY <1>1, <1>2, <3>1, <3>2, <3>3
  <2>3. CASE AddNodeid(t)
    <3>1. e[t] \in Slots
      BY <2>3, PointerType DEF AddNodeid, UsesE
    <3>2. pending' = [pending EXCEPT ![e[t]] = [pending[e[t]] EXCEPT !.nodeid = call[t].node]]
      BY <2>3 DEF AddNodeid
    <3> QED
      BY <1>0, <1>2, <3>1, <3>2, FifoOf
  <2>4. CASE AddOccupy(t) \/ AddFull(t)
    BY <1>1, <2>4 DEF AddOccupy, AddFull, pool
  <2> QED
    BY <1>3, <2>1, <2>2, <2>3, <2>4 DEF AddDevice, Touches
<1>4. CASE MessageAdded \/ EnqueueNoMemory \/ EnqueueNotify \/ \E n \in Nodes : MessageToMote(n)
  BY <1>1, <1>4 DEF MessageAdded, EnqueueNoMemory, EnqueueNotify, MessageToMote, pool
<1>5. CASE ReceiveReply \/ PublisherAdded \/ JoinNotify
  BY <1>1, <1>5 DEF ReceiveReply, ReceiveJoin, ReceiveList, ReceiveKick,
     ReceiveAck, ReceivePendingReq, Receive, PublisherAdded, JoinNotify, pool
<1>6. CASE GrantPending
  <2>1. e["publisher"] \in Slots
    BY <1>6, PointerType DEF GrantPending, UsesE, Callers
  <2> QED
    BY <1>0, <1>2, <1>6, <2>1, FifoOf DEF GrantPending
<1>7. CASE WorkerLock \/ WorkerUnlock \/ WorkerSkip \/ WorkerInvite
  BY <1>1, <1>7 DEF WorkerLock, WorkerUnlock, WorkerSkip, WorkerInvite, pool
<1>8. CASE InviteMote
  <2>1. i \in Slots
    BY <1>8 DEF InviteMote, TypeOK
  <2>2. pending' = [pending EXCEPT ![i] = [pending[i] EXCEPT
                      !.num_retries = pending[i].num_retries + 1, !.inv_age = cur]]
    BY <1>8 DEF InviteMote
  <2> QED
    BY <1>0, <1>2, <2>1, <2>2, FifoOf
<1>9. CASE WorkerPeek
  <2>1. i \in Slots /\ pending' = [pending EXCEPT
                         ![i] = [pending[i] EXCEPT !.num_retries = pending[i].num_retries + 1]]
    BY <1>9 DEF WorkerPeek, Scanning
  <2> QED
    BY <1>0, <1>2, <2>1, FifoOf
<1>10. CASE WorkerSend
  <2>1. i \in Slots /\ pending' = [pending EXCEPT ![i] = Sent(pending[i])]
    BY <1>10 DEF WorkerSend, TypeOK
  <2> QED
    BY <1>0, <1>2, <2>1, FifoOf
<1>11. CASE ReaderStep \/ UNCHANGED vars
  BY <1>1, <1>11 DEF ReaderStep, ReaderLock, ReaderUnlock, vars, pool
<1>12. CASE Tick
  <2>1. ASSUME NEW s \in Slots PROVE pending'[s].pending_fifo = pending[s].pending_fifo
    <3>1. pending'[s] = IF pending_free[s] THEN pending[s]
                        ELSE [pending[s] EXCEPT !.msg_age = Older(pending[s].msg_age),
                                                !.inv_age = Older(pending[s].inv_age)]
      BY <1>12 DEF Tick
    <3> QED
      BY <1>0, <3>1, FifoOf
  <2> QED
    BY <2>1
<1> QED
  BY <1>3, <1>4, <1>5, <1>6, <1>7, <1>8, <1>9, <1>10, <1>11, <1>12
  DEF Next, MosqStep, PublisherStep, WorkerStep, Callers, Touches

LEMMA WorkStep ==
  ASSUME TypeOK, LockOK, WorkInv, [Next]_vars PROVE WorkInv'
<1>1. CASE WorkerInvite \/ WorkerPeek
  <2>1. i \in Slots /\ i' = i /\ pending[i].pending_fifo # <<>> /\ ~Touches
    <3>1. i \in Slots /\ i' = i /\ pending[i].pending_fifo # <<>>
      BY <1>1 DEF WorkerInvite, WorkerPeek, Scanning, Eligible
    <3>2. pc["worker"] = "scan" /\ pc'["worker"] # "scan"
      BY <1>1 DEF WorkerInvite, WorkerPeek, Scanning, Goto, TypeOK, Threads
    <3>3. ~Touches
      BY <3>2 DEF Touches, AddInit, Enqueue, KickDevice, Acknowledge, InviteGiveUp, SendGiveUp,
         GiveUp, Goto, Return, Continue, threads, TypeOK, Threads, Callers
    <3> QED
      BY <3>1, <3>3
  <2> QED
    BY <2>1, QueuesStay DEF WorkInv
<1>2. CASE WorkerStep /\ ~(WorkerInvite \/ WorkerPeek)
  <2>1. pc'["worker"] \notin {"invite", "send"}
    BY <1>2 DEF WorkerStep, WorkerLock, WorkerUnlock, WorkerSkip, InviteGiveUp, SendGiveUp, GiveUp,
       InviteMote, WorkerSend, Scanning, Goto, threads, TypeOK, Threads
  <2> QED
    BY <2>1 DEF WorkInv
<1>3. CASE ~WorkerStep
  <2> SUFFICES ASSUME pc["worker"] \in {"invite", "send"}, i' = i
               PROVE  pending'[i].pending_fifo # <<>>
    BY <1>3, OtherSteps DEF WorkInv
  <2>1. i \in Slots /\ pending[i].pending_fifo # <<>> /\ mutex_pending = "worker"
    BY DEF WorkInv, LockOK, InPending, TypeOK, Threads
  <2>2. ASSUME NEW t \in Callers, AddInit(t) PROVE FALSE
    BY <2>1, <2>2 DEF AddInit, LockOK, InPending, Threads, Callers
  <2>3. ~Touches
    BY <1>3, <2>1, <2>2
    DEF Touches, Enqueue, KickDevice, Acknowledge, WorkerStep, Nobody
  <2> QED
    BY <2>1, <2>3, QueuesStay
<1> QED
  BY <1>1, <1>2, <1>3

Filling == {"addnode", "addinit"}

\* A thread that fills a slot goes on to the initialisation with the same
\* slot and the same node.
LEMMA FillingStays ==
  ASSUME TypeOK, [Next]_vars, NEW t \in Callers, pc[t] \in Filling, ~AddInit(t)
  PROVE  /\ e'[t] = e[t] /\ call'[t] = call[t]
         /\ pc'[t] = pc[t] \/ AddNodeid(t)
<1> DEFINE Goal == /\ e'[t] = e[t] /\ call'[t] = call[t]
                   /\ pc'[t] = pc[t] \/ AddNodeid(t)
<1> USE DEF TypeOK, Goto, Return, Continue, Threads, Callers, Filling
<1>1. ASSUME NEW n \in Nodes, MessageToMote(n) PROVE Goal
  <2>1. t # "mosq" /\ \E l : Goto("mosq", l)
    BY <1>1 DEF MessageToMote
  <2> QED
    BY <1>1, <2>1 DEF MessageToMote
<1>2. ASSUME NEW u \in Callers, AddDevice(u) PROVE Goal
  BY <1>2 DEF AddDevice, AddExisting, AddReset, AddOccupy, AddNodeid, AddInit, AddFull, AddLocked
<1>3. CASE MessageAdded \/ Enqueue \/ EnqueueNoMemory \/ EnqueueNotify
  BY <1>3 DEF MessageAdded, Enqueue, EnqueueNoMemory, EnqueueNotify
<1>4. CASE PublisherAdded \/ JoinNotify \/ KickDevice \/ Acknowledge \/ GrantPending
  BY <1>4 DEF PublisherAdded, JoinNotify, KickDevice, Acknowledge, GrantPending
<1>5. CASE ReceiveReply
  <2>1. PICK type, n, c, s, l : Receive(type, n, c, s, l)
    BY <1>5 DEF ReceiveReply, ReceiveJoin, ReceiveList, ReceiveKick, ReceiveAck,
       ReceivePendingReq
  <2> QED
    BY <2>1 DEF Receive, threads
<1>6. CASE WorkerStep
  BY <1>6 DEF WorkerStep, WorkerLock, WorkerUnlock, WorkerSkip, InviteGiveUp, SendGiveUp, GiveUp,
     WorkerInvite, InviteMote, WorkerPeek, WorkerSend, threads
<1>7. CASE ReaderStep \/ Tick \/ UNCHANGED vars
  BY <1>7 DEF ReaderStep, ReaderLock, ReaderUnlock, Tick, threads, vars
<1> QED
  BY <1>1, <1>2, <1>3, <1>4, <1>5, <1>6, <1>7 DEF Next, MosqStep, PublisherStep

\* Only add_device takes a slot, only kick_device gives one back.
LEMMA SlotsStay ==
  ASSUME [Next]_vars, ~KickDevice, \A t \in Callers : ~AddOccupy(t)
  PROVE  UNCHANGED pending_free
<1>1. ASSUME NEW n \in Nodes, MessageToMote(n) PROVE UNCHANGED pending_free
  BY <1>1 DEF MessageToMote, pool
<1>2. ASSUME NEW t \in Callers, AddDevice(t) PROVE UNCHANGED pending_free
  BY <1>2 DEF AddDevice, AddExisting, AddReset, AddNodeid, AddInit, AddFull, pool
<1>3. CASE MessageAdded \/ Enqueue \/ EnqueueNoMemory \/ EnqueueNotify
  BY <1>3 DEF MessageAdded, Enqueue, EnqueueNoMemory, EnqueueNotify, pool
<1>4. CASE PublisherAdded \/ JoinNotify \/ Acknowledge \/ GrantPending
  BY <1>4 DEF PublisherAdded, JoinNotify, Acknowledge, GrantPending, pool
<1>5. CASE ReceiveReply
  BY <1>5 DEF ReceiveReply, ReceiveJoin, ReceiveList, ReceiveKick, ReceiveAck, ReceivePendingReq,
     Receive, pool
<1>6. CASE WorkerStep
  BY <1>6 DEF WorkerStep, WorkerLock, WorkerUnlock, WorkerSkip, InviteGiveUp, SendGiveUp, GiveUp,
     WorkerInvite, InviteMote, WorkerPeek, WorkerSend, pool
<1>7. CASE ReaderStep \/ Tick \/ UNCHANGED vars
  BY <1>7 DEF ReaderStep, ReaderLock, ReaderUnlock, Tick, pool, vars
<1> QED
  BY <1>1, <1>2, <1>3, <1>4, <1>5, <1>6, <1>7 DEF Next, MosqStep, PublisherStep, Callers

LEMMA RawStays ==
  ASSUME TypeOK, [Next]_vars, NEW s \in Slots, Raw(s),
         ~\E t \in Callers : AddInit(t) /\ e[t] = s
  PROVE  Raw(s)'
<1>1. PICK t \in Callers : pc[t] \in Filling /\ e[t] = s /\ ~AddInit(t)
  BY DEF Raw, Filling
<1>2. e'[t] = s /\ (pc'[t] = pc[t] \/ AddNodeid(t))
  BY <1>1, FillingStays
<1> QED
  BY <1>1, <1>2 DEF Raw, Filling, AddNodeid, Goto, TypeOK, Threads, Callers

\* Only the initialisation of a record makes a slot live.
LEMMA LiveFromInit ==
  ASSUME TypeOK, [Next]_vars, NEW s \in Slots, Live(s)'
  PROVE  Live(s) \/ \E t \in Callers : AddInit(t) /\ e[t] = s
<1> SUFFICES ASSUME ~\E t \in Callers : AddInit(t) /\ e[t] = s PROVE Live(s)
  OBVIOUS
<1>1. ~Raw(s)
  BY RawStays DEF Live
<1>2. ~pending_free[s]
  <2>1. CASE UNCHANGED pending_free
    BY <2>1 DEF Live
  <2>2. ASSUME NEW t \in Callers, AddOccupy(t) PROVE ~pending_free[s]
    <3>1. PICK x \in Slots : e' = [e EXCEPT ![t] = x]
                             /\ pending_free' = [pending_free EXCEPT ![x] = FALSE]
      BY <2>2 DEF AddOccupy
    <3>2. pc'[t] = "addnode" /\ e'[t] = x
      BY <2>2, <3>1 DEF AddOccupy, Goto, TypeOK, Threads, Callers
    <3>3. x # s
      BY <3>2 DEF Live, Raw
    <3> QED
      BY <3>1, <3>3 DEF Live, TypeOK
  <2>3. CASE KickDevice
    BY <2>3 DEF KickDevice, Live, TypeOK, pool
  <2> QED
    BY <2>1, <2>2, <2>3, SlotsStay
<1> QED
  BY <1>1, <1>2 DEF Live

\* The record has frames, or it has no attempts left over.
Fresh(p) == p.pending_fifo # <<>> \/ p.num_retries = 0

LEMMA FreshStep ==
  ASSUME TypeOK, WorkInv, [Next]_vars, NEW s \in Slots, Fresh(pending[s]), Live(s)'
  PROVE  Fresh(pending'[s])
<1> DEFINE Goal == Fresh(pending'[s])
<1>0. \A x \in Slots : pending[x] \in Item
  BY DEF TypeOK
<1>1. ASSUME UNCHANGED pending PROVE Goal
  BY <1>1
<1>2. ASSUME NEW x \in Slots, NEW r, pending' = [pending EXCEPT ![x] = r],
             Fresh(pending[x]) => Fresh(r)
      PROVE Goal
  BY <1>2 DEF TypeOK
<1>3. ASSUME NEW t \in Callers, AddDevice(t) PROVE Goal
  <2>1. CASE AddExisting(t)
    <3>1. PICK x \in Slots :
            pending' = [pending EXCEPT ![x] = Rejoined(pending[x], call[t].class, Joined(t))]
      BY <2>1 DEF AddExisting
    <3> QED
      BY <1>0, <1>2, <3>1, FifoOf, RetriesOf DEF Fresh
  <2>2. CASE AddReset(t)
    <3>1. e[t] \in Slots
      BY <2>2, PointerType DEF AddReset, UsesE
    <3>2. \/ pending' = [pending EXCEPT ![e[t]] = [pending[e[t]] EXCEPT !.num_retries = 0]]
          \/ UNCHANGED pending
      BY <2>2 DEF AddReset
    <3>3. Fresh([pending[e[t]] EXCEPT !.num_retries = 0])
      BY <1>0, <3>1, RetriesOf DEF Fresh
    <3> QED
      BY <1>1, <1>2, <3>1, <3>2, <3>3
  <2>3. CASE AddNodeid(t)
    <3>1. e[t] \in Slots
      BY <2>3, PointerType DEF AddNodeid, UsesE
    <3>2. pending' = [pending EXCEPT ![e[t]] = [pending[e[t]] EXCEPT !.nodeid = call[t].node]]
      BY <2>3 DEF AddNodeid
    <3> QED
      BY <1>0, <1>2, <3>1, <3>2, FifoOf, RetriesOf DEF Fresh
  <2>4. CASE AddInit(t)
    <3>1. e[t] \in Slots
      BY <2>4, PointerType DEF AddInit, UsesE
    <3>2. pending' = [pending EXCEPT
                        ![e[t]] = FreshItem(call[t].node, call[t].class, ~Joined(t))]
      BY <2>4 DEF AddInit
    <3>3. Fresh(FreshItem(call[t].node, call[t].class, ~Joined(t)))
      BY DEF Fresh, FreshItem
    <3> QED
      BY <1>2, <3>1, <3>2, <3>3
  <2>5. CASE AddOccupy(t) \/ AddFull(t)
    BY <1>1, <2>5 DEF AddOccupy, AddFull, pool
  <2> QED
    BY <1>3, <2>1, <2>2, <2>3, <2>4, <2>5 DEF AddDevice
<1>4. CASE MessageAdded \/ EnqueueNoMemory \/ EnqueueNotify \/ \E n \in Nodes : MessageToMote(n)
  BY <1>1, <1>4 DEF MessageAdded, EnqueueNoMemory, EnqueueNotify, MessageToMote, pool
<1>5. CASE ReceiveReply \/ PublisherAdded \/ JoinNotify
  BY <1>1, <1>5 DEF ReceiveReply, ReceiveJoin, ReceiveList, ReceiveKick,
     ReceiveAck, ReceivePendingReq, Receive, PublisherAdded, JoinNotify, pool
<1>6. CASE Enqueue
  <2>1. e["mosq"] \in Slots
    BY <1>6, PointerType DEF Enqueue, UsesE, Callers
  <2> DEFINE f == [addr |-> call["mosq"].node, id |-> nextId]
             q == pending[e["mosq"]].pending_fifo
  <2>2. Append(q, f) # <<>>
    <3>1. q \in Seq(Frame)
      BY <1>0, <2>1 DEF Item
    <3> HIDE DEF f, q
    <3> QED
      BY <3>1
  <2>3. /\ pending' = [pending EXCEPT ![e["mosq"]] = Queued(pending[e["mosq"]], call["mosq"].node)]
        /\ Queued(pending[e["mosq"]], call["mosq"].node).pending_fifo = Append(q, f)
    BY <1>0, <1>6, <2>1, FifoOf DEF Enqueue
  <2> QED
    BY <1>2, <2>1, <2>2, <2>3 DEF Fresh
<1>7. CASE KickDevice
  <2>1. PICK r \in Slots \cup {NULL} :
          IF r = NULL
          THEN UNCHANGED pool
          ELSE /\ pending_free' = [pending_free EXCEPT ![r] = TRUE]
               /\ pending' = [pending EXCEPT
                                ![r] = [pending[r] EXCEPT !.pending_fifo = <<>>]]
    BY <1>7 DEF KickDevice
  <2>2. CASE r = NULL
    BY <1>1, <2>1, <2>2 DEF pool
  <2>3. CASE r # NULL
    <3>1. r # s
      BY <2>1, <2>3 DEF Live, TypeOK
    <3> QED
      BY <2>1, <2>3, <3>1 DEF TypeOK
  <2> QED
    BY <2>2, <2>3
<1>8. CASE Acknowledge
  <2>1. e["publisher"] \in Slots
    BY <1>8, PointerType DEF Acknowledge, UsesE, Callers
  <2> QED
    BY <1>0, <1>2, <1>8, <2>1, RetriesOf DEF Acknowledge, Fresh
<1>9. CASE GrantPending
  <2>1. e["publisher"] \in Slots
    BY <1>9, PointerType DEF GrantPending, UsesE, Callers
  <2> QED
    BY <1>0, <1>2, <1>9, <2>1, FifoOf, RetriesOf DEF GrantPending, Fresh
<1>10. CASE WorkerLock \/ WorkerUnlock \/ WorkerSkip \/ WorkerInvite
  BY <1>1, <1>10 DEF WorkerLock, WorkerUnlock, WorkerSkip, WorkerInvite, pool
<1>11. CASE InviteGiveUp \/ SendGiveUp
  <2>1. i \in Slots /\ pending' = [pending EXCEPT ![i] = GaveUp(pending[i])]
    BY <1>11 DEF InviteGiveUp, SendGiveUp, GiveUp, Scanning
  <2> QED
    BY <1>0, <1>2, <2>1, RetriesOf DEF Fresh
<1>12. CASE InviteMote \/ WorkerPeek \/ WorkerSend
  <2>1. i \in Slots /\ pending[i].pending_fifo # <<>>
    BY <1>12 DEF InviteMote, WorkerPeek, WorkerSend, WorkInv, TypeOK, Scanning, Eligible
  <2>2. CASE InviteMote
    <3>1. pending' = [pending EXCEPT ![i] = [pending[i] EXCEPT
                        !.num_retries = pending[i].num_retries + 1, !.inv_age = cur]]
      BY <2>2 DEF InviteMote
    <3> QED
      BY <1>0, <1>2, <2>1, <3>1, FifoOf DEF Fresh
  <2>3. CASE WorkerPeek
    <3>1. pending' = [pending EXCEPT
                        ![i] = [pending[i] EXCEPT !.num_retries = pending[i].num_retries + 1]]
      BY <2>3 DEF WorkerPeek
    <3> QED
      BY <1>0, <1>2, <2>1, <3>1, FifoOf DEF Fresh
  <2>4. CASE WorkerSend
    BY <1>0, <1>2, <2>1, <2>4, FifoOf DEF WorkerSend, Fresh
  <2> QED
    BY <1>12, <2>2, <2>3, <2>4
<1>13. CASE ReaderStep \/ UNCHANGED vars
  BY <1>1, <1>13 DEF ReaderStep, ReaderLock, ReaderUnlock, vars, pool
<1>14. CASE Tick
  <2>1. pending'[s] = IF pending_free[s] THEN pending[s]
                      ELSE [pending[s] EXCEPT !.msg_age = Older(pending[s].msg_age),
                                              !.inv_age = Older(pending[s].inv_age)]
    BY <1>14 DEF Tick
  <2> QED
    BY <1>0, <2>1, FifoOf, RetriesOf DEF Fresh
<1> QED
  BY <1>3, <1>4, <1>5, <1>6, <1>7, <1>8, <1>9, <1>10, <1>11, <1>12, <1>13, <1>14
  DEF Next, MosqStep, PublisherStep, WorkerStep, Callers

BudgetInv == WorkInv /\ FreshBudget

LEMMA BudgetInit == Init => BudgetInv
BY DEF Init, BudgetInv, WorkInv, FreshBudget, FreshItem, Live, Threads, Callers

LEMMA BudgetStep ==
  ASSUME TypeOK, LockOK, BudgetInv, [Next]_vars PROVE BudgetInv'
<1>1. WorkInv'
  BY WorkStep DEF BudgetInv
<1>2. ASSUME NEW s \in Slots, Live(s)' PROVE Fresh(pending'[s])
  <2>1. CASE Live(s)
    BY <1>2, <2>1, FreshStep DEF BudgetInv, FreshBudget, Fresh
  <2>2. ASSUME NEW t \in Callers, AddInit(t), e[t] = s PROVE Fresh(pending'[s])
    <3>1. pending'[s] = FreshItem(call[t].node, call[t].class, ~Joined(t))
      BY <2>2 DEF AddInit, TypeOK
    <3> QED
      BY <3>1 DEF Fresh, FreshItem
  <2> QED
    BY <1>2, <2>1, <2>2, LiveFromInit
<1> QED
  BY <1>1, <1>2 DEF BudgetInv, FreshBudget, Fresh

\* A record without frames has no attempts left over, so that the next frame
\* starts with the full budget: through acknowledgements, give-ups and kicks,
\* and although the worker counts an attempt before it waits for mutex_uart.
THEOREM BudgetFresh == Spec => []FreshBudget
<1> DEFINE Inv == TypeOK /\ RecordInv /\ BudgetInv
<1>1. Init => Inv
  BY InitType, RecordInit, BudgetInit
<1>2. Inv /\ [Next]_vars => Inv'
  <2> SUFFICES ASSUME Inv, [Next]_vars PROVE Inv'
    OBVIOUS
  <2>1. TypeOK'
    BY NextType
  <2>2. RecordInv'
    BY <2>1, LockStep, RecordStep DEF RecordInv
  <2>3. BudgetInv'
    BY BudgetStep DEF RecordInv
  <2> QED
    BY <2>1, <2>2, <2>3
<1>3. Inv => FreshBudget
  BY DEF BudgetInv
<1> QED
  BY <1>1, <1>2, <1>3, PTL DEF Spec
-----------------------------------------------------------------------------
(* Without kicks the pool is what Downlink promises: one queue per node.   *)

NoKicks == "KICK" \notin ReplyTypes

\* What a slot holds, and what a thread's pointer designates: a free slot and
\* one that is being filled have no frames, a free slot has no node, and
\* mosq's pointer is to the record of the node it has a message for.
PlaceInv ==
  /\ pc["publisher"] # "kick"
  /\ \A s \in Slots : pending_free[s] => pending[s].nodeid = NoNode
  /\ \A s \in Slots : pending_free[s] \/ Raw(s) => pending[s].pending_fifo = <<>>
  /\ \A t \in Callers : pc[t] = "addnode" => pending[e[t]].nodeid = NoNode
  /\ \A t \in Callers : pc[t] = "addinit" => pending[e[t]].nodeid = call[t].node
  /\ pc["mosq"] \in {"enqueue", "notify"} =>
       Matches(e["mosq"], call["mosq"].node)

\* The frames of a slot are for its node.
AddressInv ==
  \A s \in Slots : \A k \in 1 .. Len(pending[s].pending_fifo) :
    pending[s].pending_fifo[k].addr = pending[s].nodeid

-----------------------------------------------------------------------------
(* Nodes of slots.                                                         *)

\* Only add_device changes the node of a slot.
LEMMA NodesStay ==
  ASSUME TypeOK, [Next]_vars, \A t \in Callers : ~AddNodeid(t) /\ ~AddInit(t)
  PROVE  \A s \in Slots : pending'[s].nodeid = pending[s].nodeid
<1> DEFINE Same == \A s \in Slots : pending'[s].nodeid = pending[s].nodeid
<1>0. \A s \in Slots : pending[s] \in Item
  BY DEF TypeOK
<1>1. ASSUME UNCHANGED pending PROVE Same
  BY <1>1
<1>2. ASSUME NEW x \in Slots, NEW r, pending' = [pending EXCEPT ![x] = r],
             r.nodeid = pending[x].nodeid
      PROVE Same
  BY <1>2 DEF TypeOK
<1>3. ASSUME NEW t \in Callers, AddDevice(t) PROVE Same
  <2>1. CASE AddExisting(t)
    <3>1. PICK x \in Slots :
            pending' = [pending EXCEPT ![x] = Rejoined(pending[x], call[t].class, Joined(t))]
      BY <2>1 DEF AddExisting
    <3> QED
      BY <1>0, <1>2, <3>1, NodeidKept
  <2>2. CASE AddReset(t)
    <3>1. e[t] \in Slots
      BY <2>2, PointerType DEF AddReset, UsesE
    <3>2. \/ pending' = [pending EXCEPT ![e[t]] = [pending[e[t]] EXCEPT !.num_retries = 0]]
          \/ UNCHANGED pending
      BY <2>2 DEF AddReset
    <3>3. [pending[e[t]] EXCEPT !.num_retries = 0].nodeid = pending[e[t]].nodeid
      BY <1>0, <3>1, NodeidKept
    <3> QED
      BY <1>1, <1>2, <3>1, <3>2, <3>3
  <2>3. CASE AddOccupy(t) \/ AddFull(t)
    BY <1>1, <2>3 DEF AddOccupy, AddFull, pool
  <2> QED
    BY <1>3, <2>1, <2>2, <2>3 DEF AddDevice
<1>4. CASE MessageAdded \/ EnqueueNoMemory \/ EnqueueNotify \/ \E n \in Nodes : MessageToMote(n)
  BY <1>1, <1>4 DEF MessageAdded, EnqueueNoMemory, EnqueueNotify, MessageToMote, pool
<1>5. CASE ReceiveReply \/ PublisherAdded \/ JoinNotify
  BY <1>1, <1>5 DEF ReceiveReply, ReceiveJoin, ReceiveList, ReceiveKick,
     ReceiveAck, ReceivePendingReq, Receive, PublisherAdded, JoinNotify, pool
<1>6. CASE Enqueue
  <2>1. e["mosq"] \in Slots
    BY <1>6, PointerType DEF Enqueue, UsesE, Callers
  <2> QED
    BY <1>0, <1>2, <1>6, <2>1, NodeidKept DEF Enqueue
<1>7. CASE KickDevice
  <2>1. PICK r \in Slots \cup {NULL} :
          IF r = NULL
          THEN UNCHANGED pool
          ELSE pending' = [pending EXCEPT
                             ![r] = [pending[r] EXCEPT !.pending_fifo = <<>>]]
    BY <1>7 DEF KickDevice
  <2>2. CASE r = NULL
    BY <1>1, <2>1, <2>2 DEF pool
  <2>3. CASE r # NULL
    <3>1. r \in Slots /\ [pending[r] EXCEPT !.pending_fifo = <<>>].nodeid = pending[r].nodeid
      BY <1>0, <2>3, NodeidKept
    <3> QED
      BY <1>2, <2>1, <2>3, <3>1
  <2> QED
    BY <2>2, <2>3
<1>8. CASE Acknowledge
  <2>1. e["publisher"] \in Slots
    BY <1>8, PointerType DEF Acknowledge, UsesE, Callers
  <2> QED
    BY <1>0, <1>2, <1>8, <2>1, NodeidKept DEF Acknowledge
<1>9. CASE GrantPending
  <2>1. e["publisher"] \in Slots
    BY <1>9, PointerType DEF GrantPending, UsesE, Callers
  <2> QED
    BY <1>0, <1>2, <1>9, <2>1, NodeidKept DEF GrantPending
<1>10. CASE WorkerLock \/ WorkerUnlock \/ WorkerSkip \/ WorkerInvite
  BY <1>1, <1>10 DEF WorkerLock, WorkerUnlock, WorkerSkip, WorkerInvite, pool
<1>11. CASE InviteGiveUp \/ SendGiveUp
  <2>1. i \in Slots /\ pending' = [pending EXCEPT ![i] = GaveUp(pending[i])]
    BY <1>11 DEF InviteGiveUp, SendGiveUp, GiveUp, Scanning
  <2> QED
    BY <1>0, <1>2, <2>1, NodeidKept
<1>12. CASE InviteMote
  <2>1. i \in Slots
    BY <1>12 DEF InviteMote, TypeOK
  <2>2. pending' = [pending EXCEPT ![i] = [pending[i] EXCEPT
                      !.num_retries = pending[i].num_retries + 1, !.inv_age = cur]]
    BY <1>12 DEF InviteMote
  <2> QED
    BY <1>0, <1>2, <2>1, <2>2, NodeidKept
<1>13. CASE WorkerPeek
  <2>1. i \in Slots /\ pending' = [pending EXCEPT
                         ![i] = [pending[i] EXCEPT !.num_retries = pending[i].num_retries + 1]]
    BY <1>13 DEF WorkerPeek, Scanning
  <2> QED
    BY <1>0, <1>2, <2>1, NodeidKept
<1>14. CASE WorkerSend
  <2>1. i \in Slots /\ pending' = [pending EXCEPT ![i] = Sent(pending[i])]
    BY <1>14 DEF WorkerSend, TypeOK
  <2> QED
    BY <1>0, <1>2, <2>1, NodeidKept
<1>15. CASE ReaderStep \/ UNCHANGED vars
  BY <1>1, <1>15 DEF ReaderStep, ReaderLock, ReaderUnlock, vars, pool
<1>16. CASE Tick
  BY <1>0, <1>16 DEF Tick, Item
<1> QED
  BY <1>3, <1>4, <1>5, <1>6, <1>7, <1>8, <1>9, <1>10, <1>11, <1>12, <1>13, <1>14, <1>15, <1>16
  DEF Next, MosqStep, PublisherStep, WorkerStep, Callers

\* A thread begins to fill a slot that was free.
LEMMA FillingBegins ==
  ASSUME TypeOK, [Next]_vars, NEW t \in Callers, pc[t] \notin Filling, pc'[t] \in Filling
  PROVE  AddOccupy(t)
<1> USE DEF TypeOK, Goto, Return, Continue, Threads, Callers, Filling
<1>1. ASSUME NEW n \in Nodes, MessageToMote(n) PROVE FALSE
  <2>1. \E l \in {"add", "enqueue"} : Goto("mosq", l)
    BY <1>1 DEF MessageToMote
  <2> QED
    BY <1>1, <2>1 DEF MessageToMote
<1>2. ASSUME NEW u \in Callers, AddDevice(u) PROVE AddOccupy(t)
  BY <1>2 DEF AddDevice, AddExisting, AddReset, AddOccupy, AddNodeid, AddInit, AddFull, AddLocked
<1>3. CASE MessageAdded \/ Enqueue \/ EnqueueNoMemory \/ EnqueueNotify
  BY <1>3 DEF MessageAdded, Enqueue, EnqueueNoMemory, EnqueueNotify
<1>4. CASE PublisherAdded \/ JoinNotify \/ KickDevice \/ Acknowledge \/ GrantPending
  BY <1>4 DEF PublisherAdded, JoinNotify, KickDevice, Acknowledge, GrantPending
<1>5. CASE ReceiveReply
  <2>1. PICK type, n, c, s, l : Receive(type, n, c, s, l) /\ l \notin Filling
    BY <1>5 DEF ReceiveReply, ReceiveJoin, ReceiveList, ReceiveKick, ReceiveAck,
       ReceivePendingReq
  <2> QED
    BY <2>1 DEF Receive, threads
<1>6. CASE WorkerStep
  BY <1>6 DEF WorkerStep, WorkerLock, WorkerUnlock, WorkerSkip, InviteGiveUp, SendGiveUp, GiveUp,
     WorkerInvite, InviteMote, WorkerPeek, WorkerSend, threads
<1>7. CASE ReaderStep \/ Tick \/ UNCHANGED vars
  BY <1>7 DEF ReaderStep, ReaderLock, ReaderUnlock, Tick, threads, vars
<1> QED
  BY <1>1, <1>2, <1>3, <1>4, <1>5, <1>6, <1>7 DEF Next, MosqStep, PublisherStep

-----------------------------------------------------------------------------
(* PlaceInv, conjunct by conjunct.                                         *)

LEMMA FreeStays ==
  ASSUME TypeOK, [Next]_vars, ~KickDevice, NEW s \in Slots, pending_free'[s]
  PROVE  pending_free[s]
<1>1. CASE UNCHANGED pending_free
  BY <1>1
<1>2. ASSUME NEW t \in Callers, AddOccupy(t) PROVE pending_free[s]
  BY <1>2 DEF AddOccupy, TypeOK
<1> QED
  BY <1>1, <1>2, SlotsStay

LEMMA RawFrom ==
  ASSUME TypeOK, [Next]_vars, NEW s \in Slots, Raw(s)'
  PROVE  Raw(s) \/ pending_free[s]
<1>1. PICK t \in Callers : pc'[t] \in Filling /\ e'[t] = s
  BY DEF Raw, Filling
<1>2. CASE pc[t] \in Filling
  <2>1. ~AddInit(t)
    BY <1>1, <1>2 DEF AddInit, Goto, TypeOK, Threads, Callers, Filling
  <2> QED
    BY <1>1, <1>2, <2>1, FillingStays DEF Raw, Filling
<1>3. CASE pc[t] \notin Filling
  <2>1. AddOccupy(t)
    BY <1>1, <1>3, FillingBegins
  <2> QED
    BY <1>1, <2>1 DEF AddOccupy, IsFirstFree, TypeOK, Threads, Callers
<1> QED
  BY <1>2, <1>3

\* One thread at a time fills a slot.
LEMMA OneFills ==
  ASSUME LockOK, NEW t \in Callers, NEW u \in Callers, pc[t] \in Filling, pc[u] \in Filling
  PROVE  t = u
BY DEF LockOK, InPending, Filling, Threads, Callers

\* A slot keeps its node, and gets one while it is being filled.
LEMMA NodeKept ==
  ASSUME TypeOK, PlaceInv, [Next]_vars, NEW s \in Slots
  PROVE  \/ pending'[s].nodeid = pending[s].nodeid
         \/ \E t \in Callers : /\ AddNodeid(t) /\ e[t] = s /\ pending[s].nodeid = NoNode
                               /\ pending'[s].nodeid = call[t].node
<1>1. CASE \A t \in Callers : ~AddNodeid(t) /\ ~AddInit(t)
  BY <1>1, NodesStay
<1>2. ASSUME NEW t \in Callers, AddNodeid(t)
      PROVE  \/ pending'[s].nodeid = pending[s].nodeid
             \/ e[t] = s /\ pending[s].nodeid = NoNode /\ pending'[s].nodeid = call[t].node
  <2>1. e[t] \in Slots /\ pc[t] = "addnode"
    BY <1>2, PointerType DEF AddNodeid, UsesE
  <2>2. pending' = [pending EXCEPT ![e[t]] = [pending[e[t]] EXCEPT !.nodeid = call[t].node]]
    BY <1>2 DEF AddNodeid
  <2>3. [pending[e[t]] EXCEPT !.nodeid = call[t].node].nodeid = call[t].node
    BY <2>1 DEF TypeOK, Item
  <2> QED
    BY <2>1, <2>2, <2>3 DEF PlaceInv, TypeOK
<1>3. ASSUME NEW t \in Callers, AddInit(t) PROVE pending'[s].nodeid = pending[s].nodeid
  <2>1. e[t] \in Slots /\ pending[e[t]].nodeid = call[t].node
    BY <1>3, PointerType DEF AddInit, UsesE, PlaceInv
  <2>2. pending' = [pending EXCEPT
                      ![e[t]] = FreshItem(call[t].node, call[t].class, ~Joined(t))]
    BY <1>3 DEF AddInit
  <2> QED
    BY <2>1, <2>2 DEF FreshItem, TypeOK
<1> QED
  BY <1>1, <1>2, <1>3

LEMMA MatchStays ==
  ASSUME TypeOK, PlaceInv, [Next]_vars, ~KickDevice,
         NEW n \in Nodes, NEW s \in Slots, Matches(s, n)
  PROVE  Matches(s, n)'
<1>1. ~pending_free'[s]
  BY FreeStays DEF Matches
<1>2. pending[s].nodeid = n /\ n # NoNode
  BY ConstantsAssumption DEF Matches
<1>3. pending'[s].nodeid = n
  BY <1>2, NodeKept
<1> QED
  BY <1>1, <1>3 DEF Matches

LEMMA NoKickStep ==
  ASSUME NoKicks, TypeOK, pc["publisher"] # "kick", [Next]_vars
  PROVE  pc'["publisher"] # "kick" /\ ~KickDevice
<1> DEFINE Goal == pc'["publisher"] # "kick"
<1> USE DEF TypeOK, Goto, Return, Continue, Threads, Callers
<1>0. ~KickDevice
  BY DEF KickDevice
<1> SUFFICES Goal
  BY <1>0
<1>1. ASSUME NEW n \in Nodes, MessageToMote(n) PROVE Goal
  <2>1. \E l : Goto("mosq", l)
    BY <1>1 DEF MessageToMote
  <2> QED
    BY <2>1
<1>2. ASSUME NEW t \in Callers, AddDevice(t) PROVE Goal
  BY <1>2 DEF AddDevice, AddExisting, AddReset, AddOccupy, AddNodeid, AddInit, AddFull
<1>3. CASE MessageAdded \/ Enqueue \/ EnqueueNoMemory \/ EnqueueNotify
  BY <1>3 DEF MessageAdded, Enqueue, EnqueueNoMemory, EnqueueNotify
<1>4. CASE PublisherAdded \/ JoinNotify \/ Acknowledge \/ GrantPending
  BY <1>4 DEF PublisherAdded, JoinNotify, Acknowledge, GrantPending
<1>5. CASE ReceiveReply
  <2>1. ASSUME NEW type, NEW n, NEW c, NEW s, NEW l, Receive(type, n, c, s, l), l # "kick"
        PROVE Goal
    BY <2>1 DEF Receive, threads
  <2>2. ASSUME NEW n \in Nodes, ReceiveKick(n) PROVE FALSE
    BY <2>2 DEF ReceiveKick, Receive, NoKicks
  <2>3. ASSUME NEW n \in Nodes, NEW c \in Classes, ReceiveJoin(n, c) \/ ReceiveList(n, c)
        PROVE Goal
    BY <2>1, <2>3 DEF ReceiveJoin, ReceiveList
  <2>4. ASSUME NEW n \in Nodes, ReceiveAck(n) \/ ReceivePendingReq(n) PROVE Goal
    BY <2>1, <2>4 DEF ReceiveAck, ReceivePendingReq
  <2> QED
    BY <1>5, <2>2, <2>3, <2>4 DEF ReceiveReply
<1>6. CASE WorkerStep
  BY <1>6 DEF WorkerStep, WorkerLock, WorkerUnlock, WorkerSkip, InviteGiveUp, SendGiveUp, GiveUp,
     WorkerInvite, InviteMote, WorkerPeek, WorkerSend, threads
<1>7. CASE ReaderStep \/ Tick \/ UNCHANGED vars
  BY <1>7 DEF ReaderStep, ReaderLock, ReaderUnlock, Tick, threads, vars
<1> QED
  BY <1>0, <1>1, <1>2, <1>3, <1>4, <1>5, <1>6, <1>7 DEF Next, MosqStep, PublisherStep

LEMMA PlaceInit == Init => PlaceInv /\ AddressInv
<1> SUFFICES ASSUME Init PROVE PlaceInv /\ AddressInv
  OBVIOUS
<1>1. \A t \in Callers : pc[t] = "idle"
  BY DEF Init, Threads, Callers
<1>2. \A s \in Slots : pending[s].nodeid = NoNode /\ pending[s].pending_fifo = <<>>
  BY DEF Init, FreshItem
<1> QED
  BY <1>1, <1>2 DEF PlaceInv, AddressInv, Callers

\* While mosq enqueues, its pointer is into a record that is complete.
LEMMA EnqueueLive ==
  ASSUME TypeOK, LockOK, PlaceInv, Enqueue
  PROVE  /\ e["mosq"] \in Slots /\ call["mosq"].node \in Nodes
         /\ Live(e["mosq"]) /\ pending[e["mosq"]].nodeid = call["mosq"].node
<1>1. e["mosq"] \in Slots /\ call["mosq"].node \in Nodes
  BY PointerType DEF Enqueue, UsesE, TypeOK, Callers
<1>2. ~Raw(e["mosq"])
  BY DEF Raw, Enqueue, LockOK, InPending, Threads, Callers, Nobody
<1> QED
  BY <1>1, <1>2 DEF PlaceInv, Enqueue, Matches, Live

LEMMA EmptyStep ==
  ASSUME TypeOK, LockOK, PlaceInv, [Next]_vars, ~KickDevice,
         NEW s \in Slots, (pending_free[s] \/ Raw(s))'
  PROVE  pending'[s].pending_fifo = <<>>
<1>1. pending[s].pending_fifo = <<>> /\ (pending_free[s] \/ Raw(s))
  BY FreeStays, RawFrom DEF PlaceInv
<1>2. CASE Enqueue
  <2>1. s # e["mosq"]
    BY <1>1, <1>2, EnqueueLive DEF Live
  <2> QED
    BY <1>1, <1>2, <2>1 DEF Enqueue, TypeOK
<1>3. CASE ~Enqueue
  BY <1>1, <1>3, OthersShrink DEF Shrunk, Dequeue
<1> QED
  BY <1>2, <1>3

LEMMA StaysInQueue ==
  ASSUME TypeOK, [Next]_vars, pc'["mosq"] \in {"enqueue", "notify"},
         ~MessageAdded, \A n \in Nodes : ~MessageToMote(n)
  PROVE  /\ pc["mosq"] \in {"enqueue", "notify"}
         /\ e'["mosq"] = e["mosq"] /\ call'["mosq"] = call["mosq"]
<1> DEFINE Goal == /\ pc["mosq"] \in {"enqueue", "notify"}
                   /\ e'["mosq"] = e["mosq"] /\ call'["mosq"] = call["mosq"]
<1> USE DEF TypeOK, Goto, Return, Continue, Threads, Callers
<1>1. ASSUME NEW t \in Callers, AddDevice(t) PROVE Goal
  BY <1>1 DEF AddDevice, AddExisting, AddReset, AddOccupy, AddNodeid, AddInit, AddFull
<1>2. CASE Enqueue \/ EnqueueNoMemory \/ EnqueueNotify
  BY <1>2 DEF Enqueue, EnqueueNoMemory, EnqueueNotify
<1>3. CASE PublisherAdded \/ JoinNotify \/ KickDevice \/ Acknowledge \/ GrantPending
  BY <1>3 DEF PublisherAdded, JoinNotify, KickDevice, Acknowledge, GrantPending
<1>4. CASE ReceiveReply
  <2>1. PICK type, n, c, s, l : Receive(type, n, c, s, l)
    BY <1>4 DEF ReceiveReply, ReceiveJoin, ReceiveList, ReceiveKick, ReceiveAck,
       ReceivePendingReq
  <2> QED
    BY <2>1 DEF Receive, threads
<1>5. CASE WorkerStep
  BY <1>5 DEF WorkerStep, WorkerLock, WorkerUnlock, WorkerSkip, InviteGiveUp, SendGiveUp, GiveUp,
     WorkerInvite, InviteMote, WorkerPeek, WorkerSend, threads
<1>6. CASE ReaderStep \/ Tick \/ UNCHANGED vars
  BY <1>6 DEF ReaderStep, ReaderLock, ReaderUnlock, Tick, threads, vars
<1> QED
  BY <1>1, <1>2, <1>3, <1>4, <1>5, <1>6 DEF Next, MosqStep, PublisherStep

\* mosq's pointer stays one to the record of its node.
LEMMA PointerStep ==
  ASSUME TypeOK, PlaceInv, [Next]_vars, ~KickDevice, pc'["mosq"] \in {"enqueue", "notify"}
  PROVE  Matches(e["mosq"], call["mosq"].node)'
<1> USE DEF TypeOK, Goto, Threads, Callers
<1>1. ASSUME NEW n \in Nodes, MessageToMote(n) PROVE Matches(e["mosq"], call["mosq"].node)'
  <2>1. PICK s \in Slots \cup {NULL} :
          /\ IsLookup(n, s)
          /\ e' = [e EXCEPT !["mosq"] = s]
          /\ Goto("mosq", IF s = NULL THEN "add" ELSE "enqueue")
    BY <1>1 DEF MessageToMote
  <2>2. s # NULL /\ e'["mosq"] = s /\ call'["mosq"].node = n
    BY <1>1, <2>1 DEF MessageToMote
  <2>3. Matches(s, n) /\ UNCHANGED <<pending, pending_free>>
    BY <1>1, <2>1, <2>2 DEF IsLookup, MessageToMote, pool
  <2> QED
    BY <2>2, <2>3 DEF Matches
<1>2. CASE MessageAdded
  <2>1. PICK s \in Slots \cup {NULL} :
          /\ IsLookup(call["mosq"].node, s)
          /\ IF s = NULL THEN Return("mosq") ELSE Continue("mosq", "enqueue", s)
    BY <1>2 DEF MessageAdded
  <2>2. s # NULL /\ e'["mosq"] = s /\ call' = call
    BY <2>1 DEF Return, Continue
  <2>3. Matches(s, call["mosq"].node) /\ UNCHANGED <<pending, pending_free>>
    BY <1>2, <2>1, <2>2 DEF IsLookup, MessageAdded, pool
  <2> QED
    BY <2>2, <2>3 DEF Matches
<1>3. CASE ~MessageAdded /\ \A n \in Nodes : ~MessageToMote(n)
  <2>1. pc["mosq"] \in {"enqueue", "notify"} /\ e'["mosq"] = e["mosq"] /\ call'["mosq"] = call["mosq"]
    BY <1>3, StaysInQueue
  <2>2. e["mosq"] \in Slots /\ call["mosq"].node \in Nodes
    BY <2>1, PointerType DEF UsesE
  <2>3. Matches(e["mosq"], call["mosq"].node)'
          <=> ~pending_free'[e["mosq"]] /\ pending'[e["mosq"]].nodeid = call["mosq"].node
    BY <2>1 DEF Matches
  <2>4. ~pending_free'[e["mosq"]] /\ pending'[e["mosq"]].nodeid = call["mosq"].node
    BY <2>1, <2>2, MatchStays DEF PlaceInv, Matches
  <2> QED
    BY <2>3, <2>4
<1> QED
  BY <1>1, <1>2, <1>3

LEMMA PlaceStep ==
  ASSUME NoKicks, TypeOK, TypeOK', RecordInv, PlaceInv, [Next]_vars
  PROVE  PlaceInv'
<1>0. LockOK /\ ClaimOK
  BY DEF RecordInv
<1>1. pc'["publisher"] # "kick" /\ ~KickDevice
  BY NoKickStep DEF PlaceInv
<1>2. ASSUME NEW s \in Slots, pending_free'[s] PROVE pending'[s].nodeid = NoNode
  <2>1. pending_free[s] /\ pending[s].nodeid = NoNode
    BY <1>1, <1>2, FreeStays DEF PlaceInv
  <2>2. ASSUME NEW t \in Callers, AddNodeid(t) PROVE e[t] # s
    BY <1>0, <2>1, <2>2 DEF ClaimOK, AddNodeid
  <2> QED
    BY <2>1, <2>2, NodeKept
<1>3. ASSUME NEW s \in Slots, (pending_free[s] \/ Raw(s))' PROVE pending'[s].pending_fifo = <<>>
  BY <1>0, <1>1, <1>3, EmptyStep
<1>4. ASSUME NEW t \in Callers, pc'[t] = "addnode" PROVE pending'[e'[t]].nodeid = NoNode
  <2>1. CASE pc[t] \in Filling
    <3>1. ~AddInit(t)
      BY <1>4, <2>1 DEF AddInit, Goto, TypeOK, Threads, Callers
    <3>2. ~AddNodeid(t)
      BY <1>4, <2>1 DEF AddNodeid, Goto, TypeOK, Threads, Callers
    <3>3. pc[t] = "addnode" /\ e'[t] = e[t] /\ e[t] \in Slots
      BY <1>4, <2>1, <3>1, <3>2, FillingStays, PointerType DEF Filling, UsesE
    <3>4. \A u \in Callers : ~AddNodeid(u)
      BY <1>0, <2>1, <3>2, OneFills DEF AddNodeid, Filling
    <3> QED
      BY <3>3, <3>4, NodeKept DEF PlaceInv
  <2>2. CASE pc[t] \notin Filling
    <3>1. AddOccupy(t)
      BY <1>4, <2>2, FillingBegins DEF Filling
    <3>2. pending_free[e'[t]] /\ e'[t] \in Slots /\ UNCHANGED pending
      BY <3>1 DEF AddOccupy, IsFirstFree, TypeOK, Callers
    <3> QED
      BY <3>2 DEF PlaceInv
  <2> QED
    BY <2>1, <2>2
<1>5. ASSUME NEW t \in Callers, pc'[t] = "addinit" PROVE pending'[e'[t]].nodeid = call'[t].node
  <2>1. pc[t] \in Filling
    BY <1>5, FillingBegins DEF Filling, AddOccupy, Goto, TypeOK, Threads, Callers
  <2>2. ~AddInit(t)
    BY <1>5, <2>1 DEF AddInit, Goto, TypeOK, Threads, Callers
  <2>3. e'[t] = e[t] /\ call'[t] = call[t] /\ (pc'[t] = pc[t] \/ AddNodeid(t)) /\ e[t] \in Slots
    BY <2>1, <2>2, FillingStays, PointerType DEF Filling, UsesE
  <2>4. CASE AddNodeid(t)
    BY <2>3, <2>4 DEF AddNodeid, TypeOK, Item
  <2>5. CASE ~AddNodeid(t)
    <3>1. pc[t] = "addinit"
      BY <1>5, <2>3, <2>5
    <3>2. \A u \in Callers : ~AddNodeid(u)
      BY <1>0, <2>1, <2>5, OneFills DEF AddNodeid, Filling
    <3> QED
      BY <2>3, <3>1, <3>2, NodeKept DEF PlaceInv
  <2> QED
    BY <2>4, <2>5
<1>6. ASSUME pc'["mosq"] \in {"enqueue", "notify"}
      PROVE  Matches(e["mosq"], call["mosq"].node)'
  BY <1>6, <1>1, PointerStep DEF PlaceInv
<1> QED
  BY <1>1, <1>2, <1>3, <1>4, <1>5, <1>6 DEF PlaceInv

LEMMA ShrunkAddress ==
  ASSUME NEW q \in Seq(Frame), NEW n, \A k \in 1 .. Len(q) : q[k].addr = n, NEW r \in Shrunk(q)
  PROVE  \A k \in 1 .. Len(r) : r[k].addr = n
<1>1. CASE r = q \/ r = <<>>
  BY <1>1
<1>2. CASE r = Tail(q) /\ q # <<>>
  <2>1. Len(q) \in Nat /\ Len(r) = Len(q) - 1 /\ \A k \in 1 .. Len(r) : r[k] = q[k + 1]
    BY <1>2, HeadTailProperties
  <2> QED
    BY <2>1
<1> QED
  BY <1>1, <1>2 DEF Shrunk, Dequeue

LEMMA AddressStep ==
  ASSUME NoKicks, TypeOK, TypeOK', RecordInv, PlaceInv, AddressInv, [Next]_vars
  PROVE  AddressInv'
<1>0. LockOK /\ ClaimOK /\ (\A s \in Slots : pending[s].pending_fifo \in Seq(Frame))
  BY DEF RecordInv, TypeOK, Item
<1>1. ASSUME NEW s \in Slots, ~Enqueue
      PROVE  \A k \in 1 .. Len(pending'[s].pending_fifo) :
               pending'[s].pending_fifo[k].addr = pending'[s].nodeid
  <2>1. pending'[s].pending_fifo \in Shrunk(pending[s].pending_fifo)
    BY <1>1, OthersShrink
  <2>2. CASE pending'[s].nodeid = pending[s].nodeid
    <3> DEFINE q == pending[s].pending_fifo
               r == pending'[s].pending_fifo
               n == pending[s].nodeid
    <3>1. q \in Seq(Frame) /\ r \in Shrunk(q) /\ \A k \in 1 .. Len(q) : q[k].addr = n
      BY <1>0, <2>1 DEF AddressInv
    <3> HIDE DEF q, r, n
    <3>2. \A k \in 1 .. Len(r) : r[k].addr = n
      BY <3>1, ShrunkAddress
    <3> QED
      BY <2>2, <3>2 DEF r, n
  <2>3. ASSUME NEW t \in Callers, AddNodeid(t), e[t] = s
        PROVE pending'[s].pending_fifo = <<>>
    <3>1. Raw(s)
      BY <2>3 DEF Raw, AddNodeid
    <3> QED
      BY <2>1, <3>1 DEF PlaceInv, Shrunk, Dequeue
  <2> QED
    BY <2>2, <2>3, NodeKept
<1>2. CASE Enqueue
  <2>1. /\ e["mosq"] \in Slots /\ call["mosq"].node \in Nodes
        /\ pending[e["mosq"]].nodeid = call["mosq"].node
    BY <1>0, <1>2, EnqueueLive
  <2> DEFINE f == [addr |-> call["mosq"].node, id |-> nextId]
             q == pending[e["mosq"]].pending_fifo
             p == Queued(pending[e["mosq"]], call["mosq"].node)
  <2>2. /\ pending' = [pending EXCEPT ![e["mosq"]] = p]
        /\ p.pending_fifo = Append(q, f) /\ p.nodeid = pending[e["mosq"]].nodeid
    <3>1. pending[e["mosq"]] \in Item
      BY <2>1 DEF TypeOK
    <3>2. pending' = [pending EXCEPT ![e["mosq"]] = p]
      BY <1>2 DEF Enqueue
    <3>3. p.pending_fifo = Append(q, f)
      BY <3>1, FifoOf
    <3>4. p.nodeid = pending[e["mosq"]].nodeid
      BY <3>1, NodeidKept
    <3> QED
      BY <3>2, <3>3, <3>4
  <2>3. \A k \in 1 .. Len(Append(q, f)) : Append(q, f)[k].addr = call["mosq"].node
    <3>1. q \in Seq(Frame) /\ f.addr = call["mosq"].node
          /\ \A k \in 1 .. Len(q) : q[k].addr = call["mosq"].node
      BY <1>0, <2>1 DEF AddressInv
    <3>2. f \in Frame
      BY <1>2, <2>1, ConstantsAssumption DEF Enqueue, TypeOK, Frame
    <3> HIDE DEF f, q
    <3>3. /\ Len(q) \in Nat /\ Len(Append(q, f)) = Len(q) + 1
          /\ \A k \in 1 .. Len(q) : Append(q, f)[k] = q[k]
          /\ Append(q, f)[Len(q) + 1] = f
      BY <3>1, <3>2, AppendProperties
    <3>4. ASSUME NEW k \in 1 .. Len(Append(q, f)) PROVE k \in 1 .. Len(q) \/ k = Len(q) + 1
      BY <3>3
    <3> QED
      BY <3>1, <3>3, <3>4
  <2>4. pending'[e["mosq"]] = p /\ \A s \in Slots : s # e["mosq"] => pending'[s] = pending[s]
    BY <2>1, <2>2 DEF TypeOK
  <2> HIDE DEF f, q, p
  <2> QED
    BY <2>1, <2>2, <2>3, <2>4 DEF AddressInv
<1> QED
  BY <1>1, <1>2 DEF AddressInv

\* As long as the gate kicks no node, every frame waits in the queue of the
\* node it is for, although message_to_mote looks the record up without the
\* lock and enqueues later.
THEOREM FramesAddressed == ASSUME NoKicks PROVE Spec => []Addressed
<1> DEFINE Inv == TypeOK /\ RecordInv /\ PlaceInv /\ AddressInv
<1>1. Init => Inv
  BY InitType, RecordInit, PlaceInit
<1>2. Inv /\ [Next]_vars => Inv'
  <2> SUFFICES ASSUME Inv, [Next]_vars PROVE Inv'
    OBVIOUS
  <2>1. TypeOK'
    BY NextType
  <2>2. RecordInv'
    BY <2>1, LockStep, RecordStep DEF RecordInv
  <2> QED
    BY <2>1, <2>2, PlaceStep, AddressStep
<1>3. Inv => Addressed
  BY DEF AddressInv, Addressed
<1> QED
  BY <1>1, <1>2, <1>3, PTL DEF Spec

-----------------------------------------------------------------------------
(* The refinement.  A node matches at most one slot, complete or not, and  *)
(* its queue is the queue of that slot.                                    *)

OneMatch ==
  \A s, t \in Slots : \A n \in Nodes : Matches(s, n) /\ Matches(t, n) => s = t

LEMMA MatchOnce == ASSUME TypeOK, RecordInv, PlaceInv PROVE OneMatch
<1> SUFFICES ASSUME NEW s \in Slots, NEW t \in Slots, NEW n \in Nodes, Matches(s, n), Matches(t, n)
             PROVE  s = t
  BY DEF OneMatch
<1>0. n # NoNode /\ LockOK /\ ClaimOK /\ UniqueNode
  BY ConstantsAssumption DEF RecordInv
<1>1. ASSUME NEW x \in Slots, Matches(x, n)
      PROVE  Live(x) \/ \E u \in Callers : pc[u] = "addinit" /\ e[u] = x /\ call[u].node = n
  <2>1. CASE Raw(x)
    <3>1. PICK u \in Callers : pc[u] \in Filling /\ e[u] = x
      BY <2>1 DEF Raw, Filling
    <3> QED
      BY <1>0, <1>1, <3>1 DEF PlaceInv, Filling, Matches
  <2>2. CASE ~Raw(x)
    BY <1>1, <2>2 DEF Live, Matches
  <2> QED
    BY <2>1, <2>2
<1>2. CASE Live(s) /\ Live(t)
  BY <1>0, <1>2 DEF UniqueNode, Matches
<1>3. ASSUME NEW x \in Slots, NEW y \in Slots, Matches(x, n), Live(x),
             \E u \in Callers : pc[u] = "addinit" /\ e[u] = y /\ call[u].node = n
      PROVE  FALSE
  BY <1>0, <1>3 DEF ClaimOK, Matches
<1>4. ASSUME NEW u \in Callers, pc[u] = "addinit", e[u] = s,
             NEW v \in Callers, pc[v] = "addinit", e[v] = t
      PROVE  s = t
  BY <1>0, <1>4, OneFills DEF Filling
<1> QED
  BY <1>1, <1>2, <1>3, <1>4

\* A slot that comes to match a node is empty, and no other matched it.
LEMMA MatchBegins ==
  ASSUME TypeOK, RecordInv, PlaceInv, [Next]_vars, ~KickDevice, OneMatch',
         NEW n \in Nodes, NEW s \in Slots, ~Matches(s, n), Matches(s, n)'
  PROVE  /\ pending'[s].pending_fifo = <<>>
         /\ \A t \in Slots : ~Matches(t, n)
<1>1. pending_free[s] \/ Raw(s)
  <2>1. ASSUME NEW t \in Callers, AddNodeid(t), e[t] = s PROVE Raw(s)
    BY <2>1 DEF AddNodeid, Raw
  <2> QED
    BY <2>1, NodeKept DEF Matches
<1>2. ~Enqueue \/ s # e["mosq"]
  BY <1>1, EnqueueLive DEF Live, RecordInv
<1>3. pending'[s].pending_fifo = <<>>
  <2>1. pending[s].pending_fifo = <<>>
    BY <1>1 DEF PlaceInv
  <2>2. CASE Enqueue
    BY <1>2, <2>1, <2>2 DEF Enqueue, TypeOK
  <2>3. CASE ~Enqueue
    BY <2>1, <2>3, OthersShrink DEF Shrunk, Dequeue
  <2> QED
    BY <2>2, <2>3
<1>4. ASSUME NEW t \in Slots, Matches(t, n) PROVE FALSE
  <2>1. Matches(t, n)'
    BY <1>4, MatchStays
  <2> QED
    BY <1>4, <2>1 DEF OneMatch
<1> QED
  BY <1>3, <1>4

LEMMA QueueIs ==
  ASSUME OneMatch, NEW n \in Nodes, NEW s \in Slots, Matches(s, n)
  PROVE  QueueOf(n) = pending[s].pending_fifo
BY DEF OneMatch, QueueOf

LEMMA NextQueueIs ==
  ASSUME OneMatch', NEW n \in Nodes, NEW s \in Slots, Matches(s, n)'
  PROVE  QueueOf(n)' = pending'[s].pending_fifo
BY DEF OneMatch, QueueOf

\* What a step does to the queue of a node: it does it to the slot.
LEMMA QueueStep ==
  ASSUME TypeOK, RecordInv, PlaceInv, OneMatch, OneMatch', [Next]_vars, ~KickDevice,
         NEW n \in Nodes
  PROVE  \/ \E s \in Slots : /\ Matches(s, n)
                             /\ QueueOf(n) = pending[s].pending_fifo
                             /\ QueueOf(n)' = pending'[s].pending_fifo
         \/ /\ \A s \in Slots : ~Matches(s, n)
            /\ QueueOf(n) = <<>> /\ QueueOf(n)' = <<>>
<1>1. ASSUME NEW s \in Slots, Matches(s, n)
      PROVE  QueueOf(n) = pending[s].pending_fifo /\ QueueOf(n)' = pending'[s].pending_fifo
  BY <1>1, MatchStays, QueueIs, NextQueueIs
<1>2. ASSUME \A s \in Slots : ~Matches(s, n)
      PROVE  QueueOf(n) = <<>> /\ QueueOf(n)' = <<>>
  <2>1. QueueOf(n) = <<>>
    BY <1>2 DEF QueueOf
  <2>2. ASSUME NEW s \in Slots, Matches(s, n)' PROVE QueueOf(n)' = <<>>
    BY <1>2, <2>2, MatchBegins, NextQueueIs
  <2>3. ASSUME \A s \in Slots : ~Matches(s, n)' PROVE QueueOf(n)' = <<>>
    BY <2>3 DEF QueueOf
  <2> QED
    BY <2>1, <2>2, <2>3
<1> QED
  BY <1>1, <1>2

\* Steps other than Enqueue take at most the head of one queue.
LEMMA OneShrinks ==
  ASSUME TypeOK, PlaceInv, [Next]_vars, ~Enqueue, ~KickDevice
  PROVE  \E x \in Slots :
           /\ pending'[x].pending_fifo
                \in {pending[x].pending_fifo, Dequeue(pending[x].pending_fifo)}
           /\ \A s \in Slots : s # x => pending'[s].pending_fifo = pending[s].pending_fifo
<1>0. \A s \in Slots : pending[s] \in Item
  BY DEF TypeOK
<1>1. ASSUME NEW x \in Slots, NEW r, pending' = [pending EXCEPT ![x] = r],
             r.pending_fifo \in {pending[x].pending_fifo, Dequeue(pending[x].pending_fifo)}
      PROVE  /\ pending'[x].pending_fifo
                  \in {pending[x].pending_fifo, Dequeue(pending[x].pending_fifo)}
             /\ \A s \in Slots : s # x => pending'[s].pending_fifo = pending[s].pending_fifo
  BY <1>1 DEF TypeOK
<1>2. CASE ~Touches
  <2>1. 1 \in Slots
    BY ConstantsAssumption DEF Slots
  <2> QED
    BY <1>2, <2>1, QueuesStay
<1>3. ASSUME NEW t \in Callers, AddInit(t)
      PROVE  \E x \in Slots :
               pending' = [pending EXCEPT
                             ![x] = FreshItem(call[t].node, call[t].class, ~Joined(t))]
               /\ pending[x].pending_fifo = <<>>
  <2>1. e[t] \in Slots /\ Raw(e[t])
    BY <1>3, PointerType DEF AddInit, UsesE, Raw
  <2> QED
    BY <1>3, <2>1 DEF AddInit, PlaceInv
<1>4. ASSUME NEW t \in Callers, NEW x \in Slots,
             pending' = [pending EXCEPT
                           ![x] = FreshItem(call[t].node, call[t].class, ~Joined(t))],
             pending[x].pending_fifo = <<>>
      PROVE  FreshItem(call[t].node, call[t].class, ~Joined(t)).pending_fifo
               = pending[x].pending_fifo
  BY <1>4 DEF FreshItem
<1>5. CASE Acknowledge
  <2>1. e["publisher"] \in Slots
    BY <1>5, PointerType DEF Acknowledge, UsesE, Callers
  <2>2. pending' = [pending EXCEPT ![e["publisher"]] = Acked(pending[e["publisher"]])]
    BY <1>5 DEF Acknowledge
  <2>3. Acked(pending[e["publisher"]]).pending_fifo = Dequeue(pending[e["publisher"]].pending_fifo)
    BY <1>0, <2>1, FifoOf
  <2> QED
    BY <1>1, <2>1, <2>2, <2>3
<1>6. CASE InviteGiveUp \/ SendGiveUp
  <2>1. i \in Slots /\ pending' = [pending EXCEPT ![i] = GaveUp(pending[i])]
    BY <1>6 DEF InviteGiveUp, SendGiveUp, GiveUp, Scanning
  <2>2. GaveUp(pending[i]).pending_fifo = Dequeue(pending[i].pending_fifo)
    BY <1>0, <2>1, FifoOf
  <2> QED
    BY <1>1, <2>1, <2>2
<1> QED
  BY <1>1, <1>2, <1>3, <1>4, <1>5, <1>6 DEF Touches

\* A step that is not Enqueue removes the head of one queue, or stutters.
LEMMA RemoveStep ==
  ASSUME TypeOK, TypeOK', RecordInv, PlaceInv, AddressInv, OneMatch, OneMatch',
         [Next]_vars, ~Enqueue, ~KickDevice
  PROVE  \/ \A n \in Nodes : QueueOf(n)' = QueueOf(n)
         \/ \E m \in Nodes : /\ QueueOf(m) # <<>> /\ QueueOf(m)' = Tail(QueueOf(m))
                             /\ \A n \in Nodes : n # m => QueueOf(n)' = QueueOf(n)
<1>1. PICK x \in Slots :
        /\ pending'[x].pending_fifo
             \in {pending[x].pending_fifo, Dequeue(pending[x].pending_fifo)}
        /\ \A s \in Slots : s # x => pending'[s].pending_fifo = pending[s].pending_fifo
  BY OneShrinks
<1>2. CASE pending'[x].pending_fifo = pending[x].pending_fifo
  BY <1>1, <1>2, QueueStep
<1>3. CASE pending'[x].pending_fifo # pending[x].pending_fifo
  <2>1. /\ pending[x].pending_fifo # <<>>
        /\ pending'[x].pending_fifo = Tail(pending[x].pending_fifo)
    BY <1>1, <1>3 DEF Dequeue
  <2>2. PICK m \in Nodes : m = pending[x].nodeid /\ Matches(x, m)
    <3> DEFINE q == pending[x].pending_fifo
    <3>1. q \in Seq(Frame) /\ q # <<>> /\ \A k \in 1 .. Len(q) : q[k].addr = pending[x].nodeid
      BY <2>1 DEF TypeOK, Item, AddressInv
    <3>2. q[1].addr \in Nodes /\ 1 \in 1 .. Len(q)
      <4> HIDE DEF q
      <4>1. 1 \in 1 .. Len(q) /\ q[1] \in Frame
        BY <3>1, ElementOfSeq, EmptySeq
      <4> QED
        BY <4>1 DEF Frame
    <3>3. ~pending_free[x]
      BY <2>1 DEF PlaceInv
    <3> QED
      BY <3>1, <3>2, <3>3 DEF Matches
  <2>3. QueueOf(m) = pending[x].pending_fifo /\ QueueOf(m)' = pending'[x].pending_fifo
    BY <2>2, QueueIs, NextQueueIs, MatchStays
  <2>4. ASSUME NEW n \in Nodes, n # m PROVE QueueOf(n)' = QueueOf(n)
    <3>1. ~Matches(x, n)
      BY <2>2, <2>4 DEF Matches
    <3> QED
      BY <1>1, <3>1, QueueStep
  <2> QED
    BY <2>1, <2>2, <2>3, <2>4
<1> QED
  BY <1>2, <1>3

LEMMA AcceptStep ==
  ASSUME TypeOK, TypeOK', RecordInv, PlaceInv, OrderInv, OneMatch, OneMatch',
         [Next]_vars, Enqueue
  PROVE  /\ nextId \in 1 .. MaxFrames
         /\ \A n \in Nodes : \A j \in 1 .. Len(QueueOf(n)) : QueueOf(n)[j].id < nextId
         /\ \E m \in Nodes :
              /\ QueueOf(m)' = Append(QueueOf(m), [addr |-> m, id |-> nextId])
              /\ \A n \in Nodes : n # m => QueueOf(n)' = QueueOf(n)
<1>0. ~KickDevice
  BY DEF Enqueue, KickDevice, Return, Continue, Goto, TypeOK, Threads, Callers, PlaceInv
<1>1. PICK x \in Slots, m \in Nodes :
        x = e["mosq"] /\ m = call["mosq"].node /\ Matches(x, m)
  BY EnqueueLive DEF RecordInv, Matches, Live
<1>2. nextId \in 1 .. MaxFrames /\ Newest = nextId - 1
  BY ConstantsAssumption DEF Enqueue, TypeOK, Newest, Arriving
<1>3. /\ pending'[x].pending_fifo
           = Append(pending[x].pending_fifo, [addr |-> m, id |-> nextId])
      /\ \A s \in Slots : s # x => pending'[s] = pending[s]
  <2>1. pending[x] \in Item
    BY <1>1 DEF TypeOK
  <2>2. pending' = [pending EXCEPT ![x] = Queued(pending[x], m)]
    BY <1>1 DEF Enqueue
  <2>3. Queued(pending[x], m).pending_fifo
          = Append(pending[x].pending_fifo, [addr |-> m, id |-> nextId])
    BY <2>1, FifoOf
  <2> QED
    BY <1>1, <2>2, <2>3 DEF TypeOK
<1>4. QueueOf(m) = pending[x].pending_fifo /\ QueueOf(m)' = pending'[x].pending_fifo
  BY <1>0, <1>1, QueueIs, NextQueueIs, MatchStays
<1>5. ASSUME NEW n \in Nodes, n # m PROVE QueueOf(n)' = QueueOf(n)
  <2>1. ~Matches(x, n)
    BY <1>1, <1>5 DEF Matches
  <2> QED
    BY <1>0, <1>3, <2>1, QueueStep
<1>6. ASSUME NEW n \in Nodes, NEW j \in 1 .. Len(QueueOf(n)) PROVE QueueOf(n)[j].id < nextId
  <2>1. CASE QueueOf(n) = <<>>
    BY <1>6, <2>1
  <2>2. ASSUME NEW s \in Slots, QueueOf(n) = pending[s].pending_fifo
        PROVE  QueueOf(n)[j].id < nextId
    <3>1. QueueOf(n)[j].id <= Newest
      BY <1>6, <2>2 DEF OrderInv, Ordered
    <3>2. QueueOf(n)[j].id \in Nat
      <4>1. QueueOf(n) \in Seq(Frame)
        BY <2>2 DEF TypeOK, Item
      <4>2. QueueOf(n)[j] \in Frame
        BY <1>6, <4>1, ElementOfSeq
      <4> QED
        BY <4>2, ConstantsAssumption DEF Frame
    <3> QED
      BY <1>2, <3>1, <3>2
  <2> QED
    BY <1>0, <2>1, <2>2, QueueStep
<1> QED
  BY <1>1, <1>2, <1>3, <1>4, <1>5, <1>6

Queues == [n \in Nodes |-> QueueOf(n)]

LEMMA RefinementInit == Init => D!Init
<1> SUFFICES ASSUME Init PROVE \A n \in Nodes : QueueOf(n) = <<>>
  BY DEF D!Init
<1>1. \A s \in Slots : pending_free[s]
  BY DEF Init
<1> QED
  BY <1>1 DEF QueueOf, Matches

LEMMA RefinementStep ==
  ASSUME TypeOK, TypeOK', RecordInv, PlaceInv, AddressInv, OrderInv, OneMatch, OneMatch',
         ~KickDevice, [Next]_vars
  PROVE  [D!Next]_Queues
<1>1. CASE Enqueue
  <2>1. nextId \in 1 .. MaxFrames
        /\ \A n \in Nodes : \A j \in 1 .. Len(QueueOf(n)) : QueueOf(n)[j].id < nextId
    BY <1>1, AcceptStep
  <2>2. PICK m \in Nodes : /\ QueueOf(m)' = Append(QueueOf(m), [addr |-> m, id |-> nextId])
                           /\ \A n \in Nodes : n # m => QueueOf(n)' = QueueOf(n)
    BY <1>1, AcceptStep
  <2>3. Queues' = [Queues EXCEPT ![m] = Append(Queues[m], [addr |-> m, id |-> nextId])]
    BY <2>2 DEF Queues
  <2>4. \A n \in Nodes : \A j \in 1 .. Len(Queues[n]) : Queues[n][j].id < nextId
    BY <2>1 DEF Queues
  <2>5. D!Accept(m)
    BY <2>1, <2>3, <2>4 DEF D!Accept, Queues
  <2> QED
    BY <2>5 DEF D!Next
<1>2. CASE ~Enqueue /\ \A n \in Nodes : QueueOf(n)' = QueueOf(n)
  BY <1>2 DEF Queues
<1>3. ASSUME NEW m \in Nodes, QueueOf(m) # <<>>, QueueOf(m)' = Tail(QueueOf(m)),
             \A n \in Nodes : n # m => QueueOf(n)' = QueueOf(n)
      PROVE  D!Next
  <2>1. Queues' = [Queues EXCEPT ![m] = Tail(Queues[m])] /\ Queues[m] # <<>>
    BY <1>3 DEF Queues
  <2>2. D!Remove(m)
    BY <2>1 DEF D!Remove, Queues
  <2> QED
    BY <2>2 DEF D!Next
<1> QED
  BY <1>1, <1>2, <1>3, RemoveStep

\* As long as the gate kicks no node, the pool with its slots, threads, locks
\* and timers is one queue per node: a command goes to the tail of the queue
\* of its node, and a queue loses its head and nothing else.
THEOREM PoolIsDownlink == ASSUME NoKicks PROVE Spec => ImplementsDownlink
<1> DEFINE Inv == TypeOK /\ RecordInv /\ PlaceInv /\ AddressInv /\ OrderInv
<1>1. Init => Inv
  BY InitType, RecordInit, PlaceInit, OrderInit
<1>2. Inv /\ [Next]_vars => Inv'
  <2> SUFFICES ASSUME Inv, [Next]_vars PROVE Inv'
    OBVIOUS
  <2>1. TypeOK'
    BY NextType
  <2>2. RecordInv'
    BY <2>1, LockStep, RecordStep DEF RecordInv
  <2> QED
    BY <2>1, <2>2, PlaceStep, AddressStep, OrderStep
<1>3. Inv => OneMatch
  BY MatchOnce
<1>4. Inv /\ Inv' /\ OneMatch /\ OneMatch' /\ [Next]_vars => [D!Next]_Queues
  <2> SUFFICES ASSUME Inv, Inv', OneMatch, OneMatch', [Next]_vars PROVE [D!Next]_Queues
    OBVIOUS
  <2>1. ~KickDevice
    BY NoKickStep DEF PlaceInv
  <2> QED
    BY <2>1, RefinementStep
<1>5. Init => D!Init
  BY RefinementInit
<1> HIDE DEF Inv
<1> QED
  BY <1>1, <1>2, <1>3, <1>4, <1>5, PTL DEF Spec, ImplementsDownlink, D!Spec, Queues
=============================================================================
