------------------------- MODULE PendingPoolProofs -------------------------
(* Proofs about PendingPool, for every number of nodes, slots and frames.  *)
EXTENDS PendingPool, TLAPS

-----------------------------------------------------------------------------
(* What the field updates return.                                          *)

LEMMA MaxAgeNat == MaxAge \in Nat /\ 0 < MaxAge
BY ConstantsAssumption, SMT DEF MaxAge

LEMMA FreshItemType ==
  ASSUME NEW n \in Nodes \cup {NoNode}, NEW c \in 0 .. 2, NEW b \in BOOLEAN
  PROVE  FreshItem(n, c, b) \in Item
BY MaxAgeNat DEF FreshItem, Item

LEMMA RejoinedType ==
  ASSUME NEW p \in Item, NEW c \in 0 .. 2, NEW b \in BOOLEAN
  PROVE  Rejoined(p, c, b) \in Item
BY DEF Rejoined, Item

LEMMA DequeueType ==
  ASSUME NEW q \in Seq(Frame)
  PROVE  Dequeue(q) \in Seq(Frame)
BY DEF Dequeue

LEMMA QueuedType ==
  ASSUME NEW p \in Item, NEW n \in Nodes, nextId \in 1 .. MaxFrames
  PROVE  Queued(p, n) \in Item
<1>1. [addr |-> n, id |-> nextId] \in Frame
  BY DEF Frame
<1>2. Append(p.pending_fifo, [addr |-> n, id |-> nextId]) \in Seq(Frame)
  BY <1>1 DEF Item
<1>3. (IF p.nodeclass = LS_ED_CLASS_A THEN p.num_pending + 1
                                      ELSE p.num_pending) \in Nat
  BY DEF Item
<1> QED
  BY <1>2, <1>3 DEF Queued, Item

LEMMA AckedType ==
  ASSUME NEW p \in Item
  PROVE  Acked(p) \in Item
<1>1. Dequeue(p.pending_fifo) \in Seq(Frame)
  BY DequeueType DEF Item
<1>2. (IF p.num_pending > 0 THEN p.num_pending - 1 ELSE p.num_pending) \in Nat
  BY DEF Item
<1> QED
  BY <1>1, <1>2 DEF Acked, Item

LEMMA GrantedType ==
  ASSUME NEW p \in Item
  PROVE  Granted(p) \in Item
<1>1. MaxAge \in 0 .. MaxAge
  BY MaxAgeNat
<1> QED
  BY <1>1 DEF Granted, Item

LEMMA GaveUpType ==
  ASSUME NEW p \in Item
  PROVE  GaveUp(p) \in Item
<1>1. Dequeue(p.pending_fifo) \in Seq(Frame)
  BY DequeueType DEF Item
<1> QED
  BY <1>1 DEF GaveUp, Item

LEMMA SentType ==
  ASSUME NEW p \in Item, cur \in 0 .. MaxAge
  PROVE  Sent(p) \in Item
BY DEF Sent, Item

LEMMA InvitedOnceType ==
  ASSUME NEW p \in Item, cur \in 0 .. MaxAge
  PROVE  [p EXCEPT !.num_retries = @ + 1, !.inv_age = cur] \in Item
<1>1. p.num_retries + 1 \in Nat
  BY DEF Item
<1> QED
  BY <1>1 DEF Item

LEMMA AgedType ==
  ASSUME NEW p \in Item
  PROVE  [p EXCEPT !.msg_age = Older(@), !.inv_age = Older(@)] \in Item
<1>1. Older(p.msg_age) \in 0 .. MaxAge /\ Older(p.inv_age) \in 0 .. MaxAge
  BY MaxAgeNat DEF Older, Item
<1> QED
  BY <1>1 DEF Item

LEMMA CountType == \A k \in Nat : Count(k) \in Nat
BY DEF Count

-----------------------------------------------------------------------------
(* Type correctness.                                                       *)

\* The record a caller's pointer designates where the caller uses it.
LEMMA PointerType ==
  ASSUME TypeOK, NEW t \in Callers, pc[t] \in UsesE
  PROVE  e[t] \in Slots
BY DEF TypeOK, NULL

LEMMA InitType == Init => TypeOK
<1> SUFFICES ASSUME Init PROVE TypeOK
  OBVIOUS
<1>1. FreshItem(NoNode, LS_ED_CLASS_A, FALSE) \in Item
  BY MaxAgeNat DEF FreshItem, Item, LS_ED_CLASS_A
<1>2. NoCall \in Call
  BY DEF NoCall, Call, LS_ED_CLASS_A
<1>3. NoHist \in Hist
  BY DEF NoHist, Hist
<1>4. /\ pc["mosq"] = "idle" /\ pc["publisher"] = "idle"
      /\ pc["worker"] = "lock" /\ pc["reader"] = "poll"
  BY DEF Init, Threads, Callers
<1>6. pc \in [Threads -> Labels]
  BY DEF Init, Threads, Callers, Labels, MosqLabels, WorkerLabels, ReaderLabels
<1>7. e \in [Callers -> Slots \cup {NULL}]
  BY DEF Init
<1>8. \A t \in Callers : pc[t] = "idle"
  BY <1>4 DEF Callers
<1>5. /\ pending \in [Slots -> Item]
      /\ call \in [Callers -> Call]
      /\ hist \in [Slots -> Hist]
  BY <1>1, <1>2, <1>3 DEF Init
<1>9. pending_free \in [Slots -> BOOLEAN]
  BY DEF Init
<1>10. inflight \in [Nodes -> 0 .. MaxInflight]
  BY ConstantsAssumption DEF Init
<1>11. /\ i \in 1 .. MAX_PENDING_NODES + 1 /\ cur \in 0 .. MaxAge
       /\ nextId \in 0 .. MaxFrames
  BY ConstantsAssumption, MaxAgeNat DEF Init
<1> QED
  BY <1>4, <1>5, <1>6, <1>7, <1>8, <1>9, <1>10, <1>11
  DEF Init, TypeOK, UsesE, MosqLabels, PublisherLabels, WorkerLabels,
      ReaderLabels


\* The values of pc, e and call after a step of a caller.
LEMMA ThreadType ==
  ASSUME TypeOK, NEW t \in Callers, NEW l, Goto(t, l),
         t = "mosq" => l \in MosqLabels,
         t = "publisher" => l \in PublisherLabels
  PROVE  /\ pc' \in [Threads -> Labels]
         /\ pc'["mosq"] \in MosqLabels /\ pc'["publisher"] \in PublisherLabels
         /\ pc'["worker"] = pc["worker"] /\ pc'["reader"] = pc["reader"]
         /\ pc'[t] = l
         /\ \A u \in Callers : u # t => pc'[u] = pc[u]
BY DEF TypeOK, Goto, Callers, Threads, Labels

LEMMA ReturnType ==
  ASSUME TypeOK, NEW t \in Callers, Return(t)
  PROVE  /\ pc' \in [Threads -> Labels]
         /\ pc'["mosq"] \in MosqLabels /\ pc'["publisher"] \in PublisherLabels
         /\ pc'["worker"] = pc["worker"] /\ pc'["reader"] = pc["reader"]
         /\ e' \in [Callers -> Slots \cup {NULL}]
         /\ call' \in [Callers -> Call]
         /\ \A u \in Callers : pc'[u] \in UsesE => e'[u] # NULL
         /\ \A u \in Callers : pc'[u] # "idle" => call'[u].node \in Nodes
         /\ pc'["mosq"] # "idle" => pc["mosq"] # "idle"
<1>1. Goto(t, "idle")
  BY DEF Return
<1>2. /\ pc' \in [Threads -> Labels]
      /\ pc'["mosq"] \in MosqLabels /\ pc'["publisher"] \in PublisherLabels
      /\ pc'["worker"] = pc["worker"] /\ pc'["reader"] = pc["reader"]
      /\ pc'[t] = "idle"
      /\ \A u \in Callers : u # t => pc'[u] = pc[u]
  BY <1>1, ThreadType DEF MosqLabels, PublisherLabels
<1>3. NoCall \in Call
  BY DEF NoCall, Call, LS_ED_CLASS_A
<1>4. call' \in [Callers -> Call] /\ e' \in [Callers -> Slots \cup {NULL}]
  BY <1>3 DEF Return, TypeOK
<1>5. \A u \in Callers : u # t => e'[u] = e[u] /\ call'[u] = call[u]
  BY DEF Return, TypeOK
<1> QED
  BY <1>2, <1>4, <1>5 DEF TypeOK, UsesE, Callers

LEMMA AddExistingType ==
  ASSUME TypeOK, NEW t \in Callers, AddExisting(t) PROVE TypeOK'
<1> USE DEF AddExisting, AddLocked
<1>1. PICK s \in Slots :
        /\ e' = [e EXCEPT ![t] = s]
        /\ pending' = [pending EXCEPT
                         ![s] = Rejoined(@, call[t].class, Joined(t))]
  OBVIOUS
<1>2. pending' \in [Slots -> Item]
  <2>1. pending[s] \in Item /\ call[t].class \in 0 .. 2
    BY DEF TypeOK, Call
  <2>2. Rejoined(pending[s], call[t].class, Joined(t)) \in Item
    BY <2>1, RejoinedType DEF Joined
  <2> QED
    BY <1>1, <2>2 DEF TypeOK
<1>3. e' \in [Callers -> Slots \cup {NULL}] /\ e'[t] # NULL
  BY <1>1, ConstantsAssumption DEF TypeOK, Slots, NULL
<1>4. Goto(t, "addreset")
  OBVIOUS
<1>5. /\ pc' \in [Threads -> Labels]
      /\ pc'["mosq"] \in MosqLabels /\ pc'["publisher"] \in PublisherLabels
      /\ pc'["worker"] = pc["worker"] /\ pc'["reader"] = pc["reader"]
      /\ pc'[t] = "addreset"
      /\ \A u \in Callers : u # t => pc'[u] = pc[u]
  BY <1>4, ThreadType DEF MosqLabels, PublisherLabels
<1> QED
  BY <1>1, <1>2, <1>3, <1>5 DEF TypeOK, Callers

LEMMA AddOccupyType ==
  ASSUME TypeOK, NEW t \in Callers, AddOccupy(t) PROVE TypeOK'
BY ConstantsAssumption DEF TypeOK, AddOccupy, AddLocked, Goto, UsesE, MosqLabels, PublisherLabels, WorkerLabels, ReaderLabels, Labels, Threads, Callers, Nobody, NULL, Slots, pool

LEMMA AddFullType ==
  ASSUME TypeOK, NEW t \in Callers, AddFull(t) PROVE TypeOK'
BY ConstantsAssumption DEF TypeOK, AddFull, AddLocked, Goto, UsesE, MosqLabels, PublisherLabels, WorkerLabels, ReaderLabels, Labels, Threads, Callers, Nobody, NULL, Slots, pool

LEMMA MessageToMoteType ==
  ASSUME TypeOK, NEW n \in Nodes, MessageToMote(n) PROVE TypeOK'
BY ConstantsAssumption DEF TypeOK, MessageToMote, Goto, IsLookup, Call, LS_ED_CLASS_C, UsesE, MosqLabels, PublisherLabels, WorkerLabels, ReaderLabels, Labels, Threads, Callers, Nobody, NULL, Slots, pool

LEMMA MessageAddedType ==
  ASSUME TypeOK, MessageAdded PROVE TypeOK'
BY ConstantsAssumption DEF TypeOK, MessageAdded, Goto, IsLookup, Return, Continue, NoCall, Call, LS_ED_CLASS_A, UsesE, MosqLabels, PublisherLabels, WorkerLabels, ReaderLabels, Labels, Threads, Callers, Nobody, NULL, Slots, pool

LEMMA EnqueueNoMemoryType ==
  ASSUME TypeOK, EnqueueNoMemory PROVE TypeOK'
BY ConstantsAssumption DEF TypeOK, EnqueueNoMemory, Goto, Return, NoCall, Call, LS_ED_CLASS_A, UsesE, MosqLabels, PublisherLabels, WorkerLabels, ReaderLabels, Labels, Threads, Callers, Nobody, NULL, Slots, pool

LEMMA EnqueueNotifyType ==
  ASSUME TypeOK, EnqueueNotify PROVE TypeOK'
BY ConstantsAssumption DEF TypeOK, EnqueueNotify, Goto, Return, NoCall, Call, LS_ED_CLASS_A, UsesE, MosqLabels, PublisherLabels, WorkerLabels, ReaderLabels, Labels, Threads, Callers, Nobody, NULL, Slots, pool

LEMMA ReceiveJoinType ==
  ASSUME TypeOK, NEW n \in Nodes, NEW c \in Classes, ReceiveJoin(n, c) PROVE TypeOK'
BY SMTT(60), ConstantsAssumption DEF TypeOK, ReceiveJoin, Receive, Goto, Call, LS_ED_CLASS_A, LS_ED_CLASS_B, LS_ED_CLASS_C, UsesE, MosqLabels, PublisherLabels, WorkerLabels, ReaderLabels, Labels, Threads, Callers, Nobody, NULL, Slots, pool

LEMMA ReceiveListType ==
  ASSUME TypeOK, NEW n \in Nodes, NEW c \in Classes, ReceiveList(n, c) PROVE TypeOK'
BY SMTT(60), ConstantsAssumption DEF TypeOK, ReceiveList, Receive, Goto, Call, LS_ED_CLASS_A, LS_ED_CLASS_B, LS_ED_CLASS_C, UsesE, MosqLabels, PublisherLabels, WorkerLabels, ReaderLabels, Labels, Threads, Callers, Nobody, NULL, Slots, pool

LEMMA ReceiveKickType ==
  ASSUME TypeOK, NEW n \in Nodes, ReceiveKick(n) PROVE TypeOK'
BY SMTT(60), ConstantsAssumption DEF TypeOK, ReceiveKick, threads,Receive, Goto, Call, LS_ED_CLASS_A, IsLookup, UsesE, MosqLabels, PublisherLabels, WorkerLabels, ReaderLabels, Labels, Threads, Callers, Nobody, NULL, Slots, pool

LEMMA ReceiveAckType ==
  ASSUME TypeOK, NEW n \in Nodes, ReceiveAck(n) PROVE TypeOK'
BY SMTT(60), ConstantsAssumption DEF TypeOK, ReceiveAck, threads,Receive, Goto, Call, LS_ED_CLASS_A, IsLookup, UsesE, MosqLabels, PublisherLabels, WorkerLabels, ReaderLabels, Labels, Threads, Callers, Nobody, NULL, Slots, pool

LEMMA ReceivePendingReqType ==
  ASSUME TypeOK, NEW n \in Nodes, ReceivePendingReq(n) PROVE TypeOK'
BY SMTT(60), ConstantsAssumption DEF TypeOK, ReceivePendingReq, threads,Receive, Goto, Call, LS_ED_CLASS_A, IsLookup, UsesE, MosqLabels, PublisherLabels, WorkerLabels, ReaderLabels, Labels, Threads, Callers, Nobody, NULL, Slots, pool

LEMMA PublisherAddedType ==
  ASSUME TypeOK, PublisherAdded PROVE TypeOK'
BY SMTT(60), ConstantsAssumption DEF TypeOK, PublisherAdded, Goto, IsLookup, Return, Continue, NoCall, Call, LS_ED_CLASS_A, UsesE, MosqLabels, PublisherLabels, WorkerLabels, ReaderLabels, Labels, Threads, Callers, Nobody, NULL, Slots, pool

LEMMA JoinNotifyType ==
  ASSUME TypeOK, JoinNotify PROVE TypeOK'
BY ConstantsAssumption DEF TypeOK, JoinNotify, Goto, Return, NoCall, Call, LS_ED_CLASS_A, UsesE, MosqLabels, PublisherLabels, WorkerLabels, ReaderLabels, Labels, Threads, Callers, Nobody, NULL, Slots, pool

LEMMA WorkerLockType ==
  ASSUME TypeOK, WorkerLock PROVE TypeOK'
BY ConstantsAssumption DEF TypeOK, WorkerLock, Goto, UsesE, MosqLabels, PublisherLabels, WorkerLabels, ReaderLabels, Labels, Threads, Callers, Nobody, NULL, Slots, pool

LEMMA WorkerUnlockType ==
  ASSUME TypeOK, WorkerUnlock PROVE TypeOK'
BY ConstantsAssumption DEF TypeOK, WorkerUnlock, Goto, UsesE, MosqLabels, PublisherLabels, WorkerLabels, ReaderLabels, Labels, Threads, Callers, Nobody, NULL, Slots, pool

LEMMA WorkerSkipType ==
  ASSUME TypeOK, WorkerSkip PROVE TypeOK'
BY ConstantsAssumption DEF TypeOK, WorkerSkip, Scanning, threads, UsesE, MosqLabels, PublisherLabels, WorkerLabels, ReaderLabels, Labels, Threads, Callers, Nobody, NULL, Slots, pool

LEMMA WorkerInviteType ==
  ASSUME TypeOK, WorkerInvite PROVE TypeOK'
BY MaxAgeNat, ConstantsAssumption DEF TypeOK, WorkerInvite, Goto, Scanning, UsesE, MosqLabels, PublisherLabels, WorkerLabels, ReaderLabels, Labels, Threads, Callers, Nobody, NULL, Slots, pool

LEMMA ReaderLockType ==
  ASSUME TypeOK, ReaderLock PROVE TypeOK'
BY ConstantsAssumption DEF TypeOK, ReaderLock, Goto, UsesE, MosqLabels, PublisherLabels, WorkerLabels, ReaderLabels, Labels, Threads, Callers, Nobody, NULL, Slots, pool

LEMMA ReaderUnlockType ==
  ASSUME TypeOK, ReaderUnlock PROVE TypeOK'
BY ConstantsAssumption DEF TypeOK, ReaderUnlock, Goto, UsesE, MosqLabels, PublisherLabels, WorkerLabels, ReaderLabels, Labels, Threads, Callers, Nobody, NULL, Slots, pool

LEMMA AddResetType ==
  ASSUME TypeOK, NEW t \in Callers, AddReset(t) PROVE TypeOK'
<1>1. pending' \in [Slots -> Item] /\ hist' \in [Slots -> Hist]
  <2>1. e[t] \in Slots
    BY PointerType DEF AddReset, UsesE
  <2>2. pending[e[t]] \in Item
    BY <2>1 DEF TypeOK
  <2>3. [pending[e[t]] EXCEPT !.num_retries = 0] \in Item
    BY <2>2 DEF Item
  <2> QED
    BY <2>1, <2>2, <2>3 DEF AddReset, TypeOK
<1> QED
  BY ZenonT(60), SMTT(60), <1>1, ConstantsAssumption, MaxAgeNat
  DEF TypeOK, AddReset, Goto, UsesE, MosqLabels,
    PublisherLabels, WorkerLabels, ReaderLabels, Labels, Threads, Callers,
    Nobody, NULL, Slots, pool, threads

LEMMA AddNodeidType ==
  ASSUME TypeOK, NEW t \in Callers, AddNodeid(t) PROVE TypeOK'
<1>1. pending' \in [Slots -> Item] /\ hist' \in [Slots -> Hist]
  <2>1. e[t] \in Slots /\ call[t].node \in Nodes
    BY PointerType DEF AddNodeid, UsesE, TypeOK
  <2>2. pending[e[t]] \in Item
    BY <2>1 DEF TypeOK
  <2>3. [pending[e[t]] EXCEPT !.nodeid = call[t].node] \in Item
    BY <2>1, <2>2 DEF Item
  <2> QED
    BY <2>1, <2>3 DEF AddNodeid, TypeOK
<1> QED
  BY SMTT(60), ZenonT(60), <1>1, ConstantsAssumption, MaxAgeNat
  DEF TypeOK, AddNodeid, Goto, UsesE, MosqLabels,
    PublisherLabels, WorkerLabels, ReaderLabels, Labels, Threads, Callers,
    Nobody, NULL, Slots, pool, threads

LEMMA AddInitType ==
  ASSUME TypeOK, NEW t \in Callers, AddInit(t) PROVE TypeOK'
<1>1. pending' \in [Slots -> Item] /\ hist' \in [Slots -> Hist]
  <2>1. /\ e[t] \in Slots /\ call[t].node \in Nodes /\ call[t].class \in 0 .. 2
        /\ (~Joined(t)) \in BOOLEAN
    BY PointerType DEF AddInit, UsesE, TypeOK, Call, Joined
  <2>2. FreshItem(call[t].node, call[t].class, ~Joined(t)) \in Item
    BY <2>1, FreshItemType
  <2>3. NoHist \in Hist
    BY DEF NoHist, Hist
  <2> QED
    BY <2>1, <2>2, <2>3 DEF AddInit, TypeOK
<1> QED
  BY <1>1, ConstantsAssumption, MaxAgeNat
  DEF TypeOK, AddInit, Goto, UsesE, MosqLabels,
    PublisherLabels, WorkerLabels, ReaderLabels, Labels, Threads, Callers,
    Nobody, NULL, Slots, pool, threads

LEMMA EnqueueType ==
  ASSUME TypeOK, Enqueue PROVE TypeOK'
<1>1. pending' \in [Slots -> Item] /\ hist' \in [Slots -> Hist]
  <2>1. e["mosq"] \in Slots /\ call["mosq"].node \in Nodes
    BY PointerType DEF Enqueue, UsesE, TypeOK, Callers
  <2>2. nextId \in 1 .. MaxFrames /\ pending[e["mosq"]] \in Item
    BY <2>1, ConstantsAssumption DEF Enqueue, TypeOK
  <2>3. Queued(pending[e["mosq"]], call["mosq"].node) \in Item
    BY <2>1, <2>2, QueuedType
  <2> QED
    BY <2>1, <2>3 DEF Enqueue, TypeOK
<1> QED
  BY <1>1, ConstantsAssumption, MaxAgeNat
  DEF TypeOK, Enqueue, Return, Goto, NoCall, Call, LS_ED_CLASS_A, Continue, UsesE, MosqLabels,
    PublisherLabels, WorkerLabels, ReaderLabels, Labels, Threads, Callers,
    Nobody, NULL, Slots, pool, threads

LEMMA KickDeviceType ==
  ASSUME TypeOK, KickDevice PROVE TypeOK'
<1>1. pending' \in [Slots -> Item] /\ hist' \in [Slots -> Hist]
  <2>1. PICK s \in Slots \cup {NULL} :
          IF s = NULL
          THEN UNCHANGED pool
          ELSE /\ pending_free' = [pending_free EXCEPT ![s] = TRUE]
               /\ pending' = [pending EXCEPT ![s].pending_fifo = <<>>]
    BY DEF KickDevice
  <2>2. CASE s = NULL
    BY <2>1, <2>2 DEF KickDevice, TypeOK, pool
  <2>3. CASE s # NULL
    <3>1. s \in Slots /\ pending[s] \in Item
      BY <2>3 DEF TypeOK
    <3>2. [pending[s] EXCEPT !.pending_fifo = <<>>] \in Item
      <4>1. <<>> \in Seq(Frame)
        OBVIOUS
      <4> QED
        BY <3>1, <4>1 DEF Item
    <3> QED
      BY <2>1, <2>3, <3>1, <3>2 DEF KickDevice, TypeOK
  <2> QED
    BY <2>2, <2>3
<1>2. pending_free' \in [Slots -> BOOLEAN]
  BY DEF KickDevice, TypeOK, pool
<1> QED
  BY <1>1, <1>2, ReturnType DEF TypeOK, KickDevice, Callers

LEMMA AcknowledgeType ==
  ASSUME TypeOK, Acknowledge PROVE TypeOK'
<1>1. pending' \in [Slots -> Item] /\ hist' \in [Slots -> Hist]
  <2>1. e["publisher"] \in Slots
    BY PointerType DEF Acknowledge, UsesE, Callers
  <2>2. pending[e["publisher"]] \in Item /\ hist[e["publisher"]] \in Hist
    BY <2>1 DEF TypeOK
  <2>3. Acked(pending[e["publisher"]]) \in Item
    BY <2>2, AckedType
  <2>4. pending' \in [Slots -> Item]
    BY <2>1, <2>3 DEF Acknowledge, TypeOK
  <2>5. hist' \in [Slots -> Hist]
    BY <2>1, <2>2, ConstantsAssumption DEF Acknowledge, NewHead, NoHist, Hist, TypeOK
  <2> QED
    BY <2>4, <2>5
<1> QED
  BY <1>1, ReturnType DEF TypeOK, Acknowledge, Callers

LEMMA GrantPendingType ==
  ASSUME TypeOK, GrantPending PROVE TypeOK'
<1>1. pending' \in [Slots -> Item] /\ hist' \in [Slots -> Hist]
  <2>1. e["publisher"] \in Slots
    BY PointerType DEF GrantPending, UsesE, Callers
  <2>2. pending[e["publisher"]] \in Item /\ hist[e["publisher"]] \in Hist
    BY <2>1 DEF TypeOK
  <2>3. Granted(pending[e["publisher"]]) \in Item
    BY <2>2, GrantedType
  <2>4. pending' \in [Slots -> Item]
    BY <2>1, <2>3 DEF GrantPending, TypeOK
  <2>5. hist' \in [Slots -> Hist]
    BY <2>1, <2>2, ConstantsAssumption DEF GrantPending, TypeOK
  <2> QED
    BY <2>4, <2>5
<1> QED
  BY <1>1, ReturnType DEF TypeOK, GrantPending, Callers

\* The record and the history the worker is at.
LEMMA WorkerItemType ==
  ASSUME TypeOK, i \in Slots
  PROVE  pending[i] \in Item /\ hist[i] \in Hist
BY DEF TypeOK

LEMMA GiveUpType ==
  ASSUME TypeOK, pc["worker"] = "scan", i \in Slots, GiveUp(i) PROVE TypeOK'
<1>1. GaveUp(pending[i]) \in Item
  BY WorkerItemType, GaveUpType
<1>2. pending' \in [Slots -> Item]
  BY <1>1 DEF GiveUp, TypeOK
<1>3. hist' \in [Slots -> Hist]
  BY WorkerItemType, ConstantsAssumption DEF GiveUp, NewHead, NoHist, Hist, TypeOK
<1>4. i' \in 1 .. MAX_PENDING_NODES + 1
  BY ConstantsAssumption DEF GiveUp, Slots
<1> QED
  BY <1>2, <1>3, <1>4 DEF GiveUp, TypeOK, threads

LEMMA InviteMoteType ==
  ASSUME TypeOK, InviteMote PROVE TypeOK'
<1>0. i \in Slots /\ cur \in 0 .. MaxAge
  BY DEF InviteMote, TypeOK
<1>1. [pending[i] EXCEPT !.num_retries = @ + 1, !.inv_age = cur] \in Item
  BY <1>0, WorkerItemType, InvitedOnceType
<1>2. pending' \in [Slots -> Item]
  BY <1>0, <1>1 DEF InviteMote, TypeOK
<1>3. hist' \in [Slots -> Hist]
  <2>1. [hist[i] EXCEPT !.tries = Count(@)] \in Hist
    BY <1>0, WorkerItemType, CountType DEF Hist
  <2> QED
    BY <1>0, <2>1 DEF InviteMote, TypeOK
<1>4. i' \in 1 .. MAX_PENDING_NODES + 1 /\ cur' \in 0 .. MaxAge
  BY <1>0, ConstantsAssumption, MaxAgeNat DEF InviteMote, Slots
<1> QED
  BY <1>2, <1>3, <1>4
  DEF TypeOK, InviteMote, Goto, UsesE, MosqLabels, PublisherLabels,
      WorkerLabels, ReaderLabels, Labels, Threads, Callers, Slots

LEMMA WorkerPeekType ==
  ASSUME TypeOK, WorkerPeek PROVE TypeOK'
<1>0. i \in Slots
  BY DEF WorkerPeek, Scanning
<1>1. [pending[i] EXCEPT !.num_retries = @ + 1] \in Item
  <2>1. pending[i].num_retries + 1 \in Nat
    BY <1>0, WorkerItemType DEF Item
  <2> QED
    BY <1>0, <2>1, WorkerItemType DEF Item
<1>2. pending' \in [Slots -> Item]
  BY <1>0, <1>1 DEF WorkerPeek, TypeOK
<1>3. hist' \in [Slots -> Hist]
  <2>1. [hist[i] EXCEPT !.tries = Count(@)] \in Hist
    BY <1>0, WorkerItemType, CountType DEF Hist
  <2> QED
    BY <1>0, <2>1 DEF WorkerPeek, TypeOK
<1>4. cur' \in 0 .. MaxAge
  BY MaxAgeNat DEF WorkerPeek
<1> QED
  BY <1>0, <1>2, <1>3, <1>4
  DEF TypeOK, WorkerPeek, Goto, UsesE, MosqLabels, PublisherLabels,
      WorkerLabels, ReaderLabels, Labels, Threads, Callers, Slots

LEMMA WorkerSendType ==
  ASSUME TypeOK, WorkerSend PROVE TypeOK'
<1>0. i \in Slots /\ cur \in 0 .. MaxAge
  BY DEF WorkerSend, TypeOK
<1>1. pending' \in [Slots -> Item]
  BY <1>0, WorkerItemType, SentType DEF WorkerSend, TypeOK
<1>2. hist' \in [Slots -> Hist]
  <2>1. [hist[i] EXCEPT !.tx = Count(@)] \in Hist
    BY <1>0, WorkerItemType, CountType DEF Hist
  <2> QED
    BY <1>0, <2>1 DEF WorkerSend, TypeOK
<1>3. inflight' \in [Nodes -> 0 .. MaxInflight]
  <2>1. PICK n : inflight' = [inflight EXCEPT
                    ![n] = IF @ < MaxInflight THEN @ + 1 ELSE @]
    BY DEF WorkerSend
  <2>2. \A k \in 0 .. MaxInflight :
          (IF k < MaxInflight THEN k + 1 ELSE k) \in 0 .. MaxInflight
    BY ConstantsAssumption
  <2> QED
    BY <2>1, <2>2 DEF TypeOK
<1>4. i' \in 1 .. MAX_PENDING_NODES + 1 /\ cur' \in 0 .. MaxAge
  BY <1>0, ConstantsAssumption, MaxAgeNat DEF WorkerSend, Slots
<1> QED
  BY <1>1, <1>2, <1>3, <1>4
  DEF TypeOK, WorkerSend, Goto, UsesE, MosqLabels, PublisherLabels,
      WorkerLabels, ReaderLabels, Labels, Threads, Callers, Slots

LEMMA TickType ==
  ASSUME TypeOK, Tick PROVE TypeOK'
<1>1. pending' \in [Slots -> Item]
  BY AgedType DEF Tick, TypeOK
<1>2. cur' \in 0 .. MaxAge
  <2>1. cur \in 0 .. MaxAge /\ Older(cur) \in 0 .. MaxAge
    BY MaxAgeNat DEF TypeOK, Older
  <2> QED
    BY <2>1 DEF Tick
<1> QED
  BY <1>1, <1>2 DEF Tick, TypeOK, threads

LEMMA NextType == TypeOK /\ [Next]_vars => TypeOK'
<1> SUFFICES ASSUME TypeOK, [Next]_vars PROVE TypeOK'
  OBVIOUS
<1>1. ASSUME NEW n \in Nodes, MessageToMote(n) PROVE TypeOK'
  BY <1>1, MessageToMoteType
<1>2. ASSUME NEW t \in Callers, AddDevice(t) PROVE TypeOK'
  BY <1>2, AddExistingType, AddResetType, AddOccupyType, AddNodeidType,
     AddInitType, AddFullType DEF AddDevice
<1>3. CASE MosqStep
  BY <1>2, <1>3, MessageAddedType, EnqueueType, EnqueueNoMemoryType,
     EnqueueNotifyType DEF MosqStep, Callers
<1>4. CASE ReceiveReply
  BY <1>4, ReceiveJoinType, ReceiveListType, ReceiveKickType, ReceiveAckType,
     ReceivePendingReqType DEF ReceiveReply
<1>5. CASE PublisherStep
  BY <1>2, <1>5, PublisherAddedType, JoinNotifyType, KickDeviceType,
     AcknowledgeType, GrantPendingType DEF PublisherStep, Callers
<1>6. CASE WorkerStep
  BY <1>6, WorkerLockType, WorkerUnlockType, WorkerSkipType, GiveUpType,
     WorkerInviteType, InviteMoteType, WorkerPeekType, WorkerSendType
  DEF WorkerStep, InviteGiveUp, SendGiveUp, Scanning
<1>7. CASE ReaderStep
  BY <1>7, ReaderLockType, ReaderUnlockType DEF ReaderStep
<1>8. CASE Tick
  BY <1>8, TickType
<1>9. CASE UNCHANGED vars
  BY <1>9 DEF TypeOK, vars
<1> QED
  BY <1>1, <1>3, <1>4, <1>5, <1>6, <1>7, <1>8, <1>9 DEF Next

\* Every reachable state is well typed; in particular no thread ever follows
\* a null pointer into the pool (message_to_mote, serve_reply, add_device).
THEOREM TypeCorrect == Spec => []TypeOK
BY InitType, NextType, PTL DEF Spec

-----------------------------------------------------------------------------
(* One record per node.                                                    *)

\* A step that leaves the slots, their nodes and the threads inside
\* add_device alone keeps ClaimOK and UniqueNode.
LEMMA RecordFrame ==
  ASSUME TypeOK, TypeOK', ClaimOK, UniqueNode,
         UNCHANGED pending_free,
         \A s \in Slots : pending'[s].nodeid = pending[s].nodeid,
         \A t \in Callers : pc'[t] \in {"addnode", "addinit"} =>
           pc[t] \in {"addnode", "addinit"} /\ e'[t] = e[t] /\ call'[t] = call[t],
         \A t \in Callers : pc[t] \in {"addnode", "addinit"} =>
           pc'[t] \in {"addnode", "addinit"}
  PROVE  ClaimOK' /\ UniqueNode'
<1>1. \A s \in Slots : Raw(s)' <=> Raw(s)
  BY DEF Raw
<1>2. \A s \in Slots : Live(s)' <=> Live(s)
  BY <1>1 DEF Live
<1> QED
  BY <1>2 DEF ClaimOK, UniqueNode

LEMMA RecordInit == Init => RecordInv
<1> SUFFICES ASSUME Init PROVE RecordInv
  OBVIOUS
<1>1. /\ pc["mosq"] = "idle" /\ pc["publisher"] = "idle"
      /\ pc["worker"] = "lock" /\ pc["reader"] = "poll"
  BY DEF Init, Threads, Callers
<1>2. \A s \in Slots : pending_free[s]
  BY DEF Init
<1> QED
  BY <1>1, <1>2 DEF Init, RecordInv, LockOK, ClaimOK, UniqueNode, Live, InPending,
    Threads, Callers, Nobody

\* Every step takes and releases mutex_pending where it enters and leaves a
\* critical section.
LEMMA LockStep ==
  ASSUME TypeOK, LockOK, [Next]_vars PROVE LockOK'
<1> USE DEF TypeOK, LockOK, InPending, Goto, Threads, Callers, Nobody, Labels,
            MosqLabels, PublisherLabels, WorkerLabels, ReaderLabels
<1>1. ASSUME NEW n \in Nodes, MessageToMote(n) PROVE LockOK'
  BY <1>1 DEF MessageToMote
<1>2. ASSUME NEW t \in Callers, AddDevice(t) PROVE LockOK'
  <2>1. CASE AddExisting(t)
    BY <2>1 DEF AddExisting, AddLocked
  <2>2. CASE AddReset(t)
    BY <2>2 DEF AddReset
  <2>3. CASE AddOccupy(t)
    BY <2>3 DEF AddOccupy, AddLocked
  <2>4. CASE AddNodeid(t)
    BY <2>4 DEF AddNodeid
  <2>5. CASE AddInit(t)
    BY <2>5 DEF AddInit
  <2>6. CASE AddFull(t)
    BY <2>6 DEF AddFull, AddLocked
  <2> QED
    BY <1>2, <2>1, <2>2, <2>3, <2>4, <2>5, <2>6 DEF AddDevice
<1>3. CASE MessageAdded
  BY <1>3 DEF MessageAdded, Return, Continue
<1>4. CASE Enqueue
  BY <1>4 DEF Enqueue, Return, Continue
<1>5. CASE EnqueueNoMemory
  BY <1>5 DEF EnqueueNoMemory, Return
<1>6. CASE EnqueueNotify
  BY <1>6 DEF EnqueueNotify, Return
<1>7. CASE ReceiveReply
  BY <1>7 DEF ReceiveReply, ReceiveJoin, ReceiveList, ReceiveKick, ReceiveAck,
    ReceivePendingReq, Receive, threads
<1>8. CASE PublisherAdded
  BY <1>8 DEF PublisherAdded, Return, Continue
<1>9. CASE JoinNotify \/ KickDevice \/ Acknowledge \/ GrantPending
  BY <1>9 DEF JoinNotify, KickDevice, Acknowledge, GrantPending, Return
<1>10. CASE WorkerLock \/ WorkerUnlock
  BY <1>10 DEF WorkerLock, WorkerUnlock
<1>11. CASE WorkerSkip \/ InviteGiveUp \/ SendGiveUp
  BY <1>11 DEF WorkerSkip, InviteGiveUp, SendGiveUp, GiveUp, threads
<1>12. CASE WorkerInvite \/ InviteMote \/ WorkerPeek \/ WorkerSend
  BY <1>12 DEF WorkerInvite, InviteMote, WorkerPeek, WorkerSend, Scanning
<1>13. CASE ReaderStep
  BY <1>13 DEF ReaderStep, ReaderLock, ReaderUnlock
<1>14. CASE Tick \/ UNCHANGED vars
  BY ZenonT(60), <1>14 DEF Tick, threads, vars
<1> QED
  BY <1>1, <1>2, <1>3, <1>4, <1>5, <1>6, <1>7, <1>8, <1>9, <1>10, <1>11,
     <1>12, <1>13, <1>14
  DEF Next, MosqStep, PublisherStep, WorkerStep

\* The steps of add_device that change which slots are live.
LEMMA OccupyRecord ==
  ASSUME TypeOK, TypeOK', RecordInv, NEW t \in Callers, AddOccupy(t)
  PROVE  ClaimOK' /\ UniqueNode'
<1> USE DEF RecordInv
<1>1. PICK r \in Slots :
        /\ pending_free[r]
        /\ e' = [e EXCEPT ![t] = r]
        /\ pending_free' = [pending_free EXCEPT ![r] = FALSE]
  BY DEF AddOccupy, IsFirstFree
<1>2. \A u \in Callers : pc[u] \notin {"addnode", "addinit"}
  BY DEF AddOccupy, AddLocked, LockOK, InPending, Callers, Threads, Nobody
<1>3. /\ pc'[t] = "addnode" /\ e'[t] = r
      /\ \A u \in Callers : u # t => pc'[u] = pc[u]
      /\ UNCHANGED <<pending, call>>
  BY <1>1 DEF AddOccupy, Goto, TypeOK, Callers, Threads
<1>4. \A s \in Slots : Live(s)' <=> Live(s)
  BY <1>1, <1>2, <1>3 DEF Live, Raw, TypeOK
<1>5. \A s \in Slots : Live(s) => pending[s].nodeid # call[t].node
  BY DEF AddOccupy, IsLookup, Matches, Live, NULL
<1> QED
  BY <1>1, <1>2, <1>3, <1>4, <1>5 DEF ClaimOK, UniqueNode, TypeOK

LEMMA NodeidRecord ==
  ASSUME TypeOK, TypeOK', RecordInv, NEW t \in Callers, AddNodeid(t)
  PROVE  ClaimOK' /\ UniqueNode'
<1> USE DEF RecordInv
<1>1. /\ pc[t] = "addnode" /\ pc'[t] = "addinit"
      /\ \A u \in Callers : u # t => pc'[u] = pc[u]
      /\ UNCHANGED <<pending_free, e, call>>
  BY DEF AddNodeid, Goto, TypeOK, Callers, Threads
<1>2. \A s \in Slots : Live(s)' <=> Live(s)
  BY <1>1 DEF Live, Raw
<1>3. \A s \in Slots : Live(s) => s # e[t]
  BY <1>1 DEF Live, Raw
<1>4. \A s \in Slots : Live(s) => pending'[s] = pending[s]
  BY <1>3 DEF AddNodeid, TypeOK
<1> QED
  BY <1>1, <1>2, <1>4 DEF ClaimOK, UniqueNode

LEMMA InitRecord ==
  ASSUME TypeOK, TypeOK', RecordInv, NEW t \in Callers, AddInit(t)
  PROVE  ClaimOK' /\ UniqueNode'
<1> USE DEF RecordInv
<1>1. /\ pc[t] = "addinit" /\ pc'[t] = "added" /\ e[t] \in Slots
      /\ \A u \in Callers : u # t => pc'[u] = pc[u]
      /\ UNCHANGED <<pending_free, e, call>>
  BY PointerType DEF AddInit, Goto, TypeOK, Callers, Threads, UsesE
<1>2. \A u \in Callers : pc'[u] \notin {"addnode", "addinit"}
  BY <1>1 DEF LockOK, InPending, Callers, Threads
<1>3. \A s \in Slots : Live(s)' <=> Live(s) \/ s = e[t]
  BY <1>1, <1>2 DEF Live, Raw, ClaimOK, LockOK, InPending, Callers, Threads
<1>4. pending'[e[t]].nodeid = call[t].node
  BY <1>1 DEF AddInit, FreshItem, TypeOK
<1>5. \A s \in Slots : s # e[t] => pending'[s] = pending[s]
  BY <1>1 DEF AddInit, TypeOK
<1> QED
  BY <1>1, <1>2, <1>3, <1>4, <1>5 DEF ClaimOK, UniqueNode

\* No field update changes the node of a record.
LEMMA NodeidKept ==
  ASSUME NEW p \in Item
  PROVE  /\ \A c, b : Rejoined(p, c, b).nodeid = p.nodeid
         /\ \A n : Queued(p, n).nodeid = p.nodeid
         /\ Acked(p).nodeid = p.nodeid /\ Granted(p).nodeid = p.nodeid
         /\ GaveUp(p).nodeid = p.nodeid /\ Sent(p).nodeid = p.nodeid
         /\ \A v : [p EXCEPT !.num_retries = v].nodeid = p.nodeid
         /\ \A v : [p EXCEPT !.pending_fifo = v].nodeid = p.nodeid
         /\ \A v, w : [p EXCEPT !.num_retries = v, !.inv_age = w].nodeid = p.nodeid
BY DEF Rejoined, Queued, Acked, Granted, GaveUp, Sent, Item

LEMMA KickRecord ==
  ASSUME TypeOK, TypeOK', RecordInv, KickDevice
  PROVE  ClaimOK' /\ UniqueNode'
<1> USE DEF RecordInv
<1>1. \A u \in Callers : pc[u] \notin {"addnode", "addinit"}
                         /\ pc'[u] \notin {"addnode", "addinit"}
  BY DEF KickDevice, Return, Goto, LockOK, InPending, Callers, Threads, Nobody,
         TypeOK
<1>2. \A s \in Slots : /\ pending_free[s] => pending_free'[s]
                       /\ pending'[s].nodeid = pending[s].nodeid
  <2>1. PICK r \in Slots \cup {NULL} :
          IF r = NULL
          THEN UNCHANGED pool
          ELSE /\ pending_free' = [pending_free EXCEPT ![r] = TRUE]
               /\ pending' = [pending EXCEPT ![r].pending_fifo = <<>>]
    BY DEF KickDevice
  <2>2. \A s \in Slots : pending[s] \in Item
    BY DEF TypeOK
  <2>3. CASE r = NULL
    BY <2>1, <2>3 DEF pool
  <2>4. CASE r # NULL
    <3>1. pending' = [pending EXCEPT
                        ![r] = [pending[r] EXCEPT !.pending_fifo = <<>>]]
      BY <2>1, <2>4
    <3>2. r \in Slots /\ pending[r] \in Item
      BY <2>2, <2>4
    <3>3. \A s \in Slots : pending'[s].nodeid = pending[s].nodeid
      BY <3>1, <3>2, NodeidKept DEF TypeOK
    <3>4. \A s \in Slots : pending_free[s] => pending_free'[s]
      BY <2>1, <2>4 DEF TypeOK
    <3> QED
      BY <3>3, <3>4
  <2> QED
    BY <2>3, <2>4
<1>3. \A s \in Slots : Live(s)' => Live(s)
  BY <1>1, <1>2 DEF Live, Raw
<1> QED
  BY <1>1, <1>2, <1>3 DEF ClaimOK, UniqueNode

LEMMA RecordStep ==
  ASSUME TypeOK, TypeOK', RecordInv, [Next]_vars PROVE ClaimOK' /\ UniqueNode'
<1> DEFINE Goal == ClaimOK' /\ UniqueNode'
           In(t) == pc[t] \in {"addnode", "addinit"}
           Same  == \A s \in Slots : pending'[s].nodeid = pending[s].nodeid
<1>0. ClaimOK /\ UniqueNode /\ (\A s \in Slots : pending[s] \in Item)
  BY DEF RecordInv, TypeOK
<1> USE DEF Goto, Threads, Callers
<1>1. ASSUME NEW n \in Nodes, MessageToMote(n) PROVE Goal
  <2>1. Same /\ UNCHANGED pending_free
    BY <1>1 DEF MessageToMote, pool
  <2> QED
    BY <1>0, <1>1, <2>1, RecordFrame DEF MessageToMote, TypeOK
<1>2. ASSUME NEW t \in Callers, AddExisting(t) PROVE Goal
  <2>1. Same /\ UNCHANGED pending_free
    BY <1>0, <1>2, NodeidKept DEF AddExisting, TypeOK
  <2> QED
    BY <1>0, <1>2, <2>1, RecordFrame DEF AddExisting, AddLocked, TypeOK
<1>3. ASSUME NEW t \in Callers, AddReset(t) PROVE Goal
  <2>0. ASSUME pending' = [pending EXCEPT ![e[t]].num_retries = 0] PROVE Same
    <3>1. pending' = [pending EXCEPT
                        ![e[t]] = [pending[e[t]] EXCEPT !.num_retries = 0]]
      BY <2>0
    <3>2. e[t] \in Slots /\ pending[e[t]] \in Item
      BY <1>0, <1>3, PointerType DEF AddReset, UsesE
    <3> QED
      BY <3>1, <3>2, NodeidKept DEF TypeOK
  <2>1. Same /\ UNCHANGED pending_free
    BY <1>3, <2>0 DEF AddReset
  <2> QED
    BY <1>0, <1>3, <2>1, RecordFrame DEF AddReset, TypeOK
<1>4. ASSUME NEW t \in Callers, AddFull(t) PROVE Goal
  <2>1. Same /\ UNCHANGED pending_free
    BY <1>4 DEF AddFull, pool
  <2> QED
    BY <1>0, <1>4, <2>1, RecordFrame DEF AddFull, AddLocked, TypeOK
<1>5. ASSUME NEW t \in Callers, AddDevice(t) PROVE Goal
  BY <1>2, <1>3, <1>4, <1>5, OccupyRecord, NodeidRecord, InitRecord
  DEF AddDevice
<1>6. CASE MessageAdded \/ EnqueueNoMemory \/ EnqueueNotify
  <2>1. Same /\ UNCHANGED pending_free
    BY <1>6 DEF MessageAdded, EnqueueNoMemory, EnqueueNotify, pool
  <2> QED
    BY <1>0, <1>6, <2>1, RecordFrame DEF MessageAdded, EnqueueNoMemory,
       EnqueueNotify, Return, Continue, TypeOK
<1>7. CASE Enqueue
  <2>1. Same /\ UNCHANGED pending_free
    BY <1>0, <1>7, NodeidKept DEF Enqueue, TypeOK
  <2> QED
    BY <1>0, <1>7, <2>1, RecordFrame DEF Enqueue, Return, Continue, TypeOK
<1>8. CASE ReceiveReply
  <2>1. Same /\ UNCHANGED pending_free
    BY <1>8 DEF ReceiveReply, ReceiveJoin, ReceiveList, ReceiveKick,
       ReceiveAck, ReceivePendingReq, Receive, pool
  <2>2. \A t \in Callers : (In(t) <=> In(t)') /\ (In(t) => UNCHANGED <<e[t], call[t]>>)
    BY <1>8 DEF ReceiveReply, ReceiveJoin, ReceiveList, ReceiveKick,
       ReceiveAck, ReceivePendingReq, Receive, threads, TypeOK
  <2> QED
    BY <1>0, <2>1, <2>2, RecordFrame
<1>9. CASE PublisherAdded \/ JoinNotify
  <2>1. Same /\ UNCHANGED pending_free
    BY <1>9 DEF PublisherAdded, JoinNotify, pool
  <2> QED
    BY <1>0, <1>9, <2>1, RecordFrame DEF PublisherAdded, JoinNotify, Return,
       Continue, TypeOK
<1>10. CASE Acknowledge \/ GrantPending
  <2>1. ASSUME Acknowledge PROVE Same /\ UNCHANGED pending_free
    BY <1>0, <2>1, NodeidKept DEF Acknowledge, TypeOK
  <2>2. ASSUME GrantPending PROVE Same /\ UNCHANGED pending_free
    BY <1>0, <2>2, NodeidKept DEF GrantPending, TypeOK
  <2>3. Same /\ UNCHANGED pending_free
    BY <1>10, <2>1, <2>2
  <2> QED
    BY <1>0, <1>10, <2>3, RecordFrame DEF Acknowledge, GrantPending, Return,
       TypeOK
<1>11. CASE WorkerStep \/ ReaderStep \/ Tick \/ UNCHANGED vars
  <2>1. UNCHANGED pending_free /\ (\A t \in Callers : UNCHANGED <<pc[t], e[t], call[t]>>)
    BY <1>11 DEF WorkerStep, WorkerLock, WorkerUnlock, WorkerSkip,
       InviteGiveUp, SendGiveUp, GiveUp, WorkerInvite, InviteMote, WorkerPeek,
       WorkerSend, ReaderStep, ReaderLock, ReaderUnlock, Tick, vars, threads,
       pool, TypeOK
  <2>2. ASSUME InviteGiveUp \/ SendGiveUp PROVE Same
    <3>1. i \in Slots /\ pending' = [pending EXCEPT ![i] = GaveUp(pending[i])]
      BY <2>2 DEF InviteGiveUp, SendGiveUp, GiveUp, Scanning
    <3> QED
      BY <1>0, <3>1, NodeidKept DEF TypeOK
  <2>3. ASSUME WorkerSend PROVE Same
    BY <1>0, <2>3, NodeidKept DEF WorkerSend, TypeOK
  <2>4. ASSUME InviteMote PROVE Same
    BY <1>0, <2>4, NodeidKept DEF InviteMote, TypeOK
  <2>5. ASSUME WorkerPeek PROVE Same
    BY <1>0, <2>5, NodeidKept DEF WorkerPeek, TypeOK
  <2>6. ASSUME Tick PROVE Same
    BY <1>0, <2>6 DEF Tick, Item
  <2>7. Same
    BY <1>11, <2>2, <2>3, <2>4, <2>5, <2>6 DEF WorkerStep, WorkerLock,
       WorkerUnlock, WorkerSkip, WorkerInvite, ReaderStep, ReaderLock,
       ReaderUnlock, vars, pool
  <2> QED
    BY <1>0, <2>1, <2>7, RecordFrame
<1> QED
  BY <1>1, <1>5, <1>6, <1>7, <1>8, <1>9, <1>10, <1>11, KickRecord
  DEF Next, MosqStep, PublisherStep

\* At every moment mutex_pending is held by exactly the thread inside one of
\* its critical sections, and a node has at most one record in the pool,
\* however the invitation of message_to_mote and the joins and kicks of
\* serve_reply interleave.
THEOREM OneRecordPerNode == Spec => [](LockOK /\ UniqueNode)
<1>1. Init => TypeOK /\ RecordInv
  BY InitType, RecordInit
<1>2. TypeOK /\ RecordInv /\ [Next]_vars => (TypeOK /\ RecordInv)'
  BY NextType, LockStep, RecordStep DEF RecordInv
<1>3. RecordInv => LockOK /\ UniqueNode
  BY DEF RecordInv
<1> QED
  BY <1>1, <1>2, <1>3, PTL DEF Spec

\* mutex_pending is held by exactly the thread that is inside a section it
\* guards, and mutex_uart across steps by the reader alone (mqtt.c:174-222,
\* 227-248, 707-827, 921-929, 1023-1042): no lock is taken twice or lost.
THEOREM LocksHeld == Spec => []LockOK
<1>1. LockOK /\ UniqueNode => LockOK
  OBVIOUS
<1> QED
  BY <1>1, OneRecordPerNode, PTL

-----------------------------------------------------------------------------
(* A frame is given up only after all its attempts.                        *)

LEMMA MaxHistBound ==
  /\ MaxHist \in Nat /\ NUM_RETRIES + 1 <= MaxHist
  /\ NUM_RETRIES_INV + 1 <= MaxHist
BY ConstantsAssumption, SMT DEF MaxHist

\* What the field updates do to num_retries.
LEMMA RetriesOf ==
  ASSUME NEW p \in Item
  PROVE  /\ \A c, b : Rejoined(p, c, b).num_retries = p.num_retries
         /\ \A n : Queued(p, n).num_retries = p.num_retries
         /\ Acked(p).num_retries = 0 /\ GaveUp(p).num_retries = 0
         /\ Granted(p).num_retries = p.num_retries
         /\ Sent(p).num_retries <= p.num_retries
         /\ \A n, c, b : FreshItem(n, c, b).num_retries = 0
         /\ \A v : [p EXCEPT !.num_retries = v].num_retries = v
         /\ \A v : [p EXCEPT !.pending_fifo = v].num_retries = p.num_retries
         /\ \A v : [p EXCEPT !.nodeid = v].num_retries = p.num_retries
         /\ \A v, w :
              [p EXCEPT !.num_retries = v, !.inv_age = w].num_retries = v
         /\ \A v, w :
              [p EXCEPT !.msg_age = v, !.inv_age = w].num_retries = p.num_retries
BY ConstantsAssumption
DEF Rejoined, Queued, Acked, GaveUp, Granted, Sent, FreshItem, Item

\* A step that makes no attempt keeps RetryInv.
LEMMA RetryFrame ==
  ASSUME TypeOK, TypeOK', RetryInv,
         \A s \in Slots :
           /\ hist'[s].tries <= MaxHist
           /\ \/ pending'[s].num_retries = 0
              \/ /\ pending'[s].num_retries <= pending[s].num_retries
                 /\ hist'[s].tries = hist[s].tries,
         pc'["worker"] = "invite" => pc["worker"] = "invite" /\ i' = i
  PROVE  RetryInv'
<1>1. \A s \in Slots :
        /\ pending[s].num_retries \in Nat /\ pending'[s].num_retries \in Nat
        /\ hist[s].tries \in Nat /\ hist'[s].tries \in Nat
  BY DEF TypeOK, Item, Hist
<1>2. MaxHist \in Nat /\ NUM_RETRIES_INV \in Nat
  BY MaxHistBound, ConstantsAssumption
<1>3. \A s \in Slots : pending'[s].num_retries <= hist'[s].tries
  BY <1>1, <1>2 DEF RetryInv
<1>4. pc'["worker"] = "invite" => pending'[i'].num_retries <= NUM_RETRIES_INV
  BY <1>1, <1>2 DEF RetryInv, TypeOK
<1> QED
  BY <1>3, <1>4 DEF RetryInv

LEMMA RetryInit == Init => RetryInv
<1> SUFFICES ASSUME Init PROVE RetryInv
  OBVIOUS
<1>1. pc["worker"] = "lock"
  BY DEF Init, Threads, Callers
<1>2. \A s \in Slots : pending[s].num_retries = 0 /\ hist[s].tries = 0
  BY DEF Init, FreshItem, NoHist
<1> QED
  BY <1>1, <1>2, MaxHistBound DEF RetryInv

LEMMA RetryStep ==
  ASSUME TypeOK, TypeOK', RetryInv, [Next]_vars PROVE RetryInv'
<1> DEFINE Calm == pc'["worker"] = "invite" => pc["worker"] = "invite" /\ i' = i
           Kept == \A s \in Slots :
                     pending'[s].num_retries <= pending[s].num_retries
<1>0. /\ \A s \in Slots :
           /\ pending[s] \in Item /\ hist[s] \in Hist
           /\ pending[s].num_retries \in Nat /\ hist[s].tries \in Nat
           /\ hist[s].tries <= MaxHist
      /\ MaxHist \in Nat
  BY MaxHistBound DEF TypeOK, RetryInv, Item, Hist
<1>1. ASSUME Kept, UNCHANGED hist, Calm PROVE RetryInv'
  BY <1>0, <1>1, RetryFrame
<1>2. ASSUME UNCHANGED <<pending, hist>>, Calm PROVE RetryInv'
  <2>1. Kept
    BY <1>0, <1>2
  <2> QED
    BY <1>1, <1>2, <2>1
<1> USE DEF Goto, Threads, Callers
<1>3. ASSUME NEW n \in Nodes, MessageToMote(n) PROVE RetryInv'
  BY <1>2, <1>3 DEF MessageToMote, pool, TypeOK
<1>4. ASSUME NEW t \in Callers, AddDevice(t) PROVE RetryInv'
  <2>1. CASE AddExisting(t)
    <3>1. Kept
      BY <1>0, <2>1, RetriesOf DEF AddExisting, TypeOK
    <3> QED
      BY <1>1, <2>1, <3>1 DEF AddExisting, TypeOK
  <2>2. CASE AddReset(t)
    <3>1. ASSUME pending' = [pending EXCEPT ![e[t]].num_retries = 0] PROVE Kept
      <4>1. pending' = [pending EXCEPT
                          ![e[t]] = [pending[e[t]] EXCEPT !.num_retries = 0]]
        BY <3>1
      <4>2. e[t] \in Slots /\ pending[e[t]] \in Item
        BY <1>0, <2>2, PointerType DEF AddReset, UsesE
      <4> QED
        BY <1>0, <4>1, <4>2, RetriesOf DEF TypeOK
    <3>2. Kept
      BY <1>0, <2>2, <3>1 DEF AddReset
    <3> QED
      BY <1>1, <2>2, <3>2 DEF AddReset, TypeOK
  <2>3. CASE AddOccupy(t)
    BY <1>2, <2>3 DEF AddOccupy, TypeOK
  <2>4. CASE AddNodeid(t)
    <3>1. pending' = [pending EXCEPT
                        ![e[t]] = [pending[e[t]] EXCEPT !.nodeid = call[t].node]]
      BY <2>4 DEF AddNodeid
    <3>2. e[t] \in Slots /\ pending[e[t]] \in Item
      BY <1>0, <2>4, PointerType DEF AddNodeid, UsesE
    <3>3. Kept
      BY <1>0, <3>1, <3>2, RetriesOf DEF TypeOK
    <3> QED
      BY <1>1, <2>4, <3>3 DEF AddNodeid, TypeOK
  <2>5. CASE AddInit(t)
    <3>1. e[t] \in Slots /\ pending[e[t]] \in Item
      BY <1>0, <2>5, PointerType DEF AddInit, UsesE
    <3>2. pending'[e[t]].num_retries = 0 /\ hist'[e[t]].tries <= MaxHist
      BY <1>0, <2>5, <3>1, RetriesOf DEF AddInit, NoHist, TypeOK
    <3>3. \A s \in Slots : s # e[t] =>
            pending'[s] = pending[s] /\ hist'[s] = hist[s]
      BY <2>5 DEF AddInit, TypeOK
    <3> QED
      BY <1>0, <2>5, <3>1, <3>2, <3>3, RetryFrame DEF AddInit, TypeOK
  <2>6. CASE AddFull(t)
    BY <1>2, <2>6 DEF AddFull, pool, TypeOK
  <2> QED
    BY <1>4, <2>1, <2>2, <2>3, <2>4, <2>5, <2>6 DEF AddDevice
<1>5. CASE MessageAdded \/ EnqueueNoMemory \/ EnqueueNotify
  BY <1>2, <1>5 DEF MessageAdded, EnqueueNoMemory, EnqueueNotify, Return,
     Continue, pool, TypeOK
<1>6. CASE Enqueue
  <2>1. Kept
    BY <1>0, <1>6, RetriesOf DEF Enqueue, TypeOK
  <2> QED
    BY <1>1, <1>6, <2>1 DEF Enqueue, Return, Continue, TypeOK
<1>7. CASE ReceiveReply
  BY <1>2, <1>7 DEF ReceiveReply, ReceiveJoin, ReceiveList, ReceiveKick,
     ReceiveAck, ReceivePendingReq, Receive, pool, threads, TypeOK
<1>8. CASE PublisherAdded \/ JoinNotify
  BY <1>2, <1>8 DEF PublisherAdded, JoinNotify, Return, Continue, pool, TypeOK
<1>9. CASE KickDevice
  <2>1. PICK r \in Slots \cup {NULL} :
          IF r = NULL
          THEN UNCHANGED pool
          ELSE pending' = [pending EXCEPT
                             ![r] = [pending[r] EXCEPT !.pending_fifo = <<>>]]
    BY <1>9 DEF KickDevice
  <2>2. CASE r = NULL
    BY <1>2, <1>9, <2>1, <2>2 DEF KickDevice, Return, pool, TypeOK
  <2>3. CASE r # NULL
    <3>0. r \in Slots /\ pending[r] \in Item
      BY <1>0, <2>3
    <3>2. pending'[r].num_retries = pending[r].num_retries
      <4>1. pending'[r] = [pending[r] EXCEPT !.pending_fifo = <<>>]
        BY <2>1, <2>3, <3>0 DEF TypeOK
      <4> QED
        BY <3>0, <4>1 DEF Item
    <3>3. \A s \in Slots : s # r => pending'[s] = pending[s]
      BY <2>1, <2>3 DEF TypeOK
    <3>1. Kept
      BY <1>0, <3>0, <3>2, <3>3
    <3> QED
      BY <1>1, <1>9, <3>1 DEF KickDevice, Return, TypeOK
  <2> QED
    BY <2>2, <2>3
<1>10. CASE Acknowledge
  <2>1. e["publisher"] \in Slots
    BY <1>10, PointerType DEF Acknowledge, UsesE
  <2>2. \A s \in Slots :
          /\ hist'[s].tries <= MaxHist
          /\ \/ pending'[s].num_retries = 0
             \/ pending'[s] = pending[s] /\ hist'[s] = hist[s]
    BY <1>0, <1>10, <2>1, RetriesOf DEF Acknowledge, NewHead, NoHist, Hist, TypeOK
  <2> QED
    BY <1>0, <1>10, <2>2, RetryFrame DEF Acknowledge, Return, TypeOK
<1>11. CASE GrantPending
  <2>1. e["publisher"] \in Slots
    BY <1>11, PointerType DEF GrantPending, UsesE
  <2>2. \A s \in Slots : /\ pending'[s].num_retries = pending[s].num_retries
                         /\ hist'[s].tries = hist[s].tries
    BY <1>0, <1>11, <2>1, RetriesOf DEF GrantPending, Hist, TypeOK
  <2> QED
    BY <1>0, <1>11, <2>2, RetryFrame DEF GrantPending, Return, TypeOK
<1>12. CASE WorkerLock \/ WorkerUnlock \/ WorkerSkip
  BY <1>2, <1>12 DEF WorkerLock, WorkerUnlock, WorkerSkip, Scanning, pool,
     threads, TypeOK
<1>13. CASE InviteGiveUp \/ SendGiveUp
  <2>1. /\ i \in Slots /\ pc' = pc /\ pc["worker"] = "scan"
        /\ pending' = [pending EXCEPT ![i] = GaveUp(pending[i])]
        /\ NewHead(i)
    BY <1>13 DEF InviteGiveUp, SendGiveUp, GiveUp, Scanning, threads
  <2>2. \A s \in Slots :
          /\ hist'[s].tries <= MaxHist
          /\ \/ pending'[s].num_retries = 0
             \/ pending'[s] = pending[s] /\ hist'[s] = hist[s]
    BY <1>0, <2>1, RetriesOf DEF NewHead, NoHist, Hist, TypeOK
  <2> QED
    BY <1>0, <2>1, <2>2, RetryFrame
<1>14. CASE WorkerInvite
  <2>1. /\ UNCHANGED <<pending, hist, i>> /\ i \in Slots
        /\ ~InviteExhausted(i)
    BY <1>14 DEF WorkerInvite, Scanning, pool
  <2> QED
    BY <1>0, <2>1, ConstantsAssumption DEF RetryInv, InviteExhausted
<1>15. CASE InviteMote
  <2>1. i \in Slots /\ pc'["worker"] = "scan"
    BY <1>15 DEF InviteMote, TypeOK
  <2>2. /\ pending'[i].num_retries = pending[i].num_retries + 1
        /\ hist'[i].tries = Count(hist[i].tries)
    BY <1>0, <1>15, <2>1, RetriesOf DEF InviteMote, Hist, TypeOK
  <2>3. \A s \in Slots : s # i => pending'[s] = pending[s] /\ hist'[s] = hist[s]
    BY <1>15 DEF InviteMote, TypeOK
  <2>4. pending[i].num_retries <= NUM_RETRIES_INV
    BY <1>15 DEF InviteMote, RetryInv
  <2> QED
    BY <1>0, <2>1, <2>2, <2>3, <2>4, MaxHistBound, ConstantsAssumption
    DEF RetryInv, Count
<1>16. CASE WorkerPeek
  <2>1. i \in Slots /\ pc'["worker"] = "send" /\ ~SendExhausted(i)
    BY <1>16 DEF WorkerPeek, Scanning, TypeOK
  <2>2. /\ pending'[i].num_retries = pending[i].num_retries + 1
        /\ hist'[i].tries = Count(hist[i].tries)
    BY <1>0, <1>16, <2>1, RetriesOf DEF WorkerPeek, Hist, TypeOK
  <2>3. \A s \in Slots : s # i => pending'[s] = pending[s] /\ hist'[s] = hist[s]
    BY <1>16 DEF WorkerPeek, TypeOK
  <2> QED
    BY <1>0, <2>1, <2>2, <2>3, MaxHistBound, ConstantsAssumption
    DEF RetryInv, Count, SendExhausted
<1>17. CASE WorkerSend
  <2>1. i \in Slots /\ pc'["worker"] = "scan"
    BY <1>17 DEF WorkerSend, TypeOK
  <2>2. /\ pending'[i].num_retries <= pending[i].num_retries
        /\ hist'[i].tries = hist[i].tries
    BY <1>0, <1>17, <2>1, RetriesOf DEF WorkerSend, Hist, TypeOK
  <2>3. \A s \in Slots : s # i => pending'[s] = pending[s] /\ hist'[s] = hist[s]
    BY <1>17 DEF WorkerSend, TypeOK
  <2> QED
    BY <1>0, <2>1, <2>2, <2>3, RetryFrame
<1>18. CASE ReaderStep \/ UNCHANGED vars
  BY <1>2, <1>18 DEF ReaderStep, ReaderLock, ReaderUnlock, vars, pool, TypeOK
<1>19. CASE Tick
  <2>1. \A s \in Slots : pending'[s].num_retries = pending[s].num_retries
    BY <1>0, <1>19 DEF Tick, Item
  <2>2. Kept
    BY <1>0, <2>1
  <2> QED
    BY <1>1, <1>19, <2>2 DEF Tick, threads
<1> QED
  BY <1>3, <1>4, <1>5, <1>6, <1>7, <1>8, <1>9, <1>10, <1>11, <1>12, <1>13,
     <1>14, <1>15, <1>16, <1>17, <1>18, <1>19
  DEF Next, MosqStep, PublisherStep, WorkerStep

\* pending_worker gives a frame up only after more than NUM_RETRIES attempts
\* (NUM_RETRIES_INV while it invites the node) were made for that frame.
THEOREM GiveUpIsHonest == Spec => HonestGiveUp
<1>1. Init => TypeOK /\ RetryInv
  BY InitType, RetryInit
<1>2. TypeOK /\ RetryInv /\ [Next]_vars => (TypeOK /\ RetryInv)'
  BY NextType, RetryStep
<1>3. TypeOK /\ RetryInv =>
        /\ SendGiveUp => hist[i].tries > NUM_RETRIES
        /\ InviteGiveUp => hist[i].tries > NUM_RETRIES_INV
  <2> SUFFICES ASSUME TypeOK, RetryInv
               PROVE  /\ SendGiveUp => hist[i].tries > NUM_RETRIES
                      /\ InviteGiveUp => hist[i].tries > NUM_RETRIES_INV
    OBVIOUS
  <2>1. i \in Slots => /\ pending[i].num_retries \in Nat
                       /\ hist[i].tries \in Nat
                       /\ pending[i].num_retries <= hist[i].tries
    BY DEF TypeOK, RetryInv, Item, Hist
  <2> QED
    BY <2>1, ConstantsAssumption
    DEF SendGiveUp, InviteGiveUp, Scanning, SendExhausted, InviteExhausted
<1> QED
  BY <1>1, <1>2, <1>3, PTL DEF Spec, HonestGiveUp
=============================================================================
