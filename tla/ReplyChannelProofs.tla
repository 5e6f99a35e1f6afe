------------------------- MODULE ReplyChannelProofs -------------------------
(* Proofs about ReplyChannel, for every file of static devices, length of  *)
(* the queue and number of replies and requests.                           *)
EXTENDS ReplyChannel, SequenceTheorems, TLAPS

-----------------------------------------------------------------------------
(* Type correctness.  A line is copied only while the reader walks through *)
(* what it read: outside that loop no line is left.                        *)

AllLabels == ReaderLabels \cup PublisherLabels \cup {"idle"}

TypeInv ==
  /\ TypeOK
  /\ pc \in [Threads -> AllLabels]
  /\ pc["reader"] # "token" => batch = <<>>

LEMMA InitTypeInv == Init => TypeInv
<1> SUFFICES ASSUME Init PROVE TypeInv
  OBVIOUS
<1>1. NoReply \in Reply
  BY ChannelAssumption DEF NoReply, Reply
<1>2. <<>> \in Seq(Reply) /\ <<>> \in Seq(Lines) /\ Len(<<>>) = 0
  OBVIOUS
<1>3. \A l \in Usable : <<l>> \in Seq(Lines)
  BY ChannelAssumption
<1>4. gateStatic \in Seq(Lines)
  BY <1>2, <1>3 DEF Init
<1>5. /\ origin \in [1 .. MaxReplies -> {"node", "gate", "mqtt"}]
      /\ line \in 1 .. Len(StaticFile) + 1
      /\ nextId \in 0 .. MaxReplies /\ gets \in 0 .. MaxGets
      /\ Len(msgq) <= QueueMax
  BY <1>2, ChannelAssumption DEF Init
<1>6. /\ pc \in [Threads -> AllLabels]
      /\ pc["reader"] = "poll" /\ pc["publisher"] = "wait" /\ pc["mosq"] = "idle"
  BY DEF Init, Threads, AllLabels, ReaderLabels, PublisherLabels
<1> QED
  BY <1>1, <1>2, <1>4, <1>5, <1>6
  DEF Init, TypeInv, TypeOK, ReaderLabels, PublisherLabels, Nobody

\* What the gate holds once it has added a reply.
LEMMA GateAddsType ==
  ASSUME TypeOK, NEW type \in Types, NEW who \in {"node", "gate", "mqtt"},
         GateAdds(type, who)
  PROVE  /\ gate' \in Seq(Reply) /\ nextId' \in 0 .. MaxReplies
         /\ origin' \in [1 .. MaxReplies -> {"node", "gate", "mqtt"}]
<1>1. nextId + 1 \in 1 .. MaxReplies
  BY ChannelAssumption DEF GateAdds, TypeOK
<1>2. [type |-> type, id |-> nextId + 1] \in Reply
  BY <1>1 DEF Reply
<1> QED
  BY <1>1, <1>2, ChannelAssumption DEF GateAdds, TypeOK

LEMMA GateListsType ==
  ASSUME TypeOK, NEW who \in {"node", "gate", "mqtt"}, GateLists(who)
  PROVE  /\ gate' \in Seq(Reply) /\ nextId' \in 0 .. MaxReplies
         /\ origin' \in [1 .. MaxReplies -> {"node", "gate", "mqtt"}]
<1>1. CASE GateAdds("LIST", who)
  BY <1>1, GateAddsType DEF Types
<1>2. CASE UNCHANGED <<nextId, gate, origin>>
  BY <1>2 DEF TypeOK
<1> QED
  BY <1>1, <1>2 DEF GateLists

LEMMA ReaderReadType ==
  ASSUME TypeInv, ReaderRead PROVE TypeInv'
<1>1. PICK k \in 0 .. Len(gate) :
        /\ batch' = SubSeq(gate, 1, k)
        /\ gate' = SubSeq(gate, k + 1, Len(gate))
        /\ cut' \in {FALSE, CutLines /\ k > 0}
        /\ Goto("reader", IF k = 0 THEN "nap" ELSE "token")
  BY DEF ReaderRead
<1>2. gate \in Seq(Reply) /\ Len(gate) \in Nat /\ k \in Int
  BY DEF TypeInv, TypeOK
<1>3. batch' \in Seq(Reply) /\ gate' \in Seq(Reply)
  BY <1>1, <1>2, SubSeqProperties, ElementOfSeq
<1>4. k = 0 => batch' = <<>>
  BY <1>1, <1>2, SubSeqEmpty
<1>5. /\ pc' \in [Threads -> AllLabels]
      /\ pc'["reader"] = IF k = 0 THEN "nap" ELSE "token"
      /\ pc'["publisher"] = pc["publisher"] /\ pc'["mosq"] = pc["mosq"]
  BY <1>1 DEF TypeInv, Goto, Threads, AllLabels, ReaderLabels
<1>6. left = Halves
  BY DEF ReaderRead, At, TypeInv, TypeOK
<1> QED
  BY <1>1, <1>3, <1>4, <1>5, <1>6, ChannelAssumption
  DEF ReaderRead, ReaderRelease, TypeInv, TypeOK, ReaderLabels, At, Nobody, flags, history

LEMMA ReaderCopyType ==
  ASSUME TypeInv, NEW h \in Halves, ReaderCopy(h) PROVE TypeInv'
<1>1. Head(batch) \in Reply
  BY HeadTailProperties DEF ReaderCopy, TypeInv, TypeOK
<1>2. msg_rx' \in Reply
  BY <1>1 DEF ReaderCopy, TypeInv, TypeOK, Reply
<1> QED
  BY <1>2 DEF ReaderCopy, TypeInv, TypeOK, InUse, uart, flags, At

LEMMA ReaderSendType ==
  ASSUME TypeInv, ReaderSend PROVE TypeInv'
<1>1. Head(batch) \in Reply /\ Tail(batch) \in Seq(Reply)
  BY HeadTailProperties DEF ReaderSend, TypeInv, TypeOK
<1>2. msgq' \in Seq(Reply) /\ Len(msgq') <= QueueMax
  BY ChannelAssumption DEF ReaderSend, TypeInv, TypeOK
<1>3. handed' \in Seq(Reply)
  BY <1>1 DEF ReaderSend, TypeInv, TypeOK
<1> QED
  BY <1>1, <1>2, <1>3 DEF ReaderSend, TypeInv, TypeOK, uart, flags, At

LEMMA ReaderSendFailsType ==
  ASSUME TypeInv, ReaderSendFails PROVE TypeInv'
<1>1. Tail(batch) \in Seq(Reply)
  BY HeadTailProperties DEF ReaderSendFails, TypeInv, TypeOK
<1> QED
  BY <1>1 DEF ReaderSendFails, TypeInv, TypeOK, uart, flags, history, At

LEMMA ReaderDevlistType ==
  ASSUME TypeInv, ReaderDevlist PROVE TypeInv'
<1>1. /\ gate' \in Seq(Reply) /\ nextId' \in 0 .. MaxReplies
      /\ origin' \in [1 .. MaxReplies -> {"node", "gate", "mqtt"}]
  BY GateListsType DEF ReaderDevlist, TypeInv
<1> QED
  BY <1>1 DEF ReaderDevlist, Goto, TypeInv, TypeOK, flags, locals, history, At, Threads, AllLabels,
    ReaderLabels

LEMMA ReaderStaticType ==
  ASSUME TypeInv, ReaderKickAll \/ ReaderAddStatic \/ ReaderStaticSent
  PROVE  TypeInv'
<1>1. CASE ReaderKickAll
  BY <1>1 DEF ReaderKickAll, KickedAll, Goto, TypeInv, TypeOK, flags, locals, history, At,
    Threads, AllLabels, ReaderLabels
<1>2. CASE ReaderAddStatic
  <2>1. line + 1 \in 1 .. Len(StaticFile) + 1
    BY <1>2, ChannelAssumption DEF ReaderAddStatic, TypeInv, TypeOK
  <2>2. \A l \in Usable : Append(gateStatic, l) \in Seq(Lines)
    BY ChannelAssumption DEF TypeInv, TypeOK
  <2>3. gateStatic' \in Seq(Lines)
    BY <1>2, <2>2 DEF ReaderAddStatic, TypeInv, TypeOK
  <2> QED
    BY <1>2, <2>1, <2>3 DEF ReaderAddStatic, TypeInv, TypeOK, flags, history, At
<1>3. CASE ReaderStaticSent
  BY <1>3 DEF ReaderStaticSent, Goto, TypeInv, TypeOK, uart, locals, history, At,
    Threads, AllLabels, ReaderLabels
<1> QED
  BY <1>1, <1>2, <1>3

LEMMA ReaderPlainType ==
  ASSUME TypeInv,
         ReaderFlush \/ ReaderDone \/ ReaderCrash \/ ReaderWake \/ ReaderLoop
  PROVE  TypeInv'
<1>1. CASE ReaderFlush
  BY <1>1 DEF ReaderFlush, Goto, TypeInv, TypeOK, flags, locals, history, At, Threads,
    AllLabels, ReaderLabels, Nobody
<1>2. CASE ReaderDone
  BY <1>2 DEF ReaderDone, Goto, TypeInv, TypeOK, uart, flags, locals, history, At, Threads,
    AllLabels, ReaderLabels
<1>3. CASE ReaderCrash
  BY <1>3 DEF ReaderCrash, Goto, TypeInv, TypeOK, uart, flags, locals, history, At, Threads,
    AllLabels, ReaderLabels
<1>4. CASE ReaderWake
  BY <1>4 DEF ReaderWake, ForWhom, Goto, TypeInv, TypeOK, uart, locals, history, At, Threads,
    AllLabels, ReaderLabels
<1>5. CASE ReaderLoop
  BY <1>5 DEF ReaderLoop, Goto, TypeInv, TypeOK, uart, flags, locals, history, At, Threads,
    AllLabels, ReaderLabels
<1> QED
  BY <1>1, <1>2, <1>3, <1>4, <1>5

LEMMA PublisherType ==
  ASSUME TypeInv, PublisherStep PROVE TypeInv'
<1>1. CASE PublisherReceive
  <2>1. Head(msgq) \in Reply /\ Tail(msgq) \in Seq(Reply) /\ Len(Tail(msgq)) = Len(msgq) - 1
    BY <1>1, HeadTailProperties DEF PublisherReceive, TypeInv, TypeOK
  <2> QED
    BY <1>1, <2>1, ChannelAssumption
    DEF PublisherReceive, Goto, TypeInv, TypeOK, uart, flags, locals, history, At, Threads,
      AllLabels, PublisherLabels
<1>2. CASE PublisherSwitch
  <2>1. reply' \in Reply
    BY <1>2 DEF PublisherSwitch, TypeInv, TypeOK, Reply
  <2> QED
    BY <1>2, <2>1
    DEF PublisherSwitch, Goto, TypeInv, TypeOK, uart, flags, history, At, Threads,
      AllLabels, PublisherLabels
<1>3. CASE PublisherParse
  <2>1. [reply EXCEPT !.id = msg_rx.id] \in Reply
    BY DEF TypeInv, TypeOK, Reply
  <2>2. reply' \in Reply /\ served' \in Seq(Reply)
    BY <1>3, <2>1, AppendProperties DEF PublisherParse, TypeInv, TypeOK
  <2> QED
    BY ZenonT(60), <1>3, <2>2
    DEF PublisherParse, Goto, TypeInv, TypeOK, uart, flags, At, Threads,
      AllLabels, PublisherLabels
<1>4. CASE PublisherList
  <2>1. listed' \subseteq 0 .. MaxReplies
    BY <1>4 DEF PublisherList, TypeInv, TypeOK, Reply
  <2> QED
    BY <1>4, <2>1
    DEF PublisherList, Goto, TypeInv, TypeOK, uart, flags, locals, At, Threads,
      AllLabels, PublisherLabels
<1>5. CASE PublisherNotify
  BY <1>5 DEF PublisherNotify, Goto, TypeInv, TypeOK, uart, flags, locals, history, At, Threads,
    AllLabels, PublisherLabels
<1> QED
  BY <1>1, <1>2, <1>3, <1>4, <1>5 DEF PublisherStep

LEMMA MosqType ==
  ASSUME TypeInv, MosqStep PROVE TypeInv'
<1>1. CASE MosqGet
  <2>1. gets \in 0 .. MaxGets /\ gets < MaxGets /\ gets' = gets + 1
    BY <1>1 DEF MosqGet, TypeInv, TypeOK
  <2>2. gets' \in 0 .. MaxGets
    BY <2>1, ChannelAssumption
  <2>3. /\ pc' \in [Threads -> AllLabels] /\ pc'["mosq"] = "devlist"
        /\ pc'["reader"] = pc["reader"] /\ pc'["publisher"] = pc["publisher"]
    BY <1>1 DEF MosqGet, Goto, TypeInv, AllLabels, ReaderLabels, Threads
  <2>4. {list_for_gate', devlist_needed', static_devices_list_sent'} \subseteq BOOLEAN
    BY <1>1 DEF MosqGet, ForWhom, TypeInv, TypeOK
  <2> QED
    BY <1>1, <2>2, <2>3, <2>4 DEF MosqGet, TypeInv, TypeOK, uart, history
<1>2. CASE MosqDevlist
  <2>1. /\ gate' \in Seq(Reply) /\ nextId' \in 0 .. MaxReplies
        /\ origin' \in [1 .. MaxReplies -> {"node", "gate", "mqtt"}]
    BY <1>2, GateListsType DEF MosqDevlist, TypeInv
  <2> QED
    BY <1>2, <2>1 DEF MosqDevlist, Goto, TypeInv, TypeOK, flags, locals, history, At, Threads,
      AllLabels
<1> QED
  BY <1>1, <1>2 DEF MosqStep

LEMMA GateReportsType ==
  ASSUME TypeInv, GateReports PROVE TypeInv'
<1>1. /\ gate' \in Seq(Reply) /\ nextId' \in 0 .. MaxReplies
      /\ origin' \in [1 .. MaxReplies -> {"node", "gate", "mqtt"}]
  BY GateAddsType DEF GateReports, TypeInv, Types
<1> QED
  BY <1>1 DEF GateReports, TypeInv, TypeOK, flags, locals, history

LEMMA NextTypeInv == TypeInv /\ [Next]_vars => TypeInv'
<1> SUFFICES ASSUME TypeInv, [Next]_vars PROVE TypeInv'
  OBVIOUS
<1>1. CASE ReaderStep
  BY <1>1, ReaderReadType, ReaderCopyType, ReaderSendType, ReaderDevlistType,
     ReaderStaticType, ReaderPlainType
  DEF ReaderStep
<1>2. CASE UNCHANGED vars
  BY <1>2 DEF TypeInv, TypeOK, vars, uart, flags, locals, history
<1> QED
  BY <1>1, <1>2, ReaderSendFailsType, PublisherType, MosqType, GateReportsType DEF Next

\* The reader holds mutex_uart exactly while it reads, queue and counters
\* keep their bounds, and what travels is a reply.
THEOREM ChannelTyped == Spec => []TypeOK
<1>1. TypeInv => TypeOK
  BY DEF TypeInv
<1> QED
  BY <1>1, InitTypeInv, NextTypeInv, PTL DEF Spec
-----------------------------------------------------------------------------
(* Order.  While a line is being copied nothing else is in msg_rx, in the  *)
(* queue or in the publisher's hands, unless the buffer was used by both:  *)
(* the halves that are there are those of the line.                        *)

CopyInv ==
  ~overlap =>
    /\ served \o InHand \o msgq = handed
    /\ left # Halves => ~InUse
    /\ "type" \notin left => msg_rx.type = Head(batch).type
    /\ "rest" \notin left => msg_rx.id = Head(batch).id

LEMMA InitCopyInv == Init => CopyInv
BY DEF Init, CopyInv, InHand, Halves, Threads, InUse

LEMMA InHandType ==
  ASSUME TypeInv PROVE InHand \in Seq(Reply)
<1>1. [reply EXCEPT !.id = msg_rx.id] \in Reply
  BY DEF TypeInv, TypeOK, Reply
<1> QED
  BY <1>1 DEF InHand, TypeInv, TypeOK

\* Steps that touch neither replies nor the publisher's place in serve_reply.
LEMMA CopyKept ==
  ASSUME TypeInv, CopyInv, UNCHANGED <<msg_rx, msgq, reply, batch, left, handed, served, overlap>>,
         pc'["publisher"] = pc["publisher"]
  PROVE  CopyInv'
BY DEF CopyInv, InHand, InUse

LEMMA ReaderCopyOrder ==
  ASSUME TypeInv, CopyInv, NEW h \in Halves, ReaderCopy(h) PROVE CopyInv'
<1> SUFFICES ASSUME ~overlap' PROVE CopyInv'
  BY DEF CopyInv
<1>1. ~overlap /\ ~InUse
  BY DEF ReaderCopy, TypeInv, TypeOK
<1>2. InHand' = <<>> /\ InHand = <<>> /\ ~InUse'
  BY <1>1 DEF InUse, InHand, ReaderCopy
<1>3. /\ "type" \notin left' => msg_rx'.type = Head(batch').type
      /\ "rest" \notin left' => msg_rx'.id = Head(batch').id
  BY <1>1 DEF CopyInv, ReaderCopy, Halves, TypeInv, TypeOK, Reply
<1> QED
  BY <1>1, <1>2, <1>3 DEF CopyInv, ReaderCopy

LEMMA ReaderSendOrder ==
  ASSUME TypeInv, CopyInv, ReaderSend PROVE CopyInv'
<1> SUFFICES ASSUME ~overlap PROVE CopyInv'
  BY DEF CopyInv, ReaderSend
<1>1. Head(batch) \in Reply /\ msg_rx = Head(batch)
  <2>1. Head(batch) \in Reply
    BY HeadTailProperties DEF ReaderSend, TypeInv, TypeOK
  <2>2. msg_rx.type = Head(batch).type /\ msg_rx.id = Head(batch).id
    BY DEF CopyInv, ReaderSend
  <2>3. msg_rx \in Reply
    BY DEF TypeInv, TypeOK
  <2> QED
    BY <2>1, <2>2, <2>3 DEF Reply
<1>2. InHand' = InHand /\ msgq' = Append(msgq, msg_rx)
  BY DEF ReaderSend, InHand
<1>3. served \o InHand \o Append(msgq, msg_rx) = Append(served \o InHand \o msgq, msg_rx)
  <2>1. /\ served \in Seq(Reply) /\ msgq \in Seq(Reply) /\ InHand \in Seq(Reply)
        /\ msg_rx \in Reply
    BY InHandType DEF TypeInv, TypeOK
  <2>2. served \o InHand \in Seq(Reply)
    BY <2>1, ConcatProperties
  <2> HIDE DEF InHand
  <2> QED
    BY <2>1, <2>2
<1> QED
  BY <1>1, <1>2, <1>3 DEF CopyInv, ReaderSend, Halves

LEMMA ReaderSendFailsOrder ==
  ASSUME TypeInv, CopyInv, ReaderSendFails PROVE CopyInv'
BY DEF CopyInv, ReaderSendFails, Halves, InHand, InUse, history

LEMMA ReaderReadOrder ==
  ASSUME TypeInv, CopyInv, ReaderRead PROVE CopyInv'
<1>1. left = Halves /\ left' = Halves
  BY DEF ReaderRead, At, TypeInv, TypeOK
<1>2. pc'["publisher"] = pc["publisher"]
  BY DEF ReaderRead, Goto, TypeInv, Threads
<1> QED
  BY <1>1, <1>2 DEF ReaderRead, CopyInv, InHand, InUse, history, Halves

LEMMA ReceiveOrder ==
  ASSUME TypeInv, CopyInv, PublisherReceive PROVE CopyInv'
<1> SUFFICES ASSUME ~overlap PROVE CopyInv'
  BY DEF CopyInv, PublisherReceive, history
<1>1. left = Halves
  BY DEF CopyInv, PublisherReceive, InUse
<1>2. InHand = <<>> /\ InHand' = <<Head(msgq)>>
  BY DEF PublisherReceive, InHand, At, Goto, TypeInv, Threads
<1>3. served \o <<>> \o msgq = served \o <<Head(msgq)>> \o Tail(msgq)
  <2>1. served \in Seq(Reply) /\ msgq \in Seq(Reply) /\ msgq # <<>>
    BY DEF TypeInv, TypeOK, PublisherReceive
  <2> QED
    BY <2>1
<1> QED
  BY <1>1, <1>2, <1>3 DEF CopyInv, PublisherReceive, Halves, locals, history

LEMMA SwitchOrder ==
  ASSUME TypeInv, CopyInv, PublisherSwitch PROVE CopyInv'
<1>1. InHand = <<msg_rx>>
  BY DEF PublisherSwitch, InHand, At
<1>2. pc'["publisher"] = "switch"
  BY DEF PublisherSwitch, Goto, TypeInv, Threads
<1>3. [reply' EXCEPT !.id = msg_rx'.id] = msg_rx
  BY DEF PublisherSwitch, TypeInv, TypeOK, Reply
<1>4. InHand' = <<msg_rx>>
  BY <1>2, <1>3 DEF InHand
<1> QED
  BY <1>1, <1>2, <1>4 DEF CopyInv, PublisherSwitch, InUse, At, history

LEMMA ParseOrder ==
  ASSUME TypeInv, CopyInv, PublisherParse PROVE CopyInv'
<1> SUFFICES ASSUME ~overlap PROVE CopyInv'
  BY DEF CopyInv, PublisherParse
<1> DEFINE r == [reply EXCEPT !.id = msg_rx.id]
<1>1. InHand = <<r>> /\ served' = Append(served, r)
  BY DEF PublisherParse, InHand, At
<1>2. InHand' = <<>>
  BY DEF PublisherParse, Goto, InHand, TypeInv, Threads
<1>3. served \o <<r>> = Append(served, r) \o <<>>
  <2>1. served \in Seq(Reply) /\ r \in Reply
    BY DEF TypeInv, TypeOK, Reply
  <2> HIDE DEF r
  <2> QED
    BY <2>1
<1>4. left = Halves
  BY DEF CopyInv, PublisherParse, InUse, At
<1> HIDE DEF r
<1> QED
  BY <1>1, <1>2, <1>3, <1>4 DEF CopyInv, PublisherParse, Halves

LEMMA NextCopyInv == TypeInv /\ CopyInv /\ [Next]_vars => CopyInv'
<1> SUFFICES ASSUME TypeInv, CopyInv, [Next]_vars PROVE CopyInv'
  OBVIOUS
<1>1. CASE ReaderFlush \/ ReaderDone \/ ReaderCrash \/ ReaderWake \/ ReaderDevlist
  BY <1>1, CopyKept
  DEF ReaderFlush, ReaderDone, ReaderCrash, ReaderWake, ReaderDevlist, Goto, locals, history,
    TypeInv, Threads
<1>2. CASE ReaderKickAll \/ ReaderAddStatic \/ ReaderStaticSent \/ ReaderLoop
  BY <1>2, CopyKept
  DEF ReaderKickAll, ReaderAddStatic, ReaderStaticSent, ReaderLoop, Goto, locals, history,
    TypeInv, Threads
<1>3. CASE MosqStep \/ GateReports \/ UNCHANGED vars
  BY <1>3, CopyKept
  DEF MosqStep, MosqGet, MosqDevlist, GateReports, Goto, vars, locals, history, TypeInv, Threads
<1>4. CASE PublisherList \/ PublisherNotify
  <2>1. pc["publisher"] \notin {"serve", "switch"} /\ pc'["publisher"] = "wait"
    BY <1>4 DEF PublisherList, PublisherNotify, At, Goto, TypeInv, Threads
  <2> QED
    BY <1>4, <2>1 DEF PublisherList, PublisherNotify, CopyInv, InHand, InUse, locals, history
<1>5. CASE \E h \in Halves : ReaderCopy(h)
  BY <1>5, ReaderCopyOrder
<1> QED
  BY <1>1, <1>2, <1>3, <1>4, <1>5, ReaderSendOrder, ReaderSendFailsOrder, ReaderReadOrder,
     ReceiveOrder, SwitchOrder, ParseOrder
  DEF Next, ReaderStep, PublisherStep

\* msg_rx is the only race: as long as its two users do not overlap, what
\* msgsnd took is served once each, whole and in order.
THEOREM RepliesInOrder == Spec => []InOrder
<1>1. TypeInv /\ CopyInv => InOrder
  BY DEF CopyInv, InOrder
<1> QED
  BY <1>1, InitTypeInv, NextTypeInv, InitCopyInv, NextCopyInv, PTL DEF Spec

-----------------------------------------------------------------------------
(* The static devices.  The list grows line by line along the accumulators *)
(* of the fold that defines the usable lines of the file.                  *)

Collect(c, lines, l) == WithUsable(lines, l)
AnyLines(c, k, lines) == TRUE
Fil == INSTANCE FoldInduction WITH Op <- Collect, Inv <- AnyLines

\* The usable lines among the first 0, 1, 2, ... of the file.
FirstUsable == CHOOSE h : Fil!Steps(0, <<>>, StaticFile, Len(StaticFile), h)

StaticInv ==
  /\ pc["reader"] = "lines" => ~static_devices_list_sent /\ gateStatic = FirstUsable[line - 1]
  /\ pc["reader"] # "lines" /\ ~static_devices_list_sent => line = 1
  /\ static_devices_list_sent => gateStatic = UsableLines

LEMMA FirstUsableIs ==
  /\ FirstUsable[0] = <<>>
  /\ \A k \in 1 .. Len(StaticFile) : FirstUsable[k] = WithUsable(FirstUsable[k - 1], StaticFile[k])
  /\ FirstUsable[Len(StaticFile)] = UsableLines
<1> DEFINE n == Len(StaticFile)
<1>1. n \in Nat /\ DOMAIN StaticFile = 1 .. n
  BY ChannelAssumption, LenProperties
<1>2. \E h : Fil!Steps(0, <<>>, StaticFile, n, h)
  <2> HIDE DEF n
  <2> QED
    BY <1>1, Fil!LeftSteps
<1>3. Fil!Steps(0, <<>>, StaticFile, n, FirstUsable)
  BY <1>2 DEF FirstUsable
<1>4. Fil!Left(0, <<>>, StaticFile) = UsableLines
  BY DEF Fil!Left, Collect, UsableLines, FoldLeft,
    MapThenFoldSet, Max
<1>5. \A k \in 1 .. n : k - 1 \in 0 .. (n - 1) /\ (k - 1) + 1 = k
  BY <1>1
<1> HIDE DEF n
<1> QED
  BY <1>3, <1>4, <1>5 DEF Fil!Steps, Collect, n

LEMMA StaticStep == ASSUME TypeInv, StaticInv, [Next]_vars PROVE StaticInv'
<1>1. line \in 1 .. Len(StaticFile) + 1 /\ Len(StaticFile) \in Nat
  BY ChannelAssumption DEF TypeInv, TypeOK
<1>2. CASE UNCHANGED <<gateStatic, line, static_devices_list_sent>>
           /\ (pc'["reader"] = "lines" <=> pc["reader"] = "lines")
  BY <1>2 DEF StaticInv
<1>3. CASE ReaderKickAll
  BY <1>3, FirstUsableIs DEF ReaderKickAll, KickedAll, At, Goto, TypeInv, StaticInv, flags, locals,
    Threads
<1>4. CASE ReaderAddStatic
  <2>1. line' = line + 1 /\ line \in 1 .. Len(StaticFile) /\ pc["reader"] = "lines"
        /\ UNCHANGED <<pc, static_devices_list_sent>>
    BY <1>1, <1>4 DEF ReaderAddStatic, At, flags
  <2>2. gateStatic' = WithUsable(gateStatic, StaticFile[line])
    BY <1>4 DEF ReaderAddStatic, WithUsable
  <2>3. gateStatic' = FirstUsable[line] /\ line' - 1 = line
    BY <1>1, <2>1, <2>2, FirstUsableIs DEF StaticInv
  <2> QED
    BY <2>1, <2>3 DEF StaticInv
<1>5. CASE ReaderStaticSent
  <2>1. line = Len(StaticFile) + 1 /\ line - 1 = Len(StaticFile) /\ pc["reader"] = "lines"
        /\ gateStatic' = gateStatic /\ pc'["reader"] = "poll" /\ static_devices_list_sent'
    BY <1>1, <1>5 DEF ReaderStaticSent, At, Goto, uart, TypeInv, Threads
  <2> QED
    BY <2>1, FirstUsableIs DEF StaticInv
<1>6. CASE ReaderFlush \/ ReaderRead \/ (\E h \in Halves : ReaderCopy(h)) \/ ReaderSend \/ ReaderDone
  BY <1>2, <1>6 DEF ReaderFlush, ReaderRead, ReaderCopy, ReaderSend, ReaderDone, At, Goto, TypeInv,
    Threads, uart, flags, locals, history
<1>7. CASE ReaderCrash \/ ReaderWake \/ ReaderDevlist \/ ReaderLoop \/ ReaderSendFails
  BY <1>2, <1>7 DEF ReaderCrash, ReaderWake, ReaderDevlist, ReaderLoop, ReaderSendFails, ForWhom, At,
    Goto, TypeInv, Threads, uart, flags, locals, history
<1>8. CASE PublisherStep
  BY <1>2, <1>8 DEF PublisherStep, PublisherReceive, PublisherSwitch, PublisherParse, PublisherList,
    PublisherNotify, At, Goto, TypeInv, Threads, uart, flags, locals, history
<1>9. CASE MosqStep \/ GateReports \/ UNCHANGED vars
  BY <1>2, <1>9 DEF MosqStep, MosqGet, MosqDevlist, ForWhom, GateReports, At, Goto, TypeInv, Threads,
    vars, uart, flags, locals, history
<1> QED
  BY <1>3, <1>4, <1>5, <1>6, <1>7, <1>8, <1>9 DEF Next, ReaderStep

\* Once the static devices are sent, the gate knows exactly the usable lines
\* of the file, each once and in order, whatever file it is, whatever the gate
\* knew before and whoever takes the UART in between (mqtt.c:866-909, 967-970).
THEOREM StaticDevicesSent == Spec => []StaticListExact
<1>1. Init => StaticInv
  BY DEF Init, StaticInv, Threads
<1>2. StaticInv => StaticListExact
  BY DEF StaticInv, StaticListExact
<1> QED
  BY <1>1, <1>2, InitTypeInv, NextTypeInv, StaticStep, PTL DEF Spec
=============================================================================
