---------------------------- MODULE ReplyChannel ----------------------------
(***************************************************************************)
(* The uplink side of the LoRa gateway daemon (LORA/lora-mqtt/mqtt.c): how *)
(* a reply of the gate travels from the UART to serve_reply                *)
(*                                                                         *)
(*   reader     uart_reader: polls the UART, cuts what it read into lines, *)
(*              hands each to the System V message queue; at start-up it   *)
(*              asks for the devices list and sends the static devices     *)
(*   publisher  takes replies from the queue and serves them               *)
(*   mosq       devices/lora/get: the devices list on request              *)
(*                                                                         *)
(* The reader fills, and the publisher receives into and parses, the same  *)
(* global msg_rx, without a lock.  A reply is reduced to two halves, its   *)
(* type (str[0]) and the rest, named by the reply's number: accesses to    *)
(* msg_rx are split where the halves can come from different replies.      *)
(* PendingPool models what serve_reply does to the pool.                   *)
(***************************************************************************)
EXTENDS Integers, SequencesExt

CONSTANTS
  Lines,          \* lines of the static devices file
  Usable,         \* those that are no comment and at least 54 long
  StaticFile,     \* the file
  QueueMax,       \* messages the kernel's queue holds (msg_qbytes)
  CutLines,       \* whether a read may end within a line (0.5 s of silence)
  MsgsndFails,    \* whether msgsnd may return an error
  MaxReplies,     \* bound: replies of the gate in a behaviour
  MaxGets         \* bound: MQTT requests of the devices list

ASSUME ChannelAssumption ==
  /\ Usable \subseteq Lines /\ StaticFile \in Seq(Lines)
  /\ QueueMax \in Nat \ {0} /\ MaxReplies \in Nat /\ MaxGets \in Nat
  /\ CutLines \in BOOLEAN /\ MsgsndFails \in BOOLEAN

VARIABLES
  mutex_uart,       \* the thread that holds it, or Nobody
  msg_rx,           \* the shared buffer
  msgq,             \* the queue msgqid
  list_for_gate, devlist_needed, static_devices_list_sent,
  pc,               \* [Threads -> Labels]
  batch, cut,       \* reader: lines not handed over yet; the last is cut off
  left,             \* reader: halves of the line not yet in msg_rx
  line,             \* reader: position in the static devices file
  reply,            \* publisher: the type it switched on and the rest
  gate,             \* replies the gate has for the next CMD_FLUSH
  gateStatic,       \* static devices the gate knows
  nextId, origin,   \* replies so far; who asked for each
  gets,             \* MQTT requests so far
  handed, served,   \* history: lines msgsnd took, replies served
  listed,           \* history: list replies published
  overlap           \* history: msg_rx was filled while it was in use

uart    == <<mutex_uart, gate, gateStatic, nextId, origin>>
flags   == <<list_for_gate, devlist_needed, static_devices_list_sent>>
locals  == <<batch, cut, left, line, reply, gets>>
history == <<handed, served, listed, overlap>>
vars    == <<uart, msg_rx, msgq, flags, pc, locals, history>>

Threads == {"reader", "publisher", "mosq"}
Nobody  == "nobody"

\* NODE stands for every reply about one node; a join is one of them.
Types == {"LIST", "NODE"}
Reply == [type : Types \cup {"NONE"}, id : 0 .. MaxReplies]

NoReply == [type |-> "NONE", id |-> 0]
Halves  == {"type", "rest"}

Init ==
  /\ mutex_uart = Nobody
  /\ msg_rx = NoReply /\ msgq = <<>>
  /\ list_for_gate = FALSE /\ devlist_needed = TRUE
  /\ static_devices_list_sent = FALSE
  /\ pc = [t \in Threads |-> CASE t = "reader" -> "poll"
                             [] t = "publisher" -> "wait"
                             [] t = "mosq" -> "idle"]
  /\ batch = <<>> /\ cut = FALSE /\ left = Halves /\ line = 1
  /\ reply = NoReply
  \* The gate outlives the daemon: it may know static devices already.
  /\ gate = <<>> /\ gateStatic \in {<<>>} \cup {<<l>> : l \in Usable}
  /\ nextId = 0 /\ origin = [k \in 1 .. MaxReplies |-> "node"] /\ gets = 0
  /\ handed = <<>> /\ served = <<>> /\ listed = {}
  /\ overlap = FALSE

\* Thread t of the running process is at l; it continues at l.
At(t, l)   == pc["reader"] # "crashed" /\ pc[t] = l
Goto(t, l) == pc' = [pc EXCEPT ![t] = l]

-----------------------------------------------------------------------------
(* The gate (external): it collects replies and writes them on CMD_FLUSH.  *)

GateAdds(type, who) ==
  /\ nextId < MaxReplies
  /\ nextId' = nextId + 1
  /\ gate' = Append(gate, [type |-> type, id |-> nextId + 1])
  /\ origin' = [origin EXCEPT ![nextId + 1] = who]

\* News of a node.  Only a read sees what the gate holds, and one may leave
\* any of it for the next: that it comes while the reader reads loses nothing.
GateReports ==
  /\ At("reader", "reading")
  /\ GateAdds("NODE", "node")
  /\ UNCHANGED <<mutex_uart, gateStatic, msg_rx, msgq, flags, pc, locals,
                 history>>

\* The answer to CMD_DEVLIST: the devices that have joined, if any.
GateLists(who) ==
  GateAdds("LIST", who) \/ UNCHANGED <<nextId, gate, origin>>

-----------------------------------------------------------------------------
(* reader: one turn of the loop of uart_reader                             *)

ReaderFlush ==
  /\ At("reader", "poll") /\ mutex_uart = Nobody
  /\ mutex_uart' = "reader"
  /\ Goto("reader", "reading")
  /\ UNCHANGED <<gate, gateStatic, nextId, origin, msg_rx, msgq, flags, locals,
                 history>>

\* Mutant: the lock is released only when nothing was read.
ReaderReleaseEmpty == mutex_uart' = IF batch' = <<>> THEN Nobody ELSE "reader"

\* read returns 0 after half a second of silence; the lock is released.
ReaderRelease == mutex_uart' = Nobody

ReaderRead ==
  /\ At("reader", "reading")
  /\ \E k \in 0 .. Len(gate) :
       /\ batch' = SubSeq(gate, 1, k)
       /\ gate' = SubSeq(gate, k + 1, Len(gate))
       /\ cut' \in {FALSE, CutLines /\ k > 0}
       /\ Goto("reader", IF k = 0 THEN "nap" ELSE "token")
  /\ ReaderRelease
  /\ UNCHANGED <<gateStatic, nextId, origin, msg_rx, msgq, flags, left, line,
                 reply, gets, history>>

\* The publisher still needs msg_rx, or will have it filled.
InUse == msgq # <<>> \/ pc["publisher"] \in {"serve", "switch"}

\* memcpy of the next line, in two halves, in either order.
ReaderCopy(h) ==
  /\ At("reader", "token") /\ batch # <<>> /\ h \in left
  /\ msg_rx' = IF h = "type" THEN [msg_rx EXCEPT !.type = Head(batch).type]
                             ELSE [msg_rx EXCEPT !.id = Head(batch).id]
  /\ left' = left \ {h}
  /\ overlap' = (overlap \/ InUse)
  /\ UNCHANGED <<uart, msgq, flags, pc, batch, cut, line, reply, gets, handed,
                 served, listed>>

\* Mutant: msgsnd comes before the copy is complete.
ReaderSendEarly ==
  /\ At("reader", "token") /\ batch # <<>> /\ left # Halves
  /\ Len(msgq) < QueueMax
  /\ msgq' = Append(msgq, msg_rx)
  /\ handed' = Append(handed, Head(batch))
  /\ batch' = Tail(batch) /\ left' = Halves
  /\ UNCHANGED <<uart, msg_rx, flags, pc, cut, line, reply, gets, served,
                 listed, overlap>>

\* msgsnd blocks while the queue is full.
ReaderSend ==
  /\ At("reader", "token") /\ batch # <<>> /\ left = {}
  /\ Len(msgq) < QueueMax
  /\ msgq' = Append(msgq, msg_rx)
  /\ handed' = Append(handed, Head(batch))
  /\ batch' = Tail(batch) /\ left' = Halves
  /\ UNCHANGED <<uart, msg_rx, flags, pc, cut, line, reply, gets, served,
                 listed, overlap>>

\* msgsnd fails: the line is dropped.
ReaderSendFails ==
  /\ MsgsndFails
  /\ At("reader", "token") /\ batch # <<>> /\ left = {}
  /\ batch' = Tail(batch) /\ left' = Halves
  /\ UNCHANGED <<uart, msg_rx, msgq, flags, pc, cut, line, reply, gets,
                 history>>

\* The empty token behind the last '\n' ends the loop.
ReaderDone ==
  /\ At("reader", "token") /\ batch = <<>> /\ ~cut
  /\ Goto("reader", "nap")
  /\ UNCHANGED <<uart, msg_rx, msgq, flags, locals, history>>

\* Without it, after the piece of a line is handed over like a whole one,
\* strsep returns NULL and strlen(NULL) ends the process.
ReaderCrash ==
  /\ At("reader", "token") /\ batch = <<>> /\ cut
  /\ Goto("reader", "crashed")
  /\ UNCHANGED <<uart, msg_rx, msgq, flags, locals, history>>

\* The first statement of devices_list, before it waits for mutex_uart.
ForWhom(internal) == list_for_gate' = internal

ReaderWake ==
  /\ At("reader", "nap")
  /\ devlist_needed' = FALSE
  /\ IF devlist_needed
     THEN ForWhom(TRUE) /\ Goto("reader", "devlist")
     ELSE UNCHANGED list_for_gate /\ Goto("reader", "static")
  /\ UNCHANGED <<uart, msg_rx, msgq, static_devices_list_sent, locals, history>>

ReaderDevlist ==
  /\ At("reader", "devlist") /\ mutex_uart = Nobody
  /\ GateLists("gate")
  /\ Goto("reader", "static")
  /\ UNCHANGED <<mutex_uart, gateStatic, msg_rx, msgq, flags, locals, history>>

\* Mutant: the list is sent without CMD_KICK_ALL_STATIC.
KickedNone == gateStatic

\* What the gate knows after CMD_KICK_ALL_STATIC.
KickedAll == <<>>

\* send_static_devices_list, once.
ReaderKickAll ==
  /\ At("reader", "static") /\ ~static_devices_list_sent
  /\ mutex_uart = Nobody
  /\ gateStatic' = KickedAll
  /\ Goto("reader", "lines")
  /\ UNCHANGED <<mutex_uart, gate, nextId, origin, msg_rx, msgq, flags, locals,
                 history>>

ReaderAddStatic ==
  /\ At("reader", "lines") /\ line <= Len(StaticFile)
  /\ IF StaticFile[line] \in Usable
     THEN mutex_uart = Nobody /\ gateStatic' = Append(gateStatic, StaticFile[line])
     ELSE UNCHANGED gateStatic
  /\ line' = line + 1
  /\ UNCHANGED <<mutex_uart, gate, nextId, origin, msg_rx, msgq, flags, pc,
                 batch, cut, left, reply, gets, history>>

ReaderStaticSent ==
  /\ At("reader", "lines") /\ line > Len(StaticFile)
  /\ static_devices_list_sent' = TRUE
  /\ Goto("reader", "poll")
  /\ UNCHANGED <<uart, msg_rx, msgq, list_for_gate, devlist_needed, locals,
                 history>>

ReaderLoop ==
  /\ At("reader", "static") /\ static_devices_list_sent
  /\ Goto("reader", "poll")
  /\ UNCHANGED <<uart, msg_rx, msgq, flags, locals, history>>

-----------------------------------------------------------------------------
(* publisher                                                               *)

PublisherReceive ==
  /\ At("publisher", "wait") /\ msgq # <<>>
  /\ msg_rx' = Head(msgq) /\ msgq' = Tail(msgq)
  /\ Goto("publisher", "serve")
  /\ UNCHANGED <<uart, flags, locals, history>>

\* serve_reply switches on the first character ...
PublisherSwitch ==
  /\ At("publisher", "serve")
  /\ reply' = [reply EXCEPT !.type = msg_rx.type]
  /\ Goto("publisher", "switch")
  /\ UNCHANGED <<uart, msg_rx, msgq, flags, batch, cut, left, line, gets,
                 history>>

\* ... and parses the rest.  A join, once published, may need the UART to
\* tell the gate about pending frames; other replies about nodes do not.
PublisherParse ==
  /\ At("publisher", "switch")
  /\ LET r == [reply EXCEPT !.id = msg_rx.id]
     IN  /\ reply' = r
         /\ served' = Append(served, r)
         /\ \/ r.type = "LIST" /\ Goto("publisher", "list")
            \/ r.type # "LIST" /\ Goto("publisher", "wait")
            \/ r.type = "NODE" /\ Goto("publisher", "notify")
  /\ UNCHANGED <<uart, msg_rx, msgq, flags, batch, cut, left, line, gets,
                 handed, listed, overlap>>

\* A list reply is published, unless the pool is full and add_device fails
\* or the list was for the gate.
PublisherList ==
  /\ At("publisher", "list")
  /\ \/ UNCHANGED listed
     \/ ~list_for_gate /\ listed' = listed \cup {reply.id}
  /\ Goto("publisher", "wait")
  /\ UNCHANGED <<uart, msg_rx, msgq, flags, locals, handed, served, overlap>>

PublisherNotify ==
  /\ At("publisher", "notify") /\ mutex_uart = Nobody
  /\ Goto("publisher", "wait")
  /\ UNCHANGED <<uart, msg_rx, msgq, flags, locals, history>>

-----------------------------------------------------------------------------
(* mosq: devices/lora/get                                                  *)

MosqGet ==
  /\ At("mosq", "idle") /\ gets < MaxGets
  /\ gets' = gets + 1
  /\ ForWhom(FALSE)
  /\ Goto("mosq", "devlist")
  /\ UNCHANGED <<uart, msg_rx, msgq, devlist_needed, static_devices_list_sent,
                 batch, cut, left, line, reply, history>>

MosqDevlist ==
  /\ At("mosq", "devlist") /\ mutex_uart = Nobody
  /\ GateLists("mqtt")
  /\ Goto("mosq", "idle")
  /\ UNCHANGED <<mutex_uart, gateStatic, msg_rx, msgq, flags, locals, history>>

-----------------------------------------------------------------------------
ReaderStep ==
  \/ ReaderFlush \/ ReaderRead \/ \E h \in Halves : ReaderCopy(h)
  \/ ReaderSend \/ ReaderDone \/ ReaderCrash
  \/ ReaderWake \/ ReaderDevlist
  \/ ReaderKickAll \/ ReaderAddStatic \/ ReaderStaticSent \/ ReaderLoop

PublisherStep ==
  \/ PublisherReceive \/ PublisherSwitch \/ PublisherParse
  \/ PublisherList \/ PublisherNotify

MosqStep == MosqGet \/ MosqDevlist

Next == GateReports \/ ReaderStep \/ ReaderSendFails \/ PublisherStep \/ MosqStep

Spec == Init /\ [][Next]_vars

-----------------------------------------------------------------------------
(* Safety                                                                  *)

ReaderLabels    == {"poll", "reading", "token", "nap", "devlist", "static",
                    "lines", "crashed"}
PublisherLabels == {"wait", "serve", "switch", "list", "notify"}

\* Types; mutex_uart is held across steps by the reader alone, while it
\* reads; a line is copied only when there is one.
TypeOK ==
  /\ mutex_uart = IF pc["reader"] = "reading" THEN "reader" ELSE Nobody
  /\ msg_rx \in Reply /\ reply \in Reply
  /\ msgq \in Seq(Reply) /\ Len(msgq) <= QueueMax
  /\ {list_for_gate, devlist_needed, static_devices_list_sent} \subseteq BOOLEAN
  /\ pc["reader"] \in ReaderLabels /\ pc["publisher"] \in PublisherLabels
  /\ pc["mosq"] \in {"idle", "devlist"}
  /\ batch \in Seq(Reply) /\ cut \in BOOLEAN
  /\ left \subseteq Halves /\ (left # Halves => batch # <<>>)
  /\ line \in 1 .. Len(StaticFile) + 1
  /\ gate \in Seq(Reply) /\ gateStatic \in Seq(Lines)
  /\ nextId \in 0 .. MaxReplies /\ gets \in 0 .. MaxGets
  /\ origin \in [1 .. MaxReplies -> {"node", "gate", "mqtt"}]
  /\ handed \in Seq(Reply) /\ served \in Seq(Reply)
  /\ listed \subseteq 0 .. MaxReplies
  /\ overlap \in BOOLEAN

\* What the publisher has received and not yet parsed.
InHand ==
  CASE pc["publisher"] = "serve"  -> <<msg_rx>>
    [] pc["publisher"] = "switch" -> <<[reply EXCEPT !.id = msg_rx.id]>>
    [] OTHER -> <<>>

\* The race on msg_rx (mqtt.c:838, 842, 944-948) is the only one: as long as
\* the reader does not fill msg_rx while it is in use, replies are served
\* once each, whole, and in the order in which they were handed over.
InOrder == ~overlap => served \o InHand \o msgq = handed

\* The usable lines of the file, in its order.
WithUsable(lines, l) == IF l \in Usable THEN Append(lines, l) ELSE lines
UsableLines == FoldLeft(WithUsable, <<>>, StaticFile)

\* Once the static devices are sent, the gate knows the usable lines of the
\* file, each once and in order, whatever it knew before the daemon started
\* (send_static_devices_list, mqtt.c:866-909, 967-970).
StaticListExact ==
  static_devices_list_sent => gateStatic = UsableLines

-----------------------------------------------------------------------------
(* What the documentation says and the code does not do                    *)

\* "All recognized messages from the LoRa network ... are published as MQTT
\* messages" (README.md:6): when nothing is on its way, all that was handed
\* over has been served.
AllServed ==
  msgq = <<>> /\ pc["publisher"] = "wait" => served = handed

\* "The devices list is requested for gate needs, so don't post in MQTT it's
\* results" (mqtt.c:116): the answers to the list uart_reader asks for at
\* start-up are not published.
InternalListQuiet ==
  \A k \in listed \ {0} : origin[k] # "gate"

-----------------------------------------------------------------------------
(* Liveness.  Threads run, and one that waits for mutex_uart gets it in    *)
(* the 100 ms the reader sleeps between two polls.  Nothing makes msgsnd   *)
(* fail, so no failure gets the reader past a full queue.                  *)

Fairness ==
  /\ WF_vars(ReaderStep) /\ WF_vars(PublisherStep)
  /\ SF_vars(PublisherNotify) /\ SF_vars(MosqDevlist)

FairSpec == Spec /\ Fairness


=============================================================================
