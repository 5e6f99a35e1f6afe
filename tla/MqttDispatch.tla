---------------------------- MODULE MqttDispatch ----------------------------
(***************************************************************************)
(* The MQTT side of the daemon LORA/lora-mqtt: my_message_callback turns   *)
(* commands into frames, serve_reply turns replies of motes into           *)
(* publications, and the daemon's subscription devices/lora/# brings its   *)
(* own publications back to it.                                            *)
(*                                                                         *)
(* What happens to a frame afterwards is the subject of PendingPool.       *)
(***************************************************************************)
EXTENDS UmdkReplies

CONSTANTS
    Commands,     \* what clients publish: [type, c, route] with c a command and
                  \* route [third, path, qos], path the levels in front of the type
    Readings,     \* what motes report: [type, data, truth], truth the measured values
    Nodes,        \* addresses of motes, as sequences of EuiDigits digits
    EuiDigits,    \* digits of an address in the gate's replies (16)
    Options,      \* configurations: [sepio, qos, retain]
    MaxClient,    \* how often clients publish
    MaxReports,   \* how often motes report
    MaxOutages    \* how often the connection to the broker breaks

ASSUME DispatchAssumption ==
    /\ EuiDigits \in Nat /\ EuiDigits % 2 = 0
    /\ \A n \in Nodes : Len(n) = EuiDigits
    /\ \A o \in Options : o.qos \in 0..2             \* mosquitto_publish refuses others
    /\ \A cmd \in Commands : cmd.route.qos \in 0..2
    /\ {MaxClient, MaxReports, MaxOutages} \subseteq Nat

VARIABLES
    opts,         \* mqtt_sepio, mqtt_qos, mqtt_retain
    conn,         \* "down", "up" or "subscribed"
    inbox,        \* what the broker has for the daemon
    retained,     \* the daemon's retained publications, at the broker
    known,        \* nodes with a record in the pool
    sent,         \* history: frames handed to message_to_mote or broadcast
    published,    \* history: the daemon's publications
    quota         \* what clients, motes and the network may still do

vars == <<opts, conn, inbox, retained, known, sent, published, quota>>

(* A topic below devices/lora: its third level is an address, "*", "get"   *)
(* or absent, and rest are the levels behind it.                           *)
Topic(third, addr, rest) == [third |-> third, addr |-> addr, rest |-> rest]

(* The payload of a publication by the daemon, as a command parser sees it.*)
JsonText == [op |-> "{", sp |-> TRUE, args |-> <<>>, words |-> <<>>, hex |-> <<>>]

(* The number of a node: eight bytes filled from the end of the text.      *)
NodeId(addr) ==
    LET b == hex_to_bytes(addr, TRUE)
    IN FoldLeftDomain(LAMBDA acc, i : acc + b[i] * 256^(i - 1), 0, b)
-----------------------------------------------------------------------------
Init ==
    /\ opts \in Options
    /\ conn = "up"
    /\ inbox = <<>>
    /\ retained = <<>>
    /\ known = {}
    /\ sent = <<>>
    /\ published = <<>>
    /\ quota = [client |-> MaxClient, reports |-> MaxReports, outages |-> MaxOutages]

(* External: the broker passes a publication to the daemon's subscription, *)
(* which asks for QoS 2, at the publisher's QoS.  libmosquitto gives the   *)
(* message a mid unless its QoS is 0.                                      *)
Delivery(topic, c, qos, own) ==
    [topic |-> topic, c |-> c, mid |-> qos, own |-> own]

Delivered(queue, d) == IF conn = "subscribed" THEN Append(queue, d) ELSE queue

(* External: a client publishes a command.                                 *)
ClientPublish ==
    /\ quota.client > 0
    /\ \E cmd \in Commands, n \in Nodes :
          inbox' = Delivered(inbox, Delivery(
                       Topic(cmd.route.third, n, Append(cmd.route.path, cmd.type)),
                       cmd.c, cmd.route.qos, FALSE))
    /\ quota' = [quota EXCEPT !.client = @ - 1]
    /\ UNCHANGED <<opts, conn, retained, known, sent, published>>

(* publish_mqtt_message: the topic is the address text, then miso/ with    *)
(* separate directions.  The broker keeps it when mqtt_retain is set, and  *)
(* hands it back to the daemon behind what is queued for it.               *)
publish_mqtt_message(queue, addr, levels, msg, truth) ==
    LET rest == IF opts.sepio THEN <<"miso">> \o levels ELSE levels
        d    == Delivery(Topic("addr", addr, rest), JsonText, opts.qos, TRUE)
    IN /\ published' = Append(published, [addr |-> addr, msg |-> msg, truth |-> truth])
       /\ inbox' = Delivered(queue, d)
       /\ retained' = IF opts.retain /\ conn # "down" THEN Append(retained, d) ELSE retained
-----------------------------------------------------------------------------
(* my_message_callback: the levels up to the first empty one.              *)
Level(topic, i) ==
    IF i <= Len(topic.rest) /\ \A j \in 1..i : topic.rest[j] # "" THEN topic.rest[i] ELSE ""

AddressedModuleAnyMid(d) ==    \* Mutant: the filter of the daemon's own messages is gone
    IF Level(d.topic, 1) = "" \/ (opts.sepio /\ Level(d.topic, 1) # "mosi") THEN ""
    ELSE Level(d.topic, IF opts.sepio THEN 2 ELSE 1)

(* my_message_callback, up to the call of convert_from: the module that is *)
(* addressed, or "" when the message is ignored.                           *)
AddressedModule(d) ==
    IF \/ d.mid # 0
       \/ Level(d.topic, 1) = ""
       \/ d.topic.third = "addr" /\ hex_to_bytes(d.topic.addr, TRUE) = Nothing
       \/ opts.sepio /\ Level(d.topic, 1) # "mosi"
    THEN ""
    ELSE Level(d.topic, IF opts.sepio THEN 2 ELSE 1)

InPoolAlways(addr) == TRUE     \* Mutant: a node that is not found is not noticed

(* pending_to_nodeid                                                       *)
InPool(addr) == NodeId(addr) \in known

(* The message is dropped: foreign mid, unusable address, wrong direction, *)
(* or a module without commands.                                           *)
CallbackIgnores ==
    /\ conn = "subscribed"
    /\ inbox # <<>>
    /\ convert_from(AddressedModule(Head(inbox)), Head(inbox).c) = {}
    /\ inbox' = Tail(inbox)
    /\ UNCHANGED <<opts, conn, retained, known, sent, published, quota>>

(* message_broadcast                                                       *)
CallbackBroadcast ==
    /\ conn = "subscribed"
    /\ inbox # <<>>
    /\ Head(inbox).topic.third = "*"
    /\ \E frame \in convert_from(AddressedModule(Head(inbox)), Head(inbox).c) :
          sent' = Append(sent, [frame |-> frame, to |-> -1, by |-> Head(inbox)])
    /\ inbox' = Tail(inbox)
    /\ UNCHANGED <<opts, conn, retained, known, published, quota>>

(* message_to_mote for a node of the pool.                                 *)
CallbackSends ==
    /\ conn = "subscribed"
    /\ inbox # <<>>
    /\ Head(inbox).topic.third = "addr"
    /\ InPool(Head(inbox).topic.addr)
    /\ \E frame \in convert_from(AddressedModule(Head(inbox)), Head(inbox).c) :
          sent' = Append(sent, [frame |-> frame, to |-> NodeId(Head(inbox).topic.addr),
                                by |-> Head(inbox)])
    /\ inbox' = Tail(inbox)
    /\ UNCHANGED <<opts, conn, retained, known, published, quota>>

(* message_to_mote for an unknown node: a notice is published under the    *)
(* address as PRIx64 prints it, and the node is added to the pool.         *)
CallbackInvites ==
    /\ conn = "subscribed"
    /\ inbox # <<>>
    /\ LET d == Head(inbox)
           n == NodeId(d.topic.addr)
           pairs == <<<<"sent", Plain(2)>>, <<"message", Text("node not in the network")>>>>
       IN /\ d.topic.third = "addr"
          /\ ~InPool(d.topic.addr)
          /\ \E frame \in convert_from(AddressedModule(d), d.c) :
                sent' = Append(sent, [frame |-> frame, to |-> n, by |-> d])
          /\ known' = known \cup {n}
          /\ publish_mqtt_message(Tail(inbox), Hex(n, 1), <<"device">>,
                                  build_mqtt_message(pairs), <<>>)
    /\ UNCHANGED <<opts, conn, quota>>
-----------------------------------------------------------------------------
(* serve_reply, REPLY_IND: a mote reports; what its module refuses is not  *)
(* published.                                                              *)
ServeInd ==
    /\ quota.reports > 0
    /\ \E r \in Readings, n \in Nodes :
          LET conv == convert_to(ModuleId[r.type], r.data)
          IN IF conv.pairs = Refused
             THEN UNCHANGED <<published, inbox, retained>>
             ELSE publish_mqtt_message(inbox, n, <<conv.topic>>,
                        build_mqtt_message(Added(conv.pairs)), r.truth)
    /\ quota' = [quota EXCEPT !.reports = @ - 1]
    /\ UNCHANGED <<opts, conn, known, sent>>

(* serve_reply, REPLY_LIST and REPLY_JOIN: a node is added to the pool and *)
(* announced.                                                              *)
ServeJoin ==
    /\ quota.reports > 0
    /\ \E n \in Nodes, levels \in {<<"device">>, <<"list", "">>} :
          /\ publish_mqtt_message(inbox, n, levels, build_mqtt_message(
                 <<<<"joined", Plain(1)>>, <<"class", Text("A")>>>>), <<>>)
          /\ known' = known \cup {NodeId(n)}
    /\ quota' = [quota EXCEPT !.reports = @ - 1]
    /\ UNCHANGED <<opts, conn, sent>>

(* my_connect_callback: after a successful connection the daemon           *)
(* subscribes; the broker then sends what it has retained.                 *)
Subscribe ==
    /\ conn = "up"
    /\ conn' = "subscribed"
    /\ inbox' = retained
    /\ UNCHANGED <<opts, retained, known, sent, published, quota>>

(* External: the connection breaks; with a clean session the broker keeps  *)
(* nothing for the daemon.  mosquitto_loop_forever connects again.         *)
Outage ==
    /\ conn = "subscribed"
    /\ quota.outages > 0
    /\ conn' = "down"
    /\ inbox' = <<>>
    /\ quota' = [quota EXCEPT !.outages = @ - 1]
    /\ UNCHANGED <<opts, retained, known, sent, published>>

Reconnect ==
    /\ conn = "down"
    /\ conn' = "up"
    /\ UNCHANGED <<opts, inbox, retained, known, sent, published, quota>>

Next == \/ ClientPublish
        \/ CallbackIgnores \/ CallbackBroadcast \/ CallbackSends \/ CallbackInvites
        \/ ServeInd \/ ServeJoin
        \/ Subscribe \/ Outage \/ Reconnect

Spec == Init /\ [][Next]_vars
-----------------------------------------------------------------------------
TypeOK ==
    /\ opts \in Options
    /\ conn \in {"down", "up", "subscribed"}
    /\ \A i \in DOMAIN inbox : inbox[i].mid \in 0..2 /\ inbox[i].own \in BOOLEAN
    /\ known \subseteq {NodeId(n) : n \in Nodes}
    /\ \A i \in DOMAIN sent : sent[i].to \in known \cup {-1}

(* The daemon never takes one of its own publications for a command,       *)
(* whatever comes back from its own subscription, directly or retained     *)
(* after a reconnection (the filter of mqtt.c:1057-1061).  As the comment  *)
(* there says, with QoS 0 the filter does not work; then only separate     *)
(* directions (mqtt_sepio) protect it.                                     *)
NoEcho ==
    opts.qos # 0 \/ opts.sepio => \A i \in DOMAIN sent : ~sent[i].by.own

(* Commands whose numbers fit the fields of their frame.  Outside this     *)
(* set: pins that run into the action bits (umdk-gpio.c:67), a switch      *)
(* value other than 0 and 1, a tagged iButton (strtoll saturates), an m200 *)
(* address that remove prints with an odd number of digits, an unknown     *)
(* module name, a three-digit "%02d", an iface or pwm state that is not    *)
(* given, and get serial of the m230, which asks for the time.             *)
Expressible(type, c) ==
    CASE type = "gpio"    -> Arg(c, 1) < 32 /\ Arg(c, 2) < 2
      [] type = "ibutton" -> Len(c.hex) = 16 => c.hex[1] < 8
      [] type = "m200"    -> /\ c.op = "remove" => Len(Hex(Arg(c, 1), 2)) = 2
                             /\ c.op \in {"set timedate", "set holidays"} =>
                                  \A i \in 1..7 : Arg(c, i) < 100
                             /\ c.op = "iface" => Word(c, 1) \in {"can", "485"}
      [] type = "m230"    -> c.op # "get serial"
      [] type = "pwm"     -> Word(c, 1) \in {"on", "off"} /\ Arg(c, 1) < 2^20
      [] type = "config"  -> Word(c, 1) = "" \/ unwds_modid_by_name(Word(c, 1)) > 0
      [] OTHER -> TRUE

(* Every frame the daemon sends for an expressible command consists of     *)
(* whole bytes, and a mote can tell it from the frame of every other       *)
(* command: two commands that mean different things never become the same  *)
(* text.  A command the parser does not know is a bare module id.          *)
FramesTell ==
    \A i \in DOMAIN sent :
        LET type == AddressedModule(sent[i].by)
            c    == sent[i].by.c
        IN ~sent[i].by.own /\ Expressible(type, c) =>
             /\ Len(sent[i].frame) % 2 = 0
             /\ \A cmd \in Commands :
                  /\ Expressible(cmd.type, cmd.c)
                  /\ sent[i].frame \in convert_from(cmd.type, cmd.c)
                  => \/ cmd.type = type /\ cmd.c = c
                     \/ Len(sent[i].frame) = 2

(* The number a text shows, in units of its last place.                    *)
ShownNumber(v) ==
    LET digits == v.int \o v.frac
        n == FoldLeft(LAMBDA acc, x : 10 * acc + x, 0, digits)
    IN IF v.neg THEN -n ELSE n

Shown(v) == IF v.t = "number" THEN <<ShownNumber(v)>> ELSE IF v.t = "array" THEN v.elems ELSE <<>>

(* What is published for a reading is what the mote measured: sign, scale, *)
(* packing and byte order of every decoder agree with the encoding of the  *)
(* mote (truth is empty where the reply is no measurement).                *)
ReadingsKept ==
    \A i \in DOMAIN published :
        LET data == published[i].msg.data IN
        published[i].truth # <<>> =>
            FlattenSeq([k \in DOMAIN data |-> Shown(data[k].value)]) = published[i].truth

(* A member of "data" that JSON accepts.                                   *)
JsonMember(m) ==
    \/ m.quoted
    \/ m.value.t = "number" /\ ~LeadingZero(m.value.int)
    \/ m.value.t = "array" /\ ~m.value.open
    \/ m.value.t = "digits" /\ m.value.h # <<>> /\ ~LeadingZero(m.value.h)
    \/ m.value.t \in {"unsigned", "fields"}

(* What is published is JSON: "leading zeros are not allowed for regular   *)
(* numbers in JSON", says the code that adds quotes (unwds-mqtt.c:168).    *)
PublishesJson ==
    \A i \in DOMAIN published :
        published[i].msg.closed
        /\ \A k \in DOMAIN published[i].msg.data : JsonMember(published[i].msg.data[k])

(* "MQTT messages published by external source are translated to commands  *)
(* specific for LoRa motes" (lora-mqtt/README.md:6): a message to a module that takes  *)
(* commands is not ignored.                                                *)
ExternalTranslated ==
    [][\A d \in {inbox[i] : i \in DOMAIN inbox} :
          CallbackIgnores /\ d = Head(inbox) /\ ~d.own =>
              convert_from(AddressedModule([d EXCEPT !.mid = 0]), d.c) = {}]_vars
=============================================================================
