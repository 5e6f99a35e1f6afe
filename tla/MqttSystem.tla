----------------------------- MODULE MqttSystem -----------------------------
(***************************************************************************)
(* The broker (mosquitto/src/loop.c around Broker) and clients built on    *)
(* libmosquitto, joined by TCP connections that may break at any moment.   *)
(*                                                                         *)
(* Connection c is context c of the broker.  What the broker has written   *)
(* to it waits in db.ctx[c].out, what the client has written in wire[c].   *)
(***************************************************************************)
EXTENDS Broker, MosqClient

CONSTANTS
    Clients,        \* client ids
    Persistent,     \* those that connect without clean_session
    Wills,          \* will of each client, or NoWill
    First,          \* subscriptions of each client when it all begins
    Users,          \* [username, password] of each client
    SecurityFiles,  \* what the password and acl files say, one version after the other
    Calls,          \* what the application of each client does, one call after the other
    Conns,          \* connections
    MaxBreaks,      \* connections that break
    MaxTimeouts,    \* retry times that pass while packets are still under way
    MaxExpired      \* persistent clients that expire

(* Topics and filters are not empty: mosquitto_publish, mosquitto_subscribe *)
(* and mosquitto_will_set refuse others.                                   *)
Topics == Seq(STRING) \ {<<>>}
AnyCall == [op : {"publish"}, topic : Topics, payload : Nat, qos : 0..2, retain : BOOLEAN]
           \cup [op : {"subscribe"}, sub : Topics, qos : 0..2]
           \cup [op : {"unsubscribe"}, sub : Topics] \cup [op : {"disconnect"}]

ASSUME SystemAssumption ==
    /\ Persistent \subseteq Clients /\ NoId \notin Clients /\ IsFiniteSet(Clients)
    /\ Conns \subseteq Nat \ {0} /\ IsFiniteSet(Conns) /\ {MaxBreaks, MaxTimeouts, MaxExpired} \subseteq Nat
    /\ Wills \in [Clients -> {NoWill} \cup [topic : Topics, payload : Nat, qos : 0..2, retain : BOOLEAN]]
    /\ Users \in [Clients -> [username : STRING, password : STRING]]
    /\ Calls \in [Clients -> Seq(AnyCall)]
    /\ SecurityFiles \in Seq(Range(SecurityFiles)) \ {<<>>}

(* What a line of an acl file is has been found out by its first word.     *)
ASSUME FilesAssumption ==
    \A i \in DOMAIN SecurityFiles :
        LET lines == SecurityFiles[i].acl_file
        IN lines \in Seq({l \in Range(lines) : l.word \in {"user", "topic", "pattern", "error"}})

(* Every client can connect at first, and make its first subscriptions.    *)
ASSUME StartAssumption ==
    /\ 1..Cardinality(Clients) \subseteq Conns
    /\ \A id \in Clients : Admitted(mqtt3_db_open(SecurityFiles[1]), Users[id])
    /\ \A id \in Clients : /\ IsFiniteSet(First[id]) /\ First[id] \subseteq [sub : Topics, qos : 0..2]
                           /\ \A f \in First[id] : mosquitto_sub_topic_check(f.sub)

VARIABLES
    db,         \* the broker
    cli,        \* the clients
    wire,       \* packets from a client that the broker has not read
    todo,       \* calls not made yet
    used,       \* bounded events so far
    routed      \* history: what the broker has accepted for a persistent session, in order

vars == <<db, cli, wire, todo, used, routed>>

(* At the beginning every client has connected and made its first          *)
(* subscriptions, on a connection of its own, and has the answers.         *)
Started(c, id) ==
    [mosquitto_username_pw_set(_mosquitto_will_set(mosquitto_new(id \notin Persistent), Wills[id]),
                               Users[id]) EXCEPT
        !.conn = c, !.state = "connected", !.last_mid = Cardinality(First[id])]

Served(d, c, id) ==
    LET hello == [cmd |-> "CONNECT", id |-> id, clean |-> id \notin Persistent, will |-> Wills[id],
                  username |-> Users[id].username, password |-> Users[id].password]
        subs  == {[cmd |-> "SUBSCRIBE", mid |-> 1, sub |-> f.sub, qos |-> f.qos] : f \in First[id]}
    IN [FoldLeft(LAMBDA e, p : _mosquitto_packet_read(e, c, p), mqtt3_context_init(d, c, TRUE),
                 <<hello>> \o SetToSeq(subs)) EXCEPT !.ctx[c].out = <<>>]

Init ==
    LET order == SetToSeq(Clients)
        Pos(id) == CHOOSE c \in DOMAIN order : order[c] = id
    IN /\ db = FoldLeft(LAMBDA d, c : Served(d, c, order[c]), mqtt3_db_open(SecurityFiles[1]),
                        [c \in DOMAIN order |-> c])
       /\ cli = [id \in Clients |-> Started(Pos(id), id)]
       /\ wire = [c \in Conns |-> <<>>]
       /\ todo = Calls
       /\ used = [breaks |-> 0, timeouts |-> 0, expired |-> 0, reloads |-> 0]
       /\ routed = [id \in Persistent |-> <<>>]

Spend(what) == used' = [used EXCEPT ![what] = @ + 1]
-----------------------------------------------------------------------------
(* The packets of a call go to the connection.                             *)
Flush(id, m) ==
    /\ cli' = [cli EXCEPT ![id] = [m EXCEPT !.up = <<>>]]
    /\ wire' = IF m.up = <<>> THEN wire ELSE [wire EXCEPT ![cli[id].conn] = @ \o m.up]

Perform(m, call) ==
    CASE call.op = "publish"     -> mosquitto_publish(m, call.topic, call.payload, call.qos, call.retain)
      [] call.op = "subscribe"   -> mosquitto_subscribe(m, call.sub, call.qos)
      [] call.op = "unsubscribe" -> mosquitto_unsubscribe(m, call.sub)
      [] call.op = "disconnect"  -> mosquitto_disconnect(m)

(* The application calls the library, from a thread of its own.  Without a *)
(* connection only publishing with QoS 1 or 2 has an effect.               *)
Call(id) ==
    /\ todo[id] # <<>>
    /\ cli[id].conn # 0 \/ (Head(todo[id]).op = "publish" /\ Head(todo[id]).qos > 0)
    /\ Flush(id, Perform(cli[id], Head(todo[id])))
    /\ todo' = [todo EXCEPT ![id] = Tail(@)]
    /\ UNCHANGED <<db, used, routed>>

FreeConns == Conns \ (DOMAIN db.ctx \cup {cli[id].conn : id \in Clients})

(* mosquitto_loop_forever reconnects; mqtt3_socket_accept.                 *)
OpenSocket(id) ==
    /\ cli[id].conn = 0 /\ cli[id].state # "disconnecting"
    /\ FreeConns # {}
    /\ LET c == Min(FreeConns)
       IN /\ cli' = [cli EXCEPT ![id] = _mosquitto_reconnect(@, c)]
          /\ db' = mqtt3_context_init(db, c, TRUE)
          /\ wire' = [wire EXCEPT ![c] = <<>>]
    /\ UNCHANGED <<todo, used, routed>>

SendConnect(id) ==
    /\ cli[id].state = "connecting" /\ cli[id].conn # 0
    /\ Flush(id, _mosquitto_send_connect(cli[id], id))
    /\ UNCHANGED <<db, todo, used, routed>>

Open(c) == c \in DOMAIN db.ctx /\ db.ctx[c].sock

(* A step in which the broker reads from connection c: BrokerRead.         *)
Reads(c) == Open(c) /\ wire[c] # <<>> /\ wire' = [wire EXCEPT ![c] = Tail(@)] /\ UNCHANGED cli

(* mosquitto_loop_read: a packet, or the end of the connection.            *)
LoopRead(id) ==
    /\ Open(cli[id].conn) /\ db.ctx[cli[id].conn].out # <<>>
    /\ Flush(id, _mosquitto_packet_handle(cli[id], Head(db.ctx[cli[id].conn].out)))
    /\ db' = [db EXCEPT !.ctx[cli[id].conn].out = Tail(@)]
    /\ UNCHANGED <<todo, used, routed>>

LoopClosed(id) ==
    /\ cli[id].conn # 0 /\ ~Open(cli[id].conn)
    /\ cli' = [cli EXCEPT ![id] = _mosquitto_socket_close(@)]
    /\ UNCHANGED <<db, wire, todo, used, routed>>

DueIn(m) == \/ \E i \in DOMAIN m.out : m.out[i].due /\ m.out[i].state # "invalid"
            \/ \E i \in DOMAIN m.in : m.in[i].due

(* mosquitto_loop_misc                                                     *)
LoopMisc(id) ==
    /\ cli[id].conn # 0 /\ cli[id].state # "connecting" /\ DueIn(cli[id])
    /\ Flush(id, _mosquitto_message_retry_check(cli[id]))
    /\ UNCHANGED <<db, todo, used, routed>>

(* The connection breaks: the client closes it (an error, or a PINGRESP    *)
(* that does not come); what it wrote last may be lost.                    *)
Break(id) ==
    /\ cli[id].conn # 0 /\ used.breaks < MaxBreaks /\ Spend("breaks")
    /\ \E k \in 0..Len(wire[cli[id].conn]) :
           wire' = [wire EXCEPT ![cli[id].conn] = SubSeq(@, 1, k)]
    /\ cli' = [cli EXCEPT ![id] = _mosquitto_socket_close(@)]
    /\ UNCHANGED <<db, todo, routed>>
-----------------------------------------------------------------------------
(* What the broker distributes when it handles packet p of connection c,   *)
(* and for which sessions, by the words of their subscriptions.            *)
Distributed(c, p) ==
    IF db.ctx[c].state # "connected" THEN {}
    ELSE CASE p.cmd = "PUBLISH" /\ p.qos = 1 /\ mosquitto_acl_check(db, c, p.topic, "write") ->
                [topic : {p.topic}, payload : {p.payload}, qos : {1}]
           [] p.cmd = "PUBREL" ->
                {[topic |-> db.store[m.store].topic, payload |-> db.store[m.store].payload, qos |-> 2] :
                    m \in {x \in Range(db.ctx[c].msgs) :
                              x.dir = "in" /\ x.mid = p.mid /\ db.store[x.store].topic # <<>>}}
           [] OTHER -> {}

Filter(tokens) == IF tokens[1] = "" THEN Tail(tokens) ELSE tokens
GrantedTo(c, topic) ==
    {leaf.qos : leaf \in {l \in UNION {Range(db.subs[p]) : p \in
                              {q \in db.ctx[c].subs : mosquitto_topic_matches_sub(Filter(q), topic)}} :
                              l.ctx = c}}

Entitled(id, msg) ==
    \E c \in ById(db, id) :
        /\ GrantedTo(c, msg.topic) # {} /\ 0 \notin GrantedTo(c, msg.topic)
        /\ mosquitto_acl_check(db, c, msg.topic, "read")

Route(c, p) ==
    routed' = [id \in Persistent |->
        routed[id] \o SetToSeq({m \in Distributed(c, p) : Entitled(id, m)})]

(* _mosquitto_packet_read, a packet of the client                          *)
BrokerRead(c) ==
    /\ Open(c) /\ wire[c] # <<>>
    /\ db' = _mosquitto_packet_read(db, c, Head(wire[c]))
    /\ wire' = [wire EXCEPT ![c] = Tail(@)]
    /\ Route(c, Head(wire[c]))
    /\ UNCHANGED <<cli, todo, used>>

(* ... or the end of its connection                                        *)
BrokerClosed(c) ==
    /\ Open(c) /\ wire[c] = <<>> /\ \A id \in Clients : cli[id].conn # c
    /\ db' = do_disconnect(db, c)
    /\ UNCHANGED <<cli, wire, todo, used, routed>>

(* The broker gives a connection up: an error, or 1.5 times the keepalive  *)
(* without a packet.                                                       *)
BrokerDrop(c) ==
    /\ Open(c) /\ used.breaks < MaxBreaks /\ Spend("breaks")
    /\ db' = do_disconnect(db, c)
    /\ UNCHANGED <<cli, wire, todo, routed>>

(* mosquitto_main_loop: messages are written to connected clients ...      *)
BrokerWrite(c) ==
    /\ Open(c) /\ db.ctx[c].state = "connected"
    /\ db' = mqtt3_db_message_write(db, c) /\ db' # db
    /\ UNCHANGED <<cli, wire, todo, used, routed>>

(* ... contexts of ended clean sessions are freed ...                      *)
BrokerFree ==
    /\ db.disused # {}
    /\ db' = mosquitto__free_disused_contexts(db)
    /\ UNCHANGED <<cli, wire, todo, used, routed>>

(* ... and persistent clients that stay away for long are forgotten.       *)
BrokerExpire(c) ==
    /\ c \in DOMAIN db.ctx /\ ~db.ctx[c].sock /\ ~db.ctx[c].clean /\ db.ctx[c].id # NoId
    /\ used.expired < MaxExpired /\ Spend("expired")
    /\ routed' = [routed EXCEPT ![db.ctx[c].id] = <<>>]
    /\ db' = do_disconnect([db EXCEPT !.ctx[c].clean = TRUE, !.ctx[c].state = "expiring"], c)
    /\ UNCHANGED <<cli, wire, todo>>
(* SIGHUP: the security files are read again.  A session loses the claim   *)
(* to what its client may no longer read.                                  *)
Files == SecurityFiles[used.reloads + 1]
MayRead(sec, id, topic) ==
    acl_check_default(sec, [id |-> id, username |-> Users[id].username,
                            acl |-> AclOf(sec, Users[id].username)], topic, "read")
Reload ==
    /\ used.reloads + 1 < Len(SecurityFiles) /\ Spend("reloads")
    /\ db' = Reloaded(db, SecurityFiles[used.reloads + 2])
    /\ routed' = [id \in Persistent |->
           SelectSeq(routed[id], LAMBDA m : MayRead(db'.sec, id, m.topic))]
    /\ UNCHANGED <<cli, wire, todo>>
-----------------------------------------------------------------------------
(* Retry times pass: of one message while packets are under way, a bounded *)
(* number of times, or of all when nothing else happens any more.          *)
Rests(id) == IF cli[id].state = "disconnecting" THEN cli[id].conn = 0
             ELSE Open(cli[id].conn) /\ cli[id].state = "connected"
Quiet ==
    /\ db.disused = {}
    /\ \A c \in DOMAIN db.ctx : Open(c) =>
           /\ wire[c] = <<>> /\ db.ctx[c].out = <<>>
           /\ db.ctx[c].state = "connected" => mqtt3_db_message_write(db, c) = db
    /\ \A id \in Clients : Rests(id) /\ ~DueIn(cli[id])

BrokerTimeout ==
    /\ \/ /\ Quiet /\ Unanswered(db) # {}
          /\ db' = mqtt3_db_message_timeout_check(db, Unanswered(db))
          /\ UNCHANGED used
       \/ /\ ~Quiet /\ used.timeouts < MaxTimeouts /\ Spend("timeouts")
          /\ \E x \in Unanswered(db) : db' = mqtt3_db_message_timeout_check(db, {x})
    /\ UNCHANGED <<cli, wire, todo, routed>>

Late(msgs, I) == [i \in DOMAIN msgs |-> IF i \in I THEN [msgs[i] EXCEPT !.due = TRUE] ELSE msgs[i]]
ClientTimeout(id) ==
    /\ cli[id].conn # 0 /\ cli[id].out \o cli[id].in # <<>>
    /\ \/ /\ Quiet
          /\ cli' = [cli EXCEPT ![id].out = Late(@, DOMAIN @), ![id].in = Late(@, DOMAIN @)]
          /\ UNCHANGED used
       \/ /\ ~Quiet /\ used.timeouts < MaxTimeouts /\ Spend("timeouts")
          /\ \/ \E i \in DOMAIN cli[id].out : ~cli[id].out[i].due /\ cli' = [cli EXCEPT ![id].out = Late(@, {i})]
             \/ \E i \in DOMAIN cli[id].in : ~cli[id].in[i].due /\ cli' = [cli EXCEPT ![id].in = Late(@, {i})]
    /\ UNCHANGED <<db, wire, todo, routed>>

(* All calls are made and all messages have arrived.                       *)
AllDone ==
    /\ Quiet
    /\ \A id \in Clients : todo[id] = <<>> /\ (cli[id].out = <<>> \/ cli[id].state = "disconnecting")
    /\ \A c \in DOMAIN db.ctx : db.ctx[c].sock => db.ctx[c].msgs = <<>>
    /\ UNCHANGED vars

Loop(id) == OpenSocket(id) \/ SendConnect(id) \/ LoopRead(id) \/ LoopClosed(id) \/ LoopMisc(id)
MainLoop == (\E c \in Conns : BrokerRead(c) \/ BrokerClosed(c) \/ BrokerWrite(c)) \/ BrokerFree

Next == \/ \E id \in Clients : Call(id) \/ Loop(id) \/ Break(id) \/ ClientTimeout(id)
        \/ MainLoop \/ BrokerTimeout \/ Reload
        \/ \E c \in Conns : BrokerDrop(c) \/ BrokerExpire(c)
        \/ AllDone

(* The broker or one of the clients has something to do.                   *)
Busy ==
    \/ db.disused # {}
    \/ \E c \in DOMAIN db.ctx :
           /\ db.ctx[c].sock
           /\ \/ wire[c] # <<>>
              \/ \A id \in Clients : cli[id].conn # c
              \/ db.ctx[c].state = "connected" /\ mqtt3_db_message_write(db, c) # db
    \/ \E id \in Clients :
           \/ cli[id].conn = 0 /\ cli[id].state # "disconnecting" /\ FreeConns # {}
           \/ cli[id].conn # 0 /\ (cli[id].state = "connecting" \/ ~Open(cli[id].conn) \/ DueIn(cli[id]))
           \/ Open(cli[id].conn) /\ db.ctx[cli[id].conn].out # <<>>

(* Weak fairness, with the guards of the actions spelled out: the loops of *)
(* broker and clients keep turning, and time passes.                       *)
Loops == MainLoop \/ \E id \in Clients : Loop(id)
Fairness ==
    /\ []<>(~Busy) \/ []<><<Loops>>_vars
    /\ []<>(~(Quiet /\ Unanswered(db) # {})) \/ []<><<Quiet /\ BrokerTimeout>>_vars
    /\ []<>(~(Quiet /\ \E id \in Clients : cli[id].conn # 0 /\ cli[id].out \o cli[id].in # <<>>))
       \/ []<><<Quiet /\ \E id \in Clients : ClientTimeout(id)>>_vars

Spec == Init /\ [][Next]_vars
FairSpec == Spec /\ Fairness
-----------------------------------------------------------------------------
(* Types of the parts that the actions maintain together.                  *)
TypeOK ==
    /\ \A c \in DOMAIN db.ctx : c \in Conns /\ db.ctx[c].id \in Clients \cup {NoId}
    /\ \A p \in DOMAIN db.subs : \A i \in DOMAIN db.subs[p] : db.subs[p][i].ctx \in DOMAIN db.ctx
    /\ \A c \in DOMAIN db.ctx : \A i \in DOMAIN db.ctx[c].msgs : db.ctx[c].msgs[i].store \in DOMAIN db.store
    /\ \A p \in DOMAIN db.retained : db.retained[p] \in DOMAIN db.store \cup {0}
    /\ db.disused \subseteq DOMAIN db.ctx

(* A stored message is counted once for every client message and every     *)
(* retained message that points to it, and is freed with the last of them  *)
(* (mosquitto__db_msg_store_deref).                                        *)
References(s) ==
    FoldSet(LAMBDA c, n : n + Cardinality({i \in DOMAIN db.ctx[c].msgs : db.ctx[c].msgs[i].store = s}),
            0, DOMAIN db.ctx)
    + Cardinality({p \in DOMAIN db.retained : db.retained[p] = s})
RefCounted == \A s \in DOMAIN db.store : db.store[s].ref = References(s)
RefExact == RefCounted /\ \A s \in DOMAIN db.store : db.store[s].ref > 0

(* The counter the limits are compared with is the number of messages with *)
(* QoS 1 or 2 in the list (context->msg_count12).                          *)
CountExact ==
    \A c \in DOMAIN db.ctx : db.ctx[c].id # NoId =>
        db.ctx[c].count12 = Cardinality({i \in DOMAIN db.ctx[c].msgs : db.ctx[c].msgs[i].qos > 0})

(* A subscription is in the tree exactly when its client lists the node,   *)
(* whatever take-overs, disconnects and clean-ups have happened in between; *)
(* nodes hang together.                                                    *)
TreeExact ==
    /\ \A c \in DOMAIN db.ctx : \A p \in db.ctx[c].subs : p \in DOMAIN db.subs
    /\ \A c \in DOMAIN db.ctx, p \in DOMAIN db.subs :
           Cardinality({i \in DOMAIN db.subs[p] : db.subs[p][i].ctx = c})
           = IF p \in db.ctx[c].subs THEN 1 ELSE 0
    /\ \A p \in DOMAIN db.subs : Len(p) > 1 => Front(p) \in DOMAIN db.subs

(* One context per client id: a second connection takes the id over.       *)
OneContext == \A id \in Clients : Cardinality(ById(db, id)) <= 1

Payloads(notes) == {notes[i].payload : i \in DOMAIN notes}
OutOf(id) == UNION {{db.store[m.store].payload : m \in {x \in Range(db.ctx[c].msgs) : x.dir = "out"}} :
                       c \in ById(db, id)}

(* A message the broker has accepted for a persistent session is with the  *)
(* client, on the way, or in the session, through breaks, take-overs and   *)
(* retries.                                                                *)
NoLoss == \A id \in Persistent :
    Payloads(routed[id]) \subseteq Payloads(cli[id].got) \cup Payloads(cli[id].in) \cup OutOf(id)

(* What is published with QoS 2 is distributed once, although publisher    *)
(* and broker repeat themselves and mids come back.                        *)
UpOnce == \A id \in Persistent : \A i, j \in DOMAIN routed[id] :
    (i # j /\ routed[id][i].qos = 2 /\ routed[id][j].qos = 2)
        => routed[id][i].payload # routed[id][j].payload

(* Once on_publish has been called, the broker has accepted the message    *)
(* for every persistent session that has been subscribed all the time      *)
(* (_mosquitto_handle_pubackcomp against mqtt3_db_message_release).        *)
Faithful(s, topic) ==
    /\ \E f \in First[s] : f.qos > 0 /\ mosquitto_topic_matches_sub(f.sub, topic)
    /\ \A call \in Range(Calls[s]) : call.op \notin {"subscribe", "unsubscribe"}
SentIsAccepted == \A id \in Clients : \A call \in Range(Calls[id]) : \A s \in Persistent :
    (/\ call.op = "publish" /\ call.payload \in cli[id].sent /\ Faithful(s, call.topic)
     /\ used.expired = 0 /\ used.reloads = 0)
        => call.payload \in Payloads(routed[s])

(* Messages of a QoS reach a persistent client in the order in which the   *)
(* broker has accepted them, copies aside.                                 *)
FirstAt(notes, x) == Min({i \in DOMAIN notes : notes[i].payload = x})
InOrder == \A id \in Persistent :
    LET got == cli[id].got
    IN \A a, b \in Payloads(routed[id]) \cap Payloads(got) :
          (/\ FirstAt(routed[id], a) < FirstAt(routed[id], b)
           /\ got[FirstAt(got, a)].qos = got[FirstAt(got, b)].qos)
              => FirstAt(got, a) < FirstAt(got, b)

(* A published message is queued for exactly the connected sessions with a *)
(* subscription that matches its topic, word by word: the search in the    *)
(* tree (_sub_search) agrees with mosquitto_topic_matches_sub, however the *)
(* tree has grown and shrunk.                                              *)
Gains(c) == {db'.ctx[c].msgs[i] : i \in (Len(db.ctx[c].msgs) + 1)..Len(db'.ctx[c].msgs)}
Listeners(topic) ==
    {c \in DOMAIN db.ctx : /\ db.ctx[c].sock /\ db.ctx[c].id # NoId
                            /\ GrantedTo(c, topic) # {}
                            /\ mosquitto_acl_check(db, c, topic, "read")}
RoutesMatch == [][\A c \in Conns :
    (/\ Reads(c) /\ Head(wire[c]).cmd = "PUBLISH" /\ Head(wire[c]).qos < 2
     /\ db.ctx[c].state = "connected"
     /\ mosquitto_acl_check(db, c, Head(wire[c]).topic, "write"))
    => {x \in DOMAIN db.ctx : db.ctx[x].sock /\ Gains(x) # {}} = Listeners(Head(wire[c]).topic)]_vars

(* A new subscription is given the retained message of every topic it      *)
(* matches, once, and nothing else (_retain_search, mqtt(7): "If a new     *)
(* subscription is made that matches the topic of the retained message,    *)
(* then the message will be sent").  A "#" right behind a "+" is set aside: *)
(* _retain_search then misses the message of the parent level.             *)
RetainedFor(sub) ==
    {db.retained[p] : p \in {q \in DOMAIN db.retained :
        db.retained[q] # 0 /\ mosquitto_topic_matches_sub(sub, db.store[db.retained[q]].topic)}}
HashAfterPlus(sub) == Len(sub) > 1 /\ sub[Len(sub)] = "#" /\ sub[Len(sub) - 1] = "+"
RetainedArrive(c) ==
    LET p == Head(wire[c])
    IN (Reads(c) /\ p.cmd = "SUBSCRIBE" /\ db.ctx[c].state = "connected")
       => {m.store : m \in Gains(c)}
          = {s \in RetainedFor(p.sub) : mosquitto_acl_check(db, c, db.store[s].topic, "read")}
RetainExact == [][\A c \in Conns :
    (wire[c] # <<>> /\ Head(wire[c]).cmd = "SUBSCRIBE" => ~HashAfterPlus(Head(wire[c]).sub))
    => RetainedArrive(c)]_vars

(* The will of a client goes out when its connection ends without a        *)
(* DISCONNECT, and stays unsaid after one (mqtt3_context_disconnect).  A   *)
(* client that connects again before the broker has noticed takes the old  *)
(* connection over without its will.                                       *)
Leaves(c) == db.ctx[c].sock /\ (c \in DOMAIN db'.ctx => ~db'.ctx[c].sock)
WillsSaid == [][\A c \in DOMAIN db.ctx :
    LET w == db.ctx[c].will
        heard == {x \in DOMAIN db'.ctx : \E m \in Range(db'.ctx[x].msgs) :
                      m.dir = "out" /\ m.store > db.last_db_id}
    IN (w # NoWill /\ Leaves(c))
        => heard = IF \E x \in Conns : Reads(x) /\ Head(wire[x]).cmd \in {"DISCONNECT", "CONNECT"}
                   THEN {} ELSE Listeners(w.topic) \ {c}]_vars

(* A connected client with messages in the queue has one in flight, whose  *)
(* completion will move the queue.                                         *)
NotStuck == \A c \in DOMAIN db.ctx :
    (db.ctx[c].sock /\ \E i \in DOMAIN db.ctx[c].msgs : db.ctx[c].msgs[i].state = "queued")
        => \E i \in DOMAIN db.ctx[c].msgs : db.ctx[c].msgs[i].state # "queued"

(* The client library: the counter of messages in flight is right, and a   *)
(* message waits only when the limit is used up.                           *)
ClientInflight == \A id \in Clients :
    LET m == cli[id]
        going == {i \in DOMAIN m.out : m.out[i].state # "invalid"}
    IN /\ m.inflight_messages = Cardinality(going)
       /\ going # DOMAIN m.out => ~Room(m)

(* What the broker has accepted for a persistent session arrives: again    *)
(* and again nothing accepted so far is still owed (routed and got grow).  *)
Delivered == []<>(\A id \in Persistent :
    Payloads(routed[id]) \subseteq Payloads(cli[id].got) \/ used.expired > 0)

(* The four-step handshake of every publication ends on the client's side. *)
Completes == <>[](\A id \in Clients : cli[id].out = <<>> \/ cli[id].state = "disconnecting")

(* mqtt(7): with QoS 2 a message is delivered exactly once.                *)
ExactlyOnce == \A id \in Clients : \A i, j \in DOMAIN cli[id].got :
    (i # j /\ cli[id].got[i].qos = 2 /\ cli[id].got[j].qos = 2)
        => cli[id].got[i].payload # cli[id].got[j].payload
=============================================================================
