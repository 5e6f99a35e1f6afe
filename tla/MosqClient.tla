----------------------------- MODULE MosqClient -----------------------------
(***************************************************************************)
(* libmosquitto: mosquitto/lib/messages_mosq.c, mosquitto.c, read_handle.c *)
(* and read_handle_shared.c as built for clients.  Each C function is an   *)
(* operator from the client (struct mosquitto) before to the one after.    *)
(*                                                                         *)
(* m.conn      its connection (sock), 0 when it has none;                  *)
(* m.out, m.in out_messages and in_messages; due says that the time to     *)
(*             repeat the last packet about a message has come;            *)
(* m.up        packets a call hands to the connection;                     *)
(* m.got       what on_message has been called with;                       *)
(* m.sent      payloads whose on_publish has been called.                  *)
(***************************************************************************)
EXTENDS Integers, Sequences, SequencesExt, FiniteSetsExt

CONSTANTS max_inflight_messages,    \* 0: no limit
          mid_max                   \* message ids wrap behind this (65535)

ASSUME ClientAssumption == max_inflight_messages \in Nat /\ mid_max \in Nat \ {0}

mosquitto_new(clean_session) ==
    [conn |-> 0, state |-> "new", clean_session |-> clean_session, will |-> <<>>,
     username |-> "", password |-> "", out |-> <<>>, in |-> <<>>, inflight_messages |-> 0, last_mid |-> 0,
     up |-> <<>>, got |-> <<>>, sent |-> {}]

_mosquitto_will_set(m, will) == [m EXCEPT !.will = will]
mosquitto_username_pw_set(m, user) ==
    [m EXCEPT !.username = user.username, !.password = user.password]

(* _mosquitto_send_...: without a connection the packet is refused.        *)
SendUp(m, packet) == IF m.conn = 0 THEN m ELSE [m EXCEPT !.up = Append(@, packet)]

Publish(msg) == [cmd |-> "PUBLISH", mid |-> msg.mid, qos |-> msg.qos, dup |-> msg.dup,
                 retain |-> msg.retain, topic |-> msg.topic, payload |-> msg.payload]
Ack(cmd, mid) == [cmd |-> cmd, mid |-> mid]

RoomForOneMore(m) == max_inflight_messages = 0 \/ m.inflight_messages <= max_inflight_messages   \* Mutant
Room(m) == max_inflight_messages = 0 \/ m.inflight_messages < max_inflight_messages
Waiting(qos) == IF qos = 1 THEN "wait_for_puback" ELSE "wait_for_pubrec"
-----------------------------------------------------------------------------
(* mosquitto_publish with _mosquitto_message_queue: a message with QoS 1   *)
(* or 2 is kept until it is acknowledged, and sent at once unless too many *)
(* are under way.                                                          *)
mosquitto_publish(m, topic, payload, qos, retain) ==
    LET mid == (m.last_mid % mid_max) + 1
        go  == Room(m)
        msg == [mid |-> mid, topic |-> topic, payload |-> payload, qos |-> qos, retain |-> retain,
                dup |-> FALSE, due |-> FALSE, state |-> IF go THEN Waiting(qos) ELSE "invalid"]
        m1  == [m EXCEPT !.last_mid = mid]
        m2  == [m1 EXCEPT !.out = Append(@, msg), !.inflight_messages = IF go THEN @ + 1 ELSE @]
    IN IF qos = 0 THEN SendUp(m1, Publish(msg))
       ELSE IF go THEN SendUp(m2, Publish(msg)) ELSE m2

(* mosquitto_subscribe and mosquitto_unsubscribe                           *)
mosquitto_subscribe(m, sub, qos) ==
    LET mid == (m.last_mid % mid_max) + 1
    IN SendUp([m EXCEPT !.last_mid = mid],
              [cmd |-> "SUBSCRIBE", mid |-> mid, sub |-> sub, qos |-> qos])
mosquitto_unsubscribe(m, sub) ==
    LET mid == (m.last_mid % mid_max) + 1
    IN SendUp([m EXCEPT !.last_mid = mid], [cmd |-> "UNSUBSCRIBE", mid |-> mid, sub |-> sub])

(* mosquitto_disconnect; the connection is closed once the packet is out.  *)
mosquitto_disconnect(m) ==
    [SendUp([m EXCEPT !.state = "disconnecting"], [cmd |-> "DISCONNECT"]) EXCEPT !.conn = 0]
-----------------------------------------------------------------------------
IndexOfMid(msgs, mid) == {i \in DOMAIN msgs : msgs[i].mid = mid}

(* _mosquitto_message_remove, outgoing: messages that had to wait get      *)
(* their turn, from the head of the list, while there is room.             *)
NextTurn(m, k) ==
    IF Room(m) /\ m.out[k].state = "invalid"
    THEN SendUp([m EXCEPT !.out[k].state = Waiting(m.out[k].qos), !.inflight_messages = @ + 1],
                Publish(m.out[k]))
    ELSE m
_mosquitto_message_remove(m, mid) ==
    LET i  == Min(IndexOfMid(m.out, mid))
        m1 == [m EXCEPT !.out = RemoveAt(@, i), !.inflight_messages = @ - 1]
    IN FoldLeft(NextTurn, m1, [k \in 1..Len(m1.out) |-> k])

(* _mosquitto_handle_pubackcomp: on_publish is called once.                *)
_mosquitto_handle_pubackcomp(m, mid) ==
    LET hits == IndexOfMid(m.out, mid)
    IN IF hits = {} THEN m
       ELSE [_mosquitto_message_remove(m, mid) EXCEPT !.sent = @ \cup {m.out[Min(hits)].payload}]

PubrecIsEnough(m, mid) ==    \* Mutant: PUBREC ends the handshake
    _mosquitto_handle_pubackcomp(SendUp(m, Ack("PUBREL", mid)), mid)

(* _mosquitto_handle_pubrec, _mosquitto_message_out_update: an unknown mid *)
(* is answered as well.                                                    *)
_mosquitto_handle_pubrec(m, mid) ==
    LET hits == IndexOfMid(m.out, mid)
        m1   == IF hits = {} THEN m
                ELSE [m EXCEPT !.out[Min(hits)].state = "wait_for_pubcomp",
                               !.out[Min(hits)].due = FALSE]
    IN SendUp(m1, Ack("PUBREL", mid))

(* _mosquitto_handle_pubrel: the first message with this mid is passed on. *)
_mosquitto_handle_pubrel(m, mid) ==
    LET hits == IndexOfMid(m.in, mid)
        i    == Min(hits)
        m1   == IF hits = {} THEN m
                ELSE [m EXCEPT !.in = RemoveAt(@, i),
                               !.got = Append(@, [topic |-> m.in[i].topic, payload |-> m.in[i].payload,
                                                  qos |-> 2, retain |-> m.in[i].retain])]
    IN SendUp(m1, Ack("PUBCOMP", mid))

(* _mosquitto_socket_close after an error                                  *)
_mosquitto_socket_close(m) == [m EXCEPT !.conn = 0]

(* _mosquitto_handle_publish: a message with QoS 2 is kept for its PUBREL, *)
(* whether or not one with the same mid is there already.                  *)
_mosquitto_handle_publish(m, p) ==
    LET note == [topic |-> p.topic, payload |-> p.payload, qos |-> p.qos, retain |-> p.retain]
        kept == [mid |-> p.mid, topic |-> p.topic, payload |-> p.payload, retain |-> p.retain,
                 due |-> FALSE]
    IN CASE p.qos = 0 -> [m EXCEPT !.got = Append(@, note)]
         [] p.qos = 1 -> [SendUp(m, Ack("PUBACK", p.mid)) EXCEPT !.got = Append(@, note)]
         [] p.qos = 2 -> [SendUp(m, Ack("PUBREC", p.mid)) EXCEPT !.in = Append(@, kept)]
         [] OTHER -> _mosquitto_socket_close(m)

(* _mosquitto_handle_connack, accepted                                     *)
_mosquitto_handle_connack(m) ==
    IF m.state = "disconnecting" THEN m ELSE [m EXCEPT !.state = "connected"]

(* _mosquitto_packet_handle                                                *)
_mosquitto_packet_handle(m, p) ==
    CASE p.cmd = "CONNACK" -> _mosquitto_handle_connack(m)
      [] p.cmd = "PUBLISH" -> _mosquitto_handle_publish(m, p)
      [] p.cmd \in {"PUBACK", "PUBCOMP"} -> _mosquitto_handle_pubackcomp(m, p.mid)
      [] p.cmd = "PUBREC"  -> _mosquitto_handle_pubrec(m, p.mid)
      [] p.cmd = "PUBREL"  -> _mosquitto_handle_pubrel(m, p.mid)
      [] p.cmd \in {"SUBACK", "UNSUBACK"} -> m
      [] OTHER -> _mosquitto_socket_close(m)
-----------------------------------------------------------------------------
InForgotten(m) == <<>>    \* Mutant: what has been answered with a PUBREC is given up
Kept(m) == [i \in DOMAIN m.in |-> [m.in[i] EXCEPT !.due = TRUE]]

(* _mosquitto_messages_reconnect_reset: what is under way will be repeated *)
(* at once on the new connection; what is beyond the limit waits again.    *)
_mosquitto_messages_reconnect_reset(m) ==
    LET Under(i) == max_inflight_messages = 0 \/ i <= max_inflight_messages
        Reset(msg, i) ==
            [msg EXCEPT !.due = TRUE,
                        !.state = CASE Under(i) /\ msg.qos = 1 -> "wait_for_puback"
                                    [] Under(i) /\ msg.qos = 2 -> msg.state
                                    [] OTHER -> "invalid"]
    IN [m EXCEPT !.in = Kept(m),
                 !.out = [i \in DOMAIN m.out |-> Reset(m.out[i], i)],
                 !.inflight_messages = Cardinality({i \in DOMAIN m.out : Under(i)})]

(* mosquitto_reconnect up to the new socket: packets of the old connection *)
(* are dropped.                                                            *)
_mosquitto_reconnect(m, conn) ==
    [_mosquitto_messages_reconnect_reset(m) EXCEPT !.conn = conn, !.state = "connecting"]

(* _mosquitto_send_connect: another thread may have sent something first.  *)
_mosquitto_send_connect(m, id) ==
    [SendUp(m, [cmd |-> "CONNECT", id |-> id, clean |-> m.clean_session, will |-> m.will,
                username |-> m.username, password |-> m.password])
     EXCEPT !.state = "new"]

(* _mosquitto_message_retry_check: for messages that are due, the packet   *)
(* they wait to see answered is sent again.                                *)
RepeatOut(m, msg) ==
    IF ~msg.due THEN m
    ELSE CASE msg.state \in {"wait_for_puback", "wait_for_pubrec"} ->
                SendUp(m, Publish([msg EXCEPT !.dup = TRUE]))
           [] msg.state = "wait_for_pubcomp" -> SendUp(m, Ack("PUBREL", msg.mid))
           [] OTHER -> m
RepeatIn(m, msg) == IF msg.due THEN SendUp(m, Ack("PUBREC", msg.mid)) ELSE m
_mosquitto_message_retry_check(m) ==
    LET Repeated(msg) == IF msg.due /\ msg.state # "invalid"
                         THEN [msg EXCEPT !.due = FALSE, !.dup = TRUE] ELSE msg
    IN [FoldLeft(RepeatIn, FoldLeft(RepeatOut, m, m.out), m.in) EXCEPT
           !.out = [i \in DOMAIN m.out |-> Repeated(m.out[i])],
           !.in = [i \in DOMAIN m.in |-> [m.in[i] EXCEPT !.due = FALSE]]]
=============================================================================
