------------------------------- MODULE Broker -------------------------------
(***************************************************************************)
(* mosquitto/src/read_handle.c and read_handle_server.c, and               *)
(* lib/read_handle_shared.c as built for the broker: what each packet of a *)
(* client does.  A handler returns the database and whether the connection *)
(* goes on (its return code is 0).                                         *)
(***************************************************************************)
EXTENDS BrokerDb

Ok(db) == [db |-> db, go |-> TRUE]
Error(db) == [db |-> db, go |-> FALSE]

(* mqtt3_handle_connect, a client id that is known: the old context hands  *)
(* its messages and subscriptions over when both sessions are persistent;  *)
(* then it is disconnected without its will.                               *)
Inherit(db, c, f) ==
    LET new == [db.ctx[c] EXCEPT !.msgs = db.ctx[f].msgs, !.subs = db.ctx[f].subs,
                                 !.last_mid = db.ctx[f].last_mid]
        old == [db.ctx[f] EXCEPT !.msgs = <<>>, !.subs = {}]
        Moved(leaves) == [i \in DOMAIN leaves |-> IF leaves[i].ctx = f
                                                  THEN [leaves[i] EXCEPT !.ctx = c] ELSE leaves[i]]
        subs == [p \in DOMAIN db.subs |-> IF p \in db.ctx[f].subs THEN Moved(db.subs[p]) ELSE db.subs[p]]
        db1 == [db EXCEPT !.ctx[c] = new, !.ctx[f] = old, !.subs = subs]
    IN IF db.ctx[f].msgs = <<>> THEN db1 ELSE mqtt3_db_message_reconnect_reset(db1, c)

TakeOverLeaves(db, c, f, clean) ==    \* Mutant: the old connection is not ended
    IF ~clean /\ ~db.ctx[f].clean THEN Inherit(db, c, f) ELSE db

TakeOver(db, c, f, clean) ==
    do_disconnect([IF ~clean /\ ~db.ctx[f].clean THEN Inherit(db, c, f) ELSE db
                       EXCEPT !.ctx[f].clean = TRUE, !.ctx[f].state = "disconnecting"], f)

(* Outgoing messages the client may no longer read leave the list; the     *)
(* counters keep them.                                                     *)
PurgeDenied(db, c) ==
    LET msgs == db.ctx[c].msgs
        no   == {i \in DOMAIN msgs : msgs[i].dir = "out" /\
                    ~mosquitto_acl_check(db, c, db.store[msgs[i].store].topic, "read")}
        gone == Picked(msgs, no)
    IN DerefAll([db EXCEPT !.ctx[c].msgs = Picked(msgs, DOMAIN msgs \ no)],
                [i \in DOMAIN gone |-> gone[i].store])

(* A username must be known to the password file; without one the client   *)
(* is anonymous.                                                           *)
Admitted(db, p) == IF p.username = NoUser THEN db.sec.allow_anonymous
                   ELSE mosquitto_unpwd_check(db.sec, p.username, p.password)

_mosquitto_send_connack(db, c, present) == Send(db, c, [cmd |-> "CONNACK", present |-> present])

mqtt3_handle_connect(db, c, p) ==
    LET found == ById(db, p.id)
        db1   == IF found = {} THEN db ELSE TakeOver(db, c, CHOOSE f \in found : TRUE, p.clean)
        named == [db1.ctx[c] EXCEPT !.will = p.will, !.id = p.id, !.clean = p.clean,
                                    !.username = p.username, !.password = p.password,
                                    !.acl = AclOf(db.sec, p.username)]
        db2   == PurgeDenied([db1 EXCEPT !.ctx[c] = named], c)
    IN IF db.ctx[c].state # "new" \/ ~Admitted(db, p) THEN Error(db)
       ELSE Ok(_mosquitto_send_connack([db2 EXCEPT !.ctx[c].state = "connected"], c,
                                       found # {} /\ ~p.clean))
-----------------------------------------------------------------------------
(* mqtt3_handle_publish: a QoS 2 message is stored and acknowledged, once  *)
(* however often it arrives; a refused one is stored without its topic.    *)
Stored(db, c, p, topic, payload, retain) ==
    IF p.qos > 0 /\ StoreFound(db, c, p.mid) # {}
    THEN [db |-> db, s |-> CHOOSE s \in StoreFound(db, c, p.mid) : TRUE, new |-> FALSE]
    ELSE LET db1 == mqtt3_db_message_store(db, db.ctx[c].id, p.mid, topic, p.qos, payload, retain)
         IN [db |-> db1, s |-> db1.last_db_id, new |-> TRUE]

Incoming(st, c, p, retain) ==
    IF st.new THEN mqtt3_db_message_insert(st.db, c, p.mid, "in", 2, retain, st.s) ELSE st.db
Accepted(st, c, retain) ==
    st.new => InsertState(st.db, c, "in", 2, retain, st.s) = "wait_for_pubrel"

Pubacked(db, c, p) == IF p.qos = 1 THEN Send(db, c, [cmd |-> "PUBACK", mid |-> p.mid]) ELSE db
Pubreced(accepted, db, c, p) ==
    IF accepted THEN Send(db, c, [cmd |-> "PUBREC", mid |-> p.mid]) ELSE db

Refused(st, c, p) == [db |-> Pubreced(Accepted(st, c, FALSE), Incoming(st, c, p, FALSE), c, p),
                      go |-> Accepted(st, c, FALSE)]
process_bad_message(db, c, p) ==
    IF p.qos = 2 THEN Refused(Stored(db, c, p, <<>>, 0, FALSE), c, p) ELSE Ok(Pubacked(db, c, p))

Handed(st, c, p) ==
    IF p.qos = 2 THEN Pubreced(Accepted(st, c, p.retain), Incoming(st, c, p, p.retain), c, p)
    ELSE Pubacked(mqtt3_db_messages_queue(st.db, st.db.ctx[c].id, p.topic, p.qos, p.retain, st.s), c, p)
mqtt3_handle_publish(db, c, p) ==
    IF ~mosquitto_pub_topic_check(p.topic) THEN Error(db)
    ELSE IF ~mosquitto_acl_check(db, c, p.topic, "write") THEN process_bad_message(db, c, p)
    ELSE Ok(Handed(Stored(db, c, p, p.topic, p.payload, p.retain), c, p))
-----------------------------------------------------------------------------
_mosquitto_send_suback(db, c, mid) == Send(db, c, [cmd |-> "SUBACK", mid |-> mid])

(* mqtt3_handle_subscribe: also a repeated subscription gets the retained  *)
(* messages.                                                               *)
mqtt3_handle_subscribe(db, c, p) ==
    IF ~mosquitto_sub_topic_check(p.sub) THEN Error(db)
    ELSE Ok(_mosquitto_send_suback(
                mqtt3_retain_queue(mqtt3_sub_add(db, c, p.sub, p.qos), c, p.sub, p.qos), c, p.mid))

mqtt3_handle_unsubscribe(db, c, p) ==
    IF ~mosquitto_sub_topic_check(p.sub) THEN Error(db)
    ELSE Ok(Send(mqtt3_sub_remove(db, c, p.sub), c, [cmd |-> "UNSUBACK", mid |-> p.mid]))

mqtt3_handle_disconnect(db, c) ==
    Ok(do_disconnect([db EXCEPT !.ctx[c].state = "disconnecting"], c))

PubrecEnds(db, c, mid) ==    \* Mutant: the message is deleted two packets too early
    Ok(Send(mqtt3_db_message_delete(db, c, mid, "out"), c, [cmd |-> "PUBREL", mid |-> mid]))
PubrelKnownOnly(db, c, mid) ==    \* Mutant: an unknown mid is not answered
    IF {m \in Range(db.ctx[c].msgs) : m.mid = mid /\ m.dir = "in"} = {} THEN Ok(db)
    ELSE Ok(Send(mqtt3_db_message_release(db, c, mid), c, [cmd |-> "PUBCOMP", mid |-> mid]))

(* _mosquitto_handle_pubrec and _mosquitto_handle_pubrel of the broker:    *)
(* unknown mids are answered too.                                          *)
broker_handle_pubrec(db, c, mid) ==
    Ok(Send(mqtt3_db_message_update(db, c, mid, "out", "wait_for_pubcomp"), c,
            [cmd |-> "PUBREL", mid |-> mid]))
broker_handle_pubrel(db, c, mid) ==
    Ok(Send(mqtt3_db_message_release(db, c, mid), c, [cmd |-> "PUBCOMP", mid |-> mid]))

(* mqtt3_packet_handle; _mosquitto_packet_read accepts nothing before the  *)
(* CONNECT and disconnects the client on an error.                         *)
mqtt3_packet_handle(db, c, p) ==
    IF db.ctx[c].state = "new" /\ p.cmd # "CONNECT" THEN Error(db)
    ELSE CASE p.cmd = "CONNECT"     -> mqtt3_handle_connect(db, c, p)
           [] p.cmd = "PUBLISH"     -> mqtt3_handle_publish(db, c, p)
           [] p.cmd = "SUBSCRIBE"   -> mqtt3_handle_subscribe(db, c, p)
           [] p.cmd = "UNSUBSCRIBE" -> mqtt3_handle_unsubscribe(db, c, p)
           [] p.cmd = "DISCONNECT"  -> mqtt3_handle_disconnect(db, c)
           [] p.cmd \in {"PUBACK", "PUBCOMP"} -> Ok(mqtt3_db_message_delete(db, c, p.mid, "out"))
           [] p.cmd = "PUBREC"      -> broker_handle_pubrec(db, c, p.mid)
           [] p.cmd = "PUBREL"      -> broker_handle_pubrel(db, c, p.mid)
           [] OTHER -> Error(db)

Concluded(r, c) == IF r.go THEN r.db ELSE do_disconnect(r.db, c)
_mosquitto_packet_read(db, c, p) ==
    Concluded(mqtt3_packet_handle(db, c, p), c)
-----------------------------------------------------------------------------
(* _acl_cleanup: without a list for users, patterns are not freed.         *)
_acl_cleanup(db) ==
    IF db.sec.acl_list = <<>> THEN db
    ELSE [db EXCEPT !.ctx = [c \in DOMAIN @ |-> [@[c] EXCEPT !.acl = NoAcl]],
                    !.sec.acl_list = <<>>, !.sec.acl_patterns = <<>>]

mosquitto_security_cleanup(db) == [_acl_cleanup(db) EXCEPT !.sec.unpwd = <<>>]

NotApplied(db) == db    \* Mutant: who is connected keeps the old rights

(* mosquitto_security_apply: every client has to satisfy the files as they *)
(* are now.  An anonymous one does not satisfy a password file.            *)
Reapplied(c, db) ==
    LET x == db.ctx[c]
    IN IF /\ x.username = NoUser => db.sec.allow_anonymous /\ db.sec.unpwd = <<>>
          /\ mosquitto_unpwd_check(db.sec, x.username, x.password)
       THEN [db EXCEPT !.ctx[c].acl = AclOf(db.sec, x.username)]
       ELSE do_disconnect([db EXCEPT !.ctx[c].state = "disconnecting"], c)
mosquitto_security_apply(db) ==
    FoldSet(Reapplied, db, {c \in DOMAIN db.ctx : db.ctx[c].id # NoId})

(* mosquitto_main_loop after SIGHUP                                        *)
Reloaded(db, files) ==
    LET clean == mosquitto_security_cleanup(db)
    IN mosquitto_security_apply([clean EXCEPT !.sec = mosquitto_security_init(@, files)])
=============================================================================
