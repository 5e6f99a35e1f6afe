------------------------------ MODULE BrokerDb ------------------------------
(***************************************************************************)
(* mosquitto/src/database.c, subs.c and context.c: what the broker keeps   *)
(* (struct mosquitto_db) and the functions its handlers call on it.  Each  *)
(* C function is an operator from the database before to the one after.    *)
(*                                                                         *)
(* db.store    messages by db_id, with the references counted by the code; *)
(* db.tree     nodes of the subscription tree (TopicTree), with            *)
(* db.subs     the subscriptions [ctx, qos] and                            *)
(* db.retained the retained message (0: none) of each node;                *)
(* db.ctx      client contexts, db.disused those waiting to be freed.      *)
(***************************************************************************)
EXTENDS Security

CONSTANTS
    max_inflight,               \* 0: no limit
    max_queued,                 \* 0: no limit
    allow_duplicate_messages,
    queue_qos0_messages,
    upgrade_outgoing_qos,
    MidMax                      \* message ids wrap behind this (65535)

ASSUME DbAssumption ==
    /\ {max_inflight, max_queued} \subseteq Nat /\ MidMax \in Nat \ {0}
    /\ {allow_duplicate_messages, queue_qos0_messages, upgrade_outgoing_qos} \subseteq BOOLEAN

NoId == "none"
NoWill == <<>>

(* mqtt3_db_open without a persistence file, and main: the security files  *)
(* are read next.                                                          *)
mqtt3_db_open(files) ==
    [store |-> <<>>, last_db_id |-> 0, roots |-> <<"", "$SYS">>, tree |-> <<>>,
     subs |-> <<>>, retained |-> <<>>, ctx |-> <<>>, disused |-> {},
     sec |-> mosquitto_security_init(Closed, files)]

mosquitto_acl_check(db, c, topic, access) == acl_check_default(db.sec, db.ctx[c], topic, access)

Without(f, S) == [x \in DOMAIN f \ S |-> f[x]]
With1(f, x, v) == [y \in DOMAIN f \cup {x} |-> IF y = x THEN v ELSE f[y]]
-----------------------------------------------------------------------------
(* mqtt3_db_message_store: a message without references yet.               *)
mqtt3_db_message_store(db, source, source_mid, topic, qos, payload, retain) ==
    LET s == db.last_db_id + 1
    IN [db EXCEPT !.last_db_id = s,
                  !.store = With1(@, s, [ref |-> 0, source |-> source, source_mid |-> source_mid,
                                         topic |-> topic, qos |-> qos, retain |-> retain,
                                         payload |-> payload, dest_ids |-> {}])]

Referenced(db, s) == [db EXCEPT !.store[s].ref = @ + 1]

(* mosquitto__db_msg_store_deref and _remove                               *)
mosquitto__db_msg_store_deref(db, s) ==
    IF db.store[s].ref = 1 THEN [db EXCEPT !.store = Without(@, {s})]
                           ELSE [db EXCEPT !.store[s].ref = @ - 1]

DerefNone(db, stores) == db    \* Mutant: messages are freed without their stores
DerefAll(db, stores) == FoldLeft(mosquitto__db_msg_store_deref, db, stores)

Send(db, c, packet) == [db EXCEPT !.ctx[c].out = Append(@, packet)]

(* _mosquitto_mid_generate                                                 *)
_mosquitto_mid_generate(context) == (context.last_mid % MidMax) + 1
-----------------------------------------------------------------------------
Publishing(qos) == CASE qos = 0 -> "publish_qos0"
                     [] qos = 1 -> "publish_qos1"
                     [] qos = 2 -> "publish_qos2"
                     [] OTHER   -> "invalid"

NeverReleased(msg, inward) == msg    \* Mutant

(* A queued message gets its turn; an incoming one enters state inward.    *)
Released(msg, inward) ==
    IF msg.state # "queued" THEN msg
    ELSE [msg EXCEPT !.state = IF msg.dir = "out" THEN Publishing(msg.qos) ELSE inward]

(* _message_remove: message i leaves the list.  Then the queued messages   *)
(* at the head of the list get their turn, all of them: the counter that   *)
(* max_inflight is compared with is never incremented.                     *)
_message_remove(msgs, i) ==
    LET rest == RemoveAt(msgs, i)
        Head1(k) == \A j \in 1..k : rest[j].state = "queued"
    IN [k \in DOMAIN rest |-> IF max_inflight > 0 /\ Head1(k)
                              THEN Released(rest[k], "send_pubrec") ELSE rest[k]]

(* The loop of mqtt3_db_message_delete and mqtt3_db_message_release:       *)
(* queued messages among the first max_inflight get their turn, messages   *)
(* with this mid and direction are removed, and the loop ends behind the   *)
(* first max_inflight once one is.  back is 1 where a removed message is   *)
(* not counted.  gone: stores of the removed messages; admitted: incoming  *)
(* messages that got their turn.                                           *)
ScanStep(mid, dir, back, acc) ==
    LET i    == acc.index + 1
        m    == acc.l[acc.pos]
        turn == i <= max_inflight /\ m.state = "queued"
        l1   == IF turn THEN [acc.l EXCEPT ![acc.pos] = Released(@, "wait_for_pubrel")] ELSE acc.l
        adm  == IF turn /\ m.dir = "in" THEN Append(acc.admitted, m.mid) ELSE acc.admitted
    IN IF acc.stop THEN acc
       ELSE IF m.mid = mid /\ m.dir = dir
       THEN [l |-> _message_remove(l1, acc.pos), pos |-> acc.pos, index |-> i - back,
             gone |-> Append(acc.gone, m.store), admitted |-> adm,
             stop |-> i - back > max_inflight]
       ELSE [l |-> l1, pos |-> acc.pos + 1, index |-> i, gone |-> acc.gone,
             admitted |-> adm, stop |-> i > max_inflight /\ acc.gone # <<>>]

Scan(msgs, mid, dir, back) ==
    FoldLeft(LAMBDA acc, k : ScanStep(mid, dir, back, acc),
             [l |-> msgs, pos |-> 1, index |-> 0, gone |-> <<>>, admitted |-> <<>>, stop |-> FALSE],
             [k \in 1..Len(msgs) |-> k])

AfterScanUncounted(db, c, scan) ==    \* Mutant: msg_count12 is not decremented
    DerefAll([db EXCEPT !.ctx[c].msgs = scan.l], scan.gone)

AfterScan(db, c, scan) ==
    LET Counted(msgs) == Cardinality({k \in DOMAIN msgs : msgs[k].qos > 0})
        done == Counted(db.ctx[c].msgs) - Counted(scan.l)
    IN DerefAll([db EXCEPT !.ctx[c].msgs = scan.l, !.ctx[c].count12 = @ - done], scan.gone)

mqtt3_db_message_delete(db, c, mid, dir) ==
    AfterScan(db, c, Scan(db.ctx[c].msgs, mid, dir, 1))

(* mqtt3_db_message_update: the first message with this mid and direction. *)
mqtt3_db_message_update(db, c, mid, dir, state) ==
    LET hits == {i \in DOMAIN db.ctx[c].msgs :
                    db.ctx[c].msgs[i].mid = mid /\ db.ctx[c].msgs[i].dir = dir}
    IN IF hits = {} THEN db ELSE [db EXCEPT !.ctx[c].msgs[Min(hits)].state = state]

(* mqtt3_db_message_insert: the state a message would get, or why not.     *)
InsertState(db, c, dir, qos, retain, s) ==
    LET context == db.ctx[c]
    IN CASE context.id = NoId -> "gone"
         [] /\ context.id # NoId
            /\ ~allow_duplicate_messages /\ dir = "out" /\ ~retain
            /\ context.id \in db.store[s].dest_ids -> "duplicate"
         [] OTHER ->
            IF context.sock
            THEN IF qos = 0 \/ max_inflight = 0 \/ context.count12 < max_inflight
                 THEN IF dir = "out" THEN Publishing(qos) ELSE "wait_for_pubrel"
                 ELSE IF max_queued = 0 \/ context.count12 - max_inflight < max_queued
                      THEN "queued" ELSE "dropped"
            ELSE IF qos = 0 /\ ~queue_qos0_messages THEN "dropped"
                 ELSE IF max_queued > 0 /\ context.count12 >= max_queued
                      THEN "dropped" ELSE "queued"

EnlistedFirst(msgs, msg) == <<msg>> \o msgs    \* Mutant: inserted at the head
Enlisted(msgs, msg) == Append(msgs, msg)

mqtt3_db_message_insert(db, c, mid, dir, qos, retain, s) ==
    LET state == InsertState(db, c, dir, qos, retain, s)
        msg   == [store |-> s, mid |-> mid, dir |-> dir, state |-> state, dup |-> FALSE,
                  qos |-> qos, retain |-> retain]
    IN IF state \in {"gone", "duplicate", "dropped"} THEN db
       ELSE [db EXCEPT
               !.store[s].ref = @ + 1,
               !.store[s].dest_ids = IF ~allow_duplicate_messages /\ dir = "out" /\ ~retain
                                     THEN @ \cup {db.ctx[c].id} ELSE @,
               !.ctx[c].msgs = Enlisted(@, msg),
               !.ctx[c].count12 = IF qos > 0 THEN @ + 1 ELSE @]

(* A message goes to a client with the lower QoS; a mid is used up even    *)
(* when the message is dropped.                                            *)
Offer(db, c, qos, retain, s) ==
    LET mid == IF qos > 0 THEN _mosquitto_mid_generate(db.ctx[c]) ELSE 0
        db1 == IF qos > 0 THEN [db EXCEPT !.ctx[c].last_mid = mid] ELSE db
    IN mqtt3_db_message_insert(db1, c, mid, "out", qos, retain, s)

Lower(a, b) == IF a > b THEN b ELSE a
-----------------------------------------------------------------------------
AddNodes(db, tokens) ==
    LET tree == Grown(db.tree, tokens)
        new  == Range(tree) \ Range(db.tree)
    IN [db EXCEPT !.tree = tree,
                  !.subs = [p \in Range(tree) |-> IF p \in new THEN <<>> ELSE @[p]],
                  !.retained = [p \in Range(tree) |-> IF p \in new THEN 0 ELSE @[p]]]

DropNodes(db, tokens) ==
    LET tree == Pruned(db.tree, tokens, {p \in Range(db.tree) : db.subs[p] # <<>> \/ db.retained[p] # 0})
    IN [db EXCEPT !.tree = tree,
                  !.subs = [p \in Range(tree) |-> @[p]],
                  !.retained = [p \in Range(tree) |-> @[p]]]

(* _subs_process: the retained message of a node is replaced or, by an     *)
(* empty one, removed; then the message is offered to its subscribers.     *)
Retained(db, p, s) ==
    LET db1 == IF db.retained[p] = 0 THEN db
               ELSE mosquitto__db_msg_store_deref(db, db.retained[p])
    IN IF db.store[s].payload = 0 THEN [db1 EXCEPT !.retained[p] = 0]
       ELSE Referenced([db1 EXCEPT !.retained[p] = s], s)

_subs_process(db, p, source_id, topic, qos, retain, s) ==
    LET set_retain == retain /\ "+" \notin Range(p) /\ Last(p) # "#"
        db1 == IF set_retain THEN Retained(db, p, s) ELSE db
        One(d, leaf) ==
            IF d.ctx[leaf.ctx].id = NoId \/ ~mosquitto_acl_check(d, leaf.ctx, topic, "read") THEN d
            ELSE Offer(d, leaf.ctx, IF upgrade_outgoing_qos THEN leaf.qos ELSE Lower(qos, leaf.qos),
                       FALSE, s)
    IN IF source_id = NoId THEN db1 ELSE FoldLeft(One, db1, db1.subs[p])

(* mqtt3_db_messages_queue: the message is held while it is handed out.  A *)
(* root other than "" and $SYS exists only once somebody has subscribed    *)
(* below it.                                                               *)
mqtt3_db_messages_queue(db, source_id, topic, qos, retain, s) ==
    LET tokens == _sub_topic_tokenise(topic)
        known  == tokens[1] \in Range(db.roots)
        db1    == IF known /\ retain THEN AddNodes(Referenced(db, s), tokens)
                  ELSE Referenced(db, s)
        db2    == IF known
                  THEN FoldLeft(LAMBDA d, p : _subs_process(d, p, source_id, topic, qos, retain, s),
                                db1, _sub_search(db1.tree, tokens))
                  ELSE db1
    IN mosquitto__db_msg_store_deref(db2, s)

(* mqtt3_db_messages_easy_queue                                            *)
mqtt3_db_messages_easy_queue(db, source_id, topic, qos, payload, retain) ==
    mqtt3_db_messages_queue(mqtt3_db_message_store(db, source_id, 0, topic, qos, payload, retain),
                            source_id, topic, qos, retain, db.last_db_id + 1)

ReleaseKeeps(db, c, mid) ==    \* Mutant: a released message stays in the list
    LET hits == {m \in Range(db.ctx[c].msgs) : m.mid = mid /\ m.dir = "in"}
        Go(m, d) == mqtt3_db_messages_queue(d, d.store[m.store].source, d.store[m.store].topic,
                                            d.store[m.store].qos, m.retain, m.store)
    IN FoldSet(Go, db, hits)

HandOut(db, m) ==
    LET st == db.store[m.store]
    IN IF st.topic = <<>> THEN db
       ELSE mqtt3_db_messages_queue(db, st.source, st.topic, st.qos, m.retain, m.store)
Admit(db, c, scan) ==
    FoldLeft(LAMBDA d, x : Send(d, c, [cmd |-> "PUBREC", mid |-> x]),
             AfterScan(db, c, scan), scan.admitted)
ScannedIn(db, c, mid) == Admit(db, c, Scan(db.ctx[c].msgs, mid, "in", 0))

(* mqtt3_db_message_release: a QoS 2 message of the client is complete and *)
(* goes out; a refused one (without topic) is only removed.                *)
mqtt3_db_message_release(db, c, mid) ==
    LET hits == {i \in DOMAIN db.ctx[c].msgs :
                    db.ctx[c].msgs[i].mid = mid /\ db.ctx[c].msgs[i].dir = "in"}
    IN ScannedIn(IF hits = {} THEN db ELSE HandOut(db, db.ctx[c].msgs[Min(hits)]), c, mid)
-----------------------------------------------------------------------------
(* mqtt3_sub_add: a second subscription of a client to the same filter     *)
(* only changes its QoS.                                                   *)
mqtt3_sub_add(db, c, sub, qos) ==
    LET tokens == _sub_topic_tokenise(sub)
        db1    == AddNodes([db EXCEPT !.roots = IF tokens[1] \in Range(@) THEN @
                                                ELSE <<tokens[1]>> \o @], tokens)
        same   == {i \in DOMAIN db1.subs[tokens] :
                      db1.ctx[db1.subs[tokens][i].ctx].id = db.ctx[c].id}
    IN IF same # {} THEN [db1 EXCEPT !.subs[tokens][Min(same)].qos = qos]
       ELSE [db1 EXCEPT !.subs[tokens] = Append(@, [ctx |-> c, qos |-> qos]),
                        !.ctx[c].subs = @ \cup {tokens}]

NotOf(c, leaves) == Picked(leaves, {i \in DOMAIN leaves : leaves[i].ctx # c})

SubRemoveListed(db, c, sub) ==    \* Mutant: the client's own list keeps the node
    LET tokens == _sub_topic_tokenise(sub)
    IN IF tokens \in Range(db.tree)
       THEN DropNodes([db EXCEPT !.subs[tokens] = NotOf(c, @)], tokens) ELSE db

(* mqtt3_sub_remove                                                        *)
mqtt3_sub_remove(db, c, sub) ==
    LET tokens == _sub_topic_tokenise(sub)
    IN IF tokens \in Range(db.tree)
       THEN DropNodes([db EXCEPT !.subs[tokens] = NotOf(c, @),
                                 !.ctx[c].subs = @ \ {tokens}], tokens)
       ELSE DropNodes(db, tokens)

(* mqtt3_subs_clean_session: all subscriptions of a client, and a root     *)
(* that is left empty, unless it is one of the first two.                  *)
mqtt3_subs_clean_session(db, c) ==
    LET db1 == FoldSet(LAMBDA p, d : DropNodes([d EXCEPT !.subs[p] = NotOf(c, @)], p),
                       db, db.ctx[c].subs)
        used == {p[1] : p \in Range(db1.tree)}
        freed == {p[1] : p \in db.ctx[c].subs} \ (used \cup {"", "$SYS"})
    IN [db1 EXCEPT !.ctx[c].subs = {},
                   !.roots = Picked(@, {i \in DOMAIN @ : @[i] \notin freed})]

(* _retain_process, mqtt3_retain_queue                                     *)
_retain_process(db, c, sub_qos, p) ==
    LET s == db.retained[p]
    IN IF s = 0 \/ ~mosquitto_acl_check(db, c, db.store[s].topic, "read") THEN db
       ELSE Offer(db, c, Lower(db.store[s].qos, sub_qos), TRUE, s)
mqtt3_retain_queue(db, c, sub, sub_qos) ==
    FoldLeft(LAMBDA d, p : _retain_process(d, c, sub_qos, p),
             db, _retain_search(db.tree, _sub_topic_tokenise(sub)))
-----------------------------------------------------------------------------
(* mqtt3_db_message_store_find                                             *)
StoreFound(db, c, mid) ==
    {m.store : m \in {x \in Range(db.ctx[c].msgs) :
                         x.dir = "in" /\ db.store[x.store].source_mid = mid}}

(* mqtt3_db_message_reconnect_reset: what was under way is sent again, and *)
(* as many queued messages as may be in flight get their turn.             *)
mqtt3_db_message_reconnect_reset(db, c) ==
    LET Reset(m) ==
            IF m.dir = "in" \/ m.state = "queued" THEN m
            ELSE [m EXCEPT !.state = IF m.qos = 2 /\ m.state = "wait_for_pubcomp"
                                     THEN "resend_pubrel" ELSE Publishing(m.qos)]
        Turn(m, i) == IF (max_inflight = 0 \/ i <= max_inflight) /\ m.state = "queued"
                      THEN [m EXCEPT !.state = Publishing(m.qos)] ELSE m
        msgs == db.ctx[c].msgs
    IN [db EXCEPT !.ctx[c].msgs = [i \in DOMAIN msgs |-> Turn(Reset(msgs[i]), i)],
                  !.ctx[c].count12 = Cardinality({i \in DOMAIN msgs : msgs[i].qos > 0})]

(* mqtt3_db_message_timeout_check: the messages <<context, index>> in late *)
(* have waited longer than retry_interval for an answer.           *)
Retry == [wait_for_puback |-> "publish_qos1", wait_for_pubrec |-> "publish_qos2",
          wait_for_pubrel |-> "send_pubrec", wait_for_pubcomp |-> "resend_pubrel"]

Unanswered(db) ==
    UNION {{<<c, i>> : i \in {j \in DOMAIN db.ctx[c].msgs : db.ctx[c].msgs[j].state \in DOMAIN Retry}} :
              c \in {x \in DOMAIN db.ctx : db.ctx[x].sock}}

mqtt3_db_message_timeout_check(db, late) ==
    LET Again(m) == [m EXCEPT !.state = Retry[m.state], !.dup = TRUE]
        Checked(c, msgs) ==
            [i \in DOMAIN msgs |-> IF <<c, i>> \in late THEN Again(msgs[i]) ELSE msgs[i]]
    IN [db EXCEPT !.ctx = [c \in DOMAIN @ |-> [@[c] EXCEPT !.msgs = Checked(c, db.ctx[c].msgs)]]]

(* mqtt3_db_message_write: every message whose state asks for a packet     *)
(* sends it.  QoS 0 messages are done with it.  An incoming message in the *)
(* queue is counted twice when it gets its turn here.                      *)
PacketOf(db, m) ==
    CASE m.state \in {"publish_qos0", "publish_qos1", "publish_qos2"} ->
            [cmd |-> "PUBLISH", mid |-> m.mid, qos |-> m.qos, dup |-> m.dup,
             retain |-> m.retain, topic |-> db.store[m.store].topic,
             payload |-> db.store[m.store].payload]
      [] m.state = "send_pubrec"   -> [cmd |-> "PUBREC", mid |-> m.mid]
      [] m.state = "resend_pubrel" -> [cmd |-> "PUBREL", mid |-> m.mid]
SentOff(m) ==
    CASE m.state = "publish_qos1"  -> [m EXCEPT !.dup = TRUE, !.state = "wait_for_puback"]
      [] m.state = "publish_qos2"  -> [m EXCEPT !.dup = TRUE, !.state = "wait_for_pubrec"]
      [] m.state = "send_pubrec"   -> [m EXCEPT !.state = "wait_for_pubrel"]
      [] m.state = "resend_pubrel" -> [m EXCEPT !.state = "wait_for_pubcomp"]

WriteStep(db, acc) ==
    LET m0  == acc.l[acc.pos]
        n   == IF m0.dir = "in" THEN acc.n + 1 ELSE acc.n
        adm == m0.state = "queued" /\ m0.dir = "in" /\ (max_inflight = 0 \/ n < max_inflight)
        m   == IF adm THEN [m0 EXCEPT !.state = "send_pubrec"] ELSE m0
        n1  == IF adm THEN n + 1 ELSE n
    IN CASE m.state = "publish_qos0" ->
              [l |-> _message_remove(acc.l, acc.pos), pos |-> acc.pos, n |-> n1,
               out |-> Append(acc.out, PacketOf(db, m)), gone |-> Append(acc.gone, m.store)]
         [] m.state \in {"publish_qos1", "publish_qos2", "send_pubrec", "resend_pubrel"} ->
              [acc EXCEPT !.l[acc.pos] = SentOff(m), !.pos = @ + 1, !.n = n1,
                          !.out = Append(@, PacketOf(db, m))]
         [] OTHER -> [acc EXCEPT !.pos = @ + 1, !.n = n1]

mqtt3_db_message_write(db, c) ==
    LET msgs == db.ctx[c].msgs
        done == FoldLeft(LAMBDA acc, k : WriteStep(db, acc),
                         [l |-> msgs, pos |-> 1, n |-> 0, out |-> <<>>, gone |-> <<>>],
                         [k \in 1..Len(msgs) |-> k])
    IN DerefAll([db EXCEPT !.ctx[c].msgs = done.l, !.ctx[c].out = @ \o done.out], done.gone)
-----------------------------------------------------------------------------
(* mqtt3_context_init                                                      *)
mqtt3_context_init(db, c, sock) ==
    [db EXCEPT !.ctx = With1(@, c,
        [id |-> NoId, sock |-> sock, state |-> "new", clean |-> TRUE, subs |-> {}, msgs |-> <<>>,
         count12 |-> 0, last_mid |-> 0, will |-> NoWill, out |-> <<>>,
         username |-> NoUser, password |-> "", acl |-> NoAcl])]

DisconnectAlwaysWills(db, c) ==    \* Mutant: a goodbye does not silence the will
    LET w   == db.ctx[c].will
        db1 == IF w = NoWill THEN db
               ELSE mqtt3_db_messages_easy_queue(db, db.ctx[c].id, w.topic, w.qos, w.payload, w.retain)
    IN [db1 EXCEPT !.ctx[c].will = NoWill, !.ctx[c].sock = FALSE, !.ctx[c].out = <<>>]

(* mqtt3_context_disconnect: unless the client said goodbye its will is    *)
(* published.                                                              *)
mqtt3_context_disconnect(db, c) ==
    LET w == db.ctx[c].will
    IN [IF db.ctx[c].state # "disconnecting" /\ w # NoWill
           /\ mosquitto_acl_check(db, c, w.topic, "write")
        THEN mqtt3_db_messages_easy_queue(db, db.ctx[c].id, w.topic, w.qos, w.payload, w.retain)
        ELSE db EXCEPT !.ctx[c].will = NoWill, !.ctx[c].sock = FALSE, !.ctx[c].out = <<>>]

DisconnectForgets(db, c) ==    \* Mutant: every session is treated as a clean one
    IF db.ctx[c].state = "disconnected" THEN db
    ELSE [mqtt3_context_disconnect(db, c) EXCEPT
             !.disused = @ \cup {c}, !.ctx[c].id = NoId, !.ctx[c].state = "disconnected"]

(* do_disconnect: the context of a clean session loses its id at once and  *)
(* is freed by the next round of the main loop.                            *)
do_disconnect(db, c) ==
    IF db.ctx[c].state = "disconnected" THEN db
    ELSE [mqtt3_context_disconnect(db, c) EXCEPT
             !.disused = IF db.ctx[c].clean THEN @ \cup {c} ELSE @,
             !.ctx[c].id = IF db.ctx[c].clean THEN NoId ELSE @,
             !.ctx[c].state = "disconnected"]

CleanupKeepsSubs(db, c) ==    \* Mutant: the tree still points to the context
    [DerefAll(db, [i \in DOMAIN db.ctx[c].msgs |-> db.ctx[c].msgs[i].store])
        EXCEPT !.ctx = Without(@, {c})]

(* mqtt3_context_cleanup with do_free, mqtt3_db_messages_delete            *)
mqtt3_context_cleanup(db, c) ==
    [DerefAll(mqtt3_subs_clean_session(db, c),
              [i \in DOMAIN db.ctx[c].msgs |-> db.ctx[c].msgs[i].store])
        EXCEPT !.ctx = Without(@, {c})]

(* mosquitto__free_disused_contexts                                        *)
mosquitto__free_disused_contexts(db) ==
    [FoldSet(LAMBDA c, d : mqtt3_context_cleanup(d, c), db, db.disused) EXCEPT !.disused = {}]

(* contexts_by_id                                                          *)
ById(db, id) == {c \in DOMAIN db.ctx : db.ctx[c].id = id}
=============================================================================
