---------------------------- MODULE BrokerPersist ----------------------------
(***************************************************************************)
(* mosquitto/src/persist.c: the database file of the broker.               *)
(*                                                                         *)
(* A file is the sequence of its chunks; torn says that it ends within     *)
(* one.  A file without chunks is empty.  $SYS messages of the broker's    *)
(* own do not occur (sys_interval 0).                                      *)
(***************************************************************************)
EXTENDS Broker

NoFile == [chunks |-> <<>>, torn |-> FALSE, there |-> FALSE]
File(chunks, torn) == [chunks |-> chunks, torn |-> torn, there |-> TRUE]

System(topic) == topic # <<>> /\ topic[1] = "$SYS"

(* mqtt3_db_message_store_write: the chunk of a message, and which are     *)
(* left out: $SYS messages that are only retained; others lose the flag.   *)
StoreChunk(db, s) ==
    [chunk |-> "store", db_id |-> s,
     msg |-> [source |-> db.store[s].source, source_mid |-> db.store[s].source_mid,
              topic |-> db.store[s].topic, qos |-> db.store[s].qos,
              retain |-> db.store[s].retain /\ ~System(db.store[s].topic),
              payload |-> db.store[s].payload]]

Left(db, s) == System(db.store[s].topic) /\ db.store[s].ref <= 1 /\ db.store[s].dest_ids = {}

(* mqtt3_db_message_store_write: the newest message first.                 *)
mqtt3_db_message_store_write(db) ==
    LET newest == [i \in 1..db.last_db_id |-> db.last_db_id + 1 - i]
        saved  == Picked(newest, {i \in DOMAIN newest : newest[i] \in DOMAIN db.store /\ ~Left(db, newest[i])})
    IN [i \in DOMAIN saved |-> StoreChunk(db, saved[i])]

MessagesUnwritten(db, c) == <<>>    \* Mutant: clients are saved without their messages

(* mqtt3_db_client_messages_write                                          *)
mqtt3_db_client_messages_write(db, c) ==
    [i \in DOMAIN db.ctx[c].msgs |->
        LET m == db.ctx[c].msgs[i]
        IN [chunk |-> "msg", id |-> db.ctx[c].id, db_id |-> m.store, mid |-> m.mid, qos |-> m.qos,
            retain |-> m.retain, dir |-> m.dir, state |-> m.state, dup |-> m.dup]]

Durable(db, c) == db.ctx[c].id # NoId /\ ~db.ctx[c].clean

(* mqtt3_db_client_write: persistent clients, each with its messages.      *)
mqtt3_db_client_write(db) ==
    LET One(c, acc) == acc \o <<[chunk |-> "client", id |-> db.ctx[c].id,
                                 last_mid |-> db.ctx[c].last_mid]>>
                           \o mqtt3_db_client_messages_write(db, c)
    IN FoldSet(One, <<>>, {c \in DOMAIN db.ctx : Durable(db, c)})

(* _db_subs_retain_write: a node before what is below it, siblings in      *)
(* order; subscriptions of persistent clients and the retained message.    *)
Sooner(tree, p, q) == IsStrictPrefix(p, q) \/ (~IsStrictPrefix(q, p) /\ Earlier(tree, p, q))
_db_subs_retain_write(db, p) ==
    LET subs == Picked(db.subs[p], {i \in DOMAIN db.subs[p] : Durable(db, db.subs[p][i].ctx)})
        kept == db.retained[p] # 0 /\ ~System(db.store[db.retained[p]].topic)
    IN [i \in DOMAIN subs |-> [chunk |-> "sub", id |-> db.ctx[subs[i].ctx].id,
                               sub |-> IF p[1] = "" THEN Tail(p) ELSE p, qos |-> subs[i].qos]]
       \o IF kept THEN <<[chunk |-> "retain", db_id |-> db.retained[p]]>> ELSE <<>>

mqtt3_db_subs_retain_write(db) ==
    LET Enter(p, seq) ==
            InsertAt(seq, Cardinality({i \in DOMAIN seq : Sooner(db.tree, seq[i], p)}) + 1, p)
        Below(root) == FoldSet(Enter, <<>>, {p \in Range(db.tree) : p[1] = root})
        nodes == FoldLeft(LAMBDA acc, root : acc \o Below(root), <<>>, db.roots)
    IN FoldLeft(LAMBDA acc, p : acc \o _db_subs_retain_write(db, p), <<>>, nodes)

(* mqtt3_db_backup, when every write succeeds.  The new file takes the     *)
(* place of the old one in one step (rename).                              *)
mqtt3_db_backup(db) ==
    File(<<[chunk |-> "cfg", last_db_id |-> db.last_db_id]>> \o mqtt3_db_message_store_write(db)
             \o mqtt3_db_client_write(db) \o mqtt3_db_subs_retain_write(db), FALSE)
-----------------------------------------------------------------------------
(* _db_find_or_add_context: an offline client; conns are numbers for its   *)
(* context that are free.                                                  *)
_db_find_or_add_context(db, conns, id, last_mid) ==
    LET found == ById(db, id)
        c     == IF found # {} THEN CHOOSE f \in found : TRUE ELSE Min(conns \ DOMAIN db.ctx)
        db1   == IF found # {} THEN db
                 ELSE [mqtt3_context_init(db, c, FALSE) EXCEPT !.ctx[c].id = id, !.ctx[c].clean = FALSE]
    IN [db |-> IF last_mid = 0 THEN db1 ELSE [db1 EXCEPT !.ctx[c].last_mid = last_mid], c |-> c]

_db_client_chunk_restore(db, conns, k) ==
    _db_find_or_add_context(db, conns, k.id, k.last_mid).db

(* _db_msg_store_chunk_restore: nobody refers to the message yet.          *)
_db_msg_store_chunk_restore(db, k) ==
    [db EXCEPT !.store = With1(@, k.db_id,
        [ref |-> 0, dest_ids |-> {}, source |-> k.msg.source, source_mid |-> k.msg.source_mid,
         topic |-> k.msg.topic, qos |-> k.msg.qos, retain |-> k.msg.retain, payload |-> k.msg.payload])]

RestoreUncounted(db, conns, k) ==    \* Mutant: the reference is not counted
    LET r == _db_find_or_add_context(db, conns, k.id, 0)
    IN [r.db EXCEPT !.ctx[r.c].msgs = Append(@, [store |-> k.db_id] @@ k)]

(* _db_client_msg_restore: the counters of the client are left alone.      *)
_db_client_msg_restore(db, conns, k) ==
    LET r == _db_find_or_add_context(Referenced(db, k.db_id), conns, k.id, 0)
    IN [r.db EXCEPT !.ctx[r.c].msgs = Append(@, [store |-> k.db_id, mid |-> k.mid, dir |-> k.dir,
                                                 state |-> k.state, dup |-> k.dup, qos |-> k.qos,
                                                 retain |-> k.retain])]

RestoreSubQos0(db, conns, k) ==    \* Mutant: the QoS of a subscription is lost
    LET r == _db_find_or_add_context(db, conns, k.id, 0) IN mqtt3_sub_add(r.db, r.c, k.sub, 0)

(* _db_sub_chunk_restore, _db_restore_sub                                  *)
_db_restore_sub(db, conns, k) ==
    LET r == _db_find_or_add_context(db, conns, k.id, 0) IN mqtt3_sub_add(r.db, r.c, k.sub, k.qos)

(* _db_retain_chunk_restore: the message is distributed without a source.  *)
_db_retain_chunk_restore(db, k) ==
    LET s == db.store[k.db_id]
    IN mqtt3_db_messages_queue(db, NoId, s.topic, s.qos, s.retain, k.db_id)

(* mqtt3_db_restore: chunk by chunk; a message that is not there, or the   *)
(* end of the file within a chunk, is an error and the broker does not     *)
(* start.                                                                  *)
RestoreChunk(conns, acc, k) ==
    IF ~acc.ok THEN acc
    ELSE CASE k.chunk = "cfg"   -> [acc EXCEPT !.db.last_db_id = k.last_db_id]
           [] k.chunk = "store" -> [acc EXCEPT !.db = _db_msg_store_chunk_restore(@, k)]
           [] k.chunk = "client" -> [acc EXCEPT !.db = _db_client_chunk_restore(@, conns, k)]
           [] k.chunk \in {"msg", "retain"} /\ k.db_id \notin DOMAIN acc.db.store ->
                [acc EXCEPT !.ok = FALSE]
           [] k.chunk = "msg" /\ k.db_id \in DOMAIN acc.db.store ->
                [acc EXCEPT !.db = _db_client_msg_restore(@, conns, k)]
           [] k.chunk = "retain" /\ k.db_id \in DOMAIN acc.db.store ->
                [acc EXCEPT !.db = _db_retain_chunk_restore(@, k)]
           [] k.chunk = "sub" -> [acc EXCEPT !.db = _db_restore_sub(@, conns, k)]
mqtt3_db_restore(db, conns, file) ==
    LET all == FoldLeft(LAMBDA acc, k : RestoreChunk(conns, acc, k), [db |-> db, ok |-> TRUE], file.chunks)
    IN [all EXCEPT !.ok = @ /\ ~file.torn]
=============================================================================
