-------------------------- MODULE BrokerLifeProofs ---------------------------
(***************************************************************************)
(* The broker over more than one run: what it saves can be restored        *)
(* (Readable), what it restores is in order (Offline), and Holds goes on.  *)
(* LifeHolds is the inductive invariant; the safety properties of          *)
(* BrokerLife that follow from it are at the end.                          *)
(***************************************************************************)
EXTENDS BrokerLife, MqttSystemProofs
-----------------------------------------------------------------------------
(* mqtt3_db_restore: a database while it is restored.                      *)

(* What a chunk behind the stored messages may say.                        *)
Part(k) ==
    \/ k.chunk = "client" /\ k.id \in Clients
    \/ /\ k.chunk = "msg" /\ k.id \in Clients /\ k.db_id \in Nat \ {0}
       /\ k.state = "publish_qos0" => ~(k.qos > 0)
    \/ k.chunk = "sub" /\ k.id \in Clients /\ Topic(k.sub)
    \/ k.chunk = "retain"
(* Chunk i of a file: the last number given out, then m stored messages,   *)
(* then the rest.                                                          *)
Chunk(k, i, m, last) ==
    /\ i = 1 => k.chunk = "cfg" /\ k.last_db_id = last
    /\ i # 1 /\ i <= m + 1 => k.chunk = "store" /\ k.db_id \in 1..last /\ Listed(k.msg.topic)
    /\ i > m + 1 => Part(k)
(* A file that the broker has written, or the beginning of one.            *)
Readable(q) ==
    /\ Listed(q)
    /\ \E m, last \in Nat : \A i \in DOMAIN q : Chunk(q[i], i, m, last)

(* A database while it is restored: the clients are not there yet.  F: the *)
(* numbers for contexts.                                                   *)
Away(F, d) ==
    /\ d.disused = {} /\ DOMAIN d.ctx \subseteq F
    /\ \A c \in DOMAIN d.ctx : d.ctx[c].state = "new" /\ ~d.ctx[c].sock /\ d.ctx[c].id \in Clients
    /\ OneEach(d)
Offline(F, d, H) == Sound(d, H, Nat) /\ Away(F, d)
(* There is one for every client.                                          *)
Roomy(F) == F \subseteq Conns /\ Cardinality(Clients) <= Cardinality(F)

(* The handling of messages and subscriptions brings nobody.               *)
LEMMA AwayKept ==
    ASSUME NEW F, NEW d, Away(F, d), NEW e, Keeps(d, e)
    PROVE  Away(F, e)
BY DEF Away, Keeps, SameClient, OneEach

(* A client that has no context finds a number for one.                    *)
LEMMA FreeNumber ==
    ASSUME NEW F, Roomy(F), NEW d, Away(F, d), NEW id \in Clients, ById(d, id) = {}
    PROVE  LET c == Min(F \ DOMAIN d.ctx) IN c \in F /\ c \notin DOMAIN d.ctx
<1> DEFINE C == DOMAIN d.ctx
           T == Clients \ {id}
           f == [c \in C |-> d.ctx[c].id]
           S == F \ C
<1>1. IsFiniteSet(F) /\ F \subseteq Nat /\ IsFiniteSet(Clients)
  BY SystemAssumption, FS_Subset DEF Roomy
<1>2. IsFiniteSet(T) /\ Cardinality(T) = Cardinality(Clients) - 1
  BY <1>1, FS_RemoveElement
<1>3. f \in Injection(C, T)
  <2>1. \A c \in C : d.ctx[c].id \in T
    BY DEF Away, ById
  <2>2. \A a, b \in C : d.ctx[a].id = d.ctx[b].id => a = b
    BY SystemAssumption DEF Away, OneEach
  <2> QED
    BY <2>1, <2>2 DEF Injection, IsInjective
<1> HIDE DEF f, T
<1>4. IsFiniteSet(C) /\ Cardinality(C) <= Cardinality(T)
  BY <1>2, <1>3, FS_Injection
<1>5. /\ Cardinality(C) \in Nat /\ Cardinality(F) \in Nat
      /\ Cardinality(Clients) \in Nat /\ Cardinality(Clients) <= Cardinality(F)
  BY <1>1, <1>4, FS_CardinalityType DEF Roomy
<1> HIDE DEF C
<1>6. Cardinality(C) < Cardinality(F)
  <2>1. Cardinality(T) \in Nat
    BY <1>2, FS_CardinalityType
  <2> QED
    BY <1>2, <1>4, <1>5, <2>1
<1>7. S # {}
  <2>1. SUFFICES ASSUME F \subseteq C PROVE FALSE
    OBVIOUS
  <2>2. Cardinality(F) <= Cardinality(C)
    BY <1>4, <2>1, FS_Subset
  <2> QED
    BY <1>5, <1>6, <2>2
<1>8. S \subseteq Nat /\ IsFiniteSet(S)
  BY <1>1, FS_Subset
<1> HIDE DEF S
<1>9. Min(S) \in S
  BY <1>7, <1>8, MinIn
<1> QED
  BY <1>9 DEF S, C

(* _db_find_or_add_context                                                 *)
LEMMA FoundOrAdded ==
    ASSUME NEW F, Roomy(F), NEW d, NEW H, Offline(F, d, H), NEW id \in Clients, NEW last_mid
    PROVE  LET r == _db_find_or_add_context(d, F, id, last_mid)
           IN /\ Offline(F, r.db, H) /\ r.c \in DOMAIN r.db.ctx /\ r.db.ctx[r.c].id = id
              /\ r.db.store = d.store /\ r.db.last_db_id = d.last_db_id
<1> DEFINE found == ById(d, id)
           new == Min(F \ DOMAIN d.ctx)
           c == IF found # {} THEN CHOOSE f \in found : TRUE ELSE new
           e == mqtt3_context_init(d, new, FALSE)
           g == [e EXCEPT !.ctx[new].id = id, !.ctx[new].clean = FALSE]
           d1 == IF found # {} THEN d ELSE g
           d2 == [d1 EXCEPT !.ctx[c].last_mid = last_mid]
           r == _db_find_or_add_context(d, F, id, last_mid)
<1>1. r.c = c /\ r.db = IF last_mid = 0 THEN d1 ELSE d2
  BY DEF _db_find_or_add_context
<1> HIDE DEF r
<1>2. Sound(d, H, Nat) /\ Away(F, d) /\ Fields \subseteq DOMAIN d
  BY DEF Offline, Sound, Shaped
<1>3. /\ Offline(F, d1, H) /\ c \in DOMAIN d1.ctx /\ d1.ctx[c].id = id
      /\ d1.store = d.store /\ d1.last_db_id = d.last_db_id
  <2>1. CASE found # {}
    <3>1. c \in found
      BY <2>1
    <3> QED
      BY <2>1, <3>1 DEF ById
  <2>2. CASE found = {}
    <3>1. new \in F /\ new \notin DOMAIN d.ctx
      BY <1>2, <2>2, FreeNumber
    <3>2. c = new /\ d1 = g
      BY <2>2
    <3> HIDE DEF c, d1, new
    <3>3. PICK sock : sock = FALSE
      OBVIOUS
    <3>4. LET a == mqtt3_context_init(d, new, sock)
          IN /\ Sound(a, H, Nat) /\ DOMAIN a = DOMAIN d
             /\ \A f \in DOMAIN d \ {"ctx"} : a[f] = d[f]
             /\ DOMAIN a.ctx = DOMAIN d.ctx \cup {new} /\ a.ctx[new] = Blank(sock)
             /\ \A y \in DOMAIN d.ctx : a.ctx[y] = d.ctx[y]
      BY <1>2, <3>1, InitSound
    <3>5. /\ Sound(e, H, Nat) /\ DOMAIN e = DOMAIN d
          /\ \A f \in DOMAIN d \ {"ctx"} : e[f] = d[f]
          /\ DOMAIN e.ctx = DOMAIN d.ctx \cup {new} /\ e.ctx[new] = Blank(FALSE)
          /\ \A y \in DOMAIN d.ctx : e.ctx[y] = d.ctx[y]
      BY <3>3, <3>4
    <3> HIDE DEF e
    <3>6. "ctx" \in DOMAIN e /\ new \in DOMAIN e.ctx
      BY <1>2, <3>5 DEF Fields
    <3>7. /\ OneCtx(e, g, new)
          /\ g.ctx[new] = [Blank(FALSE) EXCEPT !.id = id, !.clean = FALSE]
      BY <3>5, <3>6 DEF OneCtx
    <3> HIDE DEF g
    <3>8. /\ Context(g.ctx[new]) /\ g.ctx[new].subs = e.ctx[new].subs /\ g.ctx[new].msgs = e.ctx[new].msgs
          /\ g.ctx[new].id = id /\ g.ctx[new].state = "new" /\ g.ctx[new].sock = FALSE
      <4> DEFINE z == [id |-> id, sock |-> FALSE, state |-> "new", clean |-> FALSE, subs |-> {},
                       msgs |-> <<>>, count12 |-> 0, last_mid |-> 0, will |-> NoWill, out |-> <<>>,
                       username |-> NoUser, password |-> "", acl |-> NoAcl]
      <4>1. g.ctx[new] = z
        BY <3>7 DEF Blank
      <4>2. Context(z) /\ z.subs = {} /\ z.msgs = <<>> /\ z.id = id /\ z.state = "new" /\ z.sock = FALSE
        BY DEF Context, ContextFields, Willing
      <4> HIDE DEF z
      <4>3. e.ctx[new].subs = {} /\ e.ctx[new].msgs = <<>>
        <5>1. e.ctx[new] = Blank(FALSE)
          BY <3>5
        <5>2. \A y : Blank(y).subs = {} /\ Blank(y).msgs = <<>>
          BY DEF Blank
        <5> QED
          BY <5>1, <5>2
      <4> QED
        BY <4>1, <4>2, <4>3
    <3>9. Sound(g, H, Nat)
      BY <3>5, <3>6, <3>7, <3>8, OneCtxSound
    <3>10. /\ g.disused = d.disused /\ g.store = d.store /\ g.last_db_id = d.last_db_id
           /\ DOMAIN g.ctx = DOMAIN d.ctx \cup {new} /\ \A y \in DOMAIN d.ctx : g.ctx[y] = d.ctx[y]
      <4>1. /\ g.disused = e.disused /\ g.store = e.store /\ g.last_db_id = e.last_db_id
        BY <1>2, <3>5, <3>7 DEF OneCtx, Fields
      <4>2. /\ e.disused = d.disused /\ e.store = d.store /\ e.last_db_id = d.last_db_id
        BY <1>2, <3>5 DEF Fields
      <4>3. DOMAIN g.ctx = DOMAIN e.ctx /\ \A y \in DOMAIN e.ctx \ {new} : g.ctx[y] = e.ctx[y]
        BY <3>7 DEF OneCtx
      <4> QED
        BY <3>1, <3>5, <4>1, <4>2, <4>3
    <3>11. \A y \in DOMAIN d.ctx : d.ctx[y].id # id
      BY <2>2 DEF ById
    <3>12. Away(F, g)
      BY <1>2, <3>1, <3>8, <3>10, <3>11 DEF Away, OneEach
    <3> QED
      BY <3>2, <3>8, <3>9, <3>10, <3>12 DEF Offline
  <2> QED
    BY <2>1, <2>2
<1> HIDE DEF d1, c
<1>4. /\ Offline(F, d2, H) /\ c \in DOMAIN d2.ctx /\ d2.ctx[c].id = id
      /\ d2.store = d.store /\ d2.last_db_id = d.last_db_id
  <2>1. Sound(d1, H, Nat) /\ Away(F, d1) /\ Fields \subseteq DOMAIN d1 /\ Context(d1.ctx[c])
    BY <1>3 DEF Offline, Sound, Shaped
  <2>2. /\ OneCtx(d1, d2, c) /\ d2.ctx[c] = [d1.ctx[c] EXCEPT !.last_mid = last_mid]
    BY <1>3, <2>1 DEF OneCtx, Fields
  <2> HIDE DEF d2
  <2>3. /\ Context(d2.ctx[c])
        /\ \A f \in ContextFields \ {"last_mid"} : d2.ctx[c][f] = d1.ctx[c][f]
    BY <2>1, <2>2 DEF Context, ContextFields
  <2>4. Sound(d2, H, Nat)
    BY <2>1, <2>2, <2>3, OneCtxSound DEF ContextFields
  <2>5. d2.disused = d1.disused /\ d2.store = d1.store /\ d2.last_db_id = d1.last_db_id
    BY <2>1, <2>2, OneCtxIs
  <2>6. DOMAIN d2.ctx = DOMAIN d1.ctx
        /\ \A y \in DOMAIN d1.ctx : \A f \in {"id", "state", "sock"} : d2.ctx[y][f] = d1.ctx[y][f]
    BY <2>2, <2>3 DEF OneCtx, ContextFields
  <2>7. Away(F, d2)
    BY <2>1, <2>5, <2>6 DEF Away, OneEach
  <2> QED
    BY <1>3, <2>4, <2>5, <2>6, <2>7 DEF Offline
<1> QED
  BY <1>1, <1>3, <1>4 DEF r

(* mqtt3_db_restore: a message of a client.                                *)
LEMMA MessageRestored ==
    ASSUME NEW F, Roomy(F), NEW d, Offline(F, d, Nobody), NEW k, k.id \in Clients,
           k.db_id \in Nat \ {0}, k.state = "publish_qos0" => ~(k.qos > 0), k.db_id \in DOMAIN d.store
    PROVE  Offline(F, _db_client_msg_restore(d, F, k), Nobody)
<1> DEFINE s == k.db_id
           H == Plus(Nobody, s)
           r == _db_find_or_add_context(Referenced(d, s), F, k.id, 0)
           g == r.db
           c == r.c
           m == [store |-> s, mid |-> k.mid, dir |-> k.dir, state |-> k.state, dup |-> k.dup, qos |-> k.qos,
                 retain |-> k.retain]
           e == [g EXCEPT !.ctx[c].msgs = Append(@, m)]
<1>1. _db_client_msg_restore(d, F, k) = e
  BY DEF _db_client_msg_restore
<1>2. Sound(Referenced(d, s), H, Nat) /\ OnlyStore(d, Referenced(d, s))
  <2>1. Nat \ {s} \subseteq Nat
    OBVIOUS
  <2>2. Sound(Referenced(d, s), H, Nat \ {s}) /\ OnlyStore(d, Referenced(d, s))
    BY ReferencedSound DEF Offline
  <2> QED
    BY <2>1, <2>2, SoundMore
<1>3. Offline(F, Referenced(d, s), H)
  <2>1. Fields \subseteq DOMAIN d
    BY DEF Offline, Sound, Shaped
  <2>2. Referenced(d, s).ctx = d.ctx /\ Referenced(d, s).disused = d.disused
    BY <1>2, <2>1, OnlyStoreIs
  <2> QED
    BY <1>2, <2>2 DEF Offline, Away, OneEach
<1>4. Offline(F, g, H) /\ c \in DOMAIN g.ctx
  BY <1>3, FoundOrAdded
<1>5. Message(m) /\ m.store = s
  BY DEF Message, MsgFields
<1> HIDE DEF r, g, c, m, s
<1>6. Sound(g, H, Nat) /\ Away(F, g) /\ Fields \subseteq DOMAIN g /\ Context(g.ctx[c]) /\ Queue(g.ctx[c].msgs)
  BY <1>4 DEF Offline, Sound, Shaped, Queued, Queues
<1>7. OneCtx(g, e, c) /\ e.ctx[c] = [g.ctx[c] EXCEPT !.msgs = Append(g.ctx[c].msgs, m)]
  BY <1>4, <1>6 DEF OneCtx, Fields
<1> HIDE DEF e
<1>8. /\ Context(e.ctx[c]) /\ e.ctx[c].msgs = Append(g.ctx[c].msgs, m)
      /\ \A f \in ContextFields \ {"msgs"} : e.ctx[c][f] = g.ctx[c][f]
  BY <1>6, <1>7 DEF Context, ContextFields
<1>9. Sound(e, Nobody, Nat)
  <2>1. /\ Queue(e.ctx[c].msgs)
        /\ \A x : Times(Stores(e.ctx[c].msgs), x) = Times(Stores(g.ctx[c].msgs), x) + (IF s = x THEN 1 ELSE 0)
    BY <1>5, <1>6, <1>8, QueueAppend
  <2>2. Nobody \in [Nat -> Nat] /\ \A x \in Nat : H[x] = IF s = x THEN 1 ELSE 0
    BY DEF Nobody, Plus, s
  <2>3. \A x : Times(Stores(g.ctx[c].msgs), x) \in Nat
    <3>1. Listed(g.ctx[c].msgs)
      BY <1>6 DEF Queue
    <3> QED
      BY <3>1, StoresListed, TimesNat
  <2>4. e.ctx[c].subs = g.ctx[c].subs
    BY <1>8 DEF ContextFields
  <2> HIDE DEF H
  <2>5. \A x \in Nat \ {0} :
            H[x] + Times(Stores(g.ctx[c].msgs), x) = Nobody[x] + Times(Stores(e.ctx[c].msgs), x)
    BY <2>1, <2>2, <2>3 DEF Nobody
  <2> QED
    <3>1. OneCtx(g, e, c) /\ c \in DOMAIN g.ctx /\ Sound(g, H, Nat) /\ Context(e.ctx[c])
      BY <1>4, <1>6, <1>7, <1>8
    <3>2. Queue(e.ctx[c].msgs) /\ Nobody \in [Nat -> Nat] /\ e.ctx[c].subs = g.ctx[c].subs
      BY <2>1, <2>2, <2>4
    <3> QED
      BY <2>5, <3>1, <3>2, OneCtxQueue
<1>10. Away(F, e)
  <2>1. e.disused = g.disused
    BY <1>6, <1>7, OneCtxIs
  <2>2. DOMAIN e.ctx = DOMAIN g.ctx
        /\ \A y \in DOMAIN g.ctx : \A f \in {"id", "state", "sock"} : e.ctx[y][f] = g.ctx[y][f]
    BY <1>7, <1>8 DEF OneCtx, ContextFields
  <2> QED
    BY <1>6, <2>1, <2>2 DEF Away, OneEach
<1> QED
  BY <1>1, <1>9, <1>10 DEF Offline

(* ... a subscription.                                                     *)
LEMMA SubRestored ==
    ASSUME NEW F, Roomy(F), NEW d, Offline(F, d, Nobody), NEW k, k.id \in Clients, Topic(k.sub)
    PROVE  Offline(F, _db_restore_sub(d, F, k), Nobody)
<1> DEFINE r == _db_find_or_add_context(d, F, k.id, 0)
           e == mqtt3_sub_add(r.db, r.c, k.sub, k.qos)
<1>1. _db_restore_sub(d, F, k) = e
  BY DEF _db_restore_sub
<1>2. Offline(F, r.db, Nobody) /\ r.c \in DOMAIN r.db.ctx /\ r.db.ctx[r.c].id = k.id
  BY FoundOrAdded
<1> HIDE DEF r
<1>3. k.id # NoId
  BY SystemAssumption
<1>4. Moves(r.db, e, Nobody, Nat)
  BY <1>2, <1>3, SubAddSound DEF Offline
<1> HIDE DEF e
<1>5. Sound(e, Nobody, Nat) /\ Keeps(r.db, e)
  BY <1>4 DEF Moves
<1> QED
  BY <1>1, <1>2, <1>5, AwayKept DEF Offline

(* ... a retained message.                                                 *)
LEMMA RetainRestored ==
    ASSUME NEW F, NEW d, Offline(F, d, Nobody), NEW k, k.db_id \in DOMAIN d.store
    PROVE  Offline(F, _db_retain_chunk_restore(d, k), Nobody)
<1> DEFINE s == d.store[k.db_id]
           e == mqtt3_db_messages_queue(d, NoId, s.topic, s.qos, s.retain, k.db_id)
<1>1. _db_retain_chunk_restore(d, k) = e
  BY DEF _db_retain_chunk_restore
<1>2. Listed(s.topic)
  BY DEF Offline, Sound, Stocked, StoredMsg
<1> HIDE DEF s
<1>3. Sound(e, Nobody, Nat \ {k.db_id}) /\ Keeps(d, e)
  BY <1>2, QueueSound DEF Offline
<1> HIDE DEF e
<1>4. Sound(e, Nobody, Nat)
  <2>1. Nat \ {k.db_id} \subseteq Nat
    OBVIOUS
  <2> QED
    BY <1>3, <2>1, SoundMore
<1> QED
  BY <1>1, <1>3, <1>4, AwayKept DEF Offline

(* ... anything behind the stored messages.                                *)
LEMMA PartRestored ==
    ASSUME NEW F, Roomy(F), NEW acc, {"db", "ok"} \subseteq DOMAIN acc, acc.ok,
           Offline(F, acc.db, Nobody), NEW k, Part(k)
    PROVE  LET b == RestoreChunk(F, acc, k)
           IN {"db", "ok"} \subseteq DOMAIN b /\ (b.ok => Offline(F, b.db, Nobody))
<1> DEFINE b == RestoreChunk(F, acc, k)
<1>1. CASE k.chunk = "client" /\ k.id \in Clients
  <2>1. b = [acc EXCEPT !.db = _db_client_chunk_restore(acc.db, F, k)]
    BY <1>1 DEF RestoreChunk
  <2>2. Offline(F, _db_client_chunk_restore(acc.db, F, k), Nobody)
    BY <1>1, FoundOrAdded DEF _db_client_chunk_restore
  <2> QED
    BY <2>1, <2>2
<1>2. CASE k.chunk \in {"msg", "retain"} /\ k.db_id \notin DOMAIN acc.db.store
  <2>1. b = [acc EXCEPT !.ok = FALSE]
    BY <1>2 DEF RestoreChunk
  <2> QED
    BY <2>1
<1>3. CASE k.chunk = "msg" /\ k.db_id \in DOMAIN acc.db.store
  <2>1. b = [acc EXCEPT !.db = _db_client_msg_restore(acc.db, F, k)]
    BY <1>3 DEF RestoreChunk
  <2>2. Offline(F, _db_client_msg_restore(acc.db, F, k), Nobody)
    BY <1>3, MessageRestored DEF Part
  <2> QED
    BY <2>1, <2>2
<1>4. CASE k.chunk = "retain" /\ k.db_id \in DOMAIN acc.db.store
  <2>1. b = [acc EXCEPT !.db = _db_retain_chunk_restore(acc.db, k)]
    BY <1>4 DEF RestoreChunk
  <2>2. Offline(F, _db_retain_chunk_restore(acc.db, k), Nobody)
    BY <1>4, RetainRestored
  <2> QED
    BY <2>1, <2>2
<1>5. CASE k.chunk = "sub" /\ k.id \in Clients /\ Topic(k.sub)
  <2>1. b = [acc EXCEPT !.db = _db_restore_sub(acc.db, F, k)]
    BY <1>5 DEF RestoreChunk
  <2>2. Offline(F, _db_restore_sub(acc.db, F, k), Nobody)
    BY <1>5, SubRestored
  <2> QED
    BY <2>1, <2>2
<1> QED
  BY <1>1, <1>2, <1>3, <1>4, <1>5 DEF Part

(* Nobody has anything yet.                                                *)
Bare(d) == DOMAIN d.ctx = {} /\ d.tree = <<>>

(* ... the number given out last.                                          *)
LEMMA LastRestored ==
    ASSUME NEW F, NEW d, Offline(F, d, Nobody), Bare(d), d.store = <<>>, NEW last \in Nat
    PROVE  LET e == [d EXCEPT !.last_db_id = last]
           IN Offline(F, e, Nobody) /\ Bare(e) /\ e.last_db_id = last
<1> DEFINE e == [d EXCEPT !.last_db_id = last]
<1>1. Sound(d, Nobody, Nat) /\ Fields \subseteq DOMAIN d
  BY DEF Offline, Sound, Shaped
<1>2. /\ DOMAIN e = DOMAIN d /\ e.last_db_id = last
      /\ \A f \in Fields \ {"last_db_id"} : e[f] = d[f]
  BY <1>1 DEF Fields
<1> HIDE DEF e
<1>3. /\ e.store = <<>> /\ e.roots = d.roots /\ e.tree = d.tree /\ e.subs = d.subs
      /\ e.retained = d.retained /\ e.ctx = d.ctx /\ e.disused = d.disused
  BY <1>2 DEF Fields
<1>4. Refs(e, Nobody) = Refs(d, Nobody) /\ Lists(e) = Lists(d) /\ Queues(e) = Queues(d)
  BY <1>3 DEF Refs, Lists, Queues
<1>5. Shaped(e)
  BY <1>1, <1>2, <1>3 DEF Sound, Shaped
<1>6. Stocked(e.store, e.last_db_id, Refs(e, Nobody), Nat)
  BY <1>1, <1>2, <1>3, <1>4 DEF Sound, Stocked
<1>7. Sound(e, Nobody, Nat)
  BY <1>1, <1>3, <1>4, <1>5, <1>6 DEF Sound
<1>8. Away(F, e) /\ Bare(e)
  BY <1>3 DEF Offline, Away, OneEach, Bare
<1> QED
  BY <1>2, <1>7, <1>8 DEF e, Offline

(* ... a stored message.                                                   *)
LEMMA StoreRestored ==
    ASSUME NEW F, NEW d, Offline(F, d, Nobody), Bare(d), NEW k, k.db_id \in 1..d.last_db_id,
           Listed(k.msg.topic)
    PROVE  LET e == _db_msg_store_chunk_restore(d, k)
           IN Offline(F, e, Nobody) /\ Bare(e) /\ e.last_db_id = d.last_db_id
<1> DEFINE n == k.db_id
           x == [ref |-> 0, dest_ids |-> {}, source |-> k.msg.source, source_mid |-> k.msg.source_mid,
                 topic |-> k.msg.topic, qos |-> k.msg.qos, retain |-> k.msg.retain, payload |-> k.msg.payload]
           e == [d EXCEPT !.store = With1(d.store, n, x)]
<1>1. _db_msg_store_chunk_restore(d, k) = e
  BY DEF _db_msg_store_chunk_restore
<1>2. Sound(d, Nobody, Nat) /\ Fields \subseteq DOMAIN d
  BY DEF Offline, Sound, Shaped
<1>3. e.store = With1(d.store, n, x) /\ OnlyStore(d, e)
  BY <1>2 DEF Fields, OnlyStore
<1>4. StoredMsg(x) /\ x.ref = 0
  BY DEF StoredMsg, StoreFields
<1> HIDE DEF e, x, n
<1>5. /\ Fields \subseteq DOMAIN e
      /\ e.last_db_id = d.last_db_id /\ e.roots = d.roots /\ e.tree = d.tree
      /\ e.subs = d.subs /\ e.retained = d.retained /\ e.ctx = d.ctx
      /\ e.disused = d.disused /\ e.sec = d.sec
  BY <1>2, <1>3, OnlyStoreIs
<1>6. DOMAIN e.store = DOMAIN d.store \cup {n} /\ e.store[n] = x
      /\ \A y \in DOMAIN d.store \ {n} : e.store[y] = d.store[y]
  BY <1>3 DEF With1
<1>7. \A y \in Nat : Refs(d, Nobody)[y] = 0
  <2> DEFINE Q == Queues(d)
             R == d.retained
             T == Refs(d, Nobody)
  <2>1. DOMAIN Q = {} /\ DOMAIN R = {}
    BY <1>2, EmptyListed DEF Queues, Bare, Sound, Wooded
  <2>2. T = [y \in Nat |-> Held(Q, y) + Pinned(R, y) + Nobody[y]]
    BY DEF Refs
  <2> HIDE DEF Q, R, T
  <2>3. ASSUME NEW y \in Nat PROVE T[y] = 0
    <3>1. T[y] = Held(Q, y) + Pinned(R, y) + Nobody[y]
      BY <2>2
    <3>2. Held(Q, y) = 0 /\ Pinned(R, y) = 0
      BY <2>1, EmptySizes
    <3>3. Nobody[y] = 0
      BY DEF Nobody
    <3> QED
      BY <3>1, <3>2, <3>3
  <2> QED
    BY <2>3 DEF T
<1>8. Refs(e, Nobody) = Refs(d, Nobody) /\ Lists(e) = Lists(d) /\ Queues(e) = Queues(d)
  BY <1>5 DEF Refs, Lists, Queues
<1>9. Stocked(e.store, e.last_db_id, Refs(e, Nobody), Nat)
  <2> DEFINE T == Refs(d, Nobody)
  <2>1. Stocked(d.store, d.last_db_id, T, Nat) /\ \A y \in Nat : T[y] = 0
    BY <1>2, <1>7 DEF Sound
  <2> HIDE DEF T
  <2>2. d.last_db_id \in Nat /\ n \in 1..d.last_db_id
    BY <2>1 DEF Stocked, n
  <2>3. \A y \in Nat \ {0} : Ref(e.store, y) = T[y]
    BY <1>4, <1>6, <2>1 DEF Stocked, Ref
  <2>4. \A y \in DOMAIN e.store : StoredMsg(e.store[y]) /\ y \in Nat
    BY <1>4, <1>6, <2>1, <2>2 DEF Stocked
  <2>5. DOMAIN e.store \subseteq 1..d.last_db_id
    BY <1>6, <2>1, <2>2 DEF Stocked
  <2> QED
    BY <1>5, <1>8, <2>2, <2>3, <2>4, <2>5 DEF Stocked, T
<1>10. Shaped(e)
  BY <1>2, <1>5 DEF Sound, Shaped
<1>11. Sound(e, Nobody, Nat)
  BY <1>2, <1>5, <1>8, <1>9, <1>10 DEF Sound
<1>12. Away(F, e) /\ Bare(e)
  BY <1>5 DEF Offline, Away, OneEach, Bare
<1> QED
  BY <1>1, <1>5, <1>11, <1>12 DEF Offline

(* One chunk after the other.                                              *)
RestoreNext(c, acc, k) == RestoreChunk(c.F, acc, k)
(* What is known after some chunks.                                        *)
RestoredTo(c, k, acc) ==
    /\ {"db", "ok"} \subseteq DOMAIN acc
    /\ acc.ok => /\ Offline(c.F, acc.db, Nobody)
                 /\ k = 0 => acc.db.store = <<>>
                 /\ k # 0 /\ k <= c.m + 1 => acc.db.last_db_id = c.last
                 /\ k <= c.m + 1 => Bare(acc.db)
(* The induction over the file.                                            *)
Rst == INSTANCE FoldInduction WITH Op <- RestoreNext, Inv <- RestoredTo

(* mqtt3_db_restore: a file the broker has written gives a database in     *)
(* order, with nobody there yet.                                           *)
LEMMA RestoreSound ==
    ASSUME NEW F, Roomy(F), NEW d, Offline(F, d, Nobody), Bare(d), d.store = <<>>,
           NEW file0, Readable(file0.chunks)
    PROVE  LET r == mqtt3_db_restore(d, F, file0)
           IN r.ok => Offline(F, r.db, Nobody)
<1> DEFINE q == file0.chunks
           n == Len(q)
           base == [db |-> d, ok |-> TRUE]
<1>1. PICK m \in Nat, last \in Nat : \A i \in DOMAIN q : Chunk(q[i], i, m, last)
  BY DEF Readable
<1>2. Listed(q) /\ n \in Nat /\ DOMAIN q = 1..n
  BY ListedDomain DEF Readable
<1> DEFINE c == [F |-> F, m |-> m, last |-> last]
<1>3. c.F = F /\ c.m = m /\ c.last = last
  OBVIOUS
<1> HIDE DEF c, n
<1>4. RestoredTo(c, 0, base)
  BY <1>3 DEF RestoredTo
<1> HIDE DEF base
<1>5. ASSUME NEW k \in 0..(n - 1), NEW acc, RestoredTo(c, k, acc)
      PROVE  RestoredTo(c, k + 1, RestoreNext(c, acc, q[k + 1]))
  <2> DEFINE x == q[k + 1]
             b == RestoreChunk(F, acc, x)
  <2>1. k + 1 \in DOMAIN q /\ k \in Nat /\ k + 1 # 0
    BY <1>2
  <2>2. Chunk(x, k + 1, m, last)
    BY <1>1, <2>1
  <2>3. RestoreNext(c, acc, x) = b
    BY <1>3 DEF RestoreNext
  <2> HIDE DEF x
  <2>4. CASE ~acc.ok
    <3>1. b = acc
      BY <2>4 DEF RestoreChunk
    <3> QED
      BY <1>5, <2>3, <2>4, <3>1 DEF RestoredTo, x
  <2>5. CASE acc.ok /\ k = 0
    <3>1. x.chunk = "cfg" /\ x.last_db_id = last
      BY <2>2, <2>5 DEF Chunk
    <3>2. b = [acc EXCEPT !.db.last_db_id = last]
      BY <2>5, <3>1 DEF RestoreChunk
    <3>3. /\ {"db", "ok"} \subseteq DOMAIN acc /\ Offline(F, acc.db, Nobody)
          /\ acc.db.store = <<>> /\ Bare(acc.db)
      BY <1>3, <1>5, <2>5 DEF RestoredTo
    <3> DEFINE e == [acc.db EXCEPT !.last_db_id = last]
    <3>4. b.db = e /\ b.ok /\ {"db", "ok"} \subseteq DOMAIN b
      BY <2>5, <3>2, <3>3
    <3>5. Offline(F, e, Nobody) /\ Bare(e) /\ e.last_db_id = last
      BY <3>3, LastRestored
    <3> HIDE DEF b, e
    <3> QED
      BY <1>3, <2>1, <2>3, <3>4, <3>5 DEF RestoredTo, x
  <2>6. CASE acc.ok /\ k # 0 /\ k + 1 <= m + 1
    <3>1. x.chunk = "store" /\ x.db_id \in 1..last /\ Listed(x.msg.topic)
      <4>1. k + 1 # 1
        BY <2>1, <2>6
      <4> QED
        BY <2>2, <2>6, <4>1 DEF Chunk
    <3>2. b = [acc EXCEPT !.db = _db_msg_store_chunk_restore(acc.db, x)]
      BY <2>6, <3>1 DEF RestoreChunk
    <3>3. k <= m + 1
      BY <2>1, <2>6
    <3>4. /\ {"db", "ok"} \subseteq DOMAIN acc /\ Offline(F, acc.db, Nobody)
          /\ acc.db.last_db_id = last /\ Bare(acc.db)
      BY <1>3, <1>5, <2>6, <3>3 DEF RestoredTo
    <3> DEFINE e == _db_msg_store_chunk_restore(acc.db, x)
    <3>5. b.db = e /\ b.ok /\ {"db", "ok"} \subseteq DOMAIN b
      BY <2>6, <3>2, <3>4
    <3>6. Offline(F, e, Nobody) /\ Bare(e) /\ e.last_db_id = last
      BY <3>1, <3>4, StoreRestored
    <3> HIDE DEF b, e
    <3> QED
      BY <1>3, <2>1, <2>3, <3>5, <3>6 DEF RestoredTo, x
  <2>7. CASE acc.ok /\ k # 0 /\ ~(k + 1 <= m + 1)
    <3>1. Part(x)
      BY <2>1, <2>2, <2>7 DEF Chunk
    <3>2. {"db", "ok"} \subseteq DOMAIN acc /\ Offline(F, acc.db, Nobody)
      BY <1>3, <1>5, <2>7 DEF RestoredTo
    <3>3. {"db", "ok"} \subseteq DOMAIN b /\ (b.ok => Offline(F, b.db, Nobody))
      BY <2>7, <3>1, <3>2, PartRestored
    <3> HIDE DEF b
    <3> QED
      BY <1>3, <2>1, <2>3, <2>7, <3>3 DEF RestoredTo, x
  <2> QED
    BY <2>4, <2>5, <2>6, <2>7
<1>6. RestoredTo(c, n, Rst!Left(c, base, q))
  BY <1>2, <1>4, <1>5, Rst!LeftInduction
<1> DEFINE all == FoldLeft(LAMBDA acc, k : RestoreChunk(F, acc, k), base, q)
<1>7. Rst!Left(c, base, q) = all
  BY <1>3 DEF Rst!Left, RestoreNext, FoldLeft, MapThenFoldSet, Max
<1>8. mqtt3_db_restore(d, F, file0) = [all EXCEPT !.ok = @ /\ ~file0.torn]
  BY DEF mqtt3_db_restore, base
<1> HIDE DEF all
<1>9. {"db", "ok"} \subseteq DOMAIN all /\ (all.ok => Offline(F, all.db, Nobody))
  BY <1>3, <1>6, <1>7 DEF RestoredTo
<1> QED
  BY <1>8, <1>9
-----------------------------------------------------------------------------
(* mqtt3_db_backup: messages and clients ...                               *)

(* A list made from a list, element by element.                            *)
LEMMA MappedListed ==
    ASSUME NEW s, Listed(s), NEW t, t = [i \in DOMAIN s |-> t[i]]
    PROVE  Listed(t) /\ DOMAIN t = DOMAIN s /\ \A x \in Range(t) : \E i \in DOMAIN s : x = t[i]
<1>1. Len(s) \in Nat /\ DOMAIN s = 1..Len(s)
  BY ListedDomain
<1>2. t = [i \in 1..Len(s) |-> t[i]] /\ DOMAIN t = DOMAIN s
  BY <1>1
<1>3. Listed(t)
  BY <1>1, <1>2, FunctionListed
<1> QED
  BY <1>2, <1>3 DEF Range

(* Chunks behind the stored messages.                                      *)
Parts(w) == Listed(w) /\ \A k \in Range(w) : Part(k)

LEMMA PartsJoined ==
    ASSUME NEW a, Parts(a), NEW b, Parts(b)
    PROVE  Parts(a \o b)
<1>1. Listed(a \o b) /\ Range(a \o b) = Range(a) \cup Range(b)
  BY ConcatListed DEF Parts
<1> QED
  BY <1>1 DEF Parts

LEMMA OnePart ==
    ASSUME NEW k, Part(k)
    PROVE  Parts(<<k>>)
<1>1. <<k>> \in Seq({k}) /\ Range(<<k>>) = {k}
  BY DEF Range
<1>2. Listed(<<k>>)
  BY <1>1, SeqListed
<1> QED
  BY <1>1, <1>2 DEF Parts

LEMMA NoParts == Parts(<<>>)
BY EmptyListed DEF Parts

(* mqtt3_db_message_store_write                                            *)
LEMMA StoresWritten ==
    ASSUME NEW d, NEW H, NEW Z, Sound(d, H, Z)
    PROVE  LET w == mqtt3_db_message_store_write(d)
           IN /\ Listed(w)
              /\ \A k \in Range(w) : k.chunk = "store" /\ k.db_id \in 1..d.last_db_id /\ Listed(k.msg.topic)
<1> DEFINE last == d.last_db_id
           newest == [i \in 1..last |-> last + 1 - i]
           I == {i \in DOMAIN newest : newest[i] \in DOMAIN d.store /\ ~Left(d, newest[i])}
           saved == Picked(newest, I)
           w == [i \in DOMAIN saved |-> StoreChunk(d, saved[i])]
<1>1. mqtt3_db_message_store_write(d) = w
  BY DEF mqtt3_db_message_store_write
<1>2. last \in Nat /\ DOMAIN d.store \subseteq 1..last
  BY DEF Sound, Stocked
<1>3. Listed(newest)
  <2>1. newest = [i \in 1..last |-> newest[i]]
    OBVIOUS
  <2> HIDE DEF newest
  <2> QED
    BY <1>2, <2>1, FunctionListed
<1>4. I \subseteq DOMAIN newest /\ \A i \in I : newest[i] \in DOMAIN d.store
  OBVIOUS
<1> HIDE DEF newest, I
<1>5. Listed(saved) /\ Range(saved) = {newest[i] : i \in I}
  BY <1>3, <1>4, PickedRange
<1>6. \A i \in DOMAIN saved : saved[i] \in DOMAIN d.store
  <2>1. \A i \in DOMAIN saved : saved[i] \in Range(saved)
    BY DEF Range
  <2> QED
    BY <1>4, <1>5, <2>1
<1> HIDE DEF saved
<1>7. w = [i \in DOMAIN saved |-> w[i]] /\ \A i \in DOMAIN saved : w[i] = StoreChunk(d, saved[i])
  OBVIOUS
<1> HIDE DEF w
<1>8. Listed(w) /\ \A x \in Range(w) : \E i \in DOMAIN saved : x = w[i]
  BY <1>5, <1>7, MappedListed
<1>9. ASSUME NEW i \in DOMAIN saved
      PROVE  w[i].chunk = "store" /\ w[i].db_id \in 1..last /\ Listed(w[i].msg.topic)
  <2>1. Listed(d.store[saved[i]].topic)
    BY <1>6 DEF Sound, Stocked, StoredMsg
  <2> QED
    BY <1>2, <1>6, <1>7, <2>1 DEF StoreChunk
<1> QED
  BY <1>1, <1>8, <1>9

(* The clients that are saved have the id of one.                          *)
Named(d) == \A c \in DOMAIN d.ctx : d.ctx[c].id \in Clients \cup {NoId}

(* mqtt3_db_client_messages_write                                          *)
LEMMA MessagesWritten ==
    ASSUME NEW d, NEW H, NEW Z, Sound(d, H, Z), NEW c \in DOMAIN d.ctx, d.ctx[c].id \in Clients
    PROVE  Parts(mqtt3_db_client_messages_write(d, c))
<1> DEFINE msgs == d.ctx[c].msgs
           w == mqtt3_db_client_messages_write(d, c)
<1>1. Queue(msgs)
  BY DEF Sound, Queued, Queues
<1>2. w = [i \in DOMAIN msgs |-> w[i]]
  BY DEF mqtt3_db_client_messages_write
<1>3. ASSUME NEW i \in DOMAIN msgs
      PROVE  /\ w[i].chunk = "msg" /\ w[i].id = d.ctx[c].id /\ w[i].db_id = msgs[i].store
             /\ w[i].state = msgs[i].state /\ w[i].qos = msgs[i].qos
  BY DEF mqtt3_db_client_messages_write
<1> HIDE DEF msgs, w
<1>4. Listed(w) /\ \A x \in Range(w) : \E i \in DOMAIN msgs : x = w[i]
  BY <1>1, <1>2, MappedListed DEF Queue
<1>5. ASSUME NEW i \in DOMAIN msgs PROVE Part(w[i])
  BY <1>1, <1>3 DEF Queue, Message, Part
<1> QED
  BY <1>4, <1>5 DEF Parts, w

(* One client after the other is written.                                  *)
WriteClient(d, acc, c) ==
    acc \o <<[chunk |-> "client", id |-> d.ctx[c].id, last_mid |-> d.ctx[c].last_mid]>>
        \o mqtt3_db_client_messages_write(d, c)
(* What is known after some of them.                                       *)
PartsTo(d, done, acc) == Parts(acc)
Saved == INSTANCE FoldInduction WITH Op <- WriteClient, Inv <- PartsTo

(* mqtt3_db_client_write                                                   *)
LEMMA ClientsWritten ==
    ASSUME NEW d, NEW H, NEW Z, Sound(d, H, Z), Named(d)
    PROVE  Parts(mqtt3_db_client_write(d))
<1> DEFINE S == {c \in DOMAIN d.ctx : Durable(d, c)}
<1>1. Saved!OfSet(d, <<>>, S) = mqtt3_db_client_write(d)
  BY DEF Saved!OfSet, WriteClient, mqtt3_db_client_write, FoldSet, MapThenFoldSet
<1>2. \A c \in S : c \in DOMAIN d.ctx /\ d.ctx[c].id \in Clients
  BY DEF Named, Durable
<1>3. Numbered(S)
  <2>1. IsFiniteSet(DOMAIN Queues(d)) /\ DOMAIN Queues(d) = DOMAIN d.ctx
    BY DEF Sound, Queued, Queues
  <2>2. IsFiniteSet(S)
    BY <2>1, FS_Subset
  <2> QED
    BY <2>2, FiniteNumbered
<1> HIDE DEF S
<1>4. PartsTo(d, {}, <<>>)
  BY NoParts DEF PartsTo
<1>5. ASSUME NEW done \in SUBSET S, NEW c \in S \ done, NEW acc, PartsTo(d, done, acc)
      PROVE  PartsTo(d, done \cup {c}, WriteClient(d, acc, c))
  <2> DEFINE k == [chunk |-> "client", id |-> d.ctx[c].id, last_mid |-> d.ctx[c].last_mid]
             w == mqtt3_db_client_messages_write(d, c)
  <2>1. Part(k)
    BY <1>2 DEF Part
  <2>2. Parts(w)
    BY <1>2, MessagesWritten
  <2>3. WriteClient(d, acc, c) = (acc \o <<k>>) \o w
    BY DEF WriteClient
  <2> HIDE DEF k, w
  <2>4. Parts(<<k>>)
    BY <2>1, OnePart
  <2>5. Parts(acc \o <<k>>)
    BY <1>5, <2>4, PartsJoined DEF PartsTo
  <2>6. Parts((acc \o <<k>>) \o w)
    BY <2>2, <2>5, PartsJoined
  <2> QED
    BY <2>3, <2>6 DEF PartsTo
<1>6. PartsTo(d, S, Saved!OfSet(d, <<>>, S))
  BY <1>3, <1>4, <1>5, Saved!SetInduction DEF Numbered
<1> QED
  BY <1>1, <1>6 DEF PartsTo

(* _db_subs_retain_write                                                   *)
LEMMA NodeWritten ==
    ASSUME NEW d, NEW H, NEW Z, Sound(d, H, Z), Named(d), NEW p \in DOMAIN d.subs
    PROVE  Parts(_db_subs_retain_write(d, p))
<1> DEFINE leaves == d.subs[p]
           I == {i \in DOMAIN leaves : Durable(d, leaves[i].ctx)}
           subs == Picked(leaves, I)
           held == d.retained[p] # 0 /\ ~System(d.store[d.retained[p]].topic)
           sub == IF p[1] = "" THEN Tail(p) ELSE p
           a == [i \in DOMAIN subs |-> [chunk |-> "sub", id |-> d.ctx[subs[i].ctx].id,
                                        sub |-> sub, qos |-> subs[i].qos]]
           b == IF held THEN <<[chunk |-> "retain", db_id |-> d.retained[p]]>> ELSE <<>>
<1>1. _db_subs_retain_write(d, p) = a \o b
  BY DEF _db_subs_retain_write
<1>2. Parts(b)
  <2> DEFINE k == [chunk |-> "retain", db_id |-> d.retained[p]]
  <2>1. Part(k)
    BY DEF Part
  <2>2. b = <<k>> \/ b = <<>>
    OBVIOUS
  <2> HIDE DEF k, b
  <2> QED
    BY <2>1, <2>2, OnePart, NoParts
<1> HIDE DEF b
<1>3. Listed(leaves) /\ \A i \in DOMAIN leaves : leaves[i].ctx \in DOMAIN d.ctx /\ p \in d.ctx[leaves[i].ctx].subs
  <2> DEFINE L == Lists(d)
  <2>1. Leafy(d.subs, L) /\ DOMAIN L = DOMAIN d.ctx /\ \A c \in DOMAIN d.ctx : L[c] = d.ctx[c].subs
    BY DEF Sound, Lists
  <2> HIDE DEF L
  <2> QED
    BY <2>1 DEF Leafy, Once
<1>4. \A i \in I : i \in DOMAIN leaves /\ d.ctx[leaves[i].ctx].id \in Clients
  BY <1>3 DEF Named, Durable
<1>5. ASSUME NEW i \in DOMAIN leaves PROVE Topic(sub)
  <2>1. Proper(p)
    <3> DEFINE L == Lists(d)
    <3>1. Leafy(d.subs, L) /\ DOMAIN L = DOMAIN d.ctx /\ \A c \in DOMAIN d.ctx : L[c] = d.ctx[c].subs
      BY DEF Sound, Lists
    <3> HIDE DEF L
    <3> QED
      BY <1>3, <1>5, <3>1 DEF Leafy
  <2>2. Listed(p) /\ Len(p) >= 1 /\ Len(p) \in Nat
    <3>1. Node(Range(d.tree), p)
      BY DEF Sound, Wooded
    <3> QED
      BY <3>1, ListedDomain DEF Node
  <2>3. CASE p[1] = ""
    <3>1. Len(p) > 1
      BY <2>1, <2>3 DEF Proper
    <3> DEFINE S == Range(p)
               t == Tail(p)
    <3>2. p \in Seq(S)
      BY <2>2 DEF Listed
    <3> HIDE DEF S
    <3>3. t \in Seq(S) /\ Len(t) = Len(p) - 1
      BY <2>2, <3>1, <3>2
    <3>4. Len(t) >= 1
      BY <2>2, <3>1, <3>3
    <3> HIDE DEF t
    <3>5. Listed(t)
      BY <3>3, SeqListed
    <3> QED
      BY <2>3, <3>4, <3>5 DEF Topic, t
  <2>4. CASE p[1] # ""
    BY <2>2, <2>4 DEF Topic
  <2> QED
    BY <2>3, <2>4
<1>6. I \subseteq DOMAIN leaves
  OBVIOUS
<1> HIDE DEF leaves, I, sub
<1>7. Listed(subs) /\ Range(subs) = {leaves[i] : i \in I}
  BY <1>3, <1>6, PickedRange
<1>8. ASSUME NEW i \in DOMAIN subs PROVE d.ctx[subs[i].ctx].id \in Clients /\ Topic(sub)
  <2>1. subs[i] \in Range(subs)
    BY DEF Range
  <2>2. \E j \in I : subs[i] = leaves[j]
    BY <1>7, <2>1
  <2> QED
    BY <1>4, <1>5, <2>2
<1> HIDE DEF subs
<1>9. a = [i \in DOMAIN subs |-> a[i]] /\ \A i \in DOMAIN subs : Part(a[i])
  BY <1>8 DEF Part
<1> HIDE DEF a
<1>10. Parts(a)
  <2>1. Listed(a) /\ \A x \in Range(a) : \E i \in DOMAIN subs : x = a[i]
    BY <1>7, <1>9, MappedListed
  <2> QED
    BY <1>9, <2>1 DEF Parts
<1> QED
  BY <1>1, <1>2, <1>10, PartsJoined
-----------------------------------------------------------------------------
(* ... and subscriptions; a file and its beginnings.                       *)

(* A node finds its place among those that are written.                    *)
PutSooner(tree, seq, p) ==
    InsertAt(seq, Cardinality({i \in DOMAIN seq : Sooner(tree, seq[i], p)}) + 1, p)
(* The induction over the nodes below a root.                              *)
Blw == INSTANCE FoldInduction WITH Op <- PutSooner, Inv <- Entered

(* The nodes below a root.                                                 *)
BelowRoot(d, root) ==
    FoldSet(LAMBDA p, seq : InsertAt(seq, Cardinality({i \in DOMAIN seq : Sooner(d.tree, seq[i], p)}) + 1, p),
            <<>>, {p \in Range(d.tree) : p[1] = root})

LEMMA BelowListed ==
    ASSUME NEW d, Listed(d.tree), NEW root
    PROVE  Listed(BelowRoot(d, root)) /\ Range(BelowRoot(d, root)) \subseteq Range(d.tree)
<1> DEFINE nodes == {p \in Range(d.tree) : p[1] = root}
           tree == d.tree
<1>1. Blw!OfSet(tree, <<>>, nodes) = BelowRoot(d, root)
  BY DEF Blw!OfSet, PutSooner, BelowRoot, FoldSet, MapThenFoldSet
<1>2. nodes \subseteq Range(tree) /\ IsFiniteSet(nodes)
  <2>1. IsFiniteSet(Range(tree))
    BY RangeFinite
  <2> QED
    BY <2>1, FS_Subset
<1> HIDE DEF nodes, tree
<1>3. Entered(tree, {}, <<>>)
  BY EmptyListed DEF Entered
<1>4. ASSUME NEW done, NEW p, NEW seq, Entered(tree, done, seq)
      PROVE  Entered(tree, done \cup {p}, PutSooner(tree, seq, p))
  <2> DEFINE before == {i \in DOMAIN seq : Sooner(tree, seq[i], p)}
  <2>1. Listed(seq) /\ Len(seq) \in Nat /\ DOMAIN seq = 1..Len(seq)
    BY <1>4, ListedDomain DEF Entered
  <2>2. Cardinality(before) \in Nat /\ Cardinality(before) <= Len(seq)
    <3>1. before \subseteq 1..Len(seq)
      BY <2>1
    <3>2. IsFiniteSet(1..Len(seq)) /\ Cardinality(1..Len(seq)) = Len(seq)
      BY <2>1, IntervalSize
    <3> HIDE DEF before
    <3>3. IsFiniteSet(before) /\ Cardinality(before) <= Cardinality(1..Len(seq))
      BY <3>1, <3>2, FS_Subset
    <3> QED
      BY <3>2, <3>3, FS_CardinalityType
  <2> HIDE DEF before
  <2>3. Cardinality(before) + 1 \in 1..(Len(seq) + 1)
    BY <2>1, <2>2
  <2>4. PutSooner(tree, seq, p) = InsertAt(seq, Cardinality(before) + 1, p)
    BY DEF PutSooner, before
  <2> QED
    BY <1>4, <2>1, <2>3, <2>4, InsertListed DEF Entered
<1>5. \A done \in SUBSET nodes : \A p \in nodes \ done : \A seq :
          Entered(tree, done, seq) => Entered(tree, done \cup {p}, PutSooner(tree, seq, p))
  BY <1>4
<1>6. Entered(tree, nodes, Blw!OfSet(tree, <<>>, nodes))
  <2>1. Numbered(nodes)
    BY <1>2, FiniteNumbered
  <2> QED
    BY <1>3, <1>5, <2>1, Blw!SetInduction DEF Numbered
<1>7. Listed(BelowRoot(d, root)) /\ Range(BelowRoot(d, root)) = nodes
  BY <1>1, <1>6 DEF Entered
<1> QED
  BY <1>2, <1>7 DEF tree

(* One root after the other.                                               *)
NodesBelow(d, acc, root) == acc \o BelowRoot(d, root)
(* What is known after some of them.                                       *)
NodesTo(d, k, acc) == Listed(acc) /\ Range(acc) \subseteq Range(d.tree)
(* The induction over the roots.                                           *)
Wood == INSTANCE FoldInduction WITH Op <- NodesBelow, Inv <- NodesTo

(* The nodes in the order in which they are written.                       *)
AllNodes(d) == FoldLeft(LAMBDA acc, root : acc \o BelowRoot(d, root), <<>>, d.roots)

LEMMA NodesListed ==
    ASSUME NEW d, Listed(d.tree), Listed(d.roots)
    PROVE  Listed(AllNodes(d)) /\ Range(AllNodes(d)) \subseteq Range(d.tree)
<1> DEFINE q == d.roots
           n == Len(q)
<1>1. n \in Nat /\ DOMAIN q = 1..n
  BY ListedDomain
<1>2. Wood!Left(d, <<>>, q) = AllNodes(d)
  BY DEF Wood!Left, NodesBelow, AllNodes, FoldLeft, MapThenFoldSet, Max
<1> HIDE DEF n, q
<1>3. NodesTo(d, 0, <<>>)
  BY EmptyListed DEF NodesTo
<1>4. ASSUME NEW k \in 0..(n - 1), NEW acc, NodesTo(d, k, acc)
      PROVE  NodesTo(d, k + 1, NodesBelow(d, acc, q[k + 1]))
  <2> DEFINE b == BelowRoot(d, q[k + 1])
  <2>1. Listed(b) /\ Range(b) \subseteq Range(d.tree)
    BY BelowListed
  <2>2. NodesBelow(d, acc, q[k + 1]) = acc \o b
    BY DEF NodesBelow
  <2> HIDE DEF b
  <2>3. Listed(acc \o b) /\ Range(acc \o b) = Range(acc) \cup Range(b)
    BY <1>4, <2>1, ConcatListed DEF NodesTo
  <2> QED
    BY <1>4, <2>1, <2>2, <2>3 DEF NodesTo
<1>5. NodesTo(d, n, Wood!Left(d, <<>>, q))
  BY <1>1, <1>3, <1>4, Wood!LeftInduction
<1> QED
  BY <1>2, <1>5 DEF NodesTo

(* One node after the other is written.                                    *)
WriteNode(d, acc, p) == acc \o _db_subs_retain_write(d, p)
(* The induction over the nodes.                                           *)
Nds == INSTANCE FoldInduction WITH Op <- WriteNode, Inv <- PartsTo

(* mqtt3_db_subs_retain_write                                              *)
LEMMA SubsWritten ==
    ASSUME NEW d, NEW H, NEW Z, Sound(d, H, Z), Named(d)
    PROVE  Parts(mqtt3_db_subs_retain_write(d))
<1> DEFINE q == AllNodes(d)
           n == Len(q)
<1>1. Listed(d.tree) /\ Listed(d.roots) /\ DOMAIN d.subs = Range(d.tree)
  BY DEF Sound, Shaped, Wooded
<1>2. mqtt3_db_subs_retain_write(d) = FoldLeft(LAMBDA acc, p : acc \o _db_subs_retain_write(d, p), <<>>, q)
  BY DEF mqtt3_db_subs_retain_write, AllNodes, BelowRoot
<1> HIDE DEF q
<1>3. Nds!Left(d, <<>>, q) = FoldLeft(LAMBDA acc, p : acc \o _db_subs_retain_write(d, p), <<>>, q)
  BY DEF Nds!Left, WriteNode, FoldLeft, MapThenFoldSet, Max
<1>4. Listed(q) /\ Range(q) \subseteq DOMAIN d.subs
  BY <1>1, NodesListed DEF q
<1>5. n \in Nat /\ DOMAIN q = 1..n /\ \A i \in 1..n : q[i] \in DOMAIN d.subs
  BY <1>4, ListedDomain
<1> HIDE DEF n
<1>6. PartsTo(d, 0, <<>>)
  BY NoParts DEF PartsTo
<1>7. ASSUME NEW k \in 0..(n - 1), NEW acc, PartsTo(d, k, acc)
      PROVE  PartsTo(d, k + 1, WriteNode(d, acc, q[k + 1]))
  <2>1. k + 1 \in 1..n
    BY <1>5
  <2>2. Parts(_db_subs_retain_write(d, q[k + 1]))
    BY <1>5, <2>1, NodeWritten
  <2> QED
    BY <1>7, <2>2, PartsJoined DEF PartsTo, WriteNode
<1>8. PartsTo(d, n, Nds!Left(d, <<>>, q))
  BY <1>5, <1>6, <1>7, Nds!LeftInduction
<1> QED
  BY <1>2, <1>3, <1>8 DEF PartsTo

(* mqtt3_db_backup                                                         *)
LEMMA BackupReadable ==
    ASSUME NEW d, NEW H, NEW Z, Sound(d, H, Z), Named(d)
    PROVE  Readable(mqtt3_db_backup(d).chunks)
<1> DEFINE last == d.last_db_id
           k == [chunk |-> "cfg", last_db_id |-> last]
           w == mqtt3_db_message_store_write(d)
           u == mqtt3_db_client_write(d)
           v == mqtt3_db_subs_retain_write(d)
           q == mqtt3_db_backup(d).chunks
<1>1. q = ((<<k>> \o w) \o u) \o v
  BY DEF mqtt3_db_backup, File
<1>2. /\ Listed(w)
      /\ \A x \in Range(w) : x.chunk = "store" /\ x.db_id \in 1..last /\ Listed(x.msg.topic)
  BY StoresWritten
<1>3. Parts(u) /\ Parts(v) /\ last \in Nat
  BY ClientsWritten, SubsWritten DEF Sound, Stocked
<1>4. k.chunk = "cfg" /\ k.last_db_id = last
  OBVIOUS
<1> HIDE DEF k, w, u, v, q, last
<1> DEFINE a == <<k>> \o w
           b == u \o v
           m == Len(w)
<1>5. Listed(<<k>>) /\ Len(<<k>>) = 1 /\ <<k>>[1] = k
  <2>1. <<k>> \in Seq({k})
    OBVIOUS
  <2> QED
    BY <2>1, SeqListed
<1>6. m \in Nat /\ \A i \in 1..m : w[i] \in Range(w)
  BY <1>2, ListedDomain
<1>7. Listed(a) /\ Len(a) = m + 1 /\ a[1] = k /\ \A i \in 1..m : a[1 + i] = w[i]
  <2>1. /\ Listed(a) /\ Len(a) = 1 + m
        /\ \A i \in 1..1 : a[i] = <<k>>[i]
        /\ \A i \in 1..m : a[1 + i] = w[i]
    BY <1>2, <1>5, ConcatListed
  <2> HIDE DEF a, m
  <2> QED
    BY <1>5, <1>6, <2>1
<1>8. Parts(b) /\ Listed(u) /\ Listed(v)
  BY <1>3, PartsJoined DEF Parts
<1> HIDE DEF a, m
<1>9. Listed(a \o u) /\ Listed((a \o u) \o v) /\ Len(u) \in Nat /\ Len(v) \in Nat
  BY <1>7, <1>8, ConcatListed, ListedDomain
<1>10. q = a \o b
  <2>1. a \in Seq(Range(a) \cup Range(u) \cup Range(v))
    <3>1. a \in Seq(Range(a))
      BY <1>7 DEF Listed
    <3> QED
      BY <3>1
  <2>2. u \in Seq(Range(a) \cup Range(u) \cup Range(v))
    <3>1. u \in Seq(Range(u))
      BY <1>8 DEF Listed
    <3> QED
      BY <3>1
  <2>3. v \in Seq(Range(a) \cup Range(u) \cup Range(v))
    <3>1. v \in Seq(Range(v))
      BY <1>8 DEF Listed
    <3> QED
      BY <3>1
  <2>4. (a \o u) \o v = a \o (u \o v)
    BY <2>1, <2>2, <2>3
  <2> QED
    BY <1>1, <2>4 DEF a
<1> HIDE DEF b
<1>11. /\ Listed(q) /\ Len(q) = (m + 1) + Len(b) /\ Len(b) \in Nat
       /\ \A i \in 1..(m + 1) : q[i] = a[i]
       /\ \A i \in 1..Len(b) : q[(m + 1) + i] = b[i]
  <2>1. Listed(b) /\ Len(b) \in Nat
    BY <1>8, ListedDomain DEF Parts
  <2> DEFINE c == a \o b
  <2>2. /\ Listed(c) /\ Len(c) = Len(a) + Len(b)
        /\ \A i \in 1..Len(a) : c[i] = a[i]
        /\ \A i \in 1..Len(b) : c[Len(a) + i] = b[i]
    <3>1. Listed(a)
      BY <1>7
    <3> QED
      BY <2>1, <3>1, ConcatListed
  <2>3. q = c /\ Len(a) = m + 1
    BY <1>7, <1>10
  <2> HIDE DEF c
  <2> QED
    BY <2>1, <2>2, <2>3
<1>12. ASSUME NEW i \in DOMAIN q PROVE Chunk(q[i], i, m, last)
  <2>1. i \in 1..((m + 1) + Len(b))
    BY <1>11, ListedDomain
  <2>2. CASE i = 1
    <3>1. q[i] = k
      BY <1>6, <1>7, <1>11, <2>2
    <3> QED
      BY <1>4, <1>6, <2>2, <3>1 DEF Chunk
  <2>3. CASE i # 1 /\ i <= m + 1
    <3> DEFINE j == i - 1
    <3>1. j \in 1..m /\ i = 1 + j /\ i \in 1..(m + 1)
      BY <1>6, <2>1, <2>3
    <3>2. q[i] = w[j]
      BY <1>7, <1>11, <3>1
    <3> HIDE DEF j
    <3>3. q[i] \in Range(w)
      BY <1>6, <3>1, <3>2
    <3> QED
      BY <1>2, <1>6, <2>3, <3>1, <3>3 DEF Chunk
  <2>4. CASE i > m + 1
    <3> DEFINE j == i - (m + 1)
    <3>1. j \in 1..Len(b) /\ i = (m + 1) + j /\ i # 1
      BY <1>6, <1>11, <2>1, <2>4
    <3>2. q[i] = b[j]
      BY <1>11, <3>1
    <3> HIDE DEF j
    <3>3. Part(q[i])
      <4>1. b[j] \in Range(b)
        BY <1>8, <3>1, ListedDomain DEF Parts
      <4> QED
        BY <1>8, <3>2, <4>1 DEF Parts
    <3> QED
      BY <1>6, <2>4, <3>1, <3>3 DEF Chunk
  <2> QED
    BY <1>6, <2>1, <2>2, <2>3, <2>4
<1> QED
  BY <1>3, <1>6, <1>11, <1>12 DEF Readable, q

(* A file that has been cut off.                                           *)
LEMMA CutReadable ==
    ASSUME NEW q, Readable(q), NEW n \in 0..(Len(q) - 1)
    PROVE  Readable(SubSeq(q, 1, n))
<1> DEFINE t == SubSeq(q, 1, n)
<1>1. Listed(q) /\ Len(q) \in Nat /\ DOMAIN q = 1..Len(q)
  BY ListedDomain DEF Readable
<1>2. n \in Nat /\ n <= Len(q)
  BY <1>1
<1>3. Listed(t) /\ Len(t) = n /\ \A i \in 1..n : t[i] = q[i]
  BY <1>1, <1>2, FirstOf
<1> HIDE DEF t
<1>4. DOMAIN t = 1..n /\ 1..n \subseteq DOMAIN q
  BY <1>1, <1>2, <1>3, ListedDomain
<1> QED
  <2>1. PICK m \in Nat, last \in Nat : \A i \in DOMAIN q : Chunk(q[i], i, m, last)
    BY DEF Readable
  <2>2. \A i \in DOMAIN t : Chunk(t[i], i, m, last)
    BY <1>3, <1>4, <2>1
  <2> QED
    BY <1>3, <2>2 DEF Readable, t
-----------------------------------------------------------------------------
(* Every step keeps the invariant, and what follows from it.               *)

(* Whether anonymous clients may connect is said once, before the lines of *)
(* the acl file are read.                                                  *)
AnonTo(c, k, acc) == Reader(acc) /\ acc.sec.allow_anonymous = c
(* The induction over the lines.                                           *)
Ano == INSTANCE FoldInduction WITH Op <- ReadLine, Inv <- AnonTo

LEMMA LineAnonymous ==
    ASSUME NEW c, NEW a, AnonTo(c, 0, a), NEW line, line.word \in {"user", "topic", "pattern", "error"}
    PROVE  AnonTo(c, 0, _aclfile_line(a, line))
<1> DEFINE x == _aclfile_line(a, line)
<1>1. Reader(a) /\ Alike(a, a) /\ a.sec.allow_anonymous = c
  BY DEF AnonTo, Alike, SameRights
<1>2. Reader(x)
  BY <1>1, LineAlike
<1>3. "sec" \in DOMAIN a /\ SecFields \subseteq DOMAIN a.sec
  BY <1>1 DEF Reader
<1>4. x.sec.allow_anonymous = a.sec.allow_anonymous
  <2>1. CASE a.bad \/ line.word \in {"user", "error"}
    BY <1>3, <2>1 DEF _aclfile_line
  <2>2. CASE ~a.bad /\ line.word = "topic"
    <3> DEFINE u == _add_acl(a.sec, a.user, line)
               hits == {i \in DOMAIN a.sec.acl_list : a.sec.acl_list[i].username = a.user}
    <3>1. u.allow_anonymous = a.sec.allow_anonymous
      <4>1. CASE hits = {}
        BY <1>3, <4>1 DEF _add_acl, SecFields
      <4>2. CASE hits # {}
        BY <1>3, <4>2 DEF _add_acl, SecFields
      <4> QED
        BY <4>1, <4>2
    <3>2. x = [a EXCEPT !.sec = u]
      BY <2>2 DEF _aclfile_line
    <3> HIDE DEF u, x
    <3> QED
      BY <1>3, <3>1, <3>2
  <2>3. CASE ~a.bad /\ line.word = "pattern"
    BY <1>3, <2>3 DEF _aclfile_line, _add_acl_pattern, SecFields
  <2> QED
    BY <2>1, <2>2, <2>3
<1> HIDE DEF x
<1>5. AnonTo(c, 0, x)
  BY <1>1, <1>2, <1>4 DEF AnonTo
<1> QED
  BY <1>5 DEF x

(* mosquitto_security_init: allow_anonymous is what the configuration says *)
LEMMA AnonymousRead ==
    ASSUME NEW files, Lined(files)
    PROVE  mosquitto_security_init(Closed, files).allow_anonymous = files.allow_anonymous
<1> DEFINE b == _unpwd_file_parse([Closed EXCEPT !.allow_anonymous = files.allow_anonymous], files.password_file)
           u == [sec |-> b, user |-> NoUser, bad |-> FALSE]
           q == files.acl_file
           v == files.allow_anonymous
<1>1. PICK n \in Nat : DOMAIN q = 1..n /\ \A k \in 1..n : q[k].word \in {"user", "topic", "pattern", "error"}
  BY DEF Lined
<1>2. mosquitto_security_init(Closed, files) = FoldLeft(_aclfile_line, u, q).sec
  BY DEF mosquitto_security_init, _aclfile_parse
<1>3. AnonTo(v, 0, u)
  BY DEF AnonTo, Reader, SecFields, _unpwd_file_parse, Closed
<1> HIDE DEF u, q, v
<1>4. ASSUME NEW k \in 0..(n - 1), NEW x, AnonTo(v, k, x)
      PROVE  AnonTo(v, k + 1, ReadLine(v, x, q[k + 1]))
  <2>1. k + 1 \in 1..n
    OBVIOUS
  <2>2. q[k + 1].word \in {"user", "topic", "pattern", "error"}
    BY <1>1, <2>1
  <2>3. AnonTo(v, 0, x)
    BY <1>4 DEF AnonTo
  <2>4. AnonTo(v, 0, _aclfile_line(x, q[k + 1]))
    BY <2>2, <2>3, LineAnonymous
  <2> QED
    BY <2>4 DEF AnonTo, ReadLine
<1>5. AnonTo(v, n, Ano!Left(v, u, q))
  BY <1>1, <1>3, <1>4, Ano!LeftInduction
<1>6. Ano!Left(v, u, q) = FoldLeft(_aclfile_line, u, q)
  BY DEF Ano!Left, ReadLine, FoldLeft, MapThenFoldSet, Max
<1> QED
  BY <1>2, <1>5, <1>6 DEF AnonTo, v

-----------------------------------------------------------------------------
(* Over more than one run messages may be left without a reference: those  *)
(* that clients with clean sessions were waiting for when the file was     *)
(* written.                                                                *)
LifeWorld == [conns |-> Conns, ids |-> Clients, leaks |-> Nat, plain |-> FALSE, vetted |-> TRUE]

LEMMA LifeWorldIs ==
    /\ LifeWorld.conns = Conns /\ LifeWorld.ids = Clients /\ LifeWorld.leaks = Nat
    /\ ~LifeWorld.plain /\ LifeWorld.vetted = TRUE /\ Fit(LifeWorld)
BY SystemAssumption DEF LifeWorld, Leaky, Fit

(* What holds in one run holds in more.                                    *)
LEMMA HoldsMore == Holds(World) => Holds(LifeWorld)
<1> SUFFICES ASSUME Holds(World) PROVE Holds(LifeWorld)
  OBVIOUS
<1>1. /\ World.conns = LifeWorld.conns /\ World.ids = LifeWorld.ids /\ LifeWorld.leaks = Nat
      /\ ~LifeWorld.plain /\ World.vetted = TRUE /\ LifeWorld.vetted = TRUE /\ World.leaks \subseteq Nat
  BY LifeWorldIs, WorldIs DEF World, Leaks
<1>2. Sound(db, Nobody, LifeWorld.leaks)
  BY <1>1, SoundMore DEF Holds, Managed
<1>3. Managed(LifeWorld, db)
  BY <1>1, <1>2 DEF Holds, Managed
<1>4. \A p : Packet(World, p) => Packet(LifeWorld, p)
  BY <1>1 DEF Packet
<1>5. \A up0 : Packets(World, up0) => Packets(LifeWorld, up0)
  BY <1>4 DEF Packets
<1>6. \A m : Client(World, m) => Client(LifeWorld, m)
  BY <1>5 DEF Client
<1> QED
  BY <1>3, <1>5, <1>6 DEF Holds

(* The invariant over more than one run: the parts are in order, and the   *)
(* file is one the broker has written, or the beginning of one.            *)
LifeHolds == Holds(LifeWorld) /\ Readable(file.chunks)

LEMMA LifeHoldsInit == LifeInit => LifeHolds
<1> SUFFICES ASSUME LifeInit PROVE LifeHolds
  OBVIOUS
<1>1. Holds(LifeWorld)
  BY HoldsInit, HoldsMore DEF LifeInit
<1>2. file.chunks = <<>>
  BY DEF LifeInit, NoFile
<1>3. DOMAIN file.chunks = {} /\ Listed(file.chunks)
  BY <1>2, EmptyListed
<1>4. 0 \in Nat
  OBVIOUS
<1>5. Readable(file.chunks)
  BY <1>3, <1>4 DEF Readable
<1> QED
  BY <1>1, <1>5 DEF LifeHolds

(* What is written can be read.                                            *)
LEMMA BackupHolds ==
    ASSUME LifeHolds
    PROVE  Readable(mqtt3_db_backup(db).chunks)
<1>1. Sound(db, Nobody, Nat) /\ Named(db)
  BY LifeWorldIs DEF LifeHolds, Holds, Managed, Named
<1> QED
  BY <1>1, BackupReadable

(* The security files of this run, before they are read.                   *)
LEMMA OpenedFiles ==
    ASSUME LifeHolds
    PROVE  /\ used.reloads + 1 \in DOMAIN SecurityFiles /\ Lined(Files)
           /\ SecFields \subseteq DOMAIN mosquitto_security_init(Closed, Files)
BY FilesLined DEF LifeHolds, Holds, FilesRead, Files

(* The process is gone.                                                    *)
LEMMA GoneHolds ==
    ASSUME LifeHolds, Gone
    PROVE  Holds(LifeWorld)'
<1> DEFINE e == mqtt3_db_open(Files)
<1>1. db' = e /\ cli' = cli /\ wire' = wire /\ todo' = todo /\ used' = used
  BY DEF Gone
<1>2. Managed(LifeWorld, e) /\ e.sec = mosquitto_security_init(Closed, Files)
  BY LifeWorldIs, OpenManagedDb
<1> HIDE DEF e
<1>3. Files' = Files
  BY <1>1 DEF Files
<1>4. FilesRead'
  BY <1>1, <1>2, <1>3, OpenedFiles DEF FilesRead, SameRights
<1>5. Managed(LifeWorld, db')
  BY <1>1, <1>2
<1>6. Holds(LifeWorld)
  BY DEF LifeHolds
<1> QED
  BY <1>1, <1>4, <1>5, <1>6 DEF Holds

(* There are numbers for all clients.                                      *)
LEMMA FreshRoomy == Roomy(Fresh)
<1> DEFINE U == {cli[id].conn : id \in Clients}
           f == [id \in Clients |-> cli[id].conn]
<1>1. IsFiniteSet(Clients) /\ IsFiniteSet(Conns)
  BY SystemAssumption
<1>2. f \in Surjection(Clients, U)
  BY DEF Surjection
<1> HIDE DEF f
<1>3. IsFiniteSet(U) /\ Cardinality(U) <= Cardinality(Clients)
  BY <1>1, <1>2, FS_Surjection
<1> HIDE DEF U
<1>4. IsFiniteSet(Conns \cap U) /\ Cardinality(Conns \cap U) <= Cardinality(U)
  <2>1. Conns \cap U \subseteq U
    OBVIOUS
  <2> QED
    BY <1>3, <2>1, FS_Subset
<1>5. Cardinality(Conns \ U) = Cardinality(Conns) - Cardinality(Conns \cap U)
  BY <1>1, FS_Difference
<1>6. /\ Cardinality(Conns) \in Nat /\ Cardinality(Clients) \in Nat /\ Cardinality(U) \in Nat
      /\ Cardinality(Conns \cap U) \in Nat
  BY <1>1, <1>3, <1>4, FS_CardinalityType
<1>7. 2 * Cardinality(Clients) <= Cardinality(Conns)
  BY LifeAssumption
<1>8. Cardinality(Clients) <= Cardinality(Conns \ U)
  BY <1>3, <1>4, <1>5, <1>6, <1>7
<1>9. Fresh = Conns \ U
  BY DEF Fresh, U
<1> QED
  BY <1>8, <1>9 DEF Roomy

(* What the broker restores from the file is in order.                     *)
LEMMA LoadedSound ==
    ASSUME LifeHolds, Loaded.ok
    PROVE  Offline(Fresh, Loaded.db, Nobody)
<1> DEFINE o == mqtt3_db_open(Files)
           d == [o EXCEPT !.sec = Closed]
<1>1. Managed(LifeWorld, o) /\ DOMAIN o.ctx = {}
  BY LifeWorldIs, OpenManagedDb
<1>2. o.store = <<>> /\ o.tree = <<>> /\ o.disused = {}
  BY DEF mqtt3_db_open
<1> HIDE DEF o
<1>3. Sound(o, Nobody, Nat)
  BY <1>1, LifeWorldIs DEF Managed
<1>4. /\ Fields \subseteq DOMAIN d /\ \A x \in Fields \ {"sec"} : d[x] = o[x]
  BY <1>3 DEF Sound, Shaped, Fields
<1>5. /\ d.store = o.store /\ d.last_db_id = o.last_db_id /\ d.tree = o.tree /\ d.subs = o.subs
      /\ d.retained = o.retained /\ d.ctx = o.ctx /\ d.disused = o.disused /\ d.roots = o.roots
  BY <1>4 DEF Fields
<1> HIDE DEF d
<1>6. Shaped(d) /\ Lists(d) = Lists(o) /\ Queues(d) = Queues(o)
  BY <1>3, <1>4, <1>5 DEF Shaped, Sound, Lists, Queues
<1>7. Sound(d, Nobody, Nat)
  BY <1>3, <1>5, <1>6, Framed
<1>8. Offline(Fresh, d, Nobody) /\ Bare(d) /\ d.store = <<>>
  BY <1>1, <1>2, <1>5, <1>7 DEF Offline, Away, OneEach, Bare
<1>9. Loaded = mqtt3_db_restore(d, Fresh, file)
  BY DEF Loaded, d, o
<1>10. Readable(file.chunks)
  BY DEF LifeHolds
<1>11. LET r == mqtt3_db_restore(d, Fresh, file) IN r.ok => Offline(Fresh, r.db, Nobody)
  BY <1>8, <1>10, FreshRoomy, RestoreSound
<1> QED
  BY <1>9, <1>11

(* The broker starts again.                                                *)
LEMMA RestartHolds ==
    ASSUME LifeHolds, Restart
    PROVE  Holds(LifeWorld)'
<1> DEFINE d == Loaded.db
           sec == mosquitto_security_init(Closed, Files)
           e == [d EXCEPT !.sec = sec]
<1>1. Loaded.ok /\ db' = e /\ cli' = cli /\ wire' = wire /\ todo' = todo /\ used' = used
  BY DEF Restart
<1>2. Sound(d, Nobody, Nat) /\ Away(Fresh, d)
  BY <1>1, LoadedSound DEF Offline
<1> HIDE DEF d, sec
<1>3. Fields \subseteq DOMAIN e /\ e.sec = sec /\ \A x \in Fields \ {"sec"} : e[x] = d[x]
  BY <1>2 DEF Sound, Shaped, Fields
<1>4. /\ e.store = d.store /\ e.last_db_id = d.last_db_id /\ e.tree = d.tree /\ e.subs = d.subs
      /\ e.retained = d.retained /\ e.ctx = d.ctx /\ e.disused = d.disused /\ e.roots = d.roots
  BY <1>3 DEF Fields
<1> HIDE DEF e
<1>5. Shaped(e) /\ Lists(e) = Lists(d) /\ Queues(e) = Queues(d)
  BY <1>2, <1>3, <1>4 DEF Shaped, Sound, Lists, Queues
<1>6. Sound(e, Nobody, Nat)
  BY <1>2, <1>4, <1>5, Framed
<1>7. /\ e.disused = {} /\ DOMAIN e.ctx \subseteq Conns /\ OneEach(e)
      /\ \A c \in DOMAIN e.ctx : e.ctx[c].state = "new" /\ ~e.ctx[c].sock /\ e.ctx[c].id \in Clients
  BY <1>2, <1>4 DEF Away, OneEach, Fresh
<1>8. \A c \in DOMAIN e.ctx : Role(e.ctx[c])
  BY <1>7 DEF Role
<1>9. Vetted(e)
  BY <1>7 DEF Vetted, Cleared
<1>10. Managed(LifeWorld, e)
  BY <1>6, <1>7, <1>8, <1>9, LifeWorldIs DEF Managed
<1>11. Files' = Files
  BY <1>1 DEF Files
<1>12. FilesRead'
  BY <1>1, <1>3, <1>11, OpenedFiles DEF FilesRead, SameRights, sec
<1>13. Holds(LifeWorld)
  BY DEF LifeHolds
<1> QED
  BY <1>1, <1>10, <1>12, <1>13 DEF Holds

(* A file that has been cut off can be read as well.                       *)
LEMMA BackupCutHolds ==
    ASSUME LifeHolds, BackupCut
    PROVE  LifeHolds'
<1> DEFINE whole == mqtt3_db_backup(db).chunks
<1>1. PICK k \in 0..(Len(whole) - 1), torn \in BOOLEAN : file' = File(SubSeq(whole, 1, k), torn)
  BY DEF BackupCut
<1>2. Readable(whole)
  BY BackupHolds
<1> HIDE DEF whole
<1>3. Readable(SubSeq(whole, 1, k))
  BY <1>2, CutReadable
<1>4. file'.chunks = SubSeq(whole, 1, k)
  BY <1>1 DEF File
<1>5. Holds(LifeWorld) /\ [Next]_vars
  BY DEF BackupCut, LifeHolds
<1>6. Holds(LifeWorld)'
  BY <1>5, LifeWorldIs, HoldsNext
<1> QED
  BY <1>3, <1>4, <1>6 DEF LifeHolds

(* Every step of a life keeps the invariant, also with a full disk.        *)
LEMMA LifeHoldsNext ==
    ASSUME LifeHolds, [LifeNext \/ BackupCut]_lifeVars
    PROVE  LifeHolds'
<1>1. Holds(LifeWorld) /\ Readable(file.chunks) /\ Fit(LifeWorld)
  BY LifeWorldIs DEF LifeHolds
<1>2. CASE Run
  <2>1. [Next]_vars /\ file' = file
    BY <1>2 DEF Run
  <2>2. Holds(LifeWorld)'
    BY <1>1, <2>1, HoldsNext
  <2> QED
    BY <1>1, <2>1, <2>2 DEF LifeHolds
<1>3. CASE Alone
  <2>1. PICK id \in Clients : Call(id) \/ SendConnect(id) \/ LoopMisc(id) \/ LoopClosed(id)
    BY <1>3 DEF Alone
  <2>2. Holds(LifeWorld)'
    BY <1>1, <2>1, CallHolds, SendConnectHolds, LoopMiscHolds, LoopClosedHolds
  <2>3. file' = file
    BY <1>3 DEF Alone
  <2> QED
    BY <1>1, <2>2, <2>3 DEF LifeHolds
<1>4. CASE Backup
  <2>1. [Next]_vars /\ file' = mqtt3_db_backup(db)
    BY <1>4 DEF Backup
  <2>2. Holds(LifeWorld)'
    BY <1>1, <2>1, HoldsNext
  <2> QED
    BY <2>1, <2>2, BackupHolds DEF LifeHolds
<1>5. CASE Terminate
  <2>1. Gone /\ file' = mqtt3_db_backup(db)
    BY <1>5 DEF Terminate
  <2> QED
    BY <2>1, GoneHolds, BackupHolds DEF LifeHolds
<1>6. CASE Crash
  <2>1. Gone /\ file' = file
    BY <1>6 DEF Crash
  <2> QED
    BY <1>1, <2>1, GoneHolds DEF LifeHolds
<1>7. CASE Restart
  <2>1. file' = file
    BY <1>7 DEF Restart
  <2> QED
    BY <1>1, <1>7, <2>1, RestartHolds DEF LifeHolds
<1>8. CASE UNCHANGED lifeVars
  <2>1. [Next]_vars /\ file' = file
    BY <1>8 DEF lifeVars
  <2>2. Holds(LifeWorld)'
    BY <1>1, <2>1, HoldsNext
  <2> QED
    BY <1>1, <2>1, <2>2 DEF LifeHolds
<1> QED
  BY <1>2, <1>3, <1>4, <1>5, <1>6, <1>7, <1>8, BackupCutHolds DEF LifeNext

(* The database, the clients and the file stay in order over all runs of   *)
(* the broker, whatever part of a file a full disk has left.               *)
THEOREM LivesHold == (LifeSpec \/ DiskFullSpec) => []LifeHolds
<1>1. LifeHolds /\ [LifeNext]_lifeVars => LifeHolds'
  <2>1. [LifeNext]_lifeVars => [LifeNext \/ BackupCut]_lifeVars
    OBVIOUS
  <2> QED
    BY <2>1, LifeHoldsNext
<1>2. LifeHolds /\ [LifeNext \/ BackupCut]_lifeVars => LifeHolds'
  BY LifeHoldsNext
<1>3. LifeSpec => []LifeHolds
  BY <1>1, LifeHoldsInit, PTL DEF LifeSpec
<1>4. DiskFullSpec => []LifeHolds
  BY <1>2, LifeHoldsInit, PTL DEF DiskFullSpec
<1> QED
  BY <1>3, <1>4, PTL

-----------------------------------------------------------------------------
(* The references counted are those that exist, in every run: what is      *)
(* restored is counted anew, and a message is never freed while somebody   *)
(* points to it.                                                           *)
THEOREM LifeRefCounts == (LifeSpec \/ DiskFullSpec) => []RefCounts
<1>1. LifeHolds => RefCounts
  BY HoldsRefCounted DEF LifeHolds, RefCounted, RefCounts
<1> QED
  BY <1>1, LivesHold, PTL

(* A client is connected only with what the security files that were read  *)
(* last say, whatever they said when it connected, and whichever run.      *)
THEOREM LifeAclCurrent == (LifeSpec \/ DiskFullSpec) => []AclCurrent
<1>1. LifeHolds => AclCurrent
  <2> SUFFICES ASSUME LifeHolds, NEW c \in DOMAIN db.ctx, db.ctx[c].state = "connected"
               PROVE  Current(db.ctx[c])
    BY DEF AclCurrent
  <2> DEFINE x == db.ctx[c]
             sec == mosquitto_security_init(Closed, Files)
  <2>1. Passes(db.sec, x)
    BY LifeWorldIs DEF LifeHolds, Holds, Managed, Vetted, Cleared
  <2>2. SameRights(db.sec, sec)
    BY DEF LifeHolds, Holds, FilesRead
  <2>3. sec.allow_anonymous = Files.allow_anonymous
    BY OpenedFiles, AnonymousRead
  <2> HIDE DEF sec
  <2>4. /\ db.sec.acl_list = sec.acl_list /\ db.sec.unpwd = sec.unpwd
        /\ db.sec.allow_anonymous = sec.allow_anonymous
    BY <2>2 DEF SameRights, SecFields
  <2> HIDE DEF x
  <2>5. AclOf(db.sec, x.username) = AclOf(sec, x.username)
    BY <2>4 DEF AclOf
  <2>6. mosquitto_unpwd_check(db.sec, x.username, x.password)
        <=> mosquitto_unpwd_check(sec, x.username, x.password)
    BY <2>4 DEF mosquitto_unpwd_check
  <2>7. /\ IF x.username = NoUser THEN Files.allow_anonymous
           ELSE mosquitto_unpwd_check(sec, x.username, x.password)
        /\ x.acl = AclOf(sec, x.username)
    BY <2>1, <2>3, <2>4, <2>5, <2>6 DEF Passes
  <2> QED
    BY <2>7 DEF Current, x, sec
<1> QED
  BY <1>1, LivesHold, PTL

(* Type correctness, the tree and the ownership of client ids, in every    *)
(* run: a file brings no two contexts with one id, and no list of a client *)
(* that the tree does not share.                                           *)
THEOREM LifeTyped == (LifeSpec \/ DiskFullSpec) => [](TypeOK /\ TreeExact /\ OneContext)
<1>1. LifeHolds => TypeOK /\ TreeExact /\ OneContext
  BY LifeWorldIs, HoldsTypeOK, HoldsTreeExact, HoldsOneContext DEF LifeHolds
<1> QED
  BY <1>1, LivesHold, PTL
=============================================================================
