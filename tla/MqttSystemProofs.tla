-------------------------- MODULE MqttSystemProofs ---------------------------
(***************************************************************************)
(* The broker as a whole (Managed: the database in order, one context for  *)
(* every client id, states of contexts that fit, counters that are right   *)
(* where no acl file is used; one lemma for every packet and every turn of *)
(* the main loop), then broker and clients together.  Holds is the         *)
(* inductive invariant; the safety properties of MqttSystem that follow    *)
(* from it are at the end.                                                 *)
(***************************************************************************)
EXTENDS MqttSystem, DatabaseProofs
-----------------------------------------------------------------------------
(* The broker in order, and the end of a connection.                       *)

(* What a context may be: a connection without a name has nothing; only a  *)
(* named one with a socket is connected.                                   *)
Role(x) ==
    /\ x.state \in {"new", "connected", "disconnected"}
    /\ x.state = "new" /\ x.sock => x.id = NoId /\ x.msgs = <<>> /\ x.subs = {} /\ Paced(x)
    /\ x.state = "connected" => x.id # NoId /\ x.sock
    /\ x.state = "disconnected" => ~x.sock

(* What the security files ask of a client that is connected.              *)
Passes(sec, x) ==
    /\ IF x.username = NoUser THEN sec.allow_anonymous
       ELSE mosquitto_unpwd_check(sec, x.username, x.password)
    /\ x.acl = AclOf(sec, x.username)
Cleared(sec, x) == x.state = "connected" => Passes(sec, x)
Vetted(d) == \A c \in DOMAIN d.ctx : Cleared(d.sec, d.ctx[c])

(* A client id belongs to one context.                                     *)
OneEach(d) == \A a, b \in DOMAIN d.ctx : d.ctx[a].id = d.ctx[b].id /\ d.ctx[a].id # NoId => a = b

(* The database between two steps of the broker.  K: the connections and   *)
(* client ids there are, the stored messages that may be left without a    *)
(* reference, whether there never is an acl file, and whether who is       *)
(* connected has been held against the files.                              *)
Managed(K, d) ==
    /\ Sound(d, Nobody, K.leaks)
    /\ DOMAIN d.ctx \subseteq K.conns /\ d.disused \subseteq DOMAIN d.ctx
    /\ \A c \in DOMAIN d.ctx : Role(d.ctx[c]) /\ d.ctx[c].id \in K.ids \cup {NoId}
    /\ OneEach(d)
    /\ K.plain => NoLists(d.sec) /\ \A c \in DOMAIN d.ctx : d.ctx[c].id # NoId => Paced(d.ctx[c])
    /\ K.vetted => Vetted(d)

(* The same, when who is connected need not have been.                     *)
Lax(K) == [conns |-> K.conns, ids |-> K.ids, leaks |-> K.leaks, plain |-> K.plain, vetted |-> FALSE]

LEMMA ManagedLax ==
    ASSUME NEW K, NEW d
    PROVE  Managed(K, d) <=> Managed(Lax(K), d) /\ (K.vetted => Vetted(d))
<1> DEFINE L == Lax(K)
<1>1. L.conns = K.conns /\ L.ids = K.ids /\ L.leaks = K.leaks /\ L.plain = K.plain /\ L.vetted = FALSE
  BY DEF Lax
<1> HIDE DEF L
<1>2. Managed(K, d) <=> Managed(L, d) /\ (K.vetted => Vetted(d))
  BY <1>1 DEF Managed
<1> QED
  BY <1>2 DEF L

(* What is done to messages and subscriptions changes no roles.            *)
LEMMA RoleSame ==
    ASSUME NEW x, NEW y, Role(x), SameClient(x, y)
    PROVE  Role(y)
BY DEF Role, SameClient

(* Nor who may be connected.                                               *)
LEMMA ClearedSame ==
    ASSUME NEW sec, NEW x, NEW y, Cleared(sec, x), SameClient(x, y)
    PROVE  Cleared(sec, y)
BY DEF Cleared, Passes, SameClient

(* The handling of messages keeps the broker in order.                     *)
LEMMA ManagedMoves ==
    ASSUME NEW K, NEW d, Managed(K, d), NEW e, Moves(d, e, Nobody, K.leaks)
    PROVE  Managed(K, e)
<1>1. /\ Sound(e, Nobody, K.leaks) /\ e.sec = d.sec /\ e.disused = d.disused
      /\ DOMAIN e.ctx = DOMAIN d.ctx
      /\ \A c \in DOMAIN d.ctx : SameClient(d.ctx[c], e.ctx[c])
  BY DEF Moves, Keeps
<1>2. \A c \in DOMAIN d.ctx : /\ Role(e.ctx[c]) /\ e.ctx[c].id = d.ctx[c].id
                              /\ Paced(d.ctx[c]) => Paced(e.ctx[c])
  BY <1>1, RoleSame DEF Managed, SameClient
<1>3. OneEach(e)
  BY <1>1, <1>2 DEF Managed, OneEach
<1>4. K.vetted => Vetted(e)
  BY <1>1, ClearedSame DEF Managed, Vetted
<1> QED
  BY <1>1, <1>2, <1>3, <1>4 DEF Managed

(* What lemmas on handlers ask for.                                        *)
LEMMA ManagedIs ==
    ASSUME NEW K, NEW d, Managed(K, d)
    PROVE  /\ Sound(d, Nobody, K.leaks) /\ Fields \subseteq DOMAIN d
           /\ \A c \in DOMAIN d.ctx : Role(d.ctx[c]) /\ Context(d.ctx[c])
           /\ d.disused \subseteq DOMAIN d.ctx
BY DEF Managed, Sound, Shaped

(* do_disconnect, also of a context whose state has been set before.       *)
LEMMA ManagedEnded ==
    ASSUME NEW K, NEW d, Managed(K, d), NEW c \in DOMAIN d.ctx, NEW g, OneCtx(d, g, c),
           \A f \in ContextFields \ {"clean", "state"} : g.ctx[c][f] = d.ctx[c][f],
           ContextFields \subseteq DOMAIN g.ctx[c],
           g.ctx[c].state \in {"disconnected", "new", "connected"} => g.ctx[c].state = d.ctx[c].state
    PROVE  LET e == do_disconnect(g, c)
           IN Managed(K, e) /\ e.sec = d.sec /\ DOMAIN e.ctx = DOMAIN d.ctx
<1> DEFINE e == do_disconnect(g, c)
<1>1. /\ Sound(d, Nobody, K.leaks) /\ Fields \subseteq DOMAIN d /\ Context(d.ctx[c])
  BY ManagedIs
<1>2. /\ Context(g.ctx[c]) /\ g.ctx[c].subs = d.ctx[c].subs /\ g.ctx[c].msgs = d.ctx[c].msgs
      /\ g.ctx[c].id = d.ctx[c].id /\ g.ctx[c].sock = d.ctx[c].sock /\ g.ctx[c].count12 = d.ctx[c].count12
  BY <1>1 DEF Context, ContextFields
<1>3. Sound(g, Nobody, K.leaks)
  BY <1>1, <1>2, OneCtxSound
<1>4. DOMAIN g.ctx = DOMAIN d.ctx /\ \A y \in DOMAIN d.ctx \ {c} : g.ctx[y] = d.ctx[y]
  BY DEF OneCtx
<1>5. g.sec = d.sec /\ g.disused = d.disused
  BY <1>1, OneCtxIs
<1> HIDE DEF e
<1>6. /\ Sound(e, Nobody, K.leaks) /\ Others(g, e, c)
      /\ g.ctx[c].state = "disconnected" => e = g
      /\ g.ctx[c].state # "disconnected" =>
            /\ Parted(g.ctx[c], e.ctx[c])
            /\ e.disused = IF g.ctx[c].clean THEN g.disused \cup {c} ELSE g.disused
  <2>1. c \in DOMAIN g.ctx
    BY <1>4
  <2> QED
    BY <1>3, <2>1, DisconnectSound DEF e
<1>7. Paced(g.ctx[c]) <=> Paced(d.ctx[c])
  BY <1>2 DEF Paced, Tally
<1>8. e.sec = d.sec /\ DOMAIN e.ctx = DOMAIN d.ctx /\ \A y \in DOMAIN d.ctx \ {c} : SameClient(d.ctx[y], e.ctx[y])
  BY <1>4, <1>5, <1>6 DEF Others
<1>9. /\ Role(e.ctx[c]) /\ e.ctx[c].id \in {d.ctx[c].id, NoId}
      /\ Paced(d.ctx[c]) => Paced(e.ctx[c])
  <2>1. CASE g.ctx[c].state = "disconnected"
    <3>1. d.ctx[c].state = "disconnected" /\ ~d.ctx[c].sock
      BY <2>1 DEF Managed, Role
    <3> QED
      BY <2>1, <3>1, <1>2, <1>6, <1>7 DEF Role
  <2>2. CASE g.ctx[c].state # "disconnected"
    BY <2>2, <1>2, <1>6, <1>7 DEF Role, Parted
  <2> QED
    BY <2>1, <2>2
<1>10. \A y \in DOMAIN d.ctx : /\ Role(e.ctx[y]) /\ e.ctx[y].id \in {d.ctx[y].id, NoId}
                               /\ Paced(d.ctx[y]) => Paced(e.ctx[y])
  <2>1. ASSUME NEW y \in DOMAIN d.ctx \ {c}
        PROVE  /\ Role(e.ctx[y]) /\ e.ctx[y].id \in {d.ctx[y].id, NoId}
               /\ Paced(d.ctx[y]) => Paced(e.ctx[y])
    BY <1>8, RoleSame DEF Managed, SameClient
  <2> QED
    BY <1>9, <2>1
<1>11. OneEach(e)
  BY <1>8, <1>10 DEF Managed, OneEach
<1>12. e.disused \subseteq DOMAIN d.ctx
  BY <1>5, <1>6 DEF Managed
<1>13. K.vetted => Vetted(e)
  <2>1. SUFFICES ASSUME K.vetted, NEW y \in DOMAIN d.ctx PROVE Cleared(d.sec, e.ctx[y])
    BY <1>8 DEF Vetted
  <2>2. Cleared(d.sec, d.ctx[y])
    BY <2>1 DEF Managed, Vetted
  <2>3. CASE y = c
    <3>1. CASE g.ctx[c].state = "disconnected"
      BY <2>3, <3>1, <1>6 DEF Cleared
    <3>2. CASE g.ctx[c].state # "disconnected"
      BY <2>3, <3>2, <1>6 DEF Cleared, Parted
    <3> QED
      BY <3>1, <3>2
  <2>4. CASE y # c
    BY <2>2, <2>4, <1>8, ClearedSame
  <2> QED
    BY <2>3, <2>4
<1>14. Managed(K, e)
  BY <1>6, <1>8, <1>10, <1>11, <1>12, <1>13 DEF Managed
<1> QED
  BY <1>8, <1>14 DEF e
-----------------------------------------------------------------------------
(* A new connection.                                                       *)

(* TakeOver: the context of the older connection loses its name.           *)
LEMMA TakeOverSound ==
    ASSUME NEW K, NEW d, Managed(K, d), NEW c \in DOMAIN d.ctx, d.ctx[c].state = "new", d.ctx[c].sock,
           NEW f \in DOMAIN d.ctx, d.ctx[f].id # NoId, NEW clean
    PROVE  LET e == TakeOver(d, c, f, clean)
           IN /\ Sound(e, Nobody, K.leaks) /\ e.sec = d.sec /\ DOMAIN e.ctx = DOMAIN d.ctx
              /\ e.disused \subseteq DOMAIN d.ctx
              /\ \A y \in DOMAIN d.ctx \ {c, f} : e.ctx[y] = d.ctx[y]
              /\ Role(e.ctx[f]) /\ e.ctx[f].id = NoId
              /\ e.ctx[c].state = "new" /\ e.ctx[c].sock /\ e.ctx[c].id = NoId /\ Paced(e.ctx[c])
<1> DEFINE b == IF ~clean /\ ~d.ctx[f].clean THEN Inherit(d, c, f) ELSE d
           g == [b EXCEPT !.ctx[f].clean = TRUE, !.ctx[f].state = "disconnecting"]
           e == do_disconnect(g, f)
<1>1. TakeOver(d, c, f, clean) = e
  BY DEF TakeOver
<1>2. /\ Sound(d, Nobody, K.leaks) /\ Fields \subseteq DOMAIN d
      /\ Context(d.ctx[c]) /\ Context(d.ctx[f]) /\ Role(d.ctx[c]) /\ d.disused \subseteq DOMAIN d.ctx
  BY ManagedIs
<1>3. /\ d.ctx[c].id = NoId /\ d.ctx[c].msgs = <<>> /\ d.ctx[c].subs = {} /\ Paced(d.ctx[c]) /\ f # c
  BY <1>2 DEF Role
<1>4. /\ Sound(b, Nobody, K.leaks) /\ b.sec = d.sec /\ b.disused = d.disused
      /\ DOMAIN b.ctx = DOMAIN d.ctx /\ \A y \in DOMAIN d.ctx \ {c, f} : b.ctx[y] = d.ctx[y]
      /\ b.ctx[c].state = "new" /\ b.ctx[c].sock /\ b.ctx[c].id = NoId /\ Paced(b.ctx[c])
  <2>1. CASE ~clean /\ ~d.ctx[f].clean
    <3> DEFINE i == Inherit(d, c, f)
    <3>1. b = i
      BY <2>1
    <3>2. /\ Sound(i, Nobody, K.leaks) /\ i.sec = d.sec /\ i.disused = d.disused
          /\ DOMAIN i.ctx = DOMAIN d.ctx /\ \A y \in DOMAIN d.ctx \ {c, f} : i.ctx[y] = d.ctx[y]
          /\ Endowed(d.ctx[c], i.ctx[c])
          /\ Paced(d.ctx[c]) => Paced(i.ctx[c])
      BY <1>2, <1>3, InheritSound
    <3> HIDE DEF i, b
    <3>3. i.ctx[c].state = "new" /\ i.ctx[c].sock /\ i.ctx[c].id = NoId /\ Paced(i.ctx[c])
      BY <1>3, <3>2 DEF Endowed, ContextFields
    <3> QED
      BY <3>1, <3>2, <3>3
  <2>2. CASE ~(~clean /\ ~d.ctx[f].clean)
    <3>1. b = d
      BY <2>2
    <3> HIDE DEF b
    <3> QED
      BY <3>1, <1>2, <1>3
  <2> QED
    BY <2>1, <2>2
<1> HIDE DEF b
<1>5. /\ Fields \subseteq DOMAIN b /\ Context(b.ctx[f]) /\ c \in DOMAIN b.ctx /\ f \in DOMAIN b.ctx
  BY <1>4, QueueOf
<1>6. /\ OneCtx(b, g, f) /\ Context(g.ctx[f]) /\ g.ctx[f].subs = b.ctx[f].subs /\ g.ctx[f].msgs = b.ctx[f].msgs
      /\ g.ctx[f].clean = TRUE /\ g.ctx[f].state = "disconnecting"
  BY <1>5 DEF OneCtx, Fields, Context, ContextFields
<1> HIDE DEF g
<1>7. Sound(g, Nobody, K.leaks)
  BY <1>4, <1>6, OneCtxSound
<1>8. g.sec = b.sec /\ g.disused = b.disused /\ DOMAIN g.ctx = DOMAIN b.ctx
      /\ \A y \in DOMAIN b.ctx \ {f} : g.ctx[y] = b.ctx[y]
  BY <1>5, <1>6, OneCtxIs DEF OneCtx
<1>9. f \in DOMAIN g.ctx
  BY <1>5, <1>8
<1> HIDE DEF e
<1>10. /\ Sound(e, Nobody, K.leaks) /\ Others(g, e, f)
       /\ Parted(g.ctx[f], e.ctx[f])
       /\ e.disused = g.disused \cup {f}
       /\ \A y \in DOMAIN g.ctx \ {f} : e.ctx[y] = g.ctx[y]
  <2>1. /\ Sound(e, Nobody, K.leaks) /\ Others(g, e, f)
        /\ g.ctx[f].state # "disconnected" =>
              /\ Parted(g.ctx[f], e.ctx[f])
              /\ e.disused = IF g.ctx[f].clean THEN g.disused \cup {f} ELSE g.disused
        /\ g.ctx[f].state = "disconnecting" => \A y \in DOMAIN g.ctx \ {f} : e.ctx[y] = g.ctx[y]
    BY ZenonT(60), <1>7, <1>9, DisconnectSound DEF e
  <2> QED
    BY <2>1, <1>6
<1>11. e.sec = d.sec /\ DOMAIN e.ctx = DOMAIN d.ctx
  BY <1>4, <1>8, <1>10 DEF Others
<1>12. e.disused \subseteq DOMAIN d.ctx
  BY <1>2, <1>4, <1>8, <1>10
<1>13. \A y \in DOMAIN d.ctx \ {f} : e.ctx[y] = b.ctx[y]
  BY <1>4, <1>8, <1>10
<1>14. Role(e.ctx[f]) /\ e.ctx[f].id = NoId
  BY <1>6, <1>10 DEF Role, Parted
<1> QED
  BY <1>1, <1>3, <1>4, <1>10, <1>11, <1>12, <1>13, <1>14
-----------------------------------------------------------------------------
(* mqtt3_handle_connect                                                    *)

(* A CONNECT, before the new context has its name.                         *)
LEMMA NameFreed ==
    ASSUME NEW K, NEW d, Managed(K, d), NEW c \in DOMAIN d.ctx, d.ctx[c].state = "new", d.ctx[c].sock,
           NEW id, id # NoId, NEW clean
    PROVE  LET found == ById(d, id)
               b == IF found = {} THEN d ELSE TakeOver(d, c, CHOOSE f \in found : TRUE, clean)
           IN /\ Sound(b, Nobody, K.leaks) /\ b.sec = d.sec /\ DOMAIN b.ctx = DOMAIN d.ctx
              /\ b.disused \subseteq DOMAIN d.ctx
              /\ b.ctx[c].state = "new" /\ b.ctx[c].sock /\ b.ctx[c].id = NoId /\ Paced(b.ctx[c])
              /\ \A y \in DOMAIN d.ctx \ {c} :
                    /\ Role(b.ctx[y]) /\ b.ctx[y].id # id
                    /\ b.ctx[y] = d.ctx[y] \/ b.ctx[y].id = NoId
<1> DEFINE found == ById(d, id)
           f == CHOOSE f \in found : TRUE
           b == IF found = {} THEN d ELSE TakeOver(d, c, f, clean)
<1>1. /\ Sound(d, Nobody, K.leaks) /\ d.disused \subseteq DOMAIN d.ctx
      /\ \A y \in DOMAIN d.ctx : Role(d.ctx[y])
  BY ManagedIs
<1>2. d.ctx[c].id = NoId /\ Paced(d.ctx[c])
  BY <1>1 DEF Role
<1>3. CASE found = {}
  <2>1. b = d
    BY <1>3
  <2>2. \A y \in DOMAIN d.ctx : d.ctx[y].id # id
    BY <1>3 DEF ById
  <2> HIDE DEF b, found
  <2> QED
    BY <1>1, <1>2, <2>1, <2>2 DEF b, found
<1>4. CASE found # {}
  <2>1. f \in found /\ f \in DOMAIN d.ctx /\ d.ctx[f].id = id
    BY <1>4 DEF ById
  <2> DEFINE e == TakeOver(d, c, f, clean)
  <2>2. b = e
    BY <1>4
  <2>3. \A y \in DOMAIN d.ctx \ {f} : d.ctx[y].id # id
    BY <2>1 DEF Managed, OneEach
  <2> HIDE DEF b, found, f
  <2>4. /\ Sound(e, Nobody, K.leaks) /\ e.sec = d.sec /\ DOMAIN e.ctx = DOMAIN d.ctx
        /\ e.disused \subseteq DOMAIN d.ctx
        /\ \A y \in DOMAIN d.ctx \ {c, f} : e.ctx[y] = d.ctx[y]
        /\ Role(e.ctx[f]) /\ e.ctx[f].id = NoId
        /\ e.ctx[c].state = "new" /\ e.ctx[c].sock /\ e.ctx[c].id = NoId /\ Paced(e.ctx[c])
    BY <2>1, TakeOverSound
  <2> HIDE DEF e
  <2>5. \A y \in DOMAIN d.ctx \ {c} :
           /\ Role(e.ctx[y]) /\ e.ctx[y].id # id
           /\ e.ctx[y] = d.ctx[y] \/ e.ctx[y].id = NoId
    BY <1>1, <2>3, <2>4
  <2>6. /\ Sound(b, Nobody, K.leaks) /\ b.sec = d.sec /\ DOMAIN b.ctx = DOMAIN d.ctx
        /\ b.disused \subseteq DOMAIN d.ctx
        /\ b.ctx[c].state = "new" /\ b.ctx[c].sock /\ b.ctx[c].id = NoId /\ Paced(b.ctx[c])
        /\ \A y \in DOMAIN d.ctx \ {c} :
              /\ Role(b.ctx[y]) /\ b.ctx[y].id # id
              /\ b.ctx[y] = d.ctx[y] \/ b.ctx[y].id = NoId
    BY <2>2, <2>4, <2>5
  <2> QED
    BY <2>6 DEF b, found, f
<1> QED
  BY <1>3, <1>4

(* mqtt3_handle_connect: the connection takes the name.                    *)
LEMMA ConnectSound ==
    ASSUME NEW K, NEW d, Managed(K, d), NEW c \in DOMAIN d.ctx, d.ctx[c].sock,
           NEW p, p.id \in K.ids, NoId \notin K.ids, Willing(p.will)
    PROVE  LET r == mqtt3_handle_connect(d, c, p)
           IN /\ Managed(K, r.db) /\ r.db.sec = d.sec /\ DOMAIN r.db.ctx = DOMAIN d.ctx
              /\ r.go <=> (d.ctx[c].state = "new" /\ Admitted(d, p))
              /\ r.go => r.db.ctx[c].state = "connected"
<1> DEFINE found == ById(d, p.id)
           b == IF found = {} THEN d ELSE TakeOver(d, c, CHOOSE f \in found : TRUE, p.clean)
           named == [b.ctx[c] EXCEPT !.will = p.will, !.id = p.id, !.clean = p.clean,
                                    !.username = p.username, !.password = p.password,
                                    !.acl = AclOf(d.sec, p.username)]
           g == [b EXCEPT !.ctx[c] = named]
           h == PurgeDenied(g, c)
           k == [h EXCEPT !.ctx[c].state = "connected"]
           e == _mosquitto_send_connack(k, c, found # {} /\ ~p.clean)
           r == mqtt3_handle_connect(d, c, p)
<1>1. r = IF d.ctx[c].state # "new" \/ ~Admitted(d, p) THEN Error(d) ELSE Ok(e)
  BY DEF mqtt3_handle_connect
<1>2. CASE d.ctx[c].state # "new" \/ ~Admitted(d, p)
  <2> HIDE DEF e, r
  <2>1. r = Error(d)
    BY <1>1, <1>2
  <2>2. r.db = d /\ r.go = FALSE
    BY <2>1 DEF Error
  <2> QED
    BY <1>2, <2>2 DEF r
<1>3. CASE ~(d.ctx[c].state # "new" \/ ~Admitted(d, p))
  <2> DEFINE id == p.id
  <2>1. /\ Sound(b, Nobody, K.leaks) /\ b.sec = d.sec /\ DOMAIN b.ctx = DOMAIN d.ctx
        /\ b.disused \subseteq DOMAIN d.ctx
        /\ b.ctx[c].state = "new" /\ b.ctx[c].sock /\ b.ctx[c].id = NoId /\ Paced(b.ctx[c])
        /\ \A y \in DOMAIN d.ctx \ {c} :
              /\ Role(b.ctx[y]) /\ b.ctx[y].id # id
              /\ b.ctx[y] = d.ctx[y] \/ b.ctx[y].id = NoId
    <3>1. id # NoId
      OBVIOUS
    <3> HIDE DEF id
    <3>2. d.ctx[c].state = "new"
      BY <1>3
    <3>3. LET fo == ById(d, id)
              bo == IF fo = {} THEN d ELSE TakeOver(d, c, CHOOSE f \in fo : TRUE, p.clean)
          IN /\ Sound(bo, Nobody, K.leaks) /\ bo.sec = d.sec /\ DOMAIN bo.ctx = DOMAIN d.ctx
             /\ bo.disused \subseteq DOMAIN d.ctx
             /\ bo.ctx[c].state = "new" /\ bo.ctx[c].sock /\ bo.ctx[c].id = NoId /\ Paced(bo.ctx[c])
             /\ \A y \in DOMAIN d.ctx \ {c} :
                   /\ Role(bo.ctx[y]) /\ bo.ctx[y].id # id
                   /\ bo.ctx[y] = d.ctx[y] \/ bo.ctx[y].id = NoId
      BY <3>1, <3>2, NameFreed
    <3> QED
      BY <3>3 DEF id
  <2> HIDE DEF b
  <2>2. Fields \subseteq DOMAIN b /\ Context(b.ctx[c]) /\ c \in DOMAIN b.ctx
    BY <2>1, QueueOf
  <2>3. /\ Context(named) /\ named.subs = b.ctx[c].subs /\ named.msgs = b.ctx[c].msgs
        /\ named.count12 = b.ctx[c].count12 /\ named.id = p.id /\ named.sock = b.ctx[c].sock
        /\ named.username = p.username /\ named.password = p.password /\ named.acl = AclOf(d.sec, p.username)
    BY <2>2 DEF Context, ContextFields
  <2> HIDE DEF named
  <2>4. OneCtx(b, g, c) /\ g.ctx[c] = named
    BY <2>2 DEF OneCtx, Fields
  <2> HIDE DEF g
  <2>5. Sound(g, Nobody, K.leaks)
    BY <2>1, <2>3, <2>4, OneCtxSound
  <2>6. /\ g.sec = d.sec /\ g.disused \subseteq DOMAIN d.ctx /\ DOMAIN g.ctx = DOMAIN d.ctx
        /\ \A y \in DOMAIN d.ctx \ {c} : g.ctx[y] = b.ctx[y]
        /\ Fields \subseteq DOMAIN g
    BY <2>1, <2>2, <2>4, OneCtxIs DEF OneCtx
  <2>7. c \in DOMAIN g.ctx /\ Paced(g.ctx[c])
    BY <2>1, <2>3, <2>4, <2>6 DEF Paced, Tally
  <2> HIDE DEF h
  <2>8. /\ Sound(h, Nobody, K.leaks) /\ DOMAIN h = DOMAIN g
        /\ \A f \in DOMAIN g \ {"ctx", "store"} : h[f] = g[f]
        /\ DOMAIN h.ctx = DOMAIN g.ctx
        /\ \A y \in DOMAIN g.ctx \ {c} : h.ctx[y] = g.ctx[y]
        /\ \A f \in ContextFields \ {"msgs"} : h.ctx[c][f] = g.ctx[c][f]
        /\ NoLists(g.sec) /\ Paced(g.ctx[c]) => Paced(h.ctx[c])
    BY <2>5, <2>7, PurgeSound DEF h
  <2>9. h.sec = d.sec /\ h.disused = g.disused
    BY <2>6, <2>8 DEF Fields
  <2>10. h.ctx[c].id = p.id /\ h.ctx[c].sock /\ Fields \subseteq DOMAIN h /\ Context(h.ctx[c])
    BY <2>1, <2>3, <2>4, <2>6, <2>7, <2>8, QueueOf DEF ContextFields
  <2>11. /\ OneCtx(h, k, c) /\ Context(k.ctx[c]) /\ k.ctx[c].subs = h.ctx[c].subs
         /\ k.ctx[c].msgs = h.ctx[c].msgs /\ k.ctx[c].count12 = h.ctx[c].count12
         /\ k.ctx[c].id = p.id /\ k.ctx[c].sock /\ k.ctx[c].state = "connected"
         /\ k.ctx[c].username = h.ctx[c].username /\ k.ctx[c].password = h.ctx[c].password
         /\ k.ctx[c].acl = h.ctx[c].acl
    BY <2>6, <2>7, <2>8, <2>10 DEF OneCtx, Fields, Context, ContextFields
  <2> HIDE DEF k
  <2>12. Sound(k, Nobody, K.leaks)
    BY <2>8, <2>11, OneCtxSound
  <2>13. /\ k.sec = d.sec /\ k.disused \subseteq DOMAIN d.ctx /\ DOMAIN k.ctx = DOMAIN d.ctx
         /\ \A y \in DOMAIN d.ctx \ {c} : k.ctx[y] = b.ctx[y]
    BY <2>6, <2>8, <2>9, <2>10, <2>11, OneCtxIs DEF OneCtx
  <2>14. NoLists(d.sec) => Paced(k.ctx[c])
    BY <2>6, <2>7, <2>8, <2>10, <2>11 DEF Paced, Tally
  <2>15. Role(k.ctx[c])
    BY <2>11 DEF Role
  <2>16. \A y \in DOMAIN d.ctx \ {c} :
            /\ Role(k.ctx[y]) /\ k.ctx[y].id # p.id
            /\ k.ctx[y] = d.ctx[y] \/ k.ctx[y].id = NoId
    BY <2>1, <2>13
  <2>17. \A y \in DOMAIN d.ctx : Role(k.ctx[y]) /\ k.ctx[y].id \in K.ids \cup {NoId}
    BY <2>11, <2>15, <2>16 DEF Managed
  <2>18. OneEach(k)
    BY <2>11, <2>13, <2>16 DEF Managed, OneEach
  <2>19. K.plain => NoLists(k.sec) /\ \A y \in DOMAIN d.ctx : k.ctx[y].id # NoId => Paced(k.ctx[y])
    BY <2>13, <2>14, <2>16 DEF Managed
  <2>25. Passes(d.sec, k.ctx[c])
    <3>1. /\ k.ctx[c].username = p.username /\ k.ctx[c].password = p.password
          /\ k.ctx[c].acl = AclOf(d.sec, p.username)
      BY <2>3, <2>4, <2>7, <2>8, <2>11 DEF ContextFields
    <3>2. Admitted(d, p)
      BY <1>3
    <3> QED
      BY <3>1, <3>2 DEF Passes, Admitted
  <2>26. K.vetted => Vetted(k)
    <3>1. SUFFICES ASSUME K.vetted, NEW y \in DOMAIN d.ctx PROVE Cleared(d.sec, k.ctx[y])
      BY <2>13 DEF Vetted
    <3>2. Cleared(d.sec, d.ctx[y])
      BY <3>1 DEF Managed, Vetted
    <3>3. CASE y = c
      BY <2>25, <3>3 DEF Cleared
    <3>4. CASE y # c
      BY <2>16, <3>2, <3>4 DEF Cleared, Role
    <3> QED
      BY <3>3, <3>4
  <2>20. Managed(K, k)
    BY <2>12, <2>13, <2>17, <2>18, <2>19, <2>26 DEF Managed
  <2>21. Moves(k, e, Nobody, K.leaks)
    BY <2>12, <2>13, SendSound DEF Moves, _mosquitto_send_connack
  <2> HIDE DEF e
  <2>22. Managed(K, e)
    BY <2>20, <2>21, ManagedMoves
  <2>23. e.sec = d.sec /\ DOMAIN e.ctx = DOMAIN d.ctx /\ e.ctx[c].state = "connected"
    BY <2>11, <2>13, <2>21 DEF Moves, Keeps, SameClient
  <2>24. r.db = e /\ r.go = TRUE
    BY <1>1, <1>3 DEF Ok
  <2> HIDE DEF r
  <2> QED
    BY <1>3, <2>22, <2>23, <2>24 DEF r
<1> QED
  BY <1>2, <1>3
-----------------------------------------------------------------------------
(* mqtt3_handle_publish                                                    *)

(* Messages may be left without a reference, or a client with a socket is  *)
(* never refused one: nothing limits its queue.                            *)
Leaky(Z) == Z = Nat \/ (Z = {} /\ (max_queued = 0 \/ max_inflight = 0))

(* Without a limit nothing is dropped for good.                            *)
LEMMA NeverDropped ==
    ASSUME max_queued = 0 \/ max_inflight = 0, NEW d, NEW c, d.ctx[c].id # NoId, d.ctx[c].sock,
           NEW retain, NEW s
    PROVE  InsertState(d, c, "in", 2, retain, s) \notin Dropping
<1>1. 2 # 0 /\ "in" # "out"
  OBVIOUS
<1>2. InsertState(d, c, "in", 2, retain, s) \in {"wait_for_pubrel", "queued"}
  BY <1>1 DEF InsertState
<1> QED
  BY <1>2 DEF Dropping

(* A message that has come in: stored now, or when it came the first time. *)
Came(d, st, Z) ==
    /\ Sound(st.db, Nobody, IF st.new THEN Z \cup {st.s} ELSE Z) /\ Keeps(d, st.db)
    /\ st.s \in DOMAIN st.db.store /\ st.s \in Nat
    /\ DOMAIN st.db.ctx = DOMAIN d.ctx

(* A message just stored is queued for its sender.                         *)
LEMMA StoredSound ==
    ASSUME NEW d, NEW Z, Sound(d, Nobody, Z), NEW c \in DOMAIN d.ctx, NEW p,
           NEW topic, Listed(topic), NEW payload, NEW retain
    PROVE  Came(d, Stored(d, c, p, topic, payload, retain), Z)
<1> DEFINE F == StoreFound(d, c, p.mid)
           e == mqtt3_db_message_store(d, d.ctx[c].id, p.mid, topic, p.qos, payload, retain)
           st == Stored(d, c, p, topic, payload, retain)
<1>1. st = IF p.qos > 0 /\ F # {} THEN [db |-> d, s |-> CHOOSE s \in F : TRUE, new |-> FALSE]
           ELSE [db |-> e, s |-> e.last_db_id, new |-> TRUE]
  BY DEF Stored
<1> HIDE DEF st
<1>2. CASE p.qos > 0 /\ F # {}
  <2> DEFINE s == CHOOSE s \in F : TRUE
  <2>1. s \in F
    BY <1>2
  <2>2. PICK m \in Range(d.ctx[c].msgs) : m.store = s
    BY <2>1 DEF StoreFound
  <2> HIDE DEF s
  <2>3. PICK i \in DOMAIN d.ctx[c].msgs : d.ctx[c].msgs[i] = m
    BY DEF Range
  <2>4. s \in DOMAIN d.store
    BY <2>2, <2>3, Referred
  <2>5. s \in Nat
    BY <2>4 DEF Sound, Stocked
  <2>6. st.db = d /\ st.s = s /\ st.new = FALSE
    BY <1>1, <1>2 DEF s
  <2>7. Keeps(d, d)
    BY KeepsSelf, SoundNat
  <2>8. Came(d, st, Z)
    BY <2>4, <2>5, <2>6, <2>7 DEF Came
  <2> QED
    BY <2>8 DEF st
<1>3. CASE ~(p.qos > 0 /\ F # {})
  <2>1. st = [db |-> e, s |-> e.last_db_id, new |-> TRUE]
    BY <1>1, <1>3
  <2> HIDE DEF e, F
  <2>2. st.db = e /\ st.s = e.last_db_id /\ st.new = TRUE
    BY <2>1
  <2> DEFINE n == d.last_db_id + 1
  <2>3. /\ Sound(e, Nobody, Z \cup {n}) /\ Keeps(d, e)
        /\ e.last_db_id = n /\ n \in DOMAIN e.store /\ n \in Nat \ {0} /\ e.ctx = d.ctx
    BY StoreSound DEF e
  <2> HIDE DEF n
  <2>4. Came(d, st, Z)
    BY <2>2, <2>3 DEF Came
  <2> QED
    BY <2>4 DEF st
<1> QED
  BY <1>2, <1>3

(* A QoS 2 message is kept until its PUBREL.                               *)
LEMMA IncomingSound ==
    ASSUME NEW d, NEW Z, Leaky(Z), Sound(d, Nobody, Z), NEW c \in DOMAIN d.ctx,
           d.ctx[c].id # NoId, d.ctx[c].sock, NEW st, Came(d, st, Z), NEW p, NEW retain
    PROVE  Moves(d, Incoming(st, c, p, retain), Nobody, Z)
<1> DEFINE b == st.db
           s == st.s
           e == mqtt3_db_message_insert(b, c, p.mid, "in", 2, retain, s)
           state == InsertState(b, c, "in", 2, retain, s)
<1>1. /\ Sound(b, Nobody, IF st.new THEN Z \cup {s} ELSE Z) /\ Keeps(d, b) /\ s \in DOMAIN b.store /\ s \in Nat
      /\ DOMAIN b.ctx = DOMAIN d.ctx
  BY DEF Came
<1>2. CASE ~st.new
  <2>1. Incoming(st, c, p, retain) = b /\ Sound(b, Nobody, Z)
    BY <1>1, <1>2 DEF Incoming
  <2> QED
    BY <1>1, <2>1 DEF Moves
<1>3. CASE st.new
  <2>1. Incoming(st, c, p, retain) = e
    BY <1>3 DEF Incoming
  <2>2. Sound(b, Nobody, Z \cup {s}) /\ c \in DOMAIN b.ctx
    BY <1>1, <1>3
  <2>3. b.ctx[c].id # NoId /\ b.ctx[c].sock
    BY <1>1 DEF Keeps, SameClient
  <2> HIDE DEF b, s
  <2>4. /\ Sound(e, Nobody, IF state \in Dropping THEN Z \cup {s} ELSE (Z \cup {s}) \ {s})
        /\ Keeps(b, e)
    BY <1>1, <2>2, InsertSound
  <2>5. Z = {} => state \notin Dropping
    BY <2>3, NeverDropped DEF Leaky
  <2> HIDE DEF e, state
  <2>6. (IF state \in Dropping THEN Z \cup {s} ELSE (Z \cup {s}) \ {s}) \subseteq Z
    BY <1>1, <2>5 DEF Leaky
  <2>7. Sound(e, Nobody, Z)
    BY <2>4, <2>6, SoundMore
  <2>8. Keeps(d, e)
    <3>1. d.last_db_id \in Nat /\ b.last_db_id \in Nat /\ e.last_db_id \in Nat
      BY <2>2, <2>7, SoundNat
    <3> QED
      BY <3>1, <1>1, <2>4, KeepsTrans
  <2> QED
    BY <2>1, <2>7, <2>8 DEF Moves
<1> QED
  BY <1>2, <1>3

(* A packet sent at the end.                                               *)
LEMMA MovesSend ==
    ASSUME NEW d, NEW Z, Sound(d, Nobody, Z), NEW c \in DOMAIN d.ctx, NEW e, Moves(d, e, Nobody, Z), NEW packet
    PROVE  Moves(d, Send(e, c, packet), Nobody, Z)
<1>1. c \in DOMAIN e.ctx /\ Sound(e, Nobody, Z)
  BY DEF Moves, Keeps
<1>2. Moves(e, Send(e, c, packet), Nobody, Z)
  BY <1>1, SendSound DEF Moves
<1> QED
  BY <1>2, MovesOn

(* A PUBACK or PUBREC is sent.                                             *)
LEMMA AckedSound ==
    ASSUME NEW d, NEW Z, Sound(d, Nobody, Z), NEW c \in DOMAIN d.ctx, NEW e, Moves(d, e, Nobody, Z),
           NEW p, NEW accepted
    PROVE  Moves(d, Pubacked(e, c, p), Nobody, Z) /\ Moves(d, Pubreced(accepted, e, c, p), Nobody, Z)
BY MovesSend DEF Pubacked, Pubreced

(* mqtt3_handle_publish                                                    *)
LEMMA PublishSound ==
    ASSUME NEW d, NEW Z, Leaky(Z), Sound(d, Nobody, Z), NEW c \in DOMAIN d.ctx,
           d.ctx[c].id # NoId, d.ctx[c].sock, NEW p, Topic(p.topic)
    PROVE  Moves(d, mqtt3_handle_publish(d, c, p).db, Nobody, Z)
<1> DEFINE r == mqtt3_handle_publish(d, c, p)
           bad == process_bad_message(d, c, p)
           st == Stored(d, c, p, p.topic, p.payload, p.retain)
           ok == Handed(st, c, p)
<1>1. Moves(d, d, Nobody, Z)
  BY MovesSelf
<1>2. Moves(d, bad.db, Nobody, Z)
  <2> DEFINE su == Stored(d, c, p, <<>>, 0, FALSE)
  <2>1. Came(d, su, Z)
    BY StoredSound, EmptyListed
  <2> HIDE DEF su
  <2>2. Moves(d, Incoming(su, c, p, FALSE), Nobody, Z)
    BY <2>1, IncomingSound
  <2>3. Moves(d, Refused(su, c, p).db, Nobody, Z)
    BY <2>2, AckedSound DEF Refused
  <2>4. Moves(d, Ok(Pubacked(d, c, p)).db, Nobody, Z)
    BY <1>1, AckedSound DEF Ok
  <2> QED
    BY <2>3, <2>4 DEF process_bad_message, su
<1>3. Moves(d, ok, Nobody, Z)
  <2>1. Came(d, st, Z)
    BY StoredSound DEF Topic
  <2> HIDE DEF st
  <2> DEFINE b == st.db
             q == mqtt3_db_messages_queue(b, b.ctx[c].id, p.topic, p.qos, p.retain, st.s)
  <2>2. Moves(d, Incoming(st, c, p, p.retain), Nobody, Z)
    BY <2>1, IncomingSound
  <2>3. Moves(d, q, Nobody, Z)
    <3> DEFINE Y == IF st.new THEN Z \cup {st.s} ELSE Z
    <3>1. Sound(b, Nobody, Y) /\ Keeps(d, b) /\ st.s \in DOMAIN b.store
      BY <2>1 DEF Came
    <3>2. Y \ {st.s} \subseteq Z
      OBVIOUS
    <3> HIDE DEF Y, b
    <3>3. Sound(q, Nobody, Y \ {st.s}) /\ Keeps(b, q)
      BY <3>1, QueueSound DEF Topic
    <3> HIDE DEF q
    <3>4. Sound(q, Nobody, Z)
      BY <3>2, <3>3, SoundMore
    <3>5. d.last_db_id \in Nat /\ b.last_db_id \in Nat /\ q.last_db_id \in Nat
      BY <3>1, <3>4, SoundNat
    <3>6. Keeps(d, q)
      BY <3>1, <3>3, <3>5, KeepsTrans
    <3> QED
      BY <3>4, <3>6 DEF Moves
  <2> HIDE DEF q
  <2>4. Moves(d, Pubacked(q, c, p), Nobody, Z)
    BY <2>3, AckedSound
  <2>5. Moves(d, Pubreced(Accepted(st, c, p.retain), Incoming(st, c, p, p.retain), c, p), Nobody, Z)
    BY <2>2, AckedSound
  <2> QED
    BY <2>4, <2>5 DEF Handed, q
<1>4. r = IF ~mosquitto_pub_topic_check(p.topic) THEN Error(d)
          ELSE IF ~mosquitto_acl_check(d, c, p.topic, "write") THEN bad ELSE Ok(ok)
  BY DEF mqtt3_handle_publish
<1>5. Error(d).db = d /\ Ok(ok).db = ok
  BY DEF Error, Ok
<1> HIDE DEF r, bad, ok
<1>6. Moves(d, r.db, Nobody, Z)
  BY <1>1, <1>2, <1>3, <1>4, <1>5
<1> QED
  BY <1>6 DEF r
-----------------------------------------------------------------------------
(* mqtt3_packet_handle: every packet.                                      *)

(* What the packets of clients carry.                                      *)
Packet(K, p) ==
    /\ p.cmd = "CONNECT" => p.id \in K.ids /\ Willing(p.will)
    /\ p.cmd = "PUBLISH" => Topic(p.topic)
    /\ p.cmd \in {"SUBSCRIBE", "UNSUBSCRIBE"} => Topic(p.sub)

(* mqtt3_handle_subscribe, mqtt3_handle_unsubscribe                        *)
LEMMA SubscribeSound ==
    ASSUME NEW d, NEW Z, Sound(d, Nobody, Z), NEW c \in DOMAIN d.ctx, d.ctx[c].id # NoId,
           NEW p, Topic(p.sub)
    PROVE  /\ Moves(d, mqtt3_handle_subscribe(d, c, p).db, Nobody, Z)
           /\ Moves(d, mqtt3_handle_unsubscribe(d, c, p).db, Nobody, Z)
<1>1. Moves(d, Error(d).db, Nobody, Z)
  BY MovesSelf DEF Error
<1>2. Moves(d, mqtt3_handle_subscribe(d, c, p).db, Nobody, Z)
  <2> DEFINE a == mqtt3_sub_add(d, c, p.sub, p.qos)
             b == mqtt3_retain_queue(a, c, p.sub, p.qos)
             e == _mosquitto_send_suback(b, c, p.mid)
  <2>1. Moves(d, a, Nobody, Z)
    BY SubAddSound
  <2>2. Sound(a, Nobody, Z) /\ c \in DOMAIN a.ctx
    BY <2>1 DEF Moves, Keeps
  <2> HIDE DEF a
  <2>3. Moves(a, b, Nobody, Z)
    BY <2>2, RetainQueueSound DEF Goes, Moves
  <2> HIDE DEF b
  <2>4. Moves(d, b, Nobody, Z)
    BY <2>1, <2>3, MovesOn
  <2>5. Moves(d, e, Nobody, Z)
    BY <2>4, MovesSend DEF _mosquitto_send_suback
  <2>6. mqtt3_handle_subscribe(d, c, p) = IF ~mosquitto_sub_topic_check(p.sub) THEN Error(d) ELSE Ok(e)
    BY DEF mqtt3_handle_subscribe, a, b
  <2>7. Ok(e).db = e
    BY DEF Ok
  <2> HIDE DEF e
  <2> QED
    BY <1>1, <2>5, <2>6, <2>7
<1>3. Moves(d, mqtt3_handle_unsubscribe(d, c, p).db, Nobody, Z)
  <2> DEFINE a == mqtt3_sub_remove(d, c, p.sub)
             e == Send(a, c, [cmd |-> "UNSUBACK", mid |-> p.mid])
  <2>1. Moves(d, a, Nobody, Z)
    BY SubRemoveSound
  <2> HIDE DEF a
  <2>2. Moves(d, e, Nobody, Z)
    BY <2>1, MovesSend
  <2>3. mqtt3_handle_unsubscribe(d, c, p) = IF ~mosquitto_sub_topic_check(p.sub) THEN Error(d) ELSE Ok(e)
    BY DEF mqtt3_handle_unsubscribe, a
  <2>4. Ok(e).db = e
    BY DEF Ok
  <2> HIDE DEF e
  <2> QED
    BY <1>1, <2>2, <2>3, <2>4
<1> QED
  BY <1>2, <1>3

(* PUBACK, PUBCOMP, PUBREC and PUBREL                                      *)
LEMMA AckHandled ==
    ASSUME NEW d, NEW Z, Sound(d, Nobody, Z), NEW c \in DOMAIN d.ctx, d.ctx[c].id # NoId, NEW mid
    PROVE  /\ Moves(d, Ok(mqtt3_db_message_delete(d, c, mid, "out")).db, Nobody, Z)
           /\ Moves(d, broker_handle_pubrec(d, c, mid).db, Nobody, Z)
           /\ Moves(d, broker_handle_pubrel(d, c, mid).db, Nobody, Z)
<1>1. Moves(d, mqtt3_db_message_delete(d, c, mid, "out"), Nobody, Z)
  BY DeleteSound DEF Goes, Moves
<1>2. Moves(d, mqtt3_db_message_update(d, c, mid, "out", "wait_for_pubcomp"), Nobody, Z)
  BY UpdateSound DEF Goes, Moves
<1>3. Moves(d, mqtt3_db_message_release(d, c, mid), Nobody, Z)
  BY ReleaseSound
<1>4. Moves(d, broker_handle_pubrec(d, c, mid).db, Nobody, Z)
  BY <1>2, MovesSend DEF broker_handle_pubrec, Ok
<1>5. Moves(d, broker_handle_pubrel(d, c, mid).db, Nobody, Z)
  BY <1>3, MovesSend DEF broker_handle_pubrel, Ok
<1> QED
  BY <1>1, <1>4, <1>5 DEF Ok

(* Only the state of a context is set.                                     *)
LEMMA StateSetOnly ==
    ASSUME NEW d, Fields \subseteq DOMAIN d, NEW c \in DOMAIN d.ctx, Context(d.ctx[c]), NEW state
    PROVE  LET g == [d EXCEPT !.ctx[c].state = state]
           IN /\ OneCtx(d, g, c) /\ ContextFields \subseteq DOMAIN g.ctx[c] /\ g.ctx[c].state = state
              /\ \A f \in ContextFields \ {"clean", "state"} : g.ctx[c][f] = d.ctx[c][f]
BY DEF OneCtx, Fields, Context, ContextFields

(* What goes well leaves the connection as it is; the rest ends it.        *)
Result(K, d, r) ==
    Managed(K, r.db) /\ r.db.sec = d.sec /\ DOMAIN r.db.ctx = DOMAIN d.ctx

(* A handler that only moves messages.                                     *)
LEMMA MovedResult ==
    ASSUME NEW K, NEW d, Managed(K, d), NEW r, Moves(d, r.db, Nobody, K.leaks)
    PROVE  Result(K, d, r)
BY ManagedMoves DEF Result, Moves, Keeps

(* mqtt3_handle_disconnect                                                 *)
LEMMA DisconnectHandled ==
    ASSUME NEW K, NEW d, Managed(K, d), NEW c \in DOMAIN d.ctx
    PROVE  Result(K, d, mqtt3_handle_disconnect(d, c))
<1> DEFINE g == [d EXCEPT !.ctx[c].state = "disconnecting"]
           e == do_disconnect(g, c)
<1>1. Fields \subseteq DOMAIN d /\ Context(d.ctx[c])
  BY ManagedIs
<1>2. /\ OneCtx(d, g, c) /\ ContextFields \subseteq DOMAIN g.ctx[c] /\ g.ctx[c].state = "disconnecting"
      /\ \A f \in ContextFields \ {"clean", "state"} : g.ctx[c][f] = d.ctx[c][f]
  BY <1>1, StateSetOnly
<1>3. mqtt3_handle_disconnect(d, c).db = e
  BY DEF mqtt3_handle_disconnect, Ok
<1> HIDE DEF g
<1>4. Managed(K, e) /\ e.sec = d.sec /\ DOMAIN e.ctx = DOMAIN d.ctx
  BY <1>2, ManagedEnded
<1> HIDE DEF e
<1> QED
  BY <1>3, <1>4 DEF Result

(* mqtt3_packet_handle                                                     *)
LEMMA HandleSound ==
    ASSUME NEW K, Leaky(K.leaks), NoId \notin K.ids, NEW d, Managed(K, d),
           NEW c \in DOMAIN d.ctx, d.ctx[c].sock, NEW p, Packet(K, p)
    PROVE  Result(K, d, mqtt3_packet_handle(d, c, p))
<1> DEFINE r == mqtt3_packet_handle(d, c, p)
           Z == K.leaks
<1>1. Sound(d, Nobody, Z) /\ Role(d.ctx[c])
  BY ManagedIs
<1>2. Result(K, d, Error(d))
  BY DEF Result, Error
<1>3. CASE d.ctx[c].state = "new" /\ p.cmd # "CONNECT"
  BY <1>2, <1>3 DEF mqtt3_packet_handle
<1>4. CASE p.cmd = "CONNECT"
  <2>1. r = mqtt3_handle_connect(d, c, p)
    BY <1>4 DEF mqtt3_packet_handle
  <2> HIDE DEF r
  <2>2. Result(K, d, mqtt3_handle_connect(d, c, p))
    BY <1>4, ConnectSound DEF Packet, Result
  <2> QED
    BY <2>1, <2>2 DEF r
<1>5. CASE d.ctx[c].state # "new" /\ p.cmd # "CONNECT"
  <2>1. d.ctx[c].id # NoId
    BY <1>1, <1>5 DEF Role
  <2>2. /\ p.cmd = "PUBLISH" => r = mqtt3_handle_publish(d, c, p)
        /\ p.cmd = "SUBSCRIBE" => r = mqtt3_handle_subscribe(d, c, p)
        /\ p.cmd = "UNSUBSCRIBE" => r = mqtt3_handle_unsubscribe(d, c, p)
        /\ p.cmd = "DISCONNECT" => r = mqtt3_handle_disconnect(d, c)
        /\ p.cmd \in {"PUBACK", "PUBCOMP"} => r = Ok(mqtt3_db_message_delete(d, c, p.mid, "out"))
        /\ p.cmd = "PUBREC" => r = broker_handle_pubrec(d, c, p.mid)
        /\ p.cmd = "PUBREL" => r = broker_handle_pubrel(d, c, p.mid)
        /\ p.cmd \notin {"PUBLISH", "SUBSCRIBE", "UNSUBSCRIBE", "DISCONNECT", "PUBACK", "PUBCOMP", "PUBREC", "PUBREL"}
              => r = Error(d)
    <3>1. p.cmd = "PUBLISH" => r = mqtt3_handle_publish(d, c, p)
      BY <1>5 DEF mqtt3_packet_handle
    <3>2. p.cmd = "SUBSCRIBE" => r = mqtt3_handle_subscribe(d, c, p)
      BY <1>5 DEF mqtt3_packet_handle
    <3>3. p.cmd = "UNSUBSCRIBE" => r = mqtt3_handle_unsubscribe(d, c, p)
      BY <1>5 DEF mqtt3_packet_handle
    <3>4. p.cmd = "DISCONNECT" => r = mqtt3_handle_disconnect(d, c)
      BY <1>5 DEF mqtt3_packet_handle
    <3>5. p.cmd \in {"PUBACK", "PUBCOMP"} => r = Ok(mqtt3_db_message_delete(d, c, p.mid, "out"))
      BY <1>5 DEF mqtt3_packet_handle
    <3>6. p.cmd = "PUBREC" => r = broker_handle_pubrec(d, c, p.mid)
      BY <1>5 DEF mqtt3_packet_handle
    <3>7. p.cmd = "PUBREL" => r = broker_handle_pubrel(d, c, p.mid)
      BY <1>5 DEF mqtt3_packet_handle
    <3>8. p.cmd \notin {"PUBLISH", "SUBSCRIBE", "UNSUBSCRIBE", "DISCONNECT", "PUBACK", "PUBCOMP", "PUBREC", "PUBREL"}
             => r = Error(d)
      BY <1>5 DEF mqtt3_packet_handle
    <3> QED
      BY <3>1, <3>2, <3>3, <3>4, <3>5, <3>6, <3>7, <3>8
  <2> HIDE DEF r, Z
  <2>3. CASE p.cmd = "PUBLISH"
    <3>1. Topic(p.topic)
      BY <2>3 DEF Packet
    <3>2. Moves(d, mqtt3_handle_publish(d, c, p).db, Nobody, Z)
      BY <1>1, <2>1, <3>1, PublishSound DEF Z
    <3> QED
      BY <2>2, <2>3, <3>2, MovedResult DEF Z, r
  <2>4. CASE p.cmd \in {"SUBSCRIBE", "UNSUBSCRIBE"}
    <3>1. Topic(p.sub)
      BY <2>4 DEF Packet
    <3>2. Moves(d, r.db, Nobody, Z)
      BY <1>1, <2>1, <2>2, <2>4, <3>1, SubscribeSound
    <3> QED
      BY <3>2, MovedResult DEF Z, r
  <2>5. CASE p.cmd = "DISCONNECT"
    BY <2>2, <2>5, DisconnectHandled DEF r
  <2>6. CASE p.cmd \in {"PUBACK", "PUBCOMP", "PUBREC", "PUBREL"}
    <3>1. Moves(d, r.db, Nobody, Z)
      BY <1>1, <2>1, <2>2, <2>6, AckHandled
    <3> QED
      BY <3>1, MovedResult DEF Z, r
  <2> QED
    BY <1>2, <2>2, <2>3, <2>4, <2>5, <2>6 DEF r
<1> QED
  BY <1>3, <1>4, <1>5

(* do_disconnect of a context as it is                                     *)
LEMMA EndSound ==
    ASSUME NEW K, NEW d, Managed(K, d), NEW c \in DOMAIN d.ctx
    PROVE  LET e == do_disconnect(d, c)
           IN Managed(K, e) /\ e.sec = d.sec /\ DOMAIN e.ctx = DOMAIN d.ctx
<1>1. OneCtx(d, d, c) /\ ContextFields \subseteq DOMAIN d.ctx[c]
  BY ManagedIs DEF OneCtx, Context
<1> QED
  BY <1>1, ManagedEnded

(* _mosquitto_packet_read: an error ends the connection.                   *)
LEMMA ReadSound ==
    ASSUME NEW K, Leaky(K.leaks), NoId \notin K.ids, NEW d, Managed(K, d),
           NEW c \in DOMAIN d.ctx, d.ctx[c].sock, NEW p, Packet(K, p)
    PROVE  LET e == _mosquitto_packet_read(d, c, p)
           IN Managed(K, e) /\ e.sec = d.sec /\ DOMAIN e.ctx = DOMAIN d.ctx
<1> DEFINE r == mqtt3_packet_handle(d, c, p)
<1>1. Managed(K, r.db) /\ r.db.sec = d.sec /\ DOMAIN r.db.ctx = DOMAIN d.ctx
  BY HandleSound DEF Result
<1> HIDE DEF r
<1>2. LET e == do_disconnect(r.db, c)
      IN Managed(K, e) /\ e.sec = d.sec /\ DOMAIN e.ctx = DOMAIN d.ctx
  <2>1. c \in DOMAIN r.db.ctx
    BY <1>1
  <2> QED
    BY <1>1, <2>1, EndSound
<1> QED
  BY <1>1, <1>2 DEF _mosquitto_packet_read, Concluded, r
-----------------------------------------------------------------------------
(* mosquitto_security_init and _apply: the security files.                 *)

(* The security files are read: rights change, nothing else.               *)
LEMMA Resecured ==
    ASSUME NEW K, NEW d, Managed(K, d), NEW e, Fields \subseteq DOMAIN e,
           \A f \in Fields \ {"ctx", "sec"} : e[f] = d[f],
           DOMAIN e.ctx = DOMAIN d.ctx,
           \A c \in DOMAIN d.ctx : /\ ContextFields \subseteq DOMAIN e.ctx[c]
                                   /\ \A f \in ContextFields \ {"acl"} : e.ctx[c][f] = d.ctx[c][f],
           K.plain => NoLists(e.sec)
    PROVE  Managed(Lax(K), e)
<1>1. Sound(d, Nobody, K.leaks) /\ \A c \in DOMAIN d.ctx : Context(d.ctx[c]) /\ Role(d.ctx[c])
  BY ManagedIs
<1>2. /\ e.store = d.store /\ e.last_db_id = d.last_db_id /\ e.tree = d.tree /\ e.subs = d.subs
      /\ e.retained = d.retained /\ e.roots = d.roots /\ e.disused = d.disused
  BY DEF Fields
<1>3. ASSUME NEW c \in DOMAIN d.ctx
      PROVE  /\ Context(e.ctx[c]) /\ Role(e.ctx[c]) /\ e.ctx[c].id = d.ctx[c].id
             /\ e.ctx[c].subs = d.ctx[c].subs /\ e.ctx[c].msgs = d.ctx[c].msgs
             /\ Paced(d.ctx[c]) => Paced(e.ctx[c])
  <2> DEFINE x == d.ctx[c]
             y == e.ctx[c]
  <2>1. /\ ContextFields \subseteq DOMAIN y /\ y.id = x.id /\ y.sock = x.sock /\ y.state = x.state
        /\ y.subs = x.subs /\ y.msgs = x.msgs /\ y.count12 = x.count12 /\ y.will = x.will
    BY DEF ContextFields
  <2>2. Context(x) /\ Role(x)
    BY <1>1
  <2> HIDE DEF x, y
  <2>3. Context(y) /\ (Paced(x) <=> Paced(y))
    BY <2>1, <2>2 DEF Context, Paced, Tally
  <2>4. Role(y)
    BY <2>1, <2>2, <2>3 DEF Role
  <2> QED
    BY <2>1, <2>3, <2>4 DEF x, y
<1>4. Lists(e) = Lists(d) /\ Queues(e) = Queues(d)
  BY <1>3 DEF Lists, Queues
<1>5. Shaped(e)
  BY <1>1, <1>2, <1>3 DEF Shaped, Sound
<1>6. Sound(e, Nobody, K.leaks)
  BY <1>1, <1>2, <1>4, <1>5, Framed
<1>7. OneEach(e)
  BY <1>3 DEF Managed, OneEach
<1> DEFINE L == Lax(K)
<1>8. L.conns = K.conns /\ L.ids = K.ids /\ L.leaks = K.leaks /\ L.plain = K.plain /\ L.vetted = FALSE
  BY DEF Lax
<1> HIDE DEF L
<1>9. Managed(L, e)
  BY <1>2, <1>3, <1>6, <1>7, <1>8 DEF Managed
<1> QED
  BY <1>9 DEF L

(* One line of an acl file.                                                *)
ReadLine(c, acc, line) == _aclfile_line(acc, line)
(* No line so far.                                                         *)
NoListsYet(c, k, acc) == NoLists(acc.sec)
(* The induction over the lines.                                           *)
Aclf == INSTANCE FoldInduction WITH Op <- ReadLine, Inv <- NoListsYet

(* Without an acl file there are no lists.                                 *)
LEMMA NoAclFile ==
    ASSUME NEW sec, NoLists(sec), NEW files, files.acl_file = <<>>
    PROVE  NoLists(mosquitto_security_init(sec, files))
<1> DEFINE a == [sec EXCEPT !.allow_anonymous = files.allow_anonymous]
           b == _unpwd_file_parse(a, files.password_file)
           base == [sec |-> b, user |-> NoUser, bad |-> FALSE]
           q == <<>>
<1>1. NoLists(b)
  BY DEF NoLists, _unpwd_file_parse
<1> HIDE DEF b
<1>2. NoListsYet(0, 0, base)
  BY <1>1 DEF NoListsYet
<1> HIDE DEF base
<1>3. DOMAIN q = 1..0 /\ 0 \in Nat
  BY EmptyListed DEF Listed
<1>4. NoListsYet(0, 0, Aclf!Left(0, base, q))
  <2>1. \A k \in 0..(0 - 1) : \A x : NoListsYet(0, k, x) => NoListsYet(0, k + 1, ReadLine(0, x, q[k + 1]))
    OBVIOUS
  <2> HIDE DEF q
  <2> QED
    BY <1>2, <1>3, <2>1, Aclf!LeftInduction
<1>5. Aclf!Left(0, base, q) = FoldLeft(_aclfile_line, base, q)
  BY DEF Aclf!Left, ReadLine, FoldLeft, MapThenFoldSet, Max
<1>6. mosquitto_security_init(sec, files) = FoldLeft(_aclfile_line, base, q).sec
  BY DEF mosquitto_security_init, _aclfile_parse, base, b
<1> QED
  BY <1>4, <1>5, <1>6 DEF NoListsYet

(* What clients are given and held against: all but the patterns, which    *)
(* _acl_cleanup may leave behind.                                          *)
SecFields == {"acl_list", "acl_patterns", "unpwd", "allow_anonymous"}
SameRights(a, b) == \A f \in SecFields \ {"acl_patterns"} : a[f] = b[f]
(* The lines of an acl file.                                               *)
Lined(files) ==
    LET q == files.acl_file
    IN \E n \in Nat : DOMAIN q = 1..n /\ \A k \in 1..n : q[k].word \in {"user", "topic", "pattern", "error"}

(* Two readers of one file that differ in what patterns there were before. *)
Reader(a) == {"sec", "user", "bad"} \subseteq DOMAIN a /\ SecFields \subseteq DOMAIN a.sec
Alike(a, b) == SameRights(a.sec, b.sec) /\ a.user = b.user /\ a.bad = b.bad

(* They go on alike.                                                       *)
LEMMA LineAlike ==
    ASSUME NEW a, NEW b, Reader(a), Reader(b), Alike(a, b),
           NEW line, line.word \in {"user", "topic", "pattern", "error"}
    PROVE  LET x == _aclfile_line(a, line)
               y == _aclfile_line(b, line)
           IN Reader(x) /\ Reader(y) /\ Alike(x, y)
<1>1. CASE a.bad
  BY <1>1 DEF _aclfile_line, Alike
<1>2. CASE ~a.bad /\ line.word = "user"
  BY <1>2 DEF _aclfile_line, Alike, Reader, SameRights, SecFields
<1>3. CASE ~a.bad /\ line.word = "topic"
  <2> DEFINE u == _add_acl(a.sec, a.user, line)
             v == _add_acl(b.sec, b.user, line)
  <2>1. SecFields \subseteq DOMAIN u /\ SecFields \subseteq DOMAIN v /\ SameRights(u, v)
    <3>1. /\ a.sec.acl_list = b.sec.acl_list /\ a.user = b.user /\ a.sec.unpwd = b.sec.unpwd
          /\ a.sec.allow_anonymous = b.sec.allow_anonymous
      BY DEF Alike, SameRights, SecFields
    <3> DEFINE hits == {i \in DOMAIN a.sec.acl_list : a.sec.acl_list[i].username = a.user}
    <3>2. CASE hits = {}
      BY <3>1, <3>2 DEF _add_acl, Reader, SameRights, SecFields
    <3>3. CASE hits # {}
      BY <3>1, <3>3 DEF _add_acl, Reader, SameRights, SecFields
    <3> QED
      BY <3>2, <3>3
  <2>2. /\ _aclfile_line(a, line) = [a EXCEPT !.sec = u]
        /\ _aclfile_line(b, line) = [b EXCEPT !.sec = v]
    BY <1>3 DEF _aclfile_line, Alike
  <2> HIDE DEF u, v
  <2> QED
    BY <2>1, <2>2 DEF Reader, Alike
<1>4. CASE ~a.bad /\ line.word = "pattern"
  BY <1>4 DEF _aclfile_line, _add_acl_pattern, Alike, Reader, SameRights, SecFields
<1>5. CASE ~a.bad /\ line.word = "error"
  BY <1>5 DEF _aclfile_line, Alike, Reader, SameRights, SecFields
<1> QED
  BY <1>1, <1>2, <1>3, <1>4, <1>5

(* One reader, and what the other has read so far.                         *)
AlikeTo(h, k, a) == Reader(a) /\ Reader(h[k]) /\ Alike(a, h[k])
(* The induction over the lines.                                           *)
Alk == INSTANCE FoldInduction WITH Op <- ReadLine, Inv <- AlikeTo

(* mosquitto_security_init, with and without older patterns                *)
LEMMA RightsRead ==
    ASSUME NEW a, NEW b, SecFields \subseteq DOMAIN a, SecFields \subseteq DOMAIN b,
           a.acl_list = b.acl_list, a.unpwd = b.unpwd, NEW files, Lined(files)
    PROVE  LET x == mosquitto_security_init(a, files)
               y == mosquitto_security_init(b, files)
           IN SecFields \subseteq DOMAIN x /\ SameRights(x, y)
<1> DEFINE First1(s) == _unpwd_file_parse([s EXCEPT !.allow_anonymous = files.allow_anonymous], files.password_file)
           Base(s) == [sec |-> First1(s), user |-> NoUser, bad |-> FALSE]
           q == files.acl_file
           u == Base(a)
           v == Base(b)
<1>1. PICK n \in Nat : DOMAIN q = 1..n /\ \A k \in 1..n : q[k].word \in {"user", "topic", "pattern", "error"}
  BY DEF Lined
<1>2. /\ mosquitto_security_init(a, files) = FoldLeft(_aclfile_line, u, q).sec
      /\ mosquitto_security_init(b, files) = FoldLeft(_aclfile_line, v, q).sec
  BY DEF mosquitto_security_init, _aclfile_parse
<1>3. Reader(u) /\ Reader(v) /\ Alike(u, v)
  BY DEF Reader, Alike, SameRights, SecFields, _unpwd_file_parse
<1> HIDE DEF u, v, q
<1>4. PICK h : Alk!Steps(0, v, q, n, h)
  BY <1>1, Alk!LeftSteps
<1>5. /\ h[0] = v /\ \A k \in 0..(n - 1) : h[k + 1] = ReadLine(0, h[k], q[k + 1])
      /\ h[n] = Alk!Left(0, v, q)
  BY <1>4 DEF Alk!Steps
<1>6. AlikeTo(h, 0, u)
  BY <1>3, <1>5 DEF AlikeTo
<1>7. ASSUME NEW k \in 0..(n - 1), NEW x, AlikeTo(h, k, x)
      PROVE  AlikeTo(h, k + 1, ReadLine(h, x, q[k + 1]))
  <2>1. h[k + 1] = _aclfile_line(h[k], q[k + 1])
    BY <1>5 DEF ReadLine
  <2>2. k + 1 \in 1..n
    OBVIOUS
  <2>3. q[k + 1].word \in {"user", "topic", "pattern", "error"}
    BY <1>1, <2>2
  <2> QED
    BY <1>7, <2>1, <2>3, LineAlike DEF AlikeTo, ReadLine
<1>8. AlikeTo(h, n, Alk!Left(h, u, q))
  BY <1>1, <1>6, <1>7, Alk!LeftInduction
<1>9. /\ Alk!Left(h, u, q) = FoldLeft(_aclfile_line, u, q)
      /\ Alk!Left(0, v, q) = FoldLeft(_aclfile_line, v, q)
  BY DEF Alk!Left, ReadLine, FoldLeft, MapThenFoldSet, Max
<1> DEFINE x == FoldLeft(_aclfile_line, u, q)
           y == FoldLeft(_aclfile_line, v, q)
<1>10. Reader(x) /\ Alike(x, y)
  BY <1>5, <1>8, <1>9 DEF AlikeTo
<1> HIDE DEF x, y
<1>11. SecFields \subseteq DOMAIN x.sec /\ SameRights(x.sec, y.sec)
  BY <1>10 DEF Reader, Alike
<1>12. mosquitto_security_init(a, files) = x.sec /\ mosquitto_security_init(b, files) = y.sec
  BY <1>2 DEF x, y
<1> QED
  BY <1>11, <1>12

(* _acl_cleanup and mosquitto_security_cleanup                             *)
LEMMA SecurityCleaned ==
    ASSUME NEW K, NEW d, Managed(K, d), NEW sec, K.plain => NoLists(sec)
    PROVE  LET e == [mosquitto_security_cleanup(d) EXCEPT !.sec = sec]
           IN Managed(Lax(K), e) /\ DOMAIN e.ctx = DOMAIN d.ctx /\ e.sec = sec
<1> DEFINE b == _acl_cleanup(d)
           a == mosquitto_security_cleanup(d)
           e == [a EXCEPT !.sec = sec]
<1>1. Fields \subseteq DOMAIN d /\ \A c \in DOMAIN d.ctx : Context(d.ctx[c])
  BY ManagedIs
<1>2. /\ DOMAIN b = DOMAIN d /\ \A f \in Fields \ {"ctx", "sec"} : b[f] = d[f]
      /\ DOMAIN b.ctx = DOMAIN d.ctx
      /\ \A c \in DOMAIN d.ctx : /\ ContextFields \subseteq DOMAIN b.ctx[c]
                              /\ \A f \in ContextFields \ {"acl"} : b.ctx[c][f] = d.ctx[c][f]
  <2>1. CASE d.sec.acl_list = <<>>
    BY <2>1, <1>1 DEF _acl_cleanup, Context
  <2>2. CASE d.sec.acl_list # <<>>
    <3> DEFINE ctx == [c \in DOMAIN d.ctx |-> [d.ctx[c] EXCEPT !.acl = NoAcl]]
    <3>1. b = [d EXCEPT !.ctx = ctx, !.sec.acl_list = <<>>, !.sec.acl_patterns = <<>>]
      BY <2>2 DEF _acl_cleanup
    <3>2. DOMAIN ctx = DOMAIN d.ctx /\ \A c \in DOMAIN d.ctx :
             /\ ContextFields \subseteq DOMAIN ctx[c]
             /\ \A f \in ContextFields \ {"acl"} : ctx[c][f] = d.ctx[c][f]
      BY <1>1 DEF Context
    <3> HIDE DEF ctx, b
    <3>3. b.ctx = ctx /\ DOMAIN b = DOMAIN d /\ \A f \in Fields \ {"ctx", "sec"} : b[f] = d[f]
      BY <1>1, <3>1 DEF Fields
    <3> QED
      BY <3>2, <3>3
  <2> QED
    BY <2>1, <2>2
<1>3. a = [b EXCEPT !.sec.unpwd = <<>>]
  BY DEF mosquitto_security_cleanup
<1> HIDE DEF b, a
<1>4. /\ DOMAIN e = DOMAIN d /\ \A f \in Fields \ {"ctx", "sec"} : e[f] = d[f]
      /\ e.ctx = b.ctx /\ e.sec = sec
  BY <1>1, <1>2, <1>3 DEF Fields
<1> HIDE DEF e
<1>5. Managed(Lax(K), e)
  BY <1>1, <1>2, <1>4, Resecured
<1> QED
  BY <1>2, <1>4, <1>5 DEF a, e

(* One turn of mosquitto_security_apply.                                   *)
Reapply(c, d, x) == Reapplied(x, d)
(* What is known after some of them: those satisfy the files, and who has  *)
(* no name is not connected.                                               *)
ReapplyTo(c, done, d) ==
    /\ Managed(Lax(c.K), d) /\ DOMAIN d.ctx = DOMAIN c.d.ctx /\ d.sec = c.d.sec
    /\ \A x \in DOMAIN d.ctx : x \in done \/ x \notin c.S => Cleared(d.sec, d.ctx[x])
(* The induction over the contexts.                                        *)
Rap == INSTANCE FoldInduction WITH Op <- Reapply, Inv <- ReapplyTo

(* A client stays, or is disconnected.                                     *)
LEMMA ReappliedSound ==
    ASSUME NEW K, NEW d, Managed(Lax(K), d), NEW x \in DOMAIN d.ctx
    PROVE  LET e == Reapplied(x, d)
           IN /\ Managed(Lax(K), e) /\ e.sec = d.sec /\ DOMAIN e.ctx = DOMAIN d.ctx
              /\ Cleared(d.sec, e.ctx[x])
              /\ \A y \in DOMAIN d.ctx \ {x} : Cleared(d.sec, d.ctx[y]) => Cleared(d.sec, e.ctx[y])
<1> DEFINE L == Lax(K)
           a == AclOf(d.sec, d.ctx[x].username)
           e1 == [d EXCEPT !.ctx[x].acl = a]
           g == [d EXCEPT !.ctx[x].state = "disconnecting"]
           e2 == do_disconnect(g, x)
           Pass == /\ d.ctx[x].username = NoUser => d.sec.allow_anonymous /\ d.sec.unpwd = <<>>
                   /\ mosquitto_unpwd_check(d.sec, d.ctx[x].username, d.ctx[x].password)
<1>1. Fields \subseteq DOMAIN d /\ Managed(L, d) /\ \A c \in DOMAIN d.ctx : Context(d.ctx[c])
  BY ManagedIs
<1>2. /\ Managed(L, e1) /\ e1.sec = d.sec /\ DOMAIN e1.ctx = DOMAIN d.ctx
      /\ Pass => Cleared(d.sec, e1.ctx[x])
      /\ \A y \in DOMAIN d.ctx \ {x} : e1.ctx[y] = d.ctx[y]
  <2>1. a = AclOf(d.sec, d.ctx[x].username)
    OBVIOUS
  <2> HIDE DEF a
  <2>2. /\ DOMAIN e1 = DOMAIN d /\ \A f \in DOMAIN d \ {"ctx"} : e1[f] = d[f]
        /\ DOMAIN e1.ctx = DOMAIN d.ctx
        /\ \A c \in DOMAIN d.ctx : /\ ContextFields \subseteq DOMAIN e1.ctx[c]
                                /\ \A f \in ContextFields \ {"acl"} : e1.ctx[c][f] = d.ctx[c][f]
        /\ e1.ctx[x].acl = a
        /\ \A y \in DOMAIN d.ctx \ {x} : e1.ctx[y] = d.ctx[y]
    BY <1>1 DEF Fields, Context, ContextFields
  <2> HIDE DEF e1
  <2>3. e1.sec = d.sec
    BY <1>1, <2>2 DEF Fields
  <2>4. L.plain => NoLists(e1.sec)
    BY <1>1, <2>3 DEF Managed
  <2>5. Fields \subseteq DOMAIN e1 /\ \A f \in Fields \ {"ctx", "sec"} : e1[f] = d[f]
    BY <1>1, <2>2
  <2> HIDE DEF L
  <2>6. Managed(Lax(L), e1)
    BY <1>1, <2>2, <2>4, <2>5, Resecured
  <2>7. Managed(L, e1)
    BY <2>6 DEF L, Lax
  <2>8. Pass => Passes(d.sec, e1.ctx[x])
    BY <2>1, <2>2 DEF Passes, ContextFields
  <2> HIDE DEF Pass
  <2> QED
    BY <2>2, <2>3, <2>7, <2>8 DEF Cleared
<1> HIDE DEF L
<1>3. /\ Managed(L, e2) /\ e2.sec = d.sec /\ DOMAIN e2.ctx = DOMAIN d.ctx
      /\ e2.ctx[x].state = "disconnected"
      /\ \A y \in DOMAIN d.ctx \ {x} : SameClient(d.ctx[y], e2.ctx[y])
  <2>1. /\ OneCtx(d, g, x) /\ ContextFields \subseteq DOMAIN g.ctx[x] /\ g.ctx[x].state = "disconnecting"
        /\ \A f \in ContextFields \ {"clean", "state"} : g.ctx[x][f] = d.ctx[x][f]
    BY <1>1, StateSetOnly
  <2> HIDE DEF g
  <2>2. Managed(L, e2) /\ e2.sec = d.sec /\ DOMAIN e2.ctx = DOMAIN d.ctx
    BY <1>1, <2>1, ManagedEnded
  <2>3. Sound(g, Nobody, L.leaks) /\ x \in DOMAIN g.ctx
    <3>1. Sound(d, Nobody, L.leaks) /\ Context(d.ctx[x])
      BY <1>1, ManagedIs
    <3>2. /\ Context(g.ctx[x]) /\ g.ctx[x].subs = d.ctx[x].subs /\ g.ctx[x].msgs = d.ctx[x].msgs
      BY <2>1, <3>1 DEF Context, ContextFields
    <3> QED
      BY <2>1, <3>1, <3>2, OneCtxSound DEF OneCtx
  <2>4. Others(g, e2, x) /\ Parted(g.ctx[x], e2.ctx[x])
    BY <2>1, <2>3, DisconnectSound
  <2> HIDE DEF e2
  <2>5. e2.ctx[x].state = "disconnected"
    BY <2>4 DEF Parted
  <2>6. \A y \in DOMAIN d.ctx \ {x} : SameClient(d.ctx[y], e2.ctx[y])
    BY <2>1, <2>4 DEF Others, OneCtx
  <2> QED
    BY <2>2, <2>5, <2>6
<1>4. Reapplied(x, d) = IF Pass THEN e1 ELSE e2
  BY DEF Reapplied
<1> HIDE DEF e1, e2, Pass
<1>5. CASE Pass
  BY <1>2, <1>4, <1>5 DEF L
<1>6. CASE ~Pass
  <2>1. Cleared(d.sec, e2.ctx[x])
    BY <1>3 DEF Cleared
  <2>2. \A y \in DOMAIN d.ctx \ {x} : Cleared(d.sec, d.ctx[y]) => Cleared(d.sec, e2.ctx[y])
    BY <1>3, ClearedSame
  <2> QED
    BY <1>3, <1>4, <1>6, <2>1, <2>2 DEF L
<1> QED
  BY <1>5, <1>6

(* mosquitto_security_apply                                                *)
LEMMA ApplySound ==
    ASSUME NEW K, NEW d, Managed(Lax(K), d)
    PROVE  LET e == mosquitto_security_apply(d)
           IN Managed(K, e) /\ DOMAIN e.ctx = DOMAIN d.ctx /\ e.sec = d.sec
<1> DEFINE S == {x \in DOMAIN d.ctx : d.ctx[x].id # NoId}
           c == [K |-> K, d |-> d, S |-> S]
           e == FoldSet(Reapplied, d, S)
<1>1. mosquitto_security_apply(d) = e
  BY DEF mosquitto_security_apply
<1>2. c.K = K /\ c.d = d /\ c.S = S /\ S \subseteq DOMAIN d.ctx
  OBVIOUS
<1>3. IsFiniteSet(S)
  <2>1. IsFiniteSet(DOMAIN d.ctx)
    BY DEF Managed, Sound, Queued, Queues
  <2> QED
    BY <2>1, FS_Subset
<1>9. \A x \in DOMAIN d.ctx : x \notin S => Cleared(d.sec, d.ctx[x])
  <2>1. \A x \in DOMAIN d.ctx : Role(d.ctx[x])
    BY ManagedIs
  <2> QED
    BY <2>1 DEF Role, Cleared
<1> HIDE DEF c, S
<1>4. ReapplyTo(c, {}, d)
  BY <1>2, <1>9 DEF ReapplyTo
<1>5. ASSUME NEW done \in SUBSET S, NEW x \in S \ done, NEW a, ReapplyTo(c, done, a)
      PROVE  ReapplyTo(c, done \cup {x}, Reapply(c, a, x))
  <2>1. /\ Managed(Lax(K), a) /\ x \in DOMAIN a.ctx /\ DOMAIN a.ctx = DOMAIN d.ctx /\ a.sec = d.sec
        /\ \A y \in DOMAIN a.ctx : y \in done \/ y \notin S => Cleared(a.sec, a.ctx[y])
    BY <1>2, <1>5 DEF ReapplyTo
  <2> DEFINE f == Reapplied(x, a)
  <2>2. /\ Managed(Lax(K), f) /\ f.sec = a.sec /\ DOMAIN f.ctx = DOMAIN a.ctx
        /\ Cleared(a.sec, f.ctx[x])
        /\ \A y \in DOMAIN a.ctx \ {x} : Cleared(a.sec, a.ctx[y]) => Cleared(a.sec, f.ctx[y])
    BY <2>1, ReappliedSound
  <2> HIDE DEF f
  <2>3. \A y \in DOMAIN f.ctx : y \in done \cup {x} \/ y \notin S => Cleared(f.sec, f.ctx[y])
    BY <2>1, <2>2
  <2>4. ReapplyTo(c, done \cup {x}, f)
    BY <1>2, <2>1, <2>2, <2>3 DEF ReapplyTo
  <2> QED
    BY <2>4 DEF Reapply, f
<1>6. ReapplyTo(c, S, Rap!OfSet(c, d, S))
  <2>1. Numbered(S)
    BY <1>3, FiniteNumbered
  <2> QED
    BY <1>4, <1>5, <2>1, Rap!SetInduction DEF Numbered
<1>7. Rap!OfSet(c, d, S) = e
  BY DEF Rap!OfSet, Reapply, FoldSet, MapThenFoldSet
<1>8. ReapplyTo(c, S, e)
  BY <1>6, <1>7
<1> HIDE DEF e
<1>10. Managed(Lax(K), e) /\ Vetted(e) /\ DOMAIN e.ctx = DOMAIN d.ctx /\ e.sec = d.sec
  BY <1>2, <1>8 DEF ReapplyTo, Vetted
<1>11. Managed(K, e)
  BY <1>10, ManagedLax
<1> QED
  BY <1>1, <1>10, <1>11

(* Without them the lists are read as by a broker that starts.             *)
LEMMA CleanedRights ==
    ASSUME NEW d, "sec" \in DOMAIN d, SecFields \subseteq DOMAIN d.sec
    PROVE  LET sec == mosquitto_security_cleanup(d).sec
           IN SecFields \subseteq DOMAIN sec /\ sec.acl_list = <<>> /\ sec.unpwd = <<>>
<1> DEFINE b == _acl_cleanup(d)
<1>1. "sec" \in DOMAIN b /\ SecFields \subseteq DOMAIN b.sec /\ b.sec.acl_list = <<>>
  <2>1. CASE d.sec.acl_list = <<>>
    BY <2>1 DEF _acl_cleanup
  <2>2. CASE d.sec.acl_list # <<>>
    <3> DEFINE ctx == [c \in DOMAIN d.ctx |-> [d.ctx[c] EXCEPT !.acl = NoAcl]]
    <3>1. b = [d EXCEPT !.ctx = ctx, !.sec.acl_list = <<>>, !.sec.acl_patterns = <<>>]
      BY <2>2 DEF _acl_cleanup
    <3> HIDE DEF ctx, b
    <3> QED
      BY <3>1 DEF SecFields
  <2> QED
    BY <2>1, <2>2
<1>2. mosquitto_security_cleanup(d) = [b EXCEPT !.sec.unpwd = <<>>]
  BY DEF mosquitto_security_cleanup
<1> HIDE DEF b
<1> QED
  BY <1>1, <1>2 DEF SecFields

(* SIGHUP                                                                  *)
LEMMA ReloadSound ==
    ASSUME NEW K, NEW d, Managed(K, d), NEW files, K.plain => files.acl_file = <<>>
    PROVE  LET e == Reloaded(d, files)
           IN /\ Managed(K, e) /\ DOMAIN e.ctx = DOMAIN d.ctx
              /\ e.sec = mosquitto_security_init(mosquitto_security_cleanup(d).sec, files)
<1> DEFINE a == mosquitto_security_cleanup(d)
           sec == mosquitto_security_init(a.sec, files)
           b == [a EXCEPT !.sec = sec]
           e == mosquitto_security_apply(b)
<1>1. Reloaded(d, files) = e
  BY DEF Reloaded
<1>2. K.plain => NoLists(sec)
  <2> SUFFICES ASSUME K.plain PROVE NoLists(sec)
    OBVIOUS
  <2>1. NoLists(d.sec) /\ Fields \subseteq DOMAIN d
    BY ManagedIs DEF Managed
  <2>2. a = [d EXCEPT !.sec.unpwd = <<>>]
    BY <2>1 DEF mosquitto_security_cleanup, _acl_cleanup, NoLists
  <2> HIDE DEF a
  <2>3. NoLists(a.sec)
    BY <2>1, <2>2 DEF NoLists, Fields
  <2> QED
    BY <2>3, NoAclFile
<1>5. sec = mosquitto_security_init(mosquitto_security_cleanup(d).sec, files)
  OBVIOUS
<1> HIDE DEF sec
<1>3. Managed(Lax(K), b) /\ DOMAIN b.ctx = DOMAIN d.ctx /\ b.sec = sec
  BY <1>2, SecurityCleaned
<1> HIDE DEF b
<1>4. Managed(K, e) /\ DOMAIN e.ctx = DOMAIN b.ctx /\ e.sec = b.sec
  BY <1>3, ApplySound
<1> QED
  BY <1>1, <1>3, <1>4, <1>5
-----------------------------------------------------------------------------
(* What else the main loop does.                                           *)

(* mqtt3_context_init: a connection without a name                         *)
LEMMA OpenManaged ==
    ASSUME NEW K, NEW d, Managed(K, d), NEW x \in K.conns, x \notin DOMAIN d.ctx
    PROVE  LET e == mqtt3_context_init(d, x, TRUE)
           IN Managed(K, e) /\ DOMAIN e.ctx = DOMAIN d.ctx \cup {x}
              /\ e.ctx[x] = Blank(TRUE) /\ e.sec = d.sec
<1> DEFINE e == mqtt3_context_init(d, x, TRUE)
           z == Blank(TRUE)
<1>1. Fields \subseteq DOMAIN d /\ Sound(d, Nobody, K.leaks) /\ \A c \in DOMAIN d.ctx : Role(d.ctx[c])
  BY ManagedIs
<1>2. /\ Sound(e, Nobody, K.leaks) /\ DOMAIN e = DOMAIN d
      /\ \A f \in DOMAIN d \ {"ctx"} : e[f] = d[f]
      /\ DOMAIN e.ctx = DOMAIN d.ctx \cup {x} /\ e.ctx[x] = z
      /\ \A y \in DOMAIN d.ctx : e.ctx[y] = d.ctx[y]
  <2>1. PICK sock : sock = TRUE
    OBVIOUS
  <2>2. LET a == mqtt3_context_init(d, x, sock)
        IN /\ Sound(a, Nobody, K.leaks) /\ DOMAIN a = DOMAIN d
           /\ \A f \in DOMAIN d \ {"ctx"} : a[f] = d[f]
           /\ DOMAIN a.ctx = DOMAIN d.ctx \cup {x} /\ a.ctx[x] = Blank(sock)
           /\ \A y \in DOMAIN d.ctx : a.ctx[y] = d.ctx[y]
    BY <1>1, InitSound
  <2> QED
    BY <2>1, <2>2
<1> HIDE DEF e
<1>3. e.disused = d.disused /\ e.sec = d.sec
  BY <1>1, <1>2 DEF Fields
<1>4. z.id = NoId /\ z.state = "new" /\ z.msgs = <<>> /\ z.subs = {} /\ z.count12 = 0
  BY DEF Blank
<1> HIDE DEF z
<1>5. Paced(z)
  <2>1. DOMAIN Mark(<<>>) = {}
    BY DEF Mark
  <2>2. {i \in DOMAIN Mark(<<>>) : Mark(<<>>)[i] = 1} = {}
    BY <2>1
  <2>3. Times(Mark(<<>>), 1) = 0
    BY <2>2, FS_EmptySet DEF Times
  <2> QED
    BY <1>4, <2>3, FlowsEmpty DEF Paced, Tally
<1>6. Role(z)
  BY <1>4, <1>5 DEF Role
<1>7. \A y \in DOMAIN e.ctx : Role(e.ctx[y]) /\ (e.ctx[y].id = NoId \/ (y \in DOMAIN d.ctx /\ e.ctx[y] = d.ctx[y]))
  BY <1>1, <1>2, <1>4, <1>6
<1>8. OneEach(e)
  BY <1>2, <1>7 DEF Managed, OneEach
<1>9. Managed(K, e)
  <2>1. \A y \in DOMAIN e.ctx : Role(e.ctx[y]) /\ e.ctx[y].id \in K.ids \cup {NoId}
    BY <1>7 DEF Managed
  <2>2. DOMAIN e.ctx \subseteq K.conns /\ e.disused \subseteq DOMAIN e.ctx
    BY <1>2, <1>3 DEF Managed
  <2>3. K.plain => NoLists(e.sec) /\ \A y \in DOMAIN e.ctx : e.ctx[y].id # NoId => Paced(e.ctx[y])
    BY <1>3, <1>7 DEF Managed
  <2>4. K.vetted => Vetted(e)
    BY <1>3, <1>4, <1>7, <1>2 DEF Managed, Vetted, Cleared
  <2> QED
    BY <1>2, <1>8, <2>1, <2>2, <2>3, <2>4 DEF Managed
<1> QED
  BY <1>2, <1>3, <1>9 DEF e, z

(* mosquitto__free_disused_contexts                                        *)
LEMMA FreeManaged ==
    ASSUME NEW K, NEW d, Managed(K, d)
    PROVE  LET e == mosquitto__free_disused_contexts(d) IN Managed(K, e) /\ e.sec = d.sec
<1> DEFINE e == mosquitto__free_disused_contexts(d)
<1>1. /\ Sound(e, Nobody, K.leaks) /\ e.sec = d.sec /\ e.disused = {}
      /\ DOMAIN e.ctx = DOMAIN d.ctx \ d.disused
      /\ \A y \in DOMAIN e.ctx : e.ctx[y] = d.ctx[y]
  BY ManagedIs, FreeSound
<1> HIDE DEF e
<1>2. \A y \in DOMAIN e.ctx : y \in DOMAIN d.ctx /\ e.ctx[y] = d.ctx[y]
  BY <1>1
<1>3. OneEach(e)
  BY <1>2 DEF Managed, OneEach
<1>4. Managed(K, e)
  BY <1>1, <1>2, <1>3 DEF Managed, Vetted
<1> QED
  BY <1>1, <1>4 DEF e

(* mqtt3_db_message_write to a connected client                            *)
LEMMA WriteManaged ==
    ASSUME NEW K, NEW d, Managed(K, d), NEW c \in DOMAIN d.ctx, d.ctx[c].state = "connected"
    PROVE  LET e == mqtt3_db_message_write(d, c) IN Managed(K, e) /\ e.sec = d.sec
<1>1. Sound(d, Nobody, K.leaks) /\ d.ctx[c].id # NoId
  BY ManagedIs DEF Role
<1>2. Moves(d, mqtt3_db_message_write(d, c), Nobody, K.leaks)
  BY <1>1, WriteSound DEF Goes, Moves
<1> QED
  BY <1>2, ManagedMoves DEF Moves, Keeps

(* mqtt3_db_message_timeout_check                                          *)
LEMMA TimeoutManaged ==
    ASSUME NEW K, NEW d, Managed(K, d), NEW late, late \subseteq Unanswered(d)
    PROVE  LET e == mqtt3_db_message_timeout_check(d, late) IN Managed(K, e) /\ e.sec = d.sec
<1>1. Sound(d, Nobody, K.leaks) /\ \A c \in DOMAIN d.ctx : Role(d.ctx[c])
  BY ManagedIs
<1>2. \A c \in DOMAIN d.ctx : d.ctx[c].sock /\ d.ctx[c].id = NoId => d.ctx[c].msgs = <<>>
  BY <1>1 DEF Role
<1>3. Moves(d, mqtt3_db_message_timeout_check(d, late), Nobody, K.leaks)
  BY <1>1, <1>2, TimeoutSound DEF Goes, Moves
<1> QED
  BY <1>3, ManagedMoves DEF Moves, Keeps

(* A persistent client is forgotten.                                       *)
LEMMA ExpireManaged ==
    ASSUME NEW K, NEW d, Managed(K, d), NEW c \in DOMAIN d.ctx
    PROVE  LET e == do_disconnect([d EXCEPT !.ctx[c].clean = TRUE, !.ctx[c].state = "expiring"], c)
           IN Managed(K, e) /\ e.sec = d.sec
<1> DEFINE g == [d EXCEPT !.ctx[c].clean = TRUE, !.ctx[c].state = "expiring"]
<1>1. Fields \subseteq DOMAIN d /\ Context(d.ctx[c])
  BY ManagedIs
<1>2. /\ OneCtx(d, g, c) /\ ContextFields \subseteq DOMAIN g.ctx[c] /\ g.ctx[c].state = "expiring"
      /\ \A f \in ContextFields \ {"clean", "state"} : g.ctx[c][f] = d.ctx[c][f]
  BY <1>1 DEF OneCtx, Fields, Context, ContextFields
<1> HIDE DEF g
<1>3. LET e == do_disconnect(g, c) IN Managed(K, e) /\ e.sec = d.sec
  BY <1>2, ManagedEnded
<1> QED
  BY <1>3 DEF g

(* What the broker has written to a connection is read.                    *)
LEMMA TakenManaged ==
    ASSUME NEW K, NEW d, Managed(K, d), NEW c \in DOMAIN d.ctx, NEW out
    PROVE  LET e == [d EXCEPT !.ctx[c].out = out] IN Managed(K, e) /\ e.sec = d.sec
<1> DEFINE e == [d EXCEPT !.ctx[c].out = out]
<1>1. Fields \subseteq DOMAIN d /\ Context(d.ctx[c]) /\ Sound(d, Nobody, K.leaks)
  BY ManagedIs
<1>2. /\ OneCtx(d, e, c) /\ ContextFields \subseteq DOMAIN e.ctx[c]
      /\ \A f \in ContextFields \ {"out"} : e.ctx[c][f] = d.ctx[c][f]
  BY <1>1 DEF OneCtx, Fields, Context, ContextFields
<1> HIDE DEF e
<1>3. Context(e.ctx[c]) /\ SameClient(d.ctx[c], e.ctx[c]) /\ e.ctx[c].subs = d.ctx[c].subs /\ e.ctx[c].msgs = d.ctx[c].msgs
  BY <1>1, <1>2 DEF Context, ContextFields, SameClient, Paced, Tally
<1>4. Sound(e, Nobody, K.leaks)
  BY <1>1, <1>2, <1>3, OneCtxSound
<1>5. Keeps(d, e)
  BY <1>1, <1>2, <1>3, OneCtxKeeps, SoundNat
<1>6. Managed(K, e)
  BY <1>4, <1>5, ManagedMoves DEF Moves
<1> QED
  BY <1>5, <1>6 DEF e, Keeps
-----------------------------------------------------------------------------
(* Clients and what they send.                                             *)

(* The fields of struct mosquitto that the model has.                      *)
ClientFields == {"conn", "state", "clean_session", "will", "username", "password", "out", "in",
                 "inflight_messages", "last_mid", "up", "got", "sent"}

(* What a client keeps to send it again names a topic, and what it writes  *)
(* are packets.                                                            *)
Outgoing(msgs) == Listed(msgs) /\ \A i \in DOMAIN msgs : "topic" \in DOMAIN msgs[i] /\ Topic(msgs[i].topic)
(* Packets under way to the broker.                                        *)
Packets(K, up) == Listed(up) /\ \A i \in DOMAIN up : Packet(K, up[i])
(* A client of the library: what it sends is what the broker knows.        *)
Client(K, m) ==
    /\ ClientFields \subseteq DOMAIN m
    /\ Willing(m.will) /\ Outgoing(m.out) /\ Listed(m.in) /\ Packets(K, m.up)

(* One packet more.                                                        *)
LEMMA PacketsAppend ==
    ASSUME NEW K, NEW up, Packets(K, up), NEW p, Packet(K, p)
    PROVE  Packets(K, Append(up, p))
BY AppendListed, ListedDomain DEF Packets

(* Packets after others.                                                   *)
LEMMA PacketsConcat ==
    ASSUME NEW K, NEW up, Packets(K, up), NEW more, Packets(K, more)
    PROVE  Packets(K, up \o more)
<1> DEFINE w == up \o more
<1>1. /\ Listed(w) /\ Len(w) = Len(up) + Len(more)
      /\ \A i \in 1..Len(up) : w[i] = up[i]
      /\ \A i \in 1..Len(more) : w[Len(up) + i] = more[i]
  BY ConcatListed DEF Packets
<1>2. /\ DOMAIN w = 1..Len(w) /\ DOMAIN up = 1..Len(up) /\ DOMAIN more = 1..Len(more)
      /\ Len(up) \in Nat /\ Len(more) \in Nat
  BY <1>1, ListedDomain DEF Packets
<1> HIDE DEF w
<1>3. ASSUME NEW i \in DOMAIN w PROVE Packet(K, w[i])
  <2>1. CASE i \in 1..Len(up)
    BY <1>1, <1>2, <2>1 DEF Packets
  <2>2. CASE i \notin 1..Len(up)
    <3>1. i - Len(up) \in 1..Len(more) /\ i = Len(up) + (i - Len(up))
      BY <1>1, <1>2, <2>2
    <3> QED
      BY <1>1, <1>2, <3>1 DEF Packets
  <2> QED
    BY <2>1, <2>2
<1> QED
  BY <1>1, <1>3 DEF Packets, w

(* Messages in the list, with a new one or without one of them.            *)
LEMMA OutgoingAppend ==
    ASSUME NEW out, Outgoing(out), NEW msg, "topic" \in DOMAIN msg, Topic(msg.topic)
    PROVE  Outgoing(Append(out, msg))
BY AppendListed, ListedDomain DEF Outgoing

(* A message less.                                                         *)
LEMMA OutgoingRemove ==
    ASSUME NEW out, Outgoing(out), NEW i \in DOMAIN out
    PROVE  Outgoing(RemoveAt(out, i))
<1> DEFINE w == RemoveAt(out, i)
<1>1. Len(out) \in Nat /\ DOMAIN out = 1..Len(out)
  BY ListedDomain DEF Outgoing
<1>2. /\ Listed(w) /\ Len(w) = Len(out) - 1
      /\ \A j \in 1..(Len(out) - 1) : w[j] = IF j < i THEN out[j] ELSE out[j + 1]
  BY <1>1, RemoveListed DEF Outgoing
<1>3. DOMAIN w = 1..(Len(out) - 1)
  BY <1>2, ListedDomain
<1> HIDE DEF w
<1>4. ASSUME NEW j \in DOMAIN w PROVE \E k \in DOMAIN out : w[j] = out[k]
  <2>1. j \in DOMAIN out /\ j + 1 \in DOMAIN out
    BY <1>1, <1>3
  <2> QED
    BY <1>2, <1>3, <2>1
<1> QED
  BY <1>2, <1>4 DEF Outgoing, w

(* _mosquitto_packet_queue                                                 *)
LEMMA SendUpSound ==
    ASSUME NEW K, NEW m, Client(K, m), NEW p, Packet(K, p)
    PROVE  Client(K, SendUp(m, p)) /\ SendUp(m, p).out = m.out /\ SendUp(m, p).in = m.in
<1>1. CASE m.conn = 0
  BY <1>1 DEF SendUp
<1>2. CASE m.conn # 0
  <2> DEFINE n == [m EXCEPT !.up = Append(m.up, p)]
  <2>1. n.up = Append(m.up, p) /\ \A f \in ClientFields \ {"up"} : n[f] = m[f]
    BY DEF Client, ClientFields
  <2>2. SendUp(m, p) = n /\ DOMAIN n = DOMAIN m
    BY <1>2 DEF SendUp
  <2>3. Packets(K, n.up)
    BY <2>1, PacketsAppend DEF Client
  <2> HIDE DEF n
  <2>4. n.will = m.will /\ n.out = m.out /\ n.in = m.in
    BY <2>1 DEF ClientFields
  <2> QED
    BY <2>2, <2>3, <2>4 DEF Client
<1> QED
  BY <1>1, <1>2

(* Fields that no packet depends on.                                       *)
LEMMA ClientSame ==
    ASSUME NEW K, NEW m, Client(K, m), NEW n, DOMAIN m \subseteq DOMAIN n,
           n.will = m.will, Outgoing(n.out), Listed(n.in), Packets(K, n.up)
    PROVE  Client(K, n)
BY DEF Client
-----------------------------------------------------------------------------
(* The calls of an application.                                            *)

(* The calls of the application.                                           *)
LEMMA PublishCall ==
    ASSUME NEW K, NEW m, Client(K, m), NEW topic, Topic(topic), NEW payload, NEW qos, NEW retain
    PROVE  Client(K, mosquitto_publish(m, topic, payload, qos, retain))
<1> DEFINE mid == (m.last_mid % mid_max) + 1
           go  == Room(m)
           msg == [mid |-> mid, topic |-> topic, payload |-> payload, qos |-> qos, retain |-> retain,
                   dup |-> FALSE, due |-> FALSE, state |-> IF go THEN Waiting(qos) ELSE "invalid"]
           m1  == [m EXCEPT !.last_mid = mid]
           m2  == [m1 EXCEPT !.out = Append(@, msg), !.inflight_messages = IF go THEN @ + 1 ELSE @]
<1>1. "topic" \in DOMAIN msg /\ msg.topic = topic /\ Packet(K, Publish(msg))
  BY DEF Packet, Publish
<1>2. mosquitto_publish(m, topic, payload, qos, retain)
      = IF qos = 0 THEN SendUp(m1, Publish(msg)) ELSE IF go THEN SendUp(m2, Publish(msg)) ELSE m2
  BY DEF mosquitto_publish
<1>3. /\ DOMAIN m1 = DOMAIN m /\ m1.will = m.will /\ m1.out = m.out /\ m1.in = m.in /\ m1.up = m.up
  BY DEF Client, ClientFields
<1> HIDE DEF msg, m1
<1>4. Client(K, m1)
  BY <1>3, ClientSame DEF Client
<1>5. /\ DOMAIN m2 = DOMAIN m1 /\ m2.will = m1.will /\ m2.out = Append(m1.out, msg)
      /\ m2.in = m1.in /\ m2.up = m1.up
  BY <1>4 DEF Client, ClientFields
<1> HIDE DEF m2, go
<1>6. Outgoing(m2.out)
  BY <1>1, <1>4, <1>5, OutgoingAppend DEF Client
<1>7. Client(K, m2)
  BY <1>4, <1>5, <1>6, ClientSame DEF Client
<1>8. Client(K, SendUp(m1, Publish(msg))) /\ Client(K, SendUp(m2, Publish(msg)))
  BY <1>1, <1>4, <1>7, SendUpSound
<1> QED
  BY <1>2, <1>7, <1>8

(* mosquitto_subscribe, mosquitto_unsubscribe                              *)
LEMMA SubscribeCall ==
    ASSUME NEW K, NEW m, Client(K, m), NEW sub, Topic(sub), NEW qos
    PROVE  Client(K, mosquitto_subscribe(m, sub, qos)) /\ Client(K, mosquitto_unsubscribe(m, sub))
<1> DEFINE mid == (m.last_mid % mid_max) + 1
           m1  == [m EXCEPT !.last_mid = mid]
<1>1. /\ DOMAIN m1 = DOMAIN m /\ m1.will = m.will /\ m1.out = m.out /\ m1.in = m.in /\ m1.up = m.up
  BY DEF Client, ClientFields
<1> HIDE DEF m1, mid
<1>2. Client(K, m1)
  BY <1>1, ClientSame DEF Client
<1>3. /\ Packet(K, [cmd |-> "SUBSCRIBE", mid |-> mid, sub |-> sub, qos |-> qos])
      /\ Packet(K, [cmd |-> "UNSUBSCRIBE", mid |-> mid, sub |-> sub])
  BY DEF Packet
<1> QED
  BY <1>2, <1>3, SendUpSound DEF mosquitto_subscribe, mosquitto_unsubscribe, m1, mid

(* mosquitto_disconnect                                                    *)
LEMMA DisconnectCall ==
    ASSUME NEW K, NEW m, Client(K, m)
    PROVE  Client(K, mosquitto_disconnect(m))
<1> DEFINE m1 == [m EXCEPT !.state = "disconnecting"]
           m2 == SendUp(m1, [cmd |-> "DISCONNECT"])
<1>1. /\ DOMAIN m1 = DOMAIN m /\ m1.will = m.will /\ m1.out = m.out /\ m1.in = m.in /\ m1.up = m.up
  BY DEF Client, ClientFields
<1> HIDE DEF m1
<1>2. Client(K, m1)
  BY <1>1, ClientSame DEF Client
<1>3. Packet(K, [cmd |-> "DISCONNECT"])
  BY DEF Packet
<1>4. Client(K, m2)
  BY <1>2, <1>3, SendUpSound
<1> HIDE DEF m2
<1> DEFINE m3 == [m2 EXCEPT !.conn = 0]
<1>5. /\ DOMAIN m3 = DOMAIN m2 /\ m3.will = m2.will /\ m3.out = m2.out /\ m3.in = m2.in /\ m3.up = m2.up
  BY <1>4 DEF Client, ClientFields
<1>6. mosquitto_disconnect(m) = m3
  BY DEF mosquitto_disconnect, m1, m2
<1> HIDE DEF m3
<1> QED
  BY <1>4, <1>5, <1>6, ClientSame DEF Client

(* _mosquitto_socket_close                                                 *)
LEMMA ClosedSound ==
    ASSUME NEW K, NEW m, Client(K, m)
    PROVE  Client(K, _mosquitto_socket_close(m))
<1> DEFINE n == [m EXCEPT !.conn = 0]
<1>1. /\ DOMAIN n = DOMAIN m /\ n.will = m.will /\ n.out = m.out /\ n.in = m.in /\ n.up = m.up
  BY DEF Client, ClientFields
<1> HIDE DEF n
<1>2. Client(K, n)
  BY <1>1, ClientSame DEF Client
<1> QED
  BY <1>2 DEF _mosquitto_socket_close, n

(* What an application may name.                                           *)
LEMMA TopicsAreTopics ==
    ASSUME NEW t \in Topics
    PROVE  Topic(t)
<1>1. Listed(t) /\ Len(t) # 0
  BY SeqListed DEF Topics
<1> QED
  BY <1>1, ListedDomain DEF Topic

(* Every call of the application.                                          *)
LEMMA PerformSound ==
    ASSUME NEW K, NEW m, Client(K, m), NEW call \in AnyCall
    PROVE  Client(K, Perform(m, call))
<1>1. \/ call.op = "publish" /\ call.topic \in Topics
      \/ call.op \in {"subscribe", "unsubscribe"} /\ call.sub \in Topics
      \/ call.op = "disconnect"
  BY DEF AnyCall
<1>2. CASE call.op = "publish" /\ call.topic \in Topics
  <2>1. Perform(m, call) = mosquitto_publish(m, call.topic, call.payload, call.qos, call.retain)
    BY <1>2 DEF Perform
  <2> QED
    BY <1>2, <2>1, TopicsAreTopics, PublishCall
<1>3. CASE call.op = "subscribe" /\ call.sub \in Topics
  <2>1. Perform(m, call) = mosquitto_subscribe(m, call.sub, call.qos)
    BY <1>3 DEF Perform
  <2> QED
    BY <1>3, <2>1, TopicsAreTopics, SubscribeCall
<1>4. CASE call.op = "unsubscribe" /\ call.sub \in Topics
  <2>1. Perform(m, call) = mosquitto_unsubscribe(m, call.sub)
    BY <1>4 DEF Perform
  <2> QED
    BY <1>4, <2>1, TopicsAreTopics, SubscribeCall
<1>5. CASE call.op = "disconnect"
  <2>1. Perform(m, call) = mosquitto_disconnect(m)
    BY <1>5 DEF Perform
  <2> QED
    BY <2>1, DisconnectCall
<1> QED
  BY <1>1, <1>2, <1>3, <1>4, <1>5
-----------------------------------------------------------------------------
(* Messages that leave the queue, and those that wait.                     *)

(* Waiting messages get their turn one after the other.                    *)
Turn(c, m, k) == NextTurn(m, k)
(* What is known after some turns of the loop.                             *)
TurnsTo(c, k, m) == Client(c.K, m) /\ DOMAIN m.out = 1..c.n
(* The induction over the messages.                                        *)
Trn == INSTANCE FoldInduction WITH Op <- Turn, Inv <- TurnsTo

(* One message that waits gets its turn.                                   *)
LEMMA TurnSound ==
    ASSUME NEW K, NEW m, Client(K, m), NEW k \in DOMAIN m.out
    PROVE  Client(K, NextTurn(m, k)) /\ DOMAIN NextTurn(m, k).out = DOMAIN m.out
<1>1. CASE ~(Room(m) /\ m.out[k].state = "invalid")
  BY <1>1 DEF NextTurn
<1>2. CASE Room(m) /\ m.out[k].state = "invalid"
  <2> DEFINE n == [m EXCEPT !.out[k].state = Waiting(m.out[k].qos), !.inflight_messages = @ + 1]
  <2>1. /\ DOMAIN n = DOMAIN m /\ n.will = m.will /\ n.in = m.in /\ n.up = m.up
        /\ n.out = [m.out EXCEPT ![k].state = Waiting(m.out[k].qos)]
    BY DEF Client, ClientFields
  <2> HIDE DEF n
  <2>2. /\ Listed(m.out) /\ Len(m.out) \in Nat /\ DOMAIN m.out = 1..Len(m.out)
        /\ m.out = [i \in 1..Len(m.out) |-> m.out[i]]
    BY ListedDomain DEF Client, Outgoing
  <2>3. /\ n.out = [i \in 1..Len(m.out) |-> n.out[i]]
        /\ \A i \in DOMAIN m.out : i # k => n.out[i] = m.out[i]
        /\ n.out[k] = [m.out[k] EXCEPT !.state = Waiting(m.out[k].qos)]
    BY <2>1, <2>2
  <2>4. Listed(n.out) /\ DOMAIN n.out = DOMAIN m.out
    BY <2>2, <2>3, FunctionListed
  <2>5. "topic" \in DOMAIN n.out[k] /\ n.out[k].topic = m.out[k].topic
    BY <2>3 DEF Client, Outgoing
  <2>6. Outgoing(n.out)
    BY <2>3, <2>4, <2>5 DEF Client, Outgoing
  <2>7. Client(K, n)
    BY <2>1, <2>6, ClientSame DEF Client
  <2>8. Packet(K, Publish(m.out[k]))
    BY DEF Packet, Publish, Client, Outgoing
  <2>9. NextTurn(m, k) = SendUp(n, Publish(m.out[k]))
    BY <1>2 DEF NextTurn, n
  <2> QED
    BY <2>4, <2>7, <2>8, <2>9, SendUpSound
<1> QED
  BY <1>1, <1>2

(* _mosquitto_message_remove                                               *)
LEMMA RemoveSound ==
    ASSUME NEW K, NEW m, Client(K, m), NEW mid, IndexOfMid(m.out, mid) # {}
    PROVE  Client(K, _mosquitto_message_remove(m, mid))
<1> DEFINE i  == Min(IndexOfMid(m.out, mid))
           m1 == [m EXCEPT !.out = RemoveAt(@, i), !.inflight_messages = @ - 1]
<1>1. Len(m.out) \in Nat /\ DOMAIN m.out = 1..Len(m.out)
  BY ListedDomain DEF Client, Outgoing
<1>20. IsFiniteSet(DOMAIN m.out)
  BY ListedDomain DEF Client, Outgoing
<1>2. i \in DOMAIN m.out
  <2> DEFINE I == IndexOfMid(m.out, mid)
  <2>1. I \subseteq 1..Len(m.out) /\ I # {} /\ I \subseteq Nat
    BY <1>1 DEF IndexOfMid
  <2>4. IsFiniteSet(I)
    BY <1>1, <1>20, <2>1, FS_Subset
  <2> HIDE DEF I
  <2>2. Min(I) \in I
    BY <2>1, <2>4, MinIn
  <2>3. Min(I) \in DOMAIN m.out
    BY <1>1, <2>1, <2>2
  <2> QED
    BY <2>3 DEF I
<1> HIDE DEF i
<1>3. /\ DOMAIN m1 = DOMAIN m /\ m1.will = m.will /\ m1.in = m.in /\ m1.up = m.up
      /\ m1.out = RemoveAt(m.out, i)
  BY DEF Client, ClientFields
<1> HIDE DEF m1
<1>4. Outgoing(m1.out)
  BY <1>2, <1>3, OutgoingRemove DEF Client
<1>5. Client(K, m1)
  BY <1>3, <1>4, ClientSame DEF Client
<1> DEFINE n == Len(m1.out)
           ks == [k \in 1..n |-> k]
           c == [K |-> K, n |-> n]
           r == FoldLeft(NextTurn, m1, ks)
<1>6. n \in Nat /\ DOMAIN m1.out = 1..n
  BY <1>4, ListedDomain DEF Outgoing
<1> HIDE DEF n
<1>7. DOMAIN ks = 1..n /\ \A k \in 1..n : ks[k] = k
  OBVIOUS
<1>8. c.K = K /\ c.n = n
  OBVIOUS
<1> HIDE DEF ks, c
<1>9. TurnsTo(c, 0, m1)
  BY <1>5, <1>6, <1>8 DEF TurnsTo
<1>10. ASSUME NEW k \in 0..(n - 1), NEW a, TurnsTo(c, k, a)
       PROVE  TurnsTo(c, k + 1, Turn(c, a, ks[k + 1]))
  <2>1. k + 1 \in 1..n /\ ks[k + 1] = k + 1
    BY <1>6, <1>7
  <2>2. Client(K, a) /\ k + 1 \in DOMAIN a.out
    BY <1>8, <1>10, <2>1 DEF TurnsTo
  <2>3. Client(K, NextTurn(a, k + 1)) /\ DOMAIN NextTurn(a, k + 1).out = DOMAIN a.out
    BY <2>2, TurnSound
  <2> QED
    BY <1>8, <1>10, <2>1, <2>3 DEF TurnsTo, Turn
<1>11. TurnsTo(c, n, Trn!Left(c, m1, ks))
  BY <1>6, <1>7, <1>9, <1>10, Trn!LeftInduction
<1>12. Trn!Left(c, m1, ks) = r
  BY DEF Trn!Left, Turn, FoldLeft, MapThenFoldSet, Max
<1> HIDE DEF r
<1>13. Client(K, r)
  BY <1>8, <1>11, <1>12 DEF TurnsTo
<1>14. _mosquitto_message_remove(m, mid) = r
  BY DEF _mosquitto_message_remove, r, ks, n, m1, i
<1> QED
  BY <1>13, <1>14
-----------------------------------------------------------------------------
(* _mosquitto_packet_handle                                                *)

(* Messages kept or changed one by one.                                    *)
LEMMA OutgoingEach ==
    ASSUME NEW out, Outgoing(out), NEW new, new = [i \in DOMAIN out |-> new[i]],
           \A i \in DOMAIN out : "topic" \in DOMAIN new[i] /\ new[i].topic = out[i].topic
    PROVE  Outgoing(new)
<1>1. Len(out) \in Nat /\ DOMAIN out = 1..Len(out)
  BY ListedDomain DEF Outgoing
<1>2. Listed(new) /\ DOMAIN new = DOMAIN out
  BY <1>1, FunctionListed
<1> QED
  BY <1>2 DEF Outgoing

(* The elements of a sequence, one by one.                                 *)
LEMMA ListedEach ==
    ASSUME NEW s, Listed(s), NEW new, new = [i \in DOMAIN s |-> new[i]]
    PROVE  Listed(new)
BY ListedDomain, FunctionListed

(* A position that is found is in the queue.                               *)
LEMMA FirstHit ==
    ASSUME NEW msgs, Listed(msgs), NEW mid, IndexOfMid(msgs, mid) # {}
    PROVE  Min(IndexOfMid(msgs, mid)) \in DOMAIN msgs
<1> DEFINE I == IndexOfMid(msgs, mid)
<1>1. Len(msgs) \in Nat /\ DOMAIN msgs = 1..Len(msgs) /\ IsFiniteSet(DOMAIN msgs)
  BY ListedDomain
<1>2. I \subseteq DOMAIN msgs /\ I # {} /\ I \subseteq Nat
  BY <1>1 DEF IndexOfMid
<1> HIDE DEF I
<1>3. IsFiniteSet(I)
  BY <1>1, <1>2, FS_Subset
<1>4. Min(I) \in DOMAIN msgs
  BY <1>2, <1>3, MinIn
<1> QED
  BY <1>4 DEF I

(* _mosquitto_handle_pubackcomp                                            *)
LEMMA PubackcompSound ==
    ASSUME NEW K, NEW m, Client(K, m), NEW mid
    PROVE  Client(K, _mosquitto_handle_pubackcomp(m, mid))
<1> DEFINE hits == IndexOfMid(m.out, mid)
           r == _mosquitto_message_remove(m, mid)
           e == m.out[Min(hits)].payload
           n == [r EXCEPT !.sent = @ \cup {e}]
<1>1. CASE hits = {}
  BY <1>1 DEF _mosquitto_handle_pubackcomp
<1>2. CASE hits # {}
  <2>1. Client(K, r)
    BY <1>2, RemoveSound
  <2>2. _mosquitto_handle_pubackcomp(m, mid) = n
    BY <1>2 DEF _mosquitto_handle_pubackcomp
  <2> HIDE DEF r, e
  <2>3. DOMAIN n = DOMAIN r /\ n.will = r.will /\ n.out = r.out /\ n.in = r.in /\ n.up = r.up
    BY <2>1 DEF Client, ClientFields
  <2> HIDE DEF n
  <2> QED
    BY <2>1, <2>2, <2>3, ClientSame DEF Client
<1> QED
  BY <1>1, <1>2

(* _mosquitto_handle_pubrec                                                *)
LEMMA PubrecSound ==
    ASSUME NEW K, NEW m, Client(K, m), NEW mid
    PROVE  Client(K, _mosquitto_handle_pubrec(m, mid))
<1> DEFINE hits == IndexOfMid(m.out, mid)
           i == Min(hits)
           new == [m.out EXCEPT ![i].state = "wait_for_pubcomp", ![i].due = FALSE]
           n == [m EXCEPT !.out[i].state = "wait_for_pubcomp", !.out[i].due = FALSE]
           m1 == IF hits = {} THEN m ELSE n
<1>1. _mosquitto_handle_pubrec(m, mid) = SendUp(m1, Ack("PUBREL", mid))
  BY DEF _mosquitto_handle_pubrec
<1>2. Packet(K, Ack("PUBREL", mid))
  BY DEF Packet, Ack
<1>3. ASSUME hits # {} PROVE Client(K, n)
  <2>1. i \in DOMAIN m.out
    BY <1>3, FirstHit DEF Client, Outgoing
  <2> HIDE DEF i
  <2>2. /\ DOMAIN n = DOMAIN m /\ n.will = m.will /\ n.in = m.in /\ n.up = m.up
        /\ n.out = new
    BY DEF Client, ClientFields
  <2> HIDE DEF n
  <2>3. \A j \in DOMAIN m.out : "topic" \in DOMAIN m.out[j]
    BY DEF Client, Outgoing
  <2>4. new = [j \in DOMAIN m.out |-> new[j]]
    OBVIOUS
  <2>5. new[i].topic = m.out[i].topic /\ "topic" \in DOMAIN new[i]
    BY <2>1, <2>3
  <2>6. \A j \in DOMAIN m.out : j # i => new[j] = m.out[j]
    OBVIOUS
  <2> HIDE DEF new
  <2>7. \A j \in DOMAIN m.out : "topic" \in DOMAIN new[j] /\ new[j].topic = m.out[j].topic
    BY <2>3, <2>5, <2>6
  <2>8. Outgoing(new)
    BY <2>4, <2>7, OutgoingEach DEF Client
  <2> QED
    BY <2>2, <2>8, ClientSame DEF Client
<1> HIDE DEF hits, n
<1>4. Client(K, m1)
  BY <1>3
<1> HIDE DEF m1
<1> QED
  BY <1>1, <1>2, <1>4, SendUpSound

(* _mosquitto_handle_pubrel                                                *)
LEMMA PubrelSound ==
    ASSUME NEW K, NEW m, Client(K, m), NEW mid
    PROVE  Client(K, _mosquitto_handle_pubrel(m, mid))
<1> DEFINE hits == IndexOfMid(m.in, mid)
           i == Min(hits)
           note == [topic |-> m.in[i].topic, payload |-> m.in[i].payload, qos |-> 2, retain |-> m.in[i].retain]
           n == [m EXCEPT !.in = RemoveAt(@, i), !.got = Append(@, note)]
           m1 == IF hits = {} THEN m ELSE n
<1>1. _mosquitto_handle_pubrel(m, mid) = SendUp(m1, Ack("PUBCOMP", mid))
  BY DEF _mosquitto_handle_pubrel
<1>2. Packet(K, Ack("PUBCOMP", mid))
  BY DEF Packet, Ack
<1>3. ASSUME hits # {} PROVE Client(K, n)
  <2>1. i \in DOMAIN m.in
    BY <1>3, FirstHit DEF Client
  <2> HIDE DEF i, note
  <2>2. /\ DOMAIN n = DOMAIN m /\ n.will = m.will /\ n.in = RemoveAt(m.in, i) /\ n.up = m.up
        /\ n.out = m.out
    BY DEF Client, ClientFields
  <2> HIDE DEF n
  <2>3. Listed(RemoveAt(m.in, i))
    BY <2>1, ListedDomain, RemoveListed DEF Client
  <2> QED
    BY <2>2, <2>3, ClientSame DEF Client
<1> HIDE DEF hits, n
<1>4. Client(K, m1)
  BY <1>3
<1> HIDE DEF m1
<1> QED
  BY <1>1, <1>2, <1>4, SendUpSound

(* _mosquitto_handle_connack                                               *)
LEMMA ConnackSound ==
    ASSUME NEW K, NEW m, Client(K, m)
    PROVE  Client(K, _mosquitto_handle_connack(m))
<1> DEFINE n == [m EXCEPT !.state = "connected"]
<1>1. /\ DOMAIN n = DOMAIN m /\ n.will = m.will /\ n.out = m.out /\ n.in = m.in /\ n.up = m.up
  BY DEF Client, ClientFields
<1> HIDE DEF n
<1>2. Client(K, n)
  BY <1>1, ClientSame DEF Client
<1> QED
  BY <1>2 DEF _mosquitto_handle_connack, n

(* A note or a kept message is all that a PUBLISH adds.                    *)
LEMMA NoteSound ==
    ASSUME NEW K, NEW m, Client(K, m), NEW note
    PROVE  Client(K, [m EXCEPT !.got = Append(@, note)]) /\ Client(K, [m EXCEPT !.in = Append(@, note)])
<1> DEFINE a == [m EXCEPT !.got = Append(@, note)]
           b == [m EXCEPT !.in = Append(@, note)]
<1>1. /\ DOMAIN a = DOMAIN m /\ a.will = m.will /\ a.out = m.out /\ a.in = m.in /\ a.up = m.up
  BY DEF Client, ClientFields
<1>2. /\ DOMAIN b = DOMAIN m /\ b.will = m.will /\ b.out = m.out /\ b.up = m.up
      /\ b.in = Append(m.in, note)
  BY DEF Client, ClientFields
<1> HIDE DEF a, b
<1>3. Client(K, a)
  BY <1>1, ClientSame DEF Client
<1>4. Listed(b.in)
  BY <1>2, AppendListed DEF Client
<1>5. Client(K, b)
  BY <1>2, <1>4, ClientSame DEF Client
<1> QED
  BY <1>3, <1>5 DEF a, b

(* _mosquitto_handle_publish                                               *)
LEMMA PublishHandled ==
    ASSUME NEW K, NEW m, Client(K, m), NEW p
    PROVE  Client(K, _mosquitto_handle_publish(m, p))
<1> DEFINE note == [topic |-> p.topic, payload |-> p.payload, qos |-> p.qos, retain |-> p.retain]
           kept == [mid |-> p.mid, topic |-> p.topic, payload |-> p.payload, retain |-> p.retain,
                    due |-> FALSE]
           a == SendUp(m, Ack("PUBACK", p.mid))
           b == SendUp(m, Ack("PUBREC", p.mid))
<1>1. Packet(K, Ack("PUBACK", p.mid)) /\ Packet(K, Ack("PUBREC", p.mid))
  BY DEF Packet, Ack
<1>2. Client(K, a) /\ Client(K, b)
  BY <1>1, SendUpSound
<1>3. _mosquitto_handle_publish(m, p) = CASE p.qos = 0 -> [m EXCEPT !.got = Append(@, note)]
         [] p.qos = 1 -> [a EXCEPT !.got = Append(@, note)]
         [] p.qos = 2 -> [b EXCEPT !.in = Append(@, kept)]
         [] OTHER -> _mosquitto_socket_close(m)
  BY DEF _mosquitto_handle_publish
<1> HIDE DEF a, b, note, kept
<1>4. /\ Client(K, [m EXCEPT !.got = Append(@, note)]) /\ Client(K, [a EXCEPT !.got = Append(@, note)])
      /\ Client(K, [b EXCEPT !.in = Append(@, kept)])
  BY <1>2, NoteSound
<1>5. Client(K, _mosquitto_socket_close(m))
  BY ClosedSound
<1>6. CASE p.qos = 0
  BY <1>3, <1>4, <1>6
<1>7. CASE p.qos = 1
  BY <1>3, <1>4, <1>7
<1>8. CASE p.qos = 2
  BY <1>3, <1>4, <1>8
<1>9. CASE ~(p.qos = 0) /\ ~(p.qos = 1) /\ ~(p.qos = 2)
  BY <1>3, <1>5, <1>9
<1> QED
  BY <1>6, <1>7, <1>8, <1>9

(* _mosquitto_packet_handle                                                *)
LEMMA PacketHandled ==
    ASSUME NEW K, NEW m, Client(K, m), NEW p
    PROVE  Client(K, _mosquitto_packet_handle(m, p))
<1> DEFINE r == _mosquitto_packet_handle(m, p)
<1>1. CASE p.cmd = "CONNACK"
  <2>1. r = _mosquitto_handle_connack(m)
    BY <1>1 DEF _mosquitto_packet_handle
  <2> QED
    BY <2>1, ConnackSound
<1>2. CASE p.cmd = "PUBLISH"
  <2>1. r = _mosquitto_handle_publish(m, p)
    BY <1>2 DEF _mosquitto_packet_handle
  <2> QED
    BY <2>1, PublishHandled
<1>3. CASE p.cmd \in {"PUBACK", "PUBCOMP"}
  <2>1. r = _mosquitto_handle_pubackcomp(m, p.mid)
    BY <1>3 DEF _mosquitto_packet_handle
  <2> QED
    BY <2>1, PubackcompSound
<1>4. CASE p.cmd = "PUBREC"
  <2>1. r = _mosquitto_handle_pubrec(m, p.mid)
    BY <1>4 DEF _mosquitto_packet_handle
  <2> QED
    BY <2>1, PubrecSound
<1>5. CASE p.cmd = "PUBREL"
  <2>1. r = _mosquitto_handle_pubrel(m, p.mid)
    BY <1>5 DEF _mosquitto_packet_handle
  <2> QED
    BY <2>1, PubrelSound
<1>6. CASE p.cmd \in {"SUBACK", "UNSUBACK"}
  BY <1>6 DEF _mosquitto_packet_handle
<1>7. CASE /\ ~(p.cmd = "CONNACK") /\ ~(p.cmd = "PUBLISH") /\ ~(p.cmd \in {"PUBACK", "PUBCOMP"})
           /\ ~(p.cmd = "PUBREC") /\ ~(p.cmd = "PUBREL") /\ ~(p.cmd \in {"SUBACK", "UNSUBACK"})
  <2>1. r = _mosquitto_socket_close(m)
    BY <1>7 DEF _mosquitto_packet_handle
  <2> QED
    BY <2>1, ClosedSound
<1> QED
  BY <1>1, <1>2, <1>3, <1>4, <1>5, <1>6, <1>7
-----------------------------------------------------------------------------
(* Connections, and messages that are repeated.                            *)

(* _mosquitto_reconnect                                                    *)
LEMMA ReconnectSound ==
    ASSUME NEW K, NEW m, Client(K, m), NEW conn
    PROVE  Client(K, _mosquitto_reconnect(m, conn))
<1> DEFINE Under(i) == max_inflight_messages = 0 \/ i <= max_inflight_messages
           Reset(msg, i) ==
            [msg EXCEPT !.due = TRUE,
                        !.state = CASE Under(i) /\ msg.qos = 1 -> "wait_for_puback"
                                    [] Under(i) /\ msg.qos = 2 -> msg.state
                                    [] OTHER -> "invalid"]
           in == Kept(m)
           out == [i \in DOMAIN m.out |-> Reset(m.out[i], i)]
           k == Cardinality({i \in DOMAIN m.out : Under(i)})
           a == [m EXCEPT !.in = in, !.out = out, !.inflight_messages = k]
           n == [a EXCEPT !.conn = conn, !.state = "connecting"]
<1>1. Outgoing(out)
  <2>1. \A i \in DOMAIN m.out : "topic" \in DOMAIN m.out[i]
    BY DEF Client, Outgoing
  <2>2. out = [i \in DOMAIN m.out |-> out[i]]
    <3> HIDE DEF Reset
    <3> QED
      OBVIOUS
  <2>3. ASSUME NEW i \in DOMAIN m.out
        PROVE  "topic" \in DOMAIN out[i] /\ out[i].topic = m.out[i].topic
    <3>1. PICK st : out[i] = [m.out[i] EXCEPT !.due = TRUE, !.state = st]
      OBVIOUS
    <3> HIDE DEF out
    <3> QED
      BY <2>1, <3>1
  <2> HIDE DEF out
  <2> QED
    BY <2>2, <2>3, OutgoingEach DEF Client
<1>2. Listed(in)
  <2>1. in = [i \in DOMAIN m.in |-> in[i]]
    BY DEF Kept
  <2> HIDE DEF in
  <2> QED
    BY <2>1, ListedEach DEF Client
<1>3. _mosquitto_reconnect(m, conn) = n
  BY DEF _mosquitto_reconnect, _mosquitto_messages_reconnect_reset
<1> HIDE DEF in, out, k
<1>4. DOMAIN n = DOMAIN m /\ n.will = m.will /\ n.out = out /\ n.in = in /\ n.up = m.up
  BY DEF Client, ClientFields
<1> HIDE DEF n
<1> QED
  BY <1>1, <1>2, <1>3, <1>4, ClientSame DEF Client

(* _mosquitto_send_connect                                                 *)
LEMMA ConnectCall ==
    ASSUME NEW K, NEW m, Client(K, m), NEW id \in K.ids
    PROVE  Client(K, _mosquitto_send_connect(m, id))
<1> DEFINE p == [cmd |-> "CONNECT", id |-> id, clean |-> m.clean_session, will |-> m.will,
                 username |-> m.username, password |-> m.password]
           a == SendUp(m, p)
           n == [a EXCEPT !.state = "new"]
<1>1. Packet(K, p)
  BY DEF Packet, Client
<1>2. _mosquitto_send_connect(m, id) = n
  BY DEF _mosquitto_send_connect
<1> HIDE DEF p
<1>3. Client(K, a)
  BY <1>1, SendUpSound
<1> HIDE DEF a
<1>4. DOMAIN n = DOMAIN a /\ n.will = a.will /\ n.out = a.out /\ n.in = a.in /\ n.up = a.up
  BY <1>3 DEF Client, ClientFields
<1> HIDE DEF n
<1> QED
  BY <1>2, <1>3, <1>4, ClientSame DEF Client

(* The packets of _mosquitto_message_retry_check.                          *)
SayOut(c, m, msg) == RepeatOut(m, msg)
SayIn(c, m, msg) == RepeatIn(m, msg)
(* What is known after some of them.                                       *)
Said(c, k, m) == Client(c.K, m) /\ m.out = c.m.out /\ m.in = c.m.in
(* The inductions over the messages.                                       *)
Sao == INSTANCE FoldInduction WITH Op <- SayOut, Inv <- Said
Sai == INSTANCE FoldInduction WITH Op <- SayIn, Inv <- Said

(* A message is repeated.                                                  *)
LEMMA RepeatSound ==
    ASSUME NEW K, NEW m, Client(K, m), NEW msg
    PROVE  /\ ("topic" \in DOMAIN msg /\ Topic(msg.topic)) =>
                /\ Client(K, RepeatOut(m, msg))
                /\ RepeatOut(m, msg).out = m.out /\ RepeatOut(m, msg).in = m.in
           /\ Client(K, RepeatIn(m, msg))
           /\ RepeatIn(m, msg).out = m.out /\ RepeatIn(m, msg).in = m.in
<1>1. Packet(K, Ack("PUBREC", msg.mid)) /\ Packet(K, Ack("PUBREL", msg.mid))
  BY DEF Packet, Ack
<1>2. /\ Client(K, RepeatIn(m, msg)) /\ RepeatIn(m, msg).out = m.out /\ RepeatIn(m, msg).in = m.in
  BY <1>1, SendUpSound DEF RepeatIn
<1>3. ASSUME "topic" \in DOMAIN msg, Topic(msg.topic)
      PROVE  /\ Client(K, RepeatOut(m, msg))
             /\ RepeatOut(m, msg).out = m.out /\ RepeatOut(m, msg).in = m.in
  <2> DEFINE x == [msg EXCEPT !.dup = TRUE]
  <2>1. x.topic = msg.topic
    BY <1>3
  <2>2. RepeatOut(m, msg) \in {m, SendUp(m, Publish(x)), SendUp(m, Ack("PUBREL", msg.mid))}
    <3>1. CASE ~msg.due
      BY <3>1 DEF RepeatOut
    <3>2. CASE msg.due /\ msg.state \in {"wait_for_puback", "wait_for_pubrec"}
      BY <3>2 DEF RepeatOut
    <3>3. CASE msg.due /\ msg.state = "wait_for_pubcomp"
      BY <3>3 DEF RepeatOut
    <3>4. CASE msg.due /\ ~(msg.state \in {"wait_for_puback", "wait_for_pubrec"}) /\ ~(msg.state = "wait_for_pubcomp")
      BY <3>4 DEF RepeatOut
    <3> QED
      BY <3>1, <3>2, <3>3, <3>4
  <2> HIDE DEF x
  <2>3. Packet(K, Publish(x))
    BY <1>3, <2>1 DEF Packet, Publish
  <2>4. CASE RepeatOut(m, msg) = m
    BY <2>4
  <2>5. CASE RepeatOut(m, msg) = SendUp(m, Publish(x))
    BY <2>3, <2>5, SendUpSound
  <2>6. CASE RepeatOut(m, msg) = SendUp(m, Ack("PUBREL", msg.mid))
    BY <1>1, <2>6, SendUpSound
  <2> QED
    BY <2>2, <2>4, <2>5, <2>6
<1> QED
  BY <1>2, <1>3

(* ... and all that are late, of those sent                                *)
LEMMA SaidOut ==
    ASSUME NEW K, NEW m, Client(K, m)
    PROVE  LET a == FoldLeft(RepeatOut, m, m.out)
           IN Client(K, a) /\ a.out = m.out /\ a.in = m.in
<1> DEFINE n == Len(m.out)
           c == [K |-> K, m |-> m]
<1>1. n \in Nat /\ DOMAIN m.out = 1..n
  BY ListedDomain DEF Client, Outgoing
<1> HIDE DEF n
<1>2. c.K = K /\ c.m = m
  OBVIOUS
<1> HIDE DEF c
<1>3. Said(c, 0, m)
  BY <1>2 DEF Said
<1>4. ASSUME NEW k \in 0..(n - 1), NEW a, Said(c, k, a)
      PROVE  Said(c, k + 1, SayOut(c, a, m.out[k + 1]))
  <2>1. k + 1 \in DOMAIN m.out
    BY <1>1
  <2>2. "topic" \in DOMAIN m.out[k + 1] /\ Topic(m.out[k + 1].topic)
    BY <2>1 DEF Client, Outgoing
  <2> DEFINE x == m.out[k + 1]
             b == RepeatOut(a, x)
  <2>5. "topic" \in DOMAIN x /\ Topic(x.topic)
    BY <2>2
  <2> HIDE DEF x
  <2>3. Client(K, a) /\ a.out = m.out /\ a.in = m.in
    BY <1>2, <1>4 DEF Said
  <2>4. Client(K, b) /\ b.out = a.out /\ b.in = a.in
    BY <2>3, <2>5, RepeatSound
  <2> HIDE DEF b
  <2>6. Said(c, k + 1, b)
    BY <1>2, <2>3, <2>4 DEF Said
  <2> QED
    BY <2>6 DEF b, x, SayOut
<1>5. Said(c, n, Sao!Left(c, m, m.out))
  BY <1>1, <1>3, <1>4, Sao!LeftInduction
<1>6. Sao!Left(c, m, m.out) = FoldLeft(RepeatOut, m, m.out)
  BY DEF Sao!Left, SayOut, FoldLeft, MapThenFoldSet, Max
<1> QED
  BY <1>2, <1>5, <1>6 DEF Said

(* ... and of those received.                                              *)
LEMMA SaidIn ==
    ASSUME NEW K, NEW m, Client(K, m), NEW msgs, Listed(msgs)
    PROVE  LET a == FoldLeft(RepeatIn, m, msgs)
           IN Client(K, a) /\ a.out = m.out /\ a.in = m.in
<1> DEFINE n == Len(msgs)
           c == [K |-> K, m |-> m]
<1>1. n \in Nat /\ DOMAIN msgs = 1..n
  BY ListedDomain
<1> HIDE DEF n
<1>2. c.K = K /\ c.m = m
  OBVIOUS
<1> HIDE DEF c
<1>3. Said(c, 0, m)
  BY <1>2 DEF Said
<1>4. ASSUME NEW k \in 0..(n - 1), NEW a, Said(c, k, a)
      PROVE  Said(c, k + 1, SayIn(c, a, msgs[k + 1]))
  <2> DEFINE x == msgs[k + 1]
             b == RepeatIn(a, x)
  <2> HIDE DEF x
  <2>1. Client(K, a) /\ a.out = m.out /\ a.in = m.in
    BY <1>2, <1>4 DEF Said
  <2>2. Client(K, b) /\ b.out = a.out /\ b.in = a.in
    BY <2>1, RepeatSound
  <2> HIDE DEF b
  <2>3. Said(c, k + 1, b)
    BY <1>2, <2>1, <2>2 DEF Said
  <2> QED
    BY <2>3 DEF b, x, SayIn
<1>5. Said(c, n, Sai!Left(c, m, msgs))
  BY <1>1, <1>3, <1>4, Sai!LeftInduction
<1>6. Sai!Left(c, m, msgs) = FoldLeft(RepeatIn, m, msgs)
  BY DEF Sai!Left, SayIn, FoldLeft, MapThenFoldSet, Max
<1> QED
  BY <1>2, <1>5, <1>6 DEF Said

(* _mosquitto_message_retry_check                                          *)
LEMMA RetrySound ==
    ASSUME NEW K, NEW m, Client(K, m)
    PROVE  Client(K, _mosquitto_message_retry_check(m))
<1> DEFINE Repeated(msg) == IF msg.due /\ msg.state # "invalid"
                            THEN [msg EXCEPT !.due = FALSE, !.dup = TRUE] ELSE msg
           a == FoldLeft(RepeatIn, FoldLeft(RepeatOut, m, m.out), m.in)
           out == [i \in DOMAIN m.out |-> Repeated(m.out[i])]
           in == [i \in DOMAIN m.in |-> [m.in[i] EXCEPT !.due = FALSE]]
           n == [a EXCEPT !.out = out, !.in = in]
<1>1. _mosquitto_message_retry_check(m) = n
  BY DEF _mosquitto_message_retry_check
<1>2. Client(K, a)
  <2> DEFINE b == FoldLeft(RepeatOut, m, m.out)
  <2>1. Client(K, b)
    BY SaidOut
  <2> HIDE DEF b
  <2>2. Client(K, FoldLeft(RepeatIn, b, m.in))
    BY <2>1, SaidIn DEF Client
  <2> QED
    BY <2>2 DEF b
<1>3. Outgoing(out)
  <2>1. \A i \in DOMAIN m.out : "topic" \in DOMAIN m.out[i]
    BY DEF Client, Outgoing
  <2>2. out = [i \in DOMAIN m.out |-> out[i]]
    OBVIOUS
  <2>3. ASSUME NEW i \in DOMAIN m.out
        PROVE  "topic" \in DOMAIN out[i] /\ out[i].topic = m.out[i].topic
    <3>1. out[i] = m.out[i] \/ out[i] = [m.out[i] EXCEPT !.due = FALSE, !.dup = TRUE]
      OBVIOUS
    <3> HIDE DEF out
    <3> QED
      BY <2>1, <3>1
  <2> HIDE DEF out
  <2> QED
    BY <2>2, <2>3, OutgoingEach DEF Client
<1>4. Listed(in)
  <2>1. in = [i \in DOMAIN m.in |-> in[i]]
    OBVIOUS
  <2> HIDE DEF in
  <2> QED
    BY <2>1, ListedEach DEF Client
<1> HIDE DEF a, out, in
<1>5. DOMAIN n = DOMAIN a /\ n.will = a.will /\ n.out = out /\ n.in = in /\ n.up = a.up
  BY <1>2 DEF Client, ClientFields
<1> HIDE DEF n
<1> QED
  BY <1>1, <1>2, <1>3, <1>4, <1>5, ClientSame DEF Client

(* Messages whose retry time has come.                                     *)
LEMMA LateSound ==
    ASSUME NEW msgs, Listed(msgs), NEW I
    PROVE  Listed(Late(msgs, I)) /\ (Outgoing(msgs) => Outgoing(Late(msgs, I)))
<1> DEFINE new == Late(msgs, I)
<1>1. new = [i \in DOMAIN msgs |-> new[i]]
  BY DEF Late
<1>2. ASSUME NEW i \in DOMAIN msgs
      PROVE  new[i] = msgs[i] \/ new[i] = [msgs[i] EXCEPT !.due = TRUE]
  BY DEF Late
<1> HIDE DEF new
<1>3. Listed(new)
  BY <1>1, ListedEach
<1>4. ASSUME Outgoing(msgs) PROVE Outgoing(new)
  <2>1. \A i \in DOMAIN msgs : "topic" \in DOMAIN msgs[i]
    BY <1>4 DEF Outgoing
  <2>2. ASSUME NEW i \in DOMAIN msgs PROVE "topic" \in DOMAIN new[i] /\ new[i].topic = msgs[i].topic
    BY <1>2, <2>1
  <2> QED
    BY <1>1, <1>4, <2>2, OutgoingEach
<1> QED
  BY <1>3, <1>4 DEF new

(* Other messages become late.                                             *)
LEMMA DueSound ==
    ASSUME NEW K, NEW m, Client(K, m), NEW out, Outgoing(out), NEW in, Listed(in)
    PROVE  Client(K, [m EXCEPT !.out = out, !.in = in])
<1> DEFINE n == [m EXCEPT !.out = out, !.in = in]
<1>1. DOMAIN n = DOMAIN m /\ n.will = m.will /\ n.out = out /\ n.in = in /\ n.up = m.up
  BY DEF Client, ClientFields
<1> HIDE DEF n
<1>2. Client(K, n)
  BY <1>1, ClientSame DEF Client
<1> QED
  BY <1>2 DEF n

(* What has been sent is on the connection.                                *)
LEMMA SentSound ==
    ASSUME NEW K, NEW m, Client(K, m)
    PROVE  Client(K, [m EXCEPT !.up = <<>>])
<1> DEFINE n == [m EXCEPT !.up = <<>>]
<1>1. DOMAIN n = DOMAIN m /\ n.will = m.will /\ n.out = m.out /\ n.in = m.in /\ n.up = <<>>
  BY DEF Client, ClientFields
<1> HIDE DEF n
<1>2. Packets(K, <<>>)
  BY EmptyListed DEF Packets
<1>3. Client(K, n)
  BY <1>1, <1>2, ClientSame DEF Client
<1> QED
  BY <1>3 DEF n
-----------------------------------------------------------------------------
(* How everything begins: the database ...                                 *)

(* The connections, client ids, messages without a reference and files of  *)
(* the system.  With both limits a QoS 2 message may be dropped after it   *)
(* has been stored.                                                        *)
Leaks == IF max_queued = 0 \/ max_inflight = 0 THEN {} ELSE Nat
(* No acl file is used.                                                    *)
Plain == \A i \in DOMAIN SecurityFiles : SecurityFiles[i].acl_file = <<>>
(* What the invariant of the broker depends on, ...                        *)
World == [conns |-> Conns, ids |-> Clients, leaks |-> Leaks, plain |-> Plain, vetted |-> TRUE]
(* ... and what it may be for the system.                                  *)
Fit(K) ==
    /\ K.conns = Conns /\ K.ids = Clients /\ Leaky(K.leaks) /\ NoId \notin K.ids
    /\ K.plain => Plain

(* Its parts.                                                              *)
LEMMA WorldIs ==
    /\ World.conns = Conns /\ World.ids = Clients /\ World.leaks = Leaks /\ World.plain = Plain
    /\ Leaky(World.leaks) /\ NoId \notin World.ids /\ Fit(World)
BY SystemAssumption DEF World, Leaky, Leaks, Fit

(* There are security files to begin with.                                 *)
LEMMA FirstFiles ==
    /\ 1 \in DOMAIN SecurityFiles
    /\ DOMAIN SecurityFiles = 1..Len(SecurityFiles) /\ Len(SecurityFiles) \in Nat
BY SystemAssumption

(* Their lines can be read one by one.                                     *)
LEMMA FilesLined ==
    ASSUME NEW i \in DOMAIN SecurityFiles
    PROVE  /\ Lined(SecurityFiles[i])
           /\ SecFields \subseteq DOMAIN mosquitto_security_init(Closed, SecurityFiles[i])
<1> DEFINE q == SecurityFiles[i].acl_file
           S == {l \in Range(q) : l.word \in {"user", "topic", "pattern", "error"}}
<1>1. q \in Seq(S)
  BY FilesAssumption
<1>2. \A l \in S : l.word \in {"user", "topic", "pattern", "error"}
  OBVIOUS
<1> HIDE DEF q, S
<1>3. Len(q) \in Nat /\ DOMAIN q = 1..Len(q) /\ \A k \in 1..Len(q) : q[k] \in S
  BY <1>1
<1>4. Lined(SecurityFiles[i])
  BY <1>2, <1>3 DEF Lined, q
<1>5. SecFields \subseteq DOMAIN Closed
  BY DEF SecFields, Closed
<1> QED
  BY <1>4, <1>5, RightsRead

(* Nothing refers to a message at first.                                   *)
LEMMA EmptySizes ==
    ASSUME NEW Q, DOMAIN Q = {}, NEW R, DOMAIN R = {}, NEW s
    PROVE  Held(Q, s) = 0 /\ Pinned(R, s) = 0
<1>1. Places(Q, DOMAIN Q, s) = {} /\ {p \in DOMAIN R : R[p] = s} = {}
  BY DEF Places
<1> QED
  BY <1>1, FS_EmptySet DEF Held, Pinned

(* mqtt3_db_open                                                           *)
LEMMA OpenManagedDb ==
    ASSUME NEW K, NEW files, K.plain => files.acl_file = <<>>
    PROVE  LET d == mqtt3_db_open(files)
           IN Managed(K, d) /\ DOMAIN d.ctx = {} /\ d.sec = mosquitto_security_init(Closed, files)
<1> DEFINE sec == mosquitto_security_init(Closed, files)
           d == [store |-> <<>>, last_db_id |-> 0, roots |-> <<"", "$SYS">>, tree |-> <<>>,
                 subs |-> <<>>, retained |-> <<>>, ctx |-> <<>>, disused |-> {}, sec |-> sec]
<1>1. mqtt3_db_open(files) = d
  BY DEF mqtt3_db_open
<1>2. K.plain => NoLists(sec)
  <2>1. NoLists(Closed)
    BY DEF NoLists, Closed
  <2> QED
    BY <2>1, NoAclFile
<1>13. sec = mosquitto_security_init(Closed, files)
  OBVIOUS
<1> HIDE DEF sec
<1>3. DOMAIN Queues(d) = {} /\ DOMAIN Lists(d) = {} /\ DOMAIN d.retained = {} /\ DOMAIN d.ctx = {} /\ DOMAIN d.subs = {}
  BY DEF Queues, Lists
<1>4. Shaped(d)
  <2>1. ASSUME NEW a, NEW b PROVE Listed(<<a, b>>)
    <3>1. <<a, b>> \in Seq({a, b})
      OBVIOUS
    <3> QED
      BY <3>1, SeqListed
  <2>2. Listed(<<"", "$SYS">>)
    BY <2>1
  <2> QED
    BY <1>3, <2>2 DEF Shaped, Fields
<1>5. \A s \in Nat : Refs(d, Nobody)[s] = 0
  <2> DEFINE Q == Queues(d)
             R == d.retained
             T == Refs(d, Nobody)
  <2>1. DOMAIN Q = {} /\ DOMAIN R = {}
    BY <1>3
  <2> HIDE DEF d
  <2>2. T = [s \in Nat |-> Held(Q, s) + Pinned(R, s) + Nobody[s]]
    BY DEF Refs
  <2> HIDE DEF Q, R, T
  <2>3. ASSUME NEW s \in Nat PROVE T[s] = 0
    <3>1. T[s] = Held(Q, s) + Pinned(R, s) + Nobody[s]
      BY <2>2
    <3>2. Held(Q, s) = 0 /\ Pinned(R, s) = 0
      BY <2>1, EmptySizes
    <3>3. Nobody[s] = 0
      BY DEF Nobody
    <3> QED
      BY <3>1, <3>2, <3>3
  <2> QED
    BY <2>3 DEF T
<1>6. Stocked(d.store, d.last_db_id, Refs(d, Nobody), K.leaks)
  <2> DEFINE T == Refs(d, Nobody)
  <2>1. \A s \in Nat : T[s] = 0
    BY <1>5
  <2> HIDE DEF T
  <2>2. Stocked(<<>>, 0, T, K.leaks)
    BY <2>1 DEF Stocked, Ref
  <2>3. d.store = <<>> /\ d.last_db_id = 0
    OBVIOUS
  <2> HIDE DEF d
  <2> QED
    BY <2>2, <2>3 DEF T
<1>7. Wooded(d.tree, d.subs, d.retained)
  BY EmptyListed DEF Wooded
<1>8. Leafy(d.subs, Lists(d)) /\ Queued(Queues(d))
  <2>1. IsFiniteSet({})
    BY FS_EmptySet
  <2> QED
    BY <1>3, <2>1 DEF Leafy, Queued
<1>9. Nobody \in [Nat -> Nat]
  BY DEF Nobody
<1>10. Sound(d, Nobody, K.leaks)
  BY <1>4, <1>6, <1>7, <1>8, <1>9 DEF Sound
<1>11. d.disused = {} /\ d.sec = sec
  OBVIOUS
<1> HIDE DEF d
<1>12. Managed(K, d)
  BY <1>2, <1>3, <1>10, <1>11 DEF Managed, OneEach, Vetted
<1> QED
  BY <1>1, <1>3, <1>11, <1>12, <1>13

(* ... at the beginning.                                                   *)
LEMMA OpenedDb ==
    LET d == mqtt3_db_open(SecurityFiles[1])
    IN Managed(World, d) /\ DOMAIN d.ctx = {}
<1>1. World.plain => SecurityFiles[1].acl_file = <<>>
  BY FirstFiles, WorldIs DEF Plain
<1> QED
  BY <1>1, WorldIs, OpenManagedDb

(* A finite set in some order.                                             *)
LEMMA OrderOf ==
    ASSUME NEW S, IsFiniteSet(S)
    PROVE  /\ Cardinality(S) \in Nat /\ SetToSeq(S) \in [1..Cardinality(S) -> S]
           /\ Listed(SetToSeq(S)) /\ Len(SetToSeq(S)) = Cardinality(S)
<1> DEFINE n == Cardinality(S)
           f == SetToSeq(S)
<1>1. PICK m \in Nat : ExistsBijection(1..m, S)
  BY FS_NatBijection
<1>2. PICK g : g \in Bijection(1..m, S)
  BY <1>1 DEF ExistsBijection
<1>3. g \in [1..m -> S] /\ (\A a, b \in 1..m : g[a] = g[b] => a = b) /\ \A t \in S : \E a \in 1..m : g[a] = t
  BY <1>2 DEF Bijection, Injection, Surjection, IsInjective
<1>4. IsFiniteSet(1..m) /\ Cardinality(1..m) = m
  BY FS_Interval
<1>5. n = m
  BY <1>3, <1>4, SameSize
<1>6. n \in Nat
  BY <1>5
<1>7. \E h \in [1..n -> S] : IsInjective(h)
  BY <1>3, <1>5 DEF IsInjective
<1>8. f \in [1..n -> S]
  BY <1>7 DEF SetToSeq
<1> HIDE DEF n, f
<1>9. f \in Seq(S) /\ Len(f) = n
  BY <1>6, <1>8
<1>10. Listed(f)
  BY <1>9, SeqListed
<1> QED
  BY <1>6, <1>8, <1>9, <1>10 DEF n, f
-----------------------------------------------------------------------------
(* ... one client ...                                                      *)

(* The packets a client starts with: k of them are handled.                *)
Hear(c, e, p) == _mosquitto_packet_read(e, c.x, p)
(* What is known after some packets.                                       *)
Heard(c, k, e) ==
    /\ Managed(World, e) /\ DOMAIN e.ctx = DOMAIN c.d.ctx /\ e.sec = c.d.sec
    /\ k = 0 => e = c.d
    /\ k # 0 => e.ctx[c.x].state = "connected"
(* The induction over the packets.                                         *)
Hrd == INSTANCE FoldInduction WITH Op <- Hear, Inv <- Heard

(* What a client says first, and the subscriptions it asks for.            *)
Hello(id) ==
    [cmd |-> "CONNECT", id |-> id, clean |-> id \notin Persistent, will |-> Wills[id],
     username |-> Users[id].username, password |-> Users[id].password]
Asked(id) == {[cmd |-> "SUBSCRIBE", mid |-> 1, sub |-> f.sub, qos |-> f.qos] : f \in First[id]}

(* Who is admitted depends on the security files.                          *)
LEMMA AdmittedSame ==
    ASSUME NEW a, NEW b, a.sec = b.sec, NEW p, NEW q, p.username = q.username, p.password = q.password,
           Admitted(a, p)
    PROVE  Admitted(b, q)
BY DEF Admitted

(* It is a packet the broker knows.                                        *)
LEMMA HelloPacket ==
    ASSUME NEW id \in Clients
    PROVE  Packet(World, Hello(id)) /\ Hello(id).cmd = "CONNECT" /\ Hello(id).id = id
           /\ Hello(id).username = Users[id].username /\ Hello(id).password = Users[id].password
           /\ Willing(Hello(id).will)
<1>1. Willing(Wills[id])
  <2>1. Wills[id] \in {NoWill} \cup [topic : Topics, payload : Nat, qos : 0..2, retain : BOOLEAN]
    BY SystemAssumption
  <2>2. Wills[id] = NoWill \/ Wills[id].topic \in Topics
    BY <2>1
  <2> QED
    BY <2>2, TopicsAreTopics DEF Willing
<1> QED
  BY <1>1, WorldIs DEF Packet, Hello

(* The CONNECT of a client that is admitted.                               *)
LEMMA HelloHeard ==
    ASSUME NEW d, Managed(World, d), NEW x \in DOMAIN d.ctx, d.ctx[x].state = "new", d.ctx[x].sock,
           NEW id \in Clients, Admitted(d, Users[id])
    PROVE  LET e == _mosquitto_packet_read(d, x, Hello(id))
           IN /\ Managed(World, e) /\ DOMAIN e.ctx = DOMAIN d.ctx /\ e.sec = d.sec
              /\ e.ctx[x].state = "connected"
<1> DEFINE p == Hello(id)
           r == mqtt3_handle_connect(d, x, p)
<1>1. p.cmd = "CONNECT" /\ p.id \in World.ids /\ Willing(p.will) /\ Admitted(d, p)
  BY HelloPacket, WorldIs, AdmittedSame
<1> HIDE DEF p
<1>2. /\ Managed(World, r.db) /\ r.db.sec = d.sec /\ DOMAIN r.db.ctx = DOMAIN d.ctx
      /\ r.go <=> (d.ctx[x].state = "new" /\ Admitted(d, p))
      /\ r.go => r.db.ctx[x].state = "connected"
  BY <1>1, WorldIs, ConnectSound
<1>3. mqtt3_packet_handle(d, x, p) = r
  BY <1>1 DEF mqtt3_packet_handle
<1> HIDE DEF r
<1>4. _mosquitto_packet_read(d, x, p) = r.db
  BY <1>1, <1>2, <1>3 DEF _mosquitto_packet_read, Concluded
<1> QED
  BY <1>1, <1>2, <1>4 DEF p

(* A SUBSCRIBE that is accepted.                                           *)
LEMMA AskedHeard ==
    ASSUME NEW d, Managed(World, d), NEW x \in DOMAIN d.ctx, d.ctx[x].state = "connected",
           NEW p, p.cmd = "SUBSCRIBE", Topic(p.sub), mosquitto_sub_topic_check(p.sub)
    PROVE  LET e == _mosquitto_packet_read(d, x, p)
           IN /\ Managed(World, e) /\ DOMAIN e.ctx = DOMAIN d.ctx /\ e.sec = d.sec
              /\ e.ctx[x].state = "connected"
<1> DEFINE r == mqtt3_handle_subscribe(d, x, p)
<1>1. Sound(d, Nobody, World.leaks) /\ d.ctx[x].id # NoId
  BY ManagedIs DEF Role
<1>2. Moves(d, r.db, Nobody, World.leaks)
  BY <1>1, SubscribeSound
<1>3. r.go = TRUE
  BY DEF mqtt3_handle_subscribe, Ok
<1>4. mqtt3_packet_handle(d, x, p) = r
  BY DEF mqtt3_packet_handle
<1> HIDE DEF r
<1>5. _mosquitto_packet_read(d, x, p) = r.db
  BY <1>3, <1>4 DEF _mosquitto_packet_read, Concluded
<1>6. Managed(World, r.db)
  BY <1>2, ManagedMoves
<1>7. /\ r.db.sec = d.sec /\ DOMAIN r.db.ctx = DOMAIN d.ctx /\ SameClient(d.ctx[x], r.db.ctx[x])
  BY <1>2 DEF Moves, Keeps
<1> QED
  BY <1>5, <1>6, <1>7 DEF SameClient

(* So are the subscriptions.                                               *)
LEMMA AskedPacket ==
    ASSUME NEW id \in Clients, NEW p \in Asked(id)
    PROVE  p.cmd = "SUBSCRIBE" /\ Topic(p.sub) /\ mosquitto_sub_topic_check(p.sub)
<1>1. PICK f \in First[id] : p = [cmd |-> "SUBSCRIBE", mid |-> 1, sub |-> f.sub, qos |-> f.qos]
  BY DEF Asked
<1>2. f.sub \in Topics /\ mosquitto_sub_topic_check(f.sub)
  BY StartAssumption
<1>3. p.cmd = "SUBSCRIBE" /\ p.sub = f.sub
  BY <1>1
<1> QED
  BY <1>2, <1>3, TopicsAreTopics

(* They are finitely many.                                                 *)
LEMMA AskedFinite ==
    ASSUME NEW id \in Clients
    PROVE  IsFiniteSet(Asked(id))
<1> DEFINE G == [f \in First[id] |-> [cmd |-> "SUBSCRIBE", mid |-> 1, sub |-> f.sub, qos |-> f.qos]]
           A == Asked(id)
<1>1. IsFiniteSet(First[id])
  BY StartAssumption
<1>2. G \in Surjection(First[id], A)
  BY DEF Surjection, Asked
<1> HIDE DEF G, A
<1>3. IsFiniteSet(A)
  BY <1>1, <1>2, FS_Surjection
<1> QED
  BY <1>3 DEF A

(* A client that has connected and made its first subscriptions.           *)
LEMMA ServedSound ==
    ASSUME NEW d, Managed(World, d), NEW x \in Conns, x \notin DOMAIN d.ctx,
           NEW id \in Clients, Admitted(d, Users[id])
    PROVE  LET e == Served(d, x, id)
           IN Managed(World, e) /\ DOMAIN e.ctx = DOMAIN d.ctx \cup {x} /\ e.sec = d.sec
<1> DEFINE d0 == mqtt3_context_init(d, x, TRUE)
           asks == SetToSeq(Asked(id))
           ps == <<Hello(id)>> \o asks
           c == [d |-> d0, x |-> x]
           n == Len(ps)
           a == FoldLeft(LAMBDA e, p : _mosquitto_packet_read(e, x, p), d0, ps)
           b == [a EXCEPT !.ctx[x].out = <<>>]
<1>1. Served(d, x, id) = b
  BY DEF Served, Hello, Asked
<1>2. /\ Managed(World, d0) /\ DOMAIN d0.ctx = DOMAIN d.ctx \cup {x}
      /\ d0.ctx[x] = Blank(TRUE) /\ d0.sec = d.sec
  <2>1. x \in World.conns
    BY WorldIs
  <2>2. LET e == mqtt3_context_init(d, x, TRUE)
        IN Managed(World, e) /\ DOMAIN e.ctx = DOMAIN d.ctx \cup {x}
           /\ e.ctx[x] = Blank(TRUE) /\ e.sec = d.sec
    BY <2>1, OpenManaged
  <2> QED
    BY <2>2
<1>3. d0.ctx[x].state = "new" /\ d0.ctx[x].sock /\ x \in DOMAIN d0.ctx
  <2>1. PICK sock : sock = TRUE
    OBVIOUS
  <2>2. Blank(sock).state = "new" /\ Blank(sock).sock = sock
    BY DEF Blank
  <2>3. Blank(sock) = Blank(TRUE)
    BY <2>1
  <2> HIDE DEF d0
  <2> QED
    BY <1>2, <2>1, <2>2, <2>3
<1> HIDE DEF d0
<1>4. Admitted(d0, Users[id])
  BY <1>2, AdmittedSame
<1> HIDE DEF asks, ps, c, n, a, b
<1>14. LET f == _mosquitto_packet_read(d0, x, Hello(id))
       IN /\ Managed(World, f) /\ DOMAIN f.ctx = DOMAIN d0.ctx /\ f.sec = d0.sec
          /\ f.ctx[x].state = "connected"
  <2>1. Managed(World, d0) /\ x \in DOMAIN d0.ctx /\ d0.ctx[x].state = "new" /\ d0.ctx[x].sock
    BY <1>2, <1>3
  <2> QED
    BY <1>4, <2>1, HelloHeard
<1> USE DEF asks, ps, c, n, a, b
<1>5. /\ Listed(asks) /\ Len(asks) = Cardinality(Asked(id)) /\ Cardinality(Asked(id)) \in Nat
      /\ asks \in [1..Cardinality(Asked(id)) -> Asked(id)]
  BY AskedFinite, OrderOf
<1> HIDE DEF asks
<1>6. /\ n \in Nat \ {0} /\ DOMAIN ps = 1..n /\ ps[1] = Hello(id)
      /\ \A k \in 2..n : ps[k] \in Asked(id)
  <2> DEFINE h == <<Hello(id)>>
  <2>1. Listed(h) /\ Len(h) = 1 /\ h[1] = Hello(id)
    <3>1. h \in Seq({Hello(id)})
      OBVIOUS
    <3> QED
      BY <3>1, SeqListed
  <2> HIDE DEF h
  <2>2. /\ Listed(h \o asks) /\ Len(h \o asks) = 1 + Len(asks) /\ (h \o asks)[1] = h[1]
        /\ \A i \in 1..Len(asks) : (h \o asks)[1 + i] = asks[i]
    <3>1. /\ Listed(h \o asks) /\ Len(h \o asks) = Len(h) + Len(asks)
          /\ \A i \in 1..Len(h) : (h \o asks)[i] = h[i]
          /\ \A i \in 1..Len(asks) : (h \o asks)[Len(h) + i] = asks[i]
      <4>1. Listed(h) /\ Listed(asks)
        BY <1>5, <2>1
      <4> QED
        BY <4>1, ConcatListed
    <3>2. 1 \in 1..Len(h)
      BY <2>1
    <3> QED
      BY <2>1, <3>1, <3>2
  <2>3. DOMAIN (h \o asks) = 1..Len(h \o asks)
    BY <2>2, ListedDomain
  <2> DEFINE w == h \o asks
  <2> HIDE DEF w
  <2>4. ASSUME NEW k \in 2..Len(w) PROVE w[k] \in Asked(id)
    <3>1. k - 1 \in 1..Len(asks) /\ k = 1 + (k - 1)
      BY <1>5, <2>2 DEF w
    <3>2. w[k] = asks[k - 1]
      BY <2>2, <3>1 DEF w
    <3> QED
      BY <1>5, <3>1, <3>2
  <2>5. w = ps
    BY DEF w, h
  <2>6. Len(w) \in Nat \ {0} /\ DOMAIN w = 1..Len(w) /\ w[1] = Hello(id)
    BY <1>5, <2>1, <2>2, <2>3 DEF w
  <2> HIDE DEF ps
  <2> QED
    BY <2>4, <2>5, <2>6
<1> HIDE DEF ps
<1>7. c.d = d0 /\ c.x = x
  OBVIOUS
<1> HIDE DEF c, n
<1>8. Heard(c, 0, d0)
  BY <1>2, <1>7 DEF Heard
<1>9. ASSUME NEW k \in 0..(n - 1), NEW e, Heard(c, k, e)
      PROVE  Heard(c, k + 1, Hear(c, e, ps[k + 1]))
  <2> DEFINE p == ps[k + 1]
             g == _mosquitto_packet_read(e, x, p)
  <2>1. /\ Managed(World, e) /\ DOMAIN e.ctx = DOMAIN d0.ctx /\ e.sec = d0.sec
        /\ k = 0 => e = d0
        /\ k # 0 => e.ctx[x].state = "connected"
    BY <1>7, <1>9 DEF Heard
  <2>2. /\ Managed(World, g) /\ DOMAIN g.ctx = DOMAIN e.ctx /\ g.sec = e.sec
        /\ g.ctx[x].state = "connected"
    <3>1. CASE k = 0
      <4>1. p = Hello(id) /\ e = d0
        BY <1>6, <2>1, <3>1
      <4>2. g = _mosquitto_packet_read(d0, x, Hello(id))
        BY <4>1
      <4> HIDE DEF g
      <4>3. /\ Managed(World, g) /\ DOMAIN g.ctx = DOMAIN d0.ctx /\ g.sec = d0.sec
            /\ g.ctx[x].state = "connected"
        BY <1>14, <4>2
      <4> QED
        BY <4>1, <4>3
    <3>2. CASE k # 0
      <4>1. p \in Asked(id)
        BY <1>6, <3>2
      <4> HIDE DEF p
      <4>2. p.cmd = "SUBSCRIBE" /\ Topic(p.sub) /\ mosquitto_sub_topic_check(p.sub)
        BY <4>1, AskedPacket
      <4>3. x \in DOMAIN e.ctx /\ e.ctx[x].state = "connected"
        BY <1>3, <2>1, <3>2
      <4> QED
        BY <2>1, <4>2, <4>3, AskedHeard
    <3> QED
      BY <3>1, <3>2
  <2>3. g = Hear(c, e, p)
    BY <1>7 DEF Hear
  <2> HIDE DEF g, p
  <2>4. k + 1 # 0
    BY <1>6
  <2>5. Heard(c, k + 1, g)
    BY <1>7, <2>1, <2>2, <2>4 DEF Heard
  <2>6. Heard(c, k + 1, Hear(c, e, p))
    BY <2>3, <2>5
  <2> QED
    BY <2>6 DEF p
<1>10. Heard(c, n, Hrd!Left(c, d0, ps))
  BY <1>6, <1>8, <1>9, Hrd!LeftInduction
<1>11. Hrd!Left(c, d0, ps) = a
  BY <1>7 DEF Hrd!Left, Hear, FoldLeft, MapThenFoldSet, Max
<1> HIDE DEF a
<1>12. Managed(World, a) /\ DOMAIN a.ctx = DOMAIN d0.ctx /\ a.sec = d0.sec
  BY <1>7, <1>10, <1>11 DEF Heard
<1>13. Managed(World, b)
  BY <1>3, <1>12, TakenManaged
<1>24. DOMAIN b.ctx = DOMAIN a.ctx /\ b.sec = a.sec
  <2>1. Fields \subseteq DOMAIN a
    BY <1>12, ManagedIs
  <2> QED
    BY <2>1 DEF Fields
<1> HIDE DEF b
<1> QED
  BY <1>1, <1>2, <1>12, <1>13, <1>24
-----------------------------------------------------------------------------
(* ... and all of them.                                                    *)

(* One client after the other is served.                                   *)
ServeNext(order, d, c) == Served(d, c, order[c])
(* What is known after some clients.                                       *)
ServedTo(order, k, d) ==
    /\ Managed(World, d) /\ DOMAIN d.ctx = 1..k
    /\ d.sec = mqtt3_db_open(SecurityFiles[1]).sec
(* The induction over the clients.                                         *)
Svd == INSTANCE FoldInduction WITH Op <- ServeNext, Inv <- ServedTo

(* The broker with which everything begins.                                *)
LEMMA AllServed ==
    LET order == SetToSeq(Clients)
        d == FoldLeft(LAMBDA e, c : Served(e, c, order[c]), mqtt3_db_open(SecurityFiles[1]),
                      [c \in DOMAIN order |-> c])
    IN Managed(World, d) /\ d.sec = mosquitto_security_init(Closed, SecurityFiles[1])
<1> DEFINE order == SetToSeq(Clients)
           n == Cardinality(Clients)
           d0 == mqtt3_db_open(SecurityFiles[1])
           at == [c \in DOMAIN order |-> c]
<1>1. n \in Nat /\ order \in [1..n -> Clients]
  BY SystemAssumption, OrderOf
<1>2. Managed(World, d0) /\ DOMAIN d0.ctx = {}
  BY OpenedDb
<1>3. \A id \in Clients : Admitted(d0, Users[id])
  BY StartAssumption
<1>4. 1..n \subseteq Conns
  BY StartAssumption
<1>9. d0 = mqtt3_db_open(SecurityFiles[1])
  OBVIOUS
<1> HIDE DEF order, d0, n
<1>5. DOMAIN at = 1..n /\ \A k \in 1..n : at[k] = k
  BY <1>1
<1> HIDE DEF at
<1>6. ServedTo(order, 0, d0)
  <2>1. 1..0 = {}
    OBVIOUS
  <2> QED
    BY <1>2, <1>9, <2>1 DEF ServedTo
<1>7. ASSUME NEW k \in 0..(n - 1), NEW d, ServedTo(order, k, d)
      PROVE  ServedTo(order, k + 1, ServeNext(order, d, at[k + 1]))
  <2> DEFINE x == k + 1
             id == order[x]
             e == Served(d, x, id)
  <2>1. x \in 1..n /\ at[x] = x
    BY <1>1, <1>5
  <2>2. x \in Conns /\ id \in Clients
    BY <1>1, <1>4, <2>1
  <2>3. Managed(World, d) /\ DOMAIN d.ctx = 1..k /\ d.sec = d0.sec
    BY <1>7, <1>9 DEF ServedTo
  <2>4. x \notin DOMAIN d.ctx /\ (1..k) \cup {x} = 1..x
    BY <1>1, <2>3
  <2>7. ServeNext(order, d, x) = e
    BY DEF ServeNext
  <2> HIDE DEF x, id
  <2>5. Admitted(d, Users[id])
    BY <1>3, <2>2, <2>3, AdmittedSame
  <2>6. Managed(World, e) /\ DOMAIN e.ctx = DOMAIN d.ctx \cup {x} /\ e.sec = d.sec
    BY <2>2, <2>3, <2>4, <2>5, ServedSound
  <2> HIDE DEF e
  <2>8. ServedTo(order, x, e)
    BY <1>9, <2>3, <2>4, <2>6 DEF ServedTo
  <2> QED
    BY <2>1, <2>7, <2>8 DEF x
<1>8. ServedTo(order, n, Svd!Left(order, d0, at))
  BY <1>1, <1>5, <1>6, <1>7, Svd!LeftInduction
<1> DEFINE end == FoldLeft(LAMBDA e, c : Served(e, c, order[c]), d0, at)
<1>10. Svd!Left(order, d0, at) = end
  BY DEF Svd!Left, ServeNext, FoldLeft, MapThenFoldSet, Max
<1>11. d0.sec = mosquitto_security_init(Closed, SecurityFiles[1])
  BY <1>9 DEF mqtt3_db_open
<1>12. end = FoldLeft(LAMBDA e, c : Served(e, c, order[c]), d0, at)
  OBVIOUS
<1> HIDE DEF end
<1>13. Managed(World, end) /\ end.sec = mosquitto_security_init(Closed, SecurityFiles[1])
  BY <1>8, <1>9, <1>10, <1>11 DEF ServedTo
<1> QED
  BY <1>13 DEF end, d0, order, at

-----------------------------------------------------------------------------
(* The security files are those that were read last; patterns of an older  *)
(* acl file may have stayed.                                               *)
FilesRead ==
    /\ used.reloads + 1 \in DOMAIN SecurityFiles
    /\ SecFields \subseteq DOMAIN db.sec
    /\ SameRights(db.sec, mosquitto_security_init(Closed, Files))

(* What all parts of the system keep: the database is in order, what       *)
(* clients hold and what is under way to the broker are packets it knows.  *)
Holds(K) ==
    /\ Managed(K, db) /\ FilesRead
    /\ DOMAIN cli = Clients /\ \A id \in Clients : Client(K, cli[id])
    /\ DOMAIN wire = Conns /\ \A c \in Conns : Packets(K, wire[c])
    /\ DOMAIN todo = Clients /\ \A id \in Clients : todo[id] \in Seq(AnyCall)
    /\ used \in [{"breaks", "timeouts", "expired", "reloads"} -> Nat]

(* A client with which everything begins.                                  *)
LEMMA StartedSound ==
    ASSUME NEW id \in Clients, NEW c
    PROVE  Client(World, Started(c, id))
<1> DEFINE k == Cardinality(First[id])
           w == Wills[id]
           u == Users[id]
           new == mosquitto_new(id \notin Persistent)
           willed == [new EXCEPT !.will = w]
           named == [willed EXCEPT !.username = u.username, !.password = u.password]
           m == [named EXCEPT !.conn = c, !.state = "connected", !.last_mid = k]
<1>1. Willing(w)
  BY HelloPacket DEF Hello
<1>2. Started(c, id) = m
  BY DEF Started, mosquitto_username_pw_set, _mosquitto_will_set
<1>3. DOMAIN new = ClientFields /\ new.out = <<>> /\ new.in = <<>> /\ new.up = <<>>
  BY DEF mosquitto_new, ClientFields
<1> HIDE DEF w, k, u, new
<1>4. /\ DOMAIN m = ClientFields /\ m.will = w /\ m.out = <<>> /\ m.in = <<>> /\ m.up = <<>>
  BY <1>3 DEF ClientFields
<1> HIDE DEF m
<1>5. Outgoing(<<>>) /\ Packets(World, <<>>) /\ Listed(<<>>)
  BY EmptyListed DEF Outgoing, Packets
<1> QED
  BY <1>1, <1>2, <1>4, <1>5 DEF Client

(* The invariant holds at the beginning.                                   *)
LEMMA HoldsInit == Init => Holds(World)
<1> SUFFICES ASSUME Init PROVE Holds(World)
  OBVIOUS
<1> DEFINE order == SetToSeq(Clients)
           Pos(id) == CHOOSE c \in DOMAIN order : order[c] = id
<1>1. Managed(World, db) /\ db.sec = mosquitto_security_init(Closed, SecurityFiles[1])
  BY AllServed DEF Init
<1>2. /\ cli = [id \in Clients |-> Started(Pos(id), id)]
      /\ wire = [c \in Conns |-> <<>>] /\ todo = Calls
      /\ used = [breaks |-> 0, timeouts |-> 0, expired |-> 0, reloads |-> 0]
  BY DEF Init
<1> HIDE DEF Pos
<1>3. DOMAIN cli = Clients /\ \A id \in Clients : Client(World, cli[id])
  BY <1>2, StartedSound
<1>4. DOMAIN wire = Conns /\ \A c \in Conns : Packets(World, wire[c])
  BY <1>2, EmptyListed DEF Packets
<1>5. DOMAIN todo = Clients /\ \A id \in Clients : todo[id] \in Seq(AnyCall)
  BY <1>2, SystemAssumption
<1>6. used \in [{"breaks", "timeouts", "expired", "reloads"} -> Nat]
  BY <1>2
<1>7. FilesRead
  <2>1. Files = SecurityFiles[1]
    BY <1>2 DEF Files
  <2>2. SecFields \subseteq DOMAIN mosquitto_security_init(Closed, SecurityFiles[1])
    BY FirstFiles, FilesLined
  <2> QED
    BY <1>1, <1>2, <2>1, <2>2, FirstFiles DEF FilesRead, SameRights
<1> QED
  BY <1>1, <1>3, <1>4, <1>5, <1>6, <1>7 DEF Holds
-----------------------------------------------------------------------------
(* Every step keeps the invariant: clients ...                             *)

(* The packets of a call are written to the connection of the client.      *)
LEMMA FlushHolds ==
    ASSUME NEW K, Fit(K), Holds(K), NEW id \in Clients, NEW m, Client(K, m), Flush(id, m)
    PROVE  /\ DOMAIN cli' = Clients /\ \A x \in Clients : Client(K, cli'[x])
           /\ DOMAIN wire' = Conns /\ \A c \in Conns : Packets(K, wire'[c])
<1> DEFINE n == [m EXCEPT !.up = <<>>]
           k == cli[id].conn
<1>1. Client(K, n) /\ Packets(K, m.up)
  BY SentSound DEF Client
<1>2. cli' = [cli EXCEPT ![id] = n]
  BY DEF Flush
<1>3. wire' = wire \/ wire' = [wire EXCEPT ![k] = wire[k] \o m.up]
  BY DEF Flush
<1> HIDE DEF n, k
<1>4. DOMAIN cli' = Clients /\ \A x \in Clients : Client(K, cli'[x])
  BY <1>1, <1>2 DEF Holds
<1>5. DOMAIN wire' = Conns
  BY <1>3 DEF Holds
<1>6. ASSUME NEW c \in Conns PROVE Packets(K, wire'[c])
  <2>1. Packets(K, wire[c])
    BY DEF Holds
  <2>2. Packets(K, wire[c] \o m.up)
    BY <1>1, <2>1, PacketsConcat
  <2>3. wire'[c] = wire[c] \/ wire'[c] = wire[c] \o m.up
    BY <1>3 DEF Holds
  <2> QED
    BY <2>1, <2>2, <2>3
<1> QED
  BY <1>4, <1>5, <1>6

(* One client has changed.                                                 *)
LEMMA OneClient ==
    ASSUME NEW K, Fit(K), Holds(K), NEW id \in Clients, NEW m, Client(K, m), cli' = [cli EXCEPT ![id] = m]
    PROVE  DOMAIN cli' = Clients /\ \A x \in Clients : Client(K, cli'[x])
BY DEF Holds

(* One connection has changed.                                             *)
LEMMA OneWire ==
    ASSUME NEW K, Fit(K), Holds(K), NEW c, NEW w, Packets(K, w), wire' = [wire EXCEPT ![c] = w]
    PROVE  DOMAIN wire' = Conns /\ \A x \in Conns : Packets(K, wire'[x])
BY DEF Holds

(* One bounded event more.                                                 *)
LEMMA SpendHolds ==
    ASSUME NEW K, Holds(K), NEW what, Spend(what)
    PROVE  /\ used' \in [{"breaks", "timeouts", "expired", "reloads"} -> Nat]
           /\ used'.reloads = IF what = "reloads" THEN used.reloads + 1 ELSE used.reloads
<1> DEFINE L == {"breaks", "timeouts", "expired", "reloads"}
<1>1. used \in [L -> Nat] /\ used' = [used EXCEPT ![what] = used[what] + 1]
  BY DEF Holds, Spend
<1> HIDE DEF L
<1>2. DOMAIN used' = L /\ used' = [x \in L |-> used'[x]]
  BY <1>1
<1>3. ASSUME NEW x \in L PROVE used'[x] \in Nat
  <2>1. CASE x = what
    <3>1. used'[x] = used[x] + 1 /\ used[x] \in Nat
      BY <1>1, <2>1
    <3> QED
      BY <3>1
  <2>2. CASE x # what
    BY <1>1, <2>2
  <2> QED
    BY <2>1, <2>2
<1>4. used'["reloads"] = IF what = "reloads" THEN used["reloads"] + 1 ELSE used["reloads"]
  BY <1>1 DEF L
<1> QED
  BY <1>2, <1>3, <1>4 DEF L

(* Security files and what has been read of them stay.                     *)
LEMMA FilesStay ==
    ASSUME FilesRead, db'.sec = db.sec, used'.reloads = used.reloads
    PROVE  FilesRead'
BY DEF FilesRead, Files

(* The application calls the library.                                      *)
LEMMA CallHolds ==
    ASSUME NEW K, Fit(K), Holds(K), NEW id \in Clients, Call(id)
    PROVE  Holds(K)'
<1> DEFINE call == Head(todo[id])
<1>1. todo[id] \in Seq(AnyCall) /\ todo[id] # <<>> /\ Client(K, cli[id])
  BY DEF Holds, Call
<1>2. call \in AnyCall /\ Tail(todo[id]) \in Seq(AnyCall)
  BY <1>1
<1>3. /\ Flush(id, Perform(cli[id], call))
      /\ todo' = [todo EXCEPT ![id] = Tail(todo[id])]
      /\ db' = db /\ used' = used
  BY DEF Call
<1> HIDE DEF call
<1>4. Client(K, Perform(cli[id], call))
  BY <1>1, <1>2, PerformSound
<1>5. /\ DOMAIN cli' = Clients /\ \A x \in Clients : Client(K, cli'[x])
      /\ DOMAIN wire' = Conns /\ \A c \in Conns : Packets(K, wire'[c])
  BY <1>3, <1>4, FlushHolds
<1>6. DOMAIN todo' = Clients /\ \A x \in Clients : todo'[x] \in Seq(AnyCall)
  BY <1>2, <1>3 DEF Holds
<1> QED
  BY <1>3, <1>5, <1>6, FilesStay DEF Holds

(* A free connection is one the broker does not know.                      *)
LEMMA FreeConn ==
    ASSUME FreeConns # {}
    PROVE  Min(FreeConns) \in Conns /\ Min(FreeConns) \notin DOMAIN db.ctx
<1> DEFINE S == FreeConns
<1>1. S \subseteq Conns /\ S \cap DOMAIN db.ctx = {} /\ S # {}
  BY DEF FreeConns
<1> HIDE DEF S
<1>2. Conns \subseteq Nat /\ IsFiniteSet(Conns)
  BY SystemAssumption
<1>3. S \subseteq Nat /\ IsFiniteSet(S)
  BY <1>1, <1>2, FS_Subset
<1>4. Min(S) \in S
  BY <1>1, <1>3, MinIn
<1>5. Min(S) \in Conns /\ Min(S) \notin DOMAIN db.ctx
  BY <1>1, <1>4
<1> QED
  BY <1>5 DEF S

(* A client opens a connection.                                            *)
LEMMA OpenSocketHolds ==
    ASSUME NEW K, Fit(K), Holds(K), NEW id \in Clients, OpenSocket(id)
    PROVE  Holds(K)'
<1> DEFINE c == Min(FreeConns)
           m == _mosquitto_reconnect(cli[id], c)
           d == mqtt3_context_init(db, c, TRUE)
<1>1. c \in Conns /\ c \notin DOMAIN db.ctx
  BY FreeConn DEF OpenSocket
<1>2. /\ cli' = [cli EXCEPT ![id] = m] /\ db' = d /\ wire' = [wire EXCEPT ![c] = <<>>]
      /\ todo' = todo /\ used' = used
  BY DEF OpenSocket
<1> HIDE DEF c
<1>3. Client(K, m)
  BY ReconnectSound DEF Holds
<1>4. Managed(K, d) /\ d.sec = db.sec
  <2>1. c \in K.conns /\ Managed(K, db)
    BY <1>1 DEF Fit, Holds
  <2>2. LET e == mqtt3_context_init(db, c, TRUE)
        IN Managed(K, e) /\ DOMAIN e.ctx = DOMAIN db.ctx \cup {c}
           /\ e.ctx[c] = Blank(TRUE) /\ e.sec = db.sec
    BY <1>1, <2>1, OpenManaged
  <2> QED
    BY <2>2
<1> HIDE DEF m, d
<1>5. DOMAIN cli' = Clients /\ \A x \in Clients : Client(K, cli'[x])
  BY <1>2, <1>3, OneClient
<1>6. Packets(K, <<>>)
  BY EmptyListed DEF Packets
<1>7. DOMAIN wire' = Conns /\ \A x \in Conns : Packets(K, wire'[x])
  BY <1>2, <1>6, OneWire
<1> QED
  BY <1>2, <1>4, <1>5, <1>7, FilesStay DEF Holds

(* A client sends its CONNECT.                                             *)
LEMMA SendConnectHolds ==
    ASSUME NEW K, Fit(K), Holds(K), NEW id \in Clients, SendConnect(id)
    PROVE  Holds(K)'
<1>1. Flush(id, _mosquitto_send_connect(cli[id], id)) /\ db' = db /\ todo' = todo /\ used' = used
  BY DEF SendConnect
<1>2. id \in K.ids /\ Client(K, cli[id])
  BY DEF Fit, Holds
<1>3. Client(K, _mosquitto_send_connect(cli[id], id))
  BY <1>2, ConnectCall
<1>4. /\ DOMAIN cli' = Clients /\ \A x \in Clients : Client(K, cli'[x])
      /\ DOMAIN wire' = Conns /\ \A c \in Conns : Packets(K, wire'[c])
  BY <1>1, <1>3, FlushHolds
<1> QED
  BY <1>1, <1>4, FilesStay DEF Holds

(* A client reads a packet.                                                *)
LEMMA LoopReadHolds ==
    ASSUME NEW K, Fit(K), Holds(K), NEW id \in Clients, LoopRead(id)
    PROVE  Holds(K)'
<1> DEFINE k == cli[id].conn
           p == Head(db.ctx[k].out)
           out == Tail(db.ctx[k].out)
           d == [db EXCEPT !.ctx[k].out = out]
<1>1. k \in DOMAIN db.ctx /\ Flush(id, _mosquitto_packet_handle(cli[id], p)) /\ todo' = todo /\ used' = used
  BY DEF LoopRead, Open
<1>2. db' = d
  BY DEF LoopRead
<1> HIDE DEF p, out
<1>3. Client(K, _mosquitto_packet_handle(cli[id], p))
  BY PacketHandled DEF Holds
<1>4. /\ DOMAIN cli' = Clients /\ \A x \in Clients : Client(K, cli'[x])
      /\ DOMAIN wire' = Conns /\ \A c \in Conns : Packets(K, wire'[c])
  BY <1>1, <1>3, FlushHolds
<1>5. Managed(K, d) /\ d.sec = db.sec
  BY <1>1, TakenManaged DEF Holds
<1> HIDE DEF d
<1> QED
  BY <1>1, <1>2, <1>4, <1>5, FilesStay DEF Holds

(* A client finds its connection closed.                                   *)
LEMMA LoopClosedHolds ==
    ASSUME NEW K, Fit(K), Holds(K), NEW id \in Clients, LoopClosed(id)
    PROVE  Holds(K)'
<1>1. /\ cli' = [cli EXCEPT ![id] = _mosquitto_socket_close(cli[id])]
      /\ db' = db /\ wire' = wire /\ todo' = todo /\ used' = used
  BY DEF LoopClosed
<1>2. Client(K, _mosquitto_socket_close(cli[id]))
  BY ClosedSound DEF Holds
<1>3. DOMAIN cli' = Clients /\ \A x \in Clients : Client(K, cli'[x])
  BY <1>1, <1>2, OneClient
<1> QED
  BY <1>1, <1>3, FilesStay DEF Holds

(* A client repeats what is late.                                          *)
LEMMA LoopMiscHolds ==
    ASSUME NEW K, Fit(K), Holds(K), NEW id \in Clients, LoopMisc(id)
    PROVE  Holds(K)'
<1>1. Flush(id, _mosquitto_message_retry_check(cli[id])) /\ db' = db /\ todo' = todo /\ used' = used
  BY DEF LoopMisc
<1>2. Client(K, _mosquitto_message_retry_check(cli[id]))
  BY RetrySound DEF Holds
<1>3. /\ DOMAIN cli' = Clients /\ \A x \in Clients : Client(K, cli'[x])
      /\ DOMAIN wire' = Conns /\ \A c \in Conns : Packets(K, wire'[c])
  BY <1>1, <1>2, FlushHolds
<1> QED
  BY <1>1, <1>3, FilesStay DEF Holds

(* A connection breaks.                                                    *)
LEMMA BreakHolds ==
    ASSUME NEW K, Fit(K), Holds(K), NEW id \in Clients, Break(id)
    PROVE  Holds(K)'
<1> DEFINE c == cli[id].conn
           w == wire[c]
<1>1. /\ cli' = [cli EXCEPT ![id] = _mosquitto_socket_close(cli[id])]
      /\ db' = db /\ todo' = todo /\ Spend("breaks")
  BY DEF Break
<1>2. PICK k \in 0..Len(w) : wire' = [wire EXCEPT ![c] = SubSeq(w, 1, k)]
  BY DEF Break
<1>3. Client(K, _mosquitto_socket_close(cli[id]))
  BY ClosedSound DEF Holds
<1>4. DOMAIN cli' = Clients /\ \A x \in Clients : Client(K, cli'[x])
  BY <1>1, <1>3, OneClient
<1>5. used' \in [{"breaks", "timeouts", "expired", "reloads"} -> Nat] /\ used'.reloads = used.reloads
  BY <1>1, SpendHolds
<1>6. DOMAIN wire' = Conns /\ \A x \in Conns : Packets(K, wire'[x])
  <2>1. CASE c \in Conns
    <3>1. Packets(K, w)
      BY <2>1 DEF Holds
    <3> DEFINE t == SubSeq(w, 1, k)
    <3>2. Listed(w) /\ Len(w) \in Nat /\ DOMAIN w = 1..Len(w)
      BY <3>1, ListedDomain DEF Packets
    <3>3. k \in Nat /\ k <= Len(w)
      BY <3>2
    <3>4. Listed(t) /\ Range(t) \subseteq Range(w)
      BY <3>2, <3>3, SubSeqListed
    <3> HIDE DEF t
    <3>5. Packets(K, t)
      BY <3>1, <3>4 DEF Packets, Range
    <3> QED
      BY <1>2, <3>5, OneWire DEF t
  <2>2. CASE c \notin Conns
    <3>1. DOMAIN wire' = Conns /\ \A x \in Conns : wire'[x] = wire[x]
      BY <1>2, <2>2 DEF Holds
    <3> QED
      BY <3>1 DEF Holds
  <2> QED
    BY <2>1, <2>2
<1> QED
  BY <1>1, <1>4, <1>5, <1>6, FilesStay DEF Holds
-----------------------------------------------------------------------------
(* ... and the broker.                                                     *)

(* Retry times pass at a client.                                           *)
LEMMA ClientTimeoutHolds ==
    ASSUME NEW K, Fit(K), Holds(K), NEW id \in Clients, ClientTimeout(id)
    PROVE  Holds(K)'
<1> DEFINE m == cli[id]
<1>1. db' = db /\ wire' = wire /\ todo' = todo
  BY DEF ClientTimeout
<1>2. used' \in [{"breaks", "timeouts", "expired", "reloads"} -> Nat] /\ used'.reloads = used.reloads
  <2>1. used' = used \/ Spend("timeouts")
    BY DEF ClientTimeout
  <2> QED
    BY <2>1, SpendHolds DEF Holds
<1>3. Client(K, m) /\ Outgoing(m.out) /\ Listed(m.in) /\ {"out", "in"} \subseteq DOMAIN m
  BY DEF Holds, Client, ClientFields
<1>4. ASSUME NEW out, Outgoing(out), NEW in, Listed(in), cli' = [cli EXCEPT ![id] = [m EXCEPT !.out = out, !.in = in]]
      PROVE  DOMAIN cli' = Clients /\ \A x \in Clients : Client(K, cli'[x])
  <2>1. Client(K, [m EXCEPT !.out = out, !.in = in])
    BY <1>3, <1>4, DueSound
  <2> QED
    BY <1>4, <2>1, OneClient
<1>5. \/ cli' = [cli EXCEPT ![id].out = Late(m.out, DOMAIN m.out), ![id].in = Late(m.in, DOMAIN m.in)]
      \/ \E i \in DOMAIN m.out : cli' = [cli EXCEPT ![id].out = Late(m.out, {i})]
      \/ \E i \in DOMAIN m.in : cli' = [cli EXCEPT ![id].in = Late(m.in, {i})]
  BY DEF ClientTimeout
<1> HIDE DEF m
<1>6. DOMAIN cli' = Clients /\ \A x \in Clients : Client(K, cli'[x])
  <2>1. ASSUME NEW I, NEW J PROVE Outgoing(Late(m.out, I)) /\ Listed(Late(m.in, J)) /\ Outgoing(m.out) /\ Listed(m.in)
    <3>1. Listed(m.out)
      BY <1>3 DEF Outgoing
    <3> QED
      BY <1>3, <3>1, LateSound
  <2>2. CASE cli' = [cli EXCEPT ![id].out = Late(m.out, DOMAIN m.out), ![id].in = Late(m.in, DOMAIN m.in)]
    <3> DEFINE out == Late(m.out, DOMAIN m.out)
               in == Late(m.in, DOMAIN m.in)
    <3>1. cli' = [cli EXCEPT ![id] = [m EXCEPT !.out = out, !.in = in]]
      BY <2>2 DEF m, Holds
    <3>2. Outgoing(out) /\ Listed(in)
      BY <2>1
    <3> HIDE DEF out, in
    <3> QED
      BY <1>4, <3>1, <3>2
  <2>3. ASSUME NEW i, cli' = [cli EXCEPT ![id].out = Late(m.out, {i})]
        PROVE  DOMAIN cli' = Clients /\ \A x \in Clients : Client(K, cli'[x])
    <3> DEFINE out == Late(m.out, {i})
    <3>1. cli' = [cli EXCEPT ![id] = [m EXCEPT !.out = out]]
      BY <2>3 DEF m, Holds
    <3>2. Outgoing(out)
      BY <2>1
    <3> HIDE DEF out
    <3>3. Client(K, [m EXCEPT !.out = out])
      <4> DEFINE n == [m EXCEPT !.out = out]
      <4>1. DOMAIN n = DOMAIN m /\ n.will = m.will /\ n.out = out /\ n.in = m.in /\ n.up = m.up
        BY <1>3
      <4> HIDE DEF n
      <4>2. Client(K, n)
        BY <1>3, <3>2, <4>1, ClientSame DEF Client
      <4> QED
        BY <4>2 DEF n
    <3> QED
      BY <3>1, <3>3, OneClient
  <2>4. ASSUME NEW i, cli' = [cli EXCEPT ![id].in = Late(m.in, {i})]
        PROVE  DOMAIN cli' = Clients /\ \A x \in Clients : Client(K, cli'[x])
    <3> DEFINE in == Late(m.in, {i})
    <3>1. cli' = [cli EXCEPT ![id] = [m EXCEPT !.in = in]]
      BY <2>4 DEF m, Holds
    <3>2. Listed(in)
      BY <2>1
    <3> HIDE DEF in
    <3>3. Client(K, [m EXCEPT !.in = in])
      <4> DEFINE n == [m EXCEPT !.in = in]
      <4>1. DOMAIN n = DOMAIN m /\ n.will = m.will /\ n.in = in /\ n.out = m.out /\ n.up = m.up
        BY <1>3
      <4> HIDE DEF n
      <4>2. Client(K, n)
        BY <1>3, <3>2, <4>1, ClientSame DEF Client
      <4> QED
        BY <4>2 DEF n
    <3> QED
      BY <3>1, <3>3, OneClient
  <2> QED
    BY <1>5, <2>2, <2>3, <2>4
<1> QED
  BY <1>1, <1>2, <1>6, FilesStay DEF Holds

(* A sequence without its first element.                                   *)
LEMMA TailListed ==
    ASSUME NEW s, Listed(s), s # <<>>
    PROVE  Listed(Tail(s)) /\ Range(Tail(s)) \subseteq Range(s) /\ 1 \in DOMAIN s /\ Head(s) = s[1]
<1> DEFINE S == Range(s)
           t == Tail(s)
<1>1. s \in Seq(S) /\ Len(s) \in Nat /\ DOMAIN s = 1..Len(s)
  BY ListedDomain DEF Listed
<1> HIDE DEF S
<1>2. t \in Seq(S) /\ Head(s) = s[1] /\ Len(s) > 0
  BY <1>1
<1> HIDE DEF t
<1>3. Listed(t) /\ Range(t) \subseteq S
  BY <1>2, SeqListed
<1> QED
  BY <1>1, <1>2, <1>3 DEF S, t

(* The broker reads a packet.                                              *)
LEMMA BrokerReadHolds ==
    ASSUME NEW K, Fit(K), Holds(K), NEW c \in Conns, BrokerRead(c)
    PROVE  Holds(K)'
<1> DEFINE p == Head(wire[c])
           w == Tail(wire[c])
           e == _mosquitto_packet_read(db, c, p)
<1>1. /\ c \in DOMAIN db.ctx /\ db.ctx[c].sock /\ wire[c] # <<>>
      /\ db' = e /\ wire' = [wire EXCEPT ![c] = w] /\ cli' = cli /\ todo' = todo /\ used' = used
  BY DEF BrokerRead, Open
<1>2. Listed(wire[c]) /\ \A i \in DOMAIN wire[c] : Packet(K, wire[c][i])
  BY DEF Holds, Packets
<1>3. Packet(K, p) /\ Packets(K, w)
  <2> DEFINE s == wire[c]
  <2>1. Listed(s) /\ s # <<>> /\ DOMAIN s = 1..Len(s) /\ Len(s) \in Nat
    BY <1>1, <1>2, ListedDomain
  <2> HIDE DEF s
  <2>2. 1 \in DOMAIN s /\ Head(s) = s[1]
    BY <2>1 DEF Listed
  <2>3. Listed(Tail(s)) /\ Range(Tail(s)) \subseteq Range(s)
    BY <2>1, TailListed
  <2>4. Packet(K, Head(s))
    BY <1>2, <2>2 DEF s
  <2>5. Packets(K, Tail(s))
    BY <1>2, <2>3 DEF Packets, Range, s
  <2> QED
    BY <2>4, <2>5 DEF s
<1>4. Managed(K, e) /\ e.sec = db.sec
  <2>1. Managed(K, db) /\ Leaky(K.leaks) /\ NoId \notin K.ids
    BY DEF Fit, Holds
  <2> QED
    BY <1>1, <1>3, <2>1, ReadSound
<1> HIDE DEF p, w, e
<1>5. DOMAIN wire' = Conns /\ \A x \in Conns : Packets(K, wire'[x])
  BY <1>1, <1>3, OneWire
<1> QED
  BY <1>1, <1>4, <1>5, FilesStay DEF Holds

(* The broker closes a connection.                                         *)
LEMMA EndHolds ==
    ASSUME NEW K, Fit(K), Holds(K), NEW c \in DOMAIN db.ctx
    PROVE  LET e == do_disconnect(db, c) IN Managed(K, e) /\ e.sec = db.sec
BY EndSound DEF Holds

(* ... after its client has gone, or on its own.                           *)
LEMMA BrokerEndHolds ==
    ASSUME NEW K, Fit(K), Holds(K), NEW c \in Conns, BrokerClosed(c) \/ BrokerDrop(c)
    PROVE  Holds(K)'
<1>1. c \in DOMAIN db.ctx /\ db' = do_disconnect(db, c) /\ cli' = cli /\ wire' = wire /\ todo' = todo
  BY DEF BrokerClosed, BrokerDrop, Open
<1>2. used' = used \/ Spend("breaks")
  BY DEF BrokerClosed, BrokerDrop
<1>3. Managed(K, db') /\ db'.sec = db.sec
  BY <1>1, EndHolds
<1>4. used' \in [{"breaks", "timeouts", "expired", "reloads"} -> Nat] /\ used'.reloads = used.reloads
  BY <1>2, SpendHolds DEF Holds
<1> QED
  BY <1>1, <1>3, <1>4, FilesStay DEF Holds

(* The broker writes messages.                                             *)
LEMMA BrokerWriteHolds ==
    ASSUME NEW K, Fit(K), Holds(K), NEW c \in Conns, BrokerWrite(c)
    PROVE  Holds(K)'
<1>1. /\ c \in DOMAIN db.ctx /\ db.ctx[c].state = "connected" /\ db' = mqtt3_db_message_write(db, c)
      /\ cli' = cli /\ wire' = wire /\ todo' = todo /\ used' = used
  BY DEF BrokerWrite, Open
<1>2. Managed(K, db') /\ db'.sec = db.sec
  BY <1>1, WriteManaged DEF Holds
<1> QED
  BY <1>1, <1>2, FilesStay DEF Holds

(* The broker frees contexts.                                              *)
LEMMA BrokerFreeHolds ==
    ASSUME NEW K, Fit(K), Holds(K), BrokerFree
    PROVE  Holds(K)'
<1>1. /\ db' = mosquitto__free_disused_contexts(db)
      /\ cli' = cli /\ wire' = wire /\ todo' = todo /\ used' = used
  BY DEF BrokerFree
<1>2. Managed(K, db') /\ db'.sec = db.sec
  BY <1>1, FreeManaged DEF Holds
<1> QED
  BY <1>1, <1>2, FilesStay DEF Holds

(* A persistent client expires.                                            *)
LEMMA BrokerExpireHolds ==
    ASSUME NEW K, Fit(K), Holds(K), NEW c \in Conns, BrokerExpire(c)
    PROVE  Holds(K)'
<1>1. /\ c \in DOMAIN db.ctx
      /\ db' = do_disconnect([db EXCEPT !.ctx[c].clean = TRUE, !.ctx[c].state = "expiring"], c)
      /\ cli' = cli /\ wire' = wire /\ todo' = todo /\ Spend("expired")
  BY DEF BrokerExpire
<1>2. Managed(K, db') /\ db'.sec = db.sec
  BY <1>1, ExpireManaged DEF Holds
<1>3. used' \in [{"breaks", "timeouts", "expired", "reloads"} -> Nat] /\ used'.reloads = used.reloads
  BY <1>1, SpendHolds
<1> QED
  BY <1>1, <1>2, <1>3, FilesStay DEF Holds

(* Retry times pass at the broker.                                         *)
LEMMA BrokerTimeoutHolds ==
    ASSUME NEW K, Fit(K), Holds(K), BrokerTimeout
    PROVE  Holds(K)'
<1>1. cli' = cli /\ wire' = wire /\ todo' = todo
  BY DEF BrokerTimeout
<1>2. used' = used \/ Spend("timeouts")
  BY DEF BrokerTimeout
<1>3. PICK late : late \subseteq Unanswered(db) /\ db' = mqtt3_db_message_timeout_check(db, late)
  <2>1. \/ db' = mqtt3_db_message_timeout_check(db, Unanswered(db))
        \/ \E x \in Unanswered(db) : db' = mqtt3_db_message_timeout_check(db, {x})
    BY DEF BrokerTimeout
  <2>2. \A x \in Unanswered(db) : {x} \subseteq Unanswered(db)
    OBVIOUS
  <2> QED
    BY <2>1, <2>2
<1>4. Managed(K, db') /\ db'.sec = db.sec
  BY <1>3, TimeoutManaged DEF Holds
<1>5. used' \in [{"breaks", "timeouts", "expired", "reloads"} -> Nat] /\ used'.reloads = used.reloads
  BY <1>2, SpendHolds DEF Holds
<1> QED
  BY <1>1, <1>4, <1>5, FilesStay DEF Holds

(* The security files are read again.                                      *)
LEMMA ReloadHolds ==
    ASSUME NEW K, Fit(K), Holds(K), Reload
    PROVE  Holds(K)'
<1> DEFINE k == used.reloads
           files == SecurityFiles[k + 2]
           e == Reloaded(db, files)
<1>1. /\ k + 1 < Len(SecurityFiles) /\ Spend("reloads") /\ db' = e
      /\ cli' = cli /\ wire' = wire /\ todo' = todo
  BY DEF Reload
<1>2. k \in Nat
  BY DEF Holds
<1> HIDE DEF k
<1>3. k + 2 \in DOMAIN SecurityFiles
  BY <1>1, <1>2, FirstFiles
<1>4. K.plain => files.acl_file = <<>>
  BY <1>3 DEF Plain, Fit
<1>6. used' \in [{"breaks", "timeouts", "expired", "reloads"} -> Nat] /\ used'.reloads = k + 1
  BY <1>1, SpendHolds DEF k
<1>7. Lined(files) /\ Files' = files
  <2>1. (k + 1) + 1 = k + 2
    BY <1>2
  <2> QED
    BY <1>3, <1>6, <2>1, FilesLined DEF Files
<1> HIDE DEF files
<1>5. Managed(K, e) /\ e.sec = mosquitto_security_init(mosquitto_security_cleanup(db).sec, files)
  BY <1>4, ReloadSound DEF Holds
<1> HIDE DEF e
<1>8. FilesRead'
  <2> DEFINE sec == mosquitto_security_cleanup(db).sec
  <2>1. "sec" \in DOMAIN db /\ SecFields \subseteq DOMAIN db.sec
    BY ManagedIs DEF Holds, FilesRead, Fields
  <2>2. SecFields \subseteq DOMAIN sec /\ sec.acl_list = <<>> /\ sec.unpwd = <<>>
    BY <2>1, CleanedRights
  <2>3. SecFields \subseteq DOMAIN Closed /\ Closed.acl_list = <<>> /\ Closed.unpwd = <<>>
    BY DEF SecFields, Closed
  <2>4. e.sec = mosquitto_security_init(sec, files)
    BY <1>5
  <2> HIDE DEF sec
  <2>5. SecFields \subseteq DOMAIN e.sec /\ SameRights(e.sec, mosquitto_security_init(Closed, files))
    BY <1>7, <2>2, <2>3, <2>4, RightsRead
  <2> QED
    BY <1>1, <1>2, <1>3, <1>6, <1>7, <2>5 DEF FilesRead
<1> QED
  BY <1>1, <1>5, <1>6, <1>8 DEF Holds

(* Every step keeps the invariant.                                         *)
LEMMA HoldsNext ==
    ASSUME NEW K, Fit(K), Holds(K), [Next]_vars
    PROVE  Holds(K)'
<1>1. CASE UNCHANGED vars
  BY <1>1, FilesStay DEF Holds, vars
<1>2. ASSUME NEW id \in Clients, Call(id) \/ Loop(id) \/ Break(id) \/ ClientTimeout(id) PROVE Holds(K)'
  BY <1>2, CallHolds, OpenSocketHolds, SendConnectHolds, LoopReadHolds, LoopClosedHolds, LoopMiscHolds,
     BreakHolds, ClientTimeoutHolds DEF Loop
<1>3. CASE MainLoop
  BY <1>3, BrokerReadHolds, BrokerEndHolds, BrokerWriteHolds, BrokerFreeHolds DEF MainLoop
<1>4. CASE BrokerTimeout
  BY <1>4, BrokerTimeoutHolds
<1>5. CASE Reload
  BY <1>5, ReloadHolds
<1>6. ASSUME NEW c \in Conns, BrokerDrop(c) \/ BrokerExpire(c) PROVE Holds(K)'
  BY <1>6, BrokerEndHolds, BrokerExpireHolds
<1>7. CASE AllDone
  BY <1>1, <1>7 DEF AllDone
<1> QED
  BY <1>1, <1>2, <1>3, <1>4, <1>5, <1>6, <1>7 DEF Next

(* The database of the broker, the clients and what is under way between   *)
(* them stay in order (Holds), whatever the threads and connections do.    *)
THEOREM SystemHolds == Spec => []Holds(World)
<1>1. Holds(World) /\ [Next]_vars => Holds(World)'
  BY HoldsNext, WorldIs
<1> QED
  BY <1>1, HoldsInit, PTL DEF Spec
-----------------------------------------------------------------------------
(* What follows from the invariant.                                        *)

(* OneContext, from the invariant.                                         *)
LEMMA HoldsOneContext ==
    ASSUME NEW K, Holds(K)
    PROVE  OneContext
<1> SUFFICES ASSUME NEW id \in Clients PROVE Cardinality(ById(db, id)) <= 1
  BY DEF OneContext
<1> DEFINE S == ById(db, id)
<1>1. S \subseteq DOMAIN db.ctx /\ id # NoId /\ \A c \in S : db.ctx[c].id = id
  BY SystemAssumption DEF ById
<1>2. \A a, b \in S : a = b
  BY <1>1 DEF Holds, Managed, OneEach
<1> HIDE DEF S
<1>3. CASE S = {}
  <2>1. Cardinality(S) = 0
    BY <1>3, FS_EmptySet
  <2> QED
    BY <2>1 DEF S
<1>4. ASSUME NEW a \in S PROVE Cardinality(S) <= 1
  <2>1. S = {a}
    BY <1>2, <1>4
  <2>2. Cardinality(S) = 1
    BY <2>1, FS_Singleton
  <2> QED
    BY <2>2
<1> QED
  BY <1>3, <1>4 DEF S

(* TreeExact, from the invariant.                                          *)
LEMMA HoldsTreeExact ==
    ASSUME NEW K, Holds(K)
    PROVE  TreeExact
<1> DEFINE L == Lists(db)
<1>1. Sound(db, Nobody, K.leaks)
  BY DEF Holds, Managed
<1>2. Leafy(db.subs, L) /\ Wooded(db.tree, db.subs, db.retained)
  BY <1>1 DEF Sound
<1>3. DOMAIN L = DOMAIN db.ctx /\ \A c \in DOMAIN db.ctx : L[c] = db.ctx[c].subs
  BY DEF Lists
<1> HIDE DEF L
<1>4. \A c \in DOMAIN db.ctx : \A p \in db.ctx[c].subs : p \in DOMAIN db.subs
  BY <1>2, <1>3 DEF Leafy
<1>5. ASSUME NEW c \in DOMAIN db.ctx, NEW p \in DOMAIN db.subs
      PROVE  Cardinality({i \in DOMAIN db.subs[p] : db.subs[p][i].ctx = c})
             = IF p \in db.ctx[c].subs THEN 1 ELSE 0
  <2> DEFINE leaves == db.subs[p]
             S == {i \in DOMAIN leaves : leaves[i].ctx = c}
  <2>1. Once(leaves)
    BY <1>2 DEF Leafy
  <2>2. p \in db.ctx[c].subs <=> \E i \in DOMAIN leaves : leaves[i].ctx = c
    BY <1>2, <1>3 DEF Leafy
  <2> HIDE DEF leaves
  <2>3. \A i, j \in S : i = j
    BY <2>1 DEF Once
  <2>4. p \in db.ctx[c].subs <=> S # {}
    BY <2>2
  <2> HIDE DEF S
  <2>5. CASE S = {}
    <3>1. Cardinality(S) = 0
      BY <2>5, FS_EmptySet
    <3> QED
      BY <2>4, <2>5, <3>1 DEF S, leaves
  <2>6. ASSUME NEW a \in S PROVE Cardinality(S) = 1
    <3>1. S = {a}
      BY <2>3, <2>6
    <3> QED
      BY <3>1, FS_Singleton
  <2>7. S # {} => Cardinality(S) = 1
    BY <2>6
  <2> QED
    BY <2>4, <2>5, <2>7 DEF S, leaves
<1>6. \A p \in DOMAIN db.subs : Len(p) > 1 => Front(p) \in DOMAIN db.subs
  BY <1>2 DEF Wooded, Node
<1> QED
  BY <1>4, <1>5, <1>6 DEF TreeExact

(* CountExact, from the invariant.                                         *)
LEMMA HoldsCountExact ==
    ASSUME NEW K, K.plain, Holds(K)
    PROVE  CountExact
<1> SUFFICES ASSUME NEW c \in DOMAIN db.ctx, db.ctx[c].id # NoId
             PROVE  db.ctx[c].count12 = Cardinality({i \in DOMAIN db.ctx[c].msgs : db.ctx[c].msgs[i].qos > 0})
  BY DEF CountExact
<1> DEFINE x == db.ctx[c]
           S == {i \in DOMAIN x.msgs : x.msgs[i].qos > 0}
<1>1. Paced(x)
  BY DEF Holds, Managed
<1>2. {i \in DOMAIN Mark(x.msgs) : Mark(x.msgs)[i] = 1} = S
  BY DEF Mark
<1>3. x.count12 = Cardinality(S)
  BY <1>1, <1>2 DEF Paced, Tally, Times
<1> QED
  BY <1>3

(* NotStuck, from the invariant.                                           *)
LEMMA HoldsNotStuck ==
    ASSUME NEW K, K.plain, Holds(K)
    PROVE  NotStuck
<1> SUFFICES ASSUME NEW c \in DOMAIN db.ctx, db.ctx[c].sock,
                    NEW i \in DOMAIN db.ctx[c].msgs, db.ctx[c].msgs[i].state = "queued"
             PROVE  \E j \in DOMAIN db.ctx[c].msgs : db.ctx[c].msgs[j].state # "queued"
  BY DEF NotStuck
<1> DEFINE x == db.ctx[c]
<1>1. Paced(x)
  <2>1. Role(x)
    BY DEF Holds, Managed
  <2>2. CASE x.state = "new"
    BY <2>1, <2>2 DEF Role
  <2>3. CASE x.state = "connected"
    BY <2>1, <2>3 DEF Holds, Managed, Role
  <2> QED
    BY <2>1, <2>2, <2>3 DEF Role
<1>2. i # 1 /\ Flows(x.msgs)
  BY <1>1 DEF Paced, Flows
<1>3. DOMAIN x.msgs = 1..Len(x.msgs) /\ Len(x.msgs) \in Nat
  <2>1. Sound(db, Nobody, K.leaks)
    BY DEF Holds, Managed
  <2>2. Listed(x.msgs)
    BY <2>1, QueueOf
  <2> QED
    BY <2>2, ListedDomain
<1>4. 1 \in DOMAIN x.msgs
  BY <1>2, <1>3
<1>5. x.msgs[1].state # "queued"
  BY <1>2, <1>4 DEF Flows
<1> QED
  BY <1>4, <1>5

(* References adds up the queues one by one.                               *)
AddUp(p, n, c) == n + Cardinality({i \in DOMAIN p.ctx[c].msgs : p.ctx[c].msgs[i].store = p.s})
(* ... and what is known after some of them.                               *)
AddedUp(p, done, n) == IsFiniteSet(Places(p.Q, done, p.s)) /\ n = Cardinality(Places(p.Q, done, p.s))
(* The induction over the queues.                                          *)
Adding == INSTANCE FoldInduction WITH Op <- AddUp, Inv <- AddedUp
(* The first half of References.                                           *)
Referring(s) ==
    FoldSet(LAMBDA c, n : n + Cardinality({i \in DOMAIN db.ctx[c].msgs : db.ctx[c].msgs[i].store = s}),
            0, DOMAIN db.ctx)

(* It counts what the queues hold.                                         *)
LEMMA HoldsReferring ==
    ASSUME NEW K, Holds(K), NEW s
    PROVE  Referring(s) = Held(Queues(db), s)
<1> DEFINE Q == Queues(db)
           ctx == db.ctx
           C == DOMAIN db.ctx
           p == [ctx |-> db.ctx, s |-> s, Q |-> Q]
<1>1. Queued(Q) /\ DOMAIN Q = C
  BY DEF Holds, Managed, Sound, Queues
<1>2. IsFiniteSet(C) /\ \A c \in C : Listed(Q[c]) /\ Q[c] = ctx[c].msgs
  BY <1>1 DEF Queued, Queue, Queues
<1>3. p.ctx = ctx /\ p.s = s /\ p.Q = Q
  OBVIOUS
<1>9. Adding!OfSet(p, 0, C) = Referring(s)
  BY DEF Adding!OfSet, AddUp, Referring, FoldSet, MapThenFoldSet
<1> HIDE DEF Q, p, ctx, C
<1>4. AddedUp(p, {}, 0)
  <2>1. Places(Q, {}, s) = {}
    BY DEF Places
  <2> QED
    BY <1>3, <2>1, FS_EmptySet DEF AddedUp
<1>5. ASSUME NEW done \in SUBSET C, NEW c \in C \ done, NEW n, AddedUp(p, done, n)
      PROVE  AddedUp(p, done \cup {c}, AddUp(p, n, c))
  <2> DEFINE k == Cardinality({i \in DOMAIN ctx[c].msgs : ctx[c].msgs[i].store = s})
             A == Places(Q, done, s)
             B == Places(Q, {c}, s)
  <2>1. Places(Q, done \cup {c}, s) = A \cup B /\ A \cap B = {}
    BY DEF Places
  <2>2. IsFiniteSet(B) /\ Cardinality(B) = Times(Stores(Q[c]), s)
    BY <1>2, PlacesOne
  <2>3. {i \in DOMAIN ctx[c].msgs : ctx[c].msgs[i].store = s}
        = {i \in DOMAIN Stores(Q[c]) : Stores(Q[c])[i] = s}
    BY <1>2 DEF Stores
  <2>4. Cardinality(B) = k
    BY <2>2, <2>3 DEF Times
  <2>5. IsFiniteSet(A) /\ n = Cardinality(A)
    BY <1>3, <1>5 DEF AddedUp
  <2>6. AddUp(p, n, c) = n + k
    BY <1>3 DEF AddUp
  <2> HIDE DEF A, B, k
  <2>7. IsFiniteSet(A \cup B) /\ Cardinality(A \cup B) = n + k
    BY <2>1, <2>2, <2>4, <2>5, DisjointSize
  <2> QED
    BY <1>3, <2>1, <2>6, <2>7 DEF AddedUp
<1>6. AddedUp(p, C, Adding!OfSet(p, 0, C))
  <2>1. Numbered(C)
    BY <1>2, FiniteNumbered
  <2> QED
    BY <1>4, <1>5, <2>1, Adding!SetInduction DEF Numbered
<1>7. Referring(s) = Cardinality(Places(Q, C, s))
  BY <1>3, <1>6, <1>9 DEF AddedUp
<1> QED
  BY <1>1, <1>7 DEF Held, Q

(* The second half is a number, positive for a retained message.           *)
LEMMA PinnedNat ==
    ASSUME NEW K, Holds(K), NEW s
    PROVE  /\ Pinned(db.retained, s) \in Nat
           /\ \A p \in DOMAIN db.retained : db.retained[p] = s => Pinned(db.retained, s) > 0
<1> DEFINE P == {p \in DOMAIN db.retained : db.retained[p] = s}
<1>1. IsFiniteSet(DOMAIN db.retained)
  BY ZenonT(60), RangeFinite DEF Holds, Managed, Sound, Wooded
<1>2. IsFiniteSet(P)
  BY <1>1, FS_Subset
<1> HIDE DEF P
<1>3. Cardinality(P) \in Nat /\ (Cardinality(P) = 0 <=> P = {})
  BY <1>2, FS_CardinalityType, FS_EmptySet
<1>4. Pinned(db.retained, s) = Cardinality(P)
  BY DEF Pinned, P
<1>5. Pinned(db.retained, s) \in Nat
  BY <1>3, <1>4
<1>6. ASSUME NEW p \in DOMAIN db.retained, db.retained[p] = s PROVE Pinned(db.retained, s) > 0
  <2>1. P # {}
    BY <1>6 DEF P
  <2>2. Cardinality(P) > 0
    BY <1>3, <2>1
  <2> QED
    BY <1>4, <2>2
<1> QED
  BY <1>5, <1>6

(* RefCounted and RefExact, from the invariant.                            *)
LEMMA HoldsRefCounted ==
    ASSUME NEW K, Holds(K)
    PROVE  /\ RefCounted
           /\ \A s \in DOMAIN db.store : s \notin K.leaks => db.store[s].ref > 0
<1> SUFFICES ASSUME NEW s \in DOMAIN db.store
             PROVE  db.store[s].ref = References(s) /\ (s \notin K.leaks => db.store[s].ref > 0)
  BY DEF RefCounted
<1> DEFINE T == Refs(db, Nobody)
<1>1. Stocked(db.store, db.last_db_id, T, K.leaks)
  BY DEF Holds, Managed, Sound
<1>3. T = [n \in Nat |-> Held(Queues(db), n) + Pinned(db.retained, n) + Nobody[n]]
  BY DEF Refs
<1> HIDE DEF T
<1>4. /\ s \in Nat \ {0} /\ db.store[s].ref \in Nat
      /\ s \notin K.leaks => db.store[s].ref > 0
      /\ db.store[s].ref = T[s]
  <2>1. /\ db.last_db_id \in Nat /\ DOMAIN db.store \subseteq 1..db.last_db_id
        /\ StoredMsg(db.store[s])
        /\ s \notin K.leaks => db.store[s].ref > 0
    BY <1>1 DEF Stocked
  <2>2. s \in Nat \ {0}
    <3>1. s \in 1..db.last_db_id
      BY <2>1
    <3> QED
      BY <2>1, <3>1
  <2>3. Ref(db.store, s) = T[s] /\ Ref(db.store, s) = db.store[s].ref
    BY <1>1, <2>2 DEF Stocked, Ref
  <2> QED
    BY <2>1, <2>2, <2>3 DEF StoredMsg
<1>5. References(s) = Referring(s) + Pinned(db.retained, s)
  BY DEF References, Referring, Pinned
<1>6. Referring(s) = Held(Queues(db), s)
  BY HoldsReferring
<1>7. Held(Queues(db), s) \in Nat
  BY ZenonT(60), HeldNat DEF Holds, Managed, Sound
<1>8. Pinned(db.retained, s) \in Nat
  BY PinnedNat
<1>9. T[s] = Held(Queues(db), s) + Pinned(db.retained, s) + 0
  BY <1>3, <1>4 DEF Nobody
<1> QED
  BY <1>4, <1>5, <1>6, <1>7, <1>8, <1>9

(* A message that is referred to is stored.                                *)
LEMMA ReferredStored ==
    ASSUME NEW K, Holds(K), NEW s \in Nat \ {0}, Held(Queues(db), s) > 0 \/ Pinned(db.retained, s) > 0
    PROVE  s \in DOMAIN db.store
<1> DEFINE T == Refs(db, Nobody)
           h == Held(Queues(db), s)
           r == Pinned(db.retained, s)
<1>1. Ref(db.store, s) = T[s]
  BY DEF Holds, Managed, Sound, Stocked
<1>2. T[s] = h + r + Nobody[s] /\ Nobody[s] = 0
  BY DEF Refs, Nobody
<1>3. h \in Nat /\ r \in Nat
  BY ZenonT(60), HeldNat, PinnedNat DEF Holds, Managed, Sound
<1> HIDE DEF T, h, r
<1>4. h > 0 \/ r > 0
  BY DEF h, r
<1>5. T[s] > 0
  BY <1>2, <1>3, <1>4
<1>6. Ref(db.store, s) # 0
  BY <1>1, <1>2, <1>3, <1>5
<1> QED
  BY <1>6 DEF Ref

(* TypeOK, from the invariant.                                             *)
LEMMA HoldsTypeOK ==
    ASSUME NEW K, Fit(K), Holds(K)
    PROVE  TypeOK
<1>1. Managed(K, db) /\ Sound(db, Nobody, K.leaks)
  BY DEF Holds, Managed
<1>2. \A c \in DOMAIN db.ctx : c \in Conns /\ db.ctx[c].id \in Clients \cup {NoId}
  BY <1>1 DEF Managed, Fit
<1>3. \A p \in DOMAIN db.subs : \A i \in DOMAIN db.subs[p] : db.subs[p][i].ctx \in DOMAIN db.ctx
  BY <1>1 DEF Sound, Leafy, Lists
<1>4. ASSUME NEW c \in DOMAIN db.ctx, NEW i \in DOMAIN db.ctx[c].msgs
      PROVE  db.ctx[c].msgs[i].store \in DOMAIN db.store
  <2> DEFINE Q == Queues(db)
             s == db.ctx[c].msgs[i].store
  <2>1. Queued(Q) /\ c \in DOMAIN Q /\ i \in DOMAIN Q[c] /\ Q[c][i].store = s
    BY <1>1 DEF Sound, Queues
  <2> HIDE DEF Q, s
  <2>2. Held(Q, s) > 0
    BY <2>1, HeldNat
  <2>3. s \in Nat \ {0}
    BY <2>1 DEF Queued, Queue, Message
  <2> QED
    BY <2>2, <2>3, ReferredStored DEF Q, s
<1>5. ASSUME NEW p \in DOMAIN db.retained
      PROVE  db.retained[p] \in DOMAIN db.store \cup {0}
  <2>1. db.retained[p] \in Nat
    BY <1>1 DEF Sound, Wooded
  <2>2. CASE db.retained[p] # 0
    <3>1. Pinned(db.retained, db.retained[p]) > 0
      BY PinnedNat
    <3> QED
      BY <2>1, <2>2, <3>1, ReferredStored
  <2> QED
    BY <2>2
<1>6. db.disused \subseteq DOMAIN db.ctx
  BY <1>1 DEF Managed
<1> QED
  BY <1>2, <1>3, <1>4, <1>5, <1>6 DEF TypeOK

(* The parts refer to each other: leaves of the tree to contexts, messages *)
(* in queues and retained messages to stored ones, contexts to clients.    *)
THEOREM PartsTyped == Spec => []TypeOK
<1>1. Holds(World) => TypeOK
  BY WorldIs, HoldsTypeOK
<1> QED
  BY <1>1, SystemHolds, PTL

(* The count of a stored message is the number of messages in queues and   *)
(* of retained messages that point to it, whatever the limits of the       *)
(* queues are: none is freed while somebody points to it.                  *)
THEOREM ReferencesCounted == Spec => []RefCounted
<1>1. Holds(World) => RefCounted
  BY HoldsRefCounted
<1> QED
  BY <1>1, SystemHolds, PTL

(* Nor is one kept that nobody points to, unless both limits are set:      *)
(* mqtt3_db_message_insert may then drop a QoS 2 message of a publisher    *)
(* that mqtt3_handle_publish has stored already.                           *)
THEOREM ReferencesExact == (max_queued = 0 \/ max_inflight = 0) => (Spec => []RefExact)
<1> SUFFICES ASSUME max_queued = 0 \/ max_inflight = 0 PROVE Spec => []RefExact
  OBVIOUS
<1>1. Holds(World) => RefExact
  <2>1. World.leaks = {}
    BY WorldIs DEF Leaks
  <2> QED
    BY <2>1, HoldsRefCounted DEF RefExact
<1> QED
  BY <1>1, SystemHolds, PTL

(* msg_count12, which the limits are compared with, is the number of       *)
(* messages with QoS 1 or 2 in the queue.  An acl file breaks this: a      *)
(* CONNECT takes forbidden messages out of the queue uncounted.            *)
THEOREM CountsExact == Plain => (Spec => []CountExact)
<1> SUFFICES ASSUME Plain PROVE Spec => []CountExact
  OBVIOUS
<1>1. Holds(World) => CountExact
  BY WorldIs, HoldsCountExact
<1> QED
  BY <1>1, SystemHolds, PTL

(* While messages of a connected client wait in its queue, one of them is  *)
(* under way, and its answer or its retry moves the queue on: the limits   *)
(* never leave everything waiting for everything.                          *)
THEOREM NeverStuck == Plain => (Spec => []NotStuck)
<1> SUFFICES ASSUME Plain PROVE Spec => []NotStuck
  OBVIOUS
<1>1. Holds(World) => NotStuck
  BY WorldIs, HoldsNotStuck
<1> QED
  BY <1>1, SystemHolds, PTL

(* The tree and the lists of the clients agree, whatever take-overs,       *)
(* disconnects and clean-ups have happened in between (subs.c, context.c). *)
THEOREM TreesExact == Spec => []TreeExact
<1>1. Holds(World) => TreeExact
  BY HoldsTreeExact
<1> QED
  BY <1>1, SystemHolds, PTL

(* A second connection with the same client id takes the session over      *)
(* (mqtt3_handle_connect): no two contexts have one id.                    *)
THEOREM OneContextEach == Spec => []OneContext
<1>1. Holds(World) => OneContext
  BY HoldsOneContext
<1> QED
  BY <1>1, SystemHolds, PTL
=============================================================================
