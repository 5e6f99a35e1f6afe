------------------------- MODULE MqttDispatchProofs -------------------------
(* Proofs about MqttDispatch: its types, and that the daemon does not take *)
(* its own words for commands.                                             *)
EXTENDS MqttDispatch, SequenceTheorems, TLAPS

-----------------------------------------------------------------------------
(* Sequences whose elements have a property: here the deliveries in inbox  *)
(* and retained, and the frames sent.                                      *)

\* A delivery that is the daemon's own carries the daemon's QoS and, with
\* separate directions, does not begin with mosi.  It is about one of Nodes,
\* or a notice below device, which is no module.
Marked(o, d) ==
    /\ d.mid \in 0..2 /\ d.own \in BOOLEAN
    /\ d.own => d.mid = o.qos /\ (o.sepio => Level(d.topic, 1) # "mosi")
    /\ \/ d.topic.addr \in Nodes
       \/ Level(d.topic, 1) = IF o.sepio THEN "miso" ELSE "device"

AllMarked(o, q) == \E S : q \in Seq(S) /\ \A d \in S : Marked(o, d)

Protected(o) == o.qos # 0 \/ o.sepio

Foreign(q) == \E S : q \in Seq(S) /\ \A m \in S : ~m.by.own

LEMMA MarkedAppend ==
    ASSUME NEW o, NEW q, NEW d, AllMarked(o, q), Marked(o, d)
    PROVE  AllMarked(o, Append(q, d))
<1>1. PICK S : q \in Seq(S) /\ \A x \in S : Marked(o, x)
  BY DEF AllMarked
<1> DEFINE U == S \cup {d}
<1>2. \A x \in U : Marked(o, x)
  BY <1>1
<1>3. q \in Seq(U) /\ d \in U
  <2>1. Len(q) \in Nat /\ q \in [1 .. Len(q) -> S]
    BY <1>1, LenProperties
  <2>2. q \in [1 .. Len(q) -> U]
    BY <2>1
  <2> QED
    BY <2>1, <2>2, SeqDef
<1>4. Append(q, d) \in Seq(U)
  <2> HIDE DEF U
  <2> QED
    BY <1>3, AppendProperties
<1> HIDE DEF U
<1> QED
  BY <1>2, <1>4 DEF AllMarked

LEMMA MarkedTail ==
    ASSUME NEW o, NEW q, AllMarked(o, q), q # <<>>
    PROVE  AllMarked(o, Tail(q)) /\ Marked(o, Head(q))
<1>1. PICK S : q \in Seq(S) /\ \A x \in S : Marked(o, x)
  BY DEF AllMarked
<1>2. Tail(q) \in Seq(S) /\ Head(q) \in S
  BY <1>1, HeadTailProperties
<1> QED
  BY <1>1, <1>2 DEF AllMarked

LEMMA MarkedIs ==
    ASSUME NEW o, NEW q, AllMarked(o, q)
    PROVE  \A k \in DOMAIN q : Marked(o, q[k])
<1>1. PICK S : q \in Seq(S) /\ \A x \in S : Marked(o, x)
  BY DEF AllMarked
<1>2. ASSUME NEW k \in DOMAIN q PROVE q[k] \in S
  BY <1>1, <1>2, LenProperties, ElementOfSeq
<1> QED
  BY <1>1, <1>2

LEMMA MarkedEmpty == \A o : AllMarked(o, <<>>)
<1> SUFFICES ASSUME NEW o PROVE AllMarked(o, <<>>)
  OBVIOUS
<1> DEFINE S == {}
<1>1. <<>> \in Seq(S) /\ \A d \in S : Marked(o, d)
  BY EmptySeq
<1> HIDE DEF S
<1> QED
  BY <1>1 DEF AllMarked

LEMMA ForeignAppend ==
    ASSUME NEW q, NEW m, Foreign(q), ~m.by.own
    PROVE  Foreign(Append(q, m))
<1>1. PICK S : q \in Seq(S) /\ \A x \in S : ~x.by.own
  BY DEF Foreign
<1> DEFINE U == S \cup {m}
<1>2. \A x \in U : ~x.by.own
  BY <1>1
<1>3. q \in Seq(U) /\ m \in U
  <2>1. Len(q) \in Nat /\ q \in [1 .. Len(q) -> S]
    BY <1>1, LenProperties
  <2>2. q \in [1 .. Len(q) -> U]
    BY <2>1
  <2> QED
    BY <2>1, <2>2, SeqDef
<1>4. Append(q, m) \in Seq(U)
  <2> HIDE DEF U
  <2> QED
    BY <1>3, AppendProperties
<1> HIDE DEF U
<1> QED
  BY <1>2, <1>4 DEF Foreign

LEMMA ForeignIs ==
    ASSUME NEW q, Foreign(q)
    PROVE  \A k \in DOMAIN q : ~q[k].by.own
<1>1. PICK S : q \in Seq(S) /\ \A x \in S : ~x.by.own
  BY DEF Foreign
<1>2. ASSUME NEW k \in DOMAIN q PROVE q[k] \in S
  BY <1>1, <1>2, LenProperties, ElementOfSeq
<1> QED
  BY <1>1, <1>2

\* Every frame in q went to a node in K or was broadcast.
ToKnown(K, q) == \E S : q \in Seq(S) /\ \A m \in S : m.to \in K \cup {-1}

LEMMA ToKnownAppend ==
    ASSUME NEW K, NEW L, K \subseteq L, NEW q, NEW m, ToKnown(K, q), m.to \in L \cup {-1}
    PROVE  ToKnown(L, Append(q, m))
<1>1. PICK S : q \in Seq(S) /\ \A x \in S : x.to \in K \cup {-1}
  BY DEF ToKnown
<1> DEFINE U == S \cup {m}
<1>2. \A x \in U : x.to \in L \cup {-1}
  BY <1>1
<1>3. q \in Seq(U) /\ m \in U
  <2>1. Len(q) \in Nat /\ q \in [1 .. Len(q) -> S]
    BY <1>1, LenProperties
  <2>2. q \in [1 .. Len(q) -> U]
    BY <2>1
  <2> QED
    BY <2>1, <2>2, SeqDef
<1>4. Append(q, m) \in Seq(U)
  <2> HIDE DEF U
  <2> QED
    BY <1>3, AppendProperties
<1> HIDE DEF U
<1> QED
  BY <1>2, <1>4 DEF ToKnown

LEMMA ToKnownGrows ==
    ASSUME NEW K, NEW L, K \subseteq L, NEW q, ToKnown(K, q)
    PROVE  ToKnown(L, q)
BY DEF ToKnown

LEMMA ToKnownIs ==
    ASSUME NEW K, NEW q, ToKnown(K, q)
    PROVE  \A k \in DOMAIN q : q[k].to \in K \cup {-1}
<1>1. PICK S : q \in Seq(S) /\ \A x \in S : x.to \in K \cup {-1}
  BY DEF ToKnown
<1>2. ASSUME NEW k \in DOMAIN q PROVE q[k] \in S
  BY <1>1, <1>2, LenProperties, ElementOfSeq
<1> QED
  BY <1>1, <1>2

\* The empty name is none of a module, nor is that of the notices.
LEMMA NoModule == "" \notin HasCommand /\ "device" \notin HasCommand
BY DEF HasCommand, ModuleId

-----------------------------------------------------------------------------
\* A command of a module is only taken from a delivery that the filters let
\* through: no mid, and mosi with separate directions.
LEMMA Filtered ==
    ASSUME NEW d, NEW frame \in convert_from(AddressedModule(d), d.c)
    PROVE  d.mid = 0 /\ (opts.sepio => Level(d.topic, 1) = "mosi")
<1>1. AddressedModule(d) \in HasCommand
  BY DEF convert_from
<1>2. AddressedModule(d) # ""
  BY <1>1, NoModule
<1> QED
  BY <1>2 DEF AddressedModule

LEMMA FilteredForeign ==
    ASSUME Protected(opts), NEW d, Marked(opts, d),
           NEW frame \in convert_from(AddressedModule(d), d.c)
    PROVE  ~d.own
<1>1. d.mid = 0 /\ (opts.sepio => Level(d.topic, 1) = "mosi")
  BY Filtered
<1> QED
  BY <1>1 DEF Protected, Marked

\* What is taken for a command is about one of Nodes.
LEMMA FilteredNode ==
    ASSUME NEW d, Marked(opts, d), NEW frame \in convert_from(AddressedModule(d), d.c)
    PROVE  d.topic.addr \in Nodes
<1>1. AddressedModule(d) \in HasCommand
  BY DEF convert_from
<1>2. AddressedModule(d) # "" /\ AddressedModule(d) # "device"
  BY <1>1, NoModule
<1>3. opts.sepio => Level(d.topic, 1) = "mosi"
  BY Filtered
<1> QED
  BY <1>2, <1>3 DEF AddressedModule, Marked

\* The topic of a publication with separate directions begins with miso.
LEMMA MisoFirst ==
    ASSUME NEW third, NEW addr, NEW L, NEW levels \in Seq(L)
    PROVE  Level(Topic(third, addr, <<"miso">> \o levels), 1) = "miso"
<1> DEFINE rest == <<"miso">> \o levels
<1>1. rest[1] = "miso" /\ 1 <= Len(rest)
  <2> DEFINE M == L \cup {"miso"}
  <2>1. <<"miso">> \in Seq(M) /\ levels \in Seq(M)
    <3>1. Len(levels) \in Nat /\ levels \in [1 .. Len(levels) -> L]
      BY LenProperties
    <3>2. levels \in [1 .. Len(levels) -> M]
      BY <3>1
    <3> QED
      BY <3>1, <3>2, SeqDef
  <2> HIDE DEF M
  <2> QED
    BY <2>1, ConcatProperties
<1> HIDE DEF rest
<1> QED
  BY <1>1 DEF Level, Topic, rest

\* The levels of a JOIN's topics are sequences (mqtt.c:444 and 550).
LEMMA JoinLevels ==
    \A levels \in {<<"device">>, <<"list", "">>} : \E L : levels \in Seq(L)
<1>1. <<"device">> \in Seq({"device"})
  OBVIOUS
<1>2. <<"list", "">> \in Seq({"list", ""})
  OBVIOUS
<1> QED
  BY <1>1, <1>2, Zenon

LEMMA PublishMarked ==
    ASSUME NEW queue, AllMarked(opts, queue), AllMarked(opts, retained),
           opts \in Options,
           NEW addr, NEW L, NEW levels \in Seq(L), NEW msg, NEW truth,
           addr \in Nodes \/ levels = <<"device">>,
           publish_mqtt_message(queue, addr, levels, msg, truth)
    PROVE  AllMarked(opts, inbox') /\ AllMarked(opts, retained')
<1> DEFINE rest == IF opts.sepio THEN <<"miso">> \o levels ELSE levels
           d    == Delivery(Topic("addr", addr, rest), JsonText, opts.qos, TRUE)
<1>1. inbox' = Delivered(queue, d)
      /\ retained' = IF opts.retain /\ conn # "down" THEN Append(retained, d) ELSE retained
  BY DEF publish_mqtt_message
<1>2. Marked(opts, d)
  <2>1. opts.sepio => Level(Topic("addr", addr, rest), 1) = "miso"
    BY MisoFirst
  <2>2. ~opts.sepio /\ levels = <<"device">> => Level(Topic("addr", addr, rest), 1) = "device"
    BY DEF Level, Topic
  <2>3. opts.qos \in 0..2
    BY DispatchAssumption
  <2>4. Topic("addr", addr, rest).addr = addr
    BY DEF Topic
  <2> HIDE DEF rest
  <2> QED
    BY <2>1, <2>2, <2>3, <2>4 DEF Marked, Delivery
<1> HIDE DEF d
<1> QED
  BY <1>1, <1>2, MarkedAppend DEF Delivered

EchoInv ==
    /\ opts \in Options
    /\ AllMarked(opts, inbox) /\ AllMarked(opts, retained)
    /\ Protected(opts) => Foreign(sent)

LEMMA EchoInit == Init => EchoInv
<1> SUFFICES ASSUME Init PROVE EchoInv
  OBVIOUS
<1> DEFINE S == {}
<1>1. <<>> \in Seq(S) /\ \A m \in S : ~m.by.own
  BY EmptySeq
<1>2. Foreign(<<>>)
  <2> HIDE DEF S
  <2> QED
    BY <1>1 DEF Foreign
<1> QED
  BY <1>2, MarkedEmpty DEF Init, EchoInv

LEMMA EchoStep == ASSUME EchoInv, [Next]_vars PROVE EchoInv'
<1>0. opts \in Options /\ AllMarked(opts, inbox) /\ AllMarked(opts, retained) /\ (Protected(opts) => Foreign(sent))
  BY DEF EchoInv
<1> DEFINE Goal(o) == /\ AllMarked(o, inbox') /\ AllMarked(o, retained')
                      /\ Protected(o) => Foreign(sent')
<1>1. ASSUME UNCHANGED opts, Goal(opts) PROVE EchoInv'
  BY <1>0, <1>1 DEF EchoInv
<1>2. inbox # <<>> => AllMarked(opts, Tail(inbox)) /\ Marked(opts, Head(inbox))
  BY <1>0, MarkedTail
<1>3. CASE ClientPublish
  <2>1. PICK cmd \in Commands, n \in Nodes :
          inbox' = Delivered(inbox, Delivery(
                       Topic(cmd.route.third, n, Append(cmd.route.path, cmd.type)),
                       cmd.c, cmd.route.qos, FALSE))
    BY <1>3 DEF ClientPublish
  <2> DEFINE d == Delivery(Topic(cmd.route.third, n, Append(cmd.route.path, cmd.type)),
                           cmd.c, cmd.route.qos, FALSE)
  <2>2. Marked(opts, d)
    BY DispatchAssumption DEF Marked, Delivery, Topic
  <2>3. AllMarked(opts, inbox')
    <3> HIDE DEF d
    <3> QED
      BY <1>0, <2>1, <2>2, MarkedAppend DEF Delivered, d
  <2> QED
    BY <1>0, <1>1, <1>3, <2>3 DEF ClientPublish
<1>4. CASE CallbackIgnores
  BY <1>0, <1>1, <1>2, <1>4 DEF CallbackIgnores
<1>5. ASSUME NEW frame \in convert_from(AddressedModule(Head(inbox)), Head(inbox).c), NEW to,
             inbox # <<>>,
             sent' = Append(sent, [frame |-> frame, to |-> to, by |-> Head(inbox)])
      PROVE  Protected(opts) => Foreign(sent')
  <2> DEFINE m == [frame |-> frame, to |-> to, by |-> Head(inbox)]
  <2>1. Protected(opts) => ~Head(inbox).own
    BY <1>2, <1>5, FilteredForeign
  <2>2. m.by = Head(inbox)
    OBVIOUS
  <2> HIDE DEF m
  <2> QED
    BY <1>0, <1>5, <2>1, <2>2, ForeignAppend DEF m
<1>6. CASE CallbackBroadcast
  <2>1. Protected(opts) => Foreign(sent')
    BY <1>5, <1>6 DEF CallbackBroadcast
  <2> QED
    BY <1>0, <1>1, <1>2, <1>6, <2>1 DEF CallbackBroadcast
<1>7. CASE CallbackSends
  <2>1. Protected(opts) => Foreign(sent')
    BY <1>5, <1>7 DEF CallbackSends
  <2> QED
    BY <1>0, <1>1, <1>2, <1>7, <2>1 DEF CallbackSends
<1>8. CASE CallbackInvites
  <2> DEFINE d == Head(inbox)
             n == NodeId(d.topic.addr)
             pairs == <<<<"sent", Plain(2)>>, <<"message", Text("node not in the network")>>>>
  <2>1. /\ inbox # <<>> /\ UNCHANGED opts
        /\ \E frame \in convert_from(AddressedModule(d), d.c) :
              sent' = Append(sent, [frame |-> frame, to |-> n, by |-> d])
        /\ publish_mqtt_message(Tail(inbox), Hex(n, 1), <<"device">>,
                                build_mqtt_message(pairs), <<>>)
    BY <1>8 DEF CallbackInvites
  <2>2. Protected(opts) => Foreign(sent')
    BY <1>5, <2>1
  <2>3. <<"device">> \in Seq({"device"})
    OBVIOUS
  <2>4. AllMarked(opts, inbox') /\ AllMarked(opts, retained')
    BY <1>0, <1>2, <2>1, <2>3, PublishMarked
  <2> QED
    BY <1>1, <2>1, <2>2, <2>4
<1>9. CASE ServeInd
  <2>1. PICK r \in Readings, n \in Nodes :
          LET conv == convert_to(ModuleId[r.type], r.data)
          IN IF conv.pairs = Refused
             THEN UNCHANGED <<published, inbox, retained>>
             ELSE publish_mqtt_message(inbox, n, <<conv.topic>>,
                        build_mqtt_message(Added(conv.pairs)), r.truth)
    BY <1>9 DEF ServeInd
  <2> DEFINE conv == convert_to(ModuleId[r.type], r.data)
  <2>2. <<conv.topic>> \in Seq({conv.topic})
    OBVIOUS
  <2>3. AllMarked(opts, inbox') /\ AllMarked(opts, retained')
    BY <1>0, <2>1, <2>2, PublishMarked
  <2> QED
    BY <1>0, <1>1, <1>9, <2>3 DEF ServeInd
<1>10. CASE ServeJoin
  <2>1. PICK n \in Nodes, levels \in {<<"device">>, <<"list", "">>} :
          publish_mqtt_message(inbox, n, levels, build_mqtt_message(
                 <<<<"joined", Plain(1)>>, <<"class", Text("A")>>>>), <<>>)
    BY <1>10 DEF ServeJoin
  <2>2. \E L : levels \in Seq(L)
    BY JoinLevels, Zenon
  <2>3. AllMarked(opts, inbox') /\ AllMarked(opts, retained')
    BY <1>0, <2>1, <2>2, PublishMarked
  <2> QED
    BY <1>0, <1>1, <1>10, <2>3 DEF ServeJoin
<1>11. CASE Subscribe
  BY <1>0, <1>1, <1>11 DEF Subscribe
<1>12. CASE Outage
  BY <1>0, <1>1, <1>12, MarkedEmpty DEF Outage
<1>13. CASE Reconnect \/ UNCHANGED vars
  BY <1>0, <1>1, <1>13 DEF Reconnect, vars
<1> QED
  BY <1>3, <1>4, <1>6, <1>7, <1>8, <1>9, <1>10, <1>11, <1>12, <1>13 DEF Next

\* With a QoS other than 0 or with separate directions the daemon never takes
\* one of its own publications for a command, whatever module, reading,
\* retained message or reconnection brings it back (mqtt.c:1057-1061).
THEOREM OwnIgnored == Spec => []NoEcho
<1>1. EchoInv => NoEcho
  BY ForeignIs DEF EchoInv, NoEcho, Protected
<1> QED
  BY <1>1, EchoInit, EchoStep, PTL DEF Spec

-----------------------------------------------------------------------------
(* Types: what goes to a mote goes to one the pool has a record of.        *)

TypeInv ==
    /\ conn \in {"down", "up", "subscribed"}
    /\ known \subseteq {NodeId(n) : n \in Nodes}
    /\ ToKnown(known, sent)

LEMMA InitTypeInv == Init => TypeInv
<1> SUFFICES ASSUME Init PROVE TypeInv
  OBVIOUS
<1> DEFINE S == {}
<1>1. <<>> \in Seq(S) /\ \A m \in S : m.to \in {} \cup {-1}
  BY EmptySeq
<1>2. ToKnown({}, <<>>)
  <2> HIDE DEF S
  <2> QED
    BY <1>1 DEF ToKnown
<1> QED
  BY <1>2 DEF Init, TypeInv

LEMMA NextTypeInv == ASSUME EchoInv, TypeInv, [Next]_vars PROVE TypeInv'
<1>0. /\ conn \in {"down", "up", "subscribed"} /\ known \subseteq {NodeId(n) : n \in Nodes}
      /\ ToKnown(known, sent)
  BY DEF TypeInv
<1>1. inbox # <<>> => Marked(opts, Head(inbox))
  BY MarkedTail DEF EchoInv
<1>2. ASSUME NEW frame, NEW to, NEW by, NEW K, known \subseteq K, to \in K \cup {-1},
             sent' = Append(sent, [frame |-> frame, to |-> to, by |-> by])
      PROVE  ToKnown(K, sent')
  <2> DEFINE m == [frame |-> frame, to |-> to, by |-> by]
  <2>1. m.to \in K \cup {-1}
    BY <1>2
  <2> HIDE DEF m
  <2> QED
    BY <1>0, <1>2, <2>1, ToKnownAppend DEF m
<1>3. CASE CallbackBroadcast
  <2>1. ToKnown(known, sent')
    BY <1>2, <1>3 DEF CallbackBroadcast
  <2> QED
    BY <1>0, <1>3, <2>1 DEF CallbackBroadcast, TypeInv
<1>4. CASE CallbackSends
  <2>1. ToKnown(known, sent')
    BY <1>2, <1>4 DEF CallbackSends, InPool
  <2> QED
    BY <1>0, <1>4, <2>1 DEF CallbackSends, TypeInv
<1>5. CASE CallbackInvites
  <2> DEFINE d == Head(inbox)
             n == NodeId(d.topic.addr)
  <2>1. /\ inbox # <<>> /\ UNCHANGED conn /\ known' = known \cup {n}
        /\ \E frame \in convert_from(AddressedModule(d), d.c) :
              sent' = Append(sent, [frame |-> frame, to |-> n, by |-> d])
    BY <1>5 DEF CallbackInvites
  <2>2. d.topic.addr \in Nodes
    BY <1>1, <2>1, FilteredNode
  <2>3. known' \subseteq {NodeId(x) : x \in Nodes}
    BY <1>0, <2>1, <2>2
  <2> HIDE DEF n
  <2>4. ToKnown(known', sent')
    BY <1>2, <2>1
  <2> QED
    BY <1>0, <2>1, <2>3, <2>4 DEF TypeInv
<1>6. CASE ServeJoin
  <2>1. UNCHANGED <<conn, sent>> /\ \E n \in Nodes : known' = known \cup {NodeId(n)}
    BY <1>6 DEF ServeJoin
  <2>2. ToKnown(known', sent')
    BY <1>0, <2>1, ToKnownGrows
  <2> QED
    BY <1>0, <2>1, <2>2 DEF TypeInv
<1>7. CASE ClientPublish \/ CallbackIgnores \/ ServeInd \/ UNCHANGED vars
  BY <1>0, <1>7 DEF ClientPublish, CallbackIgnores, ServeInd, vars, TypeInv
<1>8. CASE Subscribe \/ Outage \/ Reconnect
  BY <1>0, <1>8 DEF Subscribe, Outage, Reconnect, TypeInv
<1> QED
  BY <1>3, <1>4, <1>5, <1>6, <1>7, <1>8 DEF Next

\* What waits for the daemon is well formed, the pool has records of real
\* nodes only, and a frame goes to a node that has one: message_to_mote adds
\* the node it does not find before the frame is queued, whoever is addressed
\* and whatever its own notices bring back (mqtt.c:985-1042, 1093-1142).
THEOREM DispatchTyped == Spec => []TypeOK
<1>1. EchoInv /\ TypeInv => TypeOK
  <2> SUFFICES ASSUME EchoInv, TypeInv PROVE TypeOK
    OBVIOUS
  <2>1. \A k \in DOMAIN inbox : inbox[k].mid \in 0..2 /\ inbox[k].own \in BOOLEAN
    BY MarkedIs DEF EchoInv, Marked
  <2>2. \A k \in DOMAIN sent : sent[k].to \in known \cup {-1}
    BY ToKnownIs DEF TypeInv
  <2> QED
    BY <2>1, <2>2 DEF EchoInv, TypeInv, TypeOK
<1> QED
  BY <1>1, EchoInit, InitTypeInv, EchoStep, NextTypeInv, PTL DEF Spec
=============================================================================
