---------------------------- MODULE MCMqttSystem ----------------------------
EXTENDS MqttSystem

A == <<"a">>
Pub(topic, payload, qos, retain) ==
    [op |-> "publish", topic |-> topic, payload |-> payload, qos |-> qos, retain |-> retain]
Sub(sub, qos) == [op |-> "subscribe", sub |-> sub, qos |-> qos]
NoUsers == [id \in Clients |-> [username |-> NoUser, password |-> ""]]
NoFiles == <<[allow_anonymous |-> TRUE, password_file |-> <<>>, acl_file |-> <<>>]>>
NoWills == [id \in Clients |-> NoWill]

SubsOnly(id, subs) == [x \in Clients |-> IF x = id THEN subs ELSE {}]
SessionFirst == SubsOnly("s", {[sub |-> A, qos |-> 2]})
SessionCalls == [id \in Clients |->
    IF id = "p" THEN <<Pub(A, 1, 2, FALSE), Pub(A, 2, 2, FALSE)>> ELSE <<>>]

AB == <<"a", "b">>
Unsub(sub) == [op |-> "unsubscribe", sub |-> sub]
Line(topic, access) == [word |-> "topic", topic |-> topic, access |-> access]
TreeFiles == <<NoFiles[1], [NoFiles[1] EXCEPT !.acl_file = <<Line(AB, {"read", "write"}), Line(A, {"write"})>>]>>
TreeFirst == SubsOnly("q", {[sub |-> AB, qos |-> 1]})
TreeCalls == [id \in Clients |->
    CASE id = "p" -> <<Pub(AB, 1, 0, TRUE), Pub(A, 2, 1, TRUE), Pub(AB, 0, 0, TRUE)>>
      [] id = "s" -> <<Sub(<<"a", "#">>, 1), Sub(<<"+", "b">>, 0), Unsub(<<"a", "#">>)>>
      [] id = "q" -> <<[op |-> "disconnect"]>>]
PWill == [id \in Clients |-> IF id = "p" THEN [topic |-> A, payload |-> 3, qos |-> 1, retain |-> FALSE]
                             ELSE NoWill]
=============================================================================
