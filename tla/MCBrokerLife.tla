----------------------------- MODULE MCBrokerLife -----------------------------
EXTENDS BrokerLife

A == <<"a">>
B == <<"b">>
Pub(topic, payload, qos, retain) ==
    [op |-> "publish", topic |-> topic, payload |-> payload, qos |-> qos, retain |-> retain]

LifeWills == [id \in Clients |-> NoWill]
LifeFirst == [id \in Clients |-> IF id = "s" THEN {[sub |-> A, qos |-> 2], [sub |-> B, qos |-> 1]} ELSE {}]
ByP(calls) == [id \in Clients |-> IF id = "p" THEN calls ELSE <<>>]
LifeCalls == ByP(<<Pub(B, 1, 2, TRUE)>>)
PurgeCalls == ByP(<<Pub(B, 1, 1, FALSE), Pub(A, 2, 1, FALSE)>>)
LifeUsers == [id \in Clients |-> IF id = "s" THEN [username |-> "sue", password |-> "x"]
                                 ELSE [username |-> "pat", password |-> "y"]]

(* Sue may read a and b, later only a; Pat may write.  Later both need     *)
(* their passwords.                                                        *)
Line(word, topic, access) == [word |-> word, topic |-> topic, access |-> access]
User(user) == [word |-> "user", user |-> user]
Acl(sue) == <<User("pat"), Line("topic", <<"#">>, {"write"}), User("sue")>> \o sue
Version(passwords, sue) ==
    [allow_anonymous |-> TRUE, password_file |-> passwords, acl_file |-> Acl(sue)]
LifeFiles == <<Version(<<>>, <<Line("topic", A, {"read"}), Line("topic", B, {"read"})>>),
               Version(<<[username |-> "sue", password |-> "x"], [username |-> "pat", password |-> "y"]>>,
                       <<Line("topic", A, {"read"})>>)>>

(* A status message under $SYS, for a client that is away.                 *)
Status == <<"$SYS", "x">>
StatusFirst == [id \in Clients |-> IF id = "s" THEN {[sub |-> Status, qos |-> 1]} ELSE {}]
StatusCalls == ByP(<<Pub(Status, 1, 1, FALSE)>>)
OpenFiles == <<[allow_anonymous |-> TRUE, password_file |-> <<>>, acl_file |-> <<>>]>>
=============================================================================
