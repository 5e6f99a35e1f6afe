------------------------------ MODULE Security ------------------------------
(***************************************************************************)
(* mosquitto/src/security_default.c: password file and access control      *)
(* lists of the broker.                                                    *)
(*                                                                         *)
(* sec.acl_list     what the acl file grants each user, in its order;      *)
(* sec.acl_patterns grants to all clients, with %c and %u in them;         *)
(* sec.unpwd        the password file; sec.allow_anonymous.                *)
(*                                                                         *)
(* A line of the acl file is [word, user] or [word, topic, access], with   *)
(* access a set of "read" and "write"; word is "error" for one that cannot *)
(* be parsed.                                                              *)
(***************************************************************************)
EXTENDS TopicTree

NoUser == "no user"         \* username NULL
NoAcl  == <<>>

Entry(line) == [topic |-> line.topic, access |-> line.access]

(* _add_acl: the entries of a user follow each other.                      *)
_add_acl(sec, user, line) ==
    LET hits == {i \in DOMAIN sec.acl_list : sec.acl_list[i].username = user}
    IN IF hits = {}
       THEN [sec EXCEPT !.acl_list = Append(@, [username |-> user, acl |-> <<Entry(line)>>])]
       ELSE [sec EXCEPT !.acl_list[Min(hits)].acl = Append(@, Entry(line))]

_add_acl_pattern(sec, line) == [sec EXCEPT !.acl_patterns = Append(@, Entry(line))]

(* _aclfile_parse: a user line holds for the topic lines behind it; an     *)
(* error ends the parsing, what came before stays.                         *)
_aclfile_line(acc, line) ==
    IF acc.bad THEN acc
    ELSE CASE line.word = "user"    -> [acc EXCEPT !.user = line.user]
           [] line.word = "topic"   -> [acc EXCEPT !.sec = _add_acl(@, acc.user, line)]
           [] line.word = "pattern" -> [acc EXCEPT !.sec = _add_acl_pattern(@, line)]
           [] line.word = "error"   -> [acc EXCEPT !.bad = TRUE]
_aclfile_parse(sec, lines) ==
    FoldLeft(_aclfile_line, [sec |-> sec, user |-> NoUser, bad |-> FALSE], lines).sec

(* _pwfile_parse and _unpwd_file_parse; what a hash stands for is taken as *)
(* the password.                                                           *)
_unpwd_file_parse(sec, lines) == [sec EXCEPT !.unpwd = @ \o lines]

(* mosquitto_security_init: passwords first, then the acl file.            *)
mosquitto_security_init(sec, files) ==
    _aclfile_parse(_unpwd_file_parse([sec EXCEPT !.allow_anonymous = files.allow_anonymous],
                                     files.password_file), files.acl_file)

Closed == [acl_list |-> <<>>, acl_patterns |-> <<>>, unpwd |-> <<>>, allow_anonymous |-> TRUE]

(* The acl_list a user is given when it connects or the file is read again.*)
AclOf(sec, username) ==
    LET hits == {i \in DOMAIN sec.acl_list : sec.acl_list[i].username = username}
    IN IF hits = {} THEN NoAcl ELSE sec.acl_list[Min(hits)].acl

(* A pattern with the client's id and username put in; without a username  *)
(* patterns that name one do not apply.                                    *)
Filled(context, topic) ==
    [i \in DOMAIN topic |-> CASE topic[i] = "%c" -> context.id
                              [] topic[i] = "%u" -> context.username
                              [] OTHER -> topic[i]]

(* mosquitto_acl_check_default: without any list everything is allowed.    *)
acl_check_default(sec, context, topic, access) ==
    LET Grants(entry, filter) ==
            access \in entry.access /\ mosquitto_topic_matches_sub(filter, topic)
    IN \/ sec.acl_list = <<>> /\ sec.acl_patterns = <<>>
       \/ \E i \in DOMAIN context.acl : Grants(context.acl[i], context.acl[i].topic)
       \/ \E i \in DOMAIN sec.acl_patterns :
             LET entry == sec.acl_patterns[i]
             IN /\ "%u" \in Range(entry.topic) => context.username # NoUser
                /\ Grants(entry, Filled(context, entry.topic))

(* mosquitto_unpwd_check_default: the first line with the name counts; one *)
(* without a password admits everybody with the name.                      *)
mosquitto_unpwd_check(sec, username, password) ==
    LET hits == {i \in DOMAIN sec.unpwd : sec.unpwd[i].username = username}
    IN \/ sec.unpwd = <<>>
       \/ /\ hits # {}
          /\ sec.unpwd[Min(hits)].password \in {"", password}
=============================================================================
