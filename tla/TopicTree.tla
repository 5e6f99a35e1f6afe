----------------------------- MODULE TopicTree -----------------------------
(***************************************************************************)
(* mosquitto/src/subs.c: the tree of subscriptions and retained messages,  *)
(* and mosquitto/lib/util_mosq.c: topics against filters.                  *)
(*                                                                         *)
(* A topic or filter is the sequence of its levels.  A node of the tree is *)
(* named by the tokens that lead to it from its root; tree is the sequence *)
(* of nodes in the order of their creation, which is the order of siblings.*)
(***************************************************************************)
EXTENDS Integers, Sequences, SequencesExt, FiniteSetsExt

(* The elements of s at the positions in I.                                *)
Picked(s, I) ==
    FoldLeftDomain(LAMBDA acc, i : IF i \in I THEN Append(acc, s[i]) ELSE acc, <<>>, s)

Dollar == {"$SYS", "$local"}       \* levels that begin with $

(* _sub_topic_tokenise: a topic that does not begin with $ gets an empty   *)
(* level in front; the first token also names the root below db->subs.     *)
_sub_topic_tokenise(topic) ==
    IF topic[1] \in Dollar THEN topic ELSE <<"">> \o topic

(* mosquitto_pub_topic_check and mosquitto_sub_topic_check, on levels: "#" *)
(* ends a filter.  Wildcards inside a level do not occur in the model.     *)
mosquitto_pub_topic_check(topic) == Range(topic) \cap {"+", "#"} = {}
mosquitto_sub_topic_check(sub) == \A i \in DOMAIN sub : sub[i] = "#" => i = Len(sub)

Children(tree, p) == {q \in Range(tree) : Len(q) = Len(p) + 1 /\ IsPrefix(p, q)}
At2(tree, p) == CHOOSE i \in DOMAIN tree : tree[i] = p

(* Whether the walk from the root reaches p before q: siblings in order,   *)
(* what is below a node before the node itself.                            *)
Earlier(tree, p, q) ==
    \/ IsStrictPrefix(q, p)
    \/ /\ ~IsPrefix(p, q)
       /\ ~IsPrefix(q, p)
       /\ LET k == CHOOSE i \in DOMAIN p : p[i] # q[i] /\ \A j \in 1..(i - 1) : p[j] = q[j]
          IN At2(tree, SubSeq(p, 1, k)) < At2(tree, SubSeq(q, 1, k))

(* The nodes in the order of the walk: each comes in behind the earlier.   *)
Walk(tree, nodes) ==
    LET Enter(p, seq) ==
            InsertAt(seq, Cardinality({i \in DOMAIN seq : Earlier(tree, seq[i], p)}) + 1, p)
    IN FoldSet(Enter, <<>>, nodes)

(* _sub_search: the nodes whose subscriptions a topic with these tokens    *)
(* meets.  "+" stands for one level; "#" without children for the rest,    *)
(* and for the level in front of it.                                       *)
Along(tokens, p, n) == \A i \in 1..n : p[i] \in {tokens[i], "+"}
HashBelow(tokens, p) == Len(p) <= Len(tokens) /\ Along(tokens, p, Len(p) - 1)   \* Mutant
HashCovers(tokens, p) == Len(p) - 1 <= Len(tokens) /\ Along(tokens, p, Len(p) - 1)
_sub_search(tree, tokens) ==
    LET Ends(p) == Len(p) = Len(tokens) /\ Along(tokens, p, Len(p))
        Hash(p) == Last(p) = "#" /\ Children(tree, p) = {} /\ HashCovers(tokens, p)
    IN Walk(tree, {p \in Range(tree) : Ends(p) \/ Hash(p)})

NeverInFront(tree, p) == FALSE    \* Mutant: the -1 of the search below is not looked at
RetainsInFront(tree, p) ==
    \/ Children(tree, p) # {}
    \/ Len(p) > 1 /\ \A q \in Children(tree, Front(p)) : At2(tree, q) <= At2(tree, p)

(* _retain_search: the nodes whose retained message a new subscription     *)
(* gets.  A node in front of "#" counts when the search below it reports   *)
(* that there is something below (-1), or when it is the last of its       *)
(* siblings and not on the first level.                                    *)
_retain_search(tree, tokens) ==
    LET n       == Len(tokens)
        Step(p, i) == p[i] # "+" /\ tokens[i] \in {p[i], "+"}
        Ends(p) == Last(tokens) # "#" /\ Len(p) = n /\ \A i \in 1..n : Step(p, i)
        Below(p) == /\ Last(tokens) = "#"
                    /\ Len(p) >= n
                    /\ \A i \in 1..(n - 1) : Step(p, i)
        Front1(p) == /\ Last(tokens) = "#"
                     /\ Len(p) = n - 1
                     /\ \A i \in 1..(n - 1) : Step(p, i)
                     /\ RetainsInFront(tree, p)
    IN Walk(tree, {p \in Range(tree) : Ends(p) \/ Below(p) \/ Front1(p)})

(* _sub_add, the nodes: those missing on the way are created.              *)
Grown(tree, tokens) ==
    LET path == [i \in 1..Len(tokens) |-> SubSeq(tokens, 1, i)]
    IN tree \o Picked(path, {i \in DOMAIN path : path[i] \notin Range(tree)})

(* _sub_remove and tmp_remove_subs: from tokens upwards, nodes that carry  *)
(* nothing (not used) and have no children are freed.                          *)
Pruned(tree, tokens, used) ==
    LET keep == {i \in 1..Len(tokens) :
                    LET p == SubSeq(tokens, 1, i)
                    IN \/ p \in used
                       \/ \E q \in Range(tree) : /\ IsStrictPrefix(p, q)
                                                 /\ q \in used \/ ~IsPrefix(q, tokens)}
    IN Picked(tree, {i \in DOMAIN tree : IsPrefix(tree[i], tokens) => Len(tree[i]) \in keep})

(* mosquitto_topic_matches_sub: the same question without a tree, as       *)
(* bridges and access control ask it.  Here the level in front of "#" must *)
(* be spelled out for the filter to match it without more.                 *)
mosquitto_topic_matches_sub(sub, topic) ==
    /\ (sub[1] \in Dollar) <=> (topic[1] \in Dollar)
    /\ IF Last(sub) = "#"
       THEN /\ \/ Len(sub) <= Len(topic)
               \/ Len(sub) = Len(topic) + 1 /\ sub[Len(topic)] # "+"
            /\ Along(topic, sub, Len(sub) - 1)
       ELSE Len(sub) = Len(topic) /\ Along(topic, sub, Len(sub))
=============================================================================
