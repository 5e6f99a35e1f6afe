------------------------------ MODULE Downlink ------------------------------
(***************************************************************************)
(* What the gateway promises to whoever commands the motes over MQTT, with *)
(* no slots, threads, locks or timers: each node has one queue of its own  *)
(* commands, a new command goes to its tail, and only its head leaves it,  *)
(* when it is acknowledged or given up.  A node the gate kicks loses its   *)
(* queue.                                                                  *)
(***************************************************************************)
EXTENDS Naturals, Sequences

CONSTANTS Nodes, Ids

VARIABLE queue        \* [Nodes -> Seq([addr : Nodes, id : Ids])]

Init == queue = [n \in Nodes |-> <<>>]

\* A command newer than all that wait.
Accept(n) ==
  \E k \in Ids :
    /\ \A m \in Nodes : \A j \in 1 .. Len(queue[m]) : queue[m][j].id < k
    /\ queue' = [queue EXCEPT ![n] = Append(@, [addr |-> n, id |-> k])]

Remove(n) ==
  /\ queue[n] # <<>>
  /\ queue' = [queue EXCEPT ![n] = Tail(@)]

Kick(n) == queue' = [queue EXCEPT ![n] = <<>>]

Next == \E n \in Nodes : Accept(n) \/ Remove(n) \/ Kick(n)

Spec == Init /\ [][Next]_queue
=============================================================================
