---------------------------- MODULE MCSipRouting ------------------------------
(* A small instance of SipRouting for TLC, and the convergence of its      *)
(* routes, which is about the paths in this instance.                      *)
EXTENDS SipRoutingInv

CONSTANTS a, b, c, d

\* Four nodes in a row, the smallest network in which the costs of two nodes can
\* count up against each other: a and b do when the process of c is stopped.
Line == {a, b, c, d}
LineCost == [m \in Line |-> [n \in Line |->
  IF {m, n} \in {{a, b}, {b, c}, {c, d}} THEN 1 ELSE 5]]
Position == [m \in Line |-> CHOOSE i \in 1..4 : m = <<a, b, c, d>>[i]]
LineDist == [m \in Line |-> [n \in Line |->
  IF Position[m] < Position[n] THEN Position[n] - Position[m]
                               ELSE Position[m] - Position[n]]]

Running == {n \in Node : sip[n] = "up"}

LinksRight ==
  \A n \in Running : \A m \in Nbrs(n) :
    nct[n][m] = IF m \in Running THEN Cost[n][m] ELSE INFINITE_COST

\* The length of the path from m to n, if all processes on it are running.
Between(m, n) ==
  {x \in Line : \/ Position[x] \in Position[m]..Position[n]
                \/ Position[x] \in Position[n]..Position[m]}

Far(m, n) == IF Between(m, n) \subseteq Running THEN Dist[m][n] ELSE INFINITE_COST

RoutesRight ==
  \A n \in Running : \A t \in Node \ {n} :
    /\ own[n][t] = Far(n, t)
    /\ IF Far(n, t) = INFINITE_COST THEN next[n][t] = NoNode
       ELSE Far(n, t) = Cost[n][next[n][t]] + Far(next[n][t], t)

(* Converges: once the neighbours of every running process have the right  *)
(* state of their links, every routing table of a running process becomes, *)
(* and stays, that of the shortest paths over the running processes.       *)
Converges == <>[]LinksRight => <>[]RoutesRight

(* PacketsEnd: a packet is delivered or dropped in the end, though costs   *)
(* that count up to INFINITE_COST may send it to and fro for a while.      *)
PacketsEnd == (pkts # {}) ~> (pkts = {})
=============================================================================
