-------------------------- MODULE SipRouting_proofs ---------------------------
(***************************************************************************)
(* Proofs about SipRouting, for any network, any bounds, and any number of *)
(* stops and starts.                                                       *)
(***************************************************************************)
EXTENDS SipRoutingInv, WellFoundedInduction, TLAPS

\* A set of natural numbers has a least element, and Min returns it.
LEMMA MinOfNats ==
  ASSUME NEW S \in SUBSET Nat, S # {}
  PROVE  Min(S) \in S /\ \A x \in S : Min(S) =< x
<1>1. PICK x \in S : \A y \in S : ~(<<y, x>> \in OpToRel(<, Nat))
  BY NatLessThanWellFounded, WFMin, Zenon
<1>2. \A y \in S : <<y, x>> \in OpToRel(<, Nat) <=> y < x
  BY DEF OpToRel
<1>3. \A y \in S : ~(y < x)
  BY <1>1, <1>2, Zenon
<1>4. \A y \in S : x =< y
  BY <1>3
<1>5. QED
  BY <1>4 DEF Min

-----------------------------------------------------------------------------
(* What pkthandler computes                                                *)

\* The cost over a neighbour is a natural number.
LEMMA ViaType ==
  ASSUME NEW n \in Node, NEW c \in [Nbrs(n) -> 1..INFINITE_COST],
         NEW row \in [Nbrs(n) -> Vector], NEW m \in Nbrs(n), NEW d \in Node
  PROVE  Via(c, row, m, d) \in Nat \ {0} /\ Via(c, row, m, d) >= c[m]
<1>1. m \in Node /\ c[m] \in 1..INFINITE_COST /\ row[m][d] \in 0..INFINITE_COST
  BY DEF Nbrs, Vector
<1>2. QED
  BY <1>1, RoutingAssumption DEF Via

\* The new cost is at most INFINITE_COST and at most that over each neighbour,
\* and it is the cost over the new next hop unless there is no way.
LEMMA Recomputed ==
  ASSUME NEW n \in Node, NEW c \in [Nbrs(n) -> 1..INFINITE_COST],
         NEW row \in [Nbrs(n) -> Vector], NEW d \in Node,
         NEW cost, cost = CostTo(n, c, row, d),
         NEW hop, hop = HopTo(n, c, row, cost, d)
  PROVE  /\ cost \in 0..INFINITE_COST
         /\ hop \in Nbrs(n) \cup {n, NoNode}
         /\ d = n => cost = 0 /\ hop = n
         /\ d # n => Best(n, c, row, cost, hop, d)
<1>1. INFINITE_COST \in Nat \ {0}
  BY RoutingAssumption
<1>2. CASE d = n
  BY <1>1, <1>2 DEF CostTo, HopTo
<1>3. CASE d # n /\ d \in Nbrs(n) /\ c[d] = INFINITE_COST
  BY <1>1, <1>3 DEF CostTo, HopTo, Best
<1>4. CASE d # n /\ ~(d \in Nbrs(n) /\ c[d] = INFINITE_COST)
  <2> DEFINE S == {INFINITE_COST} \cup {Via(c, row, m, d) : m \in Nbrs(n)}
  <2>1. S \in SUBSET Nat /\ S # {}
    BY <1>1, ViaType
  <2>2. Min(S) \in S /\ \A x \in S : Min(S) =< x
    BY <2>1, MinOfNats
  <2>3. cost = Min(S)
    BY <1>4 DEF CostTo
  <2>4. cost \in Nat /\ cost =< INFINITE_COST /\ \A m \in Nbrs(n) : cost =< Via(c, row, m, d)
    BY <2>1, <2>2, <2>3
  <2>5. cost # INFINITE_COST => \E m \in Nbrs(n) : Via(c, row, m, d) = cost
    BY <2>2, <2>3
  <2>6. cost # INFINITE_COST => hop \in Nbrs(n) /\ Via(c, row, hop, d) = cost
    BY <1>4, <2>5 DEF HopTo
  <2>7. cost # INFINITE_COST => c[hop] # INFINITE_COST
    <3>1. HAVE cost # INFINITE_COST
    <3>2. cost >= c[hop] /\ c[hop] \in 1..INFINITE_COST
      BY <2>6, <3>1, ViaType
    <3>3. QED
      BY <1>1, <2>4, <3>1, <3>2
  <2>8. cost = INFINITE_COST => hop = NoNode
    BY <1>4 DEF HopTo
  <2>9. QED
    BY <1>1, <1>4, <2>4, <2>6, <2>7, <2>8 DEF Best
<1>5. QED
  BY <1>2, <1>3, <1>4

-----------------------------------------------------------------------------
(* The tables that nbrcosttable_create, dvtable_create and                 *)
(* routingtable_create make                                                *)

\* The network is undirected.
LEMMA Links ==
  /\ INFINITE_COST \in Nat \ {0}
  /\ \A n \in Node : Nbrs(n) \subseteq Node /\ n \notin Nbrs(n)
  /\ \A n \in Node : \A m \in Nbrs(n) : n \in Nbrs(m) /\ <<m, n>> \in Link /\ <<n, m>> \in Link
  /\ \A n \in Node : \A m \in Nbrs(n) : Cost[n][m] \in 1..INFINITE_COST /\ Cost[n][m] < INFINITE_COST
  /\ \A n, m \in Node : Cost[n][m] \in 1..INFINITE_COST
  /\ \A n, m \in Node : m \notin Nbrs(n) => Cost[n][m] = INFINITE_COST
  /\ \A l \in Link : l[1] \in Node /\ l[2] \in Node /\ l[1] \in Nbrs(l[2]) /\ l[2] \in Nbrs(l[1])
                     /\ l = <<l[1], l[2]>>
<1>1. \A a, b \in Node : Cost[a][b] \in 1..INFINITE_COST
  BY RoutingAssumption
<1>2. \A n \in Node : Nbrs(n) \subseteq Node /\ n \notin Nbrs(n)
  BY RoutingAssumption DEF Nbrs
<1>3. \A n \in Node : \A m \in Nbrs(n) : n \in Nbrs(m)
  BY RoutingAssumption DEF Nbrs
<1>4. \A n \in Node : \A m \in Nbrs(n) : <<m, n>> \in Link /\ <<n, m>> \in Link
  BY <1>2, <1>3 DEF Link
<1>5. \A n, m \in Node : m \notin Nbrs(n) => Cost[n][m] = INFINITE_COST
  <2>1. TAKE n, m \in Node
  <2>2. HAVE m \notin Nbrs(n)
  <2>3. ~(Cost[n][m] < INFINITE_COST)
    BY <2>2 DEF Nbrs
  <2>4. Cost[n][m] \in 1..INFINITE_COST /\ INFINITE_COST \in Nat
    BY <1>1, RoutingAssumption
  <2>5. QED
    BY <2>3, <2>4
<1>6. \A n \in Node : \A m \in Nbrs(n) : Cost[n][m] < INFINITE_COST
  BY DEF Nbrs
<1>7. \A l \in Link : l[1] \in Node /\ l[2] \in Node /\ l[2] \in Nbrs(l[1]) /\ l = <<l[1], l[2]>>
  BY DEF Link
<1>8. QED
  BY <1>1, <1>2, <1>3, <1>4, <1>5, <1>6, <1>7, RoutingAssumption

\* The tables of a new process have their types ...
LEMMA CreatedType ==
  ASSUME NEW n \in Node
  PROVE  /\ NctCreated(n) \in [Nbrs(n) -> 1..INFINITE_COST]
         /\ DvCreated(n) \in [Nbrs(n) -> Vector]
         /\ OwnCreated(n) \in Vector
         /\ NextCreated(n) \in [Node -> Node \cup {NoNode}]
         /\ \A d \in Node : NextCreated(n)[d] \in Nbrs(n) \cup {n, NoNode}
<1>1. NctCreated(n) \in [Nbrs(n) -> 1..INFINITE_COST]
  BY Links DEF NctCreated
<1>2. DvCreated(n) \in [Nbrs(n) -> Vector]
  BY Links DEF DvCreated, Vector
<1>3. OwnCreated(n) \in Vector
  BY Links DEF OwnCreated, Vector
<1>4. QED
  BY <1>1, <1>2, <1>3, Links DEF NextCreated

\* ... promise no shorter way than there is ...
LEMMA CreatedReal ==
  ASSUME NEW n \in Node
  PROVE  /\ RealVector(n, OwnCreated(n))
         /\ \A m \in Nbrs(n) : RealVector(m, DvCreated(n)[m])
         /\ RealVector(n, [d \in Node |-> Cost[n][d]])
<1>1. \A d \in Node : Cost[n][d] = INFINITE_COST \/ Dist[n][d] =< Cost[n][d]
  <2>1. SUFFICES ASSUME NEW d \in Nbrs(n) PROVE Dist[n][d] =< Cost[n][d]
    BY Links
  <2>2. d \in Node /\ Dist[n][d] =< Cost[n][d] + Dist[d][d] /\ Dist[d][d] = 0
    BY DistAssumption, Links
  <2>3. QED
    BY <2>2, Links, DistAssumption
<1>2. Dist[n][n] = 0 /\ \A m \in Nbrs(n) : Dist[m][m] = 0
  BY DistAssumption, Links
<1>3. QED
  BY <1>1, <1>2, Links DEF RealVector, OwnCreated, DvCreated

\* ... and agree with each other.
LEMMA CreatedAgree ==
  ASSUME NEW n \in Node, NEW d \in Node \ {n}
  PROVE  Best(n, NctCreated(n), DvCreated(n), OwnCreated(n)[d], NextCreated(n)[d], d)
<1> USE DEF OwnCreated, NextCreated, NctCreated, DvCreated, Via, Best
<1>1. CASE d \in Nbrs(n)
  BY <1>1, Links
<1>2. CASE d \notin Nbrs(n)
  BY <1>2, Links
<1>3. QED
  BY <1>1, <1>2

\* The invariant holds before any process has sent anything.
LEMMA InitRouting == Init => RoutingInv
<1> SUFFICES ASSUME Init PROVE RoutingInv
  OBVIOUS
<1> USE DEF Init
<1>1. TypeOK
  BY CreatedType DEF TypeOK, Packet
<1>2. RealDistance
  <2>1. \A n \in Node : RealVector(n, own[n])
    BY CreatedReal
  <2>2. \A n \in Node : \A m \in Nbrs(n) : RealVector(m, dv[n][m])
    BY CreatedReal
  <2>3. \A l \in Link : Len(chan[l]) = 0
    OBVIOUS
  <2>4. QED
    BY <2>1, <2>2, <2>3 DEF RealDistance
<1>3. RoutesAgree
  BY CreatedAgree DEF RoutesAgree
<1>4. CostsFall
  <2>1. Fresh
    BY DEF Fresh
  <2>2. \A n \in Node : NoBetter(n, Cost[n], own[n])
    BY Links DEF NoBetter, OwnCreated
  <2>3. ASSUME NEW n \in Node, NEW m \in Nbrs(n)
        PROVE  NoBetter(m, dv[n][m], own[m]) /\ NoBetter(m, dv[n][m], Cost[m]) /\ chan[<<m, n>>] = <<>>
    <3>1. m \in Node /\ <<m, n>> \in Link
      BY Links
    <3>2. \A d \in Node \ {m} : dv[n][m][d] = INFINITE_COST /\ own[m][d] = Cost[m][d]
      BY <3>1 DEF OwnCreated, DvCreated
    <3>3. \A d \in Node : Cost[m][d] =< INFINITE_COST
      BY <3>1, Links
    <3>4. QED
      BY <3>1, <3>2, <3>3 DEF NoBetter
  <2>4. ASSUME NEW l \in Link PROVE FallingTo(l[1], l[2])
    <3>1. l[2] \in Node /\ l[1] \in Nbrs(l[2])
      BY Links
    <3>2. NoBetter(l[1], dv[l[2]][l[1]], own[l[1]]) /\ NoBetter(l[1], dv[l[2]][l[1]], Cost[l[1]])
          /\ chan[<<l[1], l[2]>>] = <<>>
      BY <2>3, <3>1
    <3>3. QED
      BY <3>2 DEF FallingTo
  <2>5. Falling
    BY <2>4 DEF Falling
  <2>6. QED
    BY <2>1, <2>2, <2>5 DEF CostsFall
<1>5. LinkCosts
  BY DEF LinkCosts, NctCreated
<1>6. QED
  BY <1>1, <1>2, <1>3, <1>4, <1>5 DEF RoutingInv

-----------------------------------------------------------------------------
(* Taking a message off a link                                             *)

\* What a step that takes the first message of a link does to the links.
LEMMA HeadTakenLinks ==
  ASSUME TypeOK, NEW l \in Link, HeadTaken(l)
  PROVE  /\ chan' \in [Link -> Seq(RouteMsg)]
         /\ Len(chan[l]) \in Nat \ {0}
         /\ Head(chan[l]) = chan[l][1] /\ Head(chan[l]) \in RouteMsg
         /\ Len(chan'[l]) = Len(chan[l]) - 1
         /\ \A i \in 1..Len(chan'[l]) : chan'[l][i] = chan[l][i+1] /\ i + 1 \in 1..Len(chan[l])
         /\ \A k \in Link \ {l} : chan'[k] = chan[k]
<1>1. chan[l] \in Seq(RouteMsg) /\ chan[l] # <<>>
  BY DEF TypeOK, HeadTaken
<1>2. chan' = [chan EXCEPT ![l] = Tail(chan[l])]
  BY DEF HeadTaken
<1>3. Tail(chan[l]) \in Seq(RouteMsg) /\ Len(chan[l]) \in Nat \ {0} /\ Head(chan[l]) = chan[l][1]
      /\ Head(chan[l]) \in RouteMsg /\ Len(Tail(chan[l])) = Len(chan[l]) - 1
  BY <1>1
<1>4. \A i \in 1..Len(Tail(chan[l])) : Tail(chan[l])[i] = chan[l][i+1] /\ i + 1 \in 1..Len(chan[l])
  BY <1>1, <1>3
<1>5. chan'[l] = Tail(chan[l])
  BY <1>2 DEF TypeOK
<1>6. chan' \in [Link -> Seq(RouteMsg)]
  BY <1>2, <1>3 DEF TypeOK
<1>7. \A k \in Link \ {l} : chan'[k] = chan[k]
  BY <1>2 DEF TypeOK
<1>8. QED
  BY <1>3, <1>4, <1>5, <1>6, <1>7

\* What a message says about a link and about the vector of its sender.
LEMMA MsgType ==
  ASSUME TypeOK, NEW n \in Node, NEW m \in Nbrs(n), NEW msg \in RouteMsg
  PROVE  NctAfter(n, m, msg) \in 1..INFINITE_COST /\ RowAfter(m, msg) \in Vector
<1>1. NctAfter(n, m, msg) \in 1..INFINITE_COST
  BY Links DEF NctAfter, TypeOK
<1>2. RowAfter(m, msg) \in Vector
  BY Links DEF RowAfter, Vector, Unreachable, RouteMsg
<1>3. QED
  BY <1>1, <1>2

\* What pkthandler does to the tables, and that they keep their types.
LEMMA Taken ==
  ASSUME TypeOK, NEW n \in Node, NEW m \in Nbrs(n), TakeRouteMsg(n, m)
  PROVE  /\ nct'[n] \in [Nbrs(n) -> 1..INFINITE_COST]
         /\ dv'[n] \in [Nbrs(n) -> Vector]
         /\ nct'[n][m] = NctAfter(n, m, Head(chan[<<m, n>>]))
         /\ dv'[n][m] = RowAfter(m, Head(chan[<<m, n>>]))
         /\ \A k \in Nbrs(n) \ {m} : nct'[n][k] = nct[n][k] /\ dv'[n][k] = dv[n][k]
         /\ \A d \in Node : /\ own'[n][d] = CostTo(n, nct'[n], dv'[n], d)
                            /\ next'[n][d] = HopTo(n, nct'[n], dv'[n], own'[n][d], d)
         /\ DOMAIN nct' = Node /\ DOMAIN dv' = Node
         /\ own' = [own EXCEPT ![n] = [d \in Node |-> CostTo(n, nct'[n], dv'[n], d)]]
         /\ next' = [next EXCEPT ![n] = [d \in Node |-> HopTo(n, nct'[n], dv'[n], own'[n][d], d)]]
         /\ \A k \in Node \ {n} :
              nct'[k] = nct[k] /\ dv'[k] = dv[k] /\ own'[k] = own[k] /\ next'[k] = next[k]
<1> DEFINE msg == Head(chan[<<m, n>>])
<1>1. <<m, n>> \in Link /\ HeadTaken(<<m, n>>)
  BY Links DEF TakeRouteMsg
<1>2. msg \in RouteMsg
  BY <1>1, HeadTakenLinks
<1>3. NctAfter(n, m, msg) \in 1..INFINITE_COST /\ RowAfter(m, msg) \in Vector
  BY <1>2, MsgType
<1>4. nct' = [nct EXCEPT ![n][m] = NctAfter(n, m, msg)] /\ dv' = [dv EXCEPT ![n][m] = RowAfter(m, msg)]
  BY DEF TakeRouteMsg
<1>5. own' = [own EXCEPT ![n] = [d \in Node |-> CostTo(n, nct'[n], dv'[n], d)]]
      /\ next' = [next EXCEPT ![n] = [d \in Node |-> HopTo(n, nct'[n], dv'[n], own'[n][d], d)]]
  BY DEF TakeRouteMsg
<1> HIDE DEF msg
<1>6. nct'[n] = [nct[n] EXCEPT ![m] = NctAfter(n, m, msg)] /\ dv'[n] = [dv[n] EXCEPT ![m] = RowAfter(m, msg)]
      /\ DOMAIN nct' = Node /\ DOMAIN dv' = Node
  BY <1>4 DEF TypeOK
<1>7. /\ nct'[n] \in [Nbrs(n) -> 1..INFINITE_COST]
      /\ nct'[n][m] = NctAfter(n, m, msg)
      /\ \A k \in Nbrs(n) \ {m} : nct'[n][k] = nct[n][k]
  BY <1>3, <1>6 DEF TypeOK
<1>8. /\ dv'[n] \in [Nbrs(n) -> Vector]
      /\ dv'[n][m] = RowAfter(m, msg)
      /\ \A k \in Nbrs(n) \ {m} : dv'[n][k] = dv[n][k]
  BY <1>3, <1>6 DEF TypeOK
<1>9. \A k \in Node \ {n} : nct'[k] = nct[k] /\ dv'[k] = dv[k] /\ own'[k] = own[k] /\ next'[k] = next[k]
  BY <1>4, <1>5 DEF TypeOK
<1>10. \A d \in Node : own'[n][d] = CostTo(n, nct'[n], dv'[n], d)
  BY <1>5 DEF TypeOK
<1>11. \A d \in Node : next'[n][d] = HopTo(n, nct'[n], dv'[n], own'[n][d], d)
  BY <1>5 DEF TypeOK
<1>12. QED
  BY <1>5, <1>6, <1>7, <1>8, <1>9, <1>10, <1>11 DEF msg

\* What it computes from them.
LEMMA TakenCosts ==
  ASSUME TypeOK, NEW n \in Node, NEW m \in Nbrs(n), TakeRouteMsg(n, m), NEW d \in Node
  PROVE  /\ own'[n][d] \in 0..INFINITE_COST
         /\ next'[n][d] \in Nbrs(n) \cup {n, NoNode}
         /\ d = n => own'[n][d] = 0
         /\ d # n => Best(n, nct'[n], dv'[n], own'[n][d], next'[n][d], d)
<1> DEFINE cost == own'[n][d]
           hop == next'[n][d]
           c == nct'[n]
           row == dv'[n]
<1>1. c \in [Nbrs(n) -> 1..INFINITE_COST] /\ row \in [Nbrs(n) -> Vector]
  BY Taken
<1>2. cost = CostTo(n, c, row, d) /\ hop = HopTo(n, c, row, cost, d)
  BY Taken
<1> HIDE DEF cost, hop, c, row
<1>3. /\ cost \in 0..INFINITE_COST
      /\ hop \in Nbrs(n) \cup {n, NoNode}
      /\ d = n => cost = 0 /\ hop = n
      /\ d # n => Best(n, c, row, cost, hop, d)
  BY <1>1, <1>2, Recomputed
<1>4. QED
  BY <1>3 DEF cost, hop, c, row

-----------------------------------------------------------------------------
(* Type correctness                                                        *)

\* Appending a message to the links of a node keeps the type of the links.
LEMMA BroadcastLinks ==
  ASSUME TypeOK, NEW n \in Node, NEW msg \in RouteMsg, Broadcast(n, msg)
  PROVE  /\ chan' \in [Link -> Seq(RouteMsg)]
         /\ \A l \in Link : l[1] # n => chan'[l] = chan[l]
         /\ \A l \in Link : l[1] = n =>
              /\ Len(chan'[l]) = Len(chan[l]) + 1 /\ Len(chan[l]) \in Nat
              /\ chan'[l][Len(chan[l]) + 1] = msg
              /\ \A i \in 1..Len(chan[l]) : chan'[l][i] = chan[l][i]
<1>1. \A l \in Link : chan[l] \in Seq(RouteMsg)
  BY DEF TypeOK
<1>2. \A l \in Link : chan'[l] = IF l[1] = n THEN Append(chan[l], msg) ELSE chan[l]
  BY DEF Broadcast
<1>3. chan' \in [Link -> Seq(RouteMsg)]
  BY <1>1, <1>2 DEF Broadcast
<1>4. QED
  BY <1>1, <1>2, <1>3

\* No step leaves the types.
LEMMA TypeStep == TypeOK /\ [Next]_vars => TypeOK'
<1> SUFFICES ASSUME TypeOK, [Next]_vars PROVE TypeOK'
  OBVIOUS
<1>1. ASSUME NEW n \in Node, Update(n) PROVE TypeOK'
  <2> DEFINE msg == IF first[n] THEN [type |-> "CONNECT", vec |-> Unreachable]
                                ELSE [type |-> "ROUTE_UPDATE", vec |-> own[n]]
  <2>1. msg \in RouteMsg
    BY Links DEF TypeOK, RouteMsg, Vector, Unreachable
  <2>2. chan' \in [Link -> Seq(RouteMsg)]
    BY <1>1, <2>1, BroadcastLinks DEF Update
  <2>3. QED
    BY <1>1, <2>2 DEF Update, TypeOK, tables
<1>2. ASSUME NEW n \in Node, Exit(n) PROVE TypeOK'
  BY <1>2 DEF Exit, TypeOK, tables
<1>3. ASSUME NEW n \in Node, Start(n) PROVE TypeOK'
  <2>1. /\ DOMAIN nct' = Node /\ \A k \in Node : nct'[k] \in [Nbrs(k) -> 1..INFINITE_COST]
        /\ DOMAIN dv' = Node /\ \A k \in Node : dv'[k] \in [Nbrs(k) -> Vector]
    BY <1>3, CreatedType DEF Start, TypeOK
  <2>2. own' \in [Node -> Vector]
    BY <1>3, CreatedType DEF Start, TypeOK
  <2>3. next' \in [Node -> [Node -> Node \cup {NoNode}]]
    BY <1>3, CreatedType DEF Start, TypeOK
  <2>4. \A k, d \in Node : next'[k][d] \in Nbrs(k) \cup {k, NoNode}
    BY <1>3, CreatedType DEF Start, TypeOK
  <2>5. QED
    BY <1>3, <2>1, <2>2, <2>3, <2>4 DEF Start, TypeOK
<1>4. ASSUME NEW n \in Node, SendClose(n) PROVE TypeOK'
  <2>1. [type |-> "CLOSE", vec |-> Unreachable] \in RouteMsg
    BY Links DEF RouteMsg, Vector, Unreachable
  <2>2. chan' \in [Link -> Seq(RouteMsg)]
    BY <1>4, <2>1, BroadcastLinks DEF SendClose
  <2>3. QED
    BY <1>4, <2>2 DEF SendClose, TypeOK, tables
<1>5. ASSUME NEW l \in Link, TakeRouteMsg(l[2], l[1]) PROVE TypeOK'
  <2> DEFINE n == l[2]
             m == l[1]
  <2>1. n \in Node /\ m \in Nbrs(n) /\ l = <<m, n>>
    BY Links
  <2>2. TakeRouteMsg(n, m) /\ HeadTaken(l)
    BY <1>5, <2>1 DEF TakeRouteMsg
  <2> HIDE DEF n, m
  <2>3. chan' \in [Link -> Seq(RouteMsg)]
    BY <2>2, HeadTakenLinks
  <2>4. \A d \in Node : own'[n][d] \in 0..INFINITE_COST /\ next'[n][d] \in Nbrs(n) \cup {n, NoNode}
    BY <2>1, <2>2, TakenCosts
  <2>5. own'[n] = [d \in Node |-> CostTo(n, nct'[n], dv'[n], d)]
        /\ next'[n] = [d \in Node |-> HopTo(n, nct'[n], dv'[n], own'[n][d], d)]
    BY <2>1, <2>2 DEF TakeRouteMsg, TypeOK
  <2>6. own'[n] \in Vector /\ next'[n] \in [Node -> Node \cup {NoNode}]
    BY <2>1, <2>4, <2>5, Links DEF Vector
  <2>7. own' \in [Node -> Vector]
    BY <2>1, <2>2, <2>6, Taken DEF TypeOK
  <2>8. next' \in [Node -> [Node -> Node \cup {NoNode}]]
    BY <2>1, <2>2, <2>6, Taken DEF TypeOK
  <2>9. \A k, d \in Node : next'[k][d] \in Nbrs(k) \cup {k, NoNode}
    <3>1. \A k \in Node \ {n} : next'[k] = next[k]
      BY <2>1, <2>2, Taken
    <3>2. QED
      BY <2>4, <3>1 DEF TypeOK
  <2>10. DOMAIN nct' = Node /\ \A k \in Node : nct'[k] \in [Nbrs(k) -> 1..INFINITE_COST]
    BY <2>1, <2>2, Taken DEF TypeOK
  <2>11. DOMAIN dv' = Node /\ \A k \in Node : dv'[k] \in [Nbrs(k) -> Vector]
    BY <2>1, <2>2, Taken DEF TypeOK
  <2>12. QED
    BY <2>2, <2>3, <2>7, <2>8, <2>9, <2>10, <2>11 DEF TakeRouteMsg, TypeOK
<1>6. ASSUME NEW l \in Link, DropRouteMsg(l[2], l[1]) PROVE TypeOK'
  <2>1. HeadTaken(l)
    BY <1>6, Links DEF DropRouteMsg
  <2>2. chan' \in [Link -> Seq(RouteMsg)]
    BY <2>1, HeadTakenLinks
  <2>3. QED
    BY <1>6, <2>2 DEF DropRouteMsg, TypeOK, tables
<1>7. ASSUME NEW n \in Node, NEW d \in Dest, SendSeg(n, d) PROVE TypeOK'
  <2>1. d \in Node /\ next[n][d] \in Node
    BY <1>7, RoutingAssumption DEF SendSeg, TypeOK
  <2>2. pkts' \subseteq Packet
    BY <1>7, <2>1 DEF SendSeg, Packet
  <2>3. QED
    BY <1>7, <2>2 DEF SendSeg, TypeOK, tables
<1>8. ASSUME NEW p \in pkts, HandlePacket(p) PROVE TypeOK'
  <2>1. p \in Packet
    BY DEF TypeOK
  <2>2. p.to \in Node /\ p.dst \in Node
    BY <2>1 DEF Packet
  <2>3. next[p.to][p.dst] # NoNode => next[p.to][p.dst] \in Node
    BY <2>2 DEF TypeOK
  <2>4. pkts' \subseteq Packet
    BY <1>8, <2>2, <2>3 DEF HandlePacket, TypeOK, Packet
  <2>5. QED
    BY <1>8, <2>4 DEF HandlePacket, TypeOK, tables
<1>9. CASE UNCHANGED vars
  BY <1>9 DEF vars, tables, TypeOK
<1>10. QED
  BY <1>1, <1>2, <1>3, <1>4, <1>5, <1>6, <1>7, <1>8, <1>9, RoutingAssumption DEF Next

-----------------------------------------------------------------------------
(* No way is promised shorter than it is                                   *)

\* A real vector comes out of real rows.
LEMMA RealCosts ==
  ASSUME TypeOK', NEW n \in Node,
         \A d \in Node : (d = n => own'[n][d] = 0)
                         /\ (d # n => Best(n, nct'[n], dv'[n], own'[n][d], next'[n][d], d)),
         \A k \in Nbrs(n) : RealVector(k, dv'[n][k]) /\ nct'[n][k] \in {Cost[n][k], INFINITE_COST}
  PROVE  RealVector(n, own'[n])
<1>1. SUFFICES ASSUME NEW d \in Node, own'[n][d] # INFINITE_COST
               PROVE  Dist[n][d] =< own'[n][d]
  BY DEF RealVector
<1>2. CASE d = n
  BY <1>2, DistAssumption
<1>3. CASE d # n
  <2> DEFINE k == next'[n][d]
  <2>1. k \in Nbrs(n) /\ nct'[n][k] # INFINITE_COST /\ own'[n][d] = Via(nct'[n], dv'[n], k, d)
    BY <1>1, <1>3 DEF Best
  <2>2. nct'[n][k] = Cost[n][k] /\ RealVector(k, dv'[n][k])
    BY <2>1
  <2>3. Dist[n][d] =< Cost[n][k] + Dist[k][d] /\ Dist[n][d] \in Nat /\ Dist[k][d] \in Nat /\ Dist[k][k] = 0
    BY <2>1, Links, DistAssumption
  <2>4. Cost[n][k] \in 1..INFINITE_COST /\ own'[n][d] \in 0..INFINITE_COST /\ INFINITE_COST \in Nat /\ own'[n][d] # INFINITE_COST
    BY <1>1, <2>1, Links DEF TypeOK, Vector
  <2>5. own'[n][d] = Cost[n][k] + (IF k = d THEN 0 ELSE dv'[n][k][d])
    BY <2>1, <2>2 DEF Via
  <2>6. k # d => dv'[n][k][d] \in 0..INFINITE_COST
    BY <2>1 DEF TypeOK, Vector
  <2>7. k # d => dv'[n][k][d] = INFINITE_COST \/ Dist[k][d] =< dv'[n][k][d]
    BY <2>2 DEF RealVector
  <2> HIDE DEF k
  <2>8. CASE k = d
    BY <2>3, <2>4, <2>5, <2>8
  <2>9. CASE k # d
    <3>1. dv'[n][k][d] # INFINITE_COST
      BY <2>4, <2>5, <2>6, <2>9, Links
    <3>2. QED
      BY <2>3, <2>4, <2>5, <2>6, <2>7, <2>9, <3>1
  <2>10. QED
    BY <2>8, <2>9
<1>4. QED
  BY <1>2, <1>3

\* Links are open at their cost or closed, and no way is promised too short.
LEMMA RealStep ==
  TypeOK /\ TypeOK' /\ LinkCosts /\ RealDistance /\ [Next]_vars => LinkCosts' /\ RealDistance'
<1> SUFFICES ASSUME TypeOK, TypeOK', LinkCosts, RealDistance, [Next]_vars
             PROVE  LinkCosts' /\ RealDistance'
  OBVIOUS
<1>u. \A n \in Node : RealVector(n, Unreachable)
  BY DEF RealVector, Unreachable
<1>a. ASSUME UNCHANGED tables,
             \A l \in Link : \A i \in 1..Len(chan'[l]) : RealVector(l[1], chan'[l][i].vec)
      PROVE  LinkCosts' /\ RealDistance'
  BY <1>a DEF tables, LinkCosts, RealDistance
<1>b. ASSUME NEW n \in Node, NEW msg \in RouteMsg, Broadcast(n, msg), RealVector(n, msg.vec)
      PROVE  \A l \in Link : \A i \in 1..Len(chan'[l]) : RealVector(l[1], chan'[l][i].vec)
  <2>1. TAKE l \in Link
  <2>2. TAKE i \in 1..Len(chan'[l])
  <2>3. CASE l[1] # n
    BY <1>b, <2>3, BroadcastLinks DEF RealDistance
  <2>4. CASE l[1] = n
    <3>1. i \in 1..Len(chan[l]) \/ i = Len(chan[l]) + 1
      BY <1>b, <2>4, BroadcastLinks
    <3>2. QED
      BY <1>b, <2>4, <3>1, BroadcastLinks DEF RealDistance
  <2>5. QED
    BY <2>3, <2>4
<1>c. ASSUME NEW l \in Link, HeadTaken(l)
      PROVE  \A k \in Link : \A i \in 1..Len(chan'[k]) : RealVector(k[1], chan'[k][i].vec)
  <2>1. TAKE k \in Link
  <2>2. TAKE i \in 1..Len(chan'[k])
  <2>3. CASE k # l
    BY <1>c, <2>3, HeadTakenLinks DEF RealDistance
  <2>4. CASE k = l
    <3>1. chan'[l][i] = chan[l][i+1] /\ i + 1 \in 1..Len(chan[l])
      BY <1>c, <2>4, HeadTakenLinks
    <3>2. QED
      BY <2>4, <3>1 DEF RealDistance
  <2>5. QED
    BY <2>3, <2>4
<1>1. ASSUME NEW n \in Node, Update(n) PROVE LinkCosts' /\ RealDistance'
  <2> DEFINE msg == IF first[n] THEN [type |-> "CONNECT", vec |-> Unreachable]
                                ELSE [type |-> "ROUTE_UPDATE", vec |-> own[n]]
  <2>1. msg \in RouteMsg
    BY Links DEF TypeOK, RouteMsg, Vector, Unreachable
  <2>2. RealVector(n, msg.vec)
    BY <1>u DEF RealDistance
  <2>3. Broadcast(n, msg) /\ UNCHANGED tables
    BY <1>1 DEF Update
  <2> HIDE DEF msg
  <2>4. QED
    BY <1>a, <1>b, <2>1, <2>2, <2>3
<1>2. ASSUME NEW n \in Node, Exit(n) PROVE LinkCosts' /\ RealDistance'
  BY <1>2 DEF Exit, tables, LinkCosts, RealDistance
<1>3. ASSUME NEW n \in Node, Start(n) PROVE LinkCosts' /\ RealDistance'
  <2>1. /\ nct'[n] = NctCreated(n) /\ dv'[n] = DvCreated(n) /\ own'[n] = OwnCreated(n)
        /\ \A k \in Node \ {n} : nct'[k] = nct[k] /\ dv'[k] = dv[k] /\ own'[k] = own[k]
        /\ chan' = chan
    BY <1>3 DEF Start, TypeOK
  <2>2. LinkCosts'
    BY <2>1 DEF LinkCosts, NctCreated
  <2>3. RealDistance'
    BY <2>1, CreatedReal DEF RealDistance
  <2>4. QED
    BY <2>2, <2>3
<1>4. ASSUME NEW n \in Node, SendClose(n) PROVE LinkCosts' /\ RealDistance'
  <2>1. [type |-> "CLOSE", vec |-> Unreachable] \in RouteMsg
    BY Links DEF RouteMsg, Vector, Unreachable
  <2>2. QED
    BY <1>4, <2>1, <1>u, <1>a, <1>b DEF SendClose
<1>5. ASSUME NEW l \in Link, TakeRouteMsg(l[2], l[1]) PROVE LinkCosts' /\ RealDistance'
  <2> DEFINE n == l[2]
             m == l[1]
             msg == Head(chan[l])
  <2>1. n \in Node /\ m \in Node /\ m \in Nbrs(n) /\ l = <<m, n>>
    BY Links
  <2>2. TakeRouteMsg(n, m) /\ HeadTaken(l)
    BY <1>5, <2>1 DEF TakeRouteMsg
  <2>3. msg \in RouteMsg /\ RealVector(m, msg.vec)
    <3>1. msg \in RouteMsg /\ msg = chan[l][1] /\ 1 \in 1..Len(chan[l])
      BY <2>2, HeadTakenLinks
    <3>2. QED
      BY <3>1 DEF RealDistance
  <2>4. nct'[n][m] = NctAfter(n, m, msg) /\ dv'[n][m] = RowAfter(m, msg)
    BY <2>1, <2>2, Taken
  <2> HIDE DEF n, m, msg
  <2>5. NctAfter(n, m, msg) \in {Cost[n][m], INFINITE_COST}
    BY <2>1 DEF NctAfter, LinkCosts
  <2>6. RealVector(m, RowAfter(m, msg))
    BY <2>1, <2>3, <1>u, CreatedReal DEF RowAfter
  <2>7. LinkCosts'
    <3>1. ASSUME NEW k \in Nbrs(n) PROVE nct'[n][k] \in {Cost[n][k], INFINITE_COST}
      BY <2>1, <2>2, <2>4, <2>5, Taken DEF LinkCosts
    <3>2. \A x \in Node \ {n} : nct'[x] = nct[x]
      BY <2>1, <2>2, Taken
    <3>3. QED
      BY <3>1, <3>2 DEF LinkCosts
  <2>8. ASSUME NEW k \in Nbrs(n) PROVE RealVector(k, dv'[n][k])
    BY <2>1, <2>2, <2>4, <2>6, Taken DEF RealDistance
  <2>9. RealVector(n, own'[n])
    <3>1. \A d \in Node : (d = n => own'[n][d] = 0)
                          /\ (d # n => Best(n, nct'[n], dv'[n], own'[n][d], next'[n][d], d))
      BY <2>1, <2>2, TakenCosts
    <3>2. QED
      BY <2>1, <2>7, <2>8, <3>1, RealCosts DEF LinkCosts
  <2>10. \A x \in Node \ {n} : dv'[x] = dv[x] /\ own'[x] = own[x]
    BY <2>1, <2>2, Taken
  <2>11. RealDistance'
    BY <1>c, <2>2, <2>8, <2>9, <2>10 DEF RealDistance
  <2>12. QED
    BY <2>7, <2>11
<1>6. ASSUME NEW l \in Link, DropRouteMsg(l[2], l[1]) PROVE LinkCosts' /\ RealDistance'
  <2>1. HeadTaken(l) /\ UNCHANGED tables
    BY <1>6, Links DEF DropRouteMsg
  <2>2. QED
    BY <1>a, <1>c, <2>1
<1>7. ASSUME NEW n \in Node, NEW d \in Dest, SendSeg(n, d) PROVE LinkCosts' /\ RealDistance'
  BY <1>7 DEF SendSeg, tables, LinkCosts, RealDistance
<1>8. ASSUME NEW p \in pkts, HandlePacket(p) PROVE LinkCosts' /\ RealDistance'
  BY <1>8 DEF HandlePacket, tables, LinkCosts, RealDistance
<1>9. CASE UNCHANGED vars
  BY <1>9 DEF vars, tables, LinkCosts, RealDistance
<1>10. QED
  BY <1>1, <1>2, <1>3, <1>4, <1>5, <1>6, <1>7, <1>8, <1>9, RoutingAssumption DEF Next

-----------------------------------------------------------------------------
(* Routing tables and cost tables agree                                    *)

\* Only a new process and pkthandler change the tables, and both of them whole.
LEMMA AgreeStep == TypeOK /\ RoutesAgree /\ [Next]_vars => RoutesAgree'
<1> SUFFICES ASSUME TypeOK, RoutesAgree, [Next]_vars PROVE RoutesAgree'
  OBVIOUS
<1>a. ASSUME UNCHANGED tables PROVE RoutesAgree'
  BY <1>a DEF tables, RoutesAgree
<1>1. ASSUME NEW n \in Node, Start(n) PROVE RoutesAgree'
  <2>1. /\ nct'[n] = NctCreated(n) /\ dv'[n] = DvCreated(n) /\ own'[n] = OwnCreated(n)
        /\ next'[n] = NextCreated(n)
        /\ \A k \in Node \ {n} : nct'[k] = nct[k] /\ dv'[k] = dv[k] /\ own'[k] = own[k] /\ next'[k] = next[k]
    BY <1>1 DEF Start, TypeOK
  <2>2. QED
    BY <2>1, CreatedAgree DEF RoutesAgree
<1>2. ASSUME NEW l \in Link, TakeRouteMsg(l[2], l[1]) PROVE RoutesAgree'
  <2>1. l[2] \in Node /\ l[1] \in Nbrs(l[2])
    BY Links
  <2>2. \A d \in Node \ {l[2]} :
          Best(l[2], nct'[l[2]], dv'[l[2]], own'[l[2]][d], next'[l[2]][d], d)
    BY <1>2, <2>1, TakenCosts
  <2>3. \A k \in Node \ {l[2]} : nct'[k] = nct[k] /\ dv'[k] = dv[k] /\ own'[k] = own[k] /\ next'[k] = next[k]
    BY <1>2, <2>1, Taken
  <2>4. QED
    BY <2>2, <2>3 DEF RoutesAgree
<1>3. CASE UNCHANGED vars
  BY <1>a, <1>3 DEF vars
<1>4. ASSUME NEW n \in Node, Update(n) \/ Exit(n) \/ SendClose(n) PROVE RoutesAgree'
  BY <1>a, <1>4 DEF Update, Exit, SendClose
<1>5. ASSUME NEW l \in Link, DropRouteMsg(l[2], l[1]) PROVE RoutesAgree'
  BY <1>a, <1>5 DEF DropRouteMsg
<1>6. ASSUME NEW n, NEW d, SendSeg(n, d) PROVE RoutesAgree'
  BY <1>a, <1>6 DEF SendSeg
<1>7. ASSUME NEW p, HandlePacket(p) PROVE RoutesAgree'
  BY <1>a, <1>7 DEF HandlePacket
<1>8. QED
  BY <1>1, <1>2, <1>3, <1>4, <1>5, <1>6, <1>7, RoutingAssumption DEF Next

-----------------------------------------------------------------------------
(* Costs fall while no process is stopped                                  *)

\* Vectors are compared cost by cost.
LEMMA NoBetterTrans ==
  ASSUME NEW m, NEW u, NEW v, NEW w,
         \A d \in Node : u[d] \in Nat /\ v[d] \in Nat /\ w[d] \in Nat,
         NoBetter(m, u, v), NoBetter(m, v, w)
  PROVE  NoBetter(m, u, w)
BY DEF NoBetter

\* pkthandler lowers the costs of its node if the row it stores is not higher
\* than the one before and no link is closed.
LEMMA OwnFalls ==
  ASSUME TypeOK, TypeOK', RoutesAgree, NEW n \in Node, NEW m \in Nbrs(n),
         TakeRouteMsg(n, m), nct'[n] = nct[n], NoBetter(m, dv[n][m], dv'[n][m])
  PROVE  NoBetter(n, own[n], own'[n])
<1>1. SUFFICES ASSUME NEW d \in Node \ {n} PROVE own'[n][d] =< own[n][d]
  BY DEF NoBetter
<1>2. own[n][d] \in 0..INFINITE_COST /\ own'[n][d] \in 0..INFINITE_COST /\ INFINITE_COST \in Nat
  BY Links DEF TypeOK, Vector
<1>3. Best(n, nct[n], dv[n], own[n][d], next[n][d], d)
  BY DEF RoutesAgree
<1>4. Best(n, nct[n], dv'[n], own'[n][d], next'[n][d], d)
  BY TakenCosts
<1>5. CASE own[n][d] = INFINITE_COST
  BY <1>2, <1>5
<1>6. CASE own[n][d] # INFINITE_COST
  <2> DEFINE k == next[n][d]
  <2>1. k \in Nbrs(n) /\ k \in Node /\ own[n][d] = Via(nct[n], dv[n], k, d)
    BY <1>3, <1>6, Links DEF Best
  <2>2. ~(d \in Nbrs(n) /\ nct[n][d] = INFINITE_COST)
    BY <1>3, <1>6 DEF Best
  <2>3. own'[n][d] =< Via(nct[n], dv'[n], k, d)
    BY <1>4, <2>1, <2>2 DEF Best
  <2> HIDE DEF k
  <2>4. nct[n][k] \in Nat /\ dv[n][k] \in Vector /\ dv'[n][k] \in Vector
    <3>1. nct[n] \in [Nbrs(n) -> 1..INFINITE_COST] /\ dv[n] \in [Nbrs(n) -> Vector]
      BY DEF TypeOK
    <3>2. dv'[n] \in [Nbrs(n) -> Vector]
      BY Taken
    <3>3. QED
      BY <2>1, <3>1, <3>2, Links
  <2>5. dv[n][k][d] \in Nat /\ dv'[n][k][d] \in Nat
    BY <2>4, Links DEF Vector
  <2>6. ASSUME k # d PROVE dv'[n][k][d] =< dv[n][k][d]
    <3>1. CASE k = m
      BY <2>6, <3>1 DEF NoBetter
    <3>2. CASE k # m
      <4>1. \A x \in Nbrs(n) \ {m} : dv'[n][x] = dv[n][x]
        BY Taken
      <4>2. QED
        BY <2>1, <2>5, <3>2, <4>1
    <3>3. QED
      BY <3>1, <3>2
  <2>7. QED
    BY <1>2, <2>1, <2>3, <2>4, <2>5, <2>6 DEF Via
<1>7. QED
  BY <1>5, <1>6

\* A node whose link to a neighbour falls has a sound picture of it after a
\* step that leaves the link alone and lowers the costs of the neighbour.
LEMMA FallingKept ==
  ASSUME TypeOK, TypeOK', NEW n \in Node, NEW m \in Nbrs(n), FallingTo(m, n),
         chan'[<<m, n>>] = chan[<<m, n>>], dv'[n][m] = dv[n][m],
         first'[m] => first[m], NoBetter(m, own[m], own'[m])
  PROVE  FallingTo(m, n)'
<1> DEFINE msgs == chan[<<m, n>>]
<1>1. m \in Node /\ <<m, n>> \in Link
  BY Links
<1>2. msgs \in Seq(RouteMsg)
  BY <1>1 DEF TypeOK
<1>3. \A d \in Node : own[m][d] \in Nat /\ own'[m][d] \in Nat /\ dv[n][m][d] \in Nat
  BY <1>1, Links DEF TypeOK, Vector
<1>4. ASSUME NEW i \in 1..Len(msgs)
      PROVE  \A d \in Node : RowAfter(m, msgs[i])[d] \in Nat
  <2> DEFINE row == RowAfter(m, msgs[i])
  <2>1. row \in Vector /\ INFINITE_COST \in Nat
    BY <1>2, MsgType, Links
  <2> HIDE DEF row
  <2>2. \A d \in Node : row[d] \in Nat
    BY <2>1 DEF Vector
  <2>3. QED
    BY <2>2 DEF row
<1>5. NoBetter(m, dv[n][m], own'[m])
  BY <1>3, NoBetterTrans DEF FallingTo
<1>6. ASSUME NEW i \in 1..Len(msgs) PROVE NoBetter(m, RowAfter(m, msgs[i]), own'[m])
  BY <1>3, <1>4, NoBetterTrans DEF FallingTo
<1>7. QED
  BY <1>5, <1>6 DEF FallingTo

\* A message that is taken or dropped: the rest of the link still falls.
LEMMA FallingTaken ==
  ASSUME TypeOK, NEW n \in Node, NEW m \in Nbrs(n), FallingTo(m, n),
         HeadTaken(<<m, n>>), first'[m] = first[m], own'[m] = own[m],
         \/ dv'[n][m] = dv[n][m]
         \/ dv'[n][m] = RowAfter(m, Head(chan[<<m, n>>]))
  PROVE  FallingTo(m, n)' /\ NoBetter(m, dv[n][m], RowAfter(m, Head(chan[<<m, n>>])))
         /\ Head(chan[<<m, n>>]).type # "CLOSE"
<1> DEFINE old == chan[<<m, n>>]
           new == chan'[<<m, n>>]
<1>1. /\ Len(old) \in Nat \ {0} /\ Head(old) = old[1]
      /\ Len(new) = Len(old) - 1
      /\ \A i \in 1..Len(new) : new[i] = old[i+1] /\ i + 1 \in 1..Len(old)
  <2>1. <<m, n>> \in Link
    BY Links
  <2>2. QED
    BY <2>1, HeadTakenLinks
<1>2. /\ NoBetter(m, dv[n][m], own[m])
      /\ first[m] => old = <<>>
      /\ \A i \in 1..Len(old) :
           /\ old[i].type # "CLOSE"
           /\ NoBetter(m, RowAfter(m, old[i]), own[m])
           /\ NoBetter(m, dv[n][m], RowAfter(m, old[i]))
           /\ \A j \in 1..Len(old) :
                i =< j => NoBetter(m, RowAfter(m, old[i]), RowAfter(m, old[j]))
  BY DEF FallingTo
<1> HIDE DEF old, new
<1>3. old # <<>> /\ 1 \in 1..Len(old)
  BY <1>1
<1>4. ~first'[m]
  BY <1>2, <1>3
<1>5. NoBetter(m, dv'[n][m], own'[m])
  <2>1. NoBetter(m, RowAfter(m, Head(old)), own[m])
    BY <1>1, <1>2, <1>3
  <2>2. QED
    BY <1>2, <2>1 DEF old
<1>6. ASSUME NEW i \in 1..Len(new)
      PROVE  /\ new[i].type # "CLOSE"
             /\ NoBetter(m, RowAfter(m, new[i]), own'[m])
             /\ NoBetter(m, dv'[n][m], RowAfter(m, new[i]))
  <2>1. new[i] = old[i+1] /\ i + 1 \in 1..Len(old) /\ 1 =< i + 1
    BY <1>1
  <2>2. NoBetter(m, RowAfter(m, Head(old)), RowAfter(m, old[i+1]))
    BY <1>1, <1>2, <1>3, <2>1
  <2>3. QED
    BY <1>2, <2>1, <2>2 DEF old
<1>7. ASSUME NEW i \in 1..Len(new), NEW j \in 1..Len(new), i =< j
      PROVE  NoBetter(m, RowAfter(m, new[i]), RowAfter(m, new[j]))
  <2>1. new[i] = old[i+1] /\ new[j] = old[j+1] /\ i + 1 =< j + 1
        /\ i + 1 \in 1..Len(old) /\ j + 1 \in 1..Len(old)
    BY <1>1, <1>7
  <2>2. QED
    BY <1>2, <2>1
<1>8. FallingTo(m, n)'
  BY <1>4, <1>5, <1>6, <1>7 DEF FallingTo, new
<1>9. QED
  BY <1>1, <1>2, <1>3, <1>8 DEF old

\* The message of routeupdate_daemon: the links it goes to still fall.
LEMMA FallingSent ==
  ASSUME TypeOK, NEW n \in Node, NEW m \in Nbrs(n), FallingTo(m, n), Update(m),
         NoBetter(m, Cost[m], own[m])
  PROVE  FallingTo(m, n)'
<1> DEFINE msg == IF first[m] THEN [type |-> "CONNECT", vec |-> Unreachable]
                              ELSE [type |-> "ROUTE_UPDATE", vec |-> own[m]]
           old == chan[<<m, n>>]
           new == chan'[<<m, n>>]
           row(i) == RowAfter(m, new[i])
<1>1. m \in Node /\ <<m, n>> \in Link /\ <<m, n>>[1] = m
  BY Links
<1>2. msg \in RouteMsg
  BY <1>1, Links DEF TypeOK, RouteMsg, Vector, Unreachable
<1>3. Broadcast(m, msg)
  BY DEF Update
<1>4. first'[m] = FALSE /\ own' = own /\ dv' = dv
  BY <1>1 DEF Update, TypeOK, tables
<1>5. msg.type # "CLOSE" /\ RowAfter(m, msg) = IF first[m] THEN [d \in Node |-> Cost[m][d]] ELSE own[m]
  BY DEF RowAfter
<1>6. Cost[m] = [d \in Node |-> Cost[m][d]]
  BY <1>1, RoutingAssumption
<1> HIDE DEF msg
<1>7. /\ Len(new) = Len(old) + 1 /\ Len(old) \in Nat
      /\ new[Len(old) + 1] = msg
      /\ \A i \in 1..Len(old) : new[i] = old[i]
  BY <1>1, <1>2, <1>3, BroadcastLinks
<1>8. /\ NoBetter(m, dv[n][m], own[m])
      /\ first[m] => old = <<>> /\ NoBetter(m, dv[n][m], Cost[m])
      /\ \A i \in 1..Len(old) :
           /\ old[i].type # "CLOSE"
           /\ NoBetter(m, RowAfter(m, old[i]), own[m])
           /\ NoBetter(m, dv[n][m], RowAfter(m, old[i]))
           /\ \A j \in 1..Len(old) :
                i =< j => NoBetter(m, RowAfter(m, old[i]), RowAfter(m, old[j]))
  BY DEF FallingTo
<1>9. NoBetter(m, RowAfter(m, msg), own[m]) /\ NoBetter(m, dv[n][m], RowAfter(m, msg))
  <2>1. NoBetter(m, own[m], own[m])
    BY <1>1, Links DEF NoBetter, TypeOK, Vector
  <2>2. QED
    BY <1>5, <1>6, <1>8, <2>1
<1>10. NoBetter(m, RowAfter(m, msg), RowAfter(m, msg))
  <2>1. RowAfter(m, msg) \in Vector
    BY <1>2, MsgType
  <2>2. QED
    BY <2>1, Links DEF NoBetter, Vector
<1> HIDE DEF old, new
<1>11. ASSUME NEW i \in 1..Len(new)
       PROVE  new[i].type # "CLOSE" /\ NoBetter(m, row(i), own[m]) /\ NoBetter(m, dv[n][m], row(i))
  <2>1. CASE i \in 1..Len(old)
    BY <1>7, <1>8, <2>1
  <2>2. CASE i = Len(old) + 1
    BY <1>5, <1>7, <1>9, <2>2
  <2>3. QED
    BY <1>7, <2>1, <2>2
<1>12. ASSUME NEW i \in 1..Len(new), NEW j \in 1..Len(new), i =< j
       PROVE  NoBetter(m, row(i), row(j))
  <2>1. CASE j \in 1..Len(old)
    <3>1. i \in 1..Len(old)
      BY <1>7, <1>12, <2>1
    <3>2. QED
      BY <1>7, <1>8, <1>12, <2>1, <3>1
  <2>2. CASE j = Len(old) + 1 /\ i \in 1..Len(old)
    <3>1. ~first[m]
      BY <1>7, <1>8, <2>2
    <3>2. QED
      BY <1>5, <1>7, <1>8, <2>2, <3>1
  <2>3. CASE i = Len(old) + 1 /\ j = Len(old) + 1
    BY <1>7, <1>10, <2>3
  <2>4. QED
    BY <1>7, <1>12, <2>1, <2>2, <2>3
<1>13. QED
  BY <1>4, <1>8, <1>11, <1>12 DEF FallingTo, new

\* Until a process is stopped, costs only fall.
LEMMA FallStep ==
  TypeOK /\ TypeOK' /\ RoutesAgree /\ CostsFall /\ [Next]_vars => CostsFall'
<1> SUFFICES ASSUME TypeOK, TypeOK', RoutesAgree, CostsFall, [Next]_vars, stops' = 0
             PROVE  Fresh' /\ Falling' /\ \A n \in Node : NoBetter(n, Cost[n], own'[n])
  BY DEF CostsFall
<1> DEFINE Goal == Fresh' /\ Falling' /\ \A n \in Node : NoBetter(n, Cost[n], own'[n])
<1>s. ASSUME stops = 0
      PROVE  Fresh /\ (\A n \in Node : NoBetter(n, Cost[n], own[n]))
             /\ (\A n \in Node : \A m \in Nbrs(n) : FallingTo(m, n))
  <2>1. Falling
    BY <1>s DEF CostsFall
  <2>2. \A n \in Node : \A m \in Nbrs(n) : FallingTo(m, n)
    <3>1. TAKE n \in Node
    <3>2. TAKE m \in Nbrs(n)
    <3>3. <<m, n>> \in Link
      BY Links
    <3>4. FallingTo(<<m, n>>[1], <<m, n>>[2])
      BY <2>1, <3>3 DEF Falling
    <3>5. QED
      BY <3>4
  <2>3. QED
    BY <1>s, <2>2 DEF CostsFall
<1>f. ASSUME \A n \in Node : \A m \in Nbrs(n) : FallingTo(m, n)' PROVE Falling'
  BY <1>f, Links DEF Falling
<1>n. \A n \in Node : NoBetter(n, own[n], own[n])
  BY Links DEF NoBetter, TypeOK, Vector
<1>0. ASSUME stops' = stops, UNCHANGED <<sip, first, tables, chan>> PROVE Goal
  <2>1. Fresh' /\ \A n \in Node : NoBetter(n, Cost[n], own'[n])
    BY <1>0, <1>s DEF Fresh, tables
  <2>2. \A n \in Node : \A m \in Nbrs(n) : FallingTo(m, n)'
    <3>1. TAKE n \in Node
    <3>2. TAKE m \in Nbrs(n)
    <3>3. m \in Node
      BY Links
    <3>4. stops = 0 /\ chan' = chan /\ dv' = dv /\ own' = own /\ first' = first
      BY <1>0 DEF tables
    <3>5. QED
      BY <1>s, <1>n, <3>3, <3>4, FallingKept
  <2>3. QED
    BY <1>f, <2>1, <2>2
<1>1. ASSUME NEW x \in Node, Update(x) PROVE Goal
  <2>1. stops = 0 /\ UNCHANGED <<sip, tables>> /\ (\A k \in Node : first'[k] => first[k])
        /\ \A k \in Node : sip[k] = "down" => first'[k] = first[k]
    BY <1>1 DEF Update, TypeOK
  <2>2. Fresh' /\ \A n \in Node : NoBetter(n, Cost[n], own'[n])
    BY <1>s, <2>1 DEF Fresh, tables
  <2>3. ASSUME NEW n \in Node, NEW m \in Nbrs(n) PROVE FallingTo(m, n)'
    <3>1. m \in Node /\ <<m, n>> \in Link /\ <<m, n>>[1] = m
      BY Links
    <3>2. CASE m = x
      BY <1>1, <1>s, <2>1, <3>1, <3>2, FallingSent
    <3>3. CASE m # x
      <4>1. chan'[<<m, n>>] = chan[<<m, n>>]
        BY <1>1, <3>1, <3>3 DEF Update, Broadcast
      <4>2. QED
        BY <1>s, <1>n, <2>1, <3>1, <4>1, FallingKept DEF tables
    <3>4. QED
      BY <3>2, <3>3
  <2>4. QED
    BY <1>f, <2>2, <2>3
<1>2. ASSUME NEW x \in Node, Exit(x) PROVE Goal
  BY <1>2, <1>s DEF Exit, Fresh
<1>3. ASSUME NEW x \in Node, Start(x) PROVE Goal
  <2>1. stops = 0 /\ UNCHANGED <<chan>>
    BY <1>3 DEF Start
  <2>2. sip[x] = "down" /\ nct[x] = NctCreated(x) /\ dv[x] = DvCreated(x)
        /\ own[x] = OwnCreated(x) /\ next[x] = NextCreated(x) /\ first[x]
    BY <1>3, <1>s, <2>1 DEF Start, Fresh
  <2>3. \A k \in Node : /\ nct'[k] = nct[k] /\ dv'[k] = dv[k] /\ own'[k] = own[k] /\ next'[k] = next[k]
                        /\ first'[k] = first[k]
    <3>1. first' = [first EXCEPT ![x] = TRUE] /\ nct' = [nct EXCEPT ![x] = NctCreated(x)]
          /\ dv' = [dv EXCEPT ![x] = DvCreated(x)] /\ own' = [own EXCEPT ![x] = OwnCreated(x)]
          /\ next' = [next EXCEPT ![x] = NextCreated(x)]
      BY <1>3 DEF Start
    <3>2. DOMAIN nct = Node /\ DOMAIN dv = Node /\ DOMAIN own = Node /\ DOMAIN next = Node
          /\ first \in [Node -> BOOLEAN]
      BY DEF TypeOK
    <3>3. TAKE k \in Node
    <3>4. nct'[k] = nct[k] /\ dv'[k] = dv[k]
      BY <2>2, <3>1, <3>2
    <3>5. own'[k] = own[k] /\ next'[k] = next[k]
      BY <2>2, <3>1, <3>2
    <3>6. first'[k] = first[k]
      BY <2>2, <3>1, <3>2
    <3>7. QED
      BY <3>4, <3>5, <3>6
  <2>4. \A k \in Node : sip'[k] # "closing" /\ (sip'[k] = "down" => sip[k] = "down")
    BY <1>3, <1>s, <2>1 DEF Start, TypeOK, Fresh
  <2>5. Fresh' /\ \A n \in Node : NoBetter(n, Cost[n], own'[n])
    BY <1>s, <2>1, <2>3, <2>4 DEF Fresh
  <2>6. ASSUME NEW n \in Node, NEW m \in Nbrs(n) PROVE FallingTo(m, n)'
    <3>1. m \in Node
      BY Links
    <3>2. QED
      BY <1>s, <1>n, <2>1, <2>3, <3>1, FallingKept
  <2>7. QED
    BY <1>f, <2>5, <2>6
<1>4. ASSUME NEW x \in Node, SendClose(x) PROVE Goal
  BY <1>4 DEF SendClose, TypeOK
<1>5. ASSUME NEW l \in Link, TakeRouteMsg(l[2], l[1]) PROVE Goal
  <2>n. PICK n \in Node : \E m \in Nbrs(n) : TakeRouteMsg(n, m)
    BY <1>5, Links
  <2>1. PICK m \in Nbrs(n) : TakeRouteMsg(n, m)
    BY <2>n
  <2> DEFINE msg == Head(chan[<<m, n>>])
  <2>2. m \in Node /\ m # n /\ <<m, n>> \in Link /\ HeadTaken(<<m, n>>) /\ stops = 0
        /\ sip' = sip /\ first' = first /\ sip[n] # "down"
    BY <2>1, Links DEF TakeRouteMsg
  <2>3. /\ nct'[n][m] = NctAfter(n, m, msg) /\ dv'[n][m] = RowAfter(m, msg)
        /\ nct'[n] \in [Nbrs(n) -> 1..INFINITE_COST]
        /\ \A k \in Nbrs(n) \ {m} : nct'[n][k] = nct[n][k] /\ dv'[n][k] = dv[n][k]
        /\ \A k \in Node \ {n} : nct'[k] = nct[k] /\ dv'[k] = dv[k] /\ own'[k] = own[k] /\ next'[k] = next[k]
    BY <2>1, Taken
  <2>4. FallingTo(m, n)' /\ NoBetter(m, dv[n][m], RowAfter(m, msg)) /\ msg.type # "CLOSE"
    BY <1>s, <2>1, <2>2, <2>3, FallingTaken
  <2> HIDE DEF msg
  <2>5. nct[n] = NctCreated(n) /\ nct[n] \in [Nbrs(n) -> 1..INFINITE_COST]
    BY <1>s, <2>2 DEF Fresh, TypeOK
  <2>6. NctAfter(n, m, msg) = nct[n][m]
    BY <2>4, <2>5 DEF NctAfter, NctCreated
  <2>7. nct'[n] = nct[n]
    BY <2>3, <2>5, <2>6
  <2>8. NoBetter(n, own[n], own'[n])
    BY <2>1, <2>3, <2>4, <2>7, OwnFalls
  <2>9. \A k \in Node : NoBetter(k, own[k], own'[k])
    BY <1>n, <2>3, <2>8
  <2>10. \A k \in Node : NoBetter(k, Cost[k], own'[k])
    <3>1. TAKE k \in Node
    <3>2. \A d \in Node : Cost[k][d] \in Nat /\ own[k][d] \in Nat /\ own'[k][d] \in Nat
      <4>1. own[k] \in Vector /\ own'[k] \in Vector /\ INFINITE_COST \in Nat
        BY Links DEF TypeOK
      <4>2. \A d \in Node : own[k][d] \in Nat /\ own'[k][d] \in Nat
        BY <4>1 DEF Vector
      <4>3. \A d \in Node : Cost[k][d] \in Nat
        BY <4>1, Links
      <4>4. QED
        BY <4>2, <4>3
    <3>3. QED
      BY <1>s, <2>2, <2>9, <3>2, NoBetterTrans
  <2>11. Fresh'
    BY <1>s, <2>2, <2>3, <2>7 DEF Fresh
  <2>12. ASSUME NEW y \in Node, NEW x \in Nbrs(y) PROVE FallingTo(x, y)'
    <3>1. x \in Node /\ <<x, y>> \in Link
      BY Links
    <3>2. CASE x = m /\ y = n
      BY <2>4, <3>2
    <3>3. CASE ~(x = m /\ y = n)
      <4>1. <<x, y>> # <<m, n>>
        BY <3>3
      <4>2. chan'[<<x, y>>] = chan[<<x, y>>]
        BY <2>2, <3>1, <4>1, HeadTakenLinks
      <4>3. dv'[y][x] = dv[y][x]
        BY <2>3, <3>3
      <4>4. QED
        BY <1>s, <2>2, <2>9, <3>1, <4>2, <4>3, FallingKept
    <3>4. QED
      BY <3>2, <3>3
  <2>13. QED
    BY <1>f, <2>10, <2>11, <2>12
<1>6. ASSUME NEW l \in Link, DropRouteMsg(l[2], l[1]) PROVE Goal
  <2>n. PICK n \in Node : \E m \in Nbrs(n) : DropRouteMsg(n, m)
    BY <1>6, Links
  <2>1. PICK m \in Nbrs(n) : DropRouteMsg(n, m)
    BY <2>n
  <2>2. m \in Node /\ <<m, n>> \in Link /\ HeadTaken(<<m, n>>) /\ stops = 0
        /\ UNCHANGED <<sip, first, tables>>
    BY <2>1, Links DEF DropRouteMsg
  <2>3. Fresh' /\ \A k \in Node : NoBetter(k, Cost[k], own'[k])
    BY <1>s, <2>2 DEF Fresh, tables
  <2>4. ASSUME NEW y \in Node, NEW x \in Nbrs(y) PROVE FallingTo(x, y)'
    <3>1. x \in Node /\ <<x, y>> \in Link
      BY Links
    <3>2. CASE x = m /\ y = n
      BY <1>s, <2>2, <3>2, FallingTaken DEF tables
    <3>3. CASE ~(x = m /\ y = n)
      <4>1. chan'[<<x, y>>] = chan[<<x, y>>]
        BY <2>2, <3>1, <3>3, HeadTakenLinks
      <4>2. QED
        BY <1>s, <1>n, <2>2, <3>1, <4>1, FallingKept DEF tables
    <3>4. QED
      BY <3>2, <3>3
  <2>5. QED
    BY <1>f, <2>3, <2>4
<1>7. ASSUME NEW n, NEW d, SendSeg(n, d) PROVE Goal
  BY <1>0, <1>7 DEF SendSeg
<1>8. ASSUME NEW p, HandlePacket(p) PROVE Goal
  BY <1>0, <1>8 DEF HandlePacket
<1>9. CASE UNCHANGED vars
  BY <1>0, <1>9 DEF vars
<1>10. QED
  BY <1>1, <1>2, <1>3, <1>4, <1>5, <1>6, <1>7, <1>8, <1>9, RoutingAssumption DEF Next

\* Following the routing tables to d, costs get strictly smaller.
LEMMA Downhill ==
  ASSUME RoutingInv, stops = 0, NEW d \in Node, NEW n \in Node \ {d}, next[n][d] \in Node \ {d}
  PROVE  own[next[n][d]][d] < own[n][d]
<1> DEFINE k == next[n][d]
<1>1. TypeOK /\ LinkCosts /\ RoutesAgree /\ Falling
  BY DEF RoutingInv, CostsFall
<1>2. own[n][d] \in Nat /\ own[n][d] # INFINITE_COST
  <2>1. Best(n, nct[n], dv[n], own[n][d], next[n][d], d)
    BY <1>1 DEF RoutesAgree
  <2>2. own[n][d] # INFINITE_COST
    BY <2>1, RoutingAssumption DEF Best
  <2>3. own[n] \in Vector /\ INFINITE_COST \in Nat
    BY <1>1, Links DEF TypeOK
  <2>4. QED
    BY <2>2, <2>3 DEF Vector
<1>3. k \in Nbrs(n) /\ own[n][d] = Via(nct[n], dv[n], k, d)
  BY <1>1, <1>2 DEF RoutesAgree, Best
<1>4. k \in Node /\ k # d /\ <<k, n>> \in Link
  BY <1>3, Links
<1> HIDE DEF k
<1>5. own[n][d] = nct[n][k] + dv[n][k][d] /\ nct[n][k] \in 1..INFINITE_COST
  BY <1>1, <1>3, <1>4 DEF Via, TypeOK
<1>6. own[k][d] =< dv[n][k][d]
  <2>1. FallingTo(<<k, n>>[1], <<k, n>>[2])
    BY <1>1, <1>4 DEF Falling
  <2>2. NoBetter(k, dv[n][k], own[k])
    BY <2>1 DEF FallingTo
  <2>3. QED
    BY <1>4, <2>2 DEF NoBetter
<1>7. own[k] \in Vector /\ dv[n][k] \in Vector /\ INFINITE_COST \in Nat
  BY <1>1, <1>3, <1>4, Links DEF TypeOK
<1>8. own[k][d] \in Nat /\ dv[n][k][d] \in Nat
  BY <1>7 DEF Vector
<1>9. QED
  BY <1>5, <1>6, <1>7, <1>8 DEF k

\* So a set of nodes that passes packets around has no node of least cost.
LEMMA LoopFree == RoutingInv => NoRoutingLoop
<1> SUFFICES ASSUME RoutingInv, stops = 0, NEW d \in Node, NEW S \in SUBSET (Node \ {d}),
                    \A n \in S : next[n][d] \in S, S # {}
             PROVE  FALSE
  BY DEF NoRoutingLoop
<1> DEFINE costs == {own[n][d] : n \in S}
<1>1. \A n \in S : own[n][d] \in Nat
  <2>1. own \in [Node -> Vector] /\ INFINITE_COST \in Nat
    BY Links DEF RoutingInv, TypeOK
  <2>2. QED
    BY <2>1 DEF Vector
<1>2. costs \in SUBSET Nat /\ costs # {}
  BY <1>1
<1>3. Min(costs) \in costs /\ \A x \in costs : Min(costs) =< x
  BY <1>2, MinOfNats
<1>4. PICK n \in S : own[n][d] = Min(costs)
  BY <1>3
<1> DEFINE k == next[n][d]
<1>5. k \in S /\ own[k][d] < own[n][d]
  BY Downhill
<1> HIDE DEF k
<1>6. own[k][d] \in costs
  BY <1>5
<1>7. Min(costs) =< own[k][d]
  BY <1>3, <1>6
<1> HIDE DEF costs
<1>8. own[k][d] \in Nat /\ own[n][d] \in Nat
  BY <1>1, <1>5
<1>9. QED
  BY <1>4, <1>5, <1>7, <1>8

-----------------------------------------------------------------------------
(* The theorems                                                            *)

\* The invariant is inductive.
LEMMA RoutingStep == RoutingInv /\ [Next]_vars => RoutingInv'
BY TypeStep, RealStep, AgreeStep, FallStep DEF RoutingInv

\* The tables keep their types, costs stay below INFINITE_COST or at it.
THEOREM RoutingTypes == Spec => []TypeOK
<1>1. RoutingInv => TypeOK
  BY DEF RoutingInv
<1>2. QED
  BY <1>1, InitRouting, RoutingStep, PTL DEF Spec

\* No table and no update ever promises a way shorter than the shortest path.
THEOREM RoutingReal == Spec => []RealDistance
<1>1. RoutingInv => RealDistance
  BY DEF RoutingInv
<1>2. QED
  BY <1>1, InitRouting, RoutingStep, PTL DEF Spec

\* The routing table, which packets follow, is always the one that the cost
\* tables call for.
THEOREM RoutingAgrees == Spec => []RoutesAgree
<1>1. RoutingInv => RoutesAgree
  BY DEF RoutingInv
<1>2. QED
  BY <1>1, InitRouting, RoutingStep, PTL DEF Spec

\* Updates get better and better, and are no better than their sender's vector,
\* until a process is stopped.
THEOREM RoutingFalls == Spec => []CostsFall
<1>1. RoutingInv => CostsFall
  BY DEF RoutingInv
<1>2. QED
  BY <1>1, InitRouting, RoutingStep, PTL DEF Spec

\* Until a process is stopped, the routing tables have no loop, however late
\* processes start and however old the updates are.
THEOREM RoutingLoopFree == Spec => []NoRoutingLoop
<1>1. QED
  BY LoopFree, InitRouting, RoutingStep, PTL DEF Spec
=============================================================================
