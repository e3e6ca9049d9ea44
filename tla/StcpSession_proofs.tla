------------------------- MODULE StcpSession_proofs -------------------------
(***************************************************************************)
(* Proofs about StcpSession, for any number of connections and retries.    *)
(***************************************************************************)
EXTENDS StcpSessionInv, TLAPS

USE SessionAssumption
USE DEF segVars, cliAppVars, hdlVars, clientVars, srvAppVars, shdVars, serverVars

\* Nothing has been called and nothing is in flight.
LEMMA InitInv == Init => SessionInv
<1> SUFFICES ASSUME Init PROVE SessionInv
  OBVIOUS
<1> USE DEF Init
<1>1. TypeOK
  BY DEF TypeOK, AppStages, CallPcs
<1>2. ClientControl /\ ServerControl /\ SegInv /\ StateInv
  BY DEF ClientControl, ServerControl, SegInv, StateInv, Opened, FinTaken, FinSent
<1>3. EstablishedBothEnds /\ OrderlyClose /\ CloseOnlyOnFin
  BY DEF EstablishedBothEnds, OrderlyClose, CloseOnlyOnFin, Opened, FinTaken
<1>4. QED
  BY <1>1, <1>2, <1>3 DEF SessionInv

-----------------------------------------------------------------------------
(* The server                                                              *)

\* What the server has taken stays taken: no step of the server takes back
\* that it opened or closed a connection.
LEMMA ServerKeeps ==
  ASSUME SessionInv, ServerNext, NEW c \in Conn
  PROVE  (Opened(c) => Opened(c)') /\ (FinTaken(c) => FinTaken(c)')
<1> USE DEF SessionInv, Opened, FinTaken
<1>1. ASSUME NEW d \in Conn, ServerSock(d) PROVE (Opened(c) => Opened(c)') /\ (FinTaken(c) => FinTaken(c)')
  BY <1>1 DEF ServerSock, TypeOK, ServerControl
<1>2. ASSUME NEW d \in Conn, Accept(d) PROVE (Opened(c) => Opened(c)') /\ (FinTaken(c) => FinTaken(c)')
  BY <1>2 DEF Accept, TypeOK, ServerControl
<1>3. ASSUME NEW d \in Conn, ServerClose(d) PROVE (Opened(c) => Opened(c)') /\ (FinTaken(c) => FinTaken(c)')
  BY <1>3 DEF ServerClose, TypeOK, ServerControl
<1>4. ASSUME NEW d \in Conn, NEW t \in {"SYN", "FIN"}, ServerRecv(t, d) PROVE (Opened(c) => Opened(c)') /\ (FinTaken(c) => FinTaken(c)')
  BY <1>4 DEF ServerRecv, Gone, TypeOK, ServerControl
<1>5. CASE AcceptReturns
  BY <1>5 DEF AcceptReturns, TypeOK, ServerControl
<1>6. CASE AcceptWaits
  BY <1>6 DEF AcceptWaits, TypeOK, ServerControl
<1>7. CASE ServerExits
  BY <1>7 DEF ServerExits, TypeOK, ServerControl
<1>8. CASE Tick
  BY <1>8 DEF Tick, TypeOK, ServerControl
<1>9. CASE TakeSyn
  BY <1>9 DEF TakeSyn, NextServerSeg, Sent, TypeOK, ServerControl
<1>10. CASE RepeatSynAck
  BY <1>10 DEF RepeatSynAck, NextServerSeg, Sent, TypeOK, ServerControl
<1>11. CASE TakeFin
  BY <1>11 DEF TakeFin, NextServerSeg, Sent, TypeOK, ServerControl
<1>12. CASE ServerIgnores
  BY <1>12 DEF ServerIgnores, NextServerSeg, TypeOK, ServerControl
<1>13. CASE ServerCrashes
  BY <1>13 DEF ServerCrashes, TypeOK, ServerControl
<1>14. CASE ServerSipCloses
  BY <1>14 DEF ServerSipCloses, TypeOK, ServerControl
<1>15. QED
  BY <1>1, <1>2, <1>3, <1>4, <1>5, <1>6, <1>7, <1>8, <1>9, <1>10, <1>11, <1>12, <1>13, <1>14 DEF ServerNext, ServerHandlerStep

\* Every step of the server keeps the invariant.
LEMMA ServerInv == ASSUME SessionInv, ServerNext PROVE SessionInv'
<1> USE DEF SessionInv
<1>1. UNCHANGED clientVars
  BY DEF ServerNext, ServerHandlerStep, ServerSock, Accept, ServerClose, AcceptReturns, AcceptWaits,
         ServerExits, Tick, ServerRecv, TakeSyn, RepeatSynAck, TakeFin, ServerIgnores, ServerCrashes,
         ServerSipCloses
<1>2. \A c \in Conn : (Opened(c) => Opened(c)') /\ (FinTaken(c) => FinTaken(c)')
  BY ServerKeeps
<1>3. ClientControl' /\ StateInv'
  BY <1>1, <1>2 DEF TypeOK, ClientControl, StateInv
<1>4. EstablishedBothEnds' /\ OrderlyClose'
  BY <1>1, <1>2 DEF EstablishedBothEnds, OrderlyClose
<1>5. ASSUME NEW d \in Conn, ServerSock(d) PROVE SessionInv'
  <2>1. TypeOK' /\ ServerControl'
    BY <1>5 DEF ServerSock, TypeOK, ServerControl
  <2>2. SegInv'
    BY <1>1, <1>2, <1>5 DEF ServerSock, TypeOK, ClientControl, ServerControl,
                     SegInv, FinSent
  <2>3. CloseOnlyOnFin'
    BY <1>1, <1>5 DEF ServerSock, TypeOK, ServerControl, SegInv, FinSent, CloseOnlyOnFin, FinTaken
  <2>4. QED
    BY <1>3, <1>4, <2>1, <2>2, <2>3
<1>6. ASSUME NEW d \in Conn, Accept(d) PROVE SessionInv'
  <2>1. TypeOK' /\ ServerControl'
    BY <1>6 DEF Accept, TypeOK, ServerControl
  <2>2. SegInv'
    BY <1>1, <1>2, <1>6 DEF Accept, TypeOK, ClientControl, ServerControl,
                     SegInv, FinSent
  <2>3. CloseOnlyOnFin'
    BY <1>1, <1>6 DEF Accept, TypeOK, ServerControl, SegInv, FinSent, CloseOnlyOnFin, FinTaken
  <2>4. QED
    BY <1>3, <1>4, <2>1, <2>2, <2>3
<1>7. ASSUME NEW d \in Conn, ServerClose(d) PROVE SessionInv'
  <2>1. TypeOK' /\ ServerControl'
    BY <1>7 DEF ServerClose, TypeOK, ServerControl
  <2>2. SegInv'
    BY <1>1, <1>2, <1>7 DEF ServerClose, TypeOK, ClientControl, ServerControl,
                     SegInv, FinSent
  <2>3. CloseOnlyOnFin'
    BY <1>1, <1>7 DEF ServerClose, TypeOK, ServerControl, SegInv, FinSent, CloseOnlyOnFin, FinTaken
  <2>4. QED
    BY <1>3, <1>4, <2>1, <2>2, <2>3
<1>8. ASSUME NEW d \in Conn, NEW t \in {"SYN", "FIN"}, ServerRecv(t, d) PROVE SessionInv'
  <2>1. TypeOK' /\ ServerControl'
    BY <1>8 DEF ServerRecv, Gone, TypeOK, ServerControl
  <2>2. SegInv'
    BY <1>1, <1>2, <1>8 DEF ServerRecv, Gone, TypeOK, ClientControl, ServerControl,
                     SegInv, FinSent
  <2>3. CloseOnlyOnFin'
    BY <1>1, <1>8 DEF ServerRecv, Gone, TypeOK, ServerControl, SegInv, FinSent, CloseOnlyOnFin, FinTaken
  <2>4. QED
    BY <1>3, <1>4, <2>1, <2>2, <2>3
<1>9. CASE AcceptReturns
  <2>1. TypeOK' /\ ServerControl'
    BY <1>9 DEF AcceptReturns, TypeOK, ServerControl
  <2>2. SegInv'
    BY <1>1, <1>2, <1>9 DEF AcceptReturns, TypeOK, ClientControl, ServerControl,
                     SegInv, FinSent
  <2>3. CloseOnlyOnFin'
    BY <1>1, <1>9 DEF AcceptReturns, TypeOK, ServerControl, SegInv, FinSent, CloseOnlyOnFin, FinTaken
  <2>4. QED
    BY <1>3, <1>4, <2>1, <2>2, <2>3
<1>10. CASE AcceptWaits
  <2>1. TypeOK' /\ ServerControl'
    BY <1>10 DEF AcceptWaits, TypeOK, ServerControl
  <2>2. SegInv'
    BY <1>1, <1>2, <1>10 DEF AcceptWaits, TypeOK, ClientControl, ServerControl,
                     SegInv, FinSent
  <2>3. CloseOnlyOnFin'
    BY <1>1, <1>10 DEF AcceptWaits, TypeOK, ServerControl, SegInv, FinSent, CloseOnlyOnFin, FinTaken
  <2>4. QED
    BY <1>3, <1>4, <2>1, <2>2, <2>3
<1>11. CASE ServerExits
  <2>1. TypeOK' /\ ServerControl'
    BY <1>11 DEF ServerExits, TypeOK, ServerControl
  <2>2. SegInv'
    BY <1>1, <1>2, <1>11 DEF ServerExits, TypeOK, ClientControl, ServerControl,
                     SegInv, FinSent
  <2>3. CloseOnlyOnFin'
    BY <1>1, <1>11 DEF ServerExits, TypeOK, ServerControl, SegInv, FinSent, CloseOnlyOnFin, FinTaken
  <2>4. QED
    BY <1>3, <1>4, <2>1, <2>2, <2>3
<1>12. CASE Tick
  <2>1. TypeOK' /\ ServerControl'
    BY <1>12 DEF Tick, TypeOK, ServerControl
  <2>2. SegInv'
    BY <1>1, <1>2, <1>12 DEF Tick, TypeOK, ClientControl, ServerControl,
                     SegInv, FinSent
  <2>3. CloseOnlyOnFin'
    BY <1>1, <1>12 DEF Tick, TypeOK, ServerControl, SegInv, FinSent, CloseOnlyOnFin, FinTaken
  <2>4. QED
    BY <1>3, <1>4, <2>1, <2>2, <2>3
<1>13. CASE TakeSyn
  <2>1. TypeOK' /\ ServerControl'
    BY <1>13 DEF TakeSyn, NextServerSeg, Sent, TypeOK, ServerControl
  <2>2. SegInv'
    BY <1>1, <1>2, <1>13 DEF TakeSyn, NextServerSeg, Sent, TypeOK, ClientControl, ServerControl,
                     SegInv, FinSent, Opened, FinTaken
  <2>3. CloseOnlyOnFin'
    BY <1>1, <1>13 DEF TakeSyn, NextServerSeg, Sent, TypeOK, ServerControl, SegInv, FinSent, CloseOnlyOnFin, FinTaken
  <2>4. QED
    BY <1>3, <1>4, <2>1, <2>2, <2>3
<1>14. CASE RepeatSynAck
  <2>1. TypeOK' /\ ServerControl'
    BY <1>14 DEF RepeatSynAck, NextServerSeg, Sent, TypeOK, ServerControl
  <2>2. SegInv'
    BY <1>1, <1>2, <1>14 DEF RepeatSynAck, NextServerSeg, Sent, TypeOK, ClientControl, ServerControl,
                     SegInv, FinSent, Opened, FinTaken
  <2>3. CloseOnlyOnFin'
    BY <1>1, <1>14 DEF RepeatSynAck, NextServerSeg, Sent, TypeOK, ServerControl, SegInv, FinSent, CloseOnlyOnFin, FinTaken
  <2>4. QED
    BY <1>3, <1>4, <2>1, <2>2, <2>3
<1>15. CASE TakeFin
  <2>1. TypeOK' /\ ServerControl'
    BY <1>15 DEF TakeFin, NextServerSeg, Sent, TypeOK, ServerControl
  <2>2. SegInv'
    BY <1>1, <1>2, <1>15 DEF TakeFin, NextServerSeg, Sent, TypeOK, ClientControl, ServerControl,
                     SegInv, FinSent, Opened, FinTaken
  <2>3. CloseOnlyOnFin'
    BY <1>1, <1>15 DEF TakeFin, NextServerSeg, Sent, TypeOK, ServerControl, SegInv, FinSent, CloseOnlyOnFin, FinTaken
  <2>4. QED
    BY <1>3, <1>4, <2>1, <2>2, <2>3
<1>16. CASE ServerIgnores
  <2>1. TypeOK' /\ ServerControl'
    BY <1>16 DEF ServerIgnores, NextServerSeg, TypeOK, ServerControl
  <2>2. SegInv'
    BY <1>1, <1>2, <1>16 DEF ServerIgnores, NextServerSeg, TypeOK, ClientControl, ServerControl,
                     SegInv, FinSent
  <2>3. CloseOnlyOnFin'
    BY <1>1, <1>16 DEF ServerIgnores, NextServerSeg, TypeOK, ServerControl, SegInv, FinSent, CloseOnlyOnFin, FinTaken
  <2>4. QED
    BY <1>3, <1>4, <2>1, <2>2, <2>3
<1>17. CASE ServerCrashes
  <2>1. TypeOK' /\ ServerControl'
    BY <1>17 DEF ServerCrashes, TypeOK, ServerControl
  <2>2. SegInv'
    BY <1>1, <1>2, <1>17 DEF ServerCrashes, TypeOK, ClientControl, ServerControl,
                     SegInv, FinSent
  <2>3. CloseOnlyOnFin'
    BY <1>1, <1>17 DEF ServerCrashes, TypeOK, ServerControl, SegInv, FinSent, CloseOnlyOnFin, FinTaken
  <2>4. QED
    BY <1>3, <1>4, <2>1, <2>2, <2>3
<1>18. CASE ServerSipCloses
  <2>1. TypeOK' /\ ServerControl'
    BY <1>18 DEF ServerSipCloses, TypeOK, ServerControl
  <2>2. SegInv'
    BY <1>1, <1>2, <1>18 DEF ServerSipCloses, TypeOK, ClientControl, ServerControl,
                     SegInv, FinSent
  <2>3. CloseOnlyOnFin'
    BY <1>1, <1>18 DEF ServerSipCloses, TypeOK, ServerControl, SegInv, FinSent, CloseOnlyOnFin, FinTaken
  <2>4. QED
    BY <1>3, <1>4, <2>1, <2>2, <2>3
<1>19. QED
  BY <1>5, <1>6, <1>7, <1>8, <1>9, <1>10, <1>11, <1>12, <1>13, <1>14, <1>15, <1>16, <1>17, <1>18 DEF ServerNext, ServerHandlerStep

-----------------------------------------------------------------------------
(* The client and the network                                              *)

\* Every step of the client keeps the invariant.
LEMMA ClientInv == ASSUME SessionInv, ClientNext PROVE SessionInv'
<1> USE DEF SessionInv
<1>1. UNCHANGED serverVars
  BY DEF ClientNext, CallStep, ClientHandlerStep, ClientSock, Connect, Disconnect, ClientClose,
         EnterSynSent, ConnectReturns, ResendSyn, ConnectGivesUp, EnterFinWait, DisconnectReturns,
         ResendFin, DisconnectGivesUp, SegNotSent, ClientExits, ClientRecv, ClientReads,
         ClientIgnores, ClientCrashes, ClientWrites, ClientHandlerEnds, SipCloses
<1>2. /\ ServerControl'
      /\ \A c \in Conn : (Opened(c)' <=> Opened(c)) /\ (FinTaken(c)' <=> FinTaken(c))
  BY <1>1 DEF ServerControl, Opened, FinTaken
<1>3. ASSUME NEW d \in Conn, ClientSock(d) PROVE SessionInv'
  <2>1. TypeOK' /\ ClientControl'
    BY <1>1, <1>3 DEF ClientSock, TypeOK, AppStages, CallPcs, ClientControl
  <2>2. SegInv'
    BY <1>1, <1>2, <1>3 DEF ClientSock, TypeOK, ClientControl, SegInv, FinSent
  <2>3. StateInv'
    BY <1>2, <1>3 DEF ClientSock, TypeOK, ClientControl, SegInv, StateInv
  <2>4. EstablishedBothEnds' /\ OrderlyClose' /\ CloseOnlyOnFin'
    BY <1>2, <1>3 DEF ClientSock, TypeOK, ClientControl, StateInv, EstablishedBothEnds,
                     OrderlyClose, CloseOnlyOnFin
  <2>5. QED
    BY <1>2, <2>1, <2>2, <2>3, <2>4
<1>4. ASSUME NEW d \in Conn, Connect(d) PROVE SessionInv'
  <2>1. TypeOK' /\ ClientControl'
    BY <1>1, <1>4 DEF Connect, Sent, TypeOK, AppStages, CallPcs, ClientControl
  <2>2. SegInv'
    BY <1>1, <1>2, <1>4 DEF Connect, Sent, TypeOK, ClientControl, SegInv, FinSent
  <2>3. StateInv'
    BY <1>2, <1>4 DEF Connect, Sent, TypeOK, ClientControl, SegInv, StateInv
  <2>4. EstablishedBothEnds' /\ OrderlyClose' /\ CloseOnlyOnFin'
    BY <1>2, <1>4 DEF Connect, Sent, TypeOK, ClientControl, StateInv, EstablishedBothEnds,
                     OrderlyClose, CloseOnlyOnFin
  <2>5. QED
    BY <1>2, <2>1, <2>2, <2>3, <2>4
<1>5. ASSUME NEW d \in Conn, Disconnect(d) PROVE SessionInv'
  <2>1. TypeOK' /\ ClientControl'
    BY <1>1, <1>5 DEF Disconnect, Sent, TypeOK, AppStages, CallPcs, ClientControl
  <2>2. SegInv'
    BY <1>1, <1>2, <1>5 DEF Disconnect, Sent, TypeOK, ClientControl, SegInv, FinSent
  <2>3. StateInv'
    BY <1>2, <1>5 DEF Disconnect, Sent, TypeOK, ClientControl, SegInv, StateInv
  <2>4. EstablishedBothEnds' /\ OrderlyClose' /\ CloseOnlyOnFin'
    BY <1>2, <1>5 DEF Disconnect, Sent, TypeOK, ClientControl, StateInv, EstablishedBothEnds,
                     OrderlyClose, CloseOnlyOnFin
  <2>5. QED
    BY <1>2, <2>1, <2>2, <2>3, <2>4
<1>6. ASSUME NEW d \in Conn, ClientClose(d) PROVE SessionInv'
  <2>1. TypeOK' /\ ClientControl'
    BY <1>1, <1>6 DEF ClientClose, TypeOK, AppStages, CallPcs, ClientControl
  <2>2. SegInv'
    BY <1>1, <1>2, <1>6 DEF ClientClose, TypeOK, ClientControl, SegInv, FinSent
  <2>3. StateInv'
    BY <1>2, <1>6 DEF ClientClose, TypeOK, ClientControl, SegInv, StateInv
  <2>4. EstablishedBothEnds' /\ OrderlyClose' /\ CloseOnlyOnFin'
    BY <1>2, <1>6 DEF ClientClose, TypeOK, ClientControl, StateInv, EstablishedBothEnds,
                     OrderlyClose, CloseOnlyOnFin
  <2>5. QED
    BY <1>2, <2>1, <2>2, <2>3, <2>4
<1>7. CASE EnterSynSent
  <2>1. TypeOK' /\ ClientControl'
    BY <1>1, <1>7 DEF EnterSynSent, TypeOK, AppStages, CallPcs, ClientControl
  <2>2. SegInv'
    BY <1>1, <1>2, <1>7 DEF EnterSynSent, TypeOK, ClientControl, SegInv, FinSent
  <2>3. StateInv'
    BY <1>2, <1>7 DEF EnterSynSent, TypeOK, ClientControl, SegInv, StateInv
  <2>4. EstablishedBothEnds' /\ OrderlyClose' /\ CloseOnlyOnFin'
    BY <1>2, <1>7 DEF EnterSynSent, TypeOK, ClientControl, StateInv, EstablishedBothEnds,
                     OrderlyClose, CloseOnlyOnFin
  <2>5. QED
    BY <1>2, <2>1, <2>2, <2>3, <2>4
<1>8. CASE ConnectReturns
  <2>1. TypeOK' /\ ClientControl'
    BY <1>1, <1>8 DEF ConnectReturns, TypeOK, AppStages, CallPcs, ClientControl
  <2>2. SegInv'
    BY <1>1, <1>2, <1>8 DEF ConnectReturns, TypeOK, ClientControl, SegInv, FinSent
  <2>3. StateInv'
    BY <1>2, <1>8 DEF ConnectReturns, TypeOK, ClientControl, SegInv, StateInv
  <2>4. EstablishedBothEnds' /\ OrderlyClose' /\ CloseOnlyOnFin'
    BY <1>2, <1>8 DEF ConnectReturns, TypeOK, ClientControl, StateInv, EstablishedBothEnds,
                     OrderlyClose, CloseOnlyOnFin
  <2>5. QED
    BY <1>2, <2>1, <2>2, <2>3, <2>4
<1>9. CASE ResendSyn
  <2>1. TypeOK' /\ ClientControl'
    BY <1>1, <1>9 DEF ResendSyn, Sent, TypeOK, AppStages, CallPcs, ClientControl
  <2>2. SegInv'
    BY <1>1, <1>2, <1>9 DEF ResendSyn, Sent, TypeOK, ClientControl, SegInv, FinSent
  <2>3. StateInv'
    BY <1>2, <1>9 DEF ResendSyn, Sent, TypeOK, ClientControl, SegInv, StateInv
  <2>4. EstablishedBothEnds' /\ OrderlyClose' /\ CloseOnlyOnFin'
    BY <1>2, <1>9 DEF ResendSyn, Sent, TypeOK, ClientControl, StateInv, EstablishedBothEnds,
                     OrderlyClose, CloseOnlyOnFin
  <2>5. QED
    BY <1>2, <2>1, <2>2, <2>3, <2>4
<1>10. CASE ConnectGivesUp
  <2>1. TypeOK' /\ ClientControl'
    BY <1>1, <1>10 DEF ConnectGivesUp, TypeOK, AppStages, CallPcs, ClientControl
  <2>2. SegInv'
    BY <1>1, <1>2, <1>10 DEF ConnectGivesUp, TypeOK, ClientControl, SegInv, FinSent
  <2>3. StateInv'
    BY <1>2, <1>10 DEF ConnectGivesUp, TypeOK, ClientControl, SegInv, StateInv
  <2>4. EstablishedBothEnds' /\ OrderlyClose' /\ CloseOnlyOnFin'
    BY <1>2, <1>10 DEF ConnectGivesUp, TypeOK, ClientControl, StateInv, EstablishedBothEnds,
                     OrderlyClose, CloseOnlyOnFin
  <2>5. QED
    BY <1>2, <2>1, <2>2, <2>3, <2>4
<1>11. CASE EnterFinWait
  <2>1. TypeOK' /\ ClientControl'
    BY <1>1, <1>11 DEF EnterFinWait, TypeOK, AppStages, CallPcs, ClientControl
  <2>2. SegInv'
    BY <1>1, <1>2, <1>11 DEF EnterFinWait, TypeOK, ClientControl, SegInv, FinSent
  <2>3. StateInv'
    BY <1>2, <1>11 DEF EnterFinWait, TypeOK, ClientControl, SegInv, StateInv
  <2>4. EstablishedBothEnds' /\ OrderlyClose' /\ CloseOnlyOnFin'
    BY <1>2, <1>11 DEF EnterFinWait, TypeOK, ClientControl, StateInv, EstablishedBothEnds,
                     OrderlyClose, CloseOnlyOnFin
  <2>5. QED
    BY <1>2, <2>1, <2>2, <2>3, <2>4
<1>12. CASE DisconnectReturns
  <2>1. TypeOK' /\ ClientControl'
    BY <1>1, <1>12 DEF DisconnectReturns, TypeOK, AppStages, CallPcs, ClientControl
  <2>2. SegInv'
    BY <1>1, <1>2, <1>12 DEF DisconnectReturns, TypeOK, ClientControl, SegInv, FinSent
  <2>3. StateInv'
    BY <1>2, <1>12 DEF DisconnectReturns, TypeOK, ClientControl, SegInv, StateInv
  <2>4. EstablishedBothEnds' /\ OrderlyClose' /\ CloseOnlyOnFin'
    BY <1>2, <1>12 DEF DisconnectReturns, TypeOK, ClientControl, StateInv, EstablishedBothEnds,
                     OrderlyClose, CloseOnlyOnFin
  <2>5. QED
    BY <1>2, <2>1, <2>2, <2>3, <2>4
<1>13. CASE ResendFin
  <2>1. TypeOK' /\ ClientControl'
    BY <1>1, <1>13 DEF ResendFin, Sent, TypeOK, AppStages, CallPcs, ClientControl
  <2>2. SegInv'
    BY <1>1, <1>2, <1>13 DEF ResendFin, Sent, TypeOK, ClientControl, SegInv, FinSent
  <2>3. StateInv'
    BY <1>2, <1>13 DEF ResendFin, Sent, TypeOK, ClientControl, SegInv, StateInv
  <2>4. EstablishedBothEnds' /\ OrderlyClose' /\ CloseOnlyOnFin'
    BY <1>2, <1>13 DEF ResendFin, Sent, TypeOK, ClientControl, StateInv, EstablishedBothEnds,
                     OrderlyClose, CloseOnlyOnFin
  <2>5. QED
    BY <1>2, <2>1, <2>2, <2>3, <2>4
<1>14. CASE DisconnectGivesUp
  <2>1. TypeOK' /\ ClientControl'
    BY <1>1, <1>14 DEF DisconnectGivesUp, TypeOK, AppStages, CallPcs, ClientControl
  <2>2. SegInv'
    BY <1>1, <1>2, <1>14 DEF DisconnectGivesUp, TypeOK, ClientControl, SegInv, FinSent
  <2>3. StateInv'
    BY <1>2, <1>14 DEF DisconnectGivesUp, TypeOK, ClientControl, SegInv, StateInv
  <2>4. EstablishedBothEnds' /\ OrderlyClose' /\ CloseOnlyOnFin'
    BY <1>2, <1>14 DEF DisconnectGivesUp, TypeOK, ClientControl, StateInv, EstablishedBothEnds,
                     OrderlyClose, CloseOnlyOnFin
  <2>5. QED
    BY <1>2, <2>1, <2>2, <2>3, <2>4
<1>15. CASE SegNotSent
  <2>1. TypeOK' /\ ClientControl'
    BY <1>1, <1>15 DEF SegNotSent, TypeOK, AppStages, CallPcs, ClientControl
  <2>2. SegInv'
    BY <1>1, <1>2, <1>15 DEF SegNotSent, TypeOK, ClientControl, SegInv, FinSent
  <2>3. StateInv'
    BY <1>2, <1>15 DEF SegNotSent, TypeOK, ClientControl, SegInv, StateInv
  <2>4. EstablishedBothEnds' /\ OrderlyClose' /\ CloseOnlyOnFin'
    BY <1>2, <1>15 DEF SegNotSent, TypeOK, ClientControl, StateInv, EstablishedBothEnds,
                     OrderlyClose, CloseOnlyOnFin
  <2>5. QED
    BY <1>2, <2>1, <2>2, <2>3, <2>4
<1>16. CASE ClientExits
  <2>1. TypeOK' /\ ClientControl'
    BY <1>1, <1>16 DEF ClientExits, TypeOK, AppStages, CallPcs, ClientControl
  <2>2. SegInv'
    BY <1>1, <1>2, <1>16 DEF ClientExits, TypeOK, ClientControl, SegInv, FinSent
  <2>3. StateInv'
    BY <1>2, <1>16 DEF ClientExits, TypeOK, ClientControl, SegInv, StateInv
  <2>4. EstablishedBothEnds' /\ OrderlyClose' /\ CloseOnlyOnFin'
    BY <1>2, <1>16 DEF ClientExits, TypeOK, ClientControl, StateInv, EstablishedBothEnds,
                     OrderlyClose, CloseOnlyOnFin
  <2>5. QED
    BY <1>2, <2>1, <2>2, <2>3, <2>4
<1>17. ASSUME NEW d \in Conn, NEW t \in {"SYNACK", "FINACK"}, ClientRecv(t, d) PROVE SessionInv'
  <2>1. TypeOK' /\ ClientControl'
    BY <1>1, <1>17 DEF ClientRecv, Gone, TypeOK, AppStages, CallPcs, ClientControl
  <2>2. SegInv'
    BY <1>1, <1>2, <1>17 DEF ClientRecv, Gone, TypeOK, ClientControl, SegInv, FinSent
  <2>3. StateInv'
    BY <1>2, <1>17 DEF ClientRecv, Gone, TypeOK, ClientControl, SegInv, StateInv
  <2>4. EstablishedBothEnds' /\ OrderlyClose' /\ CloseOnlyOnFin'
    BY <1>2, <1>17 DEF ClientRecv, Gone, TypeOK, ClientControl, StateInv, EstablishedBothEnds,
                     OrderlyClose, CloseOnlyOnFin
  <2>5. QED
    BY <1>2, <2>1, <2>2, <2>3, <2>4
<1>18. CASE ClientReads
  <2>1. TypeOK' /\ ClientControl'
    BY <1>1, <1>18 DEF ClientReads, Awaited, TypeOK, AppStages, CallPcs, ClientControl
  <2>2. SegInv'
    BY <1>1, <1>2, <1>18 DEF ClientReads, Awaited, TypeOK, ClientControl, SegInv, FinSent
  <2>3. StateInv'
    BY <1>2, <1>18 DEF ClientReads, Awaited, TypeOK, ClientControl, SegInv, StateInv
  <2>4. EstablishedBothEnds' /\ OrderlyClose' /\ CloseOnlyOnFin'
    BY <1>2, <1>18 DEF ClientReads, Awaited, TypeOK, ClientControl, StateInv, EstablishedBothEnds,
                     OrderlyClose, CloseOnlyOnFin
  <2>5. QED
    BY <1>2, <2>1, <2>2, <2>3, <2>4
<1>19. CASE ClientIgnores
  <2>1. TypeOK' /\ ClientControl'
    BY <1>1, <1>19 DEF ClientIgnores, NextClientSeg, Awaited, TypeOK, AppStages, CallPcs, ClientControl
  <2>2. SegInv'
    BY <1>1, <1>2, <1>19 DEF ClientIgnores, NextClientSeg, Awaited, TypeOK, ClientControl, SegInv, FinSent
  <2>3. StateInv'
    BY <1>2, <1>19 DEF ClientIgnores, NextClientSeg, Awaited, TypeOK, ClientControl, SegInv, StateInv
  <2>4. EstablishedBothEnds' /\ OrderlyClose' /\ CloseOnlyOnFin'
    BY <1>2, <1>19 DEF ClientIgnores, NextClientSeg, Awaited, TypeOK, ClientControl, StateInv, EstablishedBothEnds,
                     OrderlyClose, CloseOnlyOnFin
  <2>5. QED
    BY <1>2, <2>1, <2>2, <2>3, <2>4
<1>20. CASE ClientCrashes
  <2>1. TypeOK' /\ ClientControl'
    BY <1>1, <1>20 DEF ClientCrashes, TypeOK, AppStages, CallPcs, ClientControl
  <2>2. SegInv'
    BY <1>1, <1>2, <1>20 DEF ClientCrashes, TypeOK, ClientControl, SegInv, FinSent
  <2>3. StateInv'
    BY <1>2, <1>20 DEF ClientCrashes, TypeOK, ClientControl, SegInv, StateInv
  <2>4. EstablishedBothEnds' /\ OrderlyClose' /\ CloseOnlyOnFin'
    BY <1>2, <1>20 DEF ClientCrashes, TypeOK, ClientControl, StateInv, EstablishedBothEnds,
                     OrderlyClose, CloseOnlyOnFin
  <2>5. QED
    BY <1>2, <2>1, <2>2, <2>3, <2>4
<1>21. CASE ClientWrites
  <2>1. TypeOK' /\ ClientControl'
    BY <1>1, <1>21 DEF ClientWrites, NextClientSeg, TypeOK, AppStages, CallPcs, ClientControl
  <2>2. SegInv'
    BY <1>1, <1>2, <1>21 DEF ClientWrites, NextClientSeg, TypeOK, ClientControl, SegInv, FinSent
  <2>3. StateInv'
    BY <1>2, <1>21 DEF ClientWrites, NextClientSeg, TypeOK, ClientControl, SegInv, StateInv
  <2>4. EstablishedBothEnds' /\ OrderlyClose' /\ CloseOnlyOnFin'
    BY <1>2, <1>21 DEF ClientWrites, NextClientSeg, TypeOK, ClientControl, StateInv, EstablishedBothEnds,
                     OrderlyClose, CloseOnlyOnFin
  <2>5. QED
    BY <1>2, <2>1, <2>2, <2>3, <2>4
<1>22. CASE ClientHandlerEnds
  <2>1. TypeOK' /\ ClientControl'
    BY <1>1, <1>22 DEF ClientHandlerEnds, TypeOK, AppStages, CallPcs, ClientControl
  <2>2. SegInv'
    BY <1>1, <1>2, <1>22 DEF ClientHandlerEnds, TypeOK, ClientControl, SegInv, FinSent
  <2>3. StateInv'
    BY <1>2, <1>22 DEF ClientHandlerEnds, TypeOK, ClientControl, SegInv, StateInv
  <2>4. EstablishedBothEnds' /\ OrderlyClose' /\ CloseOnlyOnFin'
    BY <1>2, <1>22 DEF ClientHandlerEnds, TypeOK, ClientControl, StateInv, EstablishedBothEnds,
                     OrderlyClose, CloseOnlyOnFin
  <2>5. QED
    BY <1>2, <2>1, <2>2, <2>3, <2>4
<1>23. CASE SipCloses
  <2>1. TypeOK' /\ ClientControl'
    BY <1>1, <1>23 DEF SipCloses, TypeOK, AppStages, CallPcs, ClientControl
  <2>2. SegInv'
    BY <1>1, <1>2, <1>23 DEF SipCloses, TypeOK, ClientControl, SegInv, FinSent
  <2>3. StateInv'
    BY <1>2, <1>23 DEF SipCloses, TypeOK, ClientControl, SegInv, StateInv
  <2>4. EstablishedBothEnds' /\ OrderlyClose' /\ CloseOnlyOnFin'
    BY <1>2, <1>23 DEF SipCloses, TypeOK, ClientControl, StateInv, EstablishedBothEnds,
                     OrderlyClose, CloseOnlyOnFin
  <2>5. QED
    BY <1>2, <2>1, <2>2, <2>3, <2>4
<1>24. QED
  BY <1>3, <1>4, <1>5, <1>6, <1>7, <1>8, <1>9, <1>10, <1>11, <1>12, <1>13, <1>14, <1>15, <1>16, <1>17, <1>18, <1>19, <1>20, <1>21, <1>22, <1>23 DEF ClientNext, CallStep, ClientHandlerStep

\* The loss of a segment keeps it, and so does a stuttering step.
LEMMA LoseInv == ASSUME SessionInv, NEW d \in Conn, Lose(d) PROVE SessionInv'
<1> USE DEF SessionInv
<1>1. UNCHANGED clientVars /\ UNCHANGED serverVars
  BY DEF Lose
<1>2. TypeOK'
  BY <1>1 DEF Lose, Gone, TypeOK
<1>3. SegInv'
  BY <1>1 DEF Lose, Gone, TypeOK, SegInv, Opened, FinTaken, FinSent
<1>4. ClientControl' /\ ServerControl' /\ StateInv'
  BY <1>1 DEF ClientControl, ServerControl, StateInv, Opened, FinTaken
<1>5. EstablishedBothEnds' /\ OrderlyClose' /\ CloseOnlyOnFin'
  BY <1>1 DEF EstablishedBothEnds, OrderlyClose, CloseOnlyOnFin, Opened, FinTaken
<1>6. QED
  BY <1>2, <1>3, <1>4, <1>5

LEMMA StutterInv == ASSUME SessionInv, UNCHANGED vars PROVE SessionInv'
<1> USE DEF vars, SessionInv
<1>1. TypeOK'
  BY DEF TypeOK
<1>2. ClientControl' /\ ServerControl' /\ SegInv' /\ StateInv'
  BY DEF ClientControl, ServerControl, SegInv, StateInv, Opened, FinTaken, FinSent
<1>3. EstablishedBothEnds' /\ OrderlyClose' /\ CloseOnlyOnFin'
  BY DEF EstablishedBothEnds, OrderlyClose, CloseOnlyOnFin, Opened, FinTaken
<1>4. QED
  BY <1>1, <1>2, <1>3

-----------------------------------------------------------------------------
(* The properties                                                          *)

\* The inductive invariant holds in every reachable state.
THEOREM SessionInvariance == Spec => []SessionInv
<1>1. SessionInv /\ [Next]_vars => SessionInv'
  BY ServerInv, ClientInv, LoseInv, StutterInv DEF Next
<1>2. QED
  BY InitInv, <1>1, PTL DEF Spec

\* The types are kept, and no call repeats its segment more often than its
\* constant allows (stcp_client.c 94 and 232).
THEOREM SessionTypes == Spec => []TypeOK
<1>1. SessionInv => TypeOK
  BY DEF SessionInv
<1>2. QED
  BY SessionInvariance, <1>1, PTL

\* A connection the client calls CONNECTED was opened by the server
\* (stcp_client.c 94 to 101, stcp_server.c 173 to 189).
THEOREM ConnectedAtBothEnds == Spec => []EstablishedBothEnds
<1>1. SessionInv => EstablishedBothEnds
  BY DEF SessionInv
<1>2. QED
  BY SessionInvariance, <1>1, PTL

\* A connection the client has closed in order was closed by the server: it has
\* seen the FIN (stcp_client.c 232 to 242, stcp_server.c 192 to 203).
THEOREM ClosedAtBothEnds == Spec => []OrderlyClose
<1>1. SessionInv => OrderlyClose
  BY DEF SessionInv
<1>2. QED
  BY SessionInvariance, <1>1, PTL

\* The server closes nothing that its client has not asked to be closed, not
\* even when segments of another connection are late (stcp_server.c 248 to 260).
THEOREM ClosedOnRequest == Spec => []CloseOnlyOnFin
<1>1. SessionInv => CloseOnlyOnFin
  BY DEF SessionInv
<1>2. QED
  BY SessionInvariance, <1>1, PTL

\* A closed connection stays closed.
THEOREM ClosedForGood == Spec => NeverReopens
<1>1. SessionInv /\ [Next]_vars => [\A c \in Conn : FinTaken(c) => FinTaken(c)']_vars
  <2> SUFFICES ASSUME SessionInv, Next, NEW c \in Conn, FinTaken(c) PROVE FinTaken(c)'
    OBVIOUS
  <2>1. CASE ServerNext
    BY <2>1, ServerKeeps
  <2>2. CASE ClientNext \/ \E d \in Conn : Lose(d)
    <3>1. UNCHANGED serverVars
      BY <2>2 DEF ClientNext, CallStep, ClientHandlerStep, ClientSock, Connect, Disconnect, ClientClose,
         EnterSynSent, ConnectReturns, ResendSyn, ConnectGivesUp, EnterFinWait, DisconnectReturns,
         ResendFin, DisconnectGivesUp, SegNotSent, ClientExits, ClientRecv, ClientReads,
         ClientIgnores, ClientCrashes, ClientWrites, ClientHandlerEnds, SipCloses, Lose
    <3>2. QED
      BY <3>1 DEF FinTaken
  <2>3. QED
    BY <2>1, <2>2 DEF Next
<1>2. QED
  BY SessionInvariance, <1>1, PTL DEF Spec, NeverReopens

-----------------------------------------------------------------------------
(* The life of a connection                                                *)

\* A step of the server leaves each connection at the stage it is, unless it
\* takes a SYN that opens one or a FIN that closes one.
LEMMA ServerStage ==
  ASSUME SessionInv, ServerNext
  PROVE  /\ UNCHANGED cliApp
         /\ \/ \A c \in Conn : (Opened(c)' <=> Opened(c)) /\ (FinTaken(c)' <=> FinTaken(c))
            \/ /\ shdConn \in Conn
               /\ \A c \in Conn : (Opened(c)' <=> Opened(c) \/ c = shdConn) /\ (FinTaken(c)' <=> FinTaken(c))
            \/ /\ shdConn \in Conn /\ FinSent(shdConn)
               /\ \A c \in Conn : (Opened(c)' <=> Opened(c)) /\ (FinTaken(c)' <=> FinTaken(c) \/ c = shdConn)
<1> USE DEF SessionInv
<1>1. UNCHANGED clientVars
  BY DEF ServerNext, ServerHandlerStep, ServerSock, Accept, ServerClose, AcceptReturns, AcceptWaits,
         ServerExits, Tick, ServerRecv, TakeSyn, RepeatSynAck, TakeFin, ServerIgnores, ServerCrashes,
         ServerSipCloses
<1>2. CASE TakeSyn
  <2>1. shdConn \in Conn /\ srvState[shdConn] = "LISTENING" /\ srvState' = [srvState EXCEPT ![shdConn] = "CONNECTED"]
        /\ UNCHANGED srvApp
    BY <1>2 DEF TakeSyn, ServerControl
  <2>2. \A c \in Conn : (Opened(c)' <=> Opened(c) \/ c = shdConn) /\ (FinTaken(c)' <=> FinTaken(c))
    BY <2>1 DEF TypeOK, Opened, FinTaken
  <2>3. QED
    BY <1>1, <2>1, <2>2
<1>3. CASE TakeFin
  <2>1. shdConn \in Conn /\ srvState[shdConn] \in {"CONNECTED", "CLOSEWAIT"}
        /\ srvState' = [srvState EXCEPT ![shdConn] = "CLOSEWAIT"] /\ UNCHANGED srvApp /\ FinSent(shdConn)
    BY <1>3 DEF TakeFin, ServerControl, SegInv
  <2>2. \A c \in Conn : (Opened(c)' <=> Opened(c)) /\ (FinTaken(c)' <=> FinTaken(c) \/ c = shdConn)
    BY <2>1 DEF TypeOK, Opened, FinTaken
  <2>3. QED
    BY <1>1, <2>1, <2>2
<1>4. ASSUME ~TakeSyn, ~TakeFin, NEW c \in Conn
      PROVE  (Opened(c)' <=> Opened(c)) /\ (FinTaken(c)' <=> FinTaken(c))
  <2> USE DEF Opened, FinTaken
  <2>1. ASSUME NEW d \in Conn, ServerSock(d) \/ Accept(d) \/ ServerClose(d)
        PROVE  (Opened(c)' <=> Opened(c)) /\ (FinTaken(c)' <=> FinTaken(c))
    BY <2>1 DEF ServerSock, Accept, ServerClose, TypeOK, ServerControl
  <2>2. CASE Tick
    BY <2>2 DEF Tick, TypeOK, ServerControl
  <2>3. CASE AcceptReturns
    BY <2>3 DEF AcceptReturns, TypeOK, ServerControl
  <2>4. ASSUME UNCHANGED <<srvState, srvApp>>
        PROVE  (Opened(c)' <=> Opened(c)) /\ (FinTaken(c)' <=> FinTaken(c))
    BY <2>4
  <2>5. ASSUME NEW d \in Conn, NEW t \in {"SYN", "FIN"}, ServerRecv(t, d) PROVE UNCHANGED <<srvState, srvApp>>
    BY <2>5 DEF ServerRecv
  <2>6. AcceptWaits \/ ServerExits \/ RepeatSynAck \/ ServerIgnores \/ ServerCrashes \/ ServerSipCloses
        => UNCHANGED <<srvState, srvApp>>
    BY DEF AcceptWaits, ServerExits, RepeatSynAck, ServerIgnores, ServerCrashes, ServerSipCloses
  <2>7. QED
    BY <1>4, <2>1, <2>2, <2>3, <2>4, <2>5, <2>6 DEF ServerNext, ServerHandlerStep
<1>5. QED
  BY <1>1, <1>2, <1>3, <1>4

\* The application's step with a connection, if it makes one: connect returns
\* for a connection the server has opened, disconnect begins with one that is
\* open and returns for one of which the server has taken the FIN.
LEMMA ClientStage ==
  ASSUME SessionInv, ClientNext
  PROVE  /\ UNCHANGED <<srvState, srvApp>>
         /\ \/ \A c \in Conn :
                 /\ cliApp'[c] \in {"open", "disconnecting", "shut", "done"}
                      <=> cliApp[c] \in {"open", "disconnecting", "shut", "done"}
                 /\ FinSent(c)' <=> FinSent(c)
                 /\ cliApp'[c] \in {"shut", "done"} <=> cliApp[c] \in {"shut", "done"}
            \/ /\ cliConn \in Conn /\ cliApp[cliConn] = "connecting" /\ Opened(cliConn)
               /\ cliApp' = [cliApp EXCEPT ![cliConn] = "open"]
            \/ \E c \in Conn : cliApp[c] = "open" /\ cliApp' = [cliApp EXCEPT ![c] = "disconnecting"]
            \/ /\ cliConn \in Conn /\ cliApp[cliConn] = "disconnecting" /\ FinTaken(cliConn)
               /\ cliApp' = [cliApp EXCEPT ![cliConn] = "shut"]
<1> USE DEF SessionInv
<1>1. UNCHANGED serverVars
  BY DEF ClientNext, CallStep, ClientHandlerStep, ClientSock, Connect, Disconnect, ClientClose,
         EnterSynSent, ConnectReturns, ResendSyn, ConnectGivesUp, EnterFinWait, DisconnectReturns,
         ResendFin, DisconnectGivesUp, SegNotSent, ClientExits, ClientRecv, ClientReads,
         ClientIgnores, ClientCrashes, ClientWrites, ClientHandlerEnds, SipCloses
<1>2. CASE ConnectReturns
  BY <1>1, <1>2 DEF ConnectReturns, ClientControl, StateInv
<1>3. CASE DisconnectReturns
  BY <1>1, <1>3 DEF DisconnectReturns, ClientControl, StateInv
<1>4. CASE \E c \in Conn : Disconnect(c)
  BY <1>1, <1>4 DEF Disconnect
<1>5. CASE \E d \in Conn : ClientSock(d) \/ Connect(d) \/ ClientClose(d)
  BY <1>1, <1>5 DEF ClientSock, Connect, ClientClose, TypeOK, FinSent
<1>6. ASSUME UNCHANGED cliApp
      PROVE  \A c \in Conn :
               /\ cliApp'[c] \in {"open", "disconnecting", "shut", "done"}
                    <=> cliApp[c] \in {"open", "disconnecting", "shut", "done"}
               /\ FinSent(c)' <=> FinSent(c)
               /\ cliApp'[c] \in {"shut", "done"} <=> cliApp[c] \in {"shut", "done"}
  BY <1>6 DEF FinSent
<1>7. EnterSynSent \/ ResendSyn \/ ConnectGivesUp \/ EnterFinWait \/ ResendFin \/ DisconnectGivesUp
      \/ SegNotSent \/ ClientExits \/ ClientHandlerStep \/ SipCloses => UNCHANGED cliApp
  BY DEF EnterSynSent, ResendSyn, ConnectGivesUp, EnterFinWait, ResendFin, DisconnectGivesUp, SegNotSent,
         ClientExits, ClientHandlerStep, ClientRecv, ClientReads, ClientIgnores, ClientCrashes, ClientWrites,
         ClientHandlerEnds, SipCloses
<1>8. QED
  BY <1>1, <1>2, <1>3, <1>4, <1>5, <1>6, <1>7 DEF ClientNext, CallStep

\* The connections the two ends have brought to each stage.
OpenedConns == {c \in Conn : Opened(c)}
EstablishedConns == {c \in Conn : cliApp[c] \in {"open", "disconnecting", "shut", "done"}}
FinnedConns == {c \in Conn : cliApp[c] \in {"disconnecting", "shut", "done"}}
FinTakenConns == {c \in Conn : FinTaken(c)}
DisconnectedConns == {c \in Conn : cliApp[c] \in {"shut", "done"}}

\* Steps that move no connection map to a stuttering step.
LEMMA SameStages ==
  ASSUME UNCHANGED <<OpenedConns, EstablishedConns, FinnedConns, FinTakenConns, DisconnectedConns>>
  PROVE  UNCHANGED Connection!connectionVars
  BY DEF OpenedConns, EstablishedConns, FinnedConns, FinTakenConns, DisconnectedConns, Connection!connectionVars

\* A step of the server opens a connection, takes a FIN, or moves none.
LEMMA ServerMaps ==
  ASSUME SessionInv, ServerNext
  PROVE  [Connection!ConnectionNext]_(Connection!connectionVars)
<1>1. UNCHANGED <<EstablishedConns, FinnedConns, DisconnectedConns>>
  BY ServerStage DEF EstablishedConns, FinnedConns, DisconnectedConns
<1>2. CASE \A c \in Conn : (Opened(c)' <=> Opened(c)) /\ (FinTaken(c)' <=> FinTaken(c))
  <2>1. UNCHANGED <<OpenedConns, FinTakenConns>>
    BY <1>2 DEF OpenedConns, FinTakenConns
  <2>2. QED
    BY <1>1, <2>1, SameStages
<1>3. CASE /\ shdConn \in Conn
           /\ \A c \in Conn : (Opened(c)' <=> Opened(c) \/ c = shdConn) /\ (FinTaken(c)' <=> FinTaken(c))
  <2>1. OpenedConns' = OpenedConns \cup {shdConn} /\ UNCHANGED FinTakenConns
    BY <1>3 DEF OpenedConns, FinTakenConns
  <2>2. Connection!Open(shdConn)
    BY <1>1, <2>1 DEF Connection!Open, OpenedConns, EstablishedConns, FinnedConns, FinTakenConns, DisconnectedConns
  <2>3. QED
    BY <1>3, <2>2 DEF Connection!ConnectionNext
<1>4. CASE /\ shdConn \in Conn /\ FinSent(shdConn)
           /\ \A c \in Conn : (Opened(c)' <=> Opened(c)) /\ (FinTaken(c)' <=> FinTaken(c) \/ c = shdConn)
  <2>1. FinTakenConns' = FinTakenConns \cup {shdConn} /\ UNCHANGED OpenedConns
    BY <1>4 DEF OpenedConns, FinTakenConns
  <2>2. shdConn \in FinnedConns
    BY <1>4 DEF FinSent, FinnedConns
  <2>3. Connection!TakeFin(shdConn)
    BY <1>1, <2>1, <2>2 DEF Connection!TakeFin, OpenedConns, EstablishedConns, FinnedConns, FinTakenConns, DisconnectedConns
  <2>4. QED
    BY <1>4, <2>3 DEF Connection!ConnectionNext
<1>5. QED
  BY <1>2, <1>3, <1>4, ServerStage

\* A step of the client establishes, finishes or disconnects a connection, or
\* moves none.
LEMMA ClientMaps ==
  ASSUME SessionInv, ClientNext
  PROVE  [Connection!ConnectionNext]_(Connection!connectionVars)
<1> USE DEF OpenedConns, EstablishedConns, FinnedConns, FinTakenConns, DisconnectedConns
<1>0. cliApp \in [Conn -> AppStages]
  BY DEF SessionInv, TypeOK
<1>1. UNCHANGED <<OpenedConns, FinTakenConns>>
  BY ClientStage DEF Opened, FinTaken
<1>2. CASE \A c \in Conn :
             /\ cliApp'[c] \in {"open", "disconnecting", "shut", "done"}
                  <=> cliApp[c] \in {"open", "disconnecting", "shut", "done"}
             /\ FinSent(c)' <=> FinSent(c)
             /\ cliApp'[c] \in {"shut", "done"} <=> cliApp[c] \in {"shut", "done"}
  <2>1. UNCHANGED <<EstablishedConns, FinnedConns, DisconnectedConns>>
    BY <1>2 DEF FinSent
  <2>2. QED
    BY <1>1, <2>1, SameStages
<1>3. CASE /\ cliConn \in Conn /\ cliApp[cliConn] = "connecting" /\ Opened(cliConn)
           /\ cliApp' = [cliApp EXCEPT ![cliConn] = "open"]
  <2>0. PICK c \in Conn : c = cliConn
    BY <1>3
  <2>1. EstablishedConns' = EstablishedConns \cup {c} /\ UNCHANGED <<FinnedConns, DisconnectedConns>>
    BY <1>0, <1>3, <2>0
  <2>2. Connection!Establish(c)
    BY <1>1, <1>3, <2>0, <2>1 DEF Connection!Establish
  <2>3. QED
    BY <2>2 DEF Connection!ConnectionNext
<1>4. ASSUME NEW c \in Conn, cliApp[c] = "open", cliApp' = [cliApp EXCEPT ![c] = "disconnecting"]
      PROVE  [Connection!ConnectionNext]_(Connection!connectionVars)
  <2>1. FinnedConns' = FinnedConns \cup {c} /\ UNCHANGED <<EstablishedConns, DisconnectedConns>>
    BY <1>0, <1>4
  <2>2. Connection!Finish(c)
    BY <1>1, <1>4, <2>1 DEF Connection!Finish
  <2>3. QED
    BY <2>2 DEF Connection!ConnectionNext
<1>5. CASE /\ cliConn \in Conn /\ cliApp[cliConn] = "disconnecting" /\ FinTaken(cliConn)
           /\ cliApp' = [cliApp EXCEPT ![cliConn] = "shut"]
  <2>0. PICK c \in Conn : c = cliConn
    BY <1>5
  <2>1. DisconnectedConns' = DisconnectedConns \cup {c} /\ UNCHANGED <<EstablishedConns, FinnedConns>>
    BY <1>0, <1>5, <2>0
  <2>2. Connection!Disconnect(c)
    BY <1>1, <1>5, <2>0, <2>1 DEF Connection!Disconnect
  <2>3. QED
    BY <2>2 DEF Connection!ConnectionNext
<1>6. QED
  BY <1>2, <1>3, <1>4, <1>5, ClientStage

\* The two processes implement the life of every connection: for any number of
\* connections and retries, whatever is lost, late or overtaken, each goes
\* through SYN, SYNACK, FIN and FINACK in that order at its two ends
\* (stcp_client.c 70 to 255, stcp_server.c 169 to 260).
THEOREM ConnectionRefinement == Spec => ImplementsConnection
<1>1. Init => Connection!ConnectionInit
  BY DEF Init, Connection!ConnectionInit, Opened, FinTaken
<1>2. SessionInv /\ [Next]_vars => [Connection!ConnectionNext]_(Connection!connectionVars)
  <2> SUFFICES ASSUME SessionInv, [Next]_vars PROVE [Connection!ConnectionNext]_(Connection!connectionVars)
    OBVIOUS
  <2>1. CASE ServerNext
    BY <2>1, ServerMaps
  <2>2. CASE ClientNext
    BY <2>2, ClientMaps
  <2>3. CASE UNCHANGED vars \/ \E d \in Conn : Lose(d)
    <3>1. UNCHANGED <<cliApp, srvState, srvApp>>
      BY <2>3 DEF Lose, vars
    <3>2. UNCHANGED <<OpenedConns, EstablishedConns, FinnedConns, FinTakenConns, DisconnectedConns>>
      BY <3>1 DEF OpenedConns, EstablishedConns, FinnedConns, FinTakenConns, DisconnectedConns, Opened, FinTaken
    <3>3. QED
      BY <3>2, SameStages
  <2>4. QED
    BY <2>1, <2>2, <2>3 DEF Next
<1>3. QED
  BY SessionInvariance, <1>1, <1>2, PTL DEF Spec, ImplementsConnection, Connection!ConnectionSpec
=============================================================================
