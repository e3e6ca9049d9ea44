------------------------ MODULE StcpHandshake_proofs --------------------------
(***************************************************************************)
(* Proofs about StcpHandshake, for any number of repetitions.              *)
(***************************************************************************)
EXTENDS StcpHandshake, Functions, TLAPS

Calls == {"sock", "sent", "connecting", "disconnect", "finished", "closing", "exit"}
Places == {"sock", "accepting", "close", "exit"}
ToSv == [type : {"SYN", "FIN"}, sock : Sock]
ToCl == [type : {"SYNACK", "FINACK"}, sock : Sock]

\* HandshakeTypeOK, with the types of what it leaves out.
Types ==
  /\ clTcb \in [Sock -> {"NULL", "CLOSED", "SYNSENT", "CONNECTED", "FINWAIT"}]
  /\ svTcb \in [Sock -> {"NULL", "CLOSED", "LISTENING", "CONNECTED", "CLOSEWAIT"}]
  /\ clAt \in [op : Calls, sock : Sock] /\ svAt \in [op : Places, sock : Sock]
  /\ tries \in 0..MaxRetry /\ clSeg \in {"on", "gone"} /\ svSeg \in {"on", "gone", "closewait"}
  /\ svIn \in Seq(ToSv) /\ clIn \in Seq(ToCl) /\ clUp \in BOOLEAN /\ svUp \in BOOLEAN
  /\ connected \subseteq Sock /\ disconnected \subseteq Sock

\* A socket the server application has not come to yet has no entry.
NotYet ==
  /\ svAt.op = "sock" => svTcb[svAt.sock] = "NULL"
  /\ svAt.op \in {"sock", "accepting"} /\ svAt.sock = 1 => svTcb[2] = "NULL"

\* What a segment on its way proves about its sender.
InFlight ==
  /\ \A m \in Range(svIn) : m.type = "FIN" => m.sock \in finned
  /\ \A m \in Range(clIn) : Opened(m.sock) /\ (m.type = "FINACK" => FinTaken(m.sock))

\* What the client's state proves about the server, and the server's about the client.
Entries ==
  /\ \A i \in Sock : svTcb[i] = "CLOSEWAIT" => i \in finned
  /\ \A i \in Sock : clTcb[i] = "CONNECTED" => Opened(i)
  /\ \A i \in Sock : clAt = At("closing", i) =>
       clTcb[i] \in {"FINWAIT", "CLOSED"} /\ (clTcb[i] = "CLOSED" => FinTaken(i))
  /\ clAt.op \in {"finished", "closing"} => clAt.sock \in finned
  /\ svSeg = "closewait" => ~clUp

HandshakeInv == Types /\ NotYet /\ InFlight /\ Entries /\ HandshakeAgrees

USE HandshakeAssumption
USE DEF clVars, svVars, tcp, Sock

-----------------------------------------------------------------------------
(* Sequences                                                               *)

\* What is left when the first element is taken was there before.
LEMMA TailElements ==
  ASSUME NEW S, NEW s \in Seq(S), s # <<>>
  PROVE  Head(s) \in S /\ Head(s) \in Range(s) /\ Tail(s) \in Seq(S) /\ Range(Tail(s)) \subseteq Range(s)
<1>1. Head(s) = s[1] /\ 1 \in DOMAIN s /\ s[1] \in S /\ Tail(s) \in Seq(S)
  OBVIOUS
<1>2. \A k \in DOMAIN Tail(s) : k + 1 \in DOMAIN s /\ Tail(s)[k] = s[k + 1]
  OBVIOUS
<1>3. QED
  BY <1>1, <1>2 DEF Range

\* What is in a sequence after an append was there before, or is what was appended.
LEMMA AppendElements ==
  ASSUME NEW S, NEW s \in Seq(S), NEW e \in S
  PROVE  Append(s, e) \in Seq(S) /\ Range(Append(s, e)) \subseteq Range(s) \cup {e}
<1>1. \A k \in DOMAIN Append(s, e) : (k \in DOMAIN s /\ Append(s, e)[k] = s[k]) \/ Append(s, e)[k] = e
  OBVIOUS
<1>2. QED
  BY <1>1 DEF Range

\* The elements of a sequence are of its type.
LEMMA Elements == ASSUME NEW S, NEW s \in Seq(S) PROVE Range(s) \subseteq S
  BY DEF Range

-----------------------------------------------------------------------------
(* The steps                                                               *)

\* Nothing has been called and nothing is on its way.
LEMMA InitInv == HandshakeInit => HandshakeInv
<1> SUFFICES ASSUME HandshakeInit PROVE HandshakeInv
  OBVIOUS
<1>1. Types
  BY DEF HandshakeInit, Types, At, Calls, Places
<1>2. NotYet /\ HandshakeAgrees
  BY DEF HandshakeInit, At, NotYet, HandshakeAgrees
<1>3. InFlight
  BY DEF HandshakeInit, InFlight, Range
<1>4. Entries
  BY DEF HandshakeInit, At, Entries
<1>5. QED
  BY <1>1, <1>2, <1>3, <1>4 DEF HandshakeInv

\* A segment the client sends: FIN only for a socket that counts as finned by then.
LEMMA SentByClient ==
  ASSUME HandshakeInv, NEW i \in Sock, NEW type \in {"SYN", "FIN"}, SendCl(type, i),
         type = "FIN" => i \in finned', finned \subseteq finned'
  PROVE  /\ svIn' \in Seq(ToSv) /\ UNCHANGED <<clIn, clUp, svUp, reset>>
         /\ \A m \in Range(svIn') : m.type = "FIN" => m.sock \in finned'
<1> USE DEF HandshakeInv, Types, InFlight, SendCl
<1>1. Msg(type, i) \in ToSv /\ (Msg(type, i).type = "FIN" => Msg(type, i).sock \in finned')
  BY DEF Msg, ToSv
<1>2. CASE svUp
  <2>1. svIn' = Append(svIn, Msg(type, i))
    BY <1>2
  <2>2. svIn' \in Seq(ToSv) /\ Range(svIn') \subseteq Range(svIn) \cup {Msg(type, i)}
    BY <1>1, <2>1, AppendElements
  <2>3. QED
    BY <1>1, <2>2
<1>3. CASE ~svUp
  BY <1>3
<1>4. QED
  BY <1>2, <1>3

\* Every step of the client application.
LEMMA ClientInv ==
  ASSUME HandshakeInv, NEW i \in Sock, Sends(i) \/ Awaits(i) \/ AnswerCame(i) \/ SendsAgain(i) \/ Fails(i)
  PROVE  HandshakeInv'
<1> USE DEF HandshakeInv
<1>1. UNCHANGED <<svVars, clSeg, svSeg, clIn, clUp, svUp, reset>>
  BY DEF Sends, Awaits, AnswerCame, SendsAgain, Fails, SendCl
<1>2. NotYet'
  BY <1>1 DEF NotYet
<1>3. ASSUME svIn' \in Seq(ToSv), finned \subseteq finned',
             \A m \in Range(svIn') : m.type = "FIN" => m.sock \in finned'
      PROVE  InFlight'
  BY <1>1, <1>3 DEF InFlight, Opened, FinTaken
<1>4. CASE Sends(i)
  <2>1. CASE DoesCl("sock", i) /\ clAt' = At("sent", i) /\ clTcb' = Set(clTcb, i, "CLOSED") /\ SendCl("SYN", i) /\ UNCHANGED finned
    <3>1. svIn' \in Seq(ToSv) /\ \A m \in Range(svIn') : m.type = "FIN" => m.sock \in finned'
      BY <2>1, SentByClient
    <3>2. Types'
      BY <1>1, <1>4, <2>1, <3>1 DEF Sends, Types, At, Set, Calls
    <3>3. InFlight'
      BY <1>3, <2>1, <3>1
    <3>4. Entries'
      BY <1>1, <2>1 DEF Types, At, Set, Entries, Opened, FinTaken
    <3>5. HandshakeAgrees'
      BY <1>1, <1>4, <2>1 DEF Sends, HandshakeAgrees, Opened, FinTaken
    <3>6. QED
      BY <1>2, <3>2, <3>3, <3>4, <3>5
  <2>2. CASE DoesCl("disconnect", i) /\ clAt' = At("finished", i) /\ finned' = finned \cup {i} /\ SendCl("FIN", i) /\ UNCHANGED clTcb
    <3>1. svIn' \in Seq(ToSv) /\ \A m \in Range(svIn') : m.type = "FIN" => m.sock \in finned'
      BY <2>2, SentByClient
    <3>2. Types'
      BY <1>1, <1>4, <2>2, <3>1 DEF Sends, Types, At, Calls
    <3>3. InFlight'
      BY <1>3, <2>2, <3>1
    <3>4. Entries'
      BY <1>1, <2>2 DEF Types, At, Entries, Opened, FinTaken
    <3>5. HandshakeAgrees'
      BY <1>1, <1>4, <2>2 DEF Sends, HandshakeAgrees, Opened, FinTaken
    <3>6. QED
      BY <1>2, <3>2, <3>3, <3>4, <3>5
  <2>3. QED
    BY <1>4, <2>1, <2>2 DEF Sends
<1>5. CASE Awaits(i)
  <2>1. Types'
    BY <1>1, <1>5 DEF Awaits, DoesCl, Types, At, Set, Calls
  <2>2. InFlight'
    BY <1>3, <1>5 DEF Awaits, Types, InFlight
  <2>3. Entries'
    BY <1>1, <1>5 DEF Awaits, DoesCl, Types, At, Set, Entries, Opened, FinTaken
  <2>4. HandshakeAgrees'
    BY <1>1, <1>5 DEF Awaits, HandshakeAgrees, Opened, FinTaken
  <2>5. QED
    BY <1>2, <2>1, <2>2, <2>3, <2>4
<1>6. CASE AnswerCame(i)
  <2>1. Types'
    <3>1. clTcb' \in [Sock -> {"NULL", "CLOSED", "SYNSENT", "CONNECTED", "FINWAIT"}]
      BY <1>6 DEF AnswerCame, Types, Set
    <3>2. clAt' \in [op : Calls, sock : Sock]
      BY <1>6 DEF AnswerCame, Types, At, Calls
    <3>3. connected' \subseteq Sock /\ disconnected' \subseteq Sock
      BY <1>6 DEF AnswerCame, Types
    <3>4. QED
      BY <1>1, <1>6, <3>1, <3>2, <3>3 DEF AnswerCame, Types
  <2>2. InFlight'
    BY <1>3, <1>6 DEF AnswerCame, Types, InFlight
  <2>3. Entries'
    BY <1>1, <1>6 DEF AnswerCame, DoesCl, Types, At, Set, Entries, Opened, FinTaken
  <2>4. HandshakeAgrees'
    BY <1>1, <1>6 DEF AnswerCame, DoesCl, HandshakeAgrees, Entries, Opened, FinTaken
  <2>5. QED
    BY <1>2, <2>1, <2>2, <2>3, <2>4
<1>7. CASE SendsAgain(i)
  <2>1. svIn' \in Seq(ToSv) /\ \A m \in Range(svIn') : m.type = "FIN" => m.sock \in finned'
    <3>1. CASE SendCl("SYN", i)
      BY <1>7, <3>1, SentByClient DEF SendsAgain
    <3>2. CASE DoesCl("closing", i) /\ SendCl("FIN", i)
      <4>1. i \in finned'
        BY <1>7, <3>2 DEF SendsAgain, DoesCl, At, Entries
      <4>2. QED
        BY <1>7, <3>2, <4>1, SentByClient DEF SendsAgain
    <3>3. QED
      BY <1>7, <3>1, <3>2 DEF SendsAgain
  <2>2. Types'
    BY <1>1, <1>7, <2>1 DEF SendsAgain, Types
  <2>3. InFlight'
    BY <1>3, <1>7, <2>1 DEF SendsAgain
  <2>4. Entries' /\ HandshakeAgrees'
    BY <1>1, <1>7 DEF SendsAgain, Entries, HandshakeAgrees, Opened, FinTaken
  <2>5. QED
    BY <1>2, <2>2, <2>3, <2>4
<1>8. CASE Fails(i)
  <2>1. Types'
    BY <1>1, <1>8 DEF Fails, DoesCl, Types, At, Set, Calls
  <2>2. InFlight'
    BY <1>3, <1>8 DEF Fails, Types, InFlight
  <2>3. Entries'
    BY <1>1, <1>8 DEF Fails, DoesCl, Types, At, Set, Entries, Opened, FinTaken
  <2>4. HandshakeAgrees'
    BY <1>1, <1>8 DEF Fails, HandshakeAgrees, Opened, FinTaken
  <2>5. QED
    BY <1>2, <2>1, <2>2, <2>3, <2>4
<1>9. QED
  BY <1>4, <1>5, <1>6, <1>7, <1>8

\* The end of the client, and what its seghandler makes of a segment.
LEMMA ClientOtherInv == ASSUME HandshakeInv, ClEnds \/ ClGets PROVE HandshakeInv'
<1> USE DEF HandshakeInv
<1>1. UNCHANGED <<svVars, svSeg, svIn, svUp, clAt, tries, connected, finned, disconnected>>
  BY DEF ClEnds, ClGets
<1>2. NotYet'
  BY <1>1 DEF NotYet
<1>3. CASE ClEnds
  <2>1. Types'
    BY <1>1, <1>3, <<>> \in Seq(ToCl) DEF ClEnds, Types
  <2>2. InFlight'
    BY <1>1, <1>3 DEF ClEnds, InFlight, Range
  <2>3. Entries' /\ HandshakeAgrees'
    BY <1>1, <1>3 DEF ClEnds, Entries, HandshakeAgrees, Opened, FinTaken
  <2>4. QED
    BY <1>2, <2>1, <2>2, <2>3
<1>4. CASE ClGets
  <2> DEFINE msg == Head(clIn)
  <2>1. msg \in ToCl /\ msg \in Range(clIn) /\ clIn' \in Seq(ToCl) /\ Range(clIn') \subseteq Range(clIn)
    BY <1>4, TailElements DEF ClGets, Types
  <2>2. Opened(msg.sock) /\ (msg.type = "FINACK" => FinTaken(msg.sock)) /\ msg.sock \in Sock
    BY <2>1 DEF InFlight, ToCl
  <2>3. Types'
    BY <1>1, <1>4, <2>1, <2>2 DEF ClGets, Answers, Set, Types
  <2>4. InFlight'
    BY <1>1, <2>1 DEF InFlight, Opened, FinTaken
  <2>5. \A j \in Sock : \/ clTcb'[j] = clTcb[j]
                        \/ clTcb[j] = "SYNSENT" /\ clTcb'[j] = "CONNECTED" /\ Opened(j)
                        \/ clTcb[j] = "FINWAIT" /\ clTcb'[j] = "CLOSED" /\ FinTaken(j)
    BY <1>4, <2>2 DEF ClGets, Answers, Set, Types
  <2>6. Entries'
    BY <1>1, <1>4, <2>5 DEF ClGets, Entries, Opened, FinTaken
  <2>7. HandshakeAgrees'
    BY <1>1, <1>4 DEF ClGets, HandshakeAgrees, Opened, FinTaken
  <2>8. QED
    BY <1>2, <2>3, <2>4, <2>6, <2>7
<1>5. QED
  BY <1>3, <1>4

\* The server takes nothing back: what it has opened stays opened or is
\* closed, and what it has closed stays closed.
LEMMA ServerKeeps ==
  ASSUME HandshakeInv, NEW i \in Sock,
         AcceptBegins(i) \/ AcceptReturns(i) \/ CloseSv(i) \/ SvEnds \/ SvGets \/ SvEof \/ CloseWaitEnds,
         NEW j \in Sock
  PROVE  (Opened(j) => Opened(j)') /\ (FinTaken(j) => FinTaken(j)')
<1> USE DEF HandshakeInv, Opened, FinTaken
<1>1. CASE AcceptBegins(i)
  BY <1>1 DEF AcceptBegins, DoesSv, Set, At, Types, NotYet
<1>2. CASE AcceptReturns(i)
  BY <1>2 DEF AcceptReturns
<1>3. CASE CloseSv(i)
  BY <1>3 DEF CloseSv, Set, Types
<1>4. CASE SvEnds \/ SvEof
  BY <1>4 DEF SvEnds, SvEof
<1>5. CASE SvGets
  BY <1>5 DEF SvGets, Replies, Set, Types
<1>6. CASE CloseWaitEnds
  BY <1>6 DEF CloseWaitEnds, Types
<1>7. QED
  BY <1>1, <1>2, <1>3, <1>4, <1>5, <1>6

\* Every step of the server but that of its seghandler.
LEMMA ServerInv ==
  ASSUME HandshakeInv, NEW i \in Sock,
         AcceptBegins(i) \/ AcceptReturns(i) \/ CloseSv(i) \/ SvEnds \/ SvEof \/ CloseWaitEnds
  PROVE  HandshakeInv'
<1> USE DEF HandshakeInv
<1>1. UNCHANGED <<clVars, clSeg, clIn, clUp>> /\ (UNCHANGED svIn \/ svIn' = <<>>)
  BY DEF AcceptBegins, AcceptReturns, CloseSv, SvEnds, SvEof, CloseWaitEnds
<1>2. \A j \in Sock : (Opened(j) => Opened(j)') /\ (FinTaken(j) => FinTaken(j)')
  BY ServerKeeps
<1>3. InFlight'
  <2>1. \A m \in Range(clIn) : m.sock \in Sock
    <3>1. Range(clIn) \subseteq ToCl
      BY Elements DEF Types
    <3>2. QED
      BY <3>1 DEF ToCl
  <2>2. \A m \in Range(clIn') : Opened(m.sock)' /\ (m.type = "FINACK" => FinTaken(m.sock)')
    BY <1>1, <1>2, <2>1 DEF InFlight
  <2>3. \A m \in Range(svIn') : m.type = "FIN" => m.sock \in finned'
    BY <1>1 DEF InFlight, Range
  <2>4. QED
    BY <2>2, <2>3 DEF InFlight
<1>4. \A j \in Sock : (svTcb'[j] = "CLOSEWAIT" => svTcb[j] = "CLOSEWAIT") /\
                      (FinTaken(j)' => svTcb[j] = "CLOSED" \/ j \in closed \/ svTcb[j] = "CLOSEWAIT")
  BY DEF AcceptBegins, AcceptReturns, CloseSv, SvEnds, SvEof, CloseWaitEnds, Types, Set, FinTaken
<1>5. svSeg' = "closewait" => ~clUp
  BY DEF AcceptBegins, AcceptReturns, CloseSv, SvEnds, SvEof, CloseWaitEnds, Entries
<1>6. Entries'
  BY <1>1, <1>2, <1>4, <1>5 DEF Entries
<1>7. \A j \in Sock : svTcb'[j] = "CLOSED" \/ j \in closed' =>
         svTcb[j] = "CLOSED" \/ j \in closed \/ (svTcb[j] = "CLOSEWAIT" /\ svSeg = "closewait")
  BY DEF AcceptBegins, AcceptReturns, CloseSv, SvEnds, SvEof, CloseWaitEnds, Types, Set
<1>8. HandshakeAgrees'
  <2>1. \A j \in connected : Opened(j) /\ j \in Sock
    BY DEF HandshakeAgrees, Opened, Types
  <2>2. \A j \in disconnected : FinTaken(j) /\ j \in Sock
    BY DEF HandshakeAgrees, FinTaken, Types
  <2>3. (\A j \in connected : Opened(j)') /\ (\A j \in disconnected : FinTaken(j)')
    BY <1>2, <2>1, <2>2
  <2>4. \A j \in Sock : svTcb'[j] = "CLOSED" \/ j \in closed' => j \in finned /\ ~clUp
    BY <1>7 DEF HandshakeAgrees, Entries
  <2>5. QED
    BY <1>1, <2>3, <2>4 DEF HandshakeAgrees, Opened, FinTaken
<1>9. Types' /\ NotYet'
  <2>1. CASE AcceptBegins(i)
    BY <2>1 DEF AcceptBegins, DoesSv, Set, At, Types, NotYet, Places
  <2>2. CASE AcceptReturns(i)
    BY <2>2 DEF AcceptReturns, DoesSv, At, Types, NotYet, Places
  <2>3. CASE CloseSv(i)
    BY <2>3 DEF CloseSv, DoesSv, Set, At, Types, NotYet, Places
  <2>4. CASE SvEnds
    BY <2>4, <<>> \in Seq(ToSv) DEF SvEnds, Types, NotYet
  <2>5. CASE SvEof
    BY <2>5 DEF SvEof, Types, NotYet
  <2>6. CASE CloseWaitEnds
    <3>1. /\ UNCHANGED <<svAt, closed, clVars, clSeg, svSeg, tcp>>
          /\ svTcb' \in [Sock -> {"NULL", "CLOSED", "LISTENING", "CONNECTED", "CLOSEWAIT"}]
          /\ \A j \in Sock : svTcb[j] = "NULL" => svTcb'[j] = "NULL"
      BY <2>6 DEF CloseWaitEnds, Types
    <3>2. Types'
      BY <3>1 DEF Types
    <3>3. NotYet'
      BY <3>1 DEF NotYet, Types
    <3>4. QED
      BY <3>2, <3>3
  <2>7. QED
    BY <2>1, <2>2, <2>3, <2>4, <2>5, <2>6
<1>10. QED
  BY <1>3, <1>6, <1>8, <1>9

\* What the server's seghandler makes of a segment.
LEMMA ServerGetsInv == ASSUME HandshakeInv, SvGets PROVE HandshakeInv'
<1> USE DEF HandshakeInv
<1>0. PICK msg : msg = Head(svIn)
  OBVIOUS
<1>1. msg \in ToSv /\ msg \in Range(svIn) /\ svIn' \in Seq(ToSv) /\ Range(svIn') \subseteq Range(svIn)
  BY <1>0, TailElements DEF SvGets, Types
<1>2. msg.sock \in Sock /\ (msg.type = "FIN" => msg.sock \in finned)
  BY <1>1 DEF InFlight, ToSv
<1>3. UNCHANGED <<clVars, svAt, closed, clSeg, svSeg, clUp, svUp>>
  BY DEF SvGets
<1>4. \A j \in Sock : (Opened(j) => Opened(j)') /\ (FinTaken(j) => FinTaken(j)')
  <2>1. 1 \in Sock
    OBVIOUS
  <2>2. QED
    BY <2>1, ServerKeeps
<1>5. CASE UNCHANGED <<svTcb, clIn, reset>>
  <2>1. Types' /\ NotYet'
    BY <1>1, <1>3, <1>5 DEF Types, NotYet
  <2>2. InFlight'
    BY <1>1, <1>3, <1>5 DEF InFlight, Opened, FinTaken
  <2>3. Entries' /\ HandshakeAgrees'
    BY <1>3, <1>5 DEF Entries, HandshakeAgrees, Opened, FinTaken
  <2>4. QED
    BY <2>1, <2>2, <2>3
<1>6. ASSUME NEW r \in Replies(msg.sock, msg), svTcb' = Set(svTcb, msg.sock, r.state),
             clIn' = IF clUp THEN Append(clIn, Msg(r.answer, msg.sock)) ELSE clIn
      PROVE  HandshakeInv'
  <2>1. /\ r.state \in {"CONNECTED", "CLOSEWAIT"} /\ r.answer \in {"SYNACK", "FINACK"}
        /\ svTcb[msg.sock] \in {"LISTENING", "CONNECTED", "CLOSEWAIT"}
        /\ r.state = "CLOSEWAIT" <=> msg.type = "FIN"
        /\ r.answer = "FINACK" <=> r.state = "CLOSEWAIT"
    BY <1>6 DEF Replies
  <2>2. Msg(r.answer, msg.sock) \in ToCl
    BY <1>2, <2>1 DEF Msg, ToCl
  <2>3. clIn' \in Seq(ToCl) /\ Range(clIn') \subseteq Range(clIn) \cup {Msg(r.answer, msg.sock)}
    BY <1>6, <2>2, AppendElements DEF Types
  <2>4. \A m \in Range(clIn') : Opened(m.sock)' /\ (m.type = "FINACK" => FinTaken(m.sock)')
    <3>1. \A m \in Range(clIn) : m.sock \in Sock /\ Opened(m.sock) /\ (m.type = "FINACK" => FinTaken(m.sock))
      <4>1. Range(clIn) \subseteq ToCl
        BY Elements DEF Types
      <4>2. QED
        BY <4>1 DEF ToCl, InFlight
    <3>2. svTcb'[msg.sock] = r.state
      BY <1>2, <1>6 DEF Set, Types
    <3>3. Opened(msg.sock)' /\ (r.answer = "FINACK" => FinTaken(msg.sock)')
      BY <2>1, <3>2 DEF Opened, FinTaken
    <3>4. QED
      BY <1>4, <2>3, <3>1, <3>3 DEF Msg
  <2>5. Types' /\ NotYet'
    BY <1>1, <1>2, <1>3, <1>6, <2>1, <2>3 DEF Set, Types, NotYet
  <2>6. InFlight'
    BY <1>1, <1>3, <2>4 DEF InFlight
  <2>7. \A j \in Sock : svTcb'[j] = "CLOSEWAIT" => j \in finned
    BY <1>2, <1>6, <2>1 DEF Set, Types, Entries
  <2>8. Entries'
    BY <1>3, <1>4, <2>7 DEF Entries
  <2>9. \A j \in Sock : svTcb'[j] = "CLOSED" => svTcb[j] = "CLOSED"
    BY <1>2, <1>6, <2>1 DEF Set, Types
  <2>10. HandshakeAgrees'
    BY <1>3, <1>4, <2>9 DEF HandshakeAgrees, Opened, FinTaken, Types
  <2>11. QED
    BY <2>5, <2>6, <2>8, <2>10
<1>7. QED
  BY <1>0, <1>5, <1>6 DEF SvGets

\* Nothing changes in a stuttering step.
LEMMA StutterInv == ASSUME HandshakeInv, UNCHANGED handshakeVars PROVE HandshakeInv'
  BY DEF HandshakeInv, handshakeVars, Types, NotYet, InFlight, Entries, HandshakeAgrees, Opened, FinTaken

-----------------------------------------------------------------------------
(* The properties                                                          *)

\* The inductive invariant holds in every reachable state.
THEOREM HandshakeInvariance == HandshakeSpec => []HandshakeInv
<1>1. HandshakeInv /\ [HandshakeNext]_handshakeVars => HandshakeInv'
  BY ClientInv, ClientOtherInv, ServerInv, ServerGetsInv, StutterInv DEF HandshakeNext
<1>2. QED
  BY InitInv, <1>1, PTL DEF HandshakeSpec

\* The types are kept, and no call repeats its segment more often than its
\* constant allows (Exp4-1/client/stcp_client.c).
THEOREM HandshakeTypes == HandshakeSpec => []HandshakeTypeOK
<1>1. HandshakeInv => HandshakeTypeOK
  BY DEF HandshakeInv, Types, HandshakeTypeOK
<1>2. QED
  BY HandshakeInvariance, <1>1, PTL

\* A connect or disconnect that returned 1 was seen by the server, and the
\* server closes only what the client has given up, after the client has ended.
THEOREM HandshakeAgreement == HandshakeSpec => []HandshakeAgrees
<1>1. HandshakeInv => HandshakeAgrees
  BY DEF HandshakeInv
<1>2. QED
  BY HandshakeInvariance, <1>1, PTL

-----------------------------------------------------------------------------
(* The life of a socket                                                    *)

\* The application disconnects only when both sockets are connected.
Order ==
  /\ clAt.op \in {"sock", "sent", "connecting"} /\ clAt.sock = 2 => 1 \in connected
  /\ clAt.op \in {"disconnect", "finished", "closing"} => connected = Sock

\* It comes to its calls in the order of the program.
LEMMA CallOrder == HandshakeSpec => []Order
<1>1. HandshakeInit => Order
  BY DEF HandshakeInit, Order, At
<1>2. HandshakeInv /\ Order /\ [HandshakeNext]_handshakeVars => Order'
  <2> SUFFICES ASSUME HandshakeInv, Order, [HandshakeNext]_handshakeVars PROVE Order'
    OBVIOUS
  <2> USE DEF Order
  <2>1. ASSUME NEW i \in Sock, Sends(i) PROVE Order'
    BY <2>1 DEF Sends, DoesCl, At
  <2>2. ASSUME NEW i \in Sock, Awaits(i) PROVE Order'
    BY <2>2 DEF Awaits, DoesCl, At
  <2>3. ASSUME NEW i \in Sock, AnswerCame(i) PROVE Order'
    <3>1. connected \subseteq Sock
      BY DEF HandshakeInv, Types
    <3>2. CASE DoesCl("connecting", i)
      <4>1. clAt' = IF i = 1 THEN At("sock", 2) ELSE At("disconnect", 1)
        BY <2>3, <3>2 DEF AnswerCame, DoesCl, At
      <4>2. connected' = connected \cup {i}
        BY <2>3, <3>2 DEF AnswerCame, DoesCl, At
      <4>3. CASE i = 1
        BY <4>1, <4>2, <4>3 DEF At
      <4>4. CASE i = 2
        <5>1. 1 \in connected
          BY <3>2, <4>4 DEF DoesCl, At
        <5>2. connected' = Sock
          <6>1. Sock = {1, 2}
            OBVIOUS
          <6>2. connected \subseteq {1, 2}
            BY <3>1, <6>1
          <6>3. connected' = {1, 2}
            BY <4>2, <4>4, <5>1, <6>2
          <6>4. QED
            BY <6>1, <6>3
        <5>3. QED
          BY <4>1, <4>4, <5>2 DEF At
      <4>5. QED
        BY <4>3, <4>4
    <3>3. CASE DoesCl("closing", i)
      <4>1. clAt' = IF i = 1 THEN At("disconnect", 2) ELSE At("exit", 2)
        BY <2>3, <3>3 DEF AnswerCame, DoesCl, At
      <4>2. connected = Sock /\ UNCHANGED connected
        BY <2>3, <3>3 DEF AnswerCame, DoesCl, At
      <4>3. QED
        BY <4>1, <4>2 DEF At
    <3>4. QED
      BY <2>3, <3>2, <3>3 DEF AnswerCame
  <2>4. ASSUME NEW i \in Sock, SendsAgain(i) \/ AcceptBegins(i) \/ AcceptReturns(i) \/ CloseSv(i)
        PROVE  Order'
    BY <2>4 DEF SendsAgain, AcceptBegins, AcceptReturns, CloseSv
  <2>5. ASSUME NEW i \in Sock, Fails(i) PROVE Order'
    BY <2>5 DEF Fails, At
  <2>6. CASE ClEnds \/ ClGets \/ SvEnds \/ SvGets \/ SvEof \/ CloseWaitEnds \/ UNCHANGED handshakeVars
    BY <2>6 DEF ClEnds, ClGets, SvEnds, SvGets, SvEof, CloseWaitEnds, handshakeVars
  <2>7. QED
    BY <2>1, <2>2, <2>3, <2>4, <2>5, <2>6 DEF HandshakeNext
<1>3. QED
  BY HandshakeInvariance, <1>1, <1>2, PTL DEF HandshakeSpec

\* The sockets the server has brought to each of its stages.
OpenedSocks == {i \in Sock : Opened(i)}
FinTakenSocks == {i \in Sock : FinTaken(i)}
stages == <<OpenedSocks, connected, finned, FinTakenSocks, disconnected>>

LEMMA SameStages == ASSUME UNCHANGED stages PROVE UNCHANGED Socket!connectionVars
  BY DEF stages, OpenedSocks, FinTakenSocks, Socket!connectionVars

\* A step of the client's application establishes, finishes or disconnects its
\* socket, or moves none.
LEMMA ClientMaps ==
  ASSUME HandshakeInv, Order, NEW i \in Sock, Sends(i) \/ Awaits(i) \/ AnswerCame(i) \/ SendsAgain(i) \/ Fails(i)
  PROVE  [Socket!ConnectionNext]_(Socket!connectionVars)
<1>1. UNCHANGED <<OpenedSocks, FinTakenSocks>>
  BY DEF Sends, Awaits, AnswerCame, SendsAgain, Fails, OpenedSocks, FinTakenSocks, Opened, FinTaken
<1>2. CASE DoesCl("disconnect", i) /\ finned' = finned \cup {i} /\ UNCHANGED <<connected, disconnected>>
  <2>1. i \in connected
    BY <1>2 DEF DoesCl, At, Order
  <2>2. Socket!Finish(i)
    BY <1>1, <1>2, <2>1 DEF OpenedSocks, FinTakenSocks, Socket!Finish
  <2>3. QED
    BY <2>2 DEF Socket!ConnectionNext
<1>3. CASE DoesCl("connecting", i) /\ clTcb[i] = "CONNECTED" /\ connected' = connected \cup {i}
           /\ UNCHANGED <<finned, disconnected>>
  <2>1. Opened(i)
    BY <1>3 DEF HandshakeInv, Entries
  <2>2. Socket!Establish(i)
    BY <1>1, <1>3, <2>1 DEF OpenedSocks, FinTakenSocks, Socket!Establish
  <2>3. QED
    BY <2>2 DEF Socket!ConnectionNext
<1>4. CASE DoesCl("closing", i) /\ clTcb[i] = "CLOSED" /\ disconnected' = disconnected \cup {i}
           /\ UNCHANGED <<finned, connected>>
  <2>1. FinTaken(i)
    BY <1>4 DEF HandshakeInv, Entries, DoesCl
  <2>2. Socket!Disconnect(i)
    BY <1>1, <1>4, <2>1 DEF OpenedSocks, FinTakenSocks, Socket!Disconnect
  <2>3. QED
    BY <2>2 DEF Socket!ConnectionNext
<1>5. CASE UNCHANGED <<connected, finned, disconnected>>
  BY <1>1, <1>5, SameStages DEF stages
<1>6. QED
  <2>1. Awaits(i) \/ SendsAgain(i) \/ Fails(i) => UNCHANGED <<connected, finned, disconnected>>
    BY DEF Awaits, SendsAgain, Fails
  <2>2. CASE Sends(i)
    BY <1>2, <1>5, <2>2 DEF Sends
  <2>3. CASE AnswerCame(i)
    BY <1>3, <1>4, <2>3 DEF AnswerCame
  <2>4. QED
    BY <1>5, <2>1, <2>2, <2>3

\* A step of the server's seghandler opens a socket, takes a FIN, or moves none.
LEMMA ServerGetsMaps ==
  ASSUME HandshakeInv, SvGets
  PROVE  [Socket!ConnectionNext]_(Socket!connectionVars)
<1> DEFINE msg == Head(svIn)
<1> USE DEF HandshakeInv
<1>0. UNCHANGED <<connected, finned, disconnected, closed>>
  BY DEF SvGets
<1>1. msg \in ToSv /\ msg \in Range(svIn)
  BY TailElements DEF SvGets, Types
<1>2. PICK i \in Sock : i = msg.sock
  BY <1>1 DEF ToSv
<1>3. CASE UNCHANGED svTcb
  BY <1>0, <1>3, SameStages DEF stages, OpenedSocks, FinTakenSocks, Opened, FinTaken
<1>4. CASE svTcb[i] \in {"LISTENING", "CONNECTED"} /\ svTcb' = Set(svTcb, i, "CONNECTED")
  <2>1. OpenedSocks' = OpenedSocks \cup {i} /\ UNCHANGED FinTakenSocks
    BY <1>0, <1>4 DEF OpenedSocks, FinTakenSocks, Opened, FinTaken, Set, Types
  <2>2. Socket!Open(i)
    BY <1>0, <2>1 DEF OpenedSocks, FinTakenSocks, Socket!Open
  <2>3. QED
    BY <2>2 DEF Socket!ConnectionNext
<1>5. CASE msg.type = "FIN" /\ svTcb[i] \in {"CONNECTED", "CLOSEWAIT"} /\ svTcb' = Set(svTcb, i, "CLOSEWAIT")
  <2>1. FinTakenSocks' = FinTakenSocks \cup {i} /\ UNCHANGED OpenedSocks
    BY <1>0, <1>5 DEF OpenedSocks, FinTakenSocks, Opened, FinTaken, Set, Types
  <2>2. i \in finned
    BY <1>1, <1>2, <1>5 DEF InFlight
  <2>3. Socket!TakeFin(i)
    BY <1>0, <2>1, <2>2 DEF OpenedSocks, FinTakenSocks, Socket!TakeFin
  <2>4. QED
    BY <2>3 DEF Socket!ConnectionNext
<1>6. QED
  BY <1>2, <1>3, <1>4, <1>5 DEF SvGets, Replies

\* No other step moves a socket.
LEMMA OthersMap ==
  ASSUME HandshakeInv, NEW i \in Sock,
         \/ AcceptBegins(i) \/ AcceptReturns(i) \/ CloseSv(i) \/ SvEnds \/ SvEof \/ CloseWaitEnds
         \/ ClEnds \/ ClGets \/ UNCHANGED handshakeVars
  PROVE  UNCHANGED Socket!connectionVars
<1> USE DEF HandshakeInv
<1>1. UNCHANGED <<connected, finned, disconnected>>
  BY DEF AcceptBegins, AcceptReturns, CloseSv, SvEnds, SvEof, CloseWaitEnds, ClEnds, ClGets, handshakeVars
<1>2. ASSUME NEW j \in Sock
      PROVE  (Opened(j)' <=> Opened(j)) /\ (FinTaken(j)' <=> FinTaken(j))
  <2> USE DEF Opened, FinTaken
  <2>1. CASE AcceptBegins(i)
    BY <2>1, <1>2 DEF AcceptBegins, DoesSv, At, Set, Types, NotYet, HandshakeAgrees
  <2>2. CASE CloseSv(i)
    BY <2>2, <1>2 DEF CloseSv, Set, Types
  <2>3. CASE CloseWaitEnds
    BY <2>3, <1>2 DEF CloseWaitEnds, Types
  <2>4. CASE AcceptReturns(i) \/ SvEnds \/ SvEof \/ ClEnds \/ ClGets \/ UNCHANGED handshakeVars
    BY <2>4 DEF AcceptReturns, SvEnds, SvEof, ClEnds, ClGets, handshakeVars
  <2>5. QED
    BY <2>1, <2>2, <2>3, <2>4
<1>3. UNCHANGED <<OpenedSocks, FinTakenSocks>>
  BY <1>2 DEF OpenedSocks, FinTakenSocks
<1>4. QED
  BY <1>1, <1>3, SameStages DEF stages

\* The two processes of Exp4-1 implement the life of each of their sockets, for
\* any number of repetitions (Exp4-1/client/stcp_client.c, server/stcp_server.c).
THEOREM SocketRefinement == HandshakeSpec => ImplementsSockets
<1>1. HandshakeInit => Socket!ConnectionInit
  BY DEF HandshakeInit, Socket!ConnectionInit, Opened, FinTaken
<1>2. HandshakeInv /\ Order /\ [HandshakeNext]_handshakeVars => [Socket!ConnectionNext]_(Socket!connectionVars)
  BY ClientMaps, ServerGetsMaps, OthersMap DEF HandshakeNext
<1>3. QED
  BY HandshakeInvariance, CallOrder, <1>1, <1>2, PTL DEF HandshakeSpec, ImplementsSockets, Socket!ConnectionSpec
=============================================================================
