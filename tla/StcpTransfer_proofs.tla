------------------------- MODULE StcpTransfer_proofs --------------------------
(***************************************************************************)
(* Proofs about StcpTransfer, for any calls of stcp_client_send, window,   *)
(* buffer and number of repetitions.                                       *)
(***************************************************************************)
EXTENDS StcpTransfer, TLAPS

Connecting == {"connect", "synsent", "connecting"}
Launching == {"launch", "sending", "sent", "count"}
Finishing == {"finsent", "closing", "close", "done"}
ClientStages == Connecting \cup {"queue"} \cup Launching \cup {"disconnect"} \cup Finishing \cup {"failed"}
SegType == [type : {"SYN", "FIN", "DATA", "torn", "SYNACK", "FINACK", "DATAACK"}, seq : Nat]

ClientTypes ==
  /\ cstate \in {"CLOSED", "SYNSENT", "CONNECTED", "FINWAIT", "NULL"} /\ capp \in ClientStages
  /\ retry \in Nat /\ call \in DOMAIN Calls /\ hasty \in BOOLEAN /\ chandler \in {"on", "gone"}
  /\ sendBufTail \in 0..Units /\ sendBufHead \in 1..(sendBufTail + 1) /\ sendBufunSent \in 1..(sendBufTail + 1)
  /\ unAck_segNum \in Int /\ loaded \in Int /\ timers \in 0..sendBufTail /\ resends \in Nat /\ countRaced \in BOOLEAN

ServerTypes ==
  /\ sstate \in {"CLOSED", "LISTENING", "CONNECTED", "CLOSEWAIT"}
  /\ sapp \in {"accept", "accepting", "recv", "taking", "close", "done", "failed"}
  /\ expect_seqNum \in Nat /\ recvBuf \in [1..RECEIVE_BUF_SIZE -> Nat] /\ usedBufLen \in 0..RECEIVE_BUF_SIZE
  /\ shandler \in {"on", "copied", "gone"} /\ copied \in 0..(RECEIVE_BUF_SIZE - 1)
  /\ delivered \in Seq(Nat) /\ discarded \in Nat /\ bufRaced \in BOOLEAN

LinkTypes ==
  /\ toServer \in Seq(SegType) /\ toClient \in Seq(SegType)
  /\ clientUp \in BOOLEAN /\ serverUp \in BOOLEAN

\* Where the application is says how much it has put in the buffer.
ClientControl ==
  /\ capp \in Connecting => sendBufTail = 0
  /\ capp \in Connecting \cup {"queue"} => sendBufTail < Calls[call]
  /\ capp \in Launching => sendBufTail = Calls[call]
  /\ capp \in Finishing \cup {"disconnect"} => sendBufTail = Units
  /\ capp \in {"sending", "sent"} => sendBufunSent <= sendBufTail
  /\ capp \in Finishing /\ ~hasty => sendBufHead = Units + 1

\* The window is looked at by Launch and cannot grow between that and Count.
Window ==
  /\ unAck_segNum <= GBN_WINDOW
  /\ capp \in {"sending", "sent", "count"} => unAck_segNum < GBN_WINDOW
  /\ capp = "count" => loaded < GBN_WINDOW
  /\ ~countRaced => unAck_segNum = sendBufunSent - sendBufHead - (IF capp = "count" THEN 1 ELSE 0)

ServerControl ==
  /\ sapp = "accept" => sstate = "CLOSED" /\ expect_seqNum = 0
  /\ sapp \in {"accept", "accepting"} => delivered = <<>>
  /\ sapp \in {"recv", "taking"} => Len(delivered) < Units
  /\ expect_seqNum = 0 => usedBufLen = 0 /\ delivered = <<>> /\ discarded = 0
  /\ discarded > 0 => sstate = "CLOSED" /\ shandler # "copied"
  /\ shandler = "copied" => usedBufLen <= copied /\ expect_seqNum \in 1..sendBufTail
  /\ expect_seqNum <= sendBufTail + 1

\* What waits in the buffer follows what was delivered, also the segment that
\* is copied and not yet counted.
Stream ==
  ~bufRaced =>
    /\ \A i \in 1..Len(delivered) : delivered[i] = i
    /\ \A i \in 1..usedBufLen : recvBuf[i] = Len(delivered) + i
    /\ expect_seqNum > 0 => Len(delivered) + usedBufLen + discarded = expect_seqNum - 1
    /\ shandler = "copied" /\ usedBufLen = copied => recvBuf[copied + 1] = expect_seqNum

\* A SYN precedes everything else on the connection.
SynFirst ==
  /\ \A i, j \in DOMAIN toServer : i < j /\ toServer[j].type = "SYN" => toServer[i].type = "SYN"
  /\ capp \in Connecting => \A i \in DOMAIN toServer : toServer[i].type = "SYN"
  /\ \A i \in DOMAIN toServer : toServer[i].type = "SYN" => expect_seqNum <= 1 /\ shandler # "copied"

\* What a segment on its way proves about its sender.
InFlight ==
  /\ \A i \in DOMAIN toServer :
       /\ toServer[i].type = "SYN" => toServer[i].seq = 1
       /\ toServer[i].type = "DATA" => toServer[i].seq \in 1..sendBufTail
  /\ \A i \in DOMAIN toClient : toClient[i].type = "DATAACK" => toClient[i].seq <= expect_seqNum
  /\ sendBufHead > 1 => sendBufHead <= expect_seqNum

\* A FIN that was sent without haste was sent when all data was acknowledged.
FinIsFair == capp \in Finishing \cup {"failed"} /\ (~hasty => sendBufHead = Units + 1)
Fins ==
  /\ \A i \in DOMAIN toServer : toServer[i].type = "FIN" => FinIsFair
  /\ sstate = "CLOSEWAIT" \/ (sstate = "CLOSED" /\ sapp # "accept") => FinIsFair

TransferInv ==
  /\ ClientTypes /\ ServerTypes /\ LinkTypes
  /\ ClientControl /\ Window /\ ServerControl /\ Stream /\ SynFirst /\ InFlight /\ Fins

USE DEF clientApp, sendBuf, clientVars, recvState, serverVars, links, ups, Goto, ServerApp

-----------------------------------------------------------------------------
(* Numbers and sequences                                                   *)

\* The greater of two numbers.
LEMMA Greater == ASSUME NEW a \in Int, NEW b \in Int PROVE Max({a, b}) = IF a >= b THEN a ELSE b
  BY DEF Max

\* Every call ends with a unit of the last call or before.
LEMMA CallsRise == Units \in Nat \ {0} /\ \A c \in DOMAIN Calls : Calls[c] \in Nat \ {0} /\ Calls[c] <= Units
<1> USE TransferAssumption
<1>1. Len(Calls) \in DOMAIN Calls /\ \A c \in DOMAIN Calls : Calls[c] \in Nat \ {0} /\ c <= Len(Calls)
  OBVIOUS
<1>2. QED
  BY <1>1 DEF Units

\* The sizes.
LEMMA Sizes == GBN_WINDOW \in Nat \ {0} /\ RECEIVE_BUF_SIZE \in Nat \ {0} /\ SYN_MAX_RETRY \in Nat /\ FIN_MAX_RETRY \in Nat
  BY TransferAssumption

\* What is left when the first element is taken is one place nearer.
LEMMA OneTaken ==
  ASSUME NEW S, NEW s \in Seq(S), s # <<>>
  PROVE  /\ 1 \in DOMAIN s /\ Head(s) = s[1] /\ Head(s) \in S /\ Tail(s) \in Seq(S)
         /\ \A k \in DOMAIN Tail(s) : k \in Nat \ {0} /\ k + 1 \in DOMAIN s /\ Tail(s)[k] = s[k + 1]
  OBVIOUS

\* An element of a concatenation is one of the first sequence, or of the second.
LEMMA Joined ==
  ASSUME NEW S, NEW s \in Seq(S), NEW t \in Seq(S)
  PROVE  /\ s \o t \in Seq(S) /\ DOMAIN (s \o t) = 1..(Len(s) + Len(t)) /\ DOMAIN s = 1..Len(s)
         /\ \A k \in DOMAIN s : (s \o t)[k] = s[k]
         /\ \A k \in DOMAIN (s \o t) : k \notin DOMAIN s => k > Len(s) /\ k - Len(s) \in DOMAIN t /\ (s \o t)[k] = t[k - Len(s)]
  OBVIOUS

-----------------------------------------------------------------------------
(* The links                                                               *)

\* Steps of the client that send segments, or nothing.
LEMMA SentToServer ==
  ASSUME TransferInv, UNCHANGED <<sstate, sapp, expect_seqNum, shandler>>,
         sendBufTail' \in Nat, sendBufTail <= sendBufTail', FinIsFair => FinIsFair',
         capp' \in Connecting => capp \in Connecting,
         NEW segs \in Seq(SegType), toServer' = toServer \/ toServer' = toServer \o segs,
         \A k \in DOMAIN segs : segs[k].type = "DATA" => segs[k].seq \in 1..sendBufTail,
         \A k \in DOMAIN segs : segs[k].type = "FIN" => FinIsFair',
         \/ capp \in Connecting /\ \A k \in DOMAIN segs : segs[k].type = "SYN" /\ segs[k].seq = 1
         \/ capp' \notin Connecting /\ \A k \in DOMAIN segs : segs[k].type # "SYN"
  PROVE  /\ toServer' \in Seq(SegType) /\ SynFirst' /\ Fins'
         /\ \A k \in DOMAIN toServer' :
              /\ toServer'[k].type = "SYN" => toServer'[k].seq = 1
              /\ toServer'[k].type = "DATA" => toServer'[k].seq \in 1..sendBufTail'
<1> USE DEF TransferInv, LinkTypes
<1>1. sendBufTail \in Nat /\ expect_seqNum \in Nat
  BY DEF ClientTypes, ServerTypes
<1>2. CASE toServer' = toServer
  <2>1. SynFirst'
    BY <1>2 DEF SynFirst
  <2>2. Fins'
    BY <1>2 DEF Fins
  <2>3. QED
    BY <1>1, <1>2, <2>1, <2>2 DEF InFlight
<1>3. CASE toServer' = toServer \o segs
  <2>1. /\ toServer' \in Seq(SegType) /\ DOMAIN toServer' = 1..(Len(toServer) + Len(segs)) /\ DOMAIN toServer = 1..Len(toServer)
        /\ \A k \in DOMAIN toServer : toServer'[k] = toServer[k]
        /\ \A k \in DOMAIN toServer' : k \notin DOMAIN toServer => \E n \in DOMAIN segs : toServer'[k] = segs[n]
    BY <1>3, Joined
  <2>2. Fins'
    BY <2>1 DEF Fins
  <2>3. \A k \in DOMAIN toServer' :
          /\ toServer'[k].type = "SYN" => toServer'[k].seq = 1
          /\ toServer'[k].type = "DATA" => toServer'[k].seq \in 1..sendBufTail'
    <3>1. \A n \in 1..sendBufTail : n \in 1..sendBufTail'
      BY <1>1
    <3>2. \A k \in DOMAIN toServer : /\ toServer[k].type = "SYN" => toServer[k].seq = 1
                                     /\ toServer[k].type = "DATA" => toServer[k].seq \in 1..sendBufTail'
      BY <3>1 DEF InFlight
    <3>3. \A k \in DOMAIN segs : /\ segs[k].type = "SYN" => segs[k].seq = 1
                                 /\ segs[k].type = "DATA" => segs[k].seq \in 1..sendBufTail'
      BY <3>1
    <3>4. QED
      BY <2>1, <3>2, <3>3
  <2>4. CASE capp \in Connecting /\ \A k \in DOMAIN segs : segs[k].type = "SYN" /\ segs[k].seq = 1
    <3>1. \A k \in DOMAIN toServer' : toServer'[k].type = "SYN"
      <4>1. \A k \in DOMAIN toServer : toServer[k].type = "SYN"
        BY <2>4 DEF SynFirst
      <4>2. QED
        BY <2>1, <2>4, <4>1
    <3>2. expect_seqNum <= 1 /\ shandler # "copied"
      BY <1>1, <2>4 DEF ClientControl, ServerControl
    <3>3. QED
      BY <2>1, <2>2, <2>3, <3>1, <3>2 DEF SynFirst
  <2>5. CASE capp' \notin Connecting /\ \A k \in DOMAIN segs : segs[k].type # "SYN"
    <3>1. \A k \in DOMAIN toServer' : toServer'[k].type = "SYN" => k \in DOMAIN toServer
      BY <2>1, <2>5
    <3>2. \A j, k \in DOMAIN toServer' : j < k /\ k \in DOMAIN toServer => j \in DOMAIN toServer
      BY <2>1
    <3>3. SynFirst'
      BY <2>1, <2>5, <3>1, <3>2 DEF SynFirst
    <3>4. QED
      BY <2>1, <2>2, <2>3, <3>3
  <2>6. QED
    BY <2>4, <2>5
<1>4. QED
  BY <1>2, <1>3

\* What the server takes from the link.
LEMMA TakenByServer ==
  ASSUME TransferInv, toServer # <<>>, toServer' = Tail(toServer), UNCHANGED clientVars
  PROVE  /\ Head(toServer) \in SegType /\ toServer' \in Seq(SegType)
         /\ Head(toServer).type = "SYN" => Head(toServer).seq = 1 /\ expect_seqNum <= 1
         /\ Head(toServer).type = "DATA" => Head(toServer).seq \in 1..sendBufTail
         /\ Head(toServer).type = "FIN" => FinIsFair
         /\ Head(toServer).type # "SYN" => \A k \in DOMAIN toServer' : toServer'[k].type # "SYN"
         /\ expect_seqNum' \in Nat /\ (expect_seqNum' <= 1 \/ Head(toServer).type # "SYN") /\ (shandler' = "copied" => Head(toServer).type # "SYN")
              => SynFirst'
         /\ \A k \in DOMAIN toServer' :
              /\ toServer'[k].type = "SYN" => toServer'[k].seq = 1
              /\ toServer'[k].type = "DATA" => toServer'[k].seq \in 1..sendBufTail'
              /\ toServer'[k].type = "FIN" => FinIsFair'
<1> USE DEF TransferInv, LinkTypes
<1>1. /\ 1 \in DOMAIN toServer /\ Head(toServer) = toServer[1] /\ Head(toServer) \in SegType /\ toServer' \in Seq(SegType)
      /\ \A k \in DOMAIN toServer' : k \in Nat \ {0} /\ k + 1 \in DOMAIN toServer /\ toServer'[k] = toServer[k + 1]
  BY OneTaken
<1>2. /\ Head(toServer).type = "SYN" => Head(toServer).seq = 1 /\ expect_seqNum <= 1
      /\ Head(toServer).type = "DATA" => Head(toServer).seq \in 1..sendBufTail
      /\ Head(toServer).type = "FIN" => FinIsFair
  BY <1>1 DEF InFlight, Fins, SynFirst
<1>3. Head(toServer).type # "SYN" => \A k \in DOMAIN toServer' : toServer'[k].type # "SYN"
  <2>1. \A k \in DOMAIN toServer' : 1 < k + 1
    BY <1>1
  <2>2. QED
    BY <1>1, <2>1 DEF SynFirst
<1>4. \A k \in DOMAIN toServer' :
        /\ toServer'[k].type = "SYN" => toServer'[k].seq = 1
        /\ toServer'[k].type = "DATA" => toServer'[k].seq \in 1..sendBufTail'
        /\ toServer'[k].type = "FIN" => FinIsFair'
  BY <1>1 DEF InFlight, Fins, FinIsFair
<1>5. ASSUME expect_seqNum' \in Nat, expect_seqNum' <= 1 \/ Head(toServer).type # "SYN",
             shandler' = "copied" => Head(toServer).type # "SYN"
      PROVE  SynFirst'
  <2>1. \A j, k \in DOMAIN toServer' : j < k /\ toServer'[k].type = "SYN" => toServer'[j].type = "SYN"
    <3>1. \A j, k \in DOMAIN toServer' : j < k => j + 1 < k + 1
      BY <1>1
    <3>2. QED
      BY <1>1, <3>1 DEF SynFirst
  <2>2. capp' \in Connecting => \A k \in DOMAIN toServer' : toServer'[k].type = "SYN"
    BY <1>1 DEF SynFirst
  <2>3. \A k \in DOMAIN toServer' : toServer'[k].type = "SYN" => expect_seqNum' <= 1 /\ shandler' # "copied"
    BY <1>3, <1>5
  <2>4. QED
    BY <2>1, <2>2, <2>3 DEF SynFirst
<1>6. QED
  BY <1>1, <1>2, <1>3, <1>4, <1>5

\* An answer of the server.
LEMMA SentToClient ==
  ASSUME TransferInv, NEW type \in {"SYNACK", "FINACK", "DATAACK"}, NEW seq \in Nat, ToClient(type, seq),
         expect_seqNum' \in Nat, expect_seqNum <= expect_seqNum', type = "DATAACK" => seq <= expect_seqNum'
  PROVE  /\ toClient' \in Seq(SegType)
         /\ \A k \in DOMAIN toClient' : toClient'[k].type = "DATAACK" => toClient'[k].seq <= expect_seqNum'
<1> USE DEF TransferInv, LinkTypes, ServerTypes
<1>1. Seg(type, seq) \in SegType /\ Seg(type, seq).type = type /\ Seg(type, seq).seq = seq
  BY DEF Seg, SegType
<1>2. \A k \in DOMAIN toClient : toClient[k].type = "DATAACK" => toClient[k].seq <= expect_seqNum'
  <2>1. \A k \in DOMAIN toClient : toClient[k] \in SegType
    OBVIOUS
  <2>2. \A k \in DOMAIN toClient : toClient[k].seq \in Nat
    BY <2>1 DEF SegType
  <2>3. \A n \in Nat : n <= expect_seqNum => n <= expect_seqNum'
    OBVIOUS
  <2>4. QED
    BY <2>2, <2>3 DEF InFlight
<1>3. CASE toClient' = toClient
  BY <1>2, <1>3
<1>4. CASE toClient' = Append(toClient, Seg(type, seq))
  <2>1. toClient' \in Seq(SegType) /\ DOMAIN toClient' = 1..(Len(toClient) + 1) /\ toClient'[Len(toClient) + 1] = Seg(type, seq)
    BY <1>1, <1>4
  <2>2. \A k \in 1..Len(toClient) : k \in DOMAIN toClient /\ toClient'[k] = toClient[k]
    BY <1>1, <1>4
  <2>3. \A k \in 1..(Len(toClient) + 1) : k \in 1..Len(toClient) \/ k = Len(toClient) + 1
    OBVIOUS
  <2>4. QED
    BY <1>1, <1>2, <2>1, <2>2, <2>3
<1>5. QED
  BY <1>3, <1>4 DEF ToClient

-----------------------------------------------------------------------------
(* The client's steps                                                      *)

\* Nothing has been sent.
LEMMA InitInv == TransferInit => TransferInv
<1> SUFFICES ASSUME TransferInit PROVE TransferInv
  OBVIOUS
<1> USE DEF TransferInit
<1>1. ClientTypes /\ ClientControl /\ Window
  <2>1. 1 \in DOMAIN Calls /\ Calls[1] \in Nat \ {0}
    BY TransferAssumption
  <2>2. ClientTypes
    <3>1. sendBufTail \in 0..Units
      BY CallsRise
    <3>2. sendBufHead \in 1..(sendBufTail + 1) /\ sendBufunSent \in 1..(sendBufTail + 1) /\ timers \in 0..sendBufTail
      OBVIOUS
    <3>3. retry \in Nat /\ unAck_segNum \in Int /\ loaded \in Int /\ resends \in Nat
      OBVIOUS
    <3>4. QED
      BY <2>1, <3>1, <3>2, <3>3 DEF ClientTypes, ClientStages, Connecting
  <2>3. ClientControl
    BY <2>1 DEF ClientControl, Connecting, Launching, Finishing
  <2>4. Window
    BY Sizes DEF Window
  <2>5. QED
    BY <2>2, <2>3, <2>4
<1>2. ServerTypes
  <2>1. recvBuf \in [1..RECEIVE_BUF_SIZE -> Nat]
    OBVIOUS
  <2>2. QED
    <3>1. usedBufLen \in 0..RECEIVE_BUF_SIZE /\ copied \in 0..(RECEIVE_BUF_SIZE - 1)
      BY Sizes
    <3>2. expect_seqNum \in Nat /\ discarded \in Nat /\ delivered \in Seq(Nat)
      BY <<>> \in Seq(Nat)
    <3>3. QED
      BY <2>1, <3>1, <3>2 DEF ServerTypes
<1>3. LinkTypes
  BY <<>> \in Seq(SegType) DEF LinkTypes
<1>4. ServerControl /\ Stream
  BY DEF ServerControl, Stream
<1>5. SynFirst /\ InFlight /\ Fins
  BY DEF SynFirst, InFlight, Fins
<1>6. QED
  BY <1>1, <1>2, <1>3, <1>4, <1>5 DEF TransferInv

\* What a step of the client has to show, whatever it sends.
LEMMA ClientSends ==
  ASSUME TransferInv, UNCHANGED <<serverVars, toClient, serverUp, sendBufHead>>, clientUp' \in BOOLEAN,
         ClientTypes', ClientControl', Window',
         sendBufTail <= sendBufTail', FinIsFair => FinIsFair', capp' \in Connecting => capp \in Connecting,
         NEW segs \in Seq(SegType), toServer' = toServer \/ toServer' = toServer \o segs,
         \A k \in DOMAIN segs : segs[k].type = "DATA" => segs[k].seq \in 1..sendBufTail,
         \A k \in DOMAIN segs : segs[k].type = "FIN" => FinIsFair',
         \/ capp \in Connecting /\ \A k \in DOMAIN segs : segs[k].type = "SYN" /\ segs[k].seq = 1
         \/ capp' \notin Connecting /\ \A k \in DOMAIN segs : segs[k].type # "SYN"
  PROVE  TransferInv'
<1> USE DEF TransferInv
<1>1. /\ sendBufTail \in Nat /\ sendBufTail' \in Nat /\ sendBufTail <= sendBufTail' /\ expect_seqNum \in Nat
      /\ UNCHANGED <<sstate, sapp, expect_seqNum, shandler>>
  BY DEF ClientTypes, ServerTypes
<1>2. /\ toServer' \in Seq(SegType) /\ SynFirst' /\ Fins'
      /\ \A k \in DOMAIN toServer' :
           /\ toServer'[k].type = "SYN" => toServer'[k].seq = 1
           /\ toServer'[k].type = "DATA" => toServer'[k].seq \in 1..sendBufTail'
  BY <1>1, SentToServer
<1>3. InFlight'
  BY <1>1, <1>2 DEF InFlight
<1>4. LinkTypes'
  BY <1>2 DEF LinkTypes
<1>5. ServerTypes' /\ Stream'
  BY DEF ServerTypes, Stream
<1>6. ServerControl'
  <2>1. \A a, b, n \in Nat : a <= b => (n <= a + 1 => n <= b + 1) /\ (n \in 1..a => n \in 1..b)
    OBVIOUS
  <2>2. expect_seqNum <= sendBufTail' + 1 /\ (shandler = "copied" => expect_seqNum \in 1..sendBufTail')
    BY <1>1, <2>1 DEF ServerControl
  <2>3. QED
    BY <1>1, <2>2 DEF ServerControl
<1>7. QED
  BY <1>2, <1>3, <1>4, <1>5, <1>6

\* The same for one segment ...
LEMMA ClientSendsOne ==
  ASSUME TransferInv, UNCHANGED <<serverVars, serverUp, sendBufHead>>, clientUp' \in BOOLEAN,
         ClientTypes', ClientControl', Window',
         sendBufTail <= sendBufTail', FinIsFair => FinIsFair', capp' \in Connecting => capp \in Connecting,
         NEW type \in {"SYN", "FIN", "DATA", "torn"}, NEW seq \in Nat, ToServer(<<Seg(type, seq)>>),
         type = "DATA" => seq \in 1..sendBufTail, type = "FIN" => FinIsFair',
         IF type = "SYN" THEN capp \in Connecting /\ seq = 1 ELSE capp' \notin Connecting
  PROVE  TransferInv'
<1> DEFINE segs == <<Seg(type, seq)>>
<1>1. Seg(type, seq) \in SegType /\ Seg(type, seq).type = type /\ Seg(type, seq).seq = seq
  BY DEF Seg, SegType
<1>2. segs \in Seq(SegType) /\ \A k \in DOMAIN segs : segs[k] = Seg(type, seq)
  BY <1>1
<1>3. UNCHANGED toClient /\ (toServer' = toServer \/ toServer' = toServer \o segs)
  BY DEF ToServer
<1> HIDE DEF segs
<1>4. QED
  BY <1>1, <1>2, <1>3, ClientSends

\* ... and for none.
LEMMA ClientQuiet ==
  ASSUME TransferInv, UNCHANGED <<serverVars, links, serverUp, sendBufHead>>, clientUp' \in BOOLEAN,
         ClientTypes', ClientControl', Window',
         sendBufTail <= sendBufTail', FinIsFair => FinIsFair', capp' \in Connecting => capp \in Connecting
  PROVE  TransferInv'
<1>1. <<>> \in Seq(SegType) /\ DOMAIN <<>> = {}
  OBVIOUS
<1>2. QED
  BY <1>1, ClientSends

\* What the application does with segments of its own, without a link.
LEMMA ClientAppInv ==
  ASSUME TransferInv, SetState \/ Enqueue \/ Launch \/ Advance \/ Count \/ CloseClient
  PROVE  TransferInv'
<1> USE DEF TransferInv
<1>1. UNCHANGED <<serverVars, links, serverUp, sendBufHead>> /\ clientUp' \in BOOLEAN
  BY DEF SetState, Enqueue, Launch, Advance, Count, CloseClient, LinkTypes
<1>2. ASSUME UNCHANGED sendBufTail, ClientTypes', ClientControl', Window',
             FinIsFair => FinIsFair', capp' \in Connecting => capp \in Connecting
      PROVE  TransferInv'
  <2>1. sendBufTail <= sendBufTail'
    BY <1>2 DEF ClientTypes
  <2>2. QED
    BY <1>1, <1>2, <2>1, ClientQuiet
<1>3. CASE SetState
  <2> USE <1>3 DEF SetState
  <2>1. ClientTypes'
    BY DEF ClientTypes, ClientStages, Connecting, Finishing
  <2>2. ClientControl'
    BY DEF ClientControl, Connecting, Launching, Finishing
  <2>3. Window'
    BY DEF Window
  <2>4. (FinIsFair => FinIsFair') /\ (capp' \in Connecting => capp \in Connecting) /\ UNCHANGED sendBufTail
    BY DEF FinIsFair, Connecting, Finishing
  <2>5. QED
    BY <1>2, <2>1, <2>2, <2>3, <2>4
<1>4. CASE Enqueue
  <2> USE <1>4 DEF Enqueue
  <2>1. Calls[call] \in Nat /\ Calls[call] <= Units /\ Units \in Nat /\ capp = "queue" /\ sendBufTail' = sendBufTail + 1
    BY CallsRise DEF ClientTypes
  <2>2. sendBufTail < Calls[call]
    BY <2>1 DEF ClientControl
  <2>3. ClientTypes'
    <3>1. sendBufTail' \in 0..Units /\ sendBufHead \in 1..(sendBufTail' + 1) /\ sendBufunSent \in 1..(sendBufTail' + 1)
      BY <2>1, <2>2 DEF ClientTypes
    <3>2. timers' \in 0..sendBufTail'
      BY <2>1 DEF ClientTypes
    <3>3. QED
      BY <3>1, <3>2 DEF ClientTypes, ClientStages, Launching
  <2>4. ClientControl'
    <3>1. IF capp' = "launch" THEN sendBufTail' = Calls[call] ELSE capp' = "queue" /\ sendBufTail' < Calls[call]
      BY <2>1, <2>2 DEF ClientTypes
    <3>2. QED
      BY <3>1 DEF ClientControl, Connecting, Launching, Finishing
  <2>5. Window'
    BY <2>1 DEF Window
  <2>6. (FinIsFair => FinIsFair') /\ (capp' \in Connecting => capp \in Connecting) /\ sendBufTail <= sendBufTail'
    BY <2>1 DEF ClientTypes, FinIsFair, Connecting, Finishing
  <2>7. QED
    BY <1>1, <2>3, <2>4, <2>5, <2>6, ClientQuiet
<1>5. CASE Launch
  <2> USE <1>5 DEF Launch
  <2>1. capp = "launch" /\ sendBufTail = Calls[call] /\ call \in DOMAIN Calls
    BY DEF ClientControl, ClientTypes, Launching
  <2>2. CASE sendBufunSent <= sendBufTail /\ capp' = "sending" /\ UNCHANGED call
    <3>1. ClientTypes' /\ ClientControl'
      BY <2>1, <2>2 DEF ClientTypes, ClientControl, ClientStages, Connecting, Launching, Finishing
    <3>2. Window'
      BY <2>1, <2>2 DEF Window
    <3>3. (FinIsFair => FinIsFair') /\ (capp' \in Connecting => capp \in Connecting) /\ UNCHANGED sendBufTail
      BY <2>1, <2>2 DEF FinIsFair, Connecting, Finishing
    <3>4. QED
      BY <1>2, <3>1, <3>2, <3>3
  <2>3. CASE call < Len(Calls) /\ capp' = "queue" /\ call' = call + 1
    <3>1. call' \in DOMAIN Calls /\ Calls[call] < Calls[call']
      BY <2>1, <2>3, TransferAssumption
    <3>2. ClientTypes' /\ ClientControl'
      BY <2>1, <2>3, <3>1 DEF ClientTypes, ClientControl, ClientStages, Connecting, Launching, Finishing
    <3>3. Window'
      BY <2>1, <2>3 DEF Window
    <3>4. (FinIsFair => FinIsFair') /\ (capp' \in Connecting => capp \in Connecting) /\ UNCHANGED sendBufTail
      BY <2>1, <2>3 DEF FinIsFair, Connecting, Finishing
    <3>5. QED
      BY <1>2, <3>2, <3>3, <3>4
  <2>4. CASE ~(call < Len(Calls)) /\ capp' = "disconnect" /\ UNCHANGED call
    <3>1. sendBufTail = Units
      <4>1. call = Len(Calls)
        BY <2>1, <2>4, TransferAssumption
      <4>2. QED
        BY <2>1, <4>1 DEF Units
    <3>2. ClientTypes' /\ ClientControl'
      BY <2>1, <2>4, <3>1 DEF ClientTypes, ClientControl, ClientStages, Connecting, Launching, Finishing
    <3>3. Window'
      BY <2>1, <2>4 DEF Window
    <3>4. (FinIsFair => FinIsFair') /\ (capp' \in Connecting => capp \in Connecting) /\ UNCHANGED sendBufTail
      BY <2>1, <2>4 DEF FinIsFair, Connecting, Finishing
    <3>5. QED
      BY <1>2, <3>2, <3>3, <3>4
  <2>5. QED
    BY <2>2, <2>3, <2>4
<1>6. CASE Advance
  <2> USE <1>6 DEF Advance
  <2>1. capp = "sent" /\ capp' = "count" /\ sendBufunSent' = sendBufunSent + 1 /\ loaded' = unAck_segNum /\ sendBufunSent <= sendBufTail
    BY DEF ClientControl
  <2>2. ClientTypes'
    <3>1. sendBufunSent' \in 1..(sendBufTail + 1)
      BY <2>1 DEF ClientTypes
    <3>2. QED
      BY <2>1, <3>1 DEF ClientTypes, ClientStages, Launching
  <2>3. ClientControl'
    BY <2>1 DEF ClientControl, Connecting, Launching, Finishing
  <2>4. Window'
    BY <2>1 DEF Window, ClientTypes
  <2>5. (FinIsFair => FinIsFair') /\ (capp' \in Connecting => capp \in Connecting) /\ UNCHANGED sendBufTail
    BY <2>1 DEF FinIsFair, Connecting, Finishing
  <2>6. QED
    BY <1>2, <2>2, <2>3, <2>4, <2>5
<1>7. CASE Count
  <2> USE <1>7 DEF Count
  <2>1. capp = "count" /\ capp' = "launch" /\ unAck_segNum' = loaded + 1
    OBVIOUS
  <2>2. ClientTypes'
    BY <2>1 DEF ClientTypes, ClientStages, Launching
  <2>3. ClientControl'
    BY <2>1 DEF ClientControl, Connecting, Launching, Finishing
  <2>4. Window'
    <3>1. loaded \in Int /\ unAck_segNum \in Int /\ loaded < GBN_WINDOW /\ GBN_WINDOW \in Nat
      BY <2>1, Sizes DEF Window, ClientTypes
    <3>2. unAck_segNum' <= GBN_WINDOW
      BY <2>1, <3>1
    <3>3. ~countRaced' => unAck_segNum = loaded /\ unAck_segNum = sendBufunSent - sendBufHead - 1
      BY <2>1 DEF Window, ClientTypes
    <3>4. ~countRaced' => unAck_segNum' = sendBufunSent' - sendBufHead' - 0
      BY <2>1, <3>1, <3>3 DEF ClientTypes
    <3>5. QED
      BY <2>1, <3>2, <3>4 DEF Window
  <2>5. (FinIsFair => FinIsFair') /\ (capp' \in Connecting => capp \in Connecting) /\ UNCHANGED sendBufTail
    BY <2>1 DEF FinIsFair, Connecting, Finishing
  <2>6. QED
    BY <1>2, <2>2, <2>3, <2>4, <2>5
<1>8. CASE CloseClient
  <2> USE <1>8 DEF CloseClient
  <2>1. ClientTypes' /\ ClientControl'
    BY DEF ClientTypes, ClientControl, ClientStages, Connecting, Launching, Finishing
  <2>2. Window'
    BY DEF Window
  <2>3. (FinIsFair => FinIsFair') /\ (capp' \in Connecting => capp \in Connecting) /\ UNCHANGED sendBufTail
    BY DEF FinIsFair, Connecting, Finishing
  <2>4. QED
    BY <1>2, <2>1, <2>2, <2>3
<1>9. QED
  BY <1>3, <1>4, <1>5, <1>6, <1>7, <1>8

\* What it sends: SYN, data, FIN, and again when connect or disconnect times out.
LEMMA ClientSendInv ==
  ASSUME TransferInv, SendFirst \/ SendData \/ Retries
  PROVE  TransferInv'
<1> USE DEF TransferInv
<1>1. UNCHANGED <<serverVars, serverUp, clientUp, sendBufHead, sendBufTail>> /\ clientUp' \in BOOLEAN /\ sendBufTail <= sendBufTail'
  BY DEF SendFirst, SendData, Retries, Retry, LinkTypes, ClientTypes
<1>2. CASE SendFirst
  <2>1. CASE Goto("connect", "synsent") /\ ToServer(<<Seg("SYN", 1)>>) /\ UNCHANGED <<cstate, retry, call, hasty, sendBuf, chandler>>
    <3> USE <2>1
    <3>1. ClientTypes' /\ ClientControl'
      BY DEF ClientTypes, ClientControl, ClientStages, Connecting, Launching, Finishing
    <3>2. Window'
      BY DEF Window
    <3>3. (FinIsFair => FinIsFair') /\ (capp' \in Connecting => capp \in Connecting) /\ capp \in Connecting
      BY DEF FinIsFair, Connecting, Finishing
    <3>4. QED
      BY <1>1, <3>1, <3>2, <3>3, ClientSendsOne
  <2>2. CASE /\ Goto("disconnect", "finsent") /\ ToServer(<<Seg("FIN", sendBufTail + 1)>>)
             /\ hasty' = (sendBufHead <= sendBufTail) /\ UNCHANGED <<cstate, retry, call, sendBuf, chandler>>
    <3> USE <2>2
    <3>1. sendBufTail = Units /\ sendBufTail + 1 \in Nat /\ (~hasty' => sendBufHead = Units + 1)
      <4>1. sendBufTail = Units /\ Units \in Nat /\ sendBufHead \in 1..(sendBufTail + 1)
        BY CallsRise DEF ClientTypes, ClientControl, Finishing
      <4>2. sendBufTail + 1 \in Nat /\ (~(sendBufHead <= sendBufTail) => sendBufHead = Units + 1)
        BY <4>1
      <4>3. ~hasty' => ~(sendBufHead <= sendBufTail)
        BY Zenon
      <4>4. QED
        BY <4>1, <4>2, <4>3
    <3>2. ClientTypes'
      BY DEF ClientTypes, ClientStages, Finishing
    <3>3. ClientControl'
      BY <3>1 DEF ClientControl, Connecting, Launching, Finishing
    <3>4. Window'
      BY DEF Window
    <3>5. FinIsFair' /\ capp' \notin Connecting
      BY <3>1 DEF FinIsFair, Connecting, Finishing
    <3>6. QED
      BY <1>1, <3>1, <3>2, <3>3, <3>4, <3>5, ClientSendsOne
  <2>3. QED
    BY <1>2, <2>1, <2>2 DEF SendFirst
<1>3. CASE SendData
  <2> USE <1>3 DEF SendData
  <2>1. sendBufunSent \in 1..sendBufTail /\ sendBufunSent \in Nat
    BY DEF ClientTypes, ClientControl
  <2>2. ClientTypes' /\ ClientControl'
    BY DEF ClientTypes, ClientControl, ClientStages, Connecting, Launching, Finishing
  <2>3. Window'
    BY DEF Window
  <2>4. (FinIsFair => FinIsFair') /\ capp' \notin Connecting
    BY DEF FinIsFair, Connecting, Finishing
  <2>5. ToServer(<<Seg("DATA", sendBufunSent)>>)
    OBVIOUS
  <2>6. QED
    BY <1>1, <2>1, <2>2, <2>3, <2>4, <2>5, ClientSendsOne
<1>4. CASE Retries
  <2>1. UNCHANGED <<call, hasty, sendBuf, chandler>>
    BY <1>4 DEF Retries
  <2>2. CASE Retry("connecting", "CONNECTED", "queue", Seg("SYN", 1), SYN_MAX_RETRY)
    <3> USE <2>2 DEF Retry
    <3>1. /\ capp = "connecting" /\ capp' \in {"queue", "connecting", "failed"} /\ retry' \in Nat /\ cstate' \in {cstate, "CLOSED"}
          /\ capp' = "connecting" => ToServer(<<Seg("SYN", 1)>>)
          /\ capp' # "connecting" => UNCHANGED links
      BY DEF ClientTypes
    <3>2. ClientTypes'
      BY <2>1, <3>1 DEF ClientTypes, ClientStages, Connecting
    <3>3. ClientControl'
      BY <2>1, <3>1 DEF ClientControl, Connecting, Launching, Finishing
    <3>4. Window'
      BY <2>1, <3>1 DEF Window
    <3>5. (FinIsFair => FinIsFair') /\ (capp' \in Connecting => capp \in Connecting) /\ capp \in Connecting
      BY <3>1 DEF FinIsFair, Connecting, Finishing
    <3>6. CASE capp' = "connecting"
      BY <1>1, <3>1, <3>2, <3>3, <3>4, <3>5, <3>6, ClientSendsOne
    <3>7. CASE capp' # "connecting"
      BY <1>1, <3>1, <3>2, <3>3, <3>4, <3>5, <3>7, ClientQuiet
    <3>8. QED
      BY <3>6, <3>7
  <2>3. CASE Retry("closing", "CLOSED", "close", Seg("FIN", sendBufTail + 1), FIN_MAX_RETRY)
    <3> USE <2>3 DEF Retry
    <3>1. /\ capp = "closing" /\ capp' \in {"close", "closing", "failed"} /\ retry' \in Nat /\ cstate' \in {cstate, "CLOSED"}
          /\ capp' = "closing" => ToServer(<<Seg("FIN", sendBufTail + 1)>>)
          /\ capp' # "closing" => UNCHANGED links
      BY DEF ClientTypes
    <3>2. ClientTypes' /\ sendBufTail + 1 \in Nat
      BY <2>1, <3>1 DEF ClientTypes, ClientStages, Finishing
    <3>3. ClientControl'
      BY <2>1, <3>1 DEF ClientControl, Connecting, Launching, Finishing
    <3>4. Window'
      BY <2>1, <3>1 DEF Window
    <3>5. FinIsFair' /\ capp' \notin Connecting
      BY <2>1, <3>1 DEF FinIsFair, ClientControl, Connecting, Finishing
    <3>6. CASE capp' = "closing"
      BY <1>1, <3>1, <3>2, <3>3, <3>4, <3>5, <3>6, ClientSendsOne
    <3>7. CASE capp' # "closing"
      BY <1>1, <3>1, <3>2, <3>3, <3>4, <3>5, <3>7, ClientQuiet
    <3>8. QED
      BY <3>6, <3>7
  <2>4. QED
    BY <1>4, <2>2, <2>3 DEF Retries
<1>5. QED
  BY <1>2, <1>3, <1>4

\* The timer thread: its end, and everything that is not acknowledged again.
LEMMA TimerInv ==
  ASSUME TransferInv, TimerEnds \/ Resend
  PROVE  TransferInv'
<1> USE DEF TransferInv
<1>1. CASE TimerEnds
  <2> USE <1>1 DEF TimerEnds
  <2>1. ClientTypes'
    BY DEF ClientTypes
  <2>2. ClientControl' /\ Window'
    BY DEF ClientControl, Window
  <2>3. UNCHANGED <<serverVars, links, serverUp, sendBufHead>> /\ clientUp' \in BOOLEAN /\ sendBufTail <= sendBufTail'
    BY DEF LinkTypes, ClientTypes
  <2>4. (FinIsFair => FinIsFair') /\ UNCHANGED capp
    BY DEF FinIsFair
  <2>5. QED
    BY <2>1, <2>2, <2>3, <2>4, ClientQuiet
<1>2. CASE Resend
  <2> DEFINE end == IF sendBufunSent < sendBufHead THEN sendBufTail ELSE sendBufunSent - 1
             again == [i \in 1..(end - sendBufHead + 1) |-> Seg("DATA", sendBufHead + i - 1)]
  <2>1. /\ UNCHANGED <<serverVars, serverUp, clientUp, cstate, call, sendBufHead, sendBufunSent, sendBufTail,
                        unAck_segNum, loaded, timers, countRaced, chandler>>
        /\ resends' = resends + 1 /\ clientUp' \in BOOLEAN /\ sendBufTail <= sendBufTail'
    BY <1>2 DEF Resend, LinkTypes, ClientTypes
  <2>2. CASE ToServer(again) /\ UNCHANGED <<capp, retry, hasty>>
    <3>1. again \in Seq(SegType) /\ \A k \in DOMAIN again : again[k].type = "DATA" /\ again[k].seq \in 1..sendBufTail
      <4>1. /\ end \in Nat /\ end <= sendBufTail /\ end - sendBufHead + 1 \in Nat
            /\ sendBufHead \in Nat \ {0} /\ sendBufTail \in Nat
        BY <1>2 DEF Resend, ClientTypes
      <4> HIDE DEF end
      <4>2. \A i \in 1..(end - sendBufHead + 1) : sendBufHead + i - 1 \in 1..sendBufTail
        BY <4>1
      <4>3. \A n \in 1..sendBufTail : Seg("DATA", n) \in SegType /\ Seg("DATA", n).type = "DATA" /\ Seg("DATA", n).seq = n
        BY <4>1 DEF Seg, SegType
      <4>4. \A i \in 1..(end - sendBufHead + 1) :
              Seg("DATA", sendBufHead + i - 1) \in SegType /\ Seg("DATA", sendBufHead + i - 1).type = "DATA" /\ Seg("DATA", sendBufHead + i - 1).seq \in 1..sendBufTail
        BY <4>2, <4>3
      <4>5. QED
        BY <4>1, <4>4
    <3> HIDE DEF again
    <3>2. ClientTypes'
      BY <2>1, <2>2 DEF ClientTypes
    <3>3. ClientControl' /\ Window'
      BY <2>1, <2>2 DEF ClientControl, Window
    <3>4. (FinIsFair => FinIsFair') /\ UNCHANGED <<capp, toClient>> /\ (toServer' = toServer \/ toServer' = toServer \o again)
      BY <2>1, <2>2 DEF FinIsFair, ToServer
    <3>5. CASE capp \in Connecting
      <4>1. again = <<>>
        BY <3>1, <3>5 DEF ClientControl, ClientTypes
      <4>2. UNCHANGED links
        BY <3>4, <4>1 DEF LinkTypes
      <4>3. QED
        BY <2>1, <3>2, <3>3, <3>4, <4>2, ClientQuiet
    <3>6. CASE capp \notin Connecting
      BY <2>1, <3>1, <3>2, <3>3, <3>4, <3>6, ClientSends
    <3>7. QED
      BY <3>5, <3>6
  <2>3. CASE /\ ToServer(<<Seg("torn", 0)>>)
             /\ \/ Goto("sending", "sent") /\ UNCHANGED <<retry, hasty>>
                \/ Goto("disconnect", "finsent") /\ hasty' = TRUE /\ UNCHANGED retry
                \/ /\ cstate # "CLOSED" /\ retry < FIN_MAX_RETRY /\ Goto("closing", "closing")
                   /\ retry' = retry + 1 /\ UNCHANGED hasty
    <3>1. ClientTypes'
      <4>1. retry' \in Nat
        BY <2>3 DEF ClientTypes
      <4>2. hasty' \in BOOLEAN
        <5>1. hasty \in BOOLEAN
          BY DEF ClientTypes
        <5>2. hasty' = hasty \/ hasty' = TRUE
          BY <2>3, Zenon
        <5>3. QED
          BY <5>1, <5>2
      <4>3. capp' \in ClientStages
        BY <2>3 DEF ClientStages, Launching, Finishing
      <4>4. resends' \in Nat
        BY <2>1 DEF ClientTypes
      <4>5. QED
        BY <2>1, <4>1, <4>2, <4>3, <4>4 DEF ClientTypes
    <3>2. ClientControl'
      BY <2>1, <2>3 DEF ClientControl, Connecting, Launching, Finishing
    <3>3. Window'
      BY <2>1, <2>3 DEF Window
    <3>4. (FinIsFair => FinIsFair') /\ capp' \notin Connecting
      BY <2>1, <2>3 DEF FinIsFair, Connecting, Finishing
    <3>5. QED
      BY <2>1, <2>3, <3>1, <3>2, <3>3, <3>4, ClientSendsOne
  <2>4. QED
    BY <1>2, <2>2, <2>3 DEF Resend
<1>3. QED
  BY <1>1, <1>2

\* What the client's seghandler makes of a segment.
LEMMA ClientGetsInv == ASSUME TransferInv, ClientGets PROVE TransferInv'
<1> USE DEF TransferInv
<1>1. PICK seg : seg = Head(toClient)
  OBVIOUS
<1>2. /\ UNCHANGED <<serverVars, toServer, ups, retry, call, hasty, sendBufunSent, sendBufTail, loaded, timers, resends>>
      /\ toClient # <<>> /\ toClient' = Tail(toClient)
  BY DEF ClientGets
<1>3. \/ UNCHANGED clientVars
      \/ chandler' = "gone" /\ UNCHANGED <<cstate, clientApp, sendBuf>>
      \/ cstate' \in {"CONNECTED", "CLOSED"} /\ UNCHANGED <<clientApp, sendBuf, chandler>>
      \/ /\ seg.type = "DATAACK" /\ sendBufHead' = Freed(seg.seq) /\ unAck_segNum' = Acked(sendBufHead' - sendBufHead)
         /\ \/ UNCHANGED <<capp, countRaced>>
            \/ capp = "count" /\ capp' = "launch" /\ countRaced' = TRUE
         /\ UNCHANGED <<cstate, chandler>>
  BY <1>1 DEF ClientGets
<1>4. /\ seg \in SegType /\ toClient' \in Seq(SegType) /\ (seg.type = "DATAACK" => seg.seq <= expect_seqNum)
      /\ \A k \in DOMAIN toClient' : toClient'[k].type = "DATAACK" => toClient'[k].seq <= expect_seqNum'
  <2>1. /\ 1 \in DOMAIN toClient /\ Head(toClient) = toClient[1] /\ Head(toClient) \in SegType /\ toClient' \in Seq(SegType)
        /\ \A k \in DOMAIN toClient' : k + 1 \in DOMAIN toClient /\ toClient'[k] = toClient[k + 1]
    BY <1>2, OneTaken DEF LinkTypes
  <2>2. QED
    BY <1>1, <1>2, <2>1 DEF InFlight
<1>5. /\ sendBufTail \in Nat /\ expect_seqNum \in Nat /\ seg.seq \in Nat /\ expect_seqNum <= sendBufTail + 1
      /\ sendBufHead \in 1..(sendBufTail + 1) /\ unAck_segNum \in Int
  BY <1>4 DEF SegType, ClientTypes, ServerTypes, ServerControl
<1>6. CASE UNCHANGED <<sendBufHead, unAck_segNum, capp, countRaced>>
  <2>1. ClientTypes'
    BY <1>2, <1>3, <1>6 DEF ClientTypes
  <2>2. ClientControl' /\ Window' /\ (FinIsFair => FinIsFair')
    BY <1>2, <1>6 DEF ClientControl, Window, FinIsFair
  <2>3. ServerTypes' /\ ServerControl' /\ Stream'
    BY <1>2 DEF ServerTypes, ServerControl, Stream
  <2>4. LinkTypes' /\ InFlight'
    BY <1>2, <1>4, <1>6 DEF LinkTypes, InFlight
  <2>5. SynFirst' /\ Fins'
    BY <1>2, <1>6, <2>2 DEF SynFirst, Fins
  <2>6. QED
    BY <2>1, <2>2, <2>3, <2>4, <2>5
<1>7. CASE /\ seg.type = "DATAACK" /\ sendBufHead' = Freed(seg.seq) /\ unAck_segNum' = Acked(sendBufHead' - sendBufHead)
           /\ \/ UNCHANGED <<capp, countRaced>>
              \/ capp = "count" /\ capp' = "launch" /\ countRaced' = TRUE
           /\ UNCHANGED <<cstate, chandler>>
  <2>1. sendBufHead' = (IF sendBufHead >= seg.seq THEN sendBufHead ELSE seg.seq) /\ unAck_segNum' = unAck_segNum - (sendBufHead' - sendBufHead)
    BY <1>5, <1>7, Greater DEF Freed, Acked
  <2>2. /\ sendBufHead' \in 1..(sendBufTail + 1) /\ sendBufHead <= sendBufHead' /\ (sendBufHead' > 1 => sendBufHead' <= expect_seqNum)
        /\ unAck_segNum' \in Int /\ unAck_segNum' <= unAck_segNum
    BY <1>4, <1>5, <1>7, <2>1 DEF InFlight
  <2>3. ClientTypes'
    <3>1. capp' \in ClientStages
      BY <1>7 DEF ClientTypes, ClientStages, Launching
    <3>2. countRaced' \in BOOLEAN
      BY <1>7 DEF ClientTypes
    <3>3. QED
      BY <1>2, <1>7, <2>2, <3>1, <3>2 DEF ClientTypes
  <2>4. ClientControl' /\ (FinIsFair => FinIsFair')
    <3>1. sendBufTail = Units /\ sendBufHead = Units + 1 => sendBufHead' = Units + 1
      BY <1>5, <2>2
    <3>2. capp' = capp \/ (capp = "count" /\ capp' = "launch")
      BY <1>7
    <3>3. Units \in Nat /\ (sendBufHead = Units + 1 => sendBufTail = Units)
      BY <1>5, CallsRise DEF ClientTypes
    <3>4. sendBufHead = Units + 1 => sendBufHead' = Units + 1
      BY <3>1, <3>3
    <3>5. ClientControl'
      BY <1>2, <3>2, <3>4 DEF ClientControl, Connecting, Launching, Finishing
    <3>6. FinIsFair => FinIsFair'
      BY <1>2, <3>2, <3>4 DEF FinIsFair, Finishing
    <3>7. QED
      BY <3>5, <3>6
  <2>5. Window'
    <3>1. GBN_WINDOW \in Nat /\ loaded \in Int /\ sendBufunSent \in Int /\ sendBufHead \in Int /\ sendBufHead' \in Int
      BY <1>5, <2>2, Sizes DEF ClientTypes
    <3>2. unAck_segNum' <= GBN_WINDOW /\ (capp' \in {"sending", "sent", "count"} => unAck_segNum' < GBN_WINDOW)
      BY <1>5, <1>7, <2>2, <3>1 DEF Window
    <3>3. capp' = "count" => loaded' < GBN_WINDOW
      BY <1>2, <1>7 DEF Window
    <3>4. ~countRaced' => unAck_segNum' = sendBufunSent' - sendBufHead' - (IF capp' = "count" THEN 1 ELSE 0)
      <4>1. ~countRaced' => UNCHANGED capp /\ ~countRaced
        BY <1>7
      <4>2. ~countRaced => unAck_segNum = sendBufunSent - sendBufHead - (IF capp = "count" THEN 1 ELSE 0)
        BY DEF Window
      <4>3. \A n \in {0, 1} : unAck_segNum = sendBufunSent - sendBufHead - n => unAck_segNum' = sendBufunSent - sendBufHead' - n
        BY <1>5, <2>1, <3>1
      <4>4. (IF capp = "count" THEN 1 ELSE 0) \in {0, 1}
        OBVIOUS
      <4>5. QED
        BY <1>2, <4>1, <4>2, <4>3, <4>4
    <3>5. QED
      BY <3>2, <3>3, <3>4 DEF Window
  <2>6. ServerTypes' /\ ServerControl' /\ Stream'
    BY <1>2 DEF ServerTypes, ServerControl, Stream
  <2>7. LinkTypes' /\ InFlight'
    BY <1>2, <1>4, <2>2 DEF LinkTypes, InFlight
  <2>8. SynFirst'
    BY <1>2, <1>7 DEF SynFirst, Connecting
  <2>9. Fins'
    BY <1>2, <2>4 DEF Fins
  <2>10. QED
    BY <2>3, <2>4, <2>5, <2>6, <2>7, <2>8, <2>9
<1>8. QED
  BY <1>3, <1>6, <1>7

\* The ends of the two processes.
LEMMA EndsInv == ASSUME TransferInv, ClientEnds \/ ClientKilled \/ ServerKilled PROVE TransferInv'
<1> USE DEF TransferInv
<1>1. /\ UNCHANGED <<clientVars, serverVars>> /\ (UNCHANGED toServer \/ toServer' = <<>>) /\ (UNCHANGED toClient \/ toClient' = <<>>)
      /\ clientUp' \in BOOLEAN /\ serverUp' \in BOOLEAN
  BY DEF ClientEnds, ClientKilled, ServerKilled, LinkTypes
<1>2. ClientTypes' /\ ClientControl' /\ Window' /\ (FinIsFair => FinIsFair')
  BY <1>1 DEF ClientTypes, ClientControl, Window, FinIsFair
<1>3. ServerTypes' /\ ServerControl' /\ Stream'
  BY <1>1 DEF ServerTypes, ServerControl, Stream
<1>4. LinkTypes'
  BY <1>1, <<>> \in Seq(SegType) DEF LinkTypes
<1>5. SynFirst' /\ InFlight' /\ Fins'
  <2>1. DOMAIN <<>> = {}
    OBVIOUS
  <2>2. SynFirst'
    BY <1>1, <2>1 DEF SynFirst
  <2>3. InFlight'
    BY <1>1, <2>1 DEF InFlight
  <2>4. Fins'
    BY <1>1, <1>2, <2>1 DEF Fins
  <2>5. QED
    BY <2>2, <2>3, <2>4
<1>6. QED
  BY <1>2, <1>3, <1>4, <1>5

-----------------------------------------------------------------------------
(* The server's steps                                                      *)

\* The server changes nothing of what is said of the client alone.
LEMMA ClientKept ==
  ASSUME TransferInv, UNCHANGED clientVars
  PROVE  ClientTypes' /\ ClientControl' /\ Window' /\ (FinIsFair => FinIsFair')
  BY DEF TransferInv, ClientTypes, ClientControl, Window, FinIsFair

\* The application, and timer_thread, which throws away what waits in the buffer.
LEMMA ServerAppInv ==
  ASSUME TransferInv, Listens \/ Accepted \/ RecvLooks \/ RecvTakes \/ CloseServer \/ TimerThread
  PROVE  TransferInv'
<1> USE DEF TransferInv
<1>1. /\ UNCHANGED <<clientVars, clientUp, toClient, expect_seqNum, shandler, copied, bufRaced>> /\ (UNCHANGED toServer \/ toServer' = <<>>)
      /\ serverUp' \in BOOLEAN
  BY DEF Listens, Accepted, RecvLooks, RecvTakes, CloseServer, TimerThread, LinkTypes
<1>2. ClientTypes' /\ ClientControl' /\ Window' /\ (FinIsFair => FinIsFair')
  BY <1>1, ClientKept
<1>3. LinkTypes'
  BY <1>1, <<>> \in Seq(SegType) DEF LinkTypes
<1>4. SynFirst' /\ InFlight'
  <2>1. DOMAIN <<>> = {}
    OBVIOUS
  <2>2. SynFirst'
    BY <1>1, <2>1 DEF SynFirst
  <2>3. InFlight'
    BY <1>1, <2>1 DEF InFlight
  <2>4. QED
    BY <2>2, <2>3
<1>5. Fins'
  <2>1. \/ UNCHANGED <<sstate, sapp>>
        \/ sapp = "accept" /\ sstate' = "LISTENING"
        \/ sapp # "accept" /\ UNCHANGED sstate
        \/ sstate = "CLOSEWAIT"
    BY DEF Listens, Accepted, RecvLooks, RecvTakes, CloseServer, TimerThread
  <2>2. sstate' = "CLOSEWAIT" \/ (sstate' = "CLOSED" /\ sapp' # "accept") => FinIsFair
    BY <2>1 DEF Fins
  <2>3. QED
    BY <1>1, <1>2, <2>2 DEF Fins
<1>6. ASSUME ServerTypes', ServerControl', Stream' PROVE TransferInv'
  BY <1>2, <1>3, <1>4, <1>5, <1>6
<1>7. CASE Listens
  <2> USE <1>7 DEF Listens
  <2>1. ServerTypes' /\ Stream'
    BY DEF ServerTypes, Stream
  <2>2. ServerControl'
    BY DEF ServerControl
  <2>3. QED
    BY <1>6, <2>1, <2>2
<1>8. CASE Accepted
  <2> USE <1>8 DEF Accepted
  <2>1. ServerTypes' /\ Stream'
    BY DEF ServerTypes, Stream
  <2>2. Len(delivered) < Units
    BY CallsRise DEF ServerControl
  <2>3. ServerControl'
    BY <2>2 DEF ServerControl
  <2>4. QED
    BY <1>6, <2>1, <2>3
<1>9. CASE RecvLooks
  <2> USE <1>9 DEF RecvLooks
  <2>1. ServerTypes' /\ Stream'
    BY DEF ServerTypes, Stream
  <2>2. ServerControl'
    BY DEF ServerControl
  <2>3. QED
    BY <1>6, <2>1, <2>2
<1>10. CASE RecvTakes
  <2>1. CASE usedBufLen = 0 /\ sapp = "taking" /\ sapp' = "recv" /\ UNCHANGED <<delivered, usedBufLen, recvBuf, sstate, discarded>>
    <3>1. ServerTypes' /\ Stream'
      BY <1>1, <2>1 DEF ServerTypes, Stream
    <3>2. ServerControl'
      BY <1>1, <2>1 DEF ServerControl
    <3>3. QED
      BY <1>6, <3>1, <3>2
  <2>2. CASE /\ usedBufLen # 0 /\ sapp = "taking" /\ sapp' = (IF Len(delivered) + 1 = Units THEN "close" ELSE "recv")
             /\ delivered' = Append(delivered, recvBuf[1]) /\ usedBufLen' = usedBufLen - 1
             /\ recvBuf' = [i \in DOMAIN recvBuf |-> IF i < usedBufLen THEN recvBuf[i + 1] ELSE recvBuf[i]]
             /\ UNCHANGED <<sstate, discarded>>
    <3>1. /\ recvBuf \in [1..RECEIVE_BUF_SIZE -> Nat] /\ usedBufLen \in 1..RECEIVE_BUF_SIZE /\ RECEIVE_BUF_SIZE \in Nat
          /\ delivered \in Seq(Nat) /\ usedBufLen' \in 0..RECEIVE_BUF_SIZE
      BY <2>2, Sizes DEF ServerTypes
    <3>2. recvBuf[1] \in Nat /\ (\A i \in 1..RECEIVE_BUF_SIZE : recvBuf'[i] = IF i < usedBufLen THEN recvBuf[i + 1] ELSE recvBuf[i])
      BY <2>2, <3>1
    <3>3. recvBuf' \in [1..RECEIVE_BUF_SIZE -> Nat]
      <4>1. \A i \in 1..RECEIVE_BUF_SIZE : i < usedBufLen => i + 1 \in 1..RECEIVE_BUF_SIZE
        BY <3>1
      <4>2. QED
        BY <2>2, <3>1, <4>1
    <3>4. /\ delivered' \in Seq(Nat) /\ Len(delivered') = Len(delivered) + 1 /\ delivered'[Len(delivered) + 1] = recvBuf[1]
          /\ \A i \in 1..Len(delivered) : delivered'[i] = delivered[i]
      BY <2>2, <3>1, <3>2
    <3>5. ServerTypes'
      BY <1>1, <2>2, <3>1, <3>3, <3>4 DEF ServerTypes
    <3>6. Len(delivered) \in Nat /\ expect_seqNum \in Nat /\ discarded \in Nat /\ copied \in Nat /\ Units \in Nat
      BY <3>1, CallsRise DEF ServerTypes
    <3>7. ServerControl'
      <4>1. Len(delivered) < Units
        BY <2>2 DEF ServerControl
      <4>2. sapp' \in {"recv", "taking"} => Len(delivered') < Units
        BY <2>2, <3>4, <3>6, <4>1
      <4>3. usedBufLen <= copied => usedBufLen' <= copied
        BY <2>2, <3>1, <3>6
      <4>4. expect_seqNum # 0 /\ sapp' \notin {"accept", "accepting"}
        BY <2>2, <3>1 DEF ServerControl
      <4>5. QED
        BY <1>1, <2>2, <4>2, <4>3, <4>4 DEF ServerControl
    <3>8. Stream'
      <4> SUFFICES ASSUME ~bufRaced PROVE Stream'
        BY <1>1 DEF Stream
      <4>1. /\ \A i \in 1..Len(delivered) : delivered[i] = i
            /\ \A i \in 1..usedBufLen : recvBuf[i] = Len(delivered) + i
            /\ expect_seqNum > 0 => Len(delivered) + usedBufLen + discarded = expect_seqNum - 1
        BY DEF Stream
      <4>2. \A i \in 1..Len(delivered') : delivered'[i] = i
        <5>1. delivered'[Len(delivered) + 1] = Len(delivered) + 1
          BY <3>1, <3>4, <4>1
        <5>2. \A i \in 1..(Len(delivered) + 1) : i \in 1..Len(delivered) \/ i = Len(delivered) + 1
          BY <3>6
        <5>3. QED
          BY <3>4, <4>1, <5>1, <5>2
      <4>3. \A i \in 1..usedBufLen' : recvBuf'[i] = Len(delivered') + i
        <5>1. \A i \in 1..usedBufLen' : i \in 1..RECEIVE_BUF_SIZE /\ i < usedBufLen /\ i + 1 \in 1..usedBufLen
          BY <2>2, <3>1
        <5>2. \A i \in 1..usedBufLen' : recvBuf'[i] = recvBuf[i + 1] /\ recvBuf[i + 1] = Len(delivered) + (i + 1)
          BY <3>2, <4>1, <5>1
        <5>3. \A i \in 1..usedBufLen' : Len(delivered) + (i + 1) = Len(delivered') + i
          BY <3>4, <3>6
        <5>4. QED
          BY <5>2, <5>3
      <4>4. expect_seqNum > 0 => Len(delivered') + usedBufLen' + discarded = expect_seqNum - 1
        BY <2>2, <3>1, <3>4, <3>6, <4>1
      <4>5. ~(shandler = "copied" /\ usedBufLen' = copied)
        BY <2>2, <3>1, <3>6 DEF ServerControl
      <4>6. QED
        BY <1>1, <2>2, <4>2, <4>3, <4>4, <4>5 DEF Stream
    <3>9. QED
      BY <1>6, <3>5, <3>7, <3>8
  <2>3. QED
    BY <1>10, <2>1, <2>2 DEF RecvTakes
<1>11. CASE CloseServer
  <2> USE <1>11 DEF CloseServer
  <2>1. ServerTypes' /\ Stream'
    BY DEF ServerTypes, Stream
  <2>2. ServerControl'
    BY DEF ServerControl
  <2>3. QED
    BY <1>6, <2>1, <2>2
<1>12. CASE TimerThread
  <2> USE <1>12 DEF TimerThread
  <2>1. usedBufLen \in Nat /\ discarded \in Nat /\ Len(delivered) \in Nat /\ expect_seqNum \in Nat /\ copied \in Nat /\ RECEIVE_BUF_SIZE \in Nat
    BY Sizes DEF ServerTypes
  <2>2. ServerTypes'
    BY <2>1 DEF ServerTypes
  <2>3. ServerControl'
    BY <2>1 DEF ServerControl
  <2>4. Stream'
    BY <2>1 DEF Stream
  <2>5. QED
    BY <1>6, <2>2, <2>3, <2>4
<1>13. QED
  BY <1>7, <1>8, <1>9, <1>10, <1>11, <1>12

\* What the server's seghandler makes of a segment.
LEMMA ServerGetsInv == ASSUME TransferInv, ServerGets PROVE TransferInv'
<1> USE DEF TransferInv
<1>1. PICK seg : seg = Head(toServer)
  OBVIOUS
<1>2. /\ toServer # <<>> /\ toServer' = Tail(toServer) /\ shandler = "on"
      /\ UNCHANGED <<clientVars, ups, sapp, usedBufLen, delivered, discarded, bufRaced>>
      /\ Handles(seg) \/ UNCHANGED <<sstate, expect_seqNum, recvBuf, shandler, copied, toClient>>
  BY <1>1 DEF ServerGets
<1>3. /\ seg \in SegType /\ toServer' \in Seq(SegType)
      /\ seg.type = "SYN" => seg.seq = 1 /\ expect_seqNum <= 1
      /\ seg.type = "DATA" => seg.seq \in 1..sendBufTail
      /\ seg.type = "FIN" => FinIsFair
      /\ expect_seqNum' \in Nat /\ (expect_seqNum' <= 1 \/ seg.type # "SYN") /\ (shandler' = "copied" => seg.type # "SYN") => SynFirst'
      /\ \A k \in DOMAIN toServer' :
           /\ toServer'[k].type = "SYN" => toServer'[k].seq = 1
           /\ toServer'[k].type = "DATA" => toServer'[k].seq \in 1..sendBufTail'
           /\ toServer'[k].type = "FIN" => FinIsFair'
  BY <1>1, <1>2, TakenByServer
<1>4. ClientTypes' /\ ClientControl' /\ Window' /\ (FinIsFair => FinIsFair')
  BY <1>2, ClientKept
<1>5. /\ expect_seqNum \in Nat /\ sendBufTail \in Nat /\ usedBufLen \in Nat /\ RECEIVE_BUF_SIZE \in Nat \ {0} /\ discarded \in Nat
      /\ Len(delivered) \in Nat /\ recvBuf \in [1..RECEIVE_BUF_SIZE -> Nat] /\ copied \in 0..(RECEIVE_BUF_SIZE - 1) /\ sendBufHead \in Nat
      /\ usedBufLen \in 0..RECEIVE_BUF_SIZE
  BY Sizes DEF ClientTypes, ServerTypes
<1>6. ASSUME ServerTypes', ServerControl', Stream', toClient' \in Seq(SegType),
             expect_seqNum' <= 1 \/ seg.type # "SYN", shandler' = "copied" => seg.type # "SYN", expect_seqNum <= expect_seqNum',
             \A k \in DOMAIN toClient' : toClient'[k].type = "DATAACK" => toClient'[k].seq <= expect_seqNum',
             sstate' \in {"LISTENING", "CONNECTED"} \/ UNCHANGED sstate \/ FinIsFair
      PROVE  TransferInv'
  <2>1. expect_seqNum' \in Nat
    BY <1>6 DEF ServerTypes
  <2>2. SynFirst'
    BY <1>3, <1>6, <2>1
  <2>3. InFlight'
    <3>1. sendBufHead' > 1 => sendBufHead' <= expect_seqNum'
      BY <1>2, <1>5, <1>6, <2>1 DEF InFlight
    <3>2. QED
      BY <1>3, <1>6, <3>1 DEF InFlight
  <2>4. Fins'
    <3>1. sstate' = "CLOSEWAIT" \/ (sstate' = "CLOSED" /\ sapp' # "accept") => FinIsFair
      BY <1>2, <1>6 DEF Fins
    <3>2. QED
      BY <1>3, <1>4, <3>1 DEF Fins
  <2>5. LinkTypes'
    BY <1>2, <1>3, <1>6 DEF LinkTypes
  <2>6. QED
    BY <1>4, <1>6, <2>2, <2>3, <2>4, <2>5
<1>7. \A k \in DOMAIN toClient : toClient[k].type = "DATAACK" => toClient[k].seq <= expect_seqNum
  BY DEF InFlight
<1>8. CASE UNCHANGED <<sstate, expect_seqNum, recvBuf, copied, toClient>> /\ shandler' \in {"on", "gone"}
  <2>1. ServerTypes'
    BY <1>2, <1>8 DEF ServerTypes
  <2>2. ServerControl' /\ Stream'
    BY <1>2, <1>8 DEF ServerControl, Stream
  <2>3. toClient' \in Seq(SegType) /\ expect_seqNum <= expect_seqNum' /\ (expect_seqNum' <= 1 \/ seg.type # "SYN")
    BY <1>3, <1>5, <1>8 DEF LinkTypes
  <2>4. QED
    BY <1>6, <1>7, <1>8, <2>1, <2>2, <2>3
<1>9. CASE /\ sstate \in {"LISTENING", "CONNECTED"} /\ seg.type = "SYN" /\ sstate' = "CONNECTED" /\ expect_seqNum' = seg.seq
           /\ ToClient("SYNACK", seg.seq) /\ UNCHANGED <<recvBuf, shandler, copied>>
  <2>1. expect_seqNum' = 1 /\ expect_seqNum <= 1 /\ expect_seqNum <= expect_seqNum' /\ seg.seq \in Nat
    BY <1>3, <1>5, <1>9
  <2>2. /\ toClient' \in Seq(SegType)
        /\ \A k \in DOMAIN toClient' : toClient'[k].type = "DATAACK" => toClient'[k].seq <= expect_seqNum'
    BY <1>9, <2>1, SentToClient
  <2>3. ServerTypes'
    BY <1>2, <1>9, <2>1 DEF ServerTypes
  <2>4. ServerControl'
    <3>1. sapp # "accept" /\ discarded = 0
      BY <1>5, <1>9 DEF ServerControl
    <3>2. expect_seqNum' <= sendBufTail + 1
      BY <1>5, <2>1
    <3>3. QED
      BY <1>2, <1>9, <2>1, <3>1, <3>2 DEF ServerControl
  <2>5. Stream'
    <3>1. expect_seqNum = 0 \/ expect_seqNum = 1
      BY <1>5, <2>1
    <3>2. expect_seqNum = 0 => usedBufLen = 0 /\ Len(delivered) = 0 /\ discarded = 0
      BY DEF ServerControl
    <3>3. ~bufRaced => Len(delivered) + usedBufLen + discarded = 0
      BY <3>1, <3>2 DEF Stream
    <3>4. QED
      BY <1>2, <1>9, <2>1, <3>3 DEF Stream
  <2>6. QED
    BY <1>2, <1>6, <1>9, <2>1, <2>2, <2>3, <2>4, <2>5
<1>10. CASE /\ sstate \in {"CONNECTED", "CLOSEWAIT"} /\ seg.type = "FIN"
            /\ sstate' = "CLOSEWAIT" /\ ToClient("FINACK", expect_seqNum)
            /\ UNCHANGED <<expect_seqNum, recvBuf, shandler, copied>>
  <2>1. /\ toClient' \in Seq(SegType) /\ expect_seqNum <= expect_seqNum'
        /\ \A k \in DOMAIN toClient' : toClient'[k].type = "DATAACK" => toClient'[k].seq <= expect_seqNum'
    BY <1>5, <1>10, SentToClient
  <2>2. ServerTypes' /\ Stream'
    BY <1>2, <1>10 DEF ServerTypes, Stream
  <2>3. ServerControl'
    <3>1. sapp # "accept" /\ discarded = 0
      BY <1>5, <1>10 DEF ServerControl
    <3>2. QED
      BY <1>2, <1>10, <3>1 DEF ServerControl
  <2>4. QED
    BY <1>2, <1>3, <1>6, <1>10, <2>1, <2>2, <2>3
<1>11. CASE /\ seg.type = "DATA" /\ ToClient("DATAACK", expect_seqNum)
            /\ UNCHANGED <<sstate, expect_seqNum, recvBuf, shandler, copied>>
  <2>1. /\ toClient' \in Seq(SegType) /\ expect_seqNum <= expect_seqNum'
        /\ \A k \in DOMAIN toClient' : toClient'[k].type = "DATAACK" => toClient'[k].seq <= expect_seqNum'
    BY <1>5, <1>11, SentToClient
  <2>2. ServerTypes' /\ Stream' /\ ServerControl'
    BY <1>2, <1>11 DEF ServerTypes, Stream, ServerControl
  <2>3. QED
    BY <1>2, <1>6, <1>11, <2>1, <2>2
<1>12. CASE /\ sstate = "CONNECTED" /\ seg.type = "DATA" /\ Sequel(seg) /\ Room
            /\ recvBuf' = [recvBuf EXCEPT ![usedBufLen + 1] = seg.seq]
            /\ shandler' = "copied" /\ copied' = usedBufLen
            /\ UNCHANGED <<sstate, expect_seqNum, toClient>>
  <2>1. /\ seg.seq = expect_seqNum /\ expect_seqNum \in 1..sendBufTail /\ usedBufLen \in 0..(RECEIVE_BUF_SIZE - 1)
        /\ discarded = 0 /\ usedBufLen + 1 \in 1..RECEIVE_BUF_SIZE
    BY <1>3, <1>5, <1>12 DEF Sequel, Room, ServerControl
  <2>2. recvBuf' \in [1..RECEIVE_BUF_SIZE -> Nat] /\ recvBuf'[usedBufLen + 1] = expect_seqNum /\ (\A i \in 1..usedBufLen : recvBuf'[i] = recvBuf[i])
    BY <1>5, <1>12, <2>1
  <2>3. ServerTypes'
    BY <1>2, <1>12, <2>1, <2>2 DEF ServerTypes
  <2>4. ServerControl'
    <3>1. sapp # "accept" /\ usedBufLen <= usedBufLen
      BY <1>5, <1>12 DEF ServerControl
    <3>2. QED
      BY <1>2, <1>12, <2>1, <3>1 DEF ServerControl
  <2>5. Stream'
    BY <1>2, <1>12, <2>2 DEF Stream
  <2>6. toClient' \in Seq(SegType) /\ expect_seqNum <= expect_seqNum'
    BY <1>5, <1>12 DEF LinkTypes
  <2>7. QED
    BY <1>2, <1>6, <1>7, <1>12, <2>3, <2>4, <2>5, <2>6
<1>13. QED
  BY <1>2, <1>8, <1>9, <1>10, <1>11, <1>12 DEF Handles

\* The unit that was copied is counted.
LEMMA ServerAddsInv == ASSUME TransferInv, ServerAdds PROVE TransferInv'
<1> USE DEF TransferInv
<1>1. /\ UNCHANGED <<clientVars, ups, sstate, sapp, recvBuf, delivered, discarded, toServer>>
      /\ shandler = "copied" /\ shandler' = "on" /\ copied' = 0 /\ expect_seqNum' = expect_seqNum + 1
      /\ ToClient("DATAACK", expect_seqNum + 1)
  BY DEF ServerAdds
<1>2. /\ expect_seqNum \in 1..sendBufTail /\ sendBufTail \in Nat /\ usedBufLen \in Nat /\ usedBufLen <= copied /\ discarded = 0
      /\ copied \in 0..(RECEIVE_BUF_SIZE - 1) /\ RECEIVE_BUF_SIZE \in Nat \ {0} /\ Len(delivered) \in Nat /\ sendBufHead \in Nat
  BY <1>1, Sizes DEF ServerTypes, ServerControl, ClientTypes
<1>3. usedBufLen' \in {usedBufLen, usedBufLen + 1, copied + 1} /\ (usedBufLen = copied => usedBufLen' = usedBufLen + 1)
  BY DEF ServerAdds
<1>4. /\ expect_seqNum' \in Nat /\ expect_seqNum <= expect_seqNum' /\ expect_seqNum' <= sendBufTail + 1 /\ expect_seqNum' # 0
      /\ usedBufLen' \in 0..RECEIVE_BUF_SIZE
  BY <1>1, <1>2, <1>3
<1>5. ClientTypes' /\ ClientControl' /\ Window' /\ (FinIsFair => FinIsFair')
  BY <1>1, ClientKept
<1>6. toClient' \in Seq(SegType) /\ \A k \in DOMAIN toClient' : toClient'[k].type = "DATAACK" => toClient'[k].seq <= expect_seqNum'
  BY <1>1, <1>4, SentToClient
<1>7. LinkTypes'
  BY <1>1, <1>6 DEF LinkTypes
<1>8. InFlight'
  <2>1. sendBufHead' > 1 => sendBufHead' <= expect_seqNum'
    BY <1>1, <1>2, <1>4 DEF InFlight
  <2>2. QED
    BY <1>1, <1>6, <2>1 DEF InFlight
<1>9. SynFirst'
  BY <1>1 DEF SynFirst
<1>10. Fins'
  BY <1>1, <1>5 DEF Fins
<1>11. bufRaced' = (bufRaced \/ usedBufLen # copied)
  BY DEF ServerAdds
<1>12. ServerTypes'
  <2>1. bufRaced' \in BOOLEAN
    BY <1>11
  <2>2. copied' \in 0..(RECEIVE_BUF_SIZE - 1)
    BY <1>1, <1>2
  <2>3. QED
    BY <1>1, <1>4, <2>1, <2>2 DEF ServerTypes
<1>13. ServerControl'
  BY <1>1, <1>2, <1>4 DEF ServerControl
<1>14. Stream'
  <2> SUFFICES ASSUME ~bufRaced' PROVE Stream'
    BY DEF Stream
  <2>1. ~bufRaced /\ usedBufLen = copied
    BY <1>11, Zenon
  <2>2. /\ \A i \in 1..Len(delivered) : delivered[i] = i
        /\ \A i \in 1..usedBufLen : recvBuf[i] = Len(delivered) + i
        /\ expect_seqNum > 0 => Len(delivered) + usedBufLen + discarded = expect_seqNum - 1
        /\ recvBuf[usedBufLen + 1] = expect_seqNum
    BY <1>1, <2>1 DEF Stream
  <2>3. usedBufLen' = usedBufLen + 1
    BY <1>3, <2>1
  <2>4. recvBuf[usedBufLen + 1] = Len(delivered) + (usedBufLen + 1)
    BY <1>2, <2>2
  <2>5. \A i \in 1..(usedBufLen + 1) : i \in 1..usedBufLen \/ i = usedBufLen + 1
    BY <1>2
  <2>6. \A i \in 1..usedBufLen' : recvBuf[i] = Len(delivered) + i
    BY <2>2, <2>3, <2>4, <2>5
  <2>7. Len(delivered) + usedBufLen' + discarded = expect_seqNum' - 1
    BY <1>1, <1>2, <2>2, <2>3
  <2>8. QED
    BY <1>1, <2>2, <2>6, <2>7 DEF Stream
<1>15. QED
  BY <1>5, <1>7, <1>8, <1>9, <1>10, <1>12, <1>13, <1>14

\* Steps that leave the transfer alone.
LEMMA StutterInv == TransferInv /\ UNCHANGED transferVars => TransferInv'
<1> SUFFICES ASSUME TransferInv, UNCHANGED transferVars PROVE TransferInv'
  OBVIOUS
<1> USE DEF TransferInv, transferVars
<1>1. ClientTypes' /\ ClientControl' /\ Window' /\ (FinIsFair => FinIsFair')
  BY ClientKept
<1>2. ServerTypes' /\ LinkTypes' /\ ServerControl' /\ Stream'
  BY DEF ServerTypes, LinkTypes, ServerControl, Stream
<1>3. SynFirst' /\ InFlight' /\ Fins'
  BY <1>1 DEF SynFirst, InFlight, Fins
<1>4. QED
  BY <1>1, <1>2, <1>3

-----------------------------------------------------------------------------
(* What follows for the runs of STCP                                       *)

\* The inductive invariant of the transfer holds at every step.
THEOREM TransferInvariance == TransferSpec => []TransferInv
<1>1. TransferInv /\ [TransferNext]_transferVars => TransferInv'
  <2> SUFFICES ASSUME TransferInv, [TransferNext]_transferVars PROVE TransferInv'
    OBVIOUS
  <2>1. CASE SetState \/ Enqueue \/ Launch \/ Advance \/ Count \/ CloseClient
    BY <2>1, ClientAppInv
  <2>2. CASE SendFirst \/ SendData \/ Retries
    BY <2>2, ClientSendInv
  <2>3. CASE TimerEnds \/ Resend
    BY <2>3, TimerInv
  <2>4. CASE ClientGets
    BY <2>4, ClientGetsInv
  <2>5. CASE ClientEnds \/ ClientKilled \/ ServerKilled
    BY <2>5, EndsInv
  <2>6. CASE Listens \/ Accepted \/ RecvLooks \/ RecvTakes \/ CloseServer \/ TimerThread
    BY <2>6, ServerAppInv
  <2>7. CASE ServerGets
    BY <2>7, ServerGetsInv
  <2>8. CASE ServerAdds
    BY <2>8, ServerAddsInv
  <2>9. CASE UNCHANGED transferVars
    BY <2>9, StutterInv
  <2>10. QED
    BY <2>1, <2>2, <2>3, <2>4, <2>5, <2>6, <2>7, <2>8, <2>9 DEF TransferNext
<1>2. QED
  BY InitInv, <1>1, PTL DEF TransferSpec

\* The client's list, its counters and the server's buffer stay within their
\* bounds: sendBufHead, sendBufunSent and sendBufTail in the list or one behind
\* it, one timer thread at most for each unit, and usedBufLen within recvBuf.
THEOREM TransferTypes == TransferSpec => []TransferTypeOK
<1>1. TransferInv => TransferTypeOK
  <2> SUFFICES ASSUME TransferInv PROVE TransferTypeOK
    OBVIOUS
  <2> USE DEF TransferInv
  <2>1. Units \in Nat /\ sendBufTail \in 0..Units
    BY CallsRise DEF ClientTypes
  <2>2. sendBufHead \in 1..(Units + 1) /\ timers \in 0..Units
    BY <2>1 DEF ClientTypes
  <2>3. expect_seqNum \in 0..(Units + 1)
    BY <2>1 DEF ServerTypes, ServerControl
  <2>4. QED
    BY <2>1, <2>2, <2>3 DEF TransferTypeOK, ClientTypes, ServerTypes
<1>2. QED
  BY TransferInvariance, <1>1, PTL

\* Go-Back-N of Exp4-2 delivers a prefix of the units in order, without a gap
\* or a repetition, for any calls, window, buffer and losses, unless the two
\* writers of usedBufLen collide; and what the client frees was accepted.
THEOREM TransferStream == TransferSpec => []StreamKept
<1>1. TransferInv => StreamKept
  <2> SUFFICES ASSUME TransferInv PROVE StreamKept
    OBVIOUS
  <2> USE DEF TransferInv
  <2>1. PICK waits : waits = SubSeq(recvBuf, 1, usedBufLen)
    OBVIOUS
  <2>2. /\ recvBuf \in [1..RECEIVE_BUF_SIZE -> Nat] /\ usedBufLen \in 0..RECEIVE_BUF_SIZE /\ RECEIVE_BUF_SIZE \in Nat
        /\ delivered \in Seq(Nat) /\ Len(delivered) \in Nat /\ discarded \in Nat /\ expect_seqNum \in Nat
    BY Sizes DEF ServerTypes
  <2>3. waits \in Seq(Nat) /\ Len(waits) = usedBufLen /\ \A i \in 1..usedBufLen : waits[i] = recvBuf[i]
    <3>1. recvBuf \in Seq(Nat) /\ Len(recvBuf) = RECEIVE_BUF_SIZE
      BY <2>2
    <3>2. QED
      BY <2>1, <2>2, <3>1
  <2>4. PICK all : all = delivered \o waits
    OBVIOUS
  <2>5. /\ Len(all) = Len(delivered) + usedBufLen
        /\ \A i \in DOMAIN all : i \in Nat
        /\ \A i \in DOMAIN all : \/ i \in 1..Len(delivered) /\ all[i] = delivered[i]
                                 \/ i - Len(delivered) \in 1..usedBufLen /\ all[i] = recvBuf[i - Len(delivered)]
    <3>1. DOMAIN waits = 1..usedBufLen /\ DOMAIN delivered = 1..Len(delivered)
      BY <2>2, <2>3
    <3>2. /\ all \in Seq(Nat) /\ DOMAIN all = 1..(Len(delivered) + Len(waits))
          /\ \A i \in DOMAIN delivered : all[i] = delivered[i]
          /\ \A i \in DOMAIN all : i \notin DOMAIN delivered => i - Len(delivered) \in DOMAIN waits /\ all[i] = waits[i - Len(delivered)]
      <4>1. delivered \in Seq(Nat) /\ waits \in Seq(Nat)
        BY <2>2, <2>3
      <4>2. QED
        BY <2>4, <4>1, Joined
    <3>3. Len(all) = Len(delivered) + usedBufLen /\ \A i \in DOMAIN all : i \in Nat
      BY <2>2, <2>3, <3>2
    <3>4. \A i \in DOMAIN all : i \notin DOMAIN delivered => i - Len(delivered) \in 1..usedBufLen /\ all[i] = recvBuf[i - Len(delivered)]
      BY <2>3, <3>1, <3>2
    <3>5. ASSUME NEW i \in DOMAIN all
          PROVE  \/ i \in 1..Len(delivered) /\ all[i] = delivered[i]
                 \/ i - Len(delivered) \in 1..usedBufLen /\ all[i] = recvBuf[i - Len(delivered)]
      <4>1. CASE i \in DOMAIN delivered
        BY <3>1, <3>2, <4>1
      <4>2. CASE i \notin DOMAIN delivered
        BY <3>4, <3>5, <4>2
      <4>3. QED
        BY <4>1, <4>2
    <3>6. QED
      BY <3>3, <3>5
  <2>6. ASSUME ~bufRaced
        PROVE  (\A i \in DOMAIN all : all[i] = i) /\ (expect_seqNum > 0 => Len(all) + discarded = expect_seqNum - 1)
    <3>1. /\ \A i \in 1..Len(delivered) : delivered[i] = i
          /\ \A i \in 1..usedBufLen : recvBuf[i] = Len(delivered) + i
          /\ expect_seqNum > 0 => Len(delivered) + usedBufLen + discarded = expect_seqNum - 1
      BY <2>6 DEF Stream
    <3>2. \A i \in Nat : Len(delivered) + (i - Len(delivered)) = i
      BY <2>2
    <3>3. \A i \in DOMAIN all : all[i] = i
      BY <2>5, <3>1, <3>2
    <3>4. QED
      BY <2>5, <3>1, <3>3
  <2>7. sendBufHead > 1 => sendBufHead <= expect_seqNum
    BY DEF InFlight
  <2>8. QED
    BY <2>1, <2>4, <2>6, <2>7 DEF StreamKept
<1>2. QED
  BY TransferInvariance, <1>1, PTL

\* unAck_segNum never exceeds GBN_WINDOW in stcp_client_send, and counts the
\* segments that were sent and not acknowledged unless ++ and -- collide.
THEOREM TransferWindow == TransferSpec => []WindowTrue
<1>1. TransferInv => WindowTrue
  BY DEF TransferInv, Window, WindowTrue
<1>2. QED
  BY TransferInvariance, <1>1, PTL

\* A closed server with an application that still waits in stcp_server_recv
\* was left by a client that did not wait for its acknowledgements, or lost data
\* to timer_thread or to a collision.
THEOREM TransferStarved == TransferSpec => []StarvedExplained
<1>1. TransferInv => StarvedExplained
  <2> SUFFICES ASSUME TransferInv, sstate = "CLOSED", sapp = "recv", usedBufLen = 0, ~hasty, ~(discarded > 0), ~bufRaced
               PROVE  FALSE
    BY DEF StarvedExplained
  <2> USE DEF TransferInv
  <2>1. Units \in Nat \ {0} /\ Len(delivered) \in Nat /\ discarded \in Nat /\ discarded = 0 /\ expect_seqNum \in Nat /\ sendBufTail \in 0..Units
    BY CallsRise DEF ServerTypes, ClientTypes
  <2>2. sendBufHead = Units + 1
    BY DEF Fins, FinIsFair
  <2>3. expect_seqNum = Units + 1
    BY <2>1, <2>2 DEF InFlight, ServerControl
  <2>4. Len(delivered) = Units
    BY <2>1, <2>3 DEF Stream
  <2>5. QED
    BY <2>1, <2>4 DEF ServerControl
<1>2. QED
  BY TransferInvariance, <1>1, PTL

-----------------------------------------------------------------------------
(* The stream it implements                                                *)

Written == [i \in 1..sendBufTail |-> i]
Taken == [i \in 1..(expect_seqNum - 1) |-> i]

\* The first n units and the next one are the first n + 1.
LEMMA OneMore ==
  ASSUME NEW n \in Nat
  PROVE  /\ [i \in 1..n |-> i] \in Seq(Nat) /\ Len([i \in 1..n |-> i]) = n
         /\ [i \in 1..(n + 1) |-> i] = Append([i \in 1..n |-> i], n + 1)
<1> DEFINE s == [i \in 1..n |-> i]
<1>1. s \in Seq(Nat) /\ Len(s) = n
  OBVIOUS
<1>2. DOMAIN Append(s, n + 1) = 1..(n + 1)
  BY <1>1
<1>3. \A i \in 1..(n + 1) : Append(s, n + 1)[i] = i
  <2> SUFFICES ASSUME NEW i \in 1..(n + 1) PROVE Append(s, n + 1)[i] = i
    OBVIOUS
  <2>1. CASE i = n + 1
    BY <1>1, <2>1
  <2>2. CASE i \in 1..n
    BY <1>1, <2>2
  <2>3. QED
    BY <2>1, <2>2
<1>4. Append(s, n + 1) = [i \in 1..(n + 1) |-> Append(s, n + 1)[i]]
  BY <1>1, <1>2
<1>5. QED
  BY <1>1, <1>3, <1>4

\* Steps that move neither pointer nor count map to a stuttering step.
LEMMA SameStream ==
  ASSUME UNCHANGED <<sendBufTail, Taken, sendBufHead>>
  PROVE  UNCHANGED Promise!streamVars
  BY DEF Taken, Promise!streamVars

\* Queueing a unit is a Write.
LEMMA EnqueueWrites == ASSUME TransferInv, Enqueue PROVE Promise!Write
<1>1. capp = "queue" /\ sendBufTail' = sendBufTail + 1 /\ UNCHANGED <<expect_seqNum, sendBufHead>>
  BY DEF Enqueue
<1>2. sendBufTail \in Nat /\ sendBufTail + 1 \in 1..Units
  <2>1. call \in DOMAIN Calls /\ sendBufTail \in Nat /\ sendBufTail < Calls[call]
    BY <1>1, CallsRise DEF TransferInv, ClientTypes, ClientControl
  <2>2. Calls[call] \in Nat /\ Calls[call] <= Units /\ Units \in Nat
    BY <2>1, CallsRise
  <2>3. QED
    BY <2>1, <2>2
<1>3. Written' = Append(Written, sendBufTail + 1)
  BY <1>1, <1>2, OneMore DEF Written
<1>4. QED
  BY <1>1, <1>2, <1>3 DEF Promise!Write, Written

\* Counting the segment that was copied is a Take.
LEMMA AddsTakes == ASSUME TransferInv, ServerAdds PROVE Promise!Take
<1>1. expect_seqNum' = expect_seqNum + 1 /\ shandler = "copied" /\ UNCHANGED <<sendBufTail, sendBufHead>>
  BY DEF ServerAdds
<1>2. sendBufTail \in Nat /\ expect_seqNum \in 1..sendBufTail
  BY <1>1, CallsRise DEF TransferInv, ClientTypes, ServerControl
<1>3. expect_seqNum - 1 \in Nat /\ (expect_seqNum - 1) + 1 = expect_seqNum /\ expect_seqNum' - 1 = expect_seqNum
  BY <1>1, <1>2
<1>4. Len(Taken) = expect_seqNum - 1 /\ Taken' = Append(Taken, expect_seqNum)
  BY <1>3, OneMore DEF Taken
<1>5. Len(Written) = sendBufTail /\ Written[expect_seqNum] = expect_seqNum /\ Written' = Written
  BY <1>1, <1>2, OneMore DEF Written
<1>6. Len(Taken) < Len(Written) /\ Taken' = Append(Taken, Written[Len(Taken) + 1])
  BY <1>2, <1>3, <1>4, <1>5
<1>7. QED
  BY <1>1, <1>5, <1>6 DEF Promise!Take, Written, Taken

\* An acknowledgement releases what the server has taken, or nothing.
LEMMA AckReleases ==
  ASSUME TransferInv, ClientGets
  PROVE  Promise!Release \/ UNCHANGED Promise!streamVars
<1>1. UNCHANGED <<sendBufTail, expect_seqNum>>
  BY DEF ClientGets
<1>2. CASE UNCHANGED sendBufHead
  BY <1>1, <1>2, SameStream DEF Taken
<1>3. CASE sendBufHead' # sendBufHead
  <2>1. sendBufHead \in Nat \ {0} /\ expect_seqNum \in Nat
    BY CallsRise DEF TransferInv, ClientTypes, ServerTypes
  <2>2. Head(toClient).type = "DATAACK" /\ sendBufHead' = Freed(Head(toClient).seq) /\ toClient # <<>>
    BY <1>3 DEF ClientGets
  <2>3. Head(toClient).seq \in Nat /\ Head(toClient).seq <= expect_seqNum
    <3>1. toClient \in Seq(SegType)
      BY DEF TransferInv, LinkTypes
    <3>2. 1 \in DOMAIN toClient /\ Head(toClient) = toClient[1] /\ Head(toClient) \in SegType
      BY <2>2, <3>1, OneTaken
    <3>3. QED
      BY <2>2, <3>2 DEF TransferInv, InFlight, SegType
  <2>4. sendBufHead' = Head(toClient).seq /\ sendBufHead' > sendBufHead
    BY <1>3, <2>1, <2>2, <2>3, Greater DEF Freed
  <2>5. Len(Taken) = expect_seqNum - 1
    BY <2>1, <2>3, <2>4, OneMore DEF Taken
  <2>6. sendBufHead' - 1 \in ((sendBufHead - 1) + 1)..Len(Taken)
    BY <2>1, <2>3, <2>4, <2>5
  <2>7. QED
    BY <1>1, <2>6 DEF Promise!Release, Taken
<1>4. QED
  BY <1>2, <1>3

\* A segment the server gets leaves the count as it is, or sets it to 1 before
\* anything was taken.
LEMMA GetsTakesNothing == ASSUME TransferInv, ServerGets PROVE UNCHANGED Promise!streamVars
<1>1. UNCHANGED <<sendBufTail, sendBufHead>>
  BY DEF ServerGets
<1>2. CASE UNCHANGED expect_seqNum
  BY <1>1, <1>2, SameStream DEF Taken
<1>3. CASE expect_seqNum' # expect_seqNum
  <2>1. Head(toServer).type = "SYN" /\ expect_seqNum' = Head(toServer).seq
    BY <1>3 DEF ServerGets, Handles
  <2>2. expect_seqNum' = 1 /\ expect_seqNum <= 1 /\ expect_seqNum \in Nat
    BY <2>1, TakenByServer DEF ServerGets, TransferInv, ServerTypes
  <2>3. 1..(expect_seqNum - 1) = {} /\ 1..(expect_seqNum' - 1) = {}
    BY <2>2
  <2>4. Taken' = Taken
    BY <2>3 DEF Taken
  <2>5. QED
    BY <1>1, <2>4, SameStream
<1>4. QED
  BY <1>2, <1>3

\* Every other step takes nothing over and releases nothing.
LEMMA OthersStutter ==
  ASSUME \/ SendFirst \/ SetState \/ Retries \/ Launch \/ SendData \/ Advance \/ Count
         \/ CloseClient \/ ClientEnds \/ ClientKilled \/ TimerEnds \/ Resend
         \/ Listens \/ Accepted \/ RecvLooks \/ RecvTakes \/ CloseServer \/ TimerThread
         \/ ServerKilled \/ UNCHANGED transferVars
  PROVE  UNCHANGED Promise!streamVars
<1>1. UNCHANGED <<sendBufTail, sendBufHead, expect_seqNum>>
  BY DEF SendFirst, SetState, Retries, Launch, SendData, Advance, Count, CloseClient, ClientEnds,
         ClientKilled, TimerEnds, Resend, Listens, Accepted, RecvLooks, RecvTakes, CloseServer,
         TimerThread, ServerKilled, transferVars
<1>2. QED
  BY <1>1, SameStream DEF Taken

\* Go-Back-N of Exp4-2 implements the stream, for any calls, window, buffer and
\* number of repetitions: also a SYN that comes late, a segment that was sent
\* again and an acknowledgement for several units are steps of it, or none
\* (Exp4-2/client/stcp_client.c, Exp4-2/server/stcp_server.c).
THEOREM TransferRefinement == TransferSpec => Promise!StreamSpec
<1>1. TransferInit => Promise!StreamInit
  BY DEF TransferInit, Promise!StreamInit
<1>2. TransferInv /\ [TransferNext]_transferVars => [Promise!StreamNext]_(Promise!streamVars)
  <2> SUFFICES ASSUME TransferInv, [TransferNext]_transferVars
               PROVE  [Promise!StreamNext]_(Promise!streamVars)
    OBVIOUS
  <2>1. CASE Enqueue
    BY <2>1, EnqueueWrites DEF Promise!StreamNext
  <2>2. CASE ServerAdds
    BY <2>2, AddsTakes DEF Promise!StreamNext
  <2>3. CASE ClientGets
    BY <2>3, AckReleases DEF Promise!StreamNext
  <2>4. CASE ServerGets
    BY <2>4, GetsTakesNothing
  <2>5. QED
    BY <2>1, <2>2, <2>3, <2>4, OthersStutter DEF TransferNext
<1>3. QED
  BY TransferInvariance, <1>1, <1>2, PTL DEF TransferSpec, Promise!StreamSpec

-----------------------------------------------------------------------------
(* The life of the connection                                              *)

\* What a segment on its way, and the state of the client's entry, prove about
\* the other side.
LifeInv ==
  /\ \A i \in DOMAIN toServer : toServer[i].type = "FIN" => FinSent
  /\ \A i \in DOMAIN toClient : /\ toClient[i].type = "SYNACK" => SynSeen
                                /\ toClient[i].type = "FINACK" => FinSeen
  /\ cstate = "CONNECTED" => SynSeen
  /\ capp = "closing" /\ cstate = "CLOSED" => FinSeen

\* A step of the client's side that sends nothing but segments of segs.
LEMMA ClientLife ==
  ASSUME TransferInv, LifeInv, UNCHANGED <<sstate, sapp, toClient>>, FinSent => FinSent',
         NEW segs \in Seq(SegType), toServer' = toServer \/ toServer' = toServer \o segs,
         \A k \in DOMAIN segs : segs[k].type = "FIN" => FinSent',
         cstate' = "CONNECTED" => cstate = "CONNECTED",
         capp' = "closing" /\ cstate' = "CLOSED" => capp = "closing" /\ cstate = "CLOSED"
  PROVE  LifeInv'
<1>1. UNCHANGED <<SynSeen, FinSeen>>
  BY DEF SynSeen, FinSeen
<1>2. \A k \in DOMAIN toServer' : toServer'[k].type = "FIN" => FinSent'
  <2>1. CASE toServer' = toServer
    BY <2>1 DEF LifeInv
  <2>2. CASE toServer' = toServer \o segs
    <3>1. /\ \A k \in DOMAIN toServer : toServer'[k] = toServer[k]
          /\ \A k \in DOMAIN toServer' : k \notin DOMAIN toServer => \E n \in DOMAIN segs : toServer'[k] = segs[n]
      BY <2>2, Joined DEF TransferInv, LinkTypes
    <3>2. QED
      BY <3>1 DEF LifeInv
  <2>3. QED
    BY <2>1, <2>2
<1>3. QED
  BY <1>1, <1>2 DEF LifeInv

\* The stages of the client only rise, and each step of them has its reason.
LEMMA StageSteps ==
  ASSUME TransferInv, LifeInv, TransferNext
  PROVE  \/ UNCHANGED <<Established, FinSent, capp \in {"close", "done"}>>
         \/ /\ SynSeen /\ UNCHANGED <<sstate, sapp, FinSent, capp \in {"close", "done"}>>
            /\ ~Established /\ Established'
         \/ /\ Established /\ UNCHANGED <<sstate, sapp, Established, capp \in {"close", "done"}>>
            /\ ~FinSent /\ FinSent'
         \/ /\ FinSeen /\ UNCHANGED <<sstate, sapp, Established, FinSent>>
            /\ capp \notin {"close", "done"} /\ capp' \in {"close", "done"}
<1> USE DEF TransferInv, Established, FinSent
<1>1. /\ capp \in Connecting => sendBufTail = 0
      /\ capp \in Finishing => sendBufTail = Units /\ Units > 0
      /\ sendBufTail \in Nat
  BY CallsRise DEF ClientControl, ClientTypes
<1>2. CASE UNCHANGED <<capp, sendBufTail>>
  BY <1>2
<1>3. CASE SendFirst
  BY <1>3 DEF SendFirst
<1>4. CASE SetState
  BY <1>4 DEF SetState
<1>5. CASE Retries
  <2>1. UNCHANGED <<sstate, sapp, sendBufTail>>
    BY <1>5 DEF Retries
  <2>2. CASE Retry("connecting", "CONNECTED", "queue", Seg("SYN", 1), SYN_MAX_RETRY)
    BY <1>1, <2>1, <2>2 DEF Retry, LifeInv, Connecting
  <2>3. CASE Retry("closing", "CLOSED", "close", Seg("FIN", sendBufTail + 1), FIN_MAX_RETRY)
    BY <1>1, <2>1, <2>3 DEF Retry, LifeInv, Finishing
  <2>4. QED
    BY <1>5, <2>2, <2>3 DEF Retries
<1>6. CASE Enqueue
  BY <1>6 DEF Enqueue
<1>7. CASE Launch \/ SendData \/ Advance \/ Count \/ CloseClient
  <2>1. \/ capp \in Launching /\ capp' \in Launching \cup {"queue", "disconnect"}
        \/ capp = "close" /\ capp' = "done"
    BY <1>7 DEF Launch, SendData, Advance, Count, CloseClient, Launching
  <2>2. QED
    BY <2>1 DEF Launching
<1>8. CASE Resend
  BY <1>8 DEF Resend
<1>9. CASE ClientGets
  BY <1>9 DEF ClientGets
<1>10. CASE ClientEnds \/ ClientKilled \/ TimerEnds \/ Listens \/ Accepted \/ RecvLooks \/ RecvTakes
            \/ CloseServer \/ TimerThread \/ ServerGets \/ ServerAdds \/ ServerKilled
  <2>1. UNCHANGED <<capp, sendBufTail>>
    BY <1>10 DEF ClientEnds, ClientKilled, TimerEnds, Listens, Accepted, RecvLooks, RecvTakes,
            CloseServer, TimerThread, ServerGets, ServerAdds, ServerKilled
  <2>2. QED
    BY <1>2, <2>1
<1>11. QED
  BY <1>3, <1>4, <1>5, <1>6, <1>7, <1>8, <1>9, <1>10 DEF TransferNext

\* What the server has seen of the connection only grows, and an FIN is seen
\* only when one was sent.
LEMMA ServerLife ==
  ASSUME TransferInv, LifeInv, TransferNext
  PROVE  \/ UNCHANGED <<SynSeen, FinSeen>>
         \/ UNCHANGED <<capp, cstate, sendBufTail, FinSeen>> /\ ~SynSeen /\ SynSeen'
         \/ UNCHANGED <<capp, cstate, sendBufTail, SynSeen>> /\ FinSent /\ ~FinSeen /\ FinSeen'
<1> USE DEF TransferInv, SynSeen, FinSeen
<1>1. CASE Listens
  BY <1>1 DEF Listens, ServerControl
<1>2. CASE Accepted
  BY <1>2 DEF Accepted
<1>3. CASE RecvLooks \/ RecvTakes \/ CloseServer
  BY <1>3 DEF RecvLooks, RecvTakes, CloseServer
<1>4. CASE TimerThread
  <2>1. sstate = "CLOSEWAIT" /\ sapp # "accept" /\ sstate' = "CLOSED" /\ sapp' = sapp
    BY <1>4 DEF TimerThread, ServerControl
  <2>2. QED
    BY <2>1
<1>5. CASE ServerGets
  <2>1. UNCHANGED <<capp, cstate, sendBufTail, sapp>>
    BY <1>5 DEF ServerGets
  <2>2. Head(toServer).type = "FIN" => FinSent
    <3>1. 1 \in DOMAIN toServer /\ Head(toServer) = toServer[1]
      BY <1>5, OneTaken DEF ServerGets, LinkTypes
    <3>2. QED
      BY <3>1 DEF LifeInv
  <2>3. \/ UNCHANGED sstate
        \/ sstate \in {"LISTENING", "CONNECTED"} /\ sstate' = "CONNECTED"
        \/ sstate \in {"CONNECTED", "CLOSEWAIT"} /\ sstate' = "CLOSEWAIT" /\ Head(toServer).type = "FIN"
    BY <1>5 DEF ServerGets, Handles
  <2>4. QED
    BY <2>1, <2>2, <2>3
<1>6. CASE \/ SendFirst \/ SetState \/ Retries \/ Enqueue \/ Launch \/ SendData \/ Advance \/ Count
           \/ CloseClient \/ ClientEnds \/ ClientKilled \/ TimerEnds \/ Resend \/ ClientGets
           \/ ServerAdds \/ ServerKilled
  <2>1. UNCHANGED <<sstate, sapp>>
    BY <1>6 DEF SendFirst, SetState, Retries, Enqueue, Launch, SendData, Advance, Count, CloseClient,
         ClientEnds, ClientKilled, TimerEnds, Resend, ClientGets, ServerAdds, ServerKilled
  <2>2. QED
    BY <2>1
<1>7. QED
  BY <1>1, <1>2, <1>3, <1>4, <1>5, <1>6 DEF TransferNext

\* The steps of the client that may send a segment.
LEMMA ClientLifeInv ==
  ASSUME TransferInv, LifeInv, FinSent => FinSent',
         \/ SendFirst \/ SetState \/ Retries \/ Enqueue \/ Launch \/ SendData \/ Advance \/ Count
         \/ CloseClient \/ ClientKilled \/ TimerEnds \/ Resend
  PROVE  LifeInv'
<1>0. <<>> \in Seq(SegType) /\ DOMAIN <<>> = {}
  OBVIOUS
<1>1. ASSUME NEW type \in {"SYN", "FIN", "DATA", "torn"}, NEW seq \in Nat, ToServer(<<Seg(type, seq)>>),
             UNCHANGED <<sstate, sapp>>, type = "FIN" => FinSent',
             cstate' = "CONNECTED" => cstate = "CONNECTED",
             capp' = "closing" /\ cstate' = "CLOSED" => capp = "closing" /\ cstate = "CLOSED"
      PROVE  LifeInv'
  <2> DEFINE segs == <<Seg(type, seq)>>
  <2>1. Seg(type, seq) \in SegType /\ Seg(type, seq).type = type
    BY DEF Seg, SegType
  <2>2. segs \in Seq(SegType) /\ \A k \in DOMAIN segs : segs[k] = Seg(type, seq)
    BY <2>1
  <2>3. UNCHANGED toClient /\ (toServer' = toServer \/ toServer' = toServer \o segs)
    BY <1>1 DEF ToServer
  <2> HIDE DEF segs
  <2>4. QED
    BY <1>1, <2>1, <2>2, <2>3, ClientLife
<1>2. ASSUME UNCHANGED <<sstate, sapp, toClient, toServer>>,
             cstate' = "CONNECTED" => cstate = "CONNECTED",
             capp' = "closing" /\ cstate' = "CLOSED" => capp = "closing" /\ cstate = "CLOSED"
      PROVE  LifeInv'
  BY <1>0, <1>2, ClientLife
<1>3. sendBufTail + 1 \in Nat /\ sendBufunSent \in Nat
  BY CallsRise DEF TransferInv, ClientTypes
<1>4. CASE SendFirst
  <2>1. CASE Goto("connect", "synsent") /\ ToServer(<<Seg("SYN", 1)>>)
    BY <1>1, <1>4, <2>1 DEF SendFirst
  <2>2. CASE Goto("disconnect", "finsent") /\ ToServer(<<Seg("FIN", sendBufTail + 1)>>)
    <3>1. FinSent'
      BY <2>2 DEF FinSent
    <3>2. QED
      BY <1>1, <1>3, <1>4, <2>2, <3>1 DEF SendFirst
  <2>3. QED
    BY <1>4, <2>1, <2>2 DEF SendFirst
<1>5. CASE SetState
  BY <1>2, <1>5 DEF SetState
<1>6. CASE Retries
  <2>0. UNCHANGED <<sstate, sapp>>
    BY <1>6 DEF Retries
  <2>1. ASSUME NEW at \in {"connecting", "closing"}, NEW wanted, NEW next \in {"queue", "close"}, NEW seq \in Nat,
               NEW max, NEW type \in {"SYN", "FIN"}, type = "FIN" => at = "closing",
               Retry(at, wanted, next, Seg(type, seq), max)
        PROVE  LifeInv'
    <3>1. CASE UNCHANGED cstate /\ UNCHANGED links /\ Goto(at, next)
      BY <1>2, <2>0, <3>1
    <3>2. CASE Goto(at, at) /\ ToServer(<<Seg(type, seq)>>) /\ UNCHANGED cstate
      <4>1. type = "FIN" => FinSent'
        BY <2>1, <3>2 DEF FinSent
      <4>2. QED
        BY <1>1, <2>0, <3>2, <4>1
    <3>3. CASE Goto(at, "failed") /\ cstate' = "CLOSED" /\ UNCHANGED links
      BY <1>2, <2>0, <3>3
    <3>4. QED
      BY <2>1, <3>1, <3>2, <3>3 DEF Retry
  <2>2. QED
    BY <1>3, <1>6, <2>1 DEF Retries
<1>7. CASE Enqueue \/ Launch \/ Advance \/ Count \/ CloseClient \/ ClientKilled \/ TimerEnds
  BY <1>2, <1>7 DEF Enqueue, Launch, Advance, Count, CloseClient, ClientKilled, TimerEnds
<1>8. CASE SendData
  BY <1>1, <1>3, <1>8 DEF SendData
<1>9. CASE Resend
  <2> DEFINE end == IF sendBufunSent < sendBufHead THEN sendBufTail ELSE sendBufunSent - 1
             again == [i \in 1..(end - sendBufHead + 1) |-> Seg("DATA", sendBufHead + i - 1)]
  <2>1. UNCHANGED <<sstate, sapp, cstate>> /\ (capp' = "closing" => capp = "closing")
    BY <1>9 DEF Resend
  <2>2. CASE ToServer(again)
    <3>1. again \in Seq(SegType) /\ \A k \in DOMAIN again : again[k].type = "DATA"
      <4>1. end - sendBufHead + 1 \in Int /\ sendBufHead \in Nat \ {0}
        BY CallsRise DEF TransferInv, ClientTypes
      <4>2. end - sendBufHead + 1 >= 0
        BY CallsRise DEF TransferInv, ClientTypes
      <4>3. \A i \in 1..(end - sendBufHead + 1) : Seg("DATA", sendBufHead + i - 1) \in SegType
        BY <4>1 DEF Seg, SegType
      <4>4. \A i \in 1..(end - sendBufHead + 1) : Seg("DATA", sendBufHead + i - 1).type = "DATA"
        BY DEF Seg
      <4> HIDE DEF end
      <4>5. QED
        BY <4>1, <4>2, <4>3, <4>4
    <3> HIDE DEF again
    <3>2. UNCHANGED toClient /\ (toServer' = toServer \/ toServer' = toServer \o again)
      BY <2>2 DEF ToServer
    <3>3. QED
      BY <2>1, <3>1, <3>2, ClientLife
  <2>3. CASE ToServer(<<Seg("torn", 0)>>)
    BY <1>1, <2>1, <2>3
  <2>4. QED
    BY <1>9, <2>2, <2>3 DEF Resend
<1>10. QED
  BY <1>4, <1>5, <1>6, <1>7, <1>8, <1>9

\* A step that only takes segments from the links.
LEMMA LessOnLinks ==
  ASSUME TransferInv, LifeInv, UNCHANGED <<capp, sendBufTail>>, SynSeen => SynSeen', FinSeen => FinSeen',
         toServer' = toServer \/ toServer' = <<>> \/ (toServer # <<>> /\ toServer' = Tail(toServer)),
         toClient' = toClient \/ toClient' = <<>> \/ (toClient # <<>> /\ toClient' = Tail(toClient)),
         cstate' = "CONNECTED" => cstate = "CONNECTED" \/ (toClient # <<>> /\ Head(toClient).type = "SYNACK"),
         capp = "closing" /\ cstate' = "CLOSED" => cstate = "CLOSED" \/ (toClient # <<>> /\ Head(toClient).type = "FINACK")
  PROVE  LifeInv'
<1> USE DEF TransferInv, LinkTypes
<1>1. UNCHANGED FinSent
  BY DEF FinSent
<1>2. \A k \in DOMAIN toServer' : toServer'[k].type = "FIN" => FinSent'
  <2>1. CASE toServer # <<>> /\ toServer' = Tail(toServer)
    <3>1. \A k \in DOMAIN toServer' : k + 1 \in DOMAIN toServer /\ toServer'[k] = toServer[k + 1]
      BY <2>1, OneTaken
    <3>2. QED
      BY <1>1, <3>1 DEF LifeInv
  <2>2. QED
    BY <1>1, <2>1 DEF LifeInv
<1>3. \A k \in DOMAIN toClient' : /\ toClient'[k].type = "SYNACK" => SynSeen'
                                  /\ toClient'[k].type = "FINACK" => FinSeen'
  <2>1. CASE toClient # <<>> /\ toClient' = Tail(toClient)
    <3>1. \A k \in DOMAIN toClient' : k + 1 \in DOMAIN toClient /\ toClient'[k] = toClient[k + 1]
      BY <2>1, OneTaken
    <3>2. QED
      BY <3>1 DEF LifeInv
  <2>2. QED
    BY <2>1 DEF LifeInv
<1>4. toClient # <<>> => /\ Head(toClient).type = "SYNACK" => SynSeen
                         /\ Head(toClient).type = "FINACK" => FinSeen
  <2>1. toClient # <<>> => 1 \in DOMAIN toClient /\ Head(toClient) = toClient[1]
    BY OneTaken
  <2>2. QED
    BY <2>1 DEF LifeInv
<1>5. QED
  BY <1>1, <1>2, <1>3, <1>4 DEF LifeInv

\* A step of the server that answers the segment it has taken.
LEMMA AnswerLife ==
  ASSUME TransferInv, LifeInv, UNCHANGED <<capp, sendBufTail, cstate>>, SynSeen => SynSeen', FinSeen => FinSeen',
         toServer' = toServer \/ (toServer # <<>> /\ toServer' = Tail(toServer)),
         NEW type \in {"SYNACK", "FINACK", "DATAACK"}, NEW seq \in Nat, ToClient(type, seq),
         type = "SYNACK" => SynSeen', type = "FINACK" => FinSeen'
  PROVE  LifeInv'
<1> USE DEF TransferInv, LinkTypes
<1>1. UNCHANGED FinSent
  BY DEF FinSent
<1>2. \A k \in DOMAIN toServer' : toServer'[k].type = "FIN" => FinSent'
  <2>1. CASE toServer # <<>> /\ toServer' = Tail(toServer)
    <3>1. \A k \in DOMAIN toServer' : k + 1 \in DOMAIN toServer /\ toServer'[k] = toServer[k + 1]
      BY <2>1, OneTaken
    <3>2. QED
      BY <1>1, <3>1 DEF LifeInv
  <2>2. QED
    BY <1>1, <2>1 DEF LifeInv
<1>3. \A k \in DOMAIN toClient' : /\ toClient'[k].type = "SYNACK" => SynSeen'
                                  /\ toClient'[k].type = "FINACK" => FinSeen'
  <2>1. CASE toClient' = toClient
    BY <2>1 DEF LifeInv
  <2>2. CASE toClient' = Append(toClient, Seg(type, seq))
    <3>1. Seg(type, seq) \in SegType /\ Seg(type, seq).type = type
      BY DEF Seg, SegType
    <3>2. \A k \in DOMAIN toClient' : toClient'[k] = Seg(type, seq) \/ (k \in DOMAIN toClient /\ toClient'[k] = toClient[k])
      BY <2>2, <3>1
    <3>3. QED
      BY <3>1, <3>2 DEF LifeInv
  <2>3. QED
    BY <2>1, <2>2 DEF ToClient
<1>4. QED
  BY <1>1, <1>2, <1>3 DEF LifeInv

\* Every step keeps what the segments on their way prove.
LEMMA LifeStep ==
  ASSUME TransferInv, LifeInv, TransferNext
  PROVE  LifeInv'
<1>1. FinSent => FinSent'
  BY StageSteps
<1>2. (SynSeen => SynSeen') /\ (FinSeen => FinSeen')
  BY ServerLife
<1>3. CASE \/ SendFirst \/ SetState \/ Retries \/ Enqueue \/ Launch \/ SendData \/ Advance \/ Count
           \/ CloseClient \/ ClientKilled \/ TimerEnds \/ Resend
  BY <1>1, <1>3, ClientLifeInv
<1>4. CASE ClientEnds \/ ServerKilled \/ Listens \/ Accepted \/ RecvLooks \/ RecvTakes \/ CloseServer \/ TimerThread
  <2>1. /\ UNCHANGED <<capp, sendBufTail, cstate>>
        /\ toServer' = toServer \/ toServer' = <<>>
        /\ toClient' = toClient \/ toClient' = <<>>
    BY <1>4 DEF ClientEnds, ServerKilled, Listens, Accepted, RecvLooks, RecvTakes, CloseServer, TimerThread
  <2>2. QED
    BY <1>2, <2>1, LessOnLinks
<1>5. CASE ClientGets
  <2>1. /\ UNCHANGED <<sendBufTail, toServer, sstate, sapp>> /\ toClient # <<>> /\ toClient' = Tail(toClient)
        /\ cstate' = "CONNECTED" => cstate = "CONNECTED" \/ Head(toClient).type = "SYNACK"
        /\ cstate' = "CLOSED" => cstate = "CLOSED" \/ Head(toClient).type = "FINACK"
    BY <1>5 DEF ClientGets
  <2>2. CASE UNCHANGED capp
    BY <1>2, <2>1, <2>2, LessOnLinks
  <2>3. CASE capp = "count" /\ capp' = "launch" /\ cstate' = cstate
    <3>1. \A k \in DOMAIN toClient' : k + 1 \in DOMAIN toClient /\ toClient'[k] = toClient[k + 1]
      BY <2>1, OneTaken DEF TransferInv, LinkTypes
    <3>2. UNCHANGED <<SynSeen, FinSeen, FinSent>>
      BY <2>1, <2>3 DEF SynSeen, FinSeen, FinSent
    <3>3. QED
      BY <2>1, <2>3, <3>1, <3>2 DEF LifeInv
  <2>4. QED
    BY <1>5, <2>2, <2>3 DEF ClientGets
<1>6. CASE ServerGets
  <2>1. UNCHANGED <<capp, sendBufTail, cstate, sapp>> /\ toServer # <<>> /\ toServer' = Tail(toServer)
    BY <1>6 DEF ServerGets
  <2>2. CASE UNCHANGED toClient
    BY <1>2, <2>1, <2>2, LessOnLinks
  <2>3. expect_seqNum \in Nat /\ Head(toServer) \in SegType /\ Head(toServer).seq \in Nat
    <3>1. expect_seqNum \in Nat /\ toServer \in Seq(SegType)
      BY DEF TransferInv, ServerTypes, LinkTypes
    <3>2. Head(toServer) \in SegType
      BY <2>1, <3>1, OneTaken
    <3>3. QED
      BY <3>1, <3>2 DEF SegType
  <2>4. CASE sstate' = "CONNECTED" /\ ToClient("SYNACK", Head(toServer).seq)
    <3>1. SynSeen'
      BY <2>4 DEF SynSeen
    <3>2. QED
      BY <1>2, <2>1, <2>3, <2>4, <3>1, AnswerLife
  <2>5. CASE sstate' = "CLOSEWAIT" /\ ToClient("FINACK", expect_seqNum)
    <3>1. FinSeen'
      BY <2>5 DEF FinSeen
    <3>2. QED
      BY <1>2, <2>1, <2>3, <2>5, <3>1, AnswerLife
  <2>6. CASE ToClient("DATAACK", expect_seqNum)
    BY <1>2, <2>1, <2>3, <2>6, AnswerLife
  <2>7. QED
    BY <1>6, <2>2, <2>4, <2>5, <2>6 DEF ServerGets, Handles
<1>7. CASE ServerAdds
  <2>1. UNCHANGED <<capp, sendBufTail, cstate, toServer>> /\ ToClient("DATAACK", expect_seqNum + 1) /\ expect_seqNum + 1 \in Nat
    BY <1>7 DEF ServerAdds, TransferInv, ServerTypes
  <2>2. QED
    BY <1>2, <2>1, AnswerLife
<1>8. QED
  BY <1>3, <1>4, <1>5, <1>6, <1>7 DEF TransferNext

LEMMA LifeInvariance == TransferSpec => []LifeInv
<1>1. TransferInit => LifeInv
  BY DEF TransferInit, LifeInv
<1>2. TransferInv /\ LifeInv /\ [TransferNext]_transferVars => LifeInv'
  <2> SUFFICES ASSUME TransferInv, LifeInv, [TransferNext]_transferVars PROVE LifeInv'
    OBVIOUS
  <2>1. CASE UNCHANGED transferVars
    BY <2>1 DEF transferVars, LifeInv, FinSent, FinSeen, SynSeen
  <2>2. QED
    BY <2>1, LifeStep
<1>3. QED
  BY TransferInvariance, <1>1, <1>2, PTL DEF TransferSpec

\* The client and the server of Exp4-2 implement the life of a connection as
\* well, for any numbers of repetitions and in every interleaving with the
\* transfer (Exp4-2/client/stcp_client.c, Exp4-2/server/stcp_server.c).
THEOREM LifetimeRefinement == TransferSpec => Lifetime!ConnectionSpec
<1>1. TransferInit => Lifetime!ConnectionInit
  BY DEF TransferInit, Lifetime!ConnectionInit, One, Established, FinSent, SynSeen, FinSeen
<1>2. TransferInv /\ LifeInv /\ [TransferNext]_transferVars => [Lifetime!ConnectionNext]_(Lifetime!connectionVars)
  <2> SUFFICES ASSUME TransferInv, LifeInv, [TransferNext]_transferVars
               PROVE  [Lifetime!ConnectionNext]_(Lifetime!connectionVars)
    OBVIOUS
  <2> DEFINE ended == capp \in {"close", "done"}
  <2>1. CASE UNCHANGED <<SynSeen, FinSeen, Established, FinSent, ended>>
    BY <2>1 DEF Lifetime!connectionVars, One
  <2>2. CASE /\ SynSeen /\ UNCHANGED <<sstate, sapp, FinSent, ended>>
             /\ ~Established /\ Established'
    <3>1. UNCHANGED <<SynSeen, FinSeen>>
      BY <2>2 DEF SynSeen, FinSeen
    <3>2. Lifetime!Establish(1)
      BY <2>2, <3>1 DEF Lifetime!Establish, One
    <3>3. QED
      BY <3>2 DEF Lifetime!ConnectionNext
  <2>3. CASE /\ Established /\ UNCHANGED <<sstate, sapp, Established, ended>>
             /\ ~FinSent /\ FinSent'
    <3>1. UNCHANGED <<SynSeen, FinSeen>>
      BY <2>3 DEF SynSeen, FinSeen
    <3>2. Lifetime!Finish(1)
      BY <2>3, <3>1 DEF Lifetime!Finish, One
    <3>3. QED
      BY <3>2 DEF Lifetime!ConnectionNext
  <2>4. CASE /\ FinSeen /\ UNCHANGED <<sstate, sapp, Established, FinSent>>
             /\ ~ended /\ ended'
    <3>1. UNCHANGED <<SynSeen, FinSeen>>
      BY <2>4 DEF SynSeen, FinSeen
    <3>2. Lifetime!Disconnect(1)
      BY <2>4, <3>1 DEF Lifetime!Disconnect, One
    <3>3. QED
      BY <3>2 DEF Lifetime!ConnectionNext
  <2>5. CASE UNCHANGED <<capp, cstate, sendBufTail, FinSeen>> /\ ~SynSeen /\ SynSeen'
    <3>1. UNCHANGED <<Established, FinSent, ended>>
      BY <2>5 DEF Established, FinSent
    <3>2. Lifetime!Open(1)
      BY <2>5, <3>1 DEF Lifetime!Open, One
    <3>3. QED
      BY <3>2 DEF Lifetime!ConnectionNext
  <2>6. CASE UNCHANGED <<capp, cstate, sendBufTail, SynSeen>> /\ FinSent /\ ~FinSeen /\ FinSeen'
    <3>1. UNCHANGED <<Established, FinSent, ended>>
      BY <2>6 DEF Established, FinSent
    <3>2. Lifetime!TakeFin(1)
      BY <2>6, <3>1 DEF Lifetime!TakeFin, One
    <3>3. QED
      BY <3>2 DEF Lifetime!ConnectionNext
  <2>7. CASE UNCHANGED transferVars
    <3>1. UNCHANGED <<SynSeen, FinSeen, Established, FinSent, ended>>
      BY <2>7 DEF transferVars, SynSeen, FinSeen, Established, FinSent
    <3>2. QED
      BY <2>1, <3>1
  <2>8. CASE UNCHANGED <<SynSeen, FinSeen>> /\ TransferNext
    BY <2>1, <2>2, <2>3, <2>4, <2>8, StageSteps
  <2>9. QED
    BY <2>5, <2>6, <2>7, <2>8, ServerLife
<1>3. QED
  BY TransferInvariance, LifeInvariance, <1>1, <1>2, PTL DEF TransferSpec, Lifetime!ConnectionSpec

\* Both together: what the run of the stack checks.
THEOREM TransferImplements == TransferSpec => ImplementsTransfer
  BY TransferRefinement, LifetimeRefinement DEF ImplementsTransfer
=============================================================================
