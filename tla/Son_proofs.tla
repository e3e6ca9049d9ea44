------------------------------- MODULE Son_proofs -------------------------------
(***************************************************************************)
(* Proofs about the SON process of Exp4-4: SonSipLink, its connection with *)
(* its SIP process, and SonOverlay, the mesh of the SON processes.         *)
(***************************************************************************)
EXTENDS SonSipLink, SonOverlay, FiniteSetTheorems, TLAPS

Token(S) == {Start, Stop} \cup {Data(p) : p \in S}
Readers(S) == [state : {"PKTSTART1", "PKTRECV", "GARBLED", "PKTSTOP1"}, pkt : S \cup {NoPkt}]

\* What a receiver r will go through when it reads the tokens q: it is in
\* state ss[i] after the first i.
Follows(S, ss, r, q) ==
  /\ ss \in [0..Len(q) -> Readers(S)] /\ ss[0] = r
  /\ \A i \in 1..Len(q) : ss[i] = Goes(ss[i - 1], q[i])

\* It will receive p, and never return -1.
Whole(ss, q, p) == \E i \in 1..Len(q) : q[i] = Stop /\ ss[i - 1].state = "PKTSTOP1" /\ ss[i - 1].pkt = p
Clean(ss, q) == \A i \in 1..Len(q) : Returns(ss[i - 1], q[i]) # -1

Pkt == {"in", "out"} \X Nat
WriterState == [part : 0..3, pkt : Pkt \cup {NoPkt}, on : 0..MaxSips, alone : BOOLEAN]

LinkTypes ==
  /\ sonAlive \in BOOLEAN /\ sip \in {"off", "up"} /\ sips \in Nat /\ sips <= MaxSips
  /\ son_conn \in BOOLEAN /\ outside \in SUBSET {"SON", "SIP"}
  /\ sip_conn \in 0..sips /\ shut \in SUBSET (1..sips) /\ torn \in SUBSET (1..sips)
  /\ toSip \in [1..MaxSips -> Seq(Token(Pkt))] /\ toSon \in [1..MaxSips -> Seq(Token(Pkt))]
  /\ sipReader \in Readers(Pkt) /\ sonReader \in Readers(Pkt)
  /\ writer \in [Writer -> WriterState]
  /\ returned \in SUBSET Sender /\ frames \in Nat
  /\ lone \in SUBSET (Pkt \X (1..sips))

\* Who has which connection.
Places ==
  /\ sip_conn \notin shut /\ (sip = "up" => sips > 0) /\ (son_conn => sip = "up")
  /\ sip = "off" => sipReader = AtStart /\ \A s \in Sender : writer[s] = Idle
  /\ \A w \in Writer : writer[w].on <= sips
  /\ \A l \in Listener : writer[l].on \in shut \cup {sip_conn, 0} /\ (writer[l].part > 0 => writer[l].pkt \in {"in"} \X Nat)
  /\ \A s \in Sender : writer[s].part > 0 => writer[s].on = sips /\ writer[s].pkt \in {"out"} \X Nat
  /\ \A k \in 1..MaxSips : k \notin shut /\ k # sip_conn => toSip[k] = <<>>
  /\ sips \notin shut \cup {sip_conn} => sipReader = AtStart
  /\ \A k \in 1..MaxSips : k > sips \/ k \in shut => toSon[k] = <<>>
  /\ torn = {} /\ "SIP" \notin outside => sips <= 1

\* What the frames cut into show on the writers' side: while a receiver that
\* has read everything would be inside a packet, or before its end, some
\* thread still has to send that packet, or that end.
Explains(end, W, k, wr) ==
  /\ end.state \in {"PKTRECV", "GARBLED"} => \E w \in W : wr[w].on = k /\ wr[w].part = 2
  /\ end.state = "PKTSTOP1" => \E w \in W : wr[w].on = k /\ wr[w].part = 3
  /\ \A w \in W : wr[w].alone /\ wr[w].on = k =>
       /\ wr[w].part = 2 => end.state = "PKTRECV"
       /\ wr[w].part = 3 => end.state = "PKTSTOP1" /\ end.pkt = wr[w].pkt

\* What pkthandler will read, as long as the connection is open for SIP.
SipReads(ss) ==
  /\ \A f \in lone : f[2] = sips /\ f[1][1] = "in" => f[1] \in got \/ Whole(ss, toSip[sips], f[1])
  /\ sonAlive /\ sip_conn = sips => Explains(ss[Len(toSip[sips])], Listener, sips, writer)

SipRun == son_conn => \E ss : Follows(Pkt, ss, sipReader, toSip[sips]) /\ SipReads(ss)

\* What waitSIP will read on connection k.
SonReads(ss, k) ==
  /\ \A f \in lone : f[2] = k /\ f[1][1] = "out" => f[1] \in got \/ Whole(ss, toSon[k], f[1])
  /\ k = sips /\ son_conn => Explains(ss[Len(toSon[k])], Sender, k, writer)
  /\ k \notin torn => Clean(ss, toSon[k])

SonAt(k) == IF k = sip_conn THEN sonReader ELSE AtStart
SonRun ==
  sonAlive => \A k \in 1..sips : k \notin shut =>
    \E ss : Follows(Pkt, ss, SonAt(k), toSon[k]) /\ SonReads(ss, k)

\* A connection without overlapping frames is closed by SON only when SIP has
\* gone, and when everything was read.
ClosedLate ==
  /\ \A k \in shut : k \in torn \/ SipHasGone(k)
  /\ \A k \in shut : k \notin torn => \A f \in lone : f[2] = k /\ f[1][1] = "out" => f[1] \in got
  /\ sips \notin torn => \A s \in Sender : writer[s].part > 0 => writer[s].alone

LinkInv == LinkTypes /\ Places /\ SipRun /\ SonRun /\ ClosedLate /\ KilledExplained

-----------------------------------------------------------------------------
(* Streams and their readers                                               *)

\* The three kinds of tokens.
LEMMA Kinds ==
  ASSUME NEW S, NEW t \in Token(S)
  PROVE  /\ Start # Stop /\ Start.is # "pkt" /\ Stop.is # "pkt" /\ \A p : Data(p).is = "pkt" /\ Data(p).pkt = p
         /\ t = Start \/ t = Stop \/ (t # Start /\ t # Stop /\ t.is = "pkt" /\ t.pkt \in S)
<1>1. Start.is = "!&" /\ Stop.is = "!#" /\ \A p : Data(p).is = "pkt" /\ Data(p).pkt = p
  BY DEF Start, Stop, Data
<1>2. "!&" # "!#" /\ "!&" # "pkt" /\ "!#" # "pkt"
  OBVIOUS
<1>3. Start # Stop /\ \A p : Data(p) # Start /\ Data(p) # Stop
  BY <1>1, <1>2
<1>4. QED
  BY <1>1, <1>2, <1>3 DEF Token

\* recvpkt after the next token.
LEMMA Read ==
  ASSUME NEW S, NEW t \in Token(S), NEW r \in Readers(S)
  PROVE  /\ Goes(r, t) \in Readers(S) /\ Returns(r, t) \in {-1, 0, 1}
         /\ t = Start => Goes(r, t).state = (CASE r.state = "PKTSTART1" -> "PKTRECV"
                                               [] r.state \in {"PKTRECV", "GARBLED"} -> "GARBLED"
                                               [] OTHER -> "PKTSTART1")
         /\ t = Stop => Goes(r, t).state = IF r.state \in {"PKTRECV", "GARBLED"} THEN "GARBLED" ELSE "PKTSTART1"
         /\ t # Start /\ t # Stop => Goes(r, t).state = IF r.state = "PKTRECV" THEN "PKTSTOP1" ELSE "PKTSTART1"
         /\ Goes(r, t).state = "PKTSTOP1" => t.pkt = Goes(r, t).pkt /\ t # Start /\ t # Stop /\ r.state = "PKTRECV"
<1>1. /\ Start # Stop /\ Start.is # "pkt" /\ Stop.is # "pkt"
      /\ t = Start \/ t = Stop \/ (t # Start /\ t # Stop /\ t.is = "pkt" /\ t.pkt \in S)
  BY Kinds
<1>2. /\ r.state \in {"PKTSTART1", "PKTRECV", "GARBLED", "PKTSTOP1"} /\ AtStart \in Readers(S) /\ AtStart.state = "PKTSTART1"
      /\ \A to \in {"PKTRECV", "GARBLED"} : [r EXCEPT !.state = to] \in Readers(S) /\ [r EXCEPT !.state = to].state = to
  BY DEF Readers, AtStart
<1>3. CASE t = Start
  <2>1. CASE r.state = "PKTSTART1"
    <3>1. Goes(r, t) = [r EXCEPT !.state = "PKTRECV"]
      BY <1>3, <2>1 DEF Goes
    <3>2. QED
      BY <1>1, <1>2, <1>3, <2>1, <3>1 DEF Returns
  <2>2. CASE r.state \in {"PKTRECV", "GARBLED"}
    <3>1. Goes(r, t) = [r EXCEPT !.state = "GARBLED"]
      BY <1>1, <1>3, <2>2 DEF Goes
    <3>2. QED
      BY <1>1, <1>2, <1>3, <2>2, <3>1 DEF Returns
  <2>3. CASE r.state = "PKTSTOP1"
    <3>1. Goes(r, t) = AtStart
      BY <1>1, <1>3, <2>3 DEF Goes
    <3>2. QED
      BY <1>1, <1>2, <1>3, <2>3, <3>1 DEF Returns
  <2>4. QED
    BY <1>2, <2>1, <2>2, <2>3
<1>4. CASE t = Stop
  <2>1. CASE r.state \in {"PKTRECV", "GARBLED"}
    <3>1. Goes(r, t) = [r EXCEPT !.state = "GARBLED"]
      BY <1>1, <1>4, <2>1 DEF Goes
    <3>2. QED
      BY <1>1, <1>2, <1>4, <2>1, <3>1 DEF Returns
  <2>2. CASE r.state \notin {"PKTRECV", "GARBLED"}
    <3>1. Goes(r, t) = AtStart
      BY <1>1, <1>4, <2>2 DEF Goes
    <3>2. QED
      BY <1>1, <1>2, <1>4, <2>2, <3>1 DEF Returns
  <2>3. QED
    BY <2>1, <2>2
<1>5. CASE t # Start /\ t # Stop
  <2>1. t.is = "pkt" /\ t.pkt \in S
    BY <1>1, <1>5
  <2>2. CASE r.state = "PKTRECV"
    <3>1. Goes(r, t) = [state |-> "PKTSTOP1", pkt |-> t.pkt]
      BY <1>5, <2>1, <2>2 DEF Goes
    <3>2. QED
      BY <1>5, <2>1, <2>2, <3>1 DEF Returns, Readers
  <2>3. CASE r.state # "PKTRECV"
    <3>1. Goes(r, t) = AtStart
      BY <1>5, <2>1, <2>3 DEF Goes
    <3>2. QED
      BY <1>2, <1>5, <2>3, <3>1 DEF Returns
  <2>4. QED
    BY <2>2, <2>3
<1>6. QED
  BY <1>3, <1>4, <1>5

\* When recvpkt returns a packet, and when it does not fail.
LEMMA Answers ==
  ASSUME NEW r, NEW t
  PROVE  /\ r.state = "PKTSTOP1" /\ t = Stop => Returns(r, t) = 1
         /\ r.state = "PKTSTART1" => Returns(r, t) = 0
         /\ r.state = "PKTRECV" => Returns(r, t) = 0
BY DEF Returns

\* One more token: the reader goes on from where it would have ended.
LEMMA Extended ==
  ASSUME NEW S, NEW ss, NEW r, NEW q \in Seq(Token(S)), Follows(S, ss, r, q), NEW t \in Token(S)
  PROVE  /\ Append(q, t) \in Seq(Token(S)) /\ Len(Append(q, t)) = Len(q) + 1 /\ Len(q) \in Nat
         /\ ss[Len(q)] \in Readers(S)
         /\ \E tt : /\ Follows(S, tt, r, Append(q, t))
                    /\ tt[Len(q) + 1] = Goes(ss[Len(q)], t)
                    /\ \A p : Whole(ss, q, p) => Whole(tt, Append(q, t), p)
                    /\ t = Stop /\ ss[Len(q)].state = "PKTSTOP1" => Whole(tt, Append(q, t), ss[Len(q)].pkt)
                    /\ Clean(ss, q) /\ Returns(ss[Len(q)], t) # -1 => Clean(tt, Append(q, t))
<1>1. PICK n \in Nat : n = Len(q)
  OBVIOUS
<1>2. PICK u \in Seq(Token(S)) : u = Append(q, t)
  <2>1. Append(q, t) \in Seq(Token(S))
    OBVIOUS
  <2>2. QED
    BY <2>1
<1>3. Len(u) = n + 1 /\ u[n + 1] = t /\ \A i \in 1..n : u[i] = q[i]
  BY <1>1, <1>2
<1>4. PICK end \in Readers(S) : end = ss[n]
  BY <1>1 DEF Follows
<1>5. PICK last \in Readers(S) : last = Goes(end, t)
  BY Read
<1>6. PICK tt : tt = [i \in 0..(n + 1) |-> IF i = n + 1 THEN last ELSE ss[i]]
  OBVIOUS
<1>7. /\ tt \in [0..(n + 1) -> Readers(S)] /\ tt[n + 1] = last /\ tt[n] = end
      /\ \A i \in 0..n : tt[i] = ss[i]
  BY <1>1, <1>4, <1>6 DEF Follows
<1>8. \A i \in 1..(n + 1) : i = n + 1 \/ (i \in 1..n /\ i - 1 \in 0..n)
  OBVIOUS
<1>9. \A i \in 1..n : i \in 1..(n + 1) /\ tt[i - 1] = ss[i - 1] /\ tt[i] = ss[i] /\ u[i] = q[i]
  BY <1>3, <1>7
<1>10. n + 1 \in 1..(n + 1) /\ (n + 1) - 1 = n
  OBVIOUS
<1>11. Follows(S, tt, r, u)
  <2>1. tt[0] = r
    BY <1>7 DEF Follows
  <2>2. \A i \in 1..n : tt[i] = Goes(tt[i - 1], u[i])
    BY <1>1, <1>9 DEF Follows
  <2>3. \A i \in 1..(n + 1) : tt[i] = Goes(tt[i - 1], u[i])
    BY <1>3, <1>5, <1>7, <1>8, <1>10, <2>2
  <2>4. QED
    BY <1>3, <1>7, <2>1, <2>3 DEF Follows
<1>12. \A p : Whole(ss, q, p) => Whole(tt, u, p)
  BY <1>1, <1>3, <1>9 DEF Whole
<1>13. t = Stop /\ end.state = "PKTSTOP1" => Whole(tt, u, end.pkt)
  BY <1>3, <1>7, <1>10 DEF Whole
<1>14. Clean(ss, q) /\ Returns(end, t) # -1 => Clean(tt, u)
  BY <1>1, <1>3, <1>7, <1>8, <1>9, <1>10 DEF Clean
<1>15. QED
  BY <1>1, <1>2, <1>3, <1>4, <1>5, <1>7, <1>11, <1>12, <1>13, <1>14

\* One token is read: what is received now was to be received.
LEMMA Advanced ==
  ASSUME NEW S, NEW ss, NEW r, NEW q \in Seq(Token(S)), Follows(S, ss, r, q), q # <<>>
  PROVE  /\ Head(q) \in Token(S) /\ Tail(q) \in Seq(Token(S)) /\ Len(Tail(q)) + 1 = Len(q) /\ r \in Readers(S)
         /\ Goes(r, Head(q)) \in Readers(S)
         /\ Clean(ss, q) => Returns(r, Head(q)) # -1
         /\ \E tt : /\ Follows(S, tt, Goes(r, Head(q)), Tail(q))
                    /\ tt[Len(Tail(q))] = ss[Len(q)]
                    /\ \A p : Whole(ss, q, p) => \/ Whole(tt, Tail(q), p)
                                                 \/ r.pkt = p /\ Returns(r, Head(q)) = 1
                    /\ Clean(ss, q) => Clean(tt, Tail(q))
<1>1. PICK n \in Nat : n + 1 = Len(q)
  <2>1. Len(q) \in Nat /\ Len(q) > 0
    OBVIOUS
  <2>2. Len(q) - 1 \in Nat /\ (Len(q) - 1) + 1 = Len(q)
    BY <2>1
  <2>3. QED
    BY <2>2
<1>2. PICK u \in Seq(Token(S)) : u = Tail(q)
  <2>1. Tail(q) \in Seq(Token(S))
    OBVIOUS
  <2>2. QED
    BY <2>1
<1>3. PICK t \in Token(S) : t = Head(q)
  OBVIOUS
<1>4. Len(u) = n /\ q[1] = t /\ \A i \in 1..n : u[i] = q[i + 1]
  BY <1>1, <1>2, <1>3
<1>5. /\ ss \in [0..(n + 1) -> Readers(S)] /\ r \in Readers(S) /\ ss[0] = r
      /\ \A i \in 1..(n + 1) : ss[i] = Goes(ss[i - 1], q[i])
  <2>1. /\ ss \in [0..(n + 1) -> Readers(S)] /\ ss[0] = r
        /\ \A i \in 1..(n + 1) : ss[i] = Goes(ss[i - 1], q[i])
    BY <1>1 DEF Follows
  <2>2. QED
    BY <2>1
<1>6. PICK tt : tt = [i \in 0..n |-> ss[i + 1]]
  OBVIOUS
<1>7. /\ tt \in [0..n -> Readers(S)] /\ \A i \in 0..n : tt[i] = ss[i + 1]
  BY <1>5, <1>6
<1>8. ss[1] = Goes(r, t) /\ tt[0] = ss[1] /\ tt[n] = ss[n + 1]
  BY <1>4, <1>5, <1>7
<1>9. \A i \in 1..n : i + 1 \in 1..(n + 1) /\ (i + 1) - 1 = i /\ tt[i] = ss[i + 1] /\ tt[i - 1] = ss[i] /\ u[i] = q[i + 1]
  BY <1>4, <1>7
<1>10. \A i \in 1..(n + 1) : i = 1 \/ (i - 1 \in 1..n /\ tt[(i - 1) - 1] = ss[i - 1] /\ u[i - 1] = q[i])
  <2> SUFFICES ASSUME NEW i \in 1..(n + 1), i # 1
               PROVE  i - 1 \in 1..n /\ tt[(i - 1) - 1] = ss[i - 1] /\ u[i - 1] = q[i]
    OBVIOUS
  <2>1. PICK j \in 1..n : j = i - 1 /\ i = j + 1
    OBVIOUS
  <2>2. QED
    BY <1>9, <2>1
<1>11. Follows(S, tt, Goes(r, t), u)
  <2>1. \A i \in 1..n : tt[i] = Goes(tt[i - 1], u[i])
    BY <1>5, <1>9
  <2>2. QED
    BY <1>4, <1>7, <1>8, <2>1 DEF Follows
<1>12. \A p : Whole(ss, q, p) => Whole(tt, u, p) \/ (r.pkt = p /\ Returns(r, t) = 1)
  <2> SUFFICES ASSUME NEW p, NEW i \in 1..(n + 1), q[i] = Stop, ss[i - 1].state = "PKTSTOP1", ss[i - 1].pkt = p
               PROVE  Whole(tt, u, p) \/ (r.pkt = p /\ Returns(r, t) = 1)
    BY <1>1 DEF Whole
  <2>1. CASE i = 1
    BY <1>4, <1>5, <2>1, Answers
  <2>2. CASE i # 1
    BY <1>4, <1>10, <2>2 DEF Whole
  <2>3. QED
    BY <2>1, <2>2
<1>13. Clean(ss, q) => Clean(tt, u) /\ Returns(r, t) # -1
  <2> SUFFICES ASSUME \A i \in 1..(n + 1) : Returns(ss[i - 1], q[i]) # -1
               PROVE  Clean(tt, u) /\ Returns(r, t) # -1
    BY <1>1 DEF Clean
  <2>1. Returns(ss[0], q[1]) # -1
    <3>1. 1 \in 1..(n + 1) /\ 1 - 1 = 0
      OBVIOUS
    <3>2. QED
      BY <3>1
  <2>2. \A i \in 1..n : Returns(tt[i - 1], u[i]) # -1
    BY <1>9
  <2>3. QED
    BY <1>4, <1>5, <2>1, <2>2 DEF Clean
<1>14. QED
  <2>1. Goes(r, t) \in Readers(S)
    BY <1>5, Read
  <2>2. QED
    BY <1>1, <1>2, <1>3, <1>4, <1>5, <1>8, <1>11, <1>12, <1>13, <2>1

\* An empty stream has nothing to receive and nothing to fail on.
LEMMA NothingToRead ==
  ASSUME NEW S, NEW r \in Readers(S)
  PROVE  \E ss : Follows(S, ss, r, <<>>) /\ ss[Len(<<>>)] = r /\ Clean(ss, <<>>)
<1>1. PICK ss : ss = [i \in 0..0 |-> r]
  OBVIOUS
<1>2. Len(<<>>) = 0 /\ 0 \in 0..0 /\ ss \in [0..0 -> Readers(S)] /\ ss[0] = r /\ 1..0 = {}
  BY <1>1
<1>3. QED
  BY <1>2 DEF Follows, Clean

\* A whole frame at once: a receiver that would wait for one will receive its
\* packet.
LEMMA FrameRead ==
  ASSUME NEW S, NEW ss, NEW r, NEW q \in Seq(Token(S)), Follows(S, ss, r, q), NEW p \in S
  PROVE  /\ q \o Frame(p) \in Seq(Token(S)) /\ Len(q \o Frame(p)) = Len(q) + 3 /\ Len(q) \in Nat
         /\ \E tt : /\ Follows(S, tt, r, q \o Frame(p))
                    /\ \A o : Whole(ss, q, o) => Whole(tt, q \o Frame(p), o)
                    /\ ss[Len(q)].state = "PKTSTART1" =>
                         /\ Whole(tt, q \o Frame(p), p) /\ tt[Len(q \o Frame(p))].state = "PKTSTART1"
                         /\ Clean(ss, q) => Clean(tt, q \o Frame(p))
<1>1. PICK t1, t2, t3 \in Token(S) :
        /\ t1 = Start /\ t2 = Data(p) /\ t3 = Stop
        /\ t1 # t3 /\ t1 # t2 /\ t2 # t3 /\ t2.pkt = p
  <2>1. Start \in Token(S) /\ Data(p) \in Token(S) /\ Stop \in Token(S)
    BY DEF Token
  <2>2. Start # Stop /\ Data(p) # Start /\ Data(p) # Stop /\ Data(p).pkt = p
    BY <2>1, Kinds
  <2>3. QED
    BY <2>1, <2>2
<1>2. PICK u1 \in Seq(Token(S)) : u1 = Append(q, t1) /\ Len(u1) = Len(q) + 1
  <2>1. Append(q, t1) \in Seq(Token(S)) /\ Len(Append(q, t1)) = Len(q) + 1
    OBVIOUS
  <2>2. QED
    BY <2>1
<1>3. PICK u2 \in Seq(Token(S)) : u2 = Append(u1, t2) /\ Len(u2) = Len(u1) + 1
  <2>1. Append(u1, t2) \in Seq(Token(S)) /\ Len(Append(u1, t2)) = Len(u1) + 1
    OBVIOUS
  <2>2. QED
    BY <2>1
<1>4. PICK u3 \in Seq(Token(S)) : u3 = Append(u2, t3) /\ Len(u3) = Len(u2) + 1
  <2>1. Append(u2, t3) \in Seq(Token(S)) /\ Len(Append(u2, t3)) = Len(u2) + 1
    OBVIOUS
  <2>2. QED
    BY <2>1
<1>5. q \o Frame(p) = u3
  BY <1>1, <1>2, <1>3, <1>4 DEF Frame
<1>6. PICK s0 \in Readers(S) : s0 = ss[Len(q)]
  BY <1>1, Extended
<1>7. PICK s1 \in Readers(S) : s1 = Goes(s0, t1) /\ (s0.state = "PKTSTART1" => s1.state = "PKTRECV" /\ Returns(s0, t1) = 0)
  BY <1>1, Read, Answers
<1>8. PICK s2 \in Readers(S) : s2 = Goes(s1, t2) /\ (s0.state = "PKTSTART1" => s2.state = "PKTSTOP1" /\ s2.pkt = p /\ Returns(s1, t2) = 0)
  BY <1>1, <1>7, Read, Answers
<1>9. PICK s3 \in Readers(S) : s3 = Goes(s2, t3) /\ (s0.state = "PKTSTART1" => s3.state = "PKTSTART1" /\ Returns(s2, t3) = 1)
  BY <1>1, <1>8, Read, Answers
<1>10. PICK x : /\ Follows(S, x, r, u1) /\ x[Len(u1)] = s1
                /\ \A o : Whole(ss, q, o) => Whole(x, u1, o)
                /\ Clean(ss, q) /\ s0.state = "PKTSTART1" => Clean(x, u1)
  BY <1>2, <1>6, <1>7, Extended
<1>11. PICK y : /\ Follows(S, y, r, u2) /\ y[Len(u2)] = s2
                /\ \A o : Whole(x, u1, o) => Whole(y, u2, o)
                /\ Clean(x, u1) /\ s0.state = "PKTSTART1" => Clean(y, u2)
  BY <1>3, <1>8, <1>10, Extended
<1>12. PICK z : /\ Follows(S, z, r, u3) /\ z[Len(u3)] = s3
                /\ \A o : Whole(y, u2, o) => Whole(z, u3, o)
                /\ s0.state = "PKTSTART1" => Whole(z, u3, p)
                /\ Clean(y, u2) /\ s0.state = "PKTSTART1" => Clean(z, u3)
  BY <1>1, <1>4, <1>8, <1>9, <1>11, Extended
<1>13. Len(u3) = Len(q) + 3 /\ Len(q) \in Nat
  BY <1>2, <1>3, <1>4
<1>14. QED
  BY <1>5, <1>6, <1>9, <1>10, <1>11, <1>12, <1>13

\* A packet that will be received is in the stream, or half read.
LEMMA WholeOnWay ==
  ASSUME NEW S, NEW ss, NEW r, NEW q \in Seq(Token(S)), Follows(S, ss, r, q), NEW p, Whole(ss, q, p)
  PROVE  (\E i \in DOMAIN q : q[i].pkt = p) \/ (r.state = "PKTSTOP1" /\ r.pkt = p)
<1>1. PICK i \in 1..Len(q) : q[i] = Stop /\ ss[i - 1].state = "PKTSTOP1" /\ ss[i - 1].pkt = p
  BY DEF Whole
<1>2. CASE i = 1
  BY <1>1, <1>2 DEF Follows
<1>3. CASE i # 1
  <2>1. PICK j \in 1..Len(q) : j = i - 1 /\ j - 1 \in 0..Len(q)
    BY <1>3
  <2>2. ss[j] = Goes(ss[j - 1], q[j]) /\ ss[j - 1] \in Readers(S) /\ q[j] \in Token(S) /\ j \in DOMAIN q
    BY <2>1 DEF Follows
  <2>3. q[j].pkt = p
    BY <1>1, <2>1, <2>2, Read
  <2>4. QED
    BY <2>2, <2>3
<1>4. QED
  BY <1>2, <1>3

-----------------------------------------------------------------------------
(* SonSipLink: one send() of a frame                                       *)

\* The threads of one process, and who belongs to it.
LEMMA Processes ==
  /\ Listener \cap Sender = {} /\ Writer = Listener \cup Sender /\ "signal" \notin Listener /\ "signal" \notin Sender
  /\ \A w \in Listener : \A k : Inside(w, k) = {v \in Listener \ {w} : writer[v].part > 1 /\ writer[v].on = k}
  /\ \A w, k : w \notin Listener => Inside(w, k) = {v \in Sender \ {w} : writer[v].part > 1 /\ writer[v].on = k}
BY LinkAssumption DEF Sender, Writer, Inside

\* The writers after a send() of w, one of the threads W of a process, on
\* connection k.
Sent(W, w, k) ==
  /\ writer' \in [Writer -> WriterState]
  /\ \A v \in Writer : v \notin W => writer'[v] = writer[v]
  /\ \A v \in W : v # w => /\ writer'[v].part = writer[v].part /\ writer'[v].on = writer[v].on
                           /\ writer'[v].pkt = writer[v].pkt /\ (writer'[v].alone => writer[v].alone)
                           /\ writer[v].part > 1 /\ writer[v].on = k => ~writer'[v].alone
                           /\ Inside(w, k) = {} => writer'[v] = writer[v]
  /\ writer[w].part = 3 => writer'[w] = Idle
  /\ writer[w].part # 3 => /\ writer'[w].part = writer[w].part + 1 /\ writer'[w].on = k
                           /\ writer'[w].pkt = writer[w].pkt
                           /\ writer'[w].alone => writer[w].alone /\ Inside(w, k) = {} /\ writer[w].on = k
                           /\ writer[w].alone /\ Inside(w, k) = {} /\ writer[w].on = k => writer'[w].alone
  /\ \/ lone' = lone
     \/ /\ lone' = lone \cup {<<writer[w].pkt, k>>} /\ writer[w].part = 3
        /\ writer[w].alone /\ Inside(w, k) = {} /\ writer[w].on = k
  /\ torn' = (IF w \in Sender /\ Inside(w, k) # {} THEN torn \cup {k} ELSE torn)

\* That is what Wrote does.
LEMMA Written ==
  ASSUME LinkTypes, NEW W, W = Listener \/ W = Sender, NEW w \in W, NEW k \in 1..sips, writer[w].part > 0, Wrote(w, k)
  PROVE  Sent(W, w, k)
<1>1. PICK cut \in SUBSET W : cut = Inside(w, k) /\ cut = {v \in W \ {w} : writer[v].part > 1 /\ writer[v].on = k}
  BY Processes
<1>2. PICK alone \in BOOLEAN : alone <=> (writer[w].alone /\ cut = {} /\ writer[w].on = k)
  OBVIOUS
<1>3. /\ W \subseteq Writer /\ w \in Writer /\ writer[w] \in WriterState /\ k \in 0..MaxSips
      /\ \A v \in Writer : writer[v] \in WriterState
  BY Processes, LinkAssumption DEF LinkTypes
<1>4. Idle \in WriterState
  BY LinkAssumption DEF WriterState, Idle
<1>5. PICK next : next = IF writer[w].part = 3 THEN Idle
                         ELSE [part |-> writer[w].part + 1, pkt |-> writer[w].pkt, on |-> k, alone |-> alone]
  OBVIOUS
<1>6. next \in WriterState
  BY <1>3, <1>4, <1>5 DEF WriterState
<1>7. \A v \in Writer : [writer[v] EXCEPT !.alone = FALSE] \in WriterState
  BY <1>3 DEF WriterState
<1>8. writer' = [v \in Writer |-> IF v = w THEN next
                                  ELSE IF v \in cut THEN [writer[v] EXCEPT !.alone = FALSE] ELSE writer[v]]
  <2>1. alone = (writer[w].alone /\ cut = {} /\ writer[w].on = k)
    BY <1>2, <1>3, Zenon DEF WriterState
  <2>2. QED
    BY <1>1, <1>5, <2>1, Zenon DEF Wrote
<1>9. writer' \in [Writer -> WriterState]
  BY <1>3, <1>6, <1>7, <1>8
<1>10. \A v \in Writer : v \notin W => writer'[v] = writer[v]
  BY <1>8
<1>11. \A v \in W : v # w => writer'[v] = IF v \in cut THEN [writer[v] EXCEPT !.alone = FALSE] ELSE writer[v]
  BY <1>3, <1>8
<1>12. \A v \in W : v # w => /\ writer'[v].part = writer[v].part /\ writer'[v].on = writer[v].on
                             /\ writer'[v].pkt = writer[v].pkt /\ (writer'[v].alone => writer[v].alone)
                             /\ writer[v].part > 1 /\ writer[v].on = k => ~writer'[v].alone
                             /\ Inside(w, k) = {} => writer'[v] = writer[v]
  <2> SUFFICES ASSUME NEW v \in W, v # w
               PROVE  /\ writer'[v].part = writer[v].part /\ writer'[v].on = writer[v].on
                      /\ writer'[v].pkt = writer[v].pkt /\ (writer'[v].alone => writer[v].alone)
                      /\ writer[v].part > 1 /\ writer[v].on = k => ~writer'[v].alone
                      /\ Inside(w, k) = {} => writer'[v] = writer[v]
    OBVIOUS
  <2>1. writer[v] \in WriterState
    BY <1>3
  <2>2. CASE v \in cut
    <3>1. writer'[v] = [writer[v] EXCEPT !.alone = FALSE]
      BY <1>11, <2>2
    <3>2. QED
      BY <1>1, <2>1, <2>2, <3>1 DEF WriterState
  <2>3. CASE v \notin cut
    BY <1>1, <1>11, <2>3
  <2>4. QED
    BY <2>2, <2>3
<1>13. writer'[w] = next
  BY <1>3, <1>8
<1>14. writer[w].part = 3 => writer'[w] = Idle
  BY <1>5, <1>13
<1>15. writer[w].part # 3 => /\ writer'[w].part = writer[w].part + 1 /\ writer'[w].on = k
                             /\ writer'[w].pkt = writer[w].pkt
                             /\ writer'[w].alone => writer[w].alone /\ Inside(w, k) = {} /\ writer[w].on = k
                             /\ writer[w].alone /\ Inside(w, k) = {} /\ writer[w].on = k => writer'[w].alone
  BY <1>1, <1>2, <1>5, <1>13
<1>16. \/ lone' = lone
       \/ /\ lone' = lone \cup {<<writer[w].pkt, k>>} /\ writer[w].part = 3
          /\ writer[w].alone /\ Inside(w, k) = {} /\ writer[w].on = k
  BY Zenon DEF Wrote
<1>17. torn' = (IF w \in Sender /\ Inside(w, k) # {} THEN torn \cup {k} ELSE torn)
  BY Zenon DEF Wrote
<1>18. QED
  BY <1>9, <1>10, <1>12, <1>14, <1>15, <1>16, <1>17 DEF Sent

\* The token of a send().
LEMMA PartToken ==
  ASSUME NEW x \in WriterState, x.part > 0, x.pkt \in Pkt
  PROVE  /\ Part(x.part, x.pkt) \in Token(Pkt)
         /\ x.part = 1 => Part(x.part, x.pkt) = Start
         /\ x.part = 2 => Part(x.part, x.pkt) = Data(x.pkt)
         /\ x.part = 3 => Part(x.part, x.pkt) = Stop
         /\ x.part \in {1, 2, 3}
<1>1. x.part \in {1, 2, 3}
  BY DEF WriterState
<1>2. x.part = 1 => Part(x.part, x.pkt) = Start
  BY DEF Part
<1>3. x.part = 2 => Part(x.part, x.pkt) = Data(x.pkt)
  BY DEF Part
<1>4. x.part = 3 => Part(x.part, x.pkt) = Stop
  BY DEF Part
<1>5. QED
  BY <1>1, <1>2, <1>3, <1>4 DEF Token

\* A send() of w on connection k, whose stream was q and is u now: the stream is
\* still explained by the writers, all that was to be received still is, and a
\* frame that is finished without an overlap will be received too.
GoesOn(W, w, k, ss, r, q, tt, u) ==
  /\ Follows(Pkt, tt, r, u) /\ Explains(tt[Len(u)], W, k, writer')
  /\ \A p : Whole(ss, q, p) => Whole(tt, u, p)
  /\ lone' = lone \/ (lone' = lone \cup {<<writer[w].pkt, k>>} /\ Whole(tt, u, writer[w].pkt))
  /\ Clean(ss, q) /\ writer[w].alone /\ writer[w].on = k /\ Inside(w, k) = {} => Clean(tt, u)

\* That is what Wrote does.
LEMMA Continues ==
  ASSUME LinkTypes, NEW W, W = Listener \/ W = Sender, NEW w \in W, NEW k \in 1..sips,
         writer[w].part > 0, writer[w].pkt \in Pkt, Wrote(w, k),
         NEW ss, NEW r, NEW q \in Seq(Token(Pkt)), Follows(Pkt, ss, r, q), Explains(ss[Len(q)], W, k, writer),
         NEW u, u = Append(q, Part(writer[w].part, writer[w].pkt))
  PROVE  \E tt : GoesOn(W, w, k, ss, r, q, tt, u)
<1> Sent(W, w, k)
  BY Written
<1>1. PICK x \in WriterState : x = writer[w]
  BY Processes DEF LinkTypes
<1>2. PICK t \in Token(Pkt) : /\ t = Part(writer[w].part, writer[w].pkt) /\ x.part \in {1, 2, 3}
                              /\ x.part = 1 => t = Start
                              /\ x.part = 2 => t # Start /\ t # Stop /\ t.is = "pkt" /\ t.pkt = x.pkt
                              /\ x.part = 3 => t = Stop
  <2>1. Data(x.pkt).is = "pkt" /\ Data(x.pkt).pkt = x.pkt /\ Start.is # "pkt" /\ Stop.is # "pkt"
    BY <1>1, PartToken, Kinds DEF Token
  <2>2. QED
    BY <1>1, <2>1, PartToken
<1>3. u = Append(q, t)
  BY <1>2
<1>4. PICK end \in Readers(Pkt) : end = ss[Len(q)]
  BY <1>2, Extended
<1>5. PICK tt : /\ Follows(Pkt, tt, r, u) /\ tt[Len(u)] = Goes(end, t)
                /\ \A p : Whole(ss, q, p) => Whole(tt, u, p)
                /\ t = Stop /\ end.state = "PKTSTOP1" => Whole(tt, u, end.pkt)
                /\ Clean(ss, q) /\ Returns(end, t) # -1 => Clean(tt, u)
  BY <1>2, <1>3, <1>4, Extended
<1>6. PICK next \in Readers(Pkt) : next = Goes(end, t)
  BY Read
<1>7. /\ end.state \in {"PKTRECV", "GARBLED"} => \E v \in W : writer[v].on = k /\ writer[v].part = 2
      /\ end.state = "PKTSTOP1" => \E v \in W : writer[v].on = k /\ writer[v].part = 3
      /\ \A v \in W : writer[v].alone /\ writer[v].on = k =>
           /\ writer[v].part = 2 => end.state = "PKTRECV"
           /\ writer[v].part = 3 => end.state = "PKTSTOP1" /\ end.pkt = writer[v].pkt
  BY <1>4 DEF Explains
<1>8. x.part = 1 /\ Inside(w, k) = {} => end.state = "PKTSTART1"
  <2>1. Inside(w, k) = {v \in W \ {w} : writer[v].part > 1 /\ writer[v].on = k}
    BY Processes
  <2>2. end.state \in {"PKTSTART1", "PKTRECV", "GARBLED", "PKTSTOP1"}
    BY DEF Readers
  <2>3. \A v \in W : writer[v].on = k /\ writer[v].part \in {2, 3} /\ v # w => v \in Inside(w, k)
    BY <2>1
  <2>4. QED
    BY <1>1, <1>7, <2>2, <2>3
<1>9. /\ t = Start => next.state = (CASE end.state = "PKTSTART1" -> "PKTRECV"
                                      [] end.state \in {"PKTRECV", "GARBLED"} -> "GARBLED"
                                      [] OTHER -> "PKTSTART1")
      /\ t = Stop => next.state = IF end.state \in {"PKTRECV", "GARBLED"} THEN "GARBLED" ELSE "PKTSTART1"
      /\ t # Start /\ t # Stop => next.state = IF end.state = "PKTRECV" THEN "PKTSTOP1" ELSE "PKTSTART1"
      /\ next.state = "PKTSTOP1" => t.pkt = next.pkt /\ t # Start /\ t # Stop
      /\ Start # Stop
  BY <1>6, Read, Kinds
<1>10. x.part = 1 \/ x.part = 2 \/ x.part = 3
  BY <1>2
<1>11. Explains(tt[Len(u)], W, k, writer')
  <2>1. next.state \in {"PKTRECV", "GARBLED"} => \E v \in W : writer'[v].on = k /\ writer'[v].part = 2
    <3>1. CASE x.part = 1
      BY <1>1, <3>1 DEF Sent
    <3>2. CASE x.part = 2
      BY <1>2, <1>9, <3>2
    <3>3. CASE x.part = 3
      <4>1. next.state \in {"PKTRECV", "GARBLED"} => end.state \in {"PKTRECV", "GARBLED"}
        BY <1>2, <1>9, <3>3
      <4>2. \A v \in W : writer[v].on = k /\ writer[v].part = 2 => writer'[v].on = k /\ writer'[v].part = 2
        BY <1>1, <3>3 DEF Sent
      <4>3. QED
        BY <1>7, <4>1, <4>2
    <3>4. QED
      BY <1>10, <3>1, <3>2, <3>3
  <2>2. next.state = "PKTSTOP1" => \E v \in W : writer'[v].on = k /\ writer'[v].part = 3
    <3>1. next.state = "PKTSTOP1" => x.part = 2
      BY <1>2, <1>9, <1>10
    <3>2. x.part = 2 => writer'[w].on = k /\ writer'[w].part = 3
      BY <1>1 DEF Sent
    <3>3. QED
      BY <3>1, <3>2
  <2>3. \A v \in W : writer'[v].alone /\ writer'[v].on = k =>
          /\ writer'[v].part = 2 => next.state = "PKTRECV"
          /\ writer'[v].part = 3 => next.state = "PKTSTOP1" /\ next.pkt = writer'[v].pkt
    <3> SUFFICES ASSUME NEW v \in W, writer'[v].alone, writer'[v].on = k, writer'[v].part \in {2, 3}
                 PROVE  /\ writer'[v].part = 2 => next.state = "PKTRECV"
                        /\ writer'[v].part = 3 => next.state = "PKTSTOP1" /\ next.pkt = writer'[v].pkt
      OBVIOUS
    <3>1. v = w
      <4>1. v # w => writer[v].part > 1 /\ writer[v].on = k
        BY DEF Sent
      <4>2. QED
        BY <4>1 DEF Sent
    <3>2. x.part # 3
      BY <1>1, <3>1 DEF Sent, Idle
    <3>3. writer'[w].part = x.part + 1 /\ writer'[w].pkt = x.pkt /\ x.alone /\ Inside(w, k) = {} /\ x.on = k
      BY <1>1, <3>1, <3>2 DEF Sent
    <3>4. CASE x.part = 1
      BY <1>2, <1>8, <1>9, <3>1, <3>3, <3>4
    <3>5. CASE x.part = 2
      <4>1. end.state = "PKTRECV"
        BY <1>1, <1>7, <3>3, <3>5
      <4>2. next.state = "PKTSTOP1" /\ next.pkt = x.pkt
        BY <1>2, <1>9, <3>5, <4>1
      <4>3. QED
        BY <3>1, <3>3, <3>5, <4>2
    <3>6. QED
      BY <1>10, <3>2, <3>4, <3>5
  <2>4. tt[Len(u)] = next
    BY <1>5, <1>6
  <2>5. Explains(next, W, k, writer')
    BY <2>1, <2>2, <2>3 DEF Explains
  <2>6. QED
    BY <2>4, <2>5
<1>12. lone' = lone \/ (lone' = lone \cup {<<writer[w].pkt, k>>} /\ Whole(tt, u, writer[w].pkt))
  <2>1. x.part = 3 /\ x.alone /\ x.on = k => Whole(tt, u, x.pkt)
    BY <1>1, <1>2, <1>5, <1>7
  <2>2. QED
    BY <1>1, <2>1 DEF Sent
<1>13. Clean(ss, q) /\ writer[w].alone /\ writer[w].on = k /\ Inside(w, k) = {} => Clean(tt, u)
  <2> SUFFICES ASSUME Clean(ss, q), x.alone, x.on = k, Inside(w, k) = {} PROVE Returns(end, t) # -1
    BY <1>1, <1>5
  <2>1. CASE x.part = 1
    BY <1>8, <2>1, Answers
  <2>2. CASE x.part = 2
    BY <1>1, <1>7, <2>2, Answers
  <2>3. CASE x.part = 3
    BY <1>1, <1>2, <1>7, <2>3, Answers
  <2>4. QED
    BY <1>10, <2>1, <2>2, <2>3
<1>14. QED
  BY <1>2, <1>3, <1>5, <1>11, <1>12, <1>13 DEF GoesOn

-----------------------------------------------------------------------------
(* SonSipLink: what a step leaves alone                                    *)

\* A thread that is inside no frame on connection k, before the step and after it,
\* or that the step leaves alone.
Quiet(w, k) ==
  \/ writer'[w] = writer[w]
  \/ /\ writer[w].on # k \/ writer[w].part \in {0, 1}
     /\ writer'[w].on # k \/ writer'[w].part \in {0, 1}

LEMMA ExplainsKept ==
  ASSUME NEW W, NEW k, NEW end, Explains(end, W, k, writer), \A w \in W : Quiet(w, k)
  PROVE  Explains(end, W, k, writer')
<1>1. \A w \in W : writer[w].on = k /\ writer[w].part \in {2, 3} => writer'[w] = writer[w]
  BY DEF Quiet
<1>2. \A w \in W : writer'[w].on = k /\ writer'[w].part \in {2, 3} => writer'[w] = writer[w]
  BY DEF Quiet
<1>3. end.state \in {"PKTRECV", "GARBLED"} => \E w \in W : writer'[w].on = k /\ writer'[w].part = 2
  BY <1>1 DEF Explains
<1>4. end.state = "PKTSTOP1" => \E w \in W : writer'[w].on = k /\ writer'[w].part = 3
  BY <1>1 DEF Explains
<1>5. \A w \in W : writer'[w].alone /\ writer'[w].on = k =>
        /\ writer'[w].part = 2 => end.state = "PKTRECV"
        /\ writer'[w].part = 3 => end.state = "PKTSTOP1" /\ end.pkt = writer'[w].pkt
  BY <1>2 DEF Explains
<1>6. QED
  BY <1>3, <1>4, <1>5 DEF Explains

\* What pkthandler will read stays so when no token is put or taken.
LEMMA SipRunKept ==
  ASSUME LinkInv, UNCHANGED <<sips, sipReader>>, son_conn' => son_conn /\ toSip'[sips] = toSip[sips],
         \A f \in lone' : f \in lone \/ f[2] # sips \/ f[1][1] # "in",
         got \subseteq got',
         sonAlive' => sonAlive,
         son_conn' /\ sonAlive' /\ sip_conn' = sips => sip_conn = sips /\ \A l \in Listener : Quiet(l, sips)
  PROVE  SipRun'
<1> SUFFICES ASSUME son_conn'
             PROVE  \E ss : Follows(Pkt, ss, sipReader, toSip[sips]) /\ SipReads(ss)'
  BY DEF SipRun
<1>1. PICK ss : Follows(Pkt, ss, sipReader, toSip[sips]) /\ SipReads(ss)
  BY DEF LinkInv, SipRun
<1>2. \A f \in lone' : f[2] = sips /\ f[1][1] = "in" => f[1] \in got' \/ Whole(ss, toSip[sips], f[1])
  BY <1>1 DEF SipReads
<1>3. sonAlive' /\ sip_conn' = sips => Explains(ss[Len(toSip[sips])], Listener, sips, writer')
  BY <1>1, ExplainsKept DEF SipReads
<1>4. QED
  BY <1>1, <1>2, <1>3 DEF SipReads

\* One connection of those waitSIP will read.
LEMMA SonReadsKept ==
  ASSUME LinkInv, sonAlive, NEW k \in 1..sips, k \notin shut, UNCHANGED sips,
         toSon'[k] = toSon[k],
         \A f \in lone' : f \in lone \/ f[2] # k \/ f[1][1] # "out",
         got \subseteq got', torn \subseteq torn',
         son_conn' /\ k = sips => son_conn /\ \A s \in Sender : Quiet(s, sips)
  PROVE  \E ss : Follows(Pkt, ss, SonAt(k), toSon[k]) /\ SonReads(ss, k)'
<1>1. PICK ss : Follows(Pkt, ss, SonAt(k), toSon[k]) /\ SonReads(ss, k)
  BY DEF LinkInv, SonRun
<1>2. \A f \in lone' : f[2] = k /\ f[1][1] = "out" => f[1] \in got' \/ Whole(ss, toSon[k], f[1])
  BY <1>1 DEF SonReads
<1>3. k = sips /\ son_conn' => Explains(ss[Len(toSon[k])], Sender, k, writer')
  BY <1>1, ExplainsKept DEF SonReads
<1>4. k \notin torn' => Clean(ss, toSon[k])
  BY <1>1 DEF SonReads
<1>5. QED
  BY <1>1, <1>2, <1>3, <1>4 DEF SonReads

\* All of them.
LEMMA SonRunKept ==
  ASSUME LinkInv, UNCHANGED sips, sonAlive' => sonAlive,
         \A k \in 1..sips : k \notin shut' => k \notin shut /\ SonAt(k)' = SonAt(k) /\ toSon'[k] = toSon[k],
         \A f \in lone' : f \in lone \/ f[2] \in shut' \/ f[1][1] # "out",
         got \subseteq got', torn \subseteq torn',
         son_conn' => son_conn /\ \A s \in Sender : Quiet(s, sips)
  PROVE  SonRun'
<1> SUFFICES ASSUME sonAlive', NEW k \in 1..sips, k \notin shut'
             PROVE  \E ss : Follows(Pkt, ss, SonAt(k)', toSon'[k]) /\ SonReads(ss, k)'
  BY DEF SonRun
<1>1. \A f \in lone' : f \in lone \/ f[2] # k \/ f[1][1] # "out"
  OBVIOUS
<1>2. QED
  BY <1>1, SonReadsKept

\* A step that begins a frame, or gives one up.
LEMMA WriterChanged ==
  ASSUME LinkTypes, NEW w \in Writer, NEW x \in WriterState, writer' = [writer EXCEPT ![w] = x]
  PROVE  /\ writer' \in [Writer -> WriterState] /\ writer'[w] = x
         /\ \A v \in Writer : v # w => writer'[v] = writer[v]
BY DEF LinkTypes

-----------------------------------------------------------------------------
(* SonSipLink: the invariant                                               *)

\* At first there is no connection and no SIP process.
LEMMA LinkInitInv == LinkInit => LinkInv
<1> SUFFICES ASSUME LinkInit PROVE LinkInv
  OBVIOUS
<1>1. /\ Idle \in WriterState /\ Idle.part = 0 /\ Idle.on = 0 /\ AtStart \in Readers(Pkt)
      /\ <<>> \in Seq(Token(Pkt)) /\ MaxSips \in Nat /\ 1..0 = {}
  BY LinkAssumption DEF Idle, WriterState, Readers, AtStart
<1>2. LinkTypes
  <2>1. sonAlive \in BOOLEAN /\ son_conn \in BOOLEAN /\ outside \in SUBSET {"SON", "SIP"}
    BY DEF LinkInit
  <2>2. sip \in {"off", "up"} /\ sips \in Nat /\ sips <= MaxSips /\ sip_conn \in 0..sips
    BY <1>1 DEF LinkInit
  <2>3. shut \in SUBSET (1..sips) /\ torn \in SUBSET (1..sips) /\ returned \in SUBSET Sender /\ frames \in Nat
    BY DEF LinkInit
  <2>4. toSip \in [1..MaxSips -> Seq(Token(Pkt))] /\ toSon \in [1..MaxSips -> Seq(Token(Pkt))]
    BY <1>1 DEF LinkInit
  <2>5. writer \in [Writer -> WriterState] /\ sipReader \in Readers(Pkt) /\ sonReader \in Readers(Pkt)
    BY <1>1 DEF LinkInit
  <2>6. lone \in SUBSET (Pkt \X (1..sips))
    BY DEF LinkInit
  <2>7. QED
    BY <2>1, <2>2, <2>3, <2>4, <2>5, <2>6 DEF LinkTypes
<1>3. Places
  BY <1>1, Processes DEF LinkInit, Places
<1>4. SipRun /\ SonRun /\ ClosedLate /\ KilledExplained
  BY <1>1, Processes DEF LinkInit, SipRun, SonRun, ClosedLate, KilledExplained
<1>5. QED
  BY <1>2, <1>3, <1>4 DEF LinkInv

\* waitSIP accepts the next connection, on which nothing was sent to SIP yet.
LEMMA AcceptInv == ASSUME LinkInv, AcceptSip PROVE LinkInv'
<1> USE DEF LinkInv
<1>1. PICK k \in 1..sips : k \notin shut /\ sip_conn' = k
  BY DEF AcceptSip
<1>2. /\ sip_conn = 0 /\ sonReader' = AtStart /\ sonAlive
      /\ UNCHANGED <<sonAlive, shut, sip, sips, son_conn, sipReader, returned, outside, toSip, toSon, writer, lone, torn, frames, got>>
  BY DEF AcceptSip, sipVars, streams, threads
<1>3. AtStart \in Readers(Pkt)
  BY DEF Readers, AtStart
<1>4. LinkTypes'
  BY <1>1, <1>2, <1>3 DEF LinkTypes
<1>5. Places'
  BY <1>1, <1>2 DEF Places
<1>6. SipRun'
  <2>1. CASE son_conn /\ k = sips
    <3>1. sips \in 1..MaxSips /\ toSip[sips] = <<>> /\ sipReader = AtStart
      BY <1>1, <1>2, <2>1, LinkAssumption DEF Places, LinkTypes
    <3>2. PICK ss : Follows(Pkt, ss, sipReader, toSip[sips]) /\ SipReads(ss)
      BY <2>1 DEF SipRun
    <3>3. ss[Len(toSip[sips])].state = "PKTSTART1"
      <4>1. Len(<<>>) = 0
        OBVIOUS
      <4>2. ss[Len(toSip[sips])] = AtStart
        BY <3>1, <3>2, <4>1 DEF Follows
      <4>3. QED
        BY <4>2 DEF AtStart
    <3>4. \A l \in Listener : writer[l].on # sips
      BY <1>1, <1>2, <2>1 DEF Places
    <3>5. Explains(ss[Len(toSip[sips])], Listener, sips, writer')
      BY <1>2, <3>3, <3>4 DEF Explains
    <3>6. SipReads(ss)'
      BY <1>2, <3>2, <3>5 DEF SipReads
    <3>7. QED
      BY <1>2, <3>2, <3>6 DEF SipRun
  <2>2. CASE ~(son_conn /\ k = sips)
    BY <1>1, <1>2, <2>2, SipRunKept
  <2>3. QED
    BY <2>1, <2>2
<1>7. SonRun'
  <2>1. \A j \in 1..sips : SonAt(j)' = SonAt(j)
    BY <1>2 DEF SonAt
  <2>2. QED
    BY <1>2, <2>1, SonRunKept DEF Quiet
<1>8. ClosedLate' /\ KilledExplained'
  BY <1>2 DEF ClosedLate, KilledExplained, SipHasGone
<1>9. QED
  BY <1>4, <1>5, <1>6, <1>7, <1>8

\* A thread of one of the two processes has a packet to send.
LEMMA BeginInv ==
  ASSUME LinkInv, (\E l \in Listener : Arrives(l)) \/ \E s \in Sender : Begin(s)
  PROVE  LinkInv'
<1> USE DEF LinkInv
<1>1. PICK w \in Writer, dir \in {"in", "out"}, k \in 0..MaxSips :
        /\ writer[w].part = 0 /\ Begins(w, <<dir, frames + 1>>, k)
        /\ w \in Listener => dir = "in" /\ k = sip_conn /\ w \notin Sender
        /\ w \in Sender => dir = "out" /\ k = sips /\ sip = "up" /\ w \notin Listener
        /\ UNCHANGED <<sonAlive, sip_conn, shut, sonReader, sip, sips, son_conn, sipReader, returned, outside, toSip, toSon, got>>
        /\ frames' = frames + 1
  <2>1. CASE \E l \in Listener : Arrives(l)
    <3>1. PICK l \in Listener : Arrives(l)
      BY <2>1
    <3>2. l \in Writer /\ l \notin Sender /\ sip_conn \in 0..MaxSips
      BY Processes, LinkAssumption DEF LinkTypes
    <3>3. QED
      BY <3>1, <3>2 DEF Arrives, sonVars, sipVars, streams
  <2>2. CASE \E s \in Sender : Begin(s)
    <3>1. PICK s \in Sender : Begin(s)
      BY <2>2
    <3>2. s \in Writer /\ s \notin Listener /\ sips \in 0..MaxSips
      BY Processes, LinkAssumption DEF LinkTypes
    <3>3. QED
      BY <3>1, <3>2 DEF Begin, sonVars, sipVars, streams
  <2>3. QED
    BY <2>1, <2>2
<1>2. PICK p \in {dir} \X Nat : p = <<dir, frames + 1>> /\ p \in Pkt
  <2>1. PICK n \in Nat : n = frames + 1
    BY DEF LinkTypes
  <2>2. <<dir, n>> \in {dir} \X Nat /\ <<dir, n>> \in {"in", "out"} \X Nat
    OBVIOUS
  <2>3. QED
    BY <2>1, <2>2 DEF Pkt
<1>3. PICK x \in WriterState : x.part = 1 /\ x.pkt = p /\ x.on = k /\ x.alone = TRUE /\ writer' = [writer EXCEPT ![w] = x]
  <2>1. [part |-> 1, pkt |-> p, on |-> k, alone |-> TRUE] \in WriterState
    BY <1>2 DEF WriterState
  <2>2. QED
    BY <1>1, <1>2, <2>1 DEF Begins
<1>4. UNCHANGED <<lone, torn>>
  BY <1>1 DEF Begins
<1>5. writer' \in [Writer -> WriterState] /\ writer'[w] = x /\ \A v \in Writer : v # w => writer'[v] = writer[v]
  BY <1>3, WriterChanged
<1>6. \A v \in Writer : \A j : Quiet(v, j)
  BY <1>1, <1>3, <1>5 DEF Quiet
<1>7. LinkTypes'
  BY <1>1, <1>4, <1>5 DEF LinkTypes
<1>8. Places'
  <2>1. \A v \in Writer : writer'[v].on <= sips
    <3>1. k <= sips
      BY <1>1, Processes DEF LinkTypes
    <3>2. QED
      BY <1>3, <1>5, <3>1 DEF Places
  <2>2. \A l \in Listener : writer'[l].on \in shut \cup {sip_conn, 0} /\ (writer'[l].part > 0 => writer'[l].pkt \in {"in"} \X Nat)
    BY <1>1, <1>2, <1>3, <1>5, Processes DEF Places
  <2>3. \A s \in Sender : writer'[s].part > 0 => writer'[s].on = sips /\ writer'[s].pkt \in {"out"} \X Nat
    BY <1>1, <1>2, <1>3, <1>5, Processes DEF Places
  <2>4. sip = "off" => sipReader = AtStart /\ \A s \in Sender : writer'[s] = Idle
    BY <1>1, <1>5, Processes DEF Places
  <2>5. QED
    BY <1>1, <1>4, <2>1, <2>2, <2>3, <2>4 DEF Places
<1>9. SipRun'
  BY <1>1, <1>4, <1>6, Processes, SipRunKept
<1>10. SonRun'
  <2>1. \A j \in 1..sips : SonAt(j)' = SonAt(j)
    BY <1>1 DEF SonAt
  <2>2. QED
    BY <1>1, <1>4, <1>6, <2>1, Processes, SonRunKept
<1>11. ClosedLate'
  <2>1. sips \notin torn => \A s \in Sender : writer'[s].part > 0 => writer'[s].alone
    BY <1>3, <1>5, Processes DEF ClosedLate
  <2>2. QED
    BY <1>1, <1>4, <2>1 DEF ClosedLate, SipHasGone
<1>12. KilledExplained'
  BY <1>1, <1>4 DEF KilledExplained
<1>13. QED
  BY <1>7, <1>8, <1>9, <1>10, <1>11, <1>12

\* waitSIP gives its connection up: after a frame it cannot read, or when SIP
\* has gone and everything was read.
LEMMA ReacceptInv ==
  ASSUME LinkInv, sonAlive, sip_conn # 0, Reaccept, UNCHANGED <<sonAlive, toSip, sipVars, threads, frames>>, got \subseteq got',
         sip_conn \in torn \/ (SipHasGone(sip_conn) /\ toSon[sip_conn] = <<>>)
  PROVE  LinkInv'
<1> USE DEF LinkInv
<1>1. PICK k \in 1..sips : k = sip_conn /\ k \notin shut /\ k \in 1..MaxSips
  BY LinkAssumption DEF LinkTypes, Places
<1>2. /\ sip_conn' = 0 /\ shut' = shut \cup {k} /\ sonReader' = AtStart /\ toSon' = [toSon EXCEPT ![k] = <<>>]
      /\ UNCHANGED <<sonAlive, toSip, sip, sips, son_conn, sipReader, returned, outside, writer, lone, torn, frames>>
  BY <1>1 DEF Reaccept, sipVars, threads
<1>3. toSon'[k] = <<>> /\ \A j \in 1..MaxSips : j # k => toSon'[j] = toSon[j]
  BY <1>1, <1>2 DEF LinkTypes
<1>4. LinkTypes'
  <2>1. AtStart \in Readers(Pkt) /\ <<>> \in Seq(Token(Pkt))
    BY DEF Readers, AtStart
  <2>2. toSon' \in [1..MaxSips -> Seq(Token(Pkt))]
    BY <1>1, <1>2, <2>1 DEF LinkTypes
  <2>3. sip_conn' \in 0..sips /\ shut' \in SUBSET (1..sips)
    BY <1>1, <1>2 DEF LinkTypes
  <2>4. QED
    BY <1>2, <2>1, <2>2, <2>3 DEF LinkTypes
<1>5. Places'
  <2>1. sip_conn' \notin shut'
    BY <1>1, <1>2 DEF LinkTypes
  <2>2. \A l \in Listener : writer'[l].on \in shut' \cup {sip_conn', 0} /\ (writer'[l].part > 0 => writer'[l].pkt \in {"in"} \X Nat)
    BY <1>1, <1>2 DEF Places
  <2>3. \A j \in 1..MaxSips : j \notin shut' /\ j # sip_conn' => toSip[j] = <<>>
    BY <1>1, <1>2 DEF Places
  <2>4. sips \notin shut' \cup {sip_conn'} => sipReader = AtStart
    BY <1>1, <1>2 DEF Places
  <2>5. \A j \in 1..MaxSips : j > sips \/ j \in shut' => toSon'[j] = <<>>
    BY <1>1, <1>2, <1>3 DEF Places
  <2>6. QED
    BY <1>2, <2>1, <2>2, <2>3, <2>4, <2>5 DEF Places
<1>6. SipRun'
  BY <1>1, <1>2, SipRunKept
<1>7. SonRun'
  <2>1. \A j \in 1..sips : j \notin shut' => j \notin shut /\ j \in 1..MaxSips /\ j # k /\ SonAt(j)' = SonAt(j)
    BY <1>1, <1>2, LinkAssumption DEF SonAt, LinkTypes
  <2>2. QED
    BY <1>2, <1>3, <2>1, SonRunKept DEF Quiet
<1>8. ClosedLate'
  <2>1. \A f \in lone : f[2] = k /\ f[1][1] = "out" /\ k \notin torn => f[1] \in got'
    <3> SUFFICES ASSUME NEW f \in lone, f[2] = k, f[1][1] = "out", k \notin torn PROVE f[1] \in got
      OBVIOUS
    <3>1. toSon[k] = <<>>
      BY <1>1
    <3>2. PICK ss : \A g \in lone : g[2] = k /\ g[1][1] = "out" => g[1] \in got \/ Whole(ss, toSon[k], g[1])
      BY <1>1 DEF SonRun, SonReads
    <3>3. ~Whole(ss, toSon[k], f[1])
      BY <3>1 DEF Whole
    <3>4. QED
      BY <3>2, <3>3
  <2>2. \A j \in shut' : j \in torn \/ SipHasGone(j)
    BY <1>1, <1>2 DEF ClosedLate
  <2>3. \A j \in shut' : j \notin torn => \A f \in lone : f[2] = j /\ f[1][1] = "out" => f[1] \in got'
    BY <1>2, <2>1 DEF ClosedLate
  <2>4. QED
    BY <1>2, <2>2, <2>3 DEF ClosedLate, SipHasGone
<1>9. KilledExplained'
  <2> SUFFICES ASSUME torn = {}, "SIP" \notin outside PROVE FALSE
    BY <1>2 DEF KilledExplained
  <2>1. sip = "up" /\ son_conn /\ sips <= 1
    BY <1>1 DEF KilledExplained, Places, LinkTypes
  <2>2. k = sips
    BY <1>1, <2>1 DEF LinkTypes
  <2>3. QED
    BY <1>1, <2>1, <2>2 DEF SipHasGone
<1>10. QED
  BY <1>4, <1>5, <1>6, <1>7, <1>8, <1>9

\* The SON process ends, from outside or by SIGPIPE on the connection to SIP:
\* SIP can still read what is on its way.
LEMMA SonEndsInv ==
  ASSUME LinkInv, sonAlive, SonEnds, got \subseteq got',
         outside' = outside \cup {"SON"} \/ (outside' = outside /\ sip_conn # 0 /\ SipHasGone(sip_conn)),
         UNCHANGED <<toSip, sip, sips, son_conn, sipReader, returned, frames>>
  PROVE  LinkInv'
<1> USE DEF LinkInv
<1>1. /\ UNCHANGED <<toSip, sip_conn, shut, sip, sips, son_conn, sipReader, returned, lone, torn, frames>>
      /\ sonAlive' = FALSE /\ sonReader' = AtStart /\ toSon' = [k \in 1..MaxSips |-> <<>>]
      /\ writer' = [w \in Writer |-> IF w \in Listener THEN Idle ELSE writer[w]]
  BY DEF SonEnds
<1>2. Idle \in WriterState /\ Idle.part = 0 /\ Idle.on = 0
  BY LinkAssumption DEF Idle, WriterState
<1>3. /\ writer' \in [Writer -> WriterState] /\ (\A l \in Listener : writer'[l] = Idle)
      /\ \A s \in Sender : writer'[s] = writer[s]
  <2>1. \A w \in Writer : (IF w \in Listener THEN Idle ELSE writer[w]) \in WriterState
    BY <1>2 DEF LinkTypes
  <2>2. QED
    BY <1>1, <2>1, Processes
<1>4. LinkTypes'
  <2>1. outside' \in SUBSET {"SON", "SIP"} /\ sonAlive' \in BOOLEAN
    BY <1>1 DEF LinkTypes
  <2>2. sonReader' \in Readers(Pkt) /\ toSon' \in [1..MaxSips -> Seq(Token(Pkt))]
    <3>1. AtStart \in Readers(Pkt) /\ <<>> \in Seq(Token(Pkt))
      BY DEF AtStart, Readers
    <3>2. QED
      BY <1>1, <3>1
  <2>3. QED
    BY <1>1, <1>3, <2>1, <2>2 DEF LinkTypes
<1>5. "SIP" \in outside' <=> "SIP" \in outside
  OBVIOUS
<1>6. Places'
  <2>1. \A w \in Writer : writer'[w].on <= sips
    BY <1>2, <1>3, Processes DEF Places, LinkTypes
  <2>2. \A l \in Listener : writer'[l].on \in shut \cup {sip_conn, 0} /\ ~(writer'[l].part > 0)
    BY <1>2, <1>3
  <2>3. \A k \in 1..MaxSips : toSon'[k] = <<>>
    BY <1>1
  <2>4. sip_conn' \notin shut' /\ (sip' = "up" => sips' > 0) /\ (son_conn' => sip' = "up")
    BY <1>1 DEF Places
  <2>5. sip' = "off" => sipReader' = AtStart /\ \A s \in Sender : writer'[s] = Idle
    BY <1>1, <1>3 DEF Places
  <2>6. \A s \in Sender : writer'[s].part > 0 => writer'[s].on = sips /\ writer'[s].pkt \in {"out"} \X Nat
    BY <1>3 DEF Places
  <2>7. \A k \in 1..MaxSips : k \notin shut /\ k # sip_conn => toSip'[k] = <<>>
    BY <1>1 DEF Places
  <2>8. (sips \notin shut \cup {sip_conn} => sipReader = AtStart) /\ (torn = {} /\ "SIP" \notin outside' => sips <= 1)
    BY <1>5 DEF Places
  <2>9. QED
    BY <1>1, <2>1, <2>2, <2>3, <2>4, <2>5, <2>6, <2>7, <2>8 DEF Places
<1>7. SipRun' /\ SonRun'
  <2>1. SonRun'
    BY <1>1 DEF SonRun
  <2>2. QED
    BY <1>1, <2>1, SipRunKept
<1>8. ClosedLate'
  BY <1>1, <1>3 DEF ClosedLate, SipHasGone
<1>9. KilledExplained'
  <2> SUFFICES ASSUME torn = {}, "SIP" \notin outside PROVE shut = {} /\ "SON" \in outside'
    BY <1>1, <1>5 DEF KilledExplained
  <2>1. shut = {} /\ sips <= 1 /\ (sips > 0 => sip = "up" /\ son_conn)
    BY DEF KilledExplained, Places
  <2>2. sip_conn # 0 => sip_conn = sips /\ sips > 0
    BY <2>1 DEF LinkTypes
  <2>3. QED
    BY <2>1, <2>2 DEF SipHasGone
<1>10. QED
  BY <1>4, <1>6, <1>7, <1>8, <1>9

\* getpktToSend takes a token: on a connection without overlapping frames it
\* does not fail, and a frame that was alone is received when it is complete.
LEMMA GetTokenInv == ASSUME LinkInv, GetToken \/ SipClosed PROVE LinkInv'
<1> USE DEF LinkInv
<1>1. CASE SipClosed
  BY <1>1, ReacceptInv DEF SipClosed
<1>2. CASE GetToken
  <2>1. PICK k \in 1..sips : k = sip_conn /\ k \notin shut /\ k \in 1..MaxSips
    BY <1>2, LinkAssumption DEF GetToken, LinkTypes, Places
  <2>2. PICK q \in Seq(Token(Pkt)) : q = toSon[k] /\ q # <<>>
    BY <1>2, <2>1 DEF GetToken, LinkTypes
  <2>3. /\ sonAlive /\ sip_conn # 0
        /\ got' = IF Returns(sonReader, Head(q)) = 1 THEN got \cup {sonReader.pkt} ELSE got
        /\ UNCHANGED <<toSip, sip, sips, son_conn, sipReader, returned, frames>>
    BY <1>2, <2>1, <2>2 DEF GetToken
  <2>4. PICK ss : Follows(Pkt, ss, sonReader, q) /\ SonReads(ss, k)
    BY <2>1, <2>2, <2>3 DEF SonRun, SonAt
  <2>5. CASE Returns(sonReader, Head(q)) = -1 /\ Reaccept /\ UNCHANGED <<sonAlive, threads, outside>>
    <3>1. k \in torn
      BY <2>2, <2>4, <2>5, Advanced DEF SonReads
    <3>2. UNCHANGED sipVars
      BY <2>3, <2>5 DEF sipVars
    <3>3. QED
      BY <2>1, <2>3, <2>5, <3>1, <3>2, ReacceptInv
  <2>6. CASE Returns(sonReader, Head(q)) = 1 /\ SonEnds /\ outside' = outside \cup {"SON"}
    BY <2>3, <2>6, SonEndsInv
  <2>7. CASE /\ toSon' = [toSon EXCEPT ![sip_conn] = Tail(@)] /\ sonReader' = Goes(sonReader, Head(q))
             /\ UNCHANGED <<sonAlive, sip_conn, shut, threads, outside>>
    <3>1. /\ toSon' = [toSon EXCEPT ![k] = Tail(q)] /\ sonReader' = Goes(sonReader, Head(q))
          /\ UNCHANGED <<sonAlive, toSip, sip_conn, shut, sip, sips, son_conn, sipReader, returned, outside, writer, lone, torn, frames>>
      BY <2>1, <2>2, <2>3, <2>7 DEF threads
    <3>2. PICK u \in Seq(Token(Pkt)) : u = Tail(q)
      BY <2>2, <2>4, Advanced
    <3>3. PICK r \in Readers(Pkt) : r = Goes(sonReader, Head(q))
      BY <2>2, <2>4, Advanced
    <3>4. toSon'[k] = u /\ \A j \in 1..MaxSips : j # k => toSon'[j] = toSon[j]
      BY <2>1, <3>1, <3>2 DEF LinkTypes
    <3>5. LinkTypes'
      <4>1. toSon' \in [1..MaxSips -> Seq(Token(Pkt))]
        BY <2>1, <3>1, <3>2 DEF LinkTypes
      <4>2. QED
        BY <3>1, <3>3, <4>1 DEF LinkTypes
    <3>6. Places'
      <4>1. \A j \in 1..MaxSips : j > sips \/ j \in shut => toSon'[j] = <<>>
        <5>1. \A j \in 1..MaxSips : j > sips \/ j \in shut => j # k
          BY <2>1 DEF LinkTypes
        <5>2. QED
          BY <3>4, <5>1 DEF Places
      <4>2. QED
        BY <3>1, <4>1 DEF Places
    <3>7. SipRun'
      BY <2>3, <3>1, SipRunKept DEF Quiet
    <3>8. SonRun'
      <4> SUFFICES ASSUME NEW j \in 1..sips, j \notin shut
                   PROVE  \E tt : Follows(Pkt, tt, SonAt(j)', toSon'[j]) /\ SonReads(tt, j)'
        BY <3>1 DEF SonRun
      <4>1. CASE j = k
        <5>1. PICK tt : /\ Follows(Pkt, tt, r, u) /\ tt[Len(u)] = ss[Len(q)] /\ (Clean(ss, q) => Clean(tt, u))
                        /\ \A p : Whole(ss, q, p) => Whole(tt, u, p) \/ (sonReader.pkt = p /\ Returns(sonReader, Head(q)) = 1)
          BY <2>2, <2>4, <3>2, <3>3, Advanced
        <5>2. \A f \in lone : f[2] = k /\ f[1][1] = "out" => f[1] \in got' \/ Whole(tt, u, f[1])
          BY <2>2, <2>3, <2>4, <5>1 DEF SonReads
        <5>3. k = sips /\ son_conn => Explains(tt[Len(u)], Sender, k, writer')
          BY <2>2, <2>4, <3>1, <5>1, ExplainsKept DEF SonReads, Quiet
        <5>4. k \notin torn => Clean(tt, u)
          BY <2>2, <2>4, <5>1 DEF SonReads
        <5>5. SonReads(tt, k)'
          BY <3>1, <3>4, <5>2, <5>3, <5>4 DEF SonReads
        <5>6. SonAt(k)' = r
          BY <2>1, <3>1, <3>3 DEF SonAt
        <5>7. QED
          BY <3>4, <4>1, <5>1, <5>5, <5>6
      <4>2. CASE j # k
        <5>1. toSon'[j] = toSon[j] /\ SonAt(j)' = SonAt(j)
          BY <2>1, <3>1, <3>4, <4>2, LinkAssumption DEF SonAt, LinkTypes
        <5>2. QED
          BY <2>3, <3>1, <5>1, SonReadsKept DEF Quiet
      <4>3. QED
        BY <4>1, <4>2
    <3>9. ClosedLate' /\ KilledExplained'
      BY <2>3, <3>1 DEF ClosedLate, KilledExplained, SipHasGone
    <3>10. QED
      BY <3>5, <3>6, <3>7, <3>8, <3>9
  <2>8. QED
    BY <1>2, <2>1, <2>2, <2>5, <2>6, <2>7 DEF GetToken
<1>3. QED
  BY <1>1, <1>2

\* son_recvpkt takes a token: a frame that was alone is received when it is
\* complete, whatever was skipped before.  A packet may be sent on.
LEMMA HandleInv == ASSUME LinkInv, Handle PROVE LinkInv'
<1> USE DEF LinkInv
<1>1. sips \in 1..MaxSips /\ sips <= MaxSips /\ sip = "up" /\ son_conn /\ writer["pkthandler"].part = 0
      /\ "pkthandler" \in Sender /\ "pkthandler" \in Writer /\ "pkthandler" \notin Listener
  BY Processes, LinkAssumption DEF Handle, Places, LinkTypes, Sender
<1>2. PICK q \in Seq(Token(Pkt)) : q = toSip[sips] /\ q # <<>>
  BY <1>1 DEF Handle, LinkTypes
<1>3. /\ sipReader' = Goes(sipReader, Head(q)) /\ toSip' = [toSip EXCEPT ![sips] = Tail(q)]
      /\ got' = (IF Returns(sipReader, Head(q)) = 1 THEN got \cup {sipReader.pkt} ELSE got)
      /\ UNCHANGED <<sip, sips, son_conn, returned, outside, toSon, sonAlive, sip_conn, shut, sonReader, lone, torn>>
  BY <1>2 DEF Handle, sonVars, threads, Begins
<1>4. /\ writer' \in [Writer -> WriterState] /\ \A v \in Writer : v # "pkthandler" => writer'[v] = writer[v]
      /\ frames' \in Nat
      /\ \/ writer' = writer
         \/ LET x == writer'["pkthandler"] IN x.part = 1 /\ x.on = sips /\ x.alone = TRUE /\ x.pkt \in {"out"} \X Nat
  <2>1. CASE UNCHANGED <<threads, frames>>
    BY <2>1 DEF threads, LinkTypes
  <2>2. CASE Begins("pkthandler", <<"out", frames + 1>>, sips) /\ frames' = frames + 1
    <3>1. PICK n \in Nat : n = frames + 1
      BY DEF LinkTypes
    <3>2. PICK p \in {"out"} \X Nat : p = <<"out", frames + 1>> /\ p \in Pkt
      <4>1. <<"out", n>> \in {"out"} \X Nat /\ <<"out", n>> \in {"in", "out"} \X Nat
        OBVIOUS
      <4>2. QED
        BY <3>1, <4>1 DEF Pkt
    <3>3. PICK x \in WriterState : /\ x.part = 1 /\ x.pkt = p /\ x.on = sips /\ x.alone = TRUE
                                   /\ writer' = [writer EXCEPT !["pkthandler"] = x]
      <4>1. [part |-> 1, pkt |-> p, on |-> sips, alone |-> TRUE] \in WriterState
        BY <1>1, <3>2 DEF WriterState
      <4>2. QED
        BY <2>2, <3>2, <4>1 DEF Begins
    <3>4. QED
      BY <1>1, <2>2, <3>1, <3>3, WriterChanged
  <2>3. QED
    BY <2>1, <2>2 DEF Handle
<1>5. \A v \in Writer : \A k : Quiet(v, k)
  BY <1>1, <1>4 DEF Quiet
<1>6. PICK ss : Follows(Pkt, ss, sipReader, q) /\ SipReads(ss)
  BY <1>1, <1>2 DEF SipRun
<1>7. PICK u \in Seq(Token(Pkt)) : u = Tail(q)
  BY <1>2, <1>6, Advanced
<1>8. PICK r \in Readers(Pkt) : r = Goes(sipReader, Head(q))
  BY <1>2, <1>6, Advanced
<1>9. toSip'[sips] = u /\ \A j \in 1..MaxSips : j # sips => toSip'[j] = toSip[j]
  BY <1>1, <1>3, <1>7 DEF LinkTypes
<1>10. LinkTypes'
  <2>1. toSip' \in [1..MaxSips -> Seq(Token(Pkt))]
    BY <1>1, <1>3, <1>7 DEF LinkTypes
  <2>2. QED
    BY <1>3, <1>4, <1>8, <2>1 DEF LinkTypes
<1>11. Places'
  <2>1. sips \in shut \cup {sip_conn}
    BY <1>1, <1>2 DEF Places
  <2>2. \A j \in 1..MaxSips : j \notin shut /\ j # sip_conn => toSip'[j] = <<>>
    BY <1>9, <2>1 DEF Places
  <2>3. \A v \in Writer : writer'[v].on <= sips
    BY <1>1, <1>4 DEF Places
  <2>4. \A l \in Listener : writer'[l] = writer[l]
    BY <1>1, <1>4, Processes
  <2>5. \A s \in Sender : writer'[s].part > 0 => writer'[s].on = sips /\ writer'[s].pkt \in {"out"} \X Nat
    BY <1>1, <1>4, Processes DEF Places
  <2>6. QED
    BY <1>1, <1>3, <2>1, <2>2, <2>3, <2>4, <2>5 DEF Places
<1>12. SipRun'
  <2>1. PICK tt : /\ Follows(Pkt, tt, r, u) /\ tt[Len(u)] = ss[Len(q)]
                  /\ \A p : Whole(ss, q, p) => Whole(tt, u, p) \/ (sipReader.pkt = p /\ Returns(sipReader, Head(q)) = 1)
    BY <1>2, <1>6, <1>7, <1>8, Advanced
  <2>2. \A f \in lone : f[2] = sips /\ f[1][1] = "in" => f[1] \in got' \/ Whole(tt, u, f[1])
    BY <1>2, <1>3, <1>6, <2>1 DEF SipReads
  <2>3. sonAlive /\ sip_conn = sips => Explains(tt[Len(u)], Listener, sips, writer')
    BY <1>2, <1>3, <1>5, <1>6, <2>1, Processes, ExplainsKept DEF SipReads
  <2>4. SipReads(tt)'
    BY <1>3, <1>9, <2>2, <2>3 DEF SipReads
  <2>5. QED
    BY <1>3, <1>8, <1>9, <2>1, <2>4 DEF SipRun
<1>13. SonRun'
  <2>1. \A j \in 1..sips : SonAt(j)' = SonAt(j)
    BY <1>3 DEF SonAt
  <2>2. QED
    BY <1>3, <1>5, <2>1, Processes, SonRunKept
<1>14. ClosedLate'
  <2>1. sips \notin torn => \A s \in Sender : writer'[s].part > 0 => writer'[s].alone
    BY <1>1, <1>4, Processes DEF ClosedLate
  <2>2. \A k \in shut : k \notin torn => \A f \in lone : f[2] = k /\ f[1][1] = "out" => f[1] \in got'
    BY <1>3 DEF ClosedLate
  <2>3. QED
    BY <1>3, <2>1, <2>2 DEF ClosedLate, SipHasGone
<1>15. KilledExplained'
  BY <1>3 DEF KilledExplained
<1>16. QED
  BY <1>10, <1>11, <1>12, <1>13, <1>14, <1>15

\* main starts, connectToSON: a new connection, on which nothing was sent.
LEMMA StartSipInv == ASSUME LinkInv, StartSip PROVE LinkInv'
<1> USE DEF LinkInv
<1>1. PICK n \in 1..MaxSips : n = sips + 1 /\ sips' = n /\ n > sips /\ n \notin 1..sips /\ n # 0
  BY LinkAssumption DEF StartSip, LinkTypes
<1>2. /\ sonAlive /\ sip = "off" /\ sip' = "up" /\ son_conn' = TRUE
      /\ UNCHANGED <<sipReader, returned, outside, sonAlive, sip_conn, shut, sonReader, toSip, toSon, writer, lone, torn, frames, got>>
  BY DEF StartSip, sonVars, streams, threads
<1>3. /\ n \notin shut /\ n # sip_conn /\ n \notin torn /\ 1..sips \subseteq 1..n /\ 0..sips \subseteq 0..n
      /\ \A f \in lone : f[2] # n /\ f[2] \in 1..sips
  BY <1>1 DEF LinkTypes
<1>4. LinkTypes'
  <2>1. lone \in SUBSET (Pkt \X (1..n))
    BY <1>3 DEF LinkTypes
  <2>2. QED
    BY <1>1, <1>2, <1>3, <2>1 DEF LinkTypes
<1>5. torn = {} /\ "SIP" \notin outside => n = 1 /\ shut = {}
  <2> SUFFICES ASSUME torn = {}, "SIP" \notin outside PROVE n = 1 /\ shut = {}
    OBVIOUS
  <2>1. ~(sips > 0)
    BY <1>2 DEF KilledExplained
  <2>2. sips = 0
    BY <2>1 DEF LinkTypes
  <2>3. QED
    BY <1>1, <2>2 DEF LinkTypes
<1>6. toSip[n] = <<>> /\ toSon[n] = <<>> /\ sipReader = AtStart /\ \A s \in Sender : writer[s] = Idle
  BY <1>1, <1>2, <1>3 DEF Places
<1>7. Places'
  <2>1. \A v \in Writer : writer[v].on <= n
    <3>1. \A v \in Writer : writer[v].on <= sips /\ writer[v].on \in 0..MaxSips
      BY DEF Places, LinkTypes, WriterState
    <3>2. QED
      BY <1>1, <3>1 DEF LinkTypes
  <2>2. \A s \in Sender : ~(writer[s].part > 0)
    BY <1>6 DEF Idle
  <2>3. \A k \in 1..MaxSips : k > n \/ k \in shut => toSon[k] = <<>>
    BY <1>1 DEF Places, LinkTypes
  <2>4. QED
    BY <1>1, <1>2, <1>3, <1>5, <1>6, <2>1, <2>2, <2>3 DEF Places
<1>8. SipRun'
  <2>1. sipReader \in Readers(Pkt)
    BY DEF LinkTypes
  <2>2. PICK ss : Follows(Pkt, ss, sipReader, toSip[n])
    BY <1>6, <2>1, NothingToRead
  <2>3. SipReads(ss)'
    BY <1>1, <1>2, <1>3 DEF SipReads
  <2>4. QED
    BY <1>1, <1>2, <2>2, <2>3 DEF SipRun
<1>9. SonRun'
  <2> SUFFICES ASSUME NEW k \in 1..n, k \notin shut
               PROVE  \E ss : Follows(Pkt, ss, SonAt(k), toSon[k]) /\ SonReads(ss, k)'
    BY <1>1, <1>2 DEF SonRun, SonAt
  <2>1. CASE k = n
    <3>1. AtStart \in Readers(Pkt) /\ AtStart.state = "PKTSTART1" /\ SonAt(n) = AtStart
      BY <1>3 DEF Readers, AtStart, SonAt
    <3>2. PICK ss : Follows(Pkt, ss, AtStart, <<>>) /\ ss[Len(<<>>)] = AtStart /\ Clean(ss, <<>>)
      BY <3>1, NothingToRead
    <3>3. \A s \in Sender : writer'[s].part = 0
      BY <1>2, <1>6 DEF Idle
    <3>4. Explains(ss[Len(toSon[n])], Sender, n, writer')
      BY <1>2, <1>6, <3>1, <3>2, <3>3 DEF Explains
    <3>5. SonReads(ss, n)'
      BY <1>2, <1>3, <1>6, <3>2, <3>4 DEF SonReads
    <3>6. QED
      BY <1>6, <2>1, <3>1, <3>2, <3>5
  <2>2. CASE k # n
    <3>1. k \in 1..sips /\ k # sips'
      BY <1>1, <2>2 DEF LinkTypes
    <3>2. PICK ss : Follows(Pkt, ss, SonAt(k), toSon[k]) /\ SonReads(ss, k)
      BY <1>2, <3>1 DEF SonRun
    <3>3. SonReads(ss, k)'
      BY <1>2, <3>1, <3>2 DEF SonReads
    <3>4. QED
      BY <3>2, <3>3
  <2>3. QED
    BY <2>1, <2>2
<1>10. ClosedLate'
  <2>1. \A k \in shut : SipHasGone(k)'
    BY <1>1, <1>3 DEF SipHasGone
  <2>2. \A s \in Sender : ~(writer[s].part > 0)
    BY <1>6 DEF Idle
  <2>3. QED
    BY <1>2, <2>1, <2>2 DEF ClosedLate
<1>11. KilledExplained'
  BY <1>2, <1>5 DEF KilledExplained
<1>12. QED
  BY <1>4, <1>7, <1>8, <1>9, <1>10, <1>11

\* A send() of forwardpktToSIP, on the connection SON has by then.
LEMMA ForwardInv ==
  ASSUME LinkInv, NEW l \in Listener, sonAlive, writer[l].part > 0, sip_conn # 0, Wrote(l, sip_conn),
         toSip' = (IF SipHasGone(sip_conn) THEN toSip
                   ELSE [toSip EXCEPT ![sip_conn] = Append(@, Part(writer[l].part, writer[l].pkt))]),
         UNCHANGED <<sonAlive, sip_conn, shut, sonReader, sipVars, toSon, frames, got>>
  PROVE  LinkInv'
<1> USE DEF LinkInv
<1>1. PICK k \in 1..sips : k = sip_conn /\ k \in 1..MaxSips
  BY LinkAssumption DEF LinkTypes
<1>2. PICK x \in WriterState : /\ x = writer[l] /\ x.pkt \in Pkt /\ x.pkt \in {"in"} \X Nat /\ x.pkt[1] = "in"
                               /\ l \in Writer /\ l \notin Sender
  <2>1. l \in Writer /\ l \notin Sender /\ writer[l] \in WriterState /\ writer[l].pkt \in {"in"} \X Nat
    BY Processes DEF LinkTypes, Places
  <2>2. writer[l].pkt \in Pkt
    BY <2>1 DEF Pkt
  <2>3. QED
    BY <2>1, <2>2
<1>3. UNCHANGED <<sonAlive, sip_conn, shut, sonReader, sip, sips, son_conn, sipReader, returned, outside, toSon, frames, got>>
  BY DEF sipVars
<1>4. Sent(Listener, l, k)
  BY <1>1, Written
<1>5. /\ writer' \in [Writer -> WriterState] /\ (\A s \in Sender : writer'[s] = writer[s]) /\ torn' = torn
      /\ lone' = lone \/ lone' = lone \cup {<<x.pkt, k>>}
  BY <1>2, <1>4, Processes DEF Sent
<1>6. PICK q \in Seq(Token(Pkt)), t \in Token(Pkt) : q = toSip[k] /\ t = Part(x.part, x.pkt) /\ Append(q, t) \in Seq(Token(Pkt))
  <2>1. toSip[k] \in Seq(Token(Pkt)) /\ Part(x.part, x.pkt) \in Token(Pkt)
    BY <1>1, <1>2, PartToken DEF LinkTypes
  <2>2. Append(toSip[k], Part(x.part, x.pkt)) \in Seq(Token(Pkt))
    BY <2>1
  <2>3. QED
    BY <2>1, <2>2
<1>7. /\ \A j \in 1..MaxSips : j # k => toSip'[j] = toSip[j]
      /\ k = sips /\ son_conn => toSip'[k] = Append(q, t)
      /\ toSip' \in [1..MaxSips -> Seq(Token(Pkt))]
  <2>1. k = sips /\ son_conn => ~SipHasGone(k)
    BY DEF SipHasGone, Places
  <2>2. CASE SipHasGone(k)
    BY <1>1, <2>1, <2>2 DEF LinkTypes
  <2>3. CASE ~SipHasGone(k)
    <3>1. toSip' = [toSip EXCEPT ![k] = Append(q, t)]
      BY <1>1, <1>2, <1>6, <2>3
    <3>2. QED
      BY <1>1, <1>6, <3>1 DEF LinkTypes
  <2>4. QED
    BY <2>2, <2>3
<1>8. LinkTypes'
  <2>1. lone' \in SUBSET (Pkt \X (1..sips))
    BY <1>1, <1>2, <1>5 DEF LinkTypes
  <2>2. QED
    BY <1>3, <1>5, <1>7, <2>1 DEF LinkTypes
<1>9. Places'
  <2>1. \A v \in Listener : /\ writer'[v].on \in {writer[v].on, 0, k}
                            /\ writer'[v].part > 0 => writer'[v].pkt \in {"in"} \X Nat
    <3> SUFFICES ASSUME NEW v \in Listener
                 PROVE  /\ writer'[v].on \in {writer[v].on, 0, k}
                        /\ writer'[v].part > 0 => writer'[v].pkt \in {"in"} \X Nat
      OBVIOUS
    <3>1. CASE v # l
      BY <1>4, <3>1 DEF Sent, Places
    <3>2. CASE v = l
      BY <1>2, <1>4, <3>2 DEF Sent, Idle
    <3>3. QED
      BY <3>1, <3>2
  <2>2. \A v \in Writer : writer'[v].on <= sips
    <3>1. \A v \in Listener : writer'[v].on <= sips
      <4>1. \A v \in Listener : writer[v].on <= sips
        BY Processes DEF Places
      <4>2. 0 <= sips /\ k <= sips
        BY <1>1 DEF LinkTypes
      <4>3. QED
        BY <2>1, <4>1, <4>2
    <3>2. QED
      BY <1>5, <3>1, Processes DEF Places
  <2>3. \A v \in Listener : writer'[v].on \in shut \cup {sip_conn, 0}
    BY <1>1, <2>1 DEF Places
  <2>4. \A j \in 1..MaxSips : j \notin shut /\ j # sip_conn => toSip'[j] = <<>>
    BY <1>1, <1>7 DEF Places
  <2>5. QED
    BY <1>3, <1>5, <2>1, <2>2, <2>3, <2>4 DEF Places
<1>10. SipRun'
  <2>1. CASE k = sips /\ son_conn
    <3>1. PICK ss : Follows(Pkt, ss, sipReader, q) /\ SipReads(ss)
      BY <1>6, <2>1 DEF SipRun
    <3>2. Explains(ss[Len(q)], Listener, k, writer)
      BY <1>1, <1>6, <2>1, <3>1 DEF SipReads
    <3>3. Wrote(l, k)
      BY <1>1
    <3>4. PICK u, tt : u = Append(q, t) /\ GoesOn(Listener, l, k, ss, sipReader, q, tt, u)
      <4>1. PICK u : u = Append(q, Part(writer[l].part, writer[l].pkt))
        OBVIOUS
      <4>2. LinkTypes /\ writer[l].pkt \in Pkt
        BY <1>2
      <4>3. PICK tt : GoesOn(Listener, l, k, ss, sipReader, q, tt, u)
        BY <3>1, <3>2, <3>3, <4>1, <4>2, Continues
      <4>4. QED
        BY <1>2, <1>6, <4>1, <4>3
    <3>5. \A f \in lone' : f[2] = sips /\ f[1][1] = "in" => f[1] \in got \/ Whole(tt, u, f[1])
      BY <1>2, <1>6, <2>1, <3>1, <3>4 DEF SipReads, GoesOn
    <3>6. SipReads(tt)'
      BY <1>3, <1>7, <2>1, <3>4, <3>5 DEF SipReads, GoesOn
    <3>7. QED
      BY <1>3, <1>7, <2>1, <3>4, <3>6 DEF SipRun, GoesOn
  <2>2. CASE ~(k = sips /\ son_conn)
    <3>1. son_conn => k # sips /\ toSip'[sips] = toSip[sips]
      <4>1. son_conn => sips \in 1..MaxSips
        BY <1>1, LinkAssumption DEF LinkTypes
      <4>2. QED
        BY <1>7, <2>2, <4>1
    <3>2. \A f \in lone' : f \in lone \/ f[2] = k
      BY <1>5
    <3>3. CASE son_conn
      BY <1>1, <1>3, <3>1, <3>2, <3>3, SipRunKept
    <3>4. CASE ~son_conn
      BY <1>3, <3>4 DEF SipRun
    <3>5. QED
      BY <3>3, <3>4
  <2>3. QED
    BY <2>1, <2>2
<1>11. \A f \in lone' : f \in lone \/ f[1][1] # "out"
  BY <1>2, <1>5
<1>12. SonRun'
  <2>1. \A j \in 1..sips : SonAt(j)' = SonAt(j)
    BY <1>3 DEF SonAt
  <2>2. QED
    BY <1>3, <1>5, <1>11, <2>1, SonRunKept DEF Quiet
<1>13. ClosedLate'
  BY <1>3, <1>5, <1>11 DEF ClosedLate, SipHasGone
<1>14. KilledExplained'
  BY <1>3, <1>5 DEF KilledExplained
<1>15. QED
  BY <1>8, <1>9, <1>10, <1>12, <1>13, <1>14

\* It fails.
LEMMA ForwardFailsInv ==
  ASSUME LinkInv, NEW l \in Listener, GivesUp(l), sip_conn # writer[l].on \/ SipHasGone(sip_conn),
         UNCHANGED <<sonVars, sipVars, streams, frames, got>>
  PROVE  LinkInv'
<1> USE DEF LinkInv
<1>1. /\ UNCHANGED <<sonAlive, sip_conn, shut, sonReader, sip, sips, son_conn, sipReader, returned, outside>>
      /\ UNCHANGED <<toSip, toSon, frames, got, lone, torn>> /\ writer' = [writer EXCEPT ![l] = Idle]
  BY DEF sonVars, sipVars, streams, GivesUp
<1>2. Idle \in WriterState /\ Idle.part = 0 /\ Idle.on = 0 /\ l \in Writer /\ l \notin Sender
  BY LinkAssumption, Processes DEF Idle, WriterState
<1>3. writer' \in [Writer -> WriterState] /\ writer'[l] = Idle /\ \A v \in Writer : v # l => writer'[v] = writer[v]
  BY <1>1, <1>2, WriterChanged
<1>4. \A s \in Sender : writer'[s] = writer[s]
  BY <1>2, <1>3, Processes
<1>5. LinkTypes'
  BY <1>1, <1>3 DEF LinkTypes
<1>6. Places'
  <2>1. \A v \in Writer : writer'[v].on <= sips
    BY <1>2, <1>3 DEF Places, LinkTypes
  <2>2. \A v \in Listener : writer'[v].on \in shut \cup {sip_conn, 0} /\ (writer'[v].part > 0 => writer'[v].pkt \in {"in"} \X Nat)
    BY <1>2, <1>3, Processes DEF Places
  <2>3. QED
    BY <1>1, <1>4, <2>1, <2>2 DEF Places
<1>7. SipRun'
  <2>1. son_conn /\ sip_conn = sips => writer[l].on # sips
    BY DEF SipHasGone, Places
  <2>2. sips = 0 => ~son_conn
    BY DEF Places
  <2>3. son_conn /\ sip_conn = sips => \A v \in Listener : Quiet(v, sips)
    BY <1>2, <1>3, <2>1, <2>2, Processes DEF Quiet
  <2>4. QED
    BY <1>1, <2>3, SipRunKept
<1>8. SonRun'
  <2>1. \A j \in 1..sips : SonAt(j)' = SonAt(j)
    BY <1>1 DEF SonAt
  <2>2. QED
    BY <1>1, <1>4, <2>1, SonRunKept DEF Quiet
<1>9. ClosedLate'
  BY <1>1, <1>4 DEF ClosedLate, SipHasGone
<1>10. KilledExplained'
  BY <1>1 DEF KilledExplained
<1>11. QED
  BY <1>5, <1>6, <1>7, <1>8, <1>9, <1>10

\* A send() of son_sendpkt.
LEMMA SendInv == ASSUME LinkInv, NEW s \in Sender, SendToSon(s) PROVE LinkInv'
<1> USE DEF LinkInv
<1>1. PICK k \in 1..sips : k = sips /\ k \in 1..MaxSips
  BY LinkAssumption DEF SendToSon, LinkTypes, Places
<1>2. PICK x \in WriterState : /\ x = writer[s] /\ x.pkt \in Pkt /\ x.pkt[1] = "out" /\ x.part > 0 /\ x.on = k
                               /\ s \in Writer /\ s \notin Listener
  <2>1. s \in Writer /\ s \notin Listener /\ writer[s] \in WriterState
    BY Processes DEF LinkTypes
  <2>2. writer[s].part > 0 /\ writer[s].on = sips /\ writer[s].pkt \in {"out"} \X Nat
    BY DEF SendToSon, Places
  <2>3. writer[s].pkt \in Pkt
    BY <2>2 DEF Pkt
  <2>4. QED
    BY <1>1, <2>1, <2>2, <2>3
<1>3. /\ sip = "up" /\ son_conn /\ Wrote(s, k) /\ ~SipHasGone(k)
      /\ UNCHANGED <<toSip, sonAlive, sip_conn, shut, sonReader, sip, sips, son_conn, sipReader, returned, outside, frames, got>>
      /\ toSon' = (IF SonHasGone THEN toSon ELSE [toSon EXCEPT ![k] = Append(@, Part(x.part, x.pkt))])
  BY <1>1, <1>2 DEF SendToSon, sonVars, sipVars, SipHasGone
<1>4. Sent(Sender, s, k)
  BY <1>1, <1>2, <1>3, Written
<1>5. /\ writer' \in [Writer -> WriterState] /\ (\A l \in Listener : writer'[l] = writer[l])
      /\ lone' = lone \/ lone' = lone \cup {<<x.pkt, k>>}
      /\ torn' = (IF Inside(s, k) # {} THEN torn \cup {k} ELSE torn)
  BY <1>2, <1>4, Processes DEF Sent
<1>6. PICK q \in Seq(Token(Pkt)), t \in Token(Pkt) : q = toSon[k] /\ t = Part(x.part, x.pkt) /\ Append(q, t) \in Seq(Token(Pkt))
  <2>1. toSon[k] \in Seq(Token(Pkt)) /\ Part(x.part, x.pkt) \in Token(Pkt)
    BY <1>1, <1>2, PartToken DEF LinkTypes
  <2>2. Append(toSon[k], Part(x.part, x.pkt)) \in Seq(Token(Pkt))
    BY <2>1
  <2>3. QED
    BY <2>1, <2>2
<1>7. /\ \A j \in 1..MaxSips : j # k => toSon'[j] = toSon[j]
      /\ ~SonHasGone => toSon'[k] = Append(q, t)
      /\ SonHasGone => toSon' = toSon
      /\ toSon' \in [1..MaxSips -> Seq(Token(Pkt))]
  <2>1. CASE SonHasGone
    BY <1>3, <2>1 DEF LinkTypes
  <2>2. CASE ~SonHasGone
    <3>1. toSon' = [toSon EXCEPT ![k] = Append(q, t)]
      BY <1>3, <1>6, <2>2
    <3>2. QED
      BY <1>1, <1>6, <2>2, <3>1 DEF LinkTypes
  <2>3. QED
    BY <2>1, <2>2
<1>8. LinkTypes'
  <2>1. lone' \in SUBSET (Pkt \X (1..sips))
    BY <1>1, <1>2, <1>5 DEF LinkTypes
  <2>2. torn' \in SUBSET (1..sips)
    BY <1>1, <1>5 DEF LinkTypes
  <2>3. QED
    BY <1>3, <1>5, <1>7, <2>1, <2>2 DEF LinkTypes
<1>9. Places'
  <2>1. \A v \in Sender : writer'[v].part > 0 => writer'[v].on = sips /\ writer'[v].pkt \in {"out"} \X Nat
    <3> SUFFICES ASSUME NEW v \in Sender, writer'[v].part > 0
                 PROVE  writer'[v].on = sips /\ writer'[v].pkt \in {"out"} \X Nat
      OBVIOUS
    <3>1. CASE v # s
      BY <1>4, <3>1 DEF Sent, Places
    <3>2. CASE v = s
      BY <1>1, <1>2, <1>4, <3>2 DEF Sent, Idle, Places
    <3>3. QED
      BY <3>1, <3>2
  <2>2. \A v \in Writer : writer'[v].on <= sips
    <3>1. \A v \in Sender : v # s => writer'[v].on <= sips
      BY <1>4, Processes DEF Sent, Places
    <3>2. writer'[s].on <= sips
      BY <1>1, <1>4 DEF Sent, Idle
    <3>3. QED
      BY <1>5, <3>1, <3>2, Processes DEF Places
  <2>3. \A j \in 1..MaxSips : j > sips \/ j \in shut => toSon'[j] = <<>>
    <3> SUFFICES ASSUME NEW j \in 1..MaxSips, j > sips \/ j \in shut PROVE toSon'[j] = toSon[j]
      BY DEF Places
    <3>1. j = k => SonHasGone
      BY <1>1 DEF SonHasGone, LinkTypes
    <3>2. QED
      BY <1>7, <3>1
  <2>4. torn' = {} => torn = {}
    BY <1>5
  <2>5. QED
    BY <1>3, <1>5, <2>1, <2>2, <2>3, <2>4 DEF Places
<1>10. \A f \in lone' : f \in lone \/ f[1][1] # "in"
  BY <1>2, <1>5
<1>11. SipRun'
  BY <1>3, <1>5, <1>10, SipRunKept DEF Quiet
<1>12. k \notin torn' => x.alone /\ Inside(s, k) = {} /\ k \notin torn
  BY <1>1, <1>2, <1>5 DEF ClosedLate
<1>13. SonRun'
  <2> SUFFICES ASSUME sonAlive, NEW j \in 1..sips, j \notin shut
               PROVE  \E tt : Follows(Pkt, tt, SonAt(j), toSon'[j]) /\ SonReads(tt, j)'
    BY <1>3 DEF SonRun, SonAt
  <2>1. CASE j = k
    <3>1. PICK ss : Follows(Pkt, ss, SonAt(k), q) /\ SonReads(ss, k)
      BY <1>6, <2>1 DEF SonRun
    <3>2. Explains(ss[Len(q)], Sender, k, writer)
      BY <1>1, <1>3, <1>6, <3>1 DEF SonReads
    <3>3. PICK u, tt : u = Append(q, t) /\ GoesOn(Sender, s, k, ss, SonAt(k), q, tt, u)
      <4>1. PICK u : u = Append(q, Part(writer[s].part, writer[s].pkt))
        OBVIOUS
      <4>2. LinkTypes /\ writer[s].pkt \in Pkt /\ writer[s].part > 0
        BY <1>2
      <4>3. PICK tt : GoesOn(Sender, s, k, ss, SonAt(k), q, tt, u)
        BY <1>3, <3>1, <3>2, <4>1, <4>2, Continues
      <4>4. QED
        BY <1>2, <1>6, <4>1, <4>3
    <3>4. toSon'[k] = u
      BY <1>1, <1>7, <2>1, <3>3 DEF SonHasGone
    <3>5. \A f \in lone' : f[2] = k /\ f[1][1] = "out" => f[1] \in got \/ Whole(tt, u, f[1])
      BY <1>2, <1>6, <3>1, <3>3 DEF SonReads, GoesOn
    <3>6. k \notin torn' => Clean(tt, u)
      BY <1>2, <1>6, <1>12, <3>1, <3>3 DEF SonReads, GoesOn
    <3>7. SonReads(tt, k)'
      BY <1>3, <3>3, <3>4, <3>5, <3>6 DEF SonReads, GoesOn
    <3>8. QED
      BY <2>1, <3>3, <3>4, <3>7 DEF GoesOn
  <2>2. CASE j # k
    <3>1. j # sips /\ j \in 1..MaxSips /\ toSon'[j] = toSon[j] /\ torn \subseteq torn'
      BY <1>1, <1>5, <1>7, <2>2, LinkAssumption DEF LinkTypes
    <3>2. \A f \in lone' : f \in lone \/ f[2] # j
      BY <1>5, <2>2
    <3>3. QED
      BY <1>3, <3>1, <3>2, SonReadsKept
  <2>3. QED
    BY <2>1, <2>2
<1>14. ClosedLate'
  <2>1. k \in shut => k \in torn
    BY <1>3 DEF ClosedLate
  <2>2. \A j \in shut : j \notin torn' => \A f \in lone' : f[2] = j /\ f[1][1] = "out" => f[1] \in got
    <3>1. \A j \in shut : j \notin torn' => j # k /\ j \notin torn
      BY <1>5, <2>1
    <3>2. \A f \in lone' : f \in lone \/ f[2] = k
      BY <1>5
    <3>3. QED
      BY <3>1, <3>2 DEF ClosedLate
  <2>3. sips \notin torn' => \A v \in Sender : writer'[v].part > 0 => writer'[v].alone
    <3> SUFFICES ASSUME k \notin torn', NEW v \in Sender, writer'[v].part > 0 PROVE writer'[v].alone
      BY <1>1
    <3>1. CASE v # s
      BY <1>1, <1>4, <1>12, <3>1 DEF Sent, ClosedLate
    <3>2. CASE v = s
      BY <1>2, <1>4, <1>12, <3>2 DEF Sent, Idle
    <3>3. QED
      BY <3>1, <3>2
  <2>4. \A j \in shut : j \in torn' \/ SipHasGone(j)
    BY <1>5 DEF ClosedLate
  <2>5. QED
    BY <1>3, <2>2, <2>3, <2>4 DEF ClosedLate, SipHasGone
<1>15. KilledExplained'
  BY <1>3, <1>5 DEF KilledExplained
<1>16. QED
  BY <1>8, <1>9, <1>11, <1>13, <1>14, <1>15

\* It returns -1 to a thread that only closes son_conn and returns.
LEMMA ReturnsInv ==
  ASSUME LinkInv, NEW s \in Sender, SendFails(s), s # "waitSTCP"
  PROVE  LinkInv'
<1> USE DEF LinkInv
<1>1. /\ UNCHANGED <<sonAlive, sip_conn, shut, sonReader, sip, sips, sipReader, outside, toSip, toSon, lone, torn, frames, got>>
      /\ son_conn' = FALSE /\ returned' = returned \cup {s} /\ writer' = [writer EXCEPT ![s] = Idle]
      /\ sip = "up" /\ (SonHasGone \/ ~son_conn)
  BY DEF SendFails, sonVars
<1>2. Idle \in WriterState /\ Idle.part = 0 /\ Idle.on = 0 /\ s \in Writer /\ s \notin Listener
  BY LinkAssumption, Processes DEF Idle, WriterState
<1>3. writer' \in [Writer -> WriterState] /\ writer'[s] = Idle /\ \A v \in Writer : v # s => writer'[v] = writer[v]
  BY <1>1, <1>2, WriterChanged
<1>4. LinkTypes'
  <2>1. son_conn' \in BOOLEAN
    BY <1>1
  <2>2. returned' \in SUBSET Sender
    BY <1>1 DEF LinkTypes
  <2>3. QED
    BY <1>1, <1>3, <2>1, <2>2 DEF LinkTypes
<1>5. Places'
  <2>1. \A v \in Writer : writer'[v].on <= sips
    BY <1>2, <1>3 DEF Places, LinkTypes
  <2>2. \A v \in Sender : writer'[v].part > 0 => writer'[v].on = sips /\ writer'[v].pkt \in {"out"} \X Nat
    BY <1>2, <1>3, Processes DEF Places
  <2>3. \A l \in Listener : writer'[l] = writer[l]
    BY <1>2, <1>3, Processes
  <2>4. QED
    BY <1>1, <2>1, <2>2, <2>3 DEF Places
<1>6. SipRun'
  BY <1>1 DEF SipRun
<1>7. SonRun'
  <2>1. \A j \in 1..sips : SonAt(j)' = SonAt(j)
    BY <1>1 DEF SonAt
  <2>2. QED
    BY <1>1, <2>1, SonRunKept
<1>8. ClosedLate'
  <2>1. \A k : SipHasGone(k)'
    BY <1>1 DEF SipHasGone
  <2>2. \A v \in Sender : writer'[v].part > 0 => writer'[v] = writer[v]
    BY <1>2, <1>3, Processes
  <2>3. QED
    BY <1>1, <2>1, <2>2 DEF ClosedLate
<1>9. KilledExplained'
  <2> SUFFICES ASSUME torn = {}, "SIP" \notin outside PROVE ~sonAlive
    BY <1>1 DEF KilledExplained
  <2>1. sips > 0 /\ sips \in 1..sips
    BY <1>1 DEF Places, LinkTypes
  <2>2. QED
    BY <1>1, <2>1 DEF KilledExplained, SonHasGone
<1>10. QED
  BY <1>4, <1>5, <1>6, <1>7, <1>8, <1>9

\* The SIP process ends, perhaps after it has sent CLOSE.
LEMMA EndsInv ==
  ASSUME LinkInv, sip = "up", SipEnds, UNCHANGED <<sips, sonVars, frames, got>>,
         outside' = outside \cup {"SIP"} \/ (outside' = outside /\ (SonHasGone \/ ~son_conn)),
         toSon' \in [1..MaxSips -> Seq(Token(Pkt))],
         \A k \in 1..MaxSips : k # sips \/ SonHasGone => toSon'[k] = toSon[k],
         lone' = lone \/ (lone' = lone \cup {<<<<"out", 0>>, sips>>} /\ ~SonHasGone),
         torn' = torn \/ torn' = torn \cup {sips},
         SonRun'
  PROVE  LinkInv'
<1> USE DEF LinkInv
<1>1. PICK k \in 1..sips : k = sips /\ k \in 1..MaxSips /\ k > 0
  BY LinkAssumption DEF LinkTypes, Places
<1>2. /\ UNCHANGED <<sonAlive, sip_conn, shut, sonReader, sips, frames, got>>
      /\ sip' = "off" /\ son_conn' = FALSE /\ sipReader' = AtStart /\ returned' = {}
      /\ toSip' = [toSip EXCEPT ![k] = <<>>]
      /\ writer' = [w \in Writer |-> IF w \in Sender THEN Idle ELSE writer[w]]
  BY <1>1 DEF SipEnds, sonVars
<1>3. Idle \in WriterState /\ Idle.part = 0 /\ Idle.on = 0
  BY LinkAssumption DEF Idle, WriterState
<1>4. /\ writer' \in [Writer -> WriterState] /\ (\A s \in Sender : writer'[s] = Idle)
      /\ \A l \in Listener : writer'[l] = writer[l]
  <2>1. \A w \in Writer : (IF w \in Sender THEN Idle ELSE writer[w]) \in WriterState
    BY <1>3 DEF LinkTypes
  <2>2. QED
    BY <1>2, <2>1, Processes
<1>5. toSip' \in [1..MaxSips -> Seq(Token(Pkt))] /\ toSip'[k] = <<>> /\ \A j \in 1..MaxSips : j # k => toSip'[j] = toSip[j]
  <2>1. <<>> \in Seq(Token(Pkt))
    OBVIOUS
  <2>2. QED
    BY <1>1, <1>2, <2>1 DEF LinkTypes
<1>6. LinkTypes'
  <2>1. son_conn' \in BOOLEAN /\ sip' \in {"off", "up"} /\ returned' \in SUBSET Sender
    BY <1>2
  <2>2. outside' \in SUBSET {"SON", "SIP"}
    BY DEF LinkTypes
  <2>3. sipReader' \in Readers(Pkt)
    BY <1>2 DEF AtStart, Readers
  <2>4. torn' \in SUBSET (1..sips)
    BY <1>1 DEF LinkTypes
  <2>5. lone' \in SUBSET (Pkt \X (1..sips))
    <3>1. <<"out", 0>> \in {"in", "out"} \X Nat
      OBVIOUS
    <3>2. <<"out", 0>> \in Pkt
      BY <3>1 DEF Pkt
    <3>3. PICK f \in Pkt \X (1..sips) : f = <<<<"out", 0>>, sips>>
      BY <1>1, <3>2
    <3>4. lone' = lone \/ lone' = lone \cup {f}
      BY <3>3
    <3>5. QED
      BY <1>2, <3>4 DEF LinkTypes
  <2>6. QED
    BY <1>2, <1>4, <1>5, <2>1, <2>2, <2>3, <2>4, <2>5 DEF LinkTypes
<1>7. Places'
  <2>1. \A v \in Writer : writer'[v].on <= sips
    BY <1>1, <1>3, <1>4, Processes DEF Places
  <2>2. \A j \in 1..MaxSips : j \notin shut /\ j # sip_conn => toSip'[j] = <<>>
    BY <1>5 DEF Places
  <2>3. \A j \in 1..MaxSips : j > sips \/ j \in shut => toSon'[j] = <<>>
    <3>1. k \in shut => SonHasGone
      BY <1>1 DEF SonHasGone
    <3>2. k <= sips
      BY <1>1
    <3>3. QED
      BY <1>1, <3>1, <3>2 DEF Places
  <2>4. torn' = {} /\ "SIP" \notin outside' => sips <= 1
    BY DEF Places
  <2>5. \A s \in Sender : ~(writer'[s].part > 0)
    BY <1>3, <1>4
  <2>6. ~son_conn' /\ sip' # "up"
    BY <1>2
  <2>7. \A l \in Listener : writer'[l].on \in shut \cup {sip_conn, 0} /\ (writer'[l].part > 0 => writer'[l].pkt \in {"in"} \X Nat)
    BY <1>4 DEF Places
  <2>8. sip_conn' \notin shut'
    BY <1>2 DEF Places
  <2>9. sip' = "off" => sipReader' = AtStart /\ \A s \in Sender : writer'[s] = Idle
    BY <1>2, <1>4
  <2>10. sips' = sips /\ shut' = shut /\ sip_conn' = sip_conn /\ sipReader' = AtStart
    BY <1>2
  <2>11. QED
    BY <2>1, <2>2, <2>3, <2>4, <2>5, <2>6, <2>7, <2>8, <2>9, <2>10 DEF Places
<1>8. SipRun'
  BY <1>2 DEF SipRun
<1>9. ClosedLate'
  <2>1. \A j : SipHasGone(j)'
    BY <1>2 DEF SipHasGone
  <2>2. \A s \in Sender : ~(writer'[s].part > 0)
    BY <1>3, <1>4
  <2>3. \A j \in shut : j \notin torn' => \A f \in lone' : f[2] = j /\ f[1][1] = "out" => f[1] \in got
    <3>1. \A j \in shut : \A f \in lone' : f[2] = j => f \in lone
      BY DEF SonHasGone
    <3>2. torn \subseteq torn'
      OBVIOUS
    <3>3. QED
      BY <3>1, <3>2 DEF ClosedLate
  <2>4. QED
    BY <1>2, <2>1, <2>2, <2>3 DEF ClosedLate
<1>10. KilledExplained'
  <2> SUFFICES ASSUME torn' = {}, "SIP" \notin outside' PROVE KilledExplained'
    BY DEF KilledExplained
  <2>1. torn = {} /\ outside' = outside /\ "SIP" \notin outside /\ (SonHasGone \/ ~son_conn)
    OBVIOUS
  <2>2. shut = {} /\ (~sonAlive => "SON" \in outside) /\ (sonAlive => son_conn)
    BY <1>1, <2>1 DEF KilledExplained
  <2>3. ~sonAlive
    BY <2>1, <2>2 DEF SonHasGone
  <2>4. QED
    BY <1>2, <2>1, <2>2, <2>3 DEF KilledExplained
<1>11. QED
  BY <1>6, <1>7, <1>8, <1>9, <1>10

\* waitSTCP ends the process when son_sendpkt returns -1, SIGPIPE whoever sends.
LEMMA FailsInv ==
  ASSUME LinkInv, NEW s \in Sender, SendFails(s) \/ SipKilled(s)
  PROVE  LinkInv'
<1>1. CASE SendFails(s) /\ s # "waitSTCP"
  BY <1>1, ReturnsInv
<1>2. CASE SipKilled(s) \/ (SendFails(s) /\ s = "waitSTCP")
  <2>1. /\ sip = "up" /\ SipEnds /\ (SonHasGone \/ ~son_conn)
        /\ UNCHANGED <<sips, outside, toSon, sonVars, lone, torn, frames, got>>
    BY <1>2 DEF SendFails, SipKilled
  <2>2. toSon' \in [1..MaxSips -> Seq(Token(Pkt))]
    BY <2>1 DEF LinkInv, LinkTypes
  <2>3. \A j \in 1..sips : SonAt(j)' = SonAt(j)
    BY <2>1 DEF SonAt, sonVars
  <2>4. SonRun'
    BY <2>1, <2>3, SonRunKept DEF SipEnds, sonVars
  <2>5. QED
    BY <2>1, <2>2, <2>4, EndsInv
<1>3. QED
  BY <1>1, <1>2

\* sip_stop.  Its CLOSE is received unless it is sent into another frame.
LEMMA StopInv == ASSUME LinkInv, StopSip PROVE LinkInv'
<1>1. /\ sip = "up" /\ SipEnds /\ outside' = outside \cup {"SIP"} /\ UNCHANGED <<sips, sonVars, frames, got>>
      /\ UNCHANGED <<sonAlive, shut, sip_conn, sonReader>> /\ son_conn' = FALSE
  BY DEF StopSip, SipEnds, sonVars
<1>2. LinkTypes /\ Places /\ SonRun
  BY DEF LinkInv
<1>3. PICK k \in 1..sips : k = sips /\ k \in 1..MaxSips
  BY <1>1, <1>2, LinkAssumption DEF LinkTypes, Places
<1>4. \A j \in 1..sips : SonAt(j)' = SonAt(j)
  BY <1>1 DEF SonAt
<1>5. CASE UNCHANGED <<toSon, lone, torn>>
  <2>1. toSon' \in [1..MaxSips -> Seq(Token(Pkt))]
    BY <1>2, <1>5 DEF LinkTypes
  <2>2. SonRun'
    BY <1>1, <1>4, <1>5, SonRunKept
  <2>3. QED
    BY <1>1, <1>5, <2>1, <2>2, EndsInv
<1>6. CASE /\ son_conn /\ ~SonHasGone /\ toSon' = [toSon EXCEPT ![sips] = @ \o Frame(<<"out", 0>>)]
           /\ lone' = IF Inside("signal", sips) = {} THEN lone \cup {<<<<"out", 0>>, sips>>} ELSE lone
           /\ torn' = IF Inside("signal", sips) # {} THEN torn \cup {sips} ELSE torn
  <2>1. PICK p \in Pkt : p = <<"out", 0>> /\ p[1] = "out"
    <3>1. <<"out", 0>> \in {"in", "out"} \X Nat
      OBVIOUS
    <3>2. QED
      BY <3>1 DEF Pkt
  <2>2. /\ son_conn /\ ~SonHasGone
        /\ toSon' = [toSon EXCEPT ![k] = @ \o Frame(p)]
        /\ lone' = (IF Inside("signal", k) = {} THEN lone \cup {<<p, k>>} ELSE lone)
        /\ torn' = (IF Inside("signal", k) # {} THEN torn \cup {k} ELSE torn)
    BY <1>3, <1>6, <2>1
  <2>3. PICK q \in Seq(Token(Pkt)) : q = toSon[k]
    BY <1>2, <1>3 DEF LinkTypes
  <2>4. k \notin shut /\ sonAlive
    BY <1>3, <2>2 DEF SonHasGone
  <2>5. PICK ss : Follows(Pkt, ss, SonAt(k), q) /\ SonReads(ss, k)
    BY <1>2, <2>3, <2>4 DEF SonRun
  <2>6. PICK u \in Seq(Token(Pkt)) : u = q \o Frame(p)
    BY <2>1, <2>5, FrameRead
  <2>7. PICK tt : /\ Follows(Pkt, tt, SonAt(k), u)
                  /\ \A o : Whole(ss, q, o) => Whole(tt, u, o)
                  /\ ss[Len(q)].state = "PKTSTART1" => Whole(tt, u, p) /\ (Clean(ss, q) => Clean(tt, u))
                  /\ ss[Len(q)] \in Readers(Pkt)
    <3>1. ss[Len(q)] \in Readers(Pkt)
      <4>1. Start \in Token(Pkt)
        BY DEF Token
      <4>2. QED
        BY <2>5, <4>1, Extended
    <3>2. QED
      BY <2>1, <2>5, <2>6, <3>1, FrameRead
  <2>8. /\ toSon' = [toSon EXCEPT ![k] = u] /\ toSon'[k] = u /\ \A j \in 1..MaxSips : j # k => toSon'[j] = toSon[j]
        /\ toSon' \in [1..MaxSips -> Seq(Token(Pkt))]
    <3>1. toSon' = [toSon EXCEPT ![k] = u]
      BY <2>2, <2>3, <2>6
    <3>2. QED
      BY <1>2, <1>3, <2>6, <2>7, <3>1 DEF LinkTypes
  <2>9. Inside("signal", k) = {} => ss[Len(q)].state = "PKTSTART1"
    <3>1. Explains(ss[Len(q)], Sender, k, writer)
      BY <1>3, <2>2, <2>3, <2>5 DEF SonReads
    <3>2. Inside("signal", k) = {v \in Sender \ {"signal"} : writer[v].part > 1 /\ writer[v].on = k} /\ "signal" \notin Sender
      BY Processes
    <3>3. Inside("signal", k) = {} => \A v \in Sender : ~(writer[v].on = k /\ writer[v].part \in {2, 3})
      BY <3>2
    <3>4. ss[Len(q)].state \in {"PKTSTART1", "PKTRECV", "GARBLED", "PKTSTOP1"}
      BY <2>6, <2>7 DEF Readers
    <3>5. QED
      BY <3>1, <3>3, <3>4 DEF Explains
  <2>10. SonRun'
    <3> SUFFICES ASSUME NEW j \in 1..sips, j \notin shut
                 PROVE  \E vv : Follows(Pkt, vv, SonAt(j), toSon'[j]) /\ SonReads(vv, j)'
      BY <1>1, <1>4 DEF SonRun
    <3>1. CASE j = k
      <4>1. \A f \in lone' : f[2] = k /\ f[1][1] = "out" => f[1] \in got \/ Whole(tt, u, f[1])
        <5>1. \A f \in lone' : f \in lone \/ (f[1] = p /\ Whole(tt, u, p))
          BY <2>2, <2>6, <2>7, <2>9
        <5>2. QED
          BY <2>3, <2>5, <2>6, <2>7, <5>1 DEF SonReads
      <4>2. k \notin torn' => Clean(tt, u)
        BY <2>2, <2>3, <2>5, <2>6, <2>7, <2>9 DEF SonReads
      <4>3. SonReads(tt, k)'
        BY <1>1, <2>8, <4>1, <4>2 DEF SonReads
      <4>4. QED
        BY <2>6, <2>7, <2>8, <3>1, <4>3
    <3>2. CASE j # k
      <4>1. j \in 1..MaxSips /\ toSon'[j] = toSon[j] /\ torn \subseteq torn'
        BY <1>2, <2>2, <2>8, <3>2, LinkAssumption DEF LinkTypes
      <4>2. \A f \in lone' : f \in lone \/ f[2] # j
        BY <2>2, <3>2
      <4>3. QED
        BY <1>1, <2>4, <4>1, <4>2, SonReadsKept
    <3>3. QED
      BY <3>1, <3>2
  <2>11. lone' = lone \/ (lone' = lone \cup {<<<<"out", 0>>, sips>>} /\ ~SonHasGone)
    BY <1>3, <2>1, <2>2
  <2>12. torn' = torn \/ torn' = torn \cup {sips}
    BY <1>3, <2>2
  <2>13. \A j \in 1..MaxSips : j # sips \/ SonHasGone => toSon'[j] = toSon[j]
    BY <1>3, <2>2, <2>8
  <2>14. QED
    BY <1>1, <2>8, <2>10, <2>11, <2>12, <2>13, EndsInv
<1>7. QED
  BY <1>5, <1>6 DEF StopSip

\* forwardpktToSIP: what its next send() does.
LEMMA ForwardPartInv == ASSUME LinkInv, NEW l \in Listener, ForwardPart(l) PROVE LinkInv'
<1>1. UNCHANGED <<sip, sips, son_conn, sipReader, returned, outside, frames, got>> /\ sonAlive /\ writer[l].part > 0
  BY DEF ForwardPart, sipVars
<1>2. CASE /\ sip_conn # 0 /\ Wrote(l, sip_conn) /\ UNCHANGED <<sonVars, toSon>>
           /\ toSip' = IF SipHasGone(sip_conn) THEN toSip
                       ELSE [toSip EXCEPT ![sip_conn] = Append(@, Part(writer[l].part, writer[l].pkt))]
  BY <1>1, <1>2, ForwardInv DEF sonVars, sipVars
<1>3. CASE (sip_conn # writer[l].on \/ SipHasGone(sip_conn)) /\ GivesUp(l) /\ UNCHANGED <<sonVars, streams>>
  BY <1>1, <1>3, ForwardFailsInv DEF sipVars
<1>4. CASE sip_conn # 0 /\ SipHasGone(sip_conn) /\ SonEnds /\ UNCHANGED toSip
  BY <1>1, <1>4, SonEndsInv
<1>5. QED
  BY <1>2, <1>3, <1>4 DEF ForwardPart

\* Every step of the two processes.
LEMMA LinkStep == ASSUME LinkInv, [LinkNext]_linkState PROVE LinkInv'
<1>1. CASE LinkNext
  <2>1. CASE AcceptSip
    BY <2>1, AcceptInv
  <2>2. CASE GetToken \/ SipClosed
    BY <2>2, GetTokenInv
  <2>11. CASE SonStops
    BY <2>11, SonEndsInv DEF SonStops
  <2>3. CASE \E l \in Listener : Arrives(l)
    BY <2>3, BeginInv
  <2>4. CASE \E l \in Listener : ForwardPart(l)
    BY <2>4, ForwardPartInv
  <2>5. CASE StartSip
    BY <2>5, StartSipInv
  <2>6. CASE Handle
    BY <2>6, HandleInv
  <2>7. CASE StopSip
    BY <2>7, StopInv
  <2>8. CASE \E s \in Sender : Begin(s)
    BY <2>8, BeginInv
  <2>9. CASE \E s \in Sender : SendToSon(s)
    BY <2>9, SendInv
  <2>10. CASE \E s \in Sender : SendFails(s) \/ SipKilled(s)
    BY <2>10, FailsInv
  <2>12. QED
    BY <1>1, <2>1, <2>2, <2>3, <2>4, <2>5, <2>6, <2>7, <2>8, <2>9, <2>10, <2>11 DEF LinkNext
<1>2. CASE UNCHANGED linkState
  <2>1. /\ UNCHANGED <<sonAlive, sip, sips, son_conn, sip_conn, shut, toSip, toSon, sipReader, sonReader>>
        /\ UNCHANGED <<writer, returned, frames, lone, got, torn, outside>>
    BY <1>2 DEF linkState
  <2>2. LinkTypes' /\ Places'
    BY <2>1 DEF LinkInv, LinkTypes, Places
  <2>3. \A j \in 1..sips : SonAt(j)' = SonAt(j)
    BY <2>1 DEF SonAt
  <2>4. SipRun' /\ SonRun'
    BY <2>1, <2>3, SipRunKept, SonRunKept DEF Quiet
  <2>5. ClosedLate' /\ KilledExplained'
    BY <2>1 DEF LinkInv, ClosedLate, KilledExplained, SipHasGone
  <2>6. QED
    BY <2>2, <2>4, <2>5 DEF LinkInv
<1>3. QED
  BY <1>1, <1>2

\* The connection, the frames on it and the threads that write them always
\* agree: sip.c and son.c, whatever the interleaving of their send() calls.
THEOREM LinkInvariance == LinkSpec => []LinkInv
<1>1. LinkInv /\ [LinkNext]_linkState => LinkInv'
  BY LinkStep
<1>2. QED
  BY LinkInitInv, <1>1, PTL DEF LinkSpec

\* The variables of the connection between son.c and sip.c have their types.
THEOREM LinkTyped == LinkSpec => []LinkTypeOK
<1>1. LinkInv => LinkTypeOK
  BY Processes DEF LinkInv, LinkTypes, Places, LinkTypeOK, WriterState, Readers
<1>2. QED
  BY LinkInvariance, <1>1, PTL

\* A frame that no other thread's frame overlapped is received or still on its
\* way: getpktToSend of son.c and son_recvpkt of sip.c find it whatever stands
\* before it, for every number of neighbours and of SIP processes.
THEOREM LoneFrameDelivered == LinkSpec => []LoneFrameArrives
<1>1. ASSUME LinkInv PROVE LoneFrameArrives
  <2> USE DEF LinkInv
  <2> SUFFICES ASSUME NEW f \in lone, f[1] \notin got
               PROVE  \/ f[1][1] = "in" /\ (SipHasGone(f[2]) \/ "pkthandler" \in returned \/ OnWay(toSip[f[2]], sipReader, f[1]))
                      \/ f[1][1] = "out" /\ (~sonAlive \/ f[2] \in shut \cap torn \/ OnWay(toSon[f[2]], sonReader, f[1]))
    BY DEF LoneFrameArrives
  <2>1. PICK k \in 1..sips : k = f[2] /\ k \in 1..MaxSips /\ sips \in Nat
    BY <1>1, LinkAssumption DEF LinkTypes
  <2>2. f[1][1] \in {"in", "out"}
    BY <1>1 DEF LinkTypes, Pkt
  <2>3. CASE f[1][1] = "in"
    <3> SUFFICES ASSUME ~SipHasGone(k) PROVE OnWay(toSip[k], sipReader, f[1])
      BY <2>1, <2>3
    <3>1. k = sips /\ son_conn
      BY DEF SipHasGone
    <3>2. PICK ss : Follows(Pkt, ss, sipReader, toSip[k]) /\ Whole(ss, toSip[k], f[1])
      BY <1>1, <2>1, <2>3, <3>1 DEF SipRun, SipReads
    <3>3. toSip[k] \in Seq(Token(Pkt))
      BY <1>1, <2>1 DEF LinkTypes
    <3>4. QED
      BY <3>2, <3>3, WholeOnWay DEF OnWay
  <2>4. CASE f[1][1] = "out"
    <3> SUFFICES ASSUME sonAlive, k \notin shut \cap torn PROVE OnWay(toSon[k], sonReader, f[1])
      BY <2>1, <2>4
    <3>1. k \notin shut
      BY <1>1, <2>1, <2>4 DEF ClosedLate
    <3>2. PICK ss : Follows(Pkt, ss, SonAt(k), toSon[k]) /\ Whole(ss, toSon[k], f[1])
      BY <1>1, <2>1, <2>4, <3>1 DEF SonRun, SonReads
    <3>3. toSon[k] \in Seq(Token(Pkt))
      BY <1>1, <2>1 DEF LinkTypes
    <3>4. (\E i \in DOMAIN toSon[k] : toSon[k][i].pkt = f[1]) \/ (SonAt(k).state = "PKTSTOP1" /\ SonAt(k).pkt = f[1])
      BY <3>2, <3>3, WholeOnWay
    <3>5. QED
      BY <3>4 DEF OnWay, SonAt, AtStart
  <2>5. QED
    BY <2>2, <2>3, <2>4
<1>2. QED
  BY LinkInvariance, <1>1, PTL

\* Only overlapping frames, or what ends one of the two processes from outside,
\* ever makes forwardpktToSIP, son_sendpkt and waitSIP end the other or close
\* their connection.
THEOREM KilledAccounted == LinkSpec => []KilledExplained
<1>1. LinkInv => KilledExplained
  BY DEF LinkInv
<1>2. QED
  BY LinkInvariance, <1>1, PTL

-----------------------------------------------------------------------------
(* SonOverlay: the connections of the mesh and what is on them             *)

Packet == {<<"sip">>, <<"CLOSE">>}
Table(X) == UNION {[S -> X] : S \in SUBSET Node}
SetCell(f, n, m, x) == [f EXCEPT ![n][m] = x]
Tabled(X, f) == f \in [Node -> Table(X)] /\ \A n \in Node : f[n] \in [Nbr[n] -> X]

OverlayTypes ==
  /\ son \in [Node -> {"off", "starting", "running"}] /\ runs \in [Node -> 0..MaxStarts]
  /\ Tabled(Conns \cup {None}, conn) /\ Tabled(Readers(Packet), reader)
  /\ conNum \in [Node -> Nat] /\ accepting \in [Node -> BOOLEAN] /\ backlog \in [Node -> Seq(Conns)]
  /\ open \in SUBSET Ends /\ chan \in [Ends -> Seq(Token(Packet))]
  /\ targets \in [Node -> SUBSET Node] /\ (\A n \in Node : targets[n] \subseteq Nbr[n])
  /\ part \in [Node -> 1..3] /\ pkts \in Nat /\ told \in SUBSET Ends /\ heard \in SUBSET Ends

\* A table holds the end of a connection with that neighbour, the one that
\* connected the connection of this run.
Held ==
  \A n \in Node : \A m \in Nbr[n] : conn[n][m] # None =>
    /\ <<conn[n][m], n>> \in open /\ Peer(conn[n][m], n) = m
    /\ m < n => conn[n][m][3] = runs[n]

\* waitNbrs has yet to accept c, each once.
Waits(n, c) == \E i \in DOMAIN backlog[n] : backlog[n][i] = c
Waiting ==
  \A n \in Node :
    /\ \A i \in DOMAIN backlog[n] :
         LET c == backlog[n][i] IN <<c, n>> \in open /\ c[2] = n /\ conn[n][c[1]] # c
    /\ \A i, j \in DOMAIN backlog[n] : backlog[n][i] = backlog[n][j] => i = j

\* Ends belong to processes that run, and to runs there were.  Who has sent
\* CLOSE has left the connection.
Opened ==
  /\ (\A e \in open : son[e[2]] # "off") /\ (\A n \in Node : son[n] # "off" => runs[n] >= 1)
  /\ \A e \in open \cup told : e[1][3] <= runs[e[1][1]] /\ runs[e[1][2]] >= 1
  /\ \A e \in told : conn[Peer(e[1], e[2])][e[2]] # e[1] /\ ~Waits(Peer(e[1], e[2]), e[1])

\* Before it runs a process has neither read nor sent.
Early ==
  \A n \in Node :
    /\ son[n] = "off" => (\A m \in Nbr[n] : conn[n][m] = None) /\ backlog[n] = <<>>
    /\ son[n] # "running" => (\A m \in Nbr[n] : reader[n][m] = AtStart) /\ targets[n] = {}
    /\ targets[n] = {} => part[n] = 1
    /\ accepting[n] => conNum[n] < Cardinality(Larger(n))
    /\ conNum[n] <= Cardinality(Larger(n))
    /\ son[n] = "starting" /\ ~accepting[n] => conNum[n] = Cardinality(Larger(n))

\* A connection that connectNbrs has still to make, in this run or a later one.
Unused(c) ==
  \/ c[3] > runs[c[1]]
  \/ c[3] = runs[c[1]] /\ son[c[1]] = "starting" /\ conn[c[1]][c[2]] = None
Fresh == \A e \in Ends : Unused(e[1]) => e \notin open \cup told /\ chan[e] = <<>>

\* What the listener at an open end will read: the other side sends frames one
\* after another, and the CLOSE it counts as told after a whole one.
ReaderAt(e) == IF conn[e[2]][Peer(e[1], e[2])] = e[1] THEN reader[e[2]][Peer(e[1], e[2])] ELSE AtStart
Sending(m, n) ==
  IF part[m] # 1 /\ n = Min(targets[m]) THEN IF part[m] = 2 THEN "PKTRECV" ELSE "PKTSTOP1" ELSE "PKTSTART1"
Reads(ss, e) ==
  LET m == Peer(e[1], e[2]) IN
  /\ conn[m][e[2]] = e[1] => Clean(ss, chan[e]) /\ ss[Len(chan[e])].state = Sending(m, e[2])
  /\ Waits(m, e[1]) => Clean(ss, chan[e]) /\ ss[Len(chan[e])].state = "PKTSTART1"
  /\ e \in told => Clean(ss, chan[e]) /\ (e \in heard \/ Whole(ss, chan[e], <<"CLOSE">>))
Channel(e) == \E ss : Follows(Packet, ss, ReaderAt(e), chan[e]) /\ Reads(ss, e)
Channels == \A e \in open : Channel(e)

OverlayInv ==
  /\ OverlayTypes /\ Held /\ Waiting /\ Opened /\ Early /\ Fresh /\ Channels
  /\ CloseAnnounced

\* The parts of a connection and of an end.
LEMMA ConnFacts ==
  /\ None \notin Conns
  /\ \A c \in Conns : c[1] \in Node /\ c[2] \in Node /\ c[3] \in 1..MaxStarts /\ c = <<c[1], c[2], c[3]>>
  /\ \A n \in Node : Nbr[n] \subseteq Node /\ n \notin Nbr[n] /\ (\A m \in Nbr[n] : n \in Nbr[m] /\ m \in Nat /\ n \in Nat)
BY OverlayAssumption DEF Conns, None

LEMMA EndFacts ==
  ASSUME NEW e \in Ends
  PROVE  /\ e[1] \in Conns /\ e[2] \in Node /\ e = <<e[1], e[2]>>
         /\ e[1][1] \in Node /\ e[1][2] \in Node /\ e[1][3] \in 1..MaxStarts
         /\ e[1][2] \in Nbr[e[1][1]] /\ e[1][1] \in Nbr[e[1][2]] /\ e[1][2] < e[1][1]
         /\ e[2] \in {e[1][1], e[1][2]}
         /\ Peer(e[1], e[2]) \in Nbr[e[2]] /\ e[2] \in Nbr[Peer(e[1], e[2])] /\ Peer(e[1], e[2]) # e[2]
         /\ Peer(e[1], e[2]) \in Node
         /\ Peer(e[1], Peer(e[1], e[2])) = e[2]
         /\ Peer(e[1], e[2]) \in {e[1][1], e[1][2]}
<1>1. e[1] \in Conns /\ e[2] \in Node /\ e = <<e[1], e[2]>> /\ e[1][2] \in Smaller(e[1][1]) /\ e[2] \in {e[1][1], e[1][2]}
  BY DEF Ends
<1>2. e[1][1] \in Node /\ e[1][2] \in Node /\ e[1][3] \in 1..MaxStarts
  BY <1>1, ConnFacts
<1>3. e[1][2] \in Nbr[e[1][1]] /\ e[1][1] \in Nbr[e[1][2]] /\ e[1][2] < e[1][1] /\ e[1][1] # e[1][2]
  BY <1>1, <1>2, ConnFacts DEF Smaller
<1>4. QED
  BY <1>1, <1>2, <1>3 DEF Peer

\* The connection that n makes to m, and its ends.
LEMMA MadeBy ==
  ASSUME NEW n \in Node, NEW m \in Smaller(n), NEW k \in 1..MaxStarts
  PROVE  LET c == <<n, m, k>> IN
         /\ m \in Node /\ m \in Nbr[n] /\ n \in Nbr[m] /\ m # n
         /\ c \in Conns /\ c # None /\ c[1] = n /\ c[2] = m /\ c[3] = k
         /\ <<c, n>> \in Ends /\ <<c, m>> \in Ends /\ Peer(c, n) = m /\ Peer(c, m) = n
<1>1. m \in Node /\ m \in Nbr[n] /\ m # n /\ n \in Nbr[m]
  BY ConnFacts DEF Smaller
<1>2. PICK c : c = <<n, m, k>>
  OBVIOUS
<1>3. c[1] = n /\ c[2] = m /\ c[3] = k
  BY <1>2
<1>4. c \in Conns /\ c # None
  BY <1>1, <1>2, ConnFacts DEF Conns
<1>5. <<c, n>> \in Ends /\ <<c, m>> \in Ends
  BY <1>1, <1>3, <1>4 DEF Ends
<1>6. Peer(c, n) = m /\ Peer(c, m) = n
  BY <1>1, <1>3 DEF Peer
<1>7. QED
  BY <1>1, <1>2, <1>3, <1>4, <1>5, <1>6

\* The end a table names.
LEMMA HeldEnd ==
  ASSUME OverlayTypes, Held, NEW n \in Node, NEW m \in Nbr[n], conn[n][m] # None
  PROVE  LET e == <<conn[n][m], n>> IN
         /\ e \in Ends /\ e \in open /\ e[1] = conn[n][m] /\ e[2] = n /\ Peer(e[1], e[2]) = m /\ ReaderAt(e) = reader[n][m]
BY DEF Held, OverlayTypes, ReaderAt

\* A changed row, or one cell, of a table.
LEMMA Row ==
  ASSUME NEW X, NEW f, Tabled(X, f), NEW n \in Node, NEW row \in [Nbr[n] -> X], NEW g, g = Put(f, n, row)
  PROVE  Tabled(X, g) /\ g[n] = row /\ \A k \in Node : k # n => g[k] = f[k]
<1>1. row \in Table(X)
  BY ConnFacts DEF Table
<1>2. QED
  BY <1>1 DEF Put, Tabled

LEMMA Cell ==
  ASSUME NEW X, NEW f, Tabled(X, f), NEW n \in Node, NEW m \in Nbr[n], NEW x \in X,
         NEW g, g = SetCell(f, n, m, x)
  PROVE  Tabled(X, g) /\ g[n][m] = x /\ \A k \in Node : \A o \in Nbr[k] : k # n \/ o # m => g[k][o] = f[k][o]
<1>1. PICK row : row = [f[n] EXCEPT ![m] = x]
  OBVIOUS
<1>2. row \in [Nbr[n] -> X] /\ row[m] = x /\ \A o \in Nbr[n] : o # m => row[o] = f[n][o]
  BY <1>1 DEF Tabled
<1>3. g = Put(f, n, row)
  BY <1>1 DEF Put, SetCell
<1>4. Tabled(X, g) /\ g[n] = row /\ \A k \in Node : k # n => g[k] = f[k]
  BY <1>2, <1>3, Row
<1>5. QED
  BY <1>2, <1>4

\* Starts are bounded.
LEMMA RunsBelow ==
  ASSUME OverlayTypes, NEW n \in Node,
         Cardinality({r \in Node \X (1..MaxStarts) : r[2] <= runs[r[1]]}) < MaxStarts
  PROVE  runs[n] < MaxStarts
<1> SUFFICES ASSUME ~(runs[n] < MaxStarts) PROVE FALSE
  OBVIOUS
<1>1. runs[n] = MaxStarts /\ MaxStarts \in Nat
  BY OverlayAssumption DEF OverlayTypes
<1>2. PICK S : S = {r \in Node \X (1..MaxStarts) : r[2] <= runs[r[1]]}
  OBVIOUS
<1>3. IsFiniteSet(1..MaxStarts) /\ Cardinality(1..MaxStarts) = MaxStarts
  BY <1>1, FS_Interval
<1>4. IsFiniteSet(Node \X (1..MaxStarts))
  BY <1>3, OverlayAssumption, FS_Product
<1>5. IsFiniteSet(S)
  BY <1>2, <1>4, FS_Subset
<1>6. IsFiniteSet({n}) /\ Cardinality({n}) = 1
  BY FS_Singleton
<1>7. PICK T : T = {n} \X (1..MaxStarts)
  OBVIOUS
<1>8. IsFiniteSet(T) /\ Cardinality(T) = MaxStarts
  <2>1. Cardinality({n} \X (1..MaxStarts)) = Cardinality({n}) * Cardinality(1..MaxStarts)
    BY <1>3, <1>6, FS_Product
  <2>2. IsFiniteSet({n} \X (1..MaxStarts))
    BY <1>3, <1>6, FS_Product
  <2>3. QED
    BY <1>1, <1>3, <1>6, <1>7, <2>1, <2>2
<1>9. T \in SUBSET S
  BY <1>1, <1>2, <1>7
<1>10. Cardinality(T) <= Cardinality(S) /\ Cardinality(S) \in Nat
  BY <1>5, <1>9, FS_Subset, FS_CardinalityType
<1>11. QED
  BY <1>1, <1>2, <1>8, <1>10

\* What is on a connection stays good when neither its end nor its stream
\* changes, and the other side is no nearer to sending.
LEMMA ChannelKept ==
  ASSUME NEW e \in Ends, Channel(e), chan'[e] = chan[e], ReaderAt(e)' = ReaderAt(e),
         NEW m, m = Peer(e[1], e[2]),
         conn'[m][e[2]] = e[1] => \/ conn[m][e[2]] = e[1] /\ Sending(m, e[2])' = Sending(m, e[2])
                                  \/ Waits(m, e[1]) /\ Sending(m, e[2])' = "PKTSTART1",
         Waits(m, e[1])' => Waits(m, e[1]),
         e \in told' => e \in told, e \in heard => e \in heard'
  PROVE  Channel(e)'
<1>1. PICK ss : Follows(Packet, ss, ReaderAt(e), chan[e]) /\ Reads(ss, e)
  BY DEF Channel
<1>2. Follows(Packet, ss, ReaderAt(e), chan[e])'
  BY <1>1
<1>3. Reads(ss, e)'
  BY <1>1 DEF Reads
<1>4. QED
  BY <1>2, <1>3 DEF Channel

LEMMA OverlayInitInv == OverlayInit => OverlayInv
<1> SUFFICES ASSUME OverlayInit PROVE OverlayInv
  OBVIOUS
<1> USE DEF OverlayInit
<1>1. OverlayTypes
  <2>1. \A n \in Node : [m \in Nbr[n] |-> None] \in Table(Conns \cup {None}) /\ [m \in Nbr[n] |-> AtStart] \in Table(Readers(Packet))
    BY ConnFacts DEF Table, Readers, Packet, AtStart
  <2>2. AtStart \in Readers(Packet)
    BY DEF Readers, AtStart
  <2>3. Tabled(Conns \cup {None}, conn) /\ Tabled(Readers(Packet), reader)
    BY <2>1, <2>2 DEF Tabled
  <2>4. /\ son \in [Node -> {"off", "starting", "running"}] /\ runs \in [Node -> 0..MaxStarts]
        /\ conNum \in [Node -> Nat] /\ accepting \in [Node -> BOOLEAN] /\ backlog \in [Node -> Seq(Conns)]
    BY OverlayAssumption
  <2>5. /\ open \in SUBSET Ends /\ chan \in [Ends -> Seq(Token(Packet))]
        /\ targets \in [Node -> SUBSET Node] /\ (\A n \in Node : targets[n] \subseteq Nbr[n])
        /\ part \in [Node -> 1..3] /\ pkts \in Nat /\ told \in SUBSET Ends /\ heard \in SUBSET Ends
    OBVIOUS
  <2>6. QED
    BY <2>3, <2>4, <2>5 DEF OverlayTypes
<1>2. Held /\ Waiting
  BY ConnFacts DEF Held, Waiting
<1>3. Opened /\ Early /\ Fresh
  <2>1. \A n \in Node : Cardinality(Larger(n)) \in Nat
    BY FS_CardinalityType, FS_Subset, OverlayAssumption, ConnFacts DEF Larger
  <2>2. QED
    BY <2>1 DEF Opened, Early, Fresh
<1>4. Channels /\ CloseAnnounced
  BY DEF Channels, CloseAnnounced
<1>5. QED
  BY <1>1, <1>2, <1>3, <1>4 DEF OverlayInv

\* A process starts with nothing of its last run.
LEMMA StartSonInv ==
  ASSUME OverlayInv, NEW n \in Node, StartSon(n)
  PROVE  OverlayInv'
<1>1. /\ OverlayTypes /\ Held /\ Waiting /\ Opened /\ Early /\ Fresh /\ Channels
      /\ CloseAnnounced
  BY DEF OverlayInv
<1>2. /\ son[n] = "off" /\ runs[n] < MaxStarts /\ runs[n] \in Nat /\ MaxStarts \in Nat
      /\ son' = Put(son, n, "starting") /\ runs' = Put(runs, n, runs[n] + 1)
      /\ conNum' = Put(conNum, n, 0) /\ accepting' = Put(accepting, n, Larger(n) # {})
      /\ conn' = conn /\ backlog' = backlog /\ open' = open /\ chan' = chan /\ reader' = reader
      /\ targets' = targets /\ part' = part /\ pkts' = pkts /\ told' = told /\ heard' = heard
  <2>1. runs[n] < MaxStarts
    BY <1>1, RunsBelow DEF StartSon
  <2>2. runs[n] \in Nat /\ MaxStarts \in Nat
    BY <1>1, OverlayAssumption DEF OverlayTypes
  <2>3. QED
    BY <2>1, <2>2 DEF StartSon, Up, linkVars
<1>3. /\ son'[n] = "starting" /\ runs'[n] = runs[n] + 1 /\ conNum'[n] = 0 /\ accepting'[n] = (Larger(n) # {})
      /\ \A k \in Node : k # n => son'[k] = son[k] /\ runs'[k] = runs[k] /\ conNum'[k] = conNum[k] /\ accepting'[k] = accepting[k]
  BY <1>1, <1>2 DEF Put, OverlayTypes
<1>4. OverlayTypes'
  <2>1. son' \in [Node -> {"off", "starting", "running"}] /\ runs' \in [Node -> 0..MaxStarts]
    BY <1>1, <1>2 DEF OverlayTypes, Put
  <2>2. conNum' \in [Node -> Nat] /\ accepting' \in [Node -> BOOLEAN]
    BY <1>1, <1>2 DEF OverlayTypes, Put
  <2>3. QED
    BY <1>1, <1>2, <2>1, <2>2 DEF OverlayTypes
<1>5. \A k \in Node : runs[k] \in Nat /\ runs'[k] \in Nat /\ runs[k] <= runs'[k]
  <2>1. \A k \in Node : runs[k] \in Nat
    BY <1>1, <1>2 DEF OverlayTypes
  <2>2. QED
    BY <1>3, <2>1
<1>6. Held'
  BY <1>1, <1>2, <1>3 DEF Held, Early
<1>7. Waiting'
  BY <1>1, <1>2 DEF Waiting
<1>8. Opened'
  <2>1. \A e \in open \cup told : e[1][3] <= runs'[e[1][1]] /\ runs'[e[1][2]] >= 1
    <3>1. SUFFICES ASSUME NEW e \in open \cup told PROVE e[1][3] <= runs'[e[1][1]] /\ runs'[e[1][2]] >= 1
      OBVIOUS
    <3>2. e \in Ends
      BY <1>1 DEF OverlayTypes
    <3>3. e[1][1] \in Node /\ e[1][2] \in Node /\ e[1][3] \in Nat
      BY <3>2, EndFacts
    <3>4. e[1][3] <= runs[e[1][1]] /\ runs[e[1][2]] >= 1
      BY <1>1 DEF Opened
    <3>5. QED
      BY <1>5, <3>3, <3>4
  <2>2. \A e \in open : son'[e[2]] # "off"
    BY <1>1, <1>3, EndFacts DEF Opened, OverlayTypes
  <2>3. QED
    BY <1>1, <1>2, <1>3, <2>1, <2>2 DEF Opened, Waits
<1>9. Early'
  <2>1. Cardinality(Larger(n)) \in Nat /\ (Cardinality(Larger(n)) = 0 <=> Larger(n) = {})
    BY FS_CardinalityType, FS_Subset, FS_EmptySet, OverlayAssumption, ConnFacts DEF Larger
  <2>2. conNum'[n] <= Cardinality(Larger(n)) /\ (accepting'[n] => conNum'[n] < Cardinality(Larger(n)))
        /\ (~accepting'[n] => conNum'[n] = Cardinality(Larger(n)))
    <3>1. accepting'[n] <=> Larger(n) # {}
      BY <1>3
    <3>2. conNum'[n] = 0
      BY <1>3
    <3>3. QED
      BY <2>1, <3>1, <3>2
  <2>3. \A k \in Node : k # n => 
          /\ accepting'[k] => conNum'[k] < Cardinality(Larger(k))
          /\ conNum'[k] <= Cardinality(Larger(k))
          /\ son'[k] = "starting" /\ ~accepting'[k] => conNum'[k] = Cardinality(Larger(k))
    BY <1>1, <1>3 DEF Early
  <2>4. QED
    BY <1>1, <1>2, <1>3, <2>2, <2>3 DEF Early
<1>10. Fresh'
  <2>1. \A e \in Ends : Unused(e[1])' => Unused(e[1])
    BY <1>2, <1>3, EndFacts DEF Unused
  <2>2. QED
    BY <1>1, <1>2, <2>1 DEF Fresh
<1>11. Channels'
  <2> SUFFICES ASSUME NEW e \in open PROVE Channel(e)'
    BY <1>2 DEF Channels
  <2>1. e \in Ends /\ Channel(e)
    BY <1>1 DEF Channels, OverlayTypes
  <2>2. QED
    BY <1>2, <2>1, ChannelKept DEF ReaderAt, Sending, Waits
<1>12. CloseAnnounced'
  <2> SUFFICES ASSUME NEW e \in told, e \notin open, runs'[e[2]] <= 1, son'[e[2]] # "off" PROVE e \in heard
    BY <1>2 DEF CloseAnnounced, Up
  <2>1. e \in Ends /\ e[2] \in Node /\ e[1][3] >= 1 /\ e[1][3] \in Nat /\ e[2] \in {e[1][1], e[1][2]}
    BY <1>1, EndFacts DEF OverlayTypes
  <2>2. runs[e[2]] >= 1
    BY <1>1, <1>5, <2>1, EndFacts DEF Opened
  <2>3. e[2] # n
    BY <1>2, <1>3, <2>2
  <2>4. QED
    BY <1>1, <1>3, <2>1, <2>3 DEF CloseAnnounced, Up
<1>13. QED
  BY <1>4, <1>6, <1>7, <1>8, <1>9, <1>10, <1>11, <1>12 DEF OverlayInv

\* A new connection: nobody has used it before, and nothing is on it.
LEMMA ConnectInv ==
  ASSUME OverlayInv, NEW n \in Node, NEW m \in Node, Connect(n, m)
  PROVE  OverlayInv'
<1>1. /\ OverlayTypes /\ Held /\ Waiting /\ Opened /\ Early /\ Fresh /\ Channels
      /\ CloseAnnounced
  BY DEF OverlayInv
<1>2. PICK c : c = <<n, m, runs[n]>>
  OBVIOUS
<1>3. /\ son[n] = "starting" /\ m \in Smaller(n) /\ conn[n][m] = None /\ son[m] # "off"
      /\ conn' = SetCell(conn, n, m, c)
      /\ backlog' = Put(backlog, m, Append(backlog[m], c))
      /\ open' = open \cup {<<c, n>>, <<c, m>>}
      /\ son' = son /\ runs' = runs /\ conNum' = conNum /\ accepting' = accepting /\ chan' = chan /\ reader' = reader
      /\ targets' = targets /\ part' = part /\ pkts' = pkts /\ told' = told /\ heard' = heard
  BY <1>2 DEF Connect, Up, SetCell
<1>4. runs[n] \in 1..MaxStarts
  BY <1>1, <1>3, OverlayAssumption DEF OverlayTypes, Opened
<1>5. /\ m \in Nbr[n] /\ n \in Nbr[m] /\ m # n
      /\ c \in Conns /\ c # None /\ c[1] = n /\ c[2] = m /\ c[3] = runs[n]
      /\ <<c, n>> \in Ends /\ <<c, m>> \in Ends /\ Peer(c, n) = m /\ Peer(c, m) = n
  BY <1>2, <1>3, <1>4, MadeBy
<1>6. Unused(c)
  BY <1>3, <1>5 DEF Unused
<1>7. /\ <<c, n>> \notin open \cup told /\ <<c, m>> \notin open \cup told
      /\ chan[<<c, n>>] = <<>> /\ chan[<<c, m>>] = <<>>
  BY <1>1, <1>5, <1>6 DEF Fresh
<1>8. /\ Tabled(Conns \cup {None}, conn') /\ conn'[n][m] = c
      /\ \A k \in Node : \A o \in Nbr[k] : k # n \/ o # m => conn'[k][o] = conn[k][o]
  <2>1. PICK X : X = Conns \cup {None}
    OBVIOUS
  <2>2. c \in X /\ Tabled(X, conn)
    BY <1>1, <1>5, <2>1 DEF OverlayTypes
  <2>3. QED
    BY <1>3, <1>5, <2>1, <2>2, Cell
<1>9. /\ backlog' \in [Node -> Seq(Conns)] /\ backlog'[m] = Append(backlog[m], c)
      /\ backlog[m] \in Seq(Conns) /\ \A k \in Node : k # m => backlog'[k] = backlog[k]
  BY <1>1, <1>3, <1>5 DEF OverlayTypes, Put
<1>10. /\ DOMAIN backlog'[m] = DOMAIN backlog[m] \cup {Len(backlog[m]) + 1} /\ Len(backlog[m]) \in Nat
       /\ DOMAIN backlog[m] = 1..Len(backlog[m])
       /\ backlog'[m][Len(backlog[m]) + 1] = c /\ \A i \in DOMAIN backlog[m] : backlog'[m][i] = backlog[m][i]
  BY <1>9
<1>11. OverlayTypes'
  <2>1. open' \in SUBSET Ends
    BY <1>1, <1>3, <1>5 DEF OverlayTypes
  <2>2. QED
    BY <1>1, <1>3, <1>8, <1>9, <2>1 DEF OverlayTypes
<1>12. Held'
  <2> SUFFICES ASSUME NEW k \in Node, NEW o \in Nbr[k], conn'[k][o] # None
               PROVE  /\ <<conn'[k][o], k>> \in open' /\ Peer(conn'[k][o], k) = o
                      /\ o < k => conn'[k][o][3] = runs[k]
    BY <1>3 DEF Held
  <2>1. CASE k = n /\ o = m
    BY <1>3, <1>5, <1>8, <2>1
  <2>2. CASE ~(k = n /\ o = m)
    <3>1. conn'[k][o] = conn[k][o] /\ conn[k][o] # None
      BY <1>8, <2>2
    <3>2. <<conn[k][o], k>> \in open /\ Peer(conn[k][o], k) = o /\ (o < k => conn[k][o][3] = runs[k])
      BY <1>1, <3>1 DEF Held
    <3>3. QED
      BY <1>3, <3>1, <3>2
  <2>3. QED
    BY <2>1, <2>2
<1>13. ~Waits(n, c) /\ ~Waits(m, c) /\ conn[m][n] # c
  BY <1>1, <1>3, <1>5, <1>7 DEF Waits, Waiting, Held
<1>14. \A k \in Node : \A x : Waits(k, x)' => Waits(k, x) \/ (k = m /\ x = c)
  BY <1>5, <1>9, <1>10 DEF Waits
<1>15. Waiting'
  <2>1. ASSUME NEW k \in Node, NEW i \in DOMAIN backlog'[k]
        PROVE  LET b == backlog'[k][i] IN <<b, k>> \in open' /\ b[2] = k /\ conn'[k][b[1]] # b
    <3>1. CASE k = m /\ i = Len(backlog[m]) + 1
      BY <1>3, <1>5, <1>8, <1>10, <1>13, <3>1
    <3>2. CASE ~(k = m /\ i = Len(backlog[m]) + 1)
      <4>1. i \in DOMAIN backlog[k] /\ backlog'[k][i] = backlog[k][i]
        BY <1>9, <1>10, <3>2
      <4>2. PICK b : b = backlog[k][i]
        OBVIOUS
      <4>3. <<b, k>> \in open /\ b[2] = k /\ conn[k][b[1]] # b
        BY <1>1, <4>1, <4>2 DEF Waiting
      <4>4. b[1] \in Nbr[k] /\ (k = n /\ b[1] = m => c # b)
        BY <1>1, <1>5, <4>3, EndFacts DEF OverlayTypes
      <4>5. conn'[k][b[1]] # b
        BY <1>8, <4>3, <4>4
      <4>6. QED
        BY <1>3, <4>1, <4>2, <4>3, <4>5
    <3>3. QED
      BY <3>1, <3>2
  <2>2. ASSUME NEW k \in Node, NEW i \in DOMAIN backlog'[k], NEW j \in DOMAIN backlog'[k], backlog'[k][i] = backlog'[k][j]
        PROVE  i = j
    <3>1. \A h \in DOMAIN backlog[m] : backlog[m][h] # c
      BY <1>13 DEF Waits
    <3>2. CASE k = m
      <4>1. i \in DOMAIN backlog[m] /\ j \in DOMAIN backlog[m] => backlog[m][i] = backlog[m][j]
        BY <1>10, <2>2, <3>2
      <4>2. i \in DOMAIN backlog[m] <=> j \in DOMAIN backlog[m]
        BY <1>10, <2>2, <3>1, <3>2
      <4>3. QED
        BY <1>1, <1>10, <3>2, <4>1, <4>2 DEF Waiting
    <3>3. CASE k # m
      BY <1>1, <1>9, <2>2, <3>3 DEF Waiting
    <3>4. QED
      BY <3>2, <3>3
  <2>3. QED
    BY <2>1, <2>2 DEF Waiting
<1>16. Opened'
  <2>1. ASSUME NEW e \in told PROVE conn'[Peer(e[1], e[2])][e[2]] # e[1] /\ ~Waits(Peer(e[1], e[2]), e[1])'
    <3>1. /\ e \in Ends /\ conn[Peer(e[1], e[2])][e[2]] # e[1] /\ ~Waits(Peer(e[1], e[2]), e[1])
          /\ Peer(e[1], e[2]) \in Node /\ e[2] \in Nbr[Peer(e[1], e[2])] /\ e[1] # c
      <4>1. e \in Ends
        BY <1>1 DEF OverlayTypes
      <4>2. e[1] # c
        BY <1>5, <1>7, <4>1, EndFacts
      <4>3. QED
        BY <1>1, <4>1, <4>2, EndFacts DEF Opened
    <3>2. QED
      BY <1>8, <1>14, <3>1
  <2>2. \A e \in {<<c, n>>, <<c, m>>} : e[1] = c /\ son[e[2]] # "off"
    BY <1>3
  <2>3. runs[n] >= 1 /\ runs[m] >= 1
    BY <1>1, <1>3 DEF Opened
  <2>4. \A e \in open' \cup told : e[1][3] <= runs[e[1][1]] /\ runs[e[1][2]] >= 1
    BY <1>1, <1>3, <1>4, <1>5, <2>3 DEF Opened
  <2>5. \A e \in open' : son[e[2]] # "off"
    BY <1>1, <1>3, <2>2 DEF Opened
  <2>6. QED
    BY <1>1, <1>3, <2>1, <2>4, <2>5 DEF Opened
<1>17. Early'
  <2>1. \A k \in Node : son[k] = "off" => (\A o \in Nbr[k] : conn'[k][o] = None) /\ backlog'[k] = <<>>
    <3>1. SUFFICES ASSUME NEW k \in Node, son[k] = "off" PROVE (\A o \in Nbr[k] : conn'[k][o] = None) /\ backlog'[k] = <<>>
      OBVIOUS
    <3>2. k # n /\ k # m /\ (\A o \in Nbr[k] : conn[k][o] = None) /\ backlog[k] = <<>>
      BY <1>1, <1>3, <3>1 DEF Early
    <3>3. QED
      BY <1>8, <1>9, <3>2
  <2>2. QED
    BY <1>1, <1>3, <2>1 DEF Early
<1>18. Fresh'
  <2> SUFFICES ASSUME NEW e \in Ends, Unused(e[1])' PROVE e \notin open' \cup told /\ chan[e] = <<>>
    BY <1>3 DEF Fresh
  <2>1. Unused(e[1]) /\ e[1] # c
    BY <1>3, <1>5, <1>8, EndFacts DEF Unused
  <2>2. QED
    BY <1>1, <1>3, <2>1 DEF Fresh
<1>19. Channels'
  <2>1. ASSUME NEW e \in {<<c, n>>, <<c, m>>} PROVE Channel(e)'
    <3>1. /\ e \in Ends /\ e[1] = c /\ chan'[e] = <<>> /\ e \notin told'
          /\ ReaderAt(e)' = AtStart
      BY <1>1, <1>3, <1>5, <1>7, <1>8, <1>13 DEF ReaderAt, Early
    <3>2. AtStart \in Readers(Packet)
      BY DEF AtStart, Readers
    <3>3. PICK ss : Follows(Packet, ss, AtStart, <<>>) /\ ss[Len(<<>>)] = AtStart /\ Clean(ss, <<>>)
      BY <3>2, NothingToRead
    <3>4. AtStart.state = "PKTSTART1"
      BY DEF AtStart
    <3>5. conn'[Peer(e[1], e[2])][e[2]] = e[1] => Sending(Peer(e[1], e[2]), e[2])' = "PKTSTART1"
      BY <1>1, <1>3, <1>5, <1>8, <1>13 DEF Sending, Early
    <3>6. Reads(ss, e)'
      BY <3>1, <3>3, <3>4, <3>5 DEF Reads
    <3>7. QED
      BY <3>1, <3>3, <3>6 DEF Channel
  <2>2. ASSUME NEW e \in open PROVE Channel(e)'
    <3>1. /\ e \in Ends /\ Channel(e) /\ e[1] # c /\ e[1] # None /\ e[2] \in Node /\ Peer(e[1], e[2]) \in Node
          /\ Peer(e[1], e[2]) \in Nbr[e[2]] /\ e[2] \in Nbr[Peer(e[1], e[2])]
      <4>1. e \in Ends /\ Channel(e)
        BY <1>1 DEF Channels, OverlayTypes
      <4>2. e[1] # c
        BY <1>5, <1>7, <4>1, EndFacts
      <4>3. QED
        BY <4>1, <4>2, EndFacts, ConnFacts
    <3>2. ReaderAt(e)' = ReaderAt(e)
      BY <1>3, <1>8, <3>1 DEF ReaderAt
    <3>3. conn'[Peer(e[1], e[2])][e[2]] = e[1] =>
            conn[Peer(e[1], e[2])][e[2]] = e[1] /\ Sending(Peer(e[1], e[2]), e[2])' = Sending(Peer(e[1], e[2]), e[2])
      BY <1>3, <1>8, <3>1 DEF Sending
    <3>4. QED
      BY <1>3, <1>14, <3>1, <3>2, <3>3, ChannelKept
  <2>3. QED
    BY <1>3, <2>1, <2>2 DEF Channels
<1>20. CloseAnnounced'
  BY <1>1, <1>3 DEF CloseAnnounced, Up
<1>21. QED
  BY <1>11, <1>12, <1>15, <1>16, <1>17, <1>18, <1>19, <1>20 DEF OverlayInv

\* What a table holds is no longer waited for.
LEMMA NotBoth ==
  ASSUME OverlayTypes, Held, Waiting, NEW n \in Node, NEW m \in Nbr[n], conn[n][m] # None
  PROVE  ~Waits(n, conn[n][m])
<1> SUFFICES ASSUME Waits(n, conn[n][m]) PROVE FALSE
  OBVIOUS
<1>1. PICK c : c = conn[n][m]
  OBVIOUS
<1>2. <<c, n>> \in Ends /\ Peer(c, n) = m
  BY <1>1, HeldEnd
<1>3. c[2] = n /\ conn[n][c[1]] # c
  <2>1. PICK i \in DOMAIN backlog[n] : backlog[n][i] = c
    BY <1>1 DEF Waits
  <2>2. QED
    BY <2>1 DEF Waiting
<1>4. c[1] = m
  BY <1>2, <1>3, EndFacts DEF Peer
<1>5. QED
  BY <1>1, <1>3, <1>4

\* The oldest connection that waits is put into the table.
LEMMA WaitNbrsInv ==
  ASSUME OverlayInv, NEW n \in Node, Accept(n)
  PROVE  OverlayInv'
<1>1. /\ OverlayTypes /\ Held /\ Waiting /\ Opened /\ Early /\ Fresh /\ Channels
      /\ CloseAnnounced
  BY DEF OverlayInv
<1>2. PICK c : c = Head(backlog[n])
  OBVIOUS
<1>3. PICK m : m = c[1]
  OBVIOUS
<1>4. /\ accepting[n] /\ son[n] = "starting" /\ backlog[n] # <<>>
      /\ conn' = SetCell(conn, n, m, c)
      /\ backlog' = Put(backlog, n, Tail(backlog[n])) /\ conNum' = Put(conNum, n, conNum[n] + 1)
      /\ accepting' = Put(accepting, n, ~Enough(n, conNum[n] + 1))
      /\ son' = son /\ runs' = runs /\ open' = open /\ chan' = chan /\ reader' = reader
      /\ targets' = targets /\ part' = part /\ pkts' = pkts /\ told' = told /\ heard' = heard
  BY <1>2, <1>3 DEF Accept, SetCell, linkVars
<1>5. /\ backlog[n] \in Seq(Conns) /\ Len(backlog[n]) \in Nat /\ DOMAIN backlog[n] = 1..Len(backlog[n])
      /\ 1 \in DOMAIN backlog[n] /\ backlog[n][1] = c
  BY <1>1, <1>2, <1>4 DEF OverlayTypes
<1>6. Waits(n, c) /\ <<c, n>> \in open /\ <<c, n>> \in Ends /\ c[2] = n /\ conn[n][m] # c
  <2>1. Waits(n, c)
    BY <1>5 DEF Waits
  <2>2. <<c, n>> \in open /\ c[2] = n /\ conn[n][m] # c
    BY <1>1, <1>3, <1>5 DEF Waiting
  <2>3. QED
    BY <1>1, <2>1, <2>2 DEF OverlayTypes
<1>7. c \in Conns /\ c # None /\ m \in Nbr[n] /\ m \in Node /\ Peer(c, n) = m /\ n < m /\ n \in Nat /\ m \in Nat
  BY <1>3, <1>6, EndFacts, ConnFacts DEF Peer
<1>8. /\ Tabled(Conns \cup {None}, conn') /\ conn'[n][m] = c
      /\ \A k \in Node : \A o \in Nbr[k] : k # n \/ o # m => conn'[k][o] = conn[k][o]
  <2>1. PICK X : X = Conns \cup {None}
    OBVIOUS
  <2>2. c \in X /\ Tabled(X, conn)
    BY <1>1, <1>7, <2>1 DEF OverlayTypes
  <2>3. conn' = SetCell(conn, n, m, c)
    BY <1>4
  <2>4. QED
    BY <1>7, <2>1, <2>2, <2>3, Cell
<1>9. /\ backlog' \in [Node -> Seq(Conns)] /\ backlog'[n] = Tail(backlog[n])
      /\ \A k \in Node : k # n => backlog'[k] = backlog[k]
  <2>1. Tail(backlog[n]) \in Seq(Conns)
    BY <1>4, <1>5
  <2>2. QED
    BY <1>1, <1>4, <2>1 DEF OverlayTypes, Put
<1>10. \A i \in DOMAIN backlog'[n] : i + 1 \in DOMAIN backlog[n] /\ backlog'[n][i] = backlog[n][i + 1] /\ i \in Nat /\ i + 1 # 1
  <2>1. Len(Tail(backlog[n])) = Len(backlog[n]) - 1
    BY <1>4, <1>5
  <2>2. DOMAIN backlog'[n] = 1..Len(backlog'[n])
    BY <1>9
  <2>3. \A i \in 1..(Len(backlog[n]) - 1) : Tail(backlog[n])[i] = backlog[n][i + 1]
    BY <1>4, <1>5
  <2>4. QED
    BY <1>5, <1>9, <2>1, <2>2, <2>3
<1>11. \A k \in Node : \A x : Waits(k, x)' => Waits(k, x) /\ (k = n => x # c)
  <2>1. ASSUME NEW k \in Node, NEW x, Waits(k, x)' PROVE Waits(k, x) /\ (k = n => x # c)
    <3>1. PICK i \in DOMAIN backlog'[k] : backlog'[k][i] = x
      BY <2>1 DEF Waits
    <3>2. CASE k = n
      <4>1. i + 1 \in DOMAIN backlog[n] /\ backlog[n][i + 1] = x /\ i + 1 # 1
        BY <1>10, <3>1, <3>2
      <4>2. x # c
        BY <1>1, <1>5, <4>1 DEF Waiting
      <4>3. QED
        BY <3>2, <4>1, <4>2 DEF Waits
    <3>3. CASE k # n
      BY <1>9, <3>1, <3>3 DEF Waits
    <3>4. QED
      BY <3>2, <3>3
  <2>2. QED
    BY <2>1
<1>12. conNum[n] \in Nat /\ Cardinality(Larger(n)) \in Nat /\ conNum[n] < Cardinality(Larger(n))
  <2>1. Cardinality(Larger(n)) \in Nat
    BY FS_CardinalityType, FS_Subset, OverlayAssumption, ConnFacts DEF Larger
  <2>2. QED
    BY <1>1, <1>4, <2>1 DEF Early, OverlayTypes
<1>13. /\ conNum'[n] = conNum[n] + 1 /\ (accepting'[n] <=> conNum[n] + 1 < Cardinality(Larger(n)))
       /\ \A k \in Node : k # n => conNum'[k] = conNum[k] /\ accepting'[k] = accepting[k]
  <2>1. ~Enough(n, conNum[n] + 1) <=> conNum[n] + 1 < Cardinality(Larger(n))
    BY <1>12 DEF Enough
  <2>2. accepting'[n] = ~Enough(n, conNum[n] + 1)
    BY <1>1, <1>4 DEF OverlayTypes, Put
  <2>3. accepting'[n] <=> conNum[n] + 1 < Cardinality(Larger(n))
    BY <2>1, <2>2, Zenon
  <2>4. QED
    BY <1>1, <1>4, <2>3 DEF OverlayTypes, Put
<1>14. OverlayTypes'
  <2>1. conNum' \in [Node -> Nat] /\ accepting' \in [Node -> BOOLEAN]
    BY <1>1, <1>4, <1>12 DEF OverlayTypes, Put, Enough
  <2>2. QED
    BY <1>1, <1>4, <1>8, <1>9, <2>1 DEF OverlayTypes
<1>15. Held'
  <2> SUFFICES ASSUME NEW k \in Node, NEW o \in Nbr[k], conn'[k][o] # None
               PROVE  /\ <<conn'[k][o], k>> \in open /\ Peer(conn'[k][o], k) = o
                      /\ o < k => conn'[k][o][3] = runs[k]
    BY <1>4 DEF Held
  <2>1. CASE k = n /\ o = m
    BY <1>6, <1>7, <1>8, <2>1
  <2>2. CASE ~(k = n /\ o = m)
    <3>1. conn'[k][o] = conn[k][o] /\ conn[k][o] # None
      BY <1>8, <2>2
    <3>2. QED
      BY <1>1, <3>1 DEF Held
  <2>3. QED
    BY <2>1, <2>2
<1>16. Waiting'
  <2>1. ASSUME NEW k \in Node, NEW i \in DOMAIN backlog'[k]
        PROVE  LET b == backlog'[k][i] IN <<b, k>> \in open /\ b[2] = k /\ conn'[k][b[1]] # b
    <3>1. PICK b : b = backlog'[k][i]
      OBVIOUS
    <3>2. Waits(k, b) /\ (k = n => b # c)
      BY <1>11, <3>1 DEF Waits
    <3>3. <<b, k>> \in open /\ b[2] = k /\ conn[k][b[1]] # b
      BY <1>1, <3>2 DEF Waits, Waiting
    <3>4. b[1] \in Nbr[k]
      BY <1>1, <3>3, EndFacts DEF OverlayTypes
    <3>5. conn'[k][b[1]] # b
      BY <1>8, <3>2, <3>3, <3>4
    <3>6. QED
      BY <3>1, <3>3, <3>5
  <2>2. ASSUME NEW k \in Node, NEW i \in DOMAIN backlog'[k], NEW j \in DOMAIN backlog'[k], backlog'[k][i] = backlog'[k][j]
        PROVE  i = j
    <3>1. CASE k = n
      <4>1. backlog[n][i + 1] = backlog[n][j + 1] /\ i + 1 \in DOMAIN backlog[n] /\ j + 1 \in DOMAIN backlog[n] /\ i \in Nat /\ j \in Nat
        BY <1>10, <2>2, <3>1
      <4>2. i + 1 = j + 1
        BY <1>1, <4>1 DEF Waiting
      <4>3. QED
        BY <4>1, <4>2
    <3>2. CASE k # n
      BY <1>1, <1>9, <2>2, <3>2 DEF Waiting
    <3>3. QED
      BY <3>1, <3>2
  <2>3. QED
    BY <1>4, <2>1, <2>2 DEF Waiting
<1>17. Opened'
  <2>1. ASSUME NEW e \in told PROVE conn'[Peer(e[1], e[2])][e[2]] # e[1] /\ ~Waits(Peer(e[1], e[2]), e[1])'
    <3>1. /\ e \in Ends /\ conn[Peer(e[1], e[2])][e[2]] # e[1] /\ ~Waits(Peer(e[1], e[2]), e[1])
          /\ Peer(e[1], e[2]) \in Node /\ e[2] \in Nbr[Peer(e[1], e[2])]
      <4>1. e \in Ends
        BY <1>1 DEF OverlayTypes
      <4>2. QED
        BY <1>1, <4>1, EndFacts DEF Opened
    <3>2. Peer(e[1], e[2]) = n => e[1] # c
      BY <1>6, <3>1
    <3>3. QED
      BY <1>8, <1>11, <3>1, <3>2
  <2>2. QED
    BY <1>1, <1>4, <2>1 DEF Opened
<1>18. Early'
  <2>1. \A k \in Node : son[k] = "off" => (\A o \in Nbr[k] : conn'[k][o] = None) /\ backlog'[k] = <<>>
    <3>1. SUFFICES ASSUME NEW k \in Node, son[k] = "off" PROVE (\A o \in Nbr[k] : conn'[k][o] = None) /\ backlog'[k] = <<>>
      OBVIOUS
    <3>2. k # n /\ (\A o \in Nbr[k] : conn[k][o] = None) /\ backlog[k] = <<>>
      BY <1>1, <1>4, <3>1 DEF Early
    <3>3. QED
      BY <1>8, <1>9, <3>2
  <2>2. /\ accepting'[n] => conNum'[n] < Cardinality(Larger(n))
        /\ conNum'[n] <= Cardinality(Larger(n))
        /\ ~accepting'[n] => conNum'[n] = Cardinality(Larger(n))
    BY <1>12, <1>13
  <2>3. \A k \in Node :
          /\ accepting'[k] => conNum'[k] < Cardinality(Larger(k))
          /\ conNum'[k] <= Cardinality(Larger(k))
          /\ son[k] = "starting" /\ ~accepting'[k] => conNum'[k] = Cardinality(Larger(k))
    BY <1>1, <1>13, <2>2 DEF Early
  <2>4. QED
    BY <1>1, <1>4, <2>1, <2>3 DEF Early
<1>19. Fresh'
  <2>1. \A e \in Ends : Unused(e[1])' => Unused(e[1])
    <3>1. SUFFICES ASSUME NEW e \in Ends, Unused(e[1])' PROVE Unused(e[1])
      OBVIOUS
    <3>2. e[1][1] \in Node /\ e[1][2] \in Nbr[e[1][1]] /\ e[1][2] < e[1][1] /\ e[1][1] \in Nat /\ e[1][2] \in Nat
      BY EndFacts, ConnFacts
    <3>3. e[1][1] # n \/ e[1][2] # m
      BY <1>7, <3>2
    <3>4. QED
      BY <1>4, <1>8, <3>1, <3>2, <3>3 DEF Unused
  <2>2. QED
    BY <1>1, <1>4, <2>1 DEF Fresh
<1>20. Channels'
  <2> SUFFICES ASSUME NEW e \in open PROVE Channel(e)'
    BY <1>4 DEF Channels
  <2>1. /\ e \in Ends /\ Channel(e) /\ e[1] # None /\ e[2] \in Node /\ Peer(e[1], e[2]) \in Node
        /\ Peer(e[1], e[2]) \in Nbr[e[2]] /\ e[2] \in Nbr[Peer(e[1], e[2])]
    <3>1. e \in Ends /\ Channel(e)
      BY <1>1 DEF Channels, OverlayTypes
    <3>2. QED
      BY <3>1, EndFacts, ConnFacts
  <2>2. ReaderAt(e)' = ReaderAt(e)
    <3>1. CASE e[2] = n
      BY <1>1, <1>4, <2>1, <3>1 DEF ReaderAt, Early
    <3>2. CASE e[2] # n
      BY <1>4, <1>8, <2>1, <3>2 DEF ReaderAt
    <3>3. QED
      BY <3>1, <3>2
  <2>3. conn'[Peer(e[1], e[2])][e[2]] = e[1] =>
          \/ conn[Peer(e[1], e[2])][e[2]] = e[1] /\ Sending(Peer(e[1], e[2]), e[2])' = Sending(Peer(e[1], e[2]), e[2])
          \/ Waits(Peer(e[1], e[2]), e[1]) /\ Sending(Peer(e[1], e[2]), e[2])' = "PKTSTART1"
    <3>1. CASE Peer(e[1], e[2]) = n /\ e[2] = m
      BY <1>1, <1>4, <1>6, <1>8, <3>1 DEF Sending, Early
    <3>2. CASE ~(Peer(e[1], e[2]) = n /\ e[2] = m)
      BY <1>4, <1>8, <2>1, <3>2 DEF Sending
    <3>3. QED
      BY <3>1, <3>2
  <2>4. QED
    BY <1>4, <1>11, <2>1, <2>2, <2>3, ChannelKept
<1>21. CloseAnnounced'
  BY <1>1, <1>4 DEF CloseAnnounced, Up
<1>22. QED
  BY <1>14, <1>15, <1>16, <1>17, <1>18, <1>19, <1>20, <1>21 DEF OverlayInv

\* Joining the threads, and a packet from SIP, change nothing on the connections.
LEMMA JoinInv ==
  ASSUME OverlayInv, NEW n \in Node, Join(n) \/ GetPktToSend(n)
  PROVE  OverlayInv'
<1>1. /\ OverlayTypes /\ Held /\ Waiting /\ Opened /\ Early /\ Fresh /\ Channels
      /\ CloseAnnounced
  BY DEF OverlayInv
<1>2. /\ son[n] # "off" /\ (son' = son \/ son' = Put(son, n, "running"))
      /\ (targets' = targets \/ (son' = son /\ targets[n] = {} /\ son[n] = "running" /\ \E to \in SUBSET Nbr[n] : targets' = Put(targets, n, to)))
      /\ (pkts' = pkts \/ pkts' = pkts + 1)
      /\ runs' = runs /\ conn' = conn /\ conNum' = conNum /\ accepting' = accepting /\ backlog' = backlog
      /\ open' = open /\ chan' = chan /\ reader' = reader /\ part' = part /\ told' = told /\ heard' = heard
  BY DEF Join, GetPktToSend, linkVars, meshVars
<1>3. /\ son'[n] # "off" /\ (\A k \in Node : son'[k] = son[k] \/ (k = n /\ son'[k] = "running"))
      /\ \A k \in Node : targets'[k] = targets[k] \/ (k = n /\ targets[n] = {} /\ targets'[n] \subseteq Nbr[n] /\ son'[n] = "running")
  BY <1>1, <1>2 DEF OverlayTypes, Put
<1>4. OverlayTypes'
  <2>1. son' \in [Node -> {"off", "starting", "running"}]
    BY <1>1, <1>2 DEF OverlayTypes, Put
  <2>2. targets' \in [Node -> SUBSET Node]
    <3>1. CASE targets' = targets
      BY <1>1, <3>1 DEF OverlayTypes
    <3>2. CASE \E to \in SUBSET Nbr[n] : targets' = Put(targets, n, to)
      <4>1. PICK to \in SUBSET Nbr[n] : targets' = Put(targets, n, to)
        BY <3>2
      <4>2. to \in SUBSET Node
        BY ConnFacts
      <4>3. QED
        BY <1>1, <4>1, <4>2 DEF OverlayTypes, Put
    <3>3. QED
      BY <1>2, <3>1, <3>2
  <2>3. \A k \in Node : targets'[k] \subseteq Nbr[k]
    BY <1>1, <1>3 DEF OverlayTypes
  <2>4. pkts' \in Nat
    BY <1>1, <1>2 DEF OverlayTypes
  <2>5. QED
    BY <1>1, <1>2, <2>1, <2>2, <2>3, <2>4 DEF OverlayTypes
<1>5. Held' /\ Waiting'
  BY <1>1, <1>2 DEF Held, Waiting
<1>6. \A k \in Node : son'[k] = "off" <=> son[k] = "off"
  BY <1>2, <1>3
<1>7. Opened'
  <2>1. \A e \in open : e[2] \in Node
    BY <1>1, EndFacts DEF OverlayTypes
  <2>2. QED
    BY <1>1, <1>2, <1>6, <2>1 DEF Opened, Waits
<1>8. Early'
  BY <1>1, <1>2, <1>3, <1>6 DEF Early
<1>9. Fresh'
  <2>1. \A e \in Ends : Unused(e[1])' => Unused(e[1])
    BY <1>2, <1>3, EndFacts DEF Unused
  <2>2. QED
    BY <1>1, <1>2, <2>1 DEF Fresh
<1>10. Channels'
  <2> SUFFICES ASSUME NEW e \in open PROVE Channel(e)'
    BY <1>2 DEF Channels
  <2>1. e \in Ends /\ Channel(e) /\ Peer(e[1], e[2]) \in Node
    BY <1>1, EndFacts DEF Channels, OverlayTypes
  <2>2. ReaderAt(e)' = ReaderAt(e)
    BY <1>2 DEF ReaderAt
  <2>3. Sending(Peer(e[1], e[2]), e[2])' = Sending(Peer(e[1], e[2]), e[2])
    BY <1>1, <1>2, <1>3, <2>1 DEF Sending, Early
  <2>4. QED
    BY <1>2, <2>1, <2>2, <2>3, ChannelKept DEF Waits
<1>11. CloseAnnounced'
  <2>1. \A e \in told : e[2] \in Node
    BY <1>1, EndFacts DEF OverlayTypes
  <2>2. QED
    BY <1>1, <1>2, <1>6, <2>1 DEF CloseAnnounced, Up
<1>12. QED
  BY <1>4, <1>5, <1>7, <1>8, <1>9, <1>10, <1>11 DEF OverlayInv

\* When no connection, process or stream changes, only what is being sent can.
LEMMA SendsOnly ==
  ASSUME OverlayInv, NEW n \in Node,
         \A m \in Nbr[n] : conn[n][m] # None /\ <<conn[n][m], m>> \in open => Sending(n, m)' = Sending(n, m),
         targets' \in [Node -> SUBSET Node], targets'[n] \subseteq targets[n], part' \in [Node -> 1..3],
         \A k \in Node : k # n => targets'[k] = targets[k] /\ part'[k] = part[k],
         targets'[n] = {} => part'[n] = 1, chan' = chan,
         UNCHANGED <<meshVars, open, reader, pkts, told, heard>>
  PROVE  OverlayInv'
<1>1. /\ OverlayTypes /\ Held /\ Waiting /\ Opened /\ Early /\ Fresh /\ Channels
      /\ CloseAnnounced
  BY DEF OverlayInv
<1>2. /\ son' = son /\ runs' = runs /\ conn' = conn /\ conNum' = conNum /\ accepting' = accepting /\ backlog' = backlog
      /\ open' = open /\ reader' = reader /\ pkts' = pkts /\ told' = told /\ heard' = heard
  BY DEF meshVars
<1>3. OverlayTypes'
  BY <1>1, <1>2 DEF OverlayTypes
<1>4. Held' /\ Waiting' /\ Opened' /\ Fresh' /\ CloseAnnounced'
  <2>1. Held' /\ Waiting'
    BY <1>1, <1>2 DEF Held, Waiting
  <2>2. Opened' /\ CloseAnnounced'
    BY <1>1, <1>2 DEF Opened, Waits, CloseAnnounced, Up
  <2>3. Fresh'
    BY <1>1, <1>2 DEF Fresh, Unused
  <2>4. QED
    BY <2>1, <2>2, <2>3
<1>5. Early'
  BY <1>1, <1>2 DEF Early
<1>6. Channels'
  <2> SUFFICES ASSUME NEW e \in open PROVE Channel(e)'
    BY <1>2 DEF Channels
  <2>1. e \in Ends /\ Channel(e) /\ Peer(e[1], e[2]) \in Node /\ e[2] \in Nbr[Peer(e[1], e[2])] /\ e = <<e[1], e[2]>> /\ e[1] # None
    <3>1. e \in Ends /\ Channel(e)
      BY <1>1 DEF Channels, OverlayTypes
    <3>2. QED
      BY <3>1, EndFacts, ConnFacts
  <2>2. ReaderAt(e)' = ReaderAt(e)
    BY <1>2 DEF ReaderAt
  <2>3. conn[Peer(e[1], e[2])][e[2]] = e[1] => Sending(Peer(e[1], e[2]), e[2])' = Sending(Peer(e[1], e[2]), e[2])
    <3>1. CASE Peer(e[1], e[2]) = n
      BY <2>1, <3>1
    <3>2. CASE Peer(e[1], e[2]) # n
      BY <2>1, <3>2 DEF Sending
    <3>3. QED
      BY <3>1, <3>2
  <2>4. QED
    BY <1>2, <2>1, <2>2, <2>3, ChannelKept DEF Waits
<1>7. QED
  BY <1>3, <1>4, <1>5, <1>6 DEF OverlayInv

\* After the neighbour it is sending to waitSIP begins a frame.
LEMMA NextTarget ==
  ASSUME OverlayTypes, Early, NEW n \in Node, NEW m, m = Min(targets[n]), part' = Put(part, n, 1)
  PROVE  /\ part' \in [Node -> 1..3] /\ part'[n] = 1 /\ (\A k \in Node : k # n => part'[k] = part[k])
         /\ \A o : Sending(n, o)' = "PKTSTART1" /\ (o # m => Sending(n, o) = "PKTSTART1")
<1>1. part' \in [Node -> 1..3] /\ part'[n] = 1 /\ (\A k \in Node : k # n => part'[k] = part[k])
  BY DEF OverlayTypes, Put
<1>2. \A o : Sending(n, o)' = "PKTSTART1"
  BY <1>1 DEF Sending
<1>3. \A o : o # m => Sending(n, o) = "PKTSTART1"
  BY DEF Sending
<1>4. QED
  BY <1>1, <1>2, <1>3

\* A neighbour without a connection, or with one that is closed at its end,
\* is given up.
LEMMA SkipInv ==
  ASSUME OverlayInv, NEW n \in Node, NEW m \in targets[n], m = Min(targets[n]),
         conn[n][m] = None \/ <<conn[n][m], m>> \notin open,
         targets' = Put(targets, n, targets[n] \ {m}), part' = Put(part, n, 1), chan' = chan,
         UNCHANGED <<meshVars, open, reader, pkts, told, heard>>
  PROVE  OverlayInv'
<1>1. OverlayTypes /\ Early
  BY DEF OverlayInv
<1>2. /\ part' \in [Node -> 1..3] /\ part'[n] = 1 /\ (\A k \in Node : k # n => part'[k] = part[k])
      /\ \A o : Sending(n, o)' = "PKTSTART1" /\ (o # m => Sending(n, o) = "PKTSTART1")
  BY <1>1, NextTarget
<1>3. /\ targets' \in [Node -> SUBSET Node] /\ targets'[n] \subseteq targets[n]
      /\ \A k \in Node : k # n => targets'[k] = targets[k]
  BY <1>1 DEF OverlayTypes, Put
<1>4. \A o \in Nbr[n] : conn[n][o] # None /\ <<conn[n][o], o>> \in open => Sending(n, o)' = Sending(n, o)
  BY <1>2
<1>5. QED
  BY <1>2, <1>3, <1>4, SendsOnly

\* One send() of a frame.
LEMMA SentInv ==
  ASSUME OverlayInv, NEW n \in Node, NEW m \in targets[n], m = Min(targets[n]),
         NEW c, c = conn[n][m], c # None,
         chan' = IF <<c, m>> \in open THEN Put(chan, <<c, m>>, Append(chan[<<c, m>>], Part(part[n], <<"sip">>))) ELSE chan,
         part' = Put(part, n, (part[n] % 3) + 1),
         targets' = IF part[n] = 3 THEN Put(targets, n, targets[n] \ {m}) ELSE targets,
         UNCHANGED <<meshVars, open, reader, pkts, told, heard>>
  PROVE  OverlayInv'
<1>1. /\ OverlayTypes /\ Held /\ Waiting /\ Opened /\ Early /\ Fresh /\ Channels
      /\ CloseAnnounced
  BY DEF OverlayInv
<1>2. part[n] \in 1..3 /\ m \in Nbr[n] /\ m \in Node /\ m # n /\ n \in Nbr[m]
  BY <1>1, ConnFacts DEF OverlayTypes
<1>3. /\ part'[n] = (IF part[n] = 3 THEN 1 ELSE part[n] + 1) /\ part' \in [Node -> 1..3]
      /\ \A k \in Node : k # n => part'[k] = part[k]
  <2>1. (part[n] % 3) + 1 = (IF part[n] = 3 THEN 1 ELSE part[n] + 1)
    BY <1>2
  <2>2. QED
    BY <1>1, <1>2, <2>1 DEF OverlayTypes, Put
<1>4. /\ targets' \in [Node -> SUBSET Node] /\ targets'[n] \subseteq targets[n]
      /\ (\A k \in Node : k # n => targets'[k] = targets[k]) /\ (part[n] # 3 => targets'[n] = targets[n])
      /\ targets'[n] = {} => part'[n] = 1
  <2>1. CASE part[n] = 3
    BY <1>1, <1>3, <2>1 DEF OverlayTypes, Put
  <2>2. CASE part[n] # 3
    BY <1>1, <2>2 DEF OverlayTypes
  <2>3. QED
    BY <2>1, <2>2
<1>5. \A o : o # m => Sending(n, o)' = "PKTSTART1" /\ Sending(n, o) = "PKTSTART1"
  BY <1>2, <1>3, <1>4 DEF Sending
<1>6. /\ part[n] = 1 => Sending(n, m) = "PKTSTART1" /\ Sending(n, m)' = "PKTRECV"
      /\ part[n] = 2 => Sending(n, m) = "PKTRECV" /\ Sending(n, m)' = "PKTSTOP1"
      /\ part[n] = 3 => Sending(n, m) = "PKTSTOP1" /\ Sending(n, m)' = "PKTSTART1"
  BY <1>3, <1>4 DEF Sending
<1>7. CASE <<c, m>> \notin open
  <2>1. \A o \in Nbr[n] : conn[n][o] # None /\ <<conn[n][o], o>> \in open => Sending(n, o)' = Sending(n, o)
    BY <1>5, <1>7
  <2>2. QED
    BY <1>3, <1>4, <1>7, <2>1, SendsOnly
<1>8. CASE <<c, m>> \in open
  <2>1. PICK e : e = <<c, m>>
    OBVIOUS
  <2>2. e \in Ends /\ e[1] = c /\ e[2] = m /\ Peer(e[1], e[2]) = n /\ Channel(e) /\ Peer(c, n) = m
    <3>1. <<c, n>> \in Ends /\ Peer(c, n) = m
      BY <1>1, <1>2, HeldEnd
    <3>2. e \in Ends /\ Channel(e)
      BY <1>1, <1>8, <2>1 DEF OverlayTypes, Channels
    <3>3. Peer(c, m) = n
      BY <3>1, EndFacts
    <3>4. QED
      BY <2>1, <3>1, <3>2, <3>3
  <2>3. PICK t \in Token(Packet) : t = Part(part[n], <<"sip">>)
    <3>1. Part(part[n], <<"sip">>) \in {Start, Data(<<"sip">>), Stop}
      BY <1>2 DEF Part
    <3>2. QED
      BY <3>1 DEF Token, Packet
  <2>4. /\ part[n] = 1 => t = Start
        /\ part[n] = 2 => t = Data(<<"sip">>) /\ t # Start /\ t # Stop
        /\ part[n] = 3 => t = Stop
    <3>1. Part(1, <<"sip">>) = Start /\ Part(2, <<"sip">>) = Data(<<"sip">>) /\ Part(3, <<"sip">>) = Stop
      BY DEF Part
    <3>2. Data(<<"sip">>).is = "pkt" /\ Start.is # "pkt" /\ Stop.is # "pkt"
      BY <2>3, Kinds
    <3>3. QED
      BY <2>3, <3>1, <3>2
  <2>5. /\ chan' \in [Ends -> Seq(Token(Packet))] /\ chan'[e] = Append(chan[e], t) /\ chan[e] \in Seq(Token(Packet))
        /\ \A x \in Ends : x # e => chan'[x] = chan[x]
    <3>1. chan' = Put(chan, e, Append(chan[e], t))
      BY <1>8, <2>1, <2>3
    <3>2. chan[e] \in Seq(Token(Packet)) /\ Append(chan[e], t) \in Seq(Token(Packet))
      BY <1>1, <2>2 DEF OverlayTypes
    <3>3. chan \in [Ends -> Seq(Token(Packet))]
      BY <1>1 DEF OverlayTypes
    <3>4. PICK q \in Seq(Token(Packet)) : q = Append(chan[e], t)
      BY <3>2
    <3>5. chan' = Put(chan, e, q)
      BY <3>1, <3>4
    <3>6. chan' \in [Ends -> Seq(Token(Packet))] /\ chan'[e] = q /\ \A x \in Ends : x # e => chan'[x] = chan[x]
      BY <2>2, <3>3, <3>5 DEF Put
    <3>7. QED
      BY <3>2, <3>4, <3>6
  <2>6. /\ son' = son /\ runs' = runs /\ conn' = conn /\ conNum' = conNum /\ accepting' = accepting /\ backlog' = backlog
        /\ open' = open /\ reader' = reader /\ pkts' = pkts /\ told' = told /\ heard' = heard
    BY DEF meshVars
  <2>7. OverlayTypes'
    <3>1. \A k \in Node : targets'[k] \subseteq Nbr[k]
      BY <1>1, <1>4 DEF OverlayTypes
    <3>2. QED
      BY <1>1, <1>3, <1>4, <2>5, <2>6, <3>1 DEF OverlayTypes
  <2>8. Held' /\ Waiting' /\ Opened' /\ CloseAnnounced'
    BY <1>1, <2>6 DEF Held, Waiting, Opened, CloseAnnounced, Waits, Up
  <2>9. Early'
    <3>1. (son[n] # "running" => targets'[n] = {}) /\ (targets'[n] = {} => part'[n] = 1)
      BY <1>1, <1>4 DEF Early
    <3>2. \A k \in Node : (son[k] # "running" => targets'[k] = {}) /\ (targets'[k] = {} => part'[k] = 1)
      BY <1>1, <1>3, <1>4, <3>1 DEF Early
    <3>3. \A k \in Node :
            /\ son[k] = "off" => (\A o \in Nbr[k] : conn[k][o] = None) /\ backlog[k] = <<>>
            /\ son[k] # "running" => \A o \in Nbr[k] : reader[k][o] = AtStart
            /\ accepting[k] => conNum[k] < Cardinality(Larger(k))
            /\ conNum[k] <= Cardinality(Larger(k))
            /\ son[k] = "starting" /\ ~accepting[k] => conNum[k] = Cardinality(Larger(k))
      BY <1>1 DEF Early
    <3>4. /\ \A k \in Node : son'[k] = "off" => (\A o \in Nbr[k] : conn'[k][o] = None) /\ backlog'[k] = <<>>
          /\ \A k \in Node : son'[k] # "running" => (\A o \in Nbr[k] : reader'[k][o] = AtStart)
          /\ \A k \in Node : conNum'[k] <= Cardinality(Larger(k))
      <4>1. \A k \in Node : son'[k] = "off" => (\A o \in Nbr[k] : conn'[k][o] = None) /\ backlog'[k] = <<>>
        BY <2>6, <3>3
      <4>2. \A k \in Node : son'[k] # "running" => (\A o \in Nbr[k] : reader'[k][o] = AtStart)
        BY <2>6, <3>3
      <4>3. \A k \in Node : conNum'[k] <= Cardinality(Larger(k))
        BY <2>6, <3>3
      <4>4. QED
        BY <4>1, <4>2, <4>3
    <3>5. \A k \in Node :
            /\ accepting'[k] => conNum'[k] < Cardinality(Larger(k))
            /\ son'[k] = "starting" /\ ~accepting'[k] => conNum'[k] = Cardinality(Larger(k))
      BY <2>6, <3>3
    <3>6. QED
      BY <2>6, <3>2, <3>4, <3>5 DEF Early
  <2>10. Fresh'
    <3>1. e \in open
      BY <1>8, <2>1
    <3>2. \A x \in Ends : Unused(x[1])' <=> Unused(x[1])
      BY <2>6 DEF Unused
    <3>3. QED
      BY <1>1, <2>5, <2>6, <3>1, <3>2 DEF Fresh
  <2>11. Channel(e)'
    <3>1. PICK ss : Follows(Packet, ss, ReaderAt(e), chan[e]) /\ Reads(ss, e)
      BY <2>2 DEF Channel
    <3>2. PICK end \in Readers(Packet) : end = ss[Len(chan[e])]
      BY <2>3, <2>5, <3>1, Extended
    <3>3. Clean(ss, chan[e]) /\ end.state = Sending(n, m)
      BY <2>2, <3>1, <3>2 DEF Reads
    <3>4. Goes(end, t).state = Sending(n, m)' /\ Returns(end, t) # -1
      <4>1. CASE part[n] = 1
        BY <1>6, <2>3, <2>4, <3>3, <4>1, Read, Answers
      <4>2. CASE part[n] = 2
        BY <1>6, <2>3, <2>4, <3>3, <4>2, Read, Answers
      <4>3. CASE part[n] = 3
        BY <1>6, <2>3, <2>4, <3>3, <4>3, Read, Answers
      <4>4. QED
        BY <1>2, <4>1, <4>2, <4>3
    <3>5. PICK tt : /\ Follows(Packet, tt, ReaderAt(e), Append(chan[e], t))
                    /\ tt[Len(chan[e]) + 1] = Goes(end, t) /\ Clean(tt, Append(chan[e], t))
      BY <2>3, <2>5, <3>1, <3>2, <3>3, <3>4, Extended
    <3>6. Len(Append(chan[e], t)) = Len(chan[e]) + 1
      BY <2>5
    <3>7. e \notin told /\ ~Waits(n, c)
      BY <1>1, <1>2, <2>2, NotBoth DEF Opened
    <3>8. Reads(tt, e)'
      BY <2>2, <2>5, <2>6, <3>4, <3>5, <3>6, <3>7 DEF Reads, Waits
    <3>9. Follows(Packet, tt, ReaderAt(e), chan[e])'
      BY <2>5, <2>6, <3>5 DEF ReaderAt
    <3>10. QED
      BY <3>8, <3>9 DEF Channel
  <2>12. ASSUME NEW x \in open, x # e PROVE Channel(x)'
    <3>1. x \in Ends /\ Channel(x) /\ Peer(x[1], x[2]) \in Node /\ x = <<x[1], x[2]>>
      <4>1. x \in Ends /\ Channel(x)
        BY <1>1 DEF Channels, OverlayTypes
      <4>2. QED
        BY <4>1, EndFacts
    <3>2. ReaderAt(x)' = ReaderAt(x)
      BY <2>6 DEF ReaderAt
    <3>3. conn[Peer(x[1], x[2])][x[2]] = x[1] => Sending(Peer(x[1], x[2]), x[2])' = Sending(Peer(x[1], x[2]), x[2])
      <4>1. CASE Peer(x[1], x[2]) = n
        BY <1>5, <2>1, <2>12, <3>1, <4>1
      <4>2. CASE Peer(x[1], x[2]) # n
        BY <1>3, <1>4, <3>1, <4>2 DEF Sending
      <4>3. QED
        BY <4>1, <4>2
    <3>4. QED
      BY <2>5, <2>6, <2>12, <3>1, <3>2, <3>3, ChannelKept DEF Waits
  <2>13. Channels'
    BY <2>6, <2>11, <2>12 DEF Channels
  <2>14. QED
    BY <2>7, <2>8, <2>9, <2>10, <2>13 DEF OverlayInv
<1>9. QED
  BY <1>7, <1>8

\* The listener reads a token, and goes on.
LEMMA ListenInv ==
  ASSUME OverlayInv, NEW n \in Node, NEW m \in Nbr[n], son[n] = "running", conn[n][m] # None,
         NEW e, e = <<conn[n][m], n>>, chan[e] # <<>>,
         NEW token, token = Head(chan[e]), NEW res, res = Returns(reader[n][m], token), res # -1,
         chan' = Put(chan, e, Tail(chan[e])), reader' = SetCell(reader, n, m, Goes(reader[n][m], token)),
         heard' = IF res = 1 /\ reader[n][m].pkt = <<"CLOSE">> THEN heard \cup {e} ELSE heard,
         UNCHANGED <<meshVars, open, targets, part, pkts, told>>
  PROVE  OverlayInv'
<1>1. /\ OverlayTypes /\ Held /\ Waiting /\ Opened /\ Early /\ Fresh /\ Channels
      /\ CloseAnnounced
  BY DEF OverlayInv
<1>2. /\ son' = son /\ runs' = runs /\ conn' = conn /\ conNum' = conNum /\ accepting' = accepting /\ backlog' = backlog
      /\ open' = open /\ targets' = targets /\ part' = part /\ pkts' = pkts /\ told' = told
  BY DEF meshVars
<1>3. e \in Ends /\ e \in open /\ e[1] = conn[n][m] /\ e[2] = n /\ Peer(e[1], e[2]) = m /\ ReaderAt(e) = reader[n][m]
  BY <1>1, HeldEnd
<1>4. Channel(e) /\ chan \in [Ends -> Seq(Token(Packet))] /\ chan[e] \in Seq(Token(Packet))
  BY <1>1, <1>3 DEF Channels, OverlayTypes
<1>5. PICK ss : Follows(Packet, ss, reader[n][m], chan[e]) /\ Reads(ss, e)
  BY <1>3, <1>4 DEF Channel
<1>6. Tail(chan[e]) \in Seq(Token(Packet)) /\ Goes(reader[n][m], token) \in Readers(Packet)
  BY <1>3, <1>4, <1>5, Advanced
<1>7. PICK tt : /\ Follows(Packet, tt, Goes(reader[n][m], token), Tail(chan[e]))
                /\ tt[Len(Tail(chan[e]))] = ss[Len(chan[e])]
                /\ \A p : Whole(ss, chan[e], p) => Whole(tt, Tail(chan[e]), p) \/ (reader[n][m].pkt = p /\ res = 1)
                /\ Clean(ss, chan[e]) => Clean(tt, Tail(chan[e]))
  <2>1. PICK r, q : r = reader[n][m] /\ q = chan[e]
    OBVIOUS
  <2>2. q \in Seq(Token(Packet)) /\ q # <<>> /\ Follows(Packet, ss, r, q)
    BY <1>4, <1>5, <2>1
  <2>3. \E tt : /\ Follows(Packet, tt, Goes(r, Head(q)), Tail(q))
                /\ tt[Len(Tail(q))] = ss[Len(q)]
                /\ \A p : Whole(ss, q, p) => Whole(tt, Tail(q), p) \/ (r.pkt = p /\ Returns(r, Head(q)) = 1)
                /\ Clean(ss, q) => Clean(tt, Tail(q))
    BY <2>2, Advanced
  <2>4. QED
    BY <2>1, <2>3
<1>8. chan' \in [Ends -> Seq(Token(Packet))] /\ chan'[e] = Tail(chan[e]) /\ \A x \in Ends : x # e => chan'[x] = chan[x]
  <2>1. PICK q \in Seq(Token(Packet)) : q = Tail(chan[e])
    BY <1>6
  <2>2. chan' = Put(chan, e, q)
    BY <2>1
  <2>3. chan' \in [Ends -> Seq(Token(Packet))] /\ chan'[e] = q /\ \A x \in Ends : x # e => chan'[x] = chan[x]
    BY <1>3, <1>4, <2>2 DEF Put
  <2>4. QED
    BY <2>1, <2>3
<1>9. /\ Tabled(Readers(Packet), reader') /\ reader'[n][m] = Goes(reader[n][m], token)
      /\ \A k \in Node : \A o \in Nbr[k] : k # n \/ o # m => reader'[k][o] = reader[k][o]
  <2>1. PICK x \in Readers(Packet) : x = Goes(reader[n][m], token)
    BY <1>6
  <2>2. Tabled(Readers(Packet), reader)
    BY <1>1 DEF OverlayTypes
  <2>3. reader' = SetCell(reader, n, m, x)
    BY <2>1
  <2>4. Tabled(Readers(Packet), reader') /\ reader'[n][m] = x /\ \A k \in Node : \A o \in Nbr[k] : k # n \/ o # m => reader'[k][o] = reader[k][o]
    BY <2>2, <2>3, Cell
  <2>5. QED
    BY <2>1, <2>4
<1>10. heard' \in SUBSET Ends /\ heard \subseteq heard'
  BY <1>1, <1>3 DEF OverlayTypes
<1>11. OverlayTypes'
  BY <1>1, <1>2, <1>8, <1>9, <1>10 DEF OverlayTypes
<1>12. Held' /\ Waiting'
  BY <1>1, <1>2 DEF Held, Waiting
<1>13. Opened' /\ CloseAnnounced'
  BY <1>1, <1>2, <1>10 DEF Opened, Waits, CloseAnnounced, Up
<1>14. Early'
  <2>1. \A k \in Node : son[k] # "running" => \A o \in Nbr[k] : reader'[k][o] = AtStart
    BY <1>1, <1>9 DEF Early
  <2>2. QED
    BY <1>1, <1>2, <2>1 DEF Early
<1>15. Fresh'
  <2>1. \A x \in Ends : Unused(x[1])' <=> Unused(x[1])
    BY <1>2 DEF Unused
  <2>2. QED
    BY <1>1, <1>2, <1>3, <1>8, <2>1 DEF Fresh
<1>16. Channel(e)'
  <2>1. Follows(Packet, tt, ReaderAt(e), chan[e])'
    BY <1>2, <1>3, <1>7, <1>8, <1>9 DEF ReaderAt
  <2>2. Sending(m, n)' = Sending(m, n)
    BY <1>2 DEF Sending
  <2>3. conn[m][n] = e[1] => Clean(tt, chan'[e]) /\ tt[Len(chan'[e])].state = Sending(m, n)
    BY <1>3, <1>5, <1>7, <1>8 DEF Reads
  <2>4. Waits(m, e[1]) => Clean(tt, chan'[e]) /\ tt[Len(chan'[e])].state = "PKTSTART1"
    BY <1>3, <1>5, <1>7, <1>8 DEF Reads
  <2>5. e \in told => Clean(tt, chan'[e]) /\ (e \in heard' \/ Whole(tt, chan'[e], <<"CLOSE">>))
    BY <1>3, <1>5, <1>7, <1>8, <1>10 DEF Reads
  <2>6. Reads(tt, e)'
    BY <1>2, <1>3, <2>2, <2>3, <2>4, <2>5 DEF Reads, Waits
  <2>7. QED
    BY <2>1, <2>6 DEF Channel
<1>17. ASSUME NEW x \in open, x # e PROVE Channel(x)'
  <2>1. x \in Ends /\ Channel(x) /\ Peer(x[1], x[2]) \in Nbr[x[2]] /\ x[2] \in Node /\ x = <<x[1], x[2]>>
    <3>1. x \in Ends /\ Channel(x)
      BY <1>1 DEF Channels, OverlayTypes
    <3>2. QED
      BY <3>1, EndFacts
  <2>2. ReaderAt(x)' = ReaderAt(x)
    <3>1. CASE x[2] = n /\ Peer(x[1], x[2]) = m
      <4>1. conn[x[2]][Peer(x[1], x[2])] # x[1]
        BY <1>17, <2>1, <3>1
      <4>2. QED
        BY <1>2, <4>1 DEF ReaderAt
    <3>2. CASE ~(x[2] = n /\ Peer(x[1], x[2]) = m)
      BY <1>2, <1>9, <2>1, <3>2 DEF ReaderAt
    <3>3. QED
      BY <3>1, <3>2
  <2>3. Sending(Peer(x[1], x[2]), x[2])' = Sending(Peer(x[1], x[2]), x[2])
    BY <1>2 DEF Sending
  <2>4. QED
    BY <1>2, <1>8, <1>10, <1>17, <2>1, <2>2, <2>3, ChannelKept DEF Waits
<1>18. Channels'
  BY <1>2, <1>16, <1>17 DEF Channels
<1>19. QED
  BY <1>11, <1>12, <1>13, <1>14, <1>15, <1>18 DEF OverlayInv

\* The listener gives its connection up.  No whole CLOSE is left unread there.
LEMMA ClosedInv ==
  ASSUME OverlayInv, NEW n \in Node, NEW m \in Nbr[n], son[n] = "running", conn[n][m] # None,
         NEW e, e = <<conn[n][m], n>>, e \in told => e \in heard,
         Closed(n, m), chan' \in [Ends -> Seq(Token(Packet))], Tabled(Readers(Packet), reader'),
         \A x \in Ends : x # e => chan'[x] = chan[x],
         \A k \in Node : \A o \in Nbr[k] : k # n \/ o # m => reader'[k][o] = reader[k][o],
         heard' \in SUBSET Ends, heard \subseteq heard'
  PROVE  OverlayInv'
<1>1. /\ OverlayTypes /\ Held /\ Waiting /\ Opened /\ Early /\ Fresh /\ Channels
      /\ CloseAnnounced
  BY DEF OverlayInv
<1>2. /\ son' = son /\ runs' = runs /\ conNum' = conNum /\ accepting' = accepting /\ backlog' = backlog
      /\ targets' = targets /\ part' = part /\ pkts' = pkts /\ told' = told
      /\ conn' = SetCell(conn, n, m, None) /\ open' = open \ {e}
  BY DEF Closed, SetCell
<1>3. e \in Ends /\ e \in open /\ e[1] = conn[n][m] /\ e[2] = n /\ Peer(e[1], e[2]) = m
  BY <1>1, HeldEnd
<1>4. /\ Tabled(Conns \cup {None}, conn') /\ conn'[n][m] = None
      /\ \A k \in Node : \A o \in Nbr[k] : k # n \/ o # m => conn'[k][o] = conn[k][o]
  <2>1. PICK X : X = Conns \cup {None}
    OBVIOUS
  <2>2. None \in X /\ Tabled(X, conn)
    BY <1>1, <2>1 DEF OverlayTypes
  <2>3. conn' = SetCell(conn, n, m, None)
    BY <1>2
  <2>4. QED
    BY <2>1, <2>2, <2>3, Cell
<1>5. OverlayTypes'
  <2>1. open' \in SUBSET Ends
    BY <1>1, <1>2 DEF OverlayTypes
  <2>2. QED
    BY <1>1, <1>2, <1>4, <2>1 DEF OverlayTypes
<1>6. Held'
  <2> SUFFICES ASSUME NEW k \in Node, NEW o \in Nbr[k], conn'[k][o] # None
               PROVE  /\ <<conn'[k][o], k>> \in open' /\ Peer(conn'[k][o], k) = o
                      /\ o < k => conn'[k][o][3] = runs[k]
    BY <1>2 DEF Held
  <2>1. k # n \/ o # m
    BY <1>4
  <2>2. conn'[k][o] = conn[k][o] /\ conn[k][o] # None
    BY <1>4, <2>1
  <2>3. <<conn[k][o], k>> \in open /\ Peer(conn[k][o], k) = o /\ (o < k => conn[k][o][3] = runs[k])
    BY <1>1, <2>2 DEF Held
  <2>4. <<conn[k][o], k>> # e
    BY <1>3, <2>1, <2>3
  <2>5. QED
    BY <1>2, <2>2, <2>3, <2>4
<1>7. Waiting'
  <2>1. ASSUME NEW k \in Node, NEW i \in DOMAIN backlog[k], NEW b, b = backlog[k][i]
        PROVE  <<b, k>> \in open' /\ b[2] = k /\ conn'[k][b[1]] # b
    <3>1. b = backlog[k][i]
      BY <2>1
    <3>2. <<b, k>> \in open /\ b[2] = k /\ conn[k][b[1]] # b
      BY <1>1, <3>1 DEF Waiting
    <3>3. b[1] \in Nbr[k] /\ b # None
      <4>1. PICK x \in Ends : x = <<b, k>>
        BY <1>1, <3>2 DEF OverlayTypes
      <4>2. x[1] = b /\ x[1] \in Conns /\ x[1][1] \in Nbr[x[1][2]]
        BY <4>1, EndFacts
      <4>3. QED
        BY <3>2, <4>2, ConnFacts
    <3>4. <<b, k>> # e
      <4>1. k = n => b # conn[n][m]
        BY <1>1, <3>1, NotBoth DEF Waits
      <4>2. QED
        BY <1>3, <4>1
    <3>5. conn'[k][b[1]] # b
      BY <1>4, <3>2, <3>3
    <3>6. QED
      BY <1>2, <3>1, <3>2, <3>4, <3>5
  <2>2. \A k \in Node : \A i, j \in DOMAIN backlog[k] : backlog[k][i] = backlog[k][j] => i = j
    BY <1>1 DEF Waiting
  <2>3. \A k \in Node : \A i \in DOMAIN backlog'[k] :
          LET b == backlog'[k][i] IN <<b, k>> \in open' /\ b[2] = k /\ conn'[k][b[1]] # b
    <3>1. SUFFICES ASSUME NEW k \in Node, NEW i \in DOMAIN backlog'[k], NEW b, b = backlog'[k][i]
                   PROVE  <<b, k>> \in open' /\ b[2] = k /\ conn'[k][b[1]] # b
      OBVIOUS
    <3>2. i \in DOMAIN backlog[k] /\ b = backlog[k][i]
      BY <1>2, <3>1
    <3>3. QED
      BY <2>1, <3>2
  <2>4. \A k \in Node : \A i, j \in DOMAIN backlog'[k] : backlog'[k][i] = backlog'[k][j] => i = j
    BY <1>2, <2>2
  <2>5. QED
    BY <2>3, <2>4 DEF Waiting
<1>8. \A x \in Ends : conn'[Peer(x[1], x[2])][x[2]] = x[1] => conn[Peer(x[1], x[2])][x[2]] = x[1]
  <2>1. ASSUME NEW x \in Ends PROVE conn'[Peer(x[1], x[2])][x[2]] = x[1] => conn[Peer(x[1], x[2])][x[2]] = x[1]
    <3>1. Peer(x[1], x[2]) \in Node /\ x[2] \in Nbr[Peer(x[1], x[2])] /\ x[1] # None
      BY EndFacts, ConnFacts
    <3>2. QED
      BY <1>4, <3>1
  <2>2. QED
    BY <2>1
<1>9. Opened'
  <2>1. \A x \in told : conn'[Peer(x[1], x[2])][x[2]] # x[1]
    BY <1>1, <1>8 DEF Opened, OverlayTypes
  <2>2. QED
    BY <1>1, <1>2, <2>1 DEF Opened, Waits
<1>10. Early'
  <2>1. \A k \in Node : son[k] = "off" => \A o \in Nbr[k] : conn'[k][o] = None
    BY <1>1, <1>4 DEF Early
  <2>2. \A k \in Node : son[k] # "running" => \A o \in Nbr[k] : reader'[k][o] = AtStart
    BY <1>1 DEF Early
  <2>3. QED
    BY <1>1, <1>2, <2>1, <2>2 DEF Early
<1>11. Fresh'
  <2> SUFFICES ASSUME NEW x \in Ends, Unused(x[1])' PROVE x \notin open' \cup told /\ chan'[x] = <<>>
    BY <1>2 DEF Fresh
  <2>1. Unused(x[1])
    <3>1. x[1][1] \in Node /\ x[1][2] \in Nbr[x[1][1]]
      BY EndFacts
    <3>2. QED
      BY <1>2, <1>4, <3>1 DEF Unused
  <2>2. x # e
    BY <1>1, <1>3, <2>1 DEF Fresh
  <2>3. QED
    BY <1>1, <1>2, <2>1, <2>2 DEF Fresh
<1>12. Channels'
  <2> SUFFICES ASSUME NEW x \in open, x # e PROVE Channel(x)'
    BY <1>2 DEF Channels
  <2>1. x \in Ends /\ Channel(x) /\ Peer(x[1], x[2]) \in Nbr[x[2]] /\ x[2] \in Node /\ x = <<x[1], x[2]>> /\ x[1] # None
    <3>1. x \in Ends /\ Channel(x)
      BY <1>1 DEF Channels, OverlayTypes
    <3>2. QED
      BY <3>1, EndFacts, ConnFacts
  <2>2. ReaderAt(x)' = ReaderAt(x)
    <3>1. CASE x[2] = n /\ Peer(x[1], x[2]) = m
      <4>1. conn[x[2]][Peer(x[1], x[2])] # x[1]
        BY <2>1, <3>1
      <4>2. QED
        BY <1>4, <2>1, <3>1, <4>1 DEF ReaderAt
    <3>2. CASE ~(x[2] = n /\ Peer(x[1], x[2]) = m)
      BY <1>4, <2>1, <3>2 DEF ReaderAt
    <3>3. QED
      BY <3>1, <3>2
  <2>3. Sending(Peer(x[1], x[2]), x[2])' = Sending(Peer(x[1], x[2]), x[2])
    BY <1>2 DEF Sending
  <2>4. QED
    BY <1>2, <1>8, <2>1, <2>2, <2>3, ChannelKept DEF Waits
<1>13. CloseAnnounced'
  BY <1>1, <1>2 DEF CloseAnnounced, Up
<1>14. QED
  BY <1>5, <1>6, <1>7, <1>9, <1>10, <1>11, <1>12, <1>13 DEF OverlayInv

\* A process ends.  To some of its neighbours it has sent CLOSE: those in sent
\* have an open end, and whole are those to which no frame was begun.
LEMMA EndedInv ==
  ASSUME OverlayInv, NEW n \in Node, NEW sent \in SUBSET Nbr[n], NEW whole \in SUBSET sent, Ended(n), son[n] # "off",
         \A m \in sent : conn[n][m] # None /\ <<conn[n][m], m>> \in open,
         \A m \in whole : Sending(n, m) = "PKTSTART1",
         chan' \in [Ends -> Seq(Token(Packet))],
         \A e \in Ends : e[2] = n => chan'[e] = <<>>,
         \A m \in sent : m # n => chan'[<<conn[n][m], m>>] = chan[<<conn[n][m], m>>] \o Frame(<<"CLOSE">>),
         \A e \in Ends : e[2] # n /\ (\A m \in sent : e # <<conn[n][m], m>>) => chan'[e] = chan[e],
         told' = told \cup {<<conn[n][m], m>> : m \in whole}, heard' = heard
  PROVE  OverlayInv'
<1>1. /\ OverlayTypes /\ Held /\ Waiting /\ Opened /\ Early /\ Fresh /\ Channels
      /\ CloseAnnounced
  BY DEF OverlayInv
<1>2. /\ son' = Put(son, n, "off") /\ open' = {e \in open : e[2] # n}
      /\ conn' = Put(conn, n, [m \in Nbr[n] |-> None]) /\ reader' = Put(reader, n, [m \in Nbr[n] |-> AtStart])
      /\ backlog' = Put(backlog, n, <<>>) /\ targets' = Put(targets, n, {}) /\ part' = Put(part, n, 1)
      /\ runs' = runs /\ conNum' = conNum /\ accepting' = accepting /\ pkts' = pkts
  BY DEF Ended
<1>3. /\ Tabled(Conns \cup {None}, conn') /\ (\A m \in Nbr[n] : conn'[n][m] = None)
      /\ \A k \in Node : k # n => conn'[k] = conn[k]
  <2>1. PICK X : X = Conns \cup {None}
    OBVIOUS
  <2>2. PICK row : row = [m \in Nbr[n] |-> None]
    OBVIOUS
  <2>3. row \in [Nbr[n] -> X] /\ \A m \in Nbr[n] : row[m] = None
    BY <2>1, <2>2
  <2>4. Tabled(X, conn) /\ conn' = Put(conn, n, row)
    BY <1>1, <1>2, <2>1, <2>2 DEF OverlayTypes
  <2>5. Tabled(X, conn') /\ conn'[n] = row /\ \A k \in Node : k # n => conn'[k] = conn[k]
    BY <2>3, <2>4, Row
  <2>6. QED
    BY <2>1, <2>3, <2>5
<1>4. /\ Tabled(Readers(Packet), reader') /\ (\A m \in Nbr[n] : reader'[n][m] = AtStart)
      /\ \A k \in Node : k # n => reader'[k] = reader[k]
  <2>1. PICK row : row = [m \in Nbr[n] |-> AtStart]
    OBVIOUS
  <2>2. AtStart \in Readers(Packet)
    BY DEF AtStart, Readers
  <2>3. row \in [Nbr[n] -> Readers(Packet)] /\ \A m \in Nbr[n] : row[m] = AtStart
    BY <2>1, <2>2
  <2>4. Tabled(Readers(Packet), reader) /\ reader' = Put(reader, n, row)
    BY <1>1, <1>2, <2>1 DEF OverlayTypes
  <2>5. Tabled(Readers(Packet), reader') /\ reader'[n] = row /\ \A k \in Node : k # n => reader'[k] = reader[k]
    BY <2>3, <2>4, Row
  <2>6. QED
    BY <2>3, <2>5
<1>5. /\ son'[n] = "off" /\ backlog'[n] = <<>> /\ targets'[n] = {} /\ part'[n] = 1
      /\ \A k \in Node : k # n => son'[k] = son[k] /\ backlog'[k] = backlog[k] /\ targets'[k] = targets[k] /\ part'[k] = part[k]
  BY <1>1, <1>2 DEF OverlayTypes, Put
<1>6. ASSUME NEW m \in sent
      PROVE  /\ <<conn[n][m], m>> \in Ends /\ <<conn[n][m], n>> \in open /\ <<conn[n][m], m>> \in open
             /\ m # n /\ m \in Nbr[n] /\ m \in Node /\ Peer(conn[n][m], m) = n /\ Peer(conn[n][m], n) = m
  <2>1. m \in Nbr[n] /\ m # n /\ m \in Node /\ conn[n][m] # None /\ <<conn[n][m], m>> \in open
    BY ConnFacts
  <2>2. <<conn[n][m], n>> \in Ends /\ <<conn[n][m], n>> \in open /\ Peer(conn[n][m], n) = m
    BY <1>1, <2>1, HeldEnd
  <2>3. Peer(conn[n][m], m) = n
    BY <2>2, EndFacts
  <2>4. QED
    BY <1>1, <2>1, <2>2, <2>3 DEF OverlayTypes
<1>7. OverlayTypes'
  <2>1. son' \in [Node -> {"off", "starting", "running"}] /\ backlog' \in [Node -> Seq(Conns)]
    BY <1>1, <1>2 DEF OverlayTypes, Put
  <2>2. targets' \in [Node -> SUBSET Node] /\ part' \in [Node -> 1..3]
    BY <1>1, <1>2 DEF OverlayTypes, Put
  <2>3. \A k \in Node : targets'[k] \subseteq Nbr[k]
    BY <1>1, <1>5 DEF OverlayTypes
  <2>4. open' \in SUBSET Ends /\ told' \in SUBSET Ends /\ heard' \in SUBSET Ends
    BY <1>1, <1>2, <1>6 DEF OverlayTypes
  <2>5. QED
    BY <1>1, <1>2, <1>3, <1>4, <2>1, <2>2, <2>3, <2>4 DEF OverlayTypes
<1>8. Held'
  <2> SUFFICES ASSUME NEW k \in Node, NEW o \in Nbr[k], conn'[k][o] # None
               PROVE  /\ <<conn'[k][o], k>> \in open' /\ Peer(conn'[k][o], k) = o
                      /\ o < k => conn'[k][o][3] = runs[k]
    BY <1>2 DEF Held
  <2>1. k # n
    BY <1>3
  <2>2. conn'[k][o] = conn[k][o] /\ conn[k][o] # None
    BY <1>3, <2>1
  <2>3. <<conn[k][o], k>> \in open /\ Peer(conn[k][o], k) = o /\ (o < k => conn[k][o][3] = runs[k])
    BY <1>1, <2>2 DEF Held
  <2>4. QED
    BY <1>2, <2>1, <2>2, <2>3
<1>9. \A k \in Node : \A x : Waits(k, x)' => Waits(k, x) /\ k # n
  BY <1>5 DEF Waits
<1>10. Waiting'
  <2>1. \A k \in Node : \A i \in DOMAIN backlog'[k] :
          LET b == backlog'[k][i] IN <<b, k>> \in open' /\ b[2] = k /\ conn'[k][b[1]] # b
    <3>1. SUFFICES ASSUME NEW k \in Node, NEW i \in DOMAIN backlog'[k], NEW b, b = backlog'[k][i]
                   PROVE  <<b, k>> \in open' /\ b[2] = k /\ conn'[k][b[1]] # b
      OBVIOUS
    <3>2. k # n /\ i \in DOMAIN backlog[k] /\ b = backlog[k][i]
      BY <1>5, <3>1
    <3>3. <<b, k>> \in open /\ b[2] = k /\ conn[k][b[1]] # b
      BY <1>1, <3>2 DEF Waiting
    <3>4. QED
      BY <1>2, <1>3, <3>2, <3>3
  <2>2. \A k \in Node : \A i, j \in DOMAIN backlog'[k] : backlog'[k][i] = backlog'[k][j] => i = j
    BY <1>1, <1>5 DEF Waiting
  <2>3. QED
    BY <2>1, <2>2 DEF Waiting
<1>11. \A e \in Ends : conn'[Peer(e[1], e[2])][e[2]] = e[1] =>
         conn[Peer(e[1], e[2])][e[2]] = e[1] /\ Peer(e[1], e[2]) # n
  <2>1. ASSUME NEW e \in Ends, conn'[Peer(e[1], e[2])][e[2]] = e[1]
        PROVE  conn[Peer(e[1], e[2])][e[2]] = e[1] /\ Peer(e[1], e[2]) # n
    <3>1. Peer(e[1], e[2]) \in Node /\ e[2] \in Nbr[Peer(e[1], e[2])] /\ e[1] # None
      BY EndFacts, ConnFacts
    <3>2. QED
      BY <1>3, <2>1, <3>1
  <2>2. QED
    BY <2>1
<1>12. Opened'
  <2>1. \A e \in open' : son'[e[2]] # "off"
    BY <1>1, <1>2, <1>5, EndFacts DEF Opened, OverlayTypes
  <2>2. \A k \in Node : son'[k] # "off" => runs[k] >= 1
    BY <1>1, <1>5 DEF Opened
  <2>3. \A e \in open' \cup told' : e[1][3] <= runs[e[1][1]] /\ runs[e[1][2]] >= 1
    <3>1. \A m \in whole : <<conn[n][m], m>> \in open
      OBVIOUS
    <3>2. \A e \in open' \cup told' : e \in open \cup told
      BY <1>2, <3>1
    <3>3. QED
      BY <1>1, <3>2 DEF Opened
  <2>4. \A e \in told' : conn'[Peer(e[1], e[2])][e[2]] # e[1] /\ ~Waits(Peer(e[1], e[2]), e[1])'
    <3>1. ASSUME NEW e \in told PROVE conn'[Peer(e[1], e[2])][e[2]] # e[1] /\ ~Waits(Peer(e[1], e[2]), e[1])'
      <4>1. e \in Ends
        BY <1>1 DEF OverlayTypes
      <4>2. Peer(e[1], e[2]) \in Node /\ conn[Peer(e[1], e[2])][e[2]] # e[1] /\ ~Waits(Peer(e[1], e[2]), e[1])
        BY <1>1, <4>1, EndFacts DEF Opened
      <4>3. QED
        BY <1>9, <1>11, <4>1, <4>2
    <3>2. ASSUME NEW m \in whole, NEW e, e = <<conn[n][m], m>>
          PROVE  conn'[Peer(e[1], e[2])][e[2]] # e[1] /\ ~Waits(Peer(e[1], e[2]), e[1])'
      <4>1. e \in Ends /\ Peer(e[1], e[2]) = n
        BY <1>6, <3>2
      <4>2. QED
        BY <1>9, <1>11, <4>1
    <3>3. QED
      BY <3>1, <3>2
  <2>5. QED
    BY <1>2, <2>1, <2>2, <2>3, <2>4 DEF Opened
<1>13. Early'
  <2>1. \A k \in Node : son'[k] = "off" => (\A m \in Nbr[k] : conn'[k][m] = None) /\ backlog'[k] = <<>>
    BY <1>1, <1>3, <1>5 DEF Early
  <2>2. \A k \in Node : son'[k] # "running" => (\A m \in Nbr[k] : reader'[k][m] = AtStart) /\ targets'[k] = {}
    BY <1>1, <1>4, <1>5 DEF Early
  <2>3. \A k \in Node : targets'[k] = {} => part'[k] = 1
    BY <1>1, <1>5 DEF Early
  <2>4. \A k \in Node : /\ accepting[k] => conNum[k] < Cardinality(Larger(k))
                        /\ conNum[k] <= Cardinality(Larger(k))
                        /\ son'[k] = "starting" /\ ~accepting[k] => conNum[k] = Cardinality(Larger(k))
    BY <1>1, <1>5 DEF Early
  <2>5. QED
    BY <1>2, <2>1, <2>2, <2>3, <2>4 DEF Early
<1>14. Fresh'
  <2> SUFFICES ASSUME NEW e \in Ends, Unused(e[1])' PROVE e \notin open' \cup told' /\ chan'[e] = <<>>
    BY DEF Fresh
  <2>1. Unused(e[1])
    <3>1. e[1][1] \in Node
      BY EndFacts
    <3>2. QED
      BY <1>2, <1>3, <1>5, <3>1 DEF Unused
  <2>2. e \notin open \cup told /\ chan[e] = <<>>
    BY <1>1, <2>1 DEF Fresh
  <2>3. \A m \in sent : e # <<conn[n][m], m>>
    BY <2>2
  <2>4. QED
    BY <1>2, <2>2, <2>3
<1>15. ASSUME NEW e \in open, e[2] # n PROVE Channel(e)'
  <2>1. e \in Ends /\ Channel(e) /\ Peer(e[1], e[2]) \in Node /\ e[2] \in Node /\ e = <<e[1], e[2]>>
    <3>1. e \in Ends /\ Channel(e)
      BY <1>1 DEF Channels, OverlayTypes
    <3>2. QED
      BY <3>1, EndFacts
  <2>2. ReaderAt(e)' = ReaderAt(e)
    BY <1>3, <1>4, <1>15, <2>1 DEF ReaderAt
  <2>3. CASE \A m \in sent : e # <<conn[n][m], m>>
    <3>1. chan'[e] = chan[e] /\ (e \in told' => e \in told)
      BY <1>15, <2>1, <2>3
    <3>2. conn'[Peer(e[1], e[2])][e[2]] = e[1] =>
            conn[Peer(e[1], e[2])][e[2]] = e[1] /\ Sending(Peer(e[1], e[2]), e[2])' = Sending(Peer(e[1], e[2]), e[2])
      <4>1. Peer(e[1], e[2]) # n => Sending(Peer(e[1], e[2]), e[2])' = Sending(Peer(e[1], e[2]), e[2])
        BY <1>5, <2>1 DEF Sending
      <4>2. QED
        BY <1>11, <2>1, <4>1
    <3>3. QED
      BY <1>9, <2>1, <2>2, <3>1, <3>2, ChannelKept
  <2>4. CASE \E m \in sent : e = <<conn[n][m], m>>
    <3>1. PICK m \in sent : e = <<conn[n][m], m>>
      BY <2>4
    <3>2. e[1] = conn[n][m] /\ e[2] = m /\ Peer(e[1], e[2]) = n /\ m # n /\ conn[n][m] # None
      BY <1>6, <3>1
    <3>3. PICK ss : Follows(Packet, ss, ReaderAt(e), chan[e]) /\ Reads(ss, e)
      BY <2>1 DEF Channel
    <3>4. chan[e] \in Seq(Token(Packet)) /\ <<"CLOSE">> \in Packet /\ chan'[e] = chan[e] \o Frame(<<"CLOSE">>)
      BY <1>1, <2>1, <3>1, <3>2 DEF OverlayTypes, Packet
    <3>5. PICK tt : /\ Follows(Packet, tt, ReaderAt(e), chan'[e])
                    /\ ss[Len(chan[e])].state = "PKTSTART1" =>
                         /\ Whole(tt, chan'[e], <<"CLOSE">>)
                         /\ Clean(ss, chan[e]) => Clean(tt, chan'[e])
      <4>1. PICK q, p : q = chan[e] /\ p = <<"CLOSE">>
        OBVIOUS
      <4>2. q \in Seq(Token(Packet)) /\ p \in Packet /\ Follows(Packet, ss, ReaderAt(e), q)
        BY <3>3, <3>4, <4>1
      <4>3. \E tt : /\ Follows(Packet, tt, ReaderAt(e), q \o Frame(p))
                    /\ ss[Len(q)].state = "PKTSTART1" => Whole(tt, q \o Frame(p), p) /\ (Clean(ss, q) => Clean(tt, q \o Frame(p)))
        BY <4>2, FrameRead
      <4>4. QED
        BY <3>4, <4>1, <4>3
    <3>6. e \in told' => m \in whole
      <4>1. e \notin told
        BY <1>1, <3>2 DEF Opened
      <4>2. e \in told' => \E o \in whole : e = <<conn[n][o], o>>
        BY <4>1
      <4>3. QED
        BY <3>2, <4>2
    <3>7. Clean(ss, chan[e]) /\ ss[Len(chan[e])].state = Sending(n, m)
      BY <3>2, <3>3 DEF Reads
    <3>8. ~(conn'[n][m] = e[1]) /\ ~Waits(n, e[1])'
      BY <1>3, <1>6, <1>9, <3>2
    <3>9. Reads(tt, e)'
      BY <3>2, <3>5, <3>6, <3>7, <3>8 DEF Reads
    <3>10. Follows(Packet, tt, ReaderAt(e), chan[e])'
      BY <2>2, <3>5
    <3>11. QED
      BY <3>9, <3>10 DEF Channel
  <2>5. QED
    BY <2>3, <2>4
<1>16. Channels'
  BY <1>2, <1>15 DEF Channels
<1>17. CloseAnnounced'
  <2> SUFFICES ASSUME NEW e \in told', e \notin open', runs[e[2]] <= 1, son'[e[2]] # "off" PROVE e \in heard
    BY <1>2 DEF CloseAnnounced, Up
  <2>1. e \in Ends /\ e[2] \in Node /\ e[2] # n
    BY <1>5, <1>7, EndFacts DEF OverlayTypes
  <2>2. e \notin open
    BY <1>2, <2>1
  <2>3. e \in told
    BY <2>2
  <2>4. QED
    BY <1>1, <1>5, <2>1, <2>2, <2>3 DEF CloseAnnounced, Up
<1>18. QED
  BY <1>7, <1>8, <1>10, <1>12, <1>13, <1>14, <1>16, <1>17 DEF OverlayInv

\* A process that ends without a word.
LEMMA DiedInv ==
  ASSUME OverlayInv, NEW n \in Node, Ended(n), son[n] # "off", chan' = Unread(chan, n),
         told' = told, heard' = heard
  PROVE  OverlayInv'
<1>1. chan \in [Ends -> Seq(Token(Packet))]
  BY DEF OverlayInv, OverlayTypes
<1>2. /\ chan' \in [Ends -> Seq(Token(Packet))]
      /\ \A e \in Ends : e[2] = n => chan'[e] = <<>>
      /\ \A e \in Ends : e[2] # n => chan'[e] = chan[e]
  BY <1>1 DEF Unread
<1>3. PICK none : none = {}
  OBVIOUS
<1>4. none \in SUBSET Nbr[n] /\ none \in SUBSET none /\ \A m : m \notin none
  BY <1>3
<1>5. told' = told \cup {<<conn[n][m], m>> : m \in none}
  BY <1>4
<1>6. QED
  BY <1>2, <1>4, <1>5, EndedInv

\* son_stop.
LEMMA StopSonInv ==
  ASSUME OverlayInv, NEW n \in Node, StopSon(n)
  PROVE  OverlayInv'
<1>1. OverlayTypes /\ Held /\ Early
  BY DEF OverlayInv
<1>2. PICK live : live = {m \in Nbr[n] : conn[n][m] # None /\ <<conn[n][m], m>> \in open}
  OBVIOUS
<1>3. PICK sent \in SUBSET live :
        /\ chan' = Unread([e \in Ends |->
             IF \E m \in sent : e = <<conn[n][m], m>> THEN chan[e] \o Frame(<<"CLOSE">>) ELSE chan[e]], n)
        /\ told' = told \cup {<<conn[n][m], m>> : m \in {m \in sent : ~(part[n] # 1 /\ m = Min(targets[n]))}}
  <2>1. {m \in {m \in Nbr[n] : conn[n][m] # None} : <<conn[n][m], m>> \in open} = live
    BY <1>2
  <2>2. QED
    BY <2>1 DEF StopSon
<1>4. PICK whole : whole = {m \in sent : ~(part[n] # 1 /\ m = Min(targets[n]))}
  OBVIOUS
<1>5. /\ Ended(n) /\ son[n] # "off" /\ heard' = heard
      /\ told' = told \cup {<<conn[n][m], m>> : m \in whole}
  BY <1>3, <1>4 DEF StopSon, Up
<1>6. /\ sent \in SUBSET Nbr[n] /\ whole \in SUBSET sent
      /\ \A m \in sent : conn[n][m] # None /\ <<conn[n][m], m>> \in open
  BY <1>2, <1>4
<1>7. \A m \in whole : Sending(n, m) = "PKTSTART1"
  BY <1>4 DEF Sending
<1>8. PICK close : close = [e \in Ends |-> IF \E m \in sent : e = <<conn[n][m], m>> THEN chan[e] \o Frame(<<"CLOSE">>) ELSE chan[e]]
  OBVIOUS
<1>9. /\ close \in [Ends -> Seq(Token(Packet))]
      /\ \A e \in Ends : (\E m \in sent : e = <<conn[n][m], m>>) => close[e] = chan[e] \o Frame(<<"CLOSE">>)
      /\ \A e \in Ends : ~(\E m \in sent : e = <<conn[n][m], m>>) => close[e] = chan[e]
  <2>1. Frame(<<"CLOSE">>) \in Seq(Token(Packet))
    BY DEF Frame, Token, Packet
  <2>2. \A e \in Ends : chan[e] \in Seq(Token(Packet)) /\ chan[e] \o Frame(<<"CLOSE">>) \in Seq(Token(Packet))
    BY <1>1, <2>1 DEF OverlayTypes
  <2>3. QED
    BY <1>8, <2>2
<1>10. /\ chan' \in [Ends -> Seq(Token(Packet))]
       /\ \A e \in Ends : e[2] = n => chan'[e] = <<>>
       /\ \A e \in Ends : e[2] # n => chan'[e] = close[e]
  <2>1. chan' = Unread(close, n)
    BY <1>3, <1>8
  <2>2. QED
    BY <1>9, <2>1 DEF Unread
<1>11. \A m \in sent : <<conn[n][m], m>> \in Ends
  BY <1>1, <1>6 DEF OverlayTypes
<1>12. \A m \in sent : m # n => chan'[<<conn[n][m], m>>] = chan[<<conn[n][m], m>>] \o Frame(<<"CLOSE">>)
  BY <1>9, <1>10, <1>11
<1>13. \A e \in Ends : e[2] # n /\ (\A m \in sent : e # <<conn[n][m], m>>) => chan'[e] = chan[e]
  BY <1>9, <1>10
<1>14. QED
  BY <1>5, <1>6, <1>7, <1>10, <1>12, <1>13, EndedInv

LEMMA SendPartInv ==
  ASSUME OverlayInv, NEW n \in Node, NEW m \in Nbr[n], SendPart(n, m)
  PROVE  OverlayInv'
<1>1. PICK c : c = conn[n][m]
  OBVIOUS
<1>2. m \in targets[n] /\ m = Min(targets[n]) /\ c # None /\ son[n] # "off"
  BY <1>1 DEF SendPart
<1>3. CASE /\ chan' = IF <<c, m>> \in open THEN Put(chan, <<c, m>>, Append(chan[<<c, m>>], Part(part[n], <<"sip">>))) ELSE chan
           /\ part' = Put(part, n, (part[n] % 3) + 1)
           /\ targets' = IF part[n] = 3 THEN Put(targets, n, targets[n] \ {m}) ELSE targets
           /\ UNCHANGED <<meshVars, open, reader, pkts, told, heard>>
  BY <1>1, <1>2, <1>3, SentInv
<1>4. CASE /\ <<c, m>> \notin open
           /\ targets' = Put(targets, n, targets[n] \ {m}) /\ part' = Put(part, n, 1)
           /\ UNCHANGED <<meshVars, open, chan, reader, pkts, told, heard>>
  BY <1>1, <1>2, <1>4, SkipInv
<1>5. CASE Ended(n) /\ chan' = Unread(chan, n) /\ UNCHANGED <<told, heard>>
  BY <1>2, <1>5, DiedInv
<1>6. QED
  BY <1>1, <1>3, <1>4, <1>5 DEF SendPart

LEMMA ReceiveInv ==
  ASSUME OverlayInv, NEW n \in Node, NEW m \in Nbr[n], Listen(n, m) \/ ListenEnds(n, m)
  PROVE  OverlayInv'
<1>1. OverlayTypes /\ Held /\ Channels
  BY DEF OverlayInv
<1>2. son[n] = "running" /\ conn[n][m] # None
  BY DEF Listen, ListenEnds, Listening
<1>3. PICK e : e = <<conn[n][m], n>>
  OBVIOUS
<1>4. e \in Ends /\ e \in open /\ ReaderAt(e) = reader[n][m] /\ Channel(e)
  BY <1>1, <1>2, <1>3, HeldEnd DEF Channels
<1>5. chan \in [Ends -> Seq(Token(Packet))] /\ chan[e] \in Seq(Token(Packet)) /\ Tabled(Readers(Packet), reader) /\ heard \in SUBSET Ends
  BY <1>1, <1>4 DEF OverlayTypes
<1>6. PICK ss : Follows(Packet, ss, reader[n][m], chan[e]) /\ Reads(ss, e)
  BY <1>4 DEF Channel
<1>7. CASE ListenEnds(n, m)
  <2>1. chan[e] = <<>> /\ Closed(n, m) /\ chan' = chan /\ reader' = reader /\ heard' = heard
    BY <1>3, <1>7 DEF ListenEnds
  <2>2. ~Whole(ss, chan[e], <<"CLOSE">>)
    BY <2>1 DEF Whole
  <2>3. e \in told => e \in heard
    BY <1>6, <2>2 DEF Reads
  <2>4. QED
    BY <1>2, <1>3, <1>5, <2>1, <2>3, ClosedInv
<1>8. CASE Listen(n, m)
  <2>1. PICK token, res : token = Head(chan[e]) /\ res = Returns(reader[n][m], token)
    OBVIOUS
  <2>2. /\ chan[e] # <<>> /\ chan' = Put(chan, e, Tail(chan[e]))
        /\ reader' = SetCell(reader, n, m, Goes(reader[n][m], token))
        /\ heard' = IF res = 1 /\ reader[n][m].pkt = <<"CLOSE">> THEN heard \cup {e} ELSE heard
        /\ IF res = -1 THEN Closed(n, m) ELSE UNCHANGED <<meshVars, open, targets, part, pkts, told>>
    BY <1>3, <1>8, <2>1 DEF Listen, SetCell
  <2>3. CASE res # -1
    BY <1>2, <1>3, <2>1, <2>2, <2>3, ListenInv
  <2>4. CASE res = -1
    <3>1. Goes(reader[n][m], token) \in Readers(Packet) /\ Tail(chan[e]) \in Seq(Token(Packet)) /\ ~Clean(ss, chan[e])
      BY <1>5, <1>6, <2>1, <2>2, <2>4, Advanced
    <3>2. e \notin told
      BY <1>6, <3>1 DEF Reads
    <3>3. chan' \in [Ends -> Seq(Token(Packet))] /\ \A x \in Ends : x # e => chan'[x] = chan[x]
      <4>1. PICK q \in Seq(Token(Packet)) : q = Tail(chan[e])
        BY <3>1
      <4>2. chan' = Put(chan, e, q)
        BY <2>2, <4>1
      <4>3. QED
        BY <1>5, <4>2 DEF Put
    <3>4. /\ Tabled(Readers(Packet), reader')
          /\ \A k \in Node : \A o \in Nbr[k] : k # n \/ o # m => reader'[k][o] = reader[k][o]
      <4>1. PICK x \in Readers(Packet) : x = Goes(reader[n][m], token)
        BY <3>1
      <4>2. reader' = SetCell(reader, n, m, x)
        BY <2>2, <4>1
      <4>3. QED
        BY <1>5, <4>2, Cell
    <3>5. Closed(n, m) /\ heard' = heard
      BY <2>2, <2>4
    <3>6. (e \in told => e \in heard) /\ heard' \in SUBSET Ends /\ heard \subseteq heard'
      BY <1>5, <3>2, <3>5
    <3>7. Closed(n, m)
      BY <3>5
    <3>8. QED
      BY <1>2, <1>3, <3>3, <3>4, <3>6, <3>7, ClosedInv
  <2>5. QED
    BY <2>3, <2>4
<1>9. QED
  BY <1>7, <1>8

\* The connections of the overlay hold together through every step.
LEMMA OverlayStep == OverlayInv /\ [OverlayNext]_overlayVars => OverlayInv'
<1> SUFFICES ASSUME OverlayInv, [OverlayNext]_overlayVars PROVE OverlayInv'
  OBVIOUS
<1>1. \A n \in Node : Nbr[n] \subseteq Node
  BY ConnFacts
<1>2. ASSUME NEW n \in Node, StartSon(n) PROVE OverlayInv'
  BY <1>2, StartSonInv
<1>3. ASSUME NEW n \in Node, NEW m \in Node, Connect(n, m) PROVE OverlayInv'
  BY <1>3, ConnectInv
<1>4. ASSUME NEW n \in Node, NEW m \in Node, ConnectFails(n, m) PROVE OverlayInv'
  <2>1. son[n] # "off" /\ Ended(n) /\ chan' = Unread(chan, n) /\ told' = told /\ heard' = heard
    BY <1>4 DEF ConnectFails
  <2>2. QED
    BY <2>1, DiedInv
<1>5. ASSUME NEW n \in Node, Accept(n) PROVE OverlayInv'
  BY <1>5, WaitNbrsInv
<1>6. ASSUME NEW n \in Node, Join(n) \/ GetPktToSend(n) PROVE OverlayInv'
  BY <1>6, JoinInv
<1>7. ASSUME NEW n \in Node, NEW m \in Nbr[n], SendPart(n, m) PROVE OverlayInv'
  BY <1>7, SendPartInv
<1>8. ASSUME NEW n \in Node, NEW m \in Nbr[n], SkipTarget(n, m) PROVE OverlayInv'
  <2>1. /\ m \in targets[n] /\ m = Min(targets[n]) /\ conn[n][m] = None
        /\ targets' = Put(targets, n, targets[n] \ {m}) /\ part' = Put(part, n, 1) /\ chan' = chan
        /\ UNCHANGED <<meshVars, open, reader, pkts, told, heard>>
    BY <1>8 DEF SkipTarget
  <2>2. QED
    BY <2>1, SkipInv
<1>9. ASSUME NEW n \in Node, NEW m \in Nbr[n], Listen(n, m) \/ ListenEnds(n, m) PROVE OverlayInv'
  BY <1>9, ReceiveInv
<1>10. ASSUME NEW n \in Node, StopSon(n) PROVE OverlayInv'
  BY <1>10, StopSonInv
<1>11. CASE UNCHANGED overlayVars
  <2>1. /\ son' = son /\ runs' = runs /\ conn' = conn /\ conNum' = conNum /\ accepting' = accepting /\ backlog' = backlog
        /\ open' = open /\ chan' = chan /\ reader' = reader /\ targets' = targets /\ part' = part /\ pkts' = pkts
        /\ told' = told /\ heard' = heard
    BY <1>11 DEF overlayVars, meshVars, linkVars
  <2>2. OverlayTypes' /\ Held' /\ Waiting' /\ Opened' /\ Early' /\ Fresh' /\ CloseAnnounced'
    <3>1. OverlayTypes /\ Held /\ Waiting /\ Opened /\ Early /\ Fresh /\ CloseAnnounced
      BY DEF OverlayInv
    <3>2. OverlayTypes'
      BY <2>1, <3>1 DEF OverlayTypes
    <3>3. Held' /\ Waiting' 
      BY <2>1, <3>1 DEF Held, Waiting
    <3>4. Opened' /\ Early'
      BY <2>1, <3>1 DEF Opened, Waits, Early
    <3>5. Fresh' /\ CloseAnnounced'
      BY <2>1, <3>1 DEF Fresh, Unused, CloseAnnounced, Up
    <3>6. QED
      BY <3>2, <3>3, <3>4, <3>5
  <2>3. Channels'
    <3>1. ASSUME NEW e \in open PROVE Channel(e)'
      <4>1. e \in Ends /\ Channel(e)
        BY DEF OverlayInv, OverlayTypes, Channels
      <4>2. QED
        BY <2>1, <4>1, ChannelKept DEF ReaderAt, Sending, Waits
    <3>2. QED
      BY <2>1, <3>1 DEF Channels
  <2>4. QED
    BY <2>2, <2>3 DEF OverlayInv
<1>12. QED
  BY <1>1, <1>2, <1>3, <1>4, <1>5, <1>6, <1>7, <1>8, <1>9, <1>10, <1>11 DEF OverlayNext, Mesh, Pass

\* Whatever the SON processes do, in main, waitNbrs, connectNbrs, waitSIP,
\* listen_to_neighbor and son_stop: who has connected to whom, and what is on
\* the connections, fits together.
THEOREM OverlayInvariance == OverlaySpec => []OverlayInv
<1>1. OverlayInv /\ [OverlayNext]_overlayVars => OverlayInv'
  BY OverlayStep
<1>2. QED
  BY OverlayInitInv, <1>1, PTL DEF OverlaySpec

LEMMA OverlayTypesFollow == OverlayInv => OverlayTypeOK
<1> SUFFICES ASSUME OverlayInv PROVE OverlayTypeOK
  OBVIOUS
<1>1. OverlayTypes /\ Held /\ Early
  BY DEF OverlayInv
<1>2. \A n \in Node : conNum[n] \in 0..Cardinality(Larger(n))
  <2>1. \A n \in Node : Cardinality(Larger(n)) \in Nat
    BY FS_CardinalityType, FS_Subset, OverlayAssumption, ConnFacts DEF Larger
  <2>2. QED
    BY <1>1, <2>1 DEF OverlayTypes, Early
<1>3. QED
  BY <1>1, <1>2 DEF OverlayTypeOK, OverlayTypes, Held

\* The tables of nbr.h hold open ends of connections with the right neighbour,
\* and waitNbrs never counts past the neighbours it waits for.
THEOREM OverlayTyped == OverlaySpec => []OverlayTypeOK
<1>1. QED
  BY OverlayInvariance, OverlayTypesFollow, PTL

\* The CLOSE that son_stop sends behind whole frames is received before
\* listen_to_neighbor sees the connection end.
THEOREM CloseIsAnnounced == OverlaySpec => []CloseAnnounced
<1>1. OverlayInv => CloseAnnounced
  BY DEF OverlayInv
<1>2. QED
  BY OverlayInvariance, <1>1, PTL

-----------------------------------------------------------------------------
(* SonOverlay: the mesh, as long as nobody is started twice                *)

Once == \A n \in Node : runs[n] <= 1

\* What the larger of two neighbours has connected, the smaller has accepted
\* or will.
Linked ==
  \A n \in Node : \A a \in Larger(n) : Up(n) /\ Up(a) =>
    \/ son[a] = "starting" /\ conn[a][n] = None
    \/ LET c == <<a, n, 1>> IN
       conn[a][n] = c /\ <<c, a>> \in open /\ <<c, n>> \in open /\ (conn[n][a] = c \/ Waits(n, c))

\* waitNbrs has counted neighbours, each once; who runs has met them all.
Accepted(n) == {a \in Larger(n) : conn[n][a] # None}
Counted == \A n \in Node : son[n] = "starting" => conNum[n] = Cardinality(Accepted(n))
Known == \A n \in Node : son[n] = "running" => \A m \in Nbr[n] : runs[m] >= 1 /\ (Up(m) => conn[n][m] # None)

MeshInv == Once => Linked /\ Counted /\ Known

\* A connection of the only run of its node.
LEMMA OnlyRun ==
  ASSUME OverlayInv, Once, NEW n \in Node, NEW m \in Nbr[n]
  PROVE  /\ \A c : <<c, n>> \in open /\ Peer(c, n) = m =>
              c = (IF m < n THEN <<n, m, 1>> ELSE <<m, n, 1>>) /\ runs[n] = 1 /\ runs[m] = 1
         /\ conn[n][m] # None =>
              conn[n][m] = (IF m < n THEN <<n, m, 1>> ELSE <<m, n, 1>>) /\ runs[n] = 1 /\ runs[m] = 1
<1>1. OverlayTypes /\ Opened /\ Held
  BY DEF OverlayInv
<1>2. ASSUME NEW c, <<c, n>> \in open, Peer(c, n) = m
      PROVE  c = (IF m < n THEN <<n, m, 1>> ELSE <<m, n, 1>>) /\ runs[n] = 1 /\ runs[m] = 1
  <2>1. PICK e \in Ends : e = <<c, n>> /\ e[1] = c /\ e[2] = n
    BY <1>1, <1>2 DEF OverlayTypes
  <2>2. /\ c \in Conns /\ c[1] \in Node /\ c[2] \in Node /\ c[3] \in Nat /\ c[3] >= 1 /\ c[2] < c[1]
        /\ n \in {c[1], c[2]} /\ c[1] \in Nat /\ c[2] \in Nat
    BY <2>1, EndFacts, OverlayAssumption
  <2>3. c[3] <= runs[c[1]] /\ runs[c[2]] >= 1
    BY <1>1, <1>2, <2>1 DEF Opened
  <2>4. runs[c[1]] <= 1 /\ runs[c[2]] <= 1 /\ runs[c[1]] \in Nat /\ runs[c[2]] \in Nat
    BY <1>1, <2>2, OverlayAssumption DEF Once, OverlayTypes
  <2>5. c[3] = 1 /\ runs[c[1]] = 1 /\ runs[c[2]] = 1
    BY <2>2, <2>3, <2>4
  <2>6. c = <<c[1], c[2], 1>>
    BY <2>2, <2>5, ConnFacts
  <2>7. (n = c[1] /\ m = c[2]) \/ (n = c[2] /\ m = c[1])
    BY <1>2, <2>2 DEF Peer
  <2>8. QED
    BY <2>2, <2>5, <2>6, <2>7
<1>3. conn[n][m] # None => <<conn[n][m], n>> \in open /\ Peer(conn[n][m], n) = m
  BY <1>1 DEF Held
<1>4. QED
  BY <1>2, <1>3

\* The other end of what a running process holds is there when its node is.
LEMMA OtherEnd ==
  ASSUME OverlayInv, Once, Linked, NEW n \in Node, NEW m \in Nbr[n], son[n] = "running", Up(m),
         NEW c, c = conn[n][m], c # None
  PROVE  <<c, m>> \in open /\ (conn[m][n] = c \/ Waits(m, c))
<1>1. OverlayTypes /\ Held /\ Fresh
  BY DEF OverlayInv
<1>2. m \in Node /\ n \in Nbr[m] /\ n \in Nat /\ m \in Nat /\ m # n /\ Up(n)
  BY ConnFacts DEF Up
<1>3. c = (IF m < n THEN <<n, m, 1>> ELSE <<m, n, 1>>) /\ runs[n] = 1 /\ runs[m] = 1
  BY OnlyRun
<1>4. CASE m < n
  <2>1. n \in Larger(m)
    BY <1>2, <1>4 DEF Larger
  <2>2. QED
    BY <1>2, <1>3, <1>4, <2>1 DEF Linked
<1>5. CASE n < m
  <2>1. m \in Larger(n) /\ c = <<m, n, 1>>
    BY <1>2, <1>3, <1>5 DEF Larger
  <2>2. conn[m][n] # None
    <3>1. SUFFICES ASSUME conn[m][n] = None, son[m] = "starting" PROVE FALSE
      BY <1>2, <2>1, HeldEnd DEF Linked, OverlayInv
    <3>2. <<c, n>> \in open /\ <<c, n>> \in Ends
      BY <1>1, HeldEnd
    <3>3. Unused(c)
      BY <1>3, <2>1, <3>1 DEF Unused
    <3>4. QED
      BY <1>1, <3>2, <3>3 DEF Fresh
  <2>3. QED
    BY <1>2, <2>1, <2>2 DEF Linked
<1>6. QED
  BY <1>2, <1>4, <1>5

\* Sets of neighbours are finite.
LEMMA LargerFinite ==
  ASSUME NEW n \in Node
  PROVE  /\ IsFiniteSet(Larger(n)) /\ IsFiniteSet(Accepted(n)) /\ Accepted(n) \subseteq Larger(n)
         /\ Cardinality(Larger(n)) \in Nat
         /\ Cardinality(Accepted(n)) = Cardinality(Larger(n)) => Accepted(n) = Larger(n)
<1>1. Larger(n) \in SUBSET Node
  BY ConnFacts DEF Larger
<1>2. IsFiniteSet(Larger(n))
  BY <1>1, FS_Subset, OverlayAssumption
<1>3. Accepted(n) \in SUBSET Larger(n)
  BY DEF Accepted
<1>4. IsFiniteSet(Accepted(n)) /\ (Cardinality(Larger(n)) = Cardinality(Accepted(n)) => Larger(n) = Accepted(n))
  BY <1>2, <1>3, FS_Subset
<1>5. QED
  BY <1>2, <1>3, <1>4, FS_CardinalityType

LEMMA MeshStarts ==
  ASSUME OverlayInv, Once, Linked, Counted, Known, NEW n \in Node, StartSon(n), Once'
  PROVE  Linked' /\ Counted' /\ Known'
<1>1. OverlayTypes /\ Held /\ Opened /\ Early
  BY DEF OverlayInv
<1>2. /\ son[n] = "off" /\ son' = Put(son, n, "starting") /\ runs' = Put(runs, n, runs[n] + 1)
      /\ conNum' = Put(conNum, n, 0) /\ conn' = conn /\ backlog' = backlog /\ open' = open
  BY DEF StartSon, Up, linkVars
<1>3. /\ son'[n] = "starting" /\ runs'[n] = runs[n] + 1 /\ conNum'[n] = 0
      /\ \A k \in Node : k # n => son'[k] = son[k] /\ runs'[k] = runs[k] /\ conNum'[k] = conNum[k]
  BY <1>1, <1>2 DEF Put, OverlayTypes
<1>4. runs[n] = 0
  <2>1. runs[n] \in Nat /\ runs'[n] <= 1
    BY <1>1, OverlayAssumption DEF Once, OverlayTypes
  <2>2. QED
    BY <1>3, <2>1
<1>5. \A m \in Nbr[n] : conn[n][m] = None
  BY <1>1, <1>2 DEF Early
<1>6. Linked'
  <2> SUFFICES ASSUME NEW k \in Node, NEW a \in Larger(k), son'[k] # "off", son'[a] # "off"
               PROVE  \/ son'[a] = "starting" /\ conn[a][k] = None
                      \/ LET c == <<a, k, 1>> IN
                         conn[a][k] = c /\ <<c, a>> \in open /\ <<c, k>> \in open /\ (conn[k][a] = c \/ Waits(k, c))
    BY <1>2 DEF Linked, Up, Waits
  <2>1. a \in Node /\ k \in Nbr[a] /\ a # k /\ k < a
    BY ConnFacts DEF Larger
  <2>2. CASE a = n
    BY <1>3, <1>5, <2>1, <2>2
  <2>3. CASE k = n
    <3>1. conn[a][n] = None
      <4>1. a \in Node /\ n \in Nbr[a]
        BY <2>1, <2>3
      <4>2. conn[a][n] # None => runs[n] = 1
        BY <4>1, OnlyRun
      <4>3. QED
        BY <1>4, <4>2
    <3>2. son[a] # "running"
      BY <1>3, <1>4, <2>1, <2>3 DEF Known
    <3>3. son'[a] = "starting"
      BY <1>1, <1>3, <2>1, <2>3, <3>2 DEF OverlayTypes
    <3>4. QED
      BY <2>3, <3>1, <3>3
  <2>4. CASE a # n /\ k # n
    BY <1>3, <2>1, <2>4 DEF Linked, Up
  <2>5. QED
    BY <2>2, <2>3, <2>4
<1>7. Counted'
  <2>1. Accepted(n) = {}
    BY <1>5, ConnFacts DEF Accepted, Larger
  <2>2. Cardinality(Accepted(n)) = 0
    BY <2>1, FS_EmptySet
  <2>3. \A k \in Node : Accepted(k)' = Accepted(k)
    BY <1>2 DEF Accepted
  <2>4. QED
    BY <1>3, <2>2, <2>3 DEF Counted
<1>8. Known'
  <2> SUFFICES ASSUME NEW k \in Node, son'[k] = "running", NEW m \in Nbr[k]
               PROVE  runs'[m] >= 1 /\ (son'[m] # "off" => conn[k][m] # None)
    BY <1>2 DEF Known, Up
  <2>1. k # n /\ son[k] = "running" /\ m \in Node
    BY <1>3, ConnFacts
  <2>2. runs[m] >= 1 /\ (son[m] # "off" => conn[k][m] # None)
    BY <2>1 DEF Known, Up
  <2>3. m # n
    BY <1>4, <2>2
  <2>4. QED
    BY <1>3, <2>1, <2>2, <2>3
<1>9. QED
  BY <1>6, <1>7, <1>8

LEMMA MeshConnects ==
  ASSUME OverlayInv, Once, Linked, Counted, Known, NEW n \in Node, NEW m \in Node, Connect(n, m)
  PROVE  Linked' /\ Counted' /\ Known'
<1>1. OverlayTypes /\ Held /\ Opened /\ Early
  BY DEF OverlayInv
<1>2. PICK c : c = <<n, m, runs[n]>>
  OBVIOUS
<1>3. /\ son[n] = "starting" /\ m \in Smaller(n)
      /\ conn' = SetCell(conn, n, m, c) /\ backlog' = Put(backlog, m, Append(backlog[m], c))
      /\ open' = open \cup {<<c, n>>, <<c, m>>} /\ son' = son /\ runs' = runs /\ conNum' = conNum
  BY <1>2 DEF Connect, SetCell
<1>4. runs[n] = 1 /\ runs[n] \in 1..MaxStarts
  BY <1>1, <1>3, OverlayAssumption DEF Once, Opened, OverlayTypes
<1>5. m \in Nbr[n] /\ c \in Conns /\ c # None /\ m < n /\ c = <<n, m, 1>> /\ m \in Nat /\ n \in Nat
  <2>1. m \in Nbr[n] /\ c \in Conns /\ c # None
    <3>1. m \in Smaller(n)
      BY <1>3
    <3>2. PICK k \in 1..MaxStarts : k = runs[n]
      BY <1>4
    <3>3. <<n, m, k>> \in Conns /\ <<n, m, k>> # None /\ m \in Nbr[n]
      <4>1. m \in Node /\ m \in Nbr[n]
        BY <3>1, ConnFacts DEF Smaller
      <4>2. <<n, m, k>> \in Conns
        BY <4>1 DEF Conns
      <4>3. QED
        BY <4>1, <4>2, ConnFacts
    <3>4. QED
      BY <1>2, <3>2, <3>3
  <2>2. m < n /\ m \in Nat /\ n \in Nat
    BY <1>3, <2>1, ConnFacts DEF Smaller
  <2>3. c = <<n, m, 1>>
    BY <1>2, <1>4
  <2>4. QED
    BY <2>1, <2>2, <2>3
<1>6. /\ conn'[n][m] = c /\ \A k \in Node : \A o \in Nbr[k] : k # n \/ o # m => conn'[k][o] = conn[k][o]
  <2>1. PICK X : X = Conns \cup {None}
    OBVIOUS
  <2>2. c \in X /\ Tabled(X, conn)
    BY <1>1, <1>5, <2>1 DEF OverlayTypes
  <2>3. conn' = SetCell(conn, n, m, c)
    BY <1>3
  <2>4. QED
    BY <1>5, <2>2, <2>3, Cell
<1>7. Waits(m, c)' /\ \A k \in Node : \A x : Waits(k, x) => Waits(k, x)'
  <2>1. /\ backlog'[m] = Append(backlog[m], c) /\ backlog[m] \in Seq(Conns)
        /\ \A k \in Node : k # m => backlog'[k] = backlog[k]
    BY <1>1, <1>3 DEF OverlayTypes, Put
  <2>2. /\ DOMAIN backlog'[m] = DOMAIN backlog[m] \cup {Len(backlog[m]) + 1}
        /\ backlog'[m][Len(backlog[m]) + 1] = c /\ \A i \in DOMAIN backlog[m] : backlog'[m][i] = backlog[m][i]
    BY <1>5, <2>1
  <2>3. QED
    BY <2>1, <2>2 DEF Waits
<1>8. Linked'
  <2> SUFFICES ASSUME NEW k \in Node, NEW a \in Larger(k), son[k] # "off", son[a] # "off"
               PROVE  \/ son[a] = "starting" /\ conn'[a][k] = None
                      \/ LET d == <<a, k, 1>> IN
                         conn'[a][k] = d /\ <<d, a>> \in open' /\ <<d, k>> \in open' /\ (conn'[k][a] = d \/ Waits(k, d)')
    BY <1>3 DEF Linked, Up
  <2>1. a \in Node /\ k \in Nbr[a] /\ a \in Nbr[k] /\ k < a /\ a \in Nat /\ k \in Nat
    BY ConnFacts DEF Larger
  <2>2. CASE a = n /\ k = m
    BY <1>3, <1>5, <1>6, <1>7, <2>2
  <2>3. CASE ~(a = n /\ k = m)
    <3>1. conn'[a][k] = conn[a][k]
      BY <1>6, <2>1, <2>3
    <3>2. conn'[k][a] = conn[k][a]
      BY <1>5, <1>6, <2>1
    <3>3. \/ son[a] = "starting" /\ conn[a][k] = None
          \/ LET d == <<a, k, 1>> IN
             conn[a][k] = d /\ <<d, a>> \in open /\ <<d, k>> \in open /\ (conn[k][a] = d \/ Waits(k, d))
      BY DEF Linked, Up
    <3>4. QED
      BY <1>3, <1>7, <3>1, <3>2, <3>3
  <2>4. QED
    BY <2>2, <2>3
<1>9. Counted'
  <2>1. ASSUME NEW k \in Node PROVE Accepted(k)' = Accepted(k)
    <3>1. \A a \in Larger(k) : a \in Nbr[k] /\ k < a /\ a \in Nat /\ k \in Nat
      BY ConnFacts DEF Larger
    <3>2. \A a \in Larger(k) : conn'[k][a] = conn[k][a]
      BY <1>5, <1>6, <3>1
    <3>3. QED
      BY <3>2 DEF Accepted
  <2>2. QED
    BY <1>3, <2>1 DEF Counted
<1>10. Known'
  <2>1. \A k \in Node : son[k] = "running" => \A o \in Nbr[k] : conn'[k][o] = conn[k][o]
    BY <1>3, <1>6
  <2>2. QED
    BY <1>3, <2>1 DEF Known, Up
<1>11. QED
  BY <1>8, <1>9, <1>10

LEMMA MeshAccepts ==
  ASSUME OverlayInv, Once, Linked, Counted, Known, NEW n \in Node, Accept(n)
  PROVE  Linked' /\ Counted' /\ Known'
<1>1. OverlayTypes /\ Held /\ Waiting /\ Opened /\ Early
  BY DEF OverlayInv
<1>2. PICK c : c = Head(backlog[n])
  OBVIOUS
<1>3. PICK m : m = c[1]
  OBVIOUS
<1>4. /\ son[n] = "starting" /\ backlog[n] # <<>>
      /\ conn' = SetCell(conn, n, m, c)
      /\ backlog' = Put(backlog, n, Tail(backlog[n])) /\ conNum' = Put(conNum, n, conNum[n] + 1)
      /\ son' = son /\ runs' = runs /\ open' = open
  BY <1>2, <1>3 DEF Accept, SetCell, linkVars
<1>5. /\ backlog[n] \in Seq(Conns) /\ Len(backlog[n]) \in Nat /\ DOMAIN backlog[n] = 1..Len(backlog[n])
      /\ 1 \in DOMAIN backlog[n] /\ backlog[n][1] = c
  BY <1>1, <1>2, <1>4 DEF OverlayTypes
<1>6. <<c, n>> \in open /\ <<c, n>> \in Ends /\ c[2] = n /\ conn[n][m] # c
  <2>1. <<c, n>> \in open /\ c[2] = n /\ conn[n][m] # c
    BY <1>1, <1>3, <1>5 DEF Waiting
  <2>2. QED
    BY <1>1, <2>1 DEF OverlayTypes
<1>7. c \in Conns /\ c # None /\ m \in Nbr[n] /\ m \in Node /\ Peer(c, n) = m /\ n < m /\ n \in Nat /\ m \in Nat
  BY <1>3, <1>6, EndFacts, ConnFacts DEF Peer
<1>8. /\ conn'[n][m] = c /\ \A k \in Node : \A o \in Nbr[k] : k # n \/ o # m => conn'[k][o] = conn[k][o]
  <2>1. PICK X : X = Conns \cup {None}
    OBVIOUS
  <2>2. c \in X /\ Tabled(X, conn)
    BY <1>1, <1>7, <2>1 DEF OverlayTypes
  <2>3. conn' = SetCell(conn, n, m, c)
    BY <1>4
  <2>4. QED
    BY <1>7, <2>2, <2>3, Cell
<1>9. c = <<m, n, 1>> /\ conn[n][m] = None
  <2>1. c = <<m, n, 1>>
    <3>1. c = IF m < n THEN <<n, m, 1>> ELSE <<m, n, 1>>
      <4>1. m \in Nbr[n]
        BY <1>7
      <4>2. \A d : <<d, n>> \in open /\ Peer(d, n) = m => d = (IF m < n THEN <<n, m, 1>> ELSE <<m, n, 1>>)
        BY <4>1, OnlyRun
      <4>3. QED
        BY <1>6, <1>7, <4>2
    <3>2. QED
      BY <1>7, <3>1
  <2>2. conn[n][m] # None => conn[n][m] = <<m, n, 1>>
    <3>1. conn[n][m] # None => conn[n][m] = IF m < n THEN <<n, m, 1>> ELSE <<m, n, 1>>
      BY <1>7, OnlyRun
    <3>2. QED
      BY <1>7, <3>1
  <2>3. QED
    BY <1>6, <2>1, <2>2
<1>10. \A k \in Node : \A x : Waits(k, x) /\ (k # n \/ x # c) => Waits(k, x)'
  <2>1. backlog'[n] = Tail(backlog[n]) /\ \A k \in Node : k # n => backlog'[k] = backlog[k]
    BY <1>1, <1>4 DEF OverlayTypes, Put
  <2>2. ASSUME NEW x, Waits(n, x), x # c PROVE Waits(n, x)'
    <3>1. PICK i \in DOMAIN backlog[n] : backlog[n][i] = x
      BY <2>2 DEF Waits
    <3>2. i \in 1..Len(backlog[n]) /\ i # 1
      BY <1>5, <2>2, <3>1
    <3>3. PICK j : j \in 1..(Len(backlog[n]) - 1) /\ j + 1 = i
      <4>1. i - 1 \in 1..(Len(backlog[n]) - 1) /\ (i - 1) + 1 = i
        BY <1>5, <3>2
      <4>2. QED
        BY <4>1
    <3>4. DOMAIN backlog'[n] = 1..(Len(backlog[n]) - 1) /\ backlog'[n][j] = backlog[n][j + 1]
      <4>1. Len(Tail(backlog[n])) = Len(backlog[n]) - 1 /\ Tail(backlog[n]) \in Seq(Conns)
        BY <1>4, <1>5
      <4>2. \A h \in 1..(Len(backlog[n]) - 1) : Tail(backlog[n])[h] = backlog[n][h + 1]
        BY <1>4, <1>5
      <4>3. DOMAIN Tail(backlog[n]) = 1..(Len(backlog[n]) - 1)
        BY <4>1
      <4>4. QED
        BY <2>1, <3>3, <4>2, <4>3
    <3>5. QED
      BY <3>1, <3>3, <3>4 DEF Waits
  <2>3. QED
    BY <2>1, <2>2 DEF Waits
<1>11. Linked'
  <2> SUFFICES ASSUME NEW k \in Node, NEW a \in Larger(k), son[k] # "off", son[a] # "off"
               PROVE  \/ son[a] = "starting" /\ conn'[a][k] = None
                      \/ LET d == <<a, k, 1>> IN
                         conn'[a][k] = d /\ <<d, a>> \in open' /\ <<d, k>> \in open' /\ (conn'[k][a] = d \/ Waits(k, d)')
    BY <1>4 DEF Linked, Up
  <2>1. a \in Node /\ k \in Nbr[a] /\ a \in Nbr[k] /\ k < a /\ a \in Nat /\ k \in Nat
    BY ConnFacts DEF Larger
  <2>2. conn'[a][k] = conn[a][k]
    BY <1>7, <1>8, <2>1
  <2>3. \/ son[a] = "starting" /\ conn[a][k] = None
        \/ LET d == <<a, k, 1>> IN
           conn[a][k] = d /\ <<d, a>> \in open /\ <<d, k>> \in open /\ (conn[k][a] = d \/ Waits(k, d))
    BY DEF Linked, Up
  <2>4. CASE k = n /\ a = m
    BY <1>4, <1>8, <1>9, <2>2, <2>3, <2>4
  <2>5. CASE ~(k = n /\ a = m)
    <3>1. conn'[k][a] = conn[k][a]
      BY <1>8, <2>1, <2>5
    <3>2. k # n \/ <<a, k, 1>> # c
      BY <1>9, <2>5
    <3>3. QED
      BY <1>4, <1>10, <2>2, <2>3, <3>1, <3>2
  <2>6. QED
    BY <2>4, <2>5
<1>12. Counted'
  <2>1. Accepted(n)' = Accepted(n) \cup {m} /\ m \notin Accepted(n)
    <3>1. m \in Larger(n) /\ \A a \in Larger(n) : a \in Nbr[n]
      BY <1>7 DEF Larger
    <3>2. QED
      BY <1>7, <1>8, <1>9, <3>1 DEF Accepted
  <2>2. Cardinality(Accepted(n)') = Cardinality(Accepted(n)) + 1
    BY <2>1, LargerFinite, FS_AddElement
  <2>3. conNum'[n] = conNum[n] + 1 /\ \A k \in Node : k # n => conNum'[k] = conNum[k]
    BY <1>1, <1>4 DEF OverlayTypes, Put
  <2>4. conNum[n] = Cardinality(Accepted(n))
    BY <1>4 DEF Counted
  <2>5. ASSUME NEW k \in Node, k # n PROVE Accepted(k)' = Accepted(k)
    <3>1. \A a \in Larger(k) : conn'[k][a] = conn[k][a]
      BY <1>8, <2>5 DEF Larger
    <3>2. QED
      BY <3>1 DEF Accepted
  <2>6. ASSUME NEW k \in Node, son[k] = "starting" PROVE conNum'[k] = Cardinality(Accepted(k)')
    <3>1. CASE k = n
      BY <2>2, <2>3, <2>4, <3>1
    <3>2. CASE k # n
      BY <2>3, <2>5, <2>6, <3>2 DEF Counted
    <3>3. QED
      BY <3>1, <3>2
  <2>7. QED
    BY <1>4, <2>6 DEF Counted
<1>13. Known'
  <2>1. \A k \in Node : son[k] = "running" => \A o \in Nbr[k] : conn'[k][o] = conn[k][o]
    BY <1>4, <1>8
  <2>2. QED
    BY <1>4, <2>1 DEF Known, Up
<1>14. QED
  BY <1>11, <1>12, <1>13

LEMMA MeshJoins ==
  ASSUME OverlayInv, Once, Linked, Counted, Known, NEW n \in Node, Join(n)
  PROVE  Linked' /\ Counted' /\ Known'
<1>1. OverlayTypes /\ Held /\ Early
  BY DEF OverlayInv
<1>2. /\ son[n] = "starting" /\ ~accepting[n] /\ (\A m \in Smaller(n) : conn[n][m] # None)
      /\ son' = Put(son, n, "running") /\ runs' = runs /\ conn' = conn /\ conNum' = conNum /\ backlog' = backlog /\ open' = open
  BY DEF Join, linkVars
<1>3. son'[n] = "running" /\ \A k \in Node : k # n => son'[k] = son[k]
  BY <1>1, <1>2 DEF OverlayTypes, Put
<1>4. \A m \in Nbr[n] : conn[n][m] # None
  <2>1. conNum[n] = Cardinality(Larger(n)) /\ conNum[n] = Cardinality(Accepted(n))
    BY <1>1, <1>2 DEF Early, Counted
  <2>2. Accepted(n) = Larger(n)
    BY <2>1, LargerFinite
  <2>3. \A m \in Nbr[n] : m \in Smaller(n) \/ m \in Larger(n)
    <3>1. \A m \in Nbr[n] : m \in Nat /\ n \in Nat /\ m # n
      BY ConnFacts
    <3>2. QED
      BY <3>1 DEF Smaller, Larger
  <2>4. QED
    BY <1>2, <2>2, <2>3 DEF Accepted
<1>5. Linked'
  <2> SUFFICES ASSUME NEW k \in Node, NEW a \in Larger(k), son'[k] # "off", son'[a] # "off"
               PROVE  \/ son'[a] = "starting" /\ conn[a][k] = None
                      \/ LET d == <<a, k, 1>> IN
                         conn[a][k] = d /\ <<d, a>> \in open /\ <<d, k>> \in open /\ (conn[k][a] = d \/ Waits(k, d))
    BY <1>2 DEF Linked, Up, Waits
  <2>1. a \in Node /\ k \in Nbr[a]
    BY ConnFacts DEF Larger
  <2>2. son[a] # "off" /\ son[k] # "off"
    BY <1>2, <1>3, <2>1
  <2>3. \/ son[a] = "starting" /\ conn[a][k] = None
        \/ LET d == <<a, k, 1>> IN
           conn[a][k] = d /\ <<d, a>> \in open /\ <<d, k>> \in open /\ (conn[k][a] = d \/ Waits(k, d))
    BY <2>2 DEF Linked, Up
  <2>4. QED
    BY <1>3, <1>4, <2>1, <2>3
<1>6. Counted'
  <2>1. \A k \in Node : Accepted(k)' = Accepted(k)
    BY <1>2 DEF Accepted
  <2>2. QED
    BY <1>2, <1>3, <2>1 DEF Counted
<1>7. Known'
  <2> SUFFICES ASSUME NEW k \in Node, son'[k] = "running", NEW m \in Nbr[k]
               PROVE  runs[m] >= 1 /\ (son'[m] # "off" => conn[k][m] # None)
    BY <1>2 DEF Known, Up
  <2>1. CASE k = n
    <3>1. conn[n][m] # None => runs[m] = 1
      BY <2>1, OnlyRun
    <3>2. QED
      BY <1>4, <2>1, <3>1
  <2>2. CASE k # n
    <3>1. m \in Node /\ son[k] = "running" /\ (son'[m] # "off" => son[m] # "off")
      BY <1>2, <1>3, <2>2, ConnFacts
    <3>2. QED
      BY <3>1 DEF Known, Up
  <2>3. QED
    BY <2>1, <2>2
<1>8. QED
  BY <1>5, <1>6, <1>7

LEMMA MeshEnds ==
  ASSUME OverlayInv, Once, Linked, Counted, Known, NEW n \in Node, Ended(n)
  PROVE  Linked' /\ Counted' /\ Known'
<1>1. OverlayTypes
  BY DEF OverlayInv
<1>2. /\ son' = Put(son, n, "off") /\ open' = {e \in open : e[2] # n}
      /\ conn' = Put(conn, n, [m \in Nbr[n] |-> None]) /\ backlog' = Put(backlog, n, <<>>)
      /\ runs' = runs /\ conNum' = conNum
  BY DEF Ended
<1>3. /\ son'[n] = "off" /\ \A k \in Node : k # n => son'[k] = son[k] /\ conn'[k] = conn[k] /\ backlog'[k] = backlog[k]
  <2>1. son'[n] = "off" /\ \A k \in Node : k # n => son'[k] = son[k] /\ backlog'[k] = backlog[k]
    BY <1>1, <1>2 DEF OverlayTypes, Put
  <2>2. \A k \in Node : k # n => conn'[k] = conn[k]
    BY <1>1, <1>2 DEF OverlayTypes, Put, Tabled
  <2>3. QED
    BY <2>1, <2>2
<1>4. Linked'
  <2> SUFFICES ASSUME NEW k \in Node, NEW a \in Larger(k), son'[k] # "off", son'[a] # "off"
               PROVE  \/ son'[a] = "starting" /\ conn'[a][k] = None
                      \/ LET d == <<a, k, 1>> IN
                         conn'[a][k] = d /\ <<d, a>> \in open' /\ <<d, k>> \in open' /\ (conn'[k][a] = d \/ Waits(k, d)')
    BY DEF Linked, Up
  <2>1. a \in Node /\ k # n /\ a # n
    BY <1>3, ConnFacts DEF Larger
  <2>2. \/ son[a] = "starting" /\ conn[a][k] = None
        \/ LET d == <<a, k, 1>> IN
           conn[a][k] = d /\ <<d, a>> \in open /\ <<d, k>> \in open /\ (conn[k][a] = d \/ Waits(k, d))
    BY <1>3, <2>1 DEF Linked, Up
  <2>3. QED
    BY <1>2, <1>3, <2>1, <2>2 DEF Waits
<1>5. Counted'
  <2>1. \A k \in Node : k # n => Accepted(k)' = Accepted(k)
    BY <1>3 DEF Accepted
  <2>2. QED
    BY <1>2, <1>3, <2>1 DEF Counted
<1>6. Known'
  <2>1. \A k \in Node : Nbr[k] \subseteq Node
    BY ConnFacts
  <2>2. QED
    BY <1>2, <1>3, <2>1 DEF Known, Up
<1>7. QED
  BY <1>4, <1>5, <1>6

\* A listener gives its connection up only when the other process has ended.
LEMMA MeshCloses ==
  ASSUME OverlayInv, Once, Linked, Counted, Known, NEW n \in Node, NEW m \in Nbr[n], son[n] = "running",
         conn[n][m] # None, Closed(n, m), ~Up(m)
  PROVE  Linked' /\ Counted' /\ Known'
<1>1. OverlayTypes
  BY DEF OverlayInv
<1>2. PICK c : c = conn[n][m]
  OBVIOUS
<1>3. /\ son' = son /\ runs' = runs /\ conNum' = conNum /\ backlog' = backlog
      /\ conn' = SetCell(conn, n, m, None) /\ open' = open \ {<<c, n>>}
  BY <1>2 DEF Closed, SetCell
<1>4. conn'[n][m] = None /\ \A k \in Node : \A o \in Nbr[k] : k # n \/ o # m => conn'[k][o] = conn[k][o]
  <2>1. PICK X : X = Conns \cup {None}
    OBVIOUS
  <2>2. None \in X /\ Tabled(X, conn)
    BY <1>1, <2>1 DEF OverlayTypes
  <2>3. conn' = SetCell(conn, n, m, None)
    BY <1>3
  <2>4. QED
    BY <2>2, <2>3, Cell
<1>5. c = (IF m < n THEN <<n, m, 1>> ELSE <<m, n, 1>>) /\ m \in Node
  BY <1>2, OnlyRun, ConnFacts
<1>6. Linked'
  <2> SUFFICES ASSUME NEW k \in Node, NEW a \in Larger(k), son[k] # "off", son[a] # "off"
               PROVE  \/ son[a] = "starting" /\ conn'[a][k] = None
                      \/ LET d == <<a, k, 1>> IN
                         conn'[a][k] = d /\ <<d, a>> \in open' /\ <<d, k>> \in open' /\ (conn'[k][a] = d \/ Waits(k, d)')
    BY <1>3 DEF Linked, Up
  <2>1. a \in Node /\ k \in Nbr[a] /\ a \in Nbr[k] /\ k # m /\ a # m
    BY ConnFacts DEF Larger, Up
  <2>2. conn'[a][k] = conn[a][k] /\ conn'[k][a] = conn[k][a]
    BY <1>4, <2>1
  <2>3. <<a, k, 1>> # c
    BY <1>5, <2>1
  <2>4. \/ son[a] = "starting" /\ conn[a][k] = None
        \/ LET d == <<a, k, 1>> IN
           conn[a][k] = d /\ <<d, a>> \in open /\ <<d, k>> \in open /\ (conn[k][a] = d \/ Waits(k, d))
    BY DEF Linked, Up
  <2>5. QED
    BY <1>3, <2>2, <2>3, <2>4 DEF Waits
<1>7. Counted'
  <2>1. ASSUME NEW k \in Node, k # n PROVE Accepted(k)' = Accepted(k)
    <3>1. \A a \in Larger(k) : conn'[k][a] = conn[k][a]
      BY <1>4, <2>1 DEF Larger
    <3>2. QED
      BY <3>1 DEF Accepted
  <2>2. QED
    BY <1>3, <2>1 DEF Counted
<1>8. Known'
  <2> SUFFICES ASSUME NEW k \in Node, son[k] = "running", NEW o \in Nbr[k]
               PROVE  runs[o] >= 1 /\ (Up(o) => conn'[k][o] # None)
    BY <1>3 DEF Known, Up
  <2>1. runs[o] >= 1 /\ (Up(o) => conn[k][o] # None)
    BY DEF Known
  <2>2. CASE k = n /\ o = m
    BY <2>1, <2>2
  <2>3. CASE ~(k = n /\ o = m)
    BY <1>4, <2>1, <2>3
  <2>4. QED
    BY <2>2, <2>3
<1>9. QED
  BY <1>6, <1>7, <1>8

\* Steps that leave the processes and the connections alone.
LEMMA MeshKept ==
  ASSUME Linked, Counted, Known, UNCHANGED <<meshVars, open>>
  PROVE  Linked' /\ Counted' /\ Known'
<1>1. son' = son /\ runs' = runs /\ conn' = conn /\ conNum' = conNum /\ backlog' = backlog /\ open' = open
  BY DEF meshVars
<1>2. Linked' /\ Known'
  BY <1>1 DEF Linked, Known, Up, Waits
<1>3. \A k \in Node : Accepted(k)' = Accepted(k)
  BY <1>1 DEF Accepted
<1>4. Counted'
  BY <1>1, <1>3 DEF Counted
<1>5. QED
  BY <1>2, <1>4

\* A running process reads frames, one after another, as long as its neighbour
\* runs: only then does the other end stay open.
LEMMA MeshListens ==
  ASSUME OverlayInv, Once, Linked, Counted, Known, NEW n \in Node, NEW m \in Nbr[n], Listen(n, m) \/ ListenEnds(n, m)
  PROVE  Linked' /\ Counted' /\ Known'
<1>1. OverlayTypes /\ Held /\ Channels
  BY DEF OverlayInv
<1>2. son[n] = "running" /\ conn[n][m] # None
  BY DEF Listen, ListenEnds, Listening
<1>3. PICK c, e : c = conn[n][m] /\ e = <<conn[n][m], n>>
  OBVIOUS
<1>4. e \in Ends /\ e[1] = c /\ e[2] = n /\ Peer(e[1], e[2]) = m /\ ReaderAt(e) = reader[n][m] /\ Channel(e)
  BY <1>1, <1>2, <1>3, HeldEnd DEF Channels
<1>5. PICK ss : Follows(Packet, ss, reader[n][m], chan[e]) /\ Reads(ss, e)
  BY <1>4 DEF Channel
<1>6. ASSUME Up(m) PROVE <<c, m>> \in open /\ Clean(ss, chan[e])
  <2>1. <<c, m>> \in open /\ (conn[m][n] = c \/ Waits(m, c))
    BY <1>2, <1>3, <1>6, OtherEnd
  <2>2. QED
    BY <1>4, <1>5, <2>1 DEF Reads
<1>7. CASE ListenEnds(n, m)
  <2>1. <<c, m>> \notin open /\ Closed(n, m)
    BY <1>3, <1>7 DEF ListenEnds
  <2>2. ~Up(m)
    BY <1>6, <2>1
  <2>3. QED
    BY <1>2, <2>1, <2>2, MeshCloses
<1>8. CASE Listen(n, m)
  <2>1. PICK res : res = Returns(reader[n][m], Head(chan[e]))
    OBVIOUS
  <2>2. chan[e] # <<>> /\ IF res = -1 THEN Closed(n, m) ELSE UNCHANGED <<meshVars, open, targets, part, pkts, told>>
    BY <1>3, <1>8, <2>1 DEF Listen
  <2>3. CASE res # -1
    BY <2>2, <2>3, MeshKept
  <2>4. CASE res = -1
    <3>1. chan[e] \in Seq(Token(Packet))
      BY <1>1, <1>4 DEF OverlayTypes
    <3>2. ~Clean(ss, chan[e])
      BY <1>5, <2>1, <2>2, <2>4, <3>1, Advanced
    <3>3. QED
      BY <1>2, <1>6, <2>2, <2>4, <3>2, MeshCloses
  <2>5. QED
    BY <2>3, <2>4
<1>9. QED
  BY <1>7, <1>8

LEMMA MeshStep == OverlayInv /\ MeshInv /\ [OverlayNext]_overlayVars => MeshInv'
<1> SUFFICES ASSUME OverlayInv, MeshInv, [OverlayNext]_overlayVars, Once' PROVE Linked' /\ Counted' /\ Known'
  BY DEF MeshInv
<1>1. OverlayTypes
  BY DEF OverlayInv
<1>2. \A k \in Node : runs[k] \in Nat
  BY <1>1, OverlayAssumption DEF OverlayTypes
<1>3. \A k \in Node : runs'[k] = runs[k] \/ runs'[k] = runs[k] + 1
  <2>1. ASSUME NEW n \in Node, StartSon(n) PROVE \A k \in Node : runs'[k] = runs[k] \/ runs'[k] = runs[k] + 1
    BY <1>1, <2>1 DEF StartSon, Put, OverlayTypes
  <2>2. ASSUME NEW n \in Node, NEW m \in Node, Connect(n, m) \/ ConnectFails(n, m) PROVE runs' = runs
    BY <2>2 DEF Connect, ConnectFails, Ended
  <2>3. ASSUME NEW n \in Node, Accept(n) \/ Join(n) \/ GetPktToSend(n) \/ StopSon(n) PROVE runs' = runs
    BY <2>3 DEF Accept, Join, GetPktToSend, StopSon, meshVars, Ended
  <2>4. ASSUME NEW n \in Node, NEW m \in Nbr[n], SendPart(n, m) \/ SkipTarget(n, m) \/ Listen(n, m) \/ ListenEnds(n, m)
        PROVE  runs' = runs
    BY <2>4 DEF SendPart, SkipTarget, Listen, ListenEnds, Closed, meshVars, Ended
  <2>5. CASE UNCHANGED overlayVars
    BY <2>5 DEF overlayVars, meshVars
  <2>6. QED
    BY <2>1, <2>2, <2>3, <2>4, <2>5 DEF OverlayNext, Mesh, Pass
<1>4. Once /\ Linked /\ Counted /\ Known
  <2>1. Once
    BY <1>2, <1>3 DEF Once
  <2>2. QED
    BY <2>1 DEF MeshInv
<1>5. ASSUME NEW n \in Node, StartSon(n) PROVE Linked' /\ Counted' /\ Known'
  BY <1>4, <1>5, MeshStarts
<1>6. ASSUME NEW n \in Node, NEW m \in Node, Connect(n, m) PROVE Linked' /\ Counted' /\ Known'
  BY <1>4, <1>6, MeshConnects
<1>7. ASSUME NEW n \in Node, NEW m \in Node, ConnectFails(n, m) PROVE Linked' /\ Counted' /\ Known'
  BY <1>4, <1>7, MeshEnds DEF ConnectFails
<1>8. ASSUME NEW n \in Node, Accept(n) PROVE Linked' /\ Counted' /\ Known'
  BY <1>4, <1>8, MeshAccepts
<1>9. ASSUME NEW n \in Node, Join(n) PROVE Linked' /\ Counted' /\ Known'
  BY <1>4, <1>9, MeshJoins
<1>10. ASSUME NEW n \in Node, GetPktToSend(n) PROVE Linked' /\ Counted' /\ Known'
  BY <1>4, <1>10, MeshKept DEF GetPktToSend
<1>11. ASSUME NEW n \in Node, NEW m \in Nbr[n], SendPart(n, m) PROVE Linked' /\ Counted' /\ Known'
  <2>1. UNCHANGED <<meshVars, open>> \/ Ended(n)
    BY <1>11 DEF SendPart
  <2>2. QED
    BY <1>4, <2>1, MeshKept, MeshEnds
<1>12. ASSUME NEW n \in Node, NEW m \in Nbr[n], SkipTarget(n, m) PROVE Linked' /\ Counted' /\ Known'
  BY <1>4, <1>12, MeshKept DEF SkipTarget
<1>13. ASSUME NEW n \in Node, NEW m \in Nbr[n], Listen(n, m) \/ ListenEnds(n, m) PROVE Linked' /\ Counted' /\ Known'
  BY <1>4, <1>13, MeshListens
<1>14. ASSUME NEW n \in Node, StopSon(n) PROVE Linked' /\ Counted' /\ Known'
  BY <1>4, <1>14, MeshEnds DEF StopSon
<1>15. CASE UNCHANGED overlayVars
  <2>1. UNCHANGED <<meshVars, open>>
    BY <1>15 DEF overlayVars, linkVars
  <2>2. QED
    BY <1>4, <2>1, MeshKept
<1>16. QED
  BY <1>5, <1>6, <1>7, <1>8, <1>9, <1>10, <1>11, <1>12, <1>13, <1>14, <1>15 DEF OverlayNext, Mesh, Pass

LEMMA MeshFollows == OverlayInv /\ MeshInv => MeshOnce
<1> SUFFICES ASSUME OverlayInv, MeshInv, Once PROVE
      \A n \in Node :
        /\ \A m \in Nbr[n] : son[n] = "running" /\ son[m] = "running" =>
             conn[n][m] # None /\ conn[n][m] = conn[m][n]
        /\ son[n] = "starting" /\ accepting[n] /\ backlog[n] = <<>> =>
             \E m \in Larger(n) : runs[m] = 0 \/ son[m] = "off" \/ conn[m][n] = None
  BY DEF MeshOnce, Once
<1>1. Linked /\ Counted /\ Known /\ OverlayTypes /\ Early
  BY DEF MeshInv, OverlayInv
<1>2. ASSUME NEW n \in Node, NEW m \in Nbr[n], son[n] = "running", son[m] = "running"
      PROVE  conn[n][m] # None /\ conn[n][m] = conn[m][n]
  <2>1. m \in Node /\ n \in Nbr[m] /\ m # n /\ m \in Nat /\ n \in Nat
    BY ConnFacts
  <2>2. conn[n][m] # None /\ conn[m][n] # None
    BY <1>1, <1>2, <2>1 DEF Known, Up
  <2>3. conn[n][m] = (IF m < n THEN <<n, m, 1>> ELSE <<m, n, 1>>)
    BY <2>2, OnlyRun
  <2>4. conn[m][n] = (IF n < m THEN <<m, n, 1>> ELSE <<n, m, 1>>)
    BY <2>1, <2>2, OnlyRun
  <2>5. QED
    BY <2>1, <2>2, <2>3, <2>4
<1>3. ASSUME NEW n \in Node, son[n] = "starting", accepting[n], backlog[n] = <<>>,
             \A m \in Larger(n) : runs[m] # 0 /\ son[m] # "off" /\ conn[m][n] # None
      PROVE  FALSE
  <2>1. \A m \in Larger(n) : m \in Node /\ n \in Nbr[m] /\ m \in Nbr[n]
    BY ConnFacts DEF Larger
  <2>2. \A c : ~Waits(n, c)
    BY <1>3 DEF Waits
  <2>3. \A m \in Larger(n) : conn[n][m] = <<m, n, 1>>
    BY <1>1, <1>3, <2>2 DEF Linked, Up
  <2>4. \A m \in Larger(n) : conn[n][m] # None
    BY <2>3 DEF None
  <2>5. Accepted(n) = Larger(n)
    BY <2>4 DEF Accepted
  <2>6. conNum[n] = Cardinality(Larger(n)) /\ conNum[n] < Cardinality(Larger(n))
    BY <1>1, <1>3, <2>5 DEF Counted, Early
  <2>7. QED
    BY <2>6, LargerFinite
<1>4. QED
  BY <1>2, <1>3

\* When no node is started twice, neighbours that run hold the two ends of one
\* connection, and waitNbrs waits only for somebody who has still to connect.
THEOREM MeshBuiltOnce == OverlaySpec => []MeshOnce
<1>1. OverlayInit => MeshInv
  <2> SUFFICES ASSUME OverlayInit PROVE Linked /\ Counted /\ Known
    BY DEF MeshInv
  <2>1. \A n \in Node : son[n] = "off"
    BY DEF OverlayInit
  <2>2. QED
    BY <2>1 DEF Linked, Counted, Known, Up
<1>2. OverlayInv /\ MeshInv /\ [OverlayNext]_overlayVars => MeshInv'
  BY MeshStep
<1>3. OverlaySpec => []MeshInv
  BY OverlayInvariance, <1>1, <1>2, PTL DEF OverlaySpec
<1>4. QED
  BY OverlayInvariance, MeshFollows, <1>3, PTL
=============================================================================
