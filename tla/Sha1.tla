---------------------------------- MODULE Sha1 ---------------------------------
(***************************************************************************)
(* The SHA-1 of Exp5, which decides whether a piece is written to disk.    *)
(* A SHA1Context takes a message octet by octet (SHA1Input), processes     *)
(* each full block of 64 octets (SHA1ProcessMessageBlock) and is padded    *)
(* and finished by SHA1Result.  A 32-bit word is the pair of its halves,   *)
(* so every sum is modulo 2^32 as in the code.                             *)
(***************************************************************************)
EXTENDS Integers, Sequences
LOCAL INSTANCE SequencesExt
LOCAL INSTANCE Bitwise

CONSTANT Message        \* the messages that are hashed: sequences of octets

VARIABLES
  input, taken,         \* the message and how many of its octets were taken
  Length_High, Length_Low,
  Message_Block,        \* its octets up to Message_Block_Index
  Message_Digest,
  doing,                \* where the code is
  Computed, Corrupted,
  blocks                \* history: how many blocks were processed

shaVars == <<input, taken, Length_High, Length_Low, Message_Block, Message_Digest, doing, Computed, Corrupted, blocks>>

Half == 0..65535
Word(high, low) == <<high, low>>
Zero == Word(0, 0)

Add(a, b) ==
  LET low == a[2] + b[2] IN Word((a[1] + b[1] + low \div 65536) % 65536, low % 65536)
Exclusive(a, b) == Word(a[1] ^^ b[1], a[2] ^^ b[2])
Both(a, b) == Word(a[1] & b[1], a[2] & b[2])
Either(a, b) == Word(a[1] | b[1], a[2] | b[2])
Negated(a) == Word(65535 - a[1], 65535 - a[2])

\* The halves of a word that is shifted to the left by n < 16 bits and takes in
\* at the right the bits that fall out at the left.
Rotated(n, w) ==
  LET moved(half, from) == ((half * 2^n) % 65536) + (from \div 2^(16 - n))
  IN Word(moved(w[1], w[2]), moved(w[2], w[1]))
FaultySHA1CircularShift(n, w) == Rotated((32 - n) % 16, IF n > 16 THEN w ELSE Word(w[2], w[1]))
SHA1CircularShift(n, w) == Rotated(n % 16, IF n < 16 THEN w ELSE Word(w[2], w[1]))

\* The octet of weight 2^(8n) of a word.
Octet(w, n) == (w[IF n < 2 THEN 2 ELSE 1] \div 256^(n % 2)) % 256

K == <<Word(\h5A82, \h7999), Word(\h6ED9, \hEBA1), Word(\h8F1B, \hBCDC), Word(\hCA62, \hC1D6)>>

\* The function of B, C and D in rounds 0-19, 20-39, 40-59 and 60-79.
Mix(round, B, C, D) ==
  CASE round < 20 -> Either(Both(B, C), Both(Negated(B), D))
    [] round \in 40..59 -> Either(Both(B, C), Either(Both(B, D), Both(C, D)))
    [] OTHER -> Exclusive(B, Exclusive(C, D))

\* SHA1Reset, and a message to hash.
ShaInit ==
  /\ input \in Message /\ taken = 0
  /\ Length_High = Zero /\ Length_Low = Zero /\ Message_Block = <<>>
  /\ Message_Digest = <<Word(\h6745, \h2301), Word(\hEFCD, \hAB89), Word(\h98BA, \hDCFE),
                        Word(\h1032, \h5476), Word(\hC3D2, \hE1F0)>>
  /\ doing = "input" /\ Computed = FALSE /\ Corrupted = FALSE /\ blocks = 0

Full(octets) == Len(octets) = 64

\* SHA1Input, one turn of its loop.
TakeOctet ==
  /\ doing = "input" /\ taken < Len(input) /\ ~Computed /\ ~Corrupted
  /\ taken' = taken + 1
  /\ Message_Block' = Append(Message_Block, input[taken'])
  /\ Length_Low' = Add(Length_Low, Word(0, 8))
  /\ Length_High' = IF Length_Low' = Zero THEN Add(Length_High, Word(0, 1)) ELSE Length_High
  /\ Corrupted' = (Length_Low' = Zero /\ Length_High' = Zero)
  /\ doing' = IF Full(Message_Block') THEN "block" ELSE "input"
  /\ UNCHANGED <<input, Message_Digest, Computed, blocks>>

\* SHA1Input on a context whose digest is computed.
TakeTooLate ==
  /\ doing = "done" /\ Computed /\ ~Corrupted /\ Corrupted' = TRUE
  /\ UNCHANGED <<input, taken, Length_High, Length_Low, Message_Block, Message_Digest, doing, Computed, blocks>>

\* The schedule: the words of the block and 64 more.  W[t] of the code is the
\* element t + 1 of the sequence.
Schedule(octets) ==
  LET octet(i) == octets[i + 1]
      first == [i \in 1..16 |-> Word(256 * octet(4*i - 4) + octet(4*i - 3),
                                     256 * octet(4*i - 2) + octet(4*i - 1))]
      with(W, t) ==
        Append(W, SHA1CircularShift(1, Exclusive(Exclusive(W[t - 2], W[t - 7]),
                                                 Exclusive(W[t - 13], W[t - 15]))))
      upTo[t \in 15..79] == IF t = 15 THEN first ELSE with(upTo[t - 1], t)
  IN upTo[79]

\* One of the 80 rounds on <<E, D, C, B, A>>.
OneRound(regs, t, W) ==
  LET temp == Add(Add(SHA1CircularShift(5, regs[5]), Mix(t, regs[4], regs[3], regs[2])),
                  Add(Add(regs[1], W[t + 1]), K[t \div 20 + 1]))
  IN <<regs[2], regs[3], SHA1CircularShift(30, regs[4]), regs[5], temp>>

\* After all of them.
Rounds(digest, W) ==
  LET before[t \in 0..80] == IF t = 0 THEN Reverse(digest) ELSE OneRound(before[t - 1], t - 1, W)
  IN before[80]

\* SHA1ProcessMessageBlock, and where its caller goes on: SHA1Input, or
\* SHA1PadMessage, which fills a second block when the first was too full.
ProcessMessageBlock ==
  /\ doing = "block"
  /\ \E W \in {Schedule(Message_Block)} :
     \E regs \in {Rounds(Message_Digest, W)} :
       Message_Digest' = [i \in 1..5 |-> Add(Message_Digest[i], regs[6 - i])]
  /\ Message_Block' = <<>> /\ blocks' = blocks + 1
  /\ doing' = CASE taken <= Len(input) -> "input"
                [] taken = Len(input) + 1 -> "length"
                [] OTHER -> "done"
  /\ Computed' = (taken = Len(input) + 2)
  /\ UNCHANGED <<input, taken, Length_High, Length_Low, Corrupted>>

FaultyZeros(n) == [i \in 1..(n + 1) |-> 0]
Zeros(n) == [i \in 1..n |-> 0]

\* SHA1PadMessage up to the length.  taken counts past the message: + 1 while
\* the first of two padding blocks is processed, + 2 while the last one is.
Pad ==
  /\ doing = "input" /\ taken = Len(input) /\ ~Corrupted
  /\ IF Len(Message_Block) > 55
     THEN /\ Message_Block' = Message_Block \o <<128>> \o Zeros(63 - Len(Message_Block))
          /\ taken' = taken + 1 /\ doing' = "block"
     ELSE /\ Message_Block' = Message_Block \o <<128>> \o Zeros(55 - Len(Message_Block))
          /\ doing' = "length" /\ UNCHANGED taken
  /\ UNCHANGED <<input, Length_High, Length_Low, Message_Digest, Computed, Corrupted, blocks>>

PadLength ==
  /\ doing = "length"
  /\ Message_Block' = (IF Message_Block = <<>> THEN Zeros(56) ELSE Message_Block)
                        \o [i \in 1..4 |-> Octet(Length_High, 4 - i)]
                        \o [i \in 1..4 |-> Octet(Length_Low, 4 - i)]
  /\ taken' = Len(input) + 2 /\ doing' = "block"
  /\ UNCHANGED <<input, Length_High, Length_Low, Message_Digest, Computed, Corrupted, blocks>>

ShaNext ==
  TakeOctet \/ TakeTooLate \/ ProcessMessageBlock \/ Pad \/ PadLength

ShaSpec == ShaInit /\ [][ShaNext]_shaVars
-----------------------------------------------------------------------------
ShaTypeOK ==
  /\ Len(Message_Block) \in 0..64
  /\ taken \in 0..(Len(input) + 2)
  /\ \A i \in 1..5 : Message_Digest[i] \in Half \X Half
  /\ doing \in {"input", "block", "length", "done"}

\* The digest of a message whose digest shatest.cpp states (Digest) is that
\* digest, and every message was processed in as many blocks as its octets,
\* the octet 0x80 and the eight octets of its length fill.
HashedRight(Digest) ==
  doing = "done" =>
    /\ blocks = (Len(input) + 8) \div 64 + 1
    /\ input \in DOMAIN Digest => Message_Digest = Digest[input]
=============================================================================
