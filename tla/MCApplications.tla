---------------------------- MODULE MCApplications ----------------------------
(***************************************************************************)
(* Small instances of the programs outside Exp4 for TLC: the game of Exp3, *)
(* the piece manager and the SHA-1 of Exp5 and the weather client of Exp2. *)
(* The programs have nothing to do with each other, so one behaviour runs  *)
(* one of them: program says which, and the state of the others stays as   *)
(* it was.                                                                 *)
(***************************************************************************)
EXTENDS GameClient, PeerConnection, Sha1, WeatherClient

CONSTANTS k1, k2, p1, p2

VARIABLES program,
          length, pieceLen     \* the lengths in a torrent file, in octets

vars == <<program, length, pieceLen, gameVars, pieceVars, shaVars, weatherVars>>

\* A context that is not in use.
NoSha ==
  /\ input = <<>> /\ taken = 0 /\ Length_High = 0 /\ Length_Low = 0
  /\ Message_Block = <<>> /\ Message_Digest = <<>>
  /\ doing = "idle" /\ Computed = FALSE /\ Corrupted = FALSE /\ blocks = 0

Init ==
  /\ program \in {"game", "pieces", "layout", "sha1", "weather"}
  /\ GameInit /\ ClientInit /\ PeerInit /\ WeatherInit
  /\ IF program = "sha1" THEN ShaInit ELSE NoSha
  /\ IF program = "layout" THEN length \in 1..24 /\ pieceLen \in 1..8
     ELSE length = 0 /\ pieceLen = 1

Next ==
  /\ UNCHANGED <<program, length, pieceLen>>
  /\ \/ /\ program = "game" /\ GameNext
        /\ UNCHANGED <<pieceVars, shaVars, weatherVars>>
     \/ /\ program = "pieces" /\ PieceNext
        /\ UNCHANGED <<gameVars, shaVars, weatherVars>>
     \/ /\ program = "sha1" /\ ShaNext
        /\ UNCHANGED <<gameVars, pieceVars, weatherVars>>
     \/ /\ program = "weather" /\ WeatherNext
        /\ UNCHANGED <<gameVars, pieceVars, shaVars>>

Spec == Init /\ [][Next]_vars

\* Every variable of the program that runs has its type.
TypeOK ==
  /\ program = "game" => GameTypeOK
  /\ program = "pieces" => PieceTypeOK
  /\ program = "sha1" => ShaTypeOK
  /\ program = "weather" => WeatherTypeOK

Symmetric == Permutations({k1, k2}) \cup Permutations({p1, p2})

Abc == <<97, 98, 99>>
TestB == [i \in 1..56 |-> 97 + ((i - 1) \div 4) + ((i - 1) % 4)]
Messages == {Abc, TestB, <<>>} \cup {[i \in 1..n |-> 97] : n \in {55, 64}}

\* The two short messages of shatest.cpp have the digests it states, and every
\* message is processed in the blocks its octets and its padding fill.
HashRight ==
  HashedRight([m \in {Abc, TestB} |->
    IF m = Abc
    THEN <<Word(\hA999, \h3E36), Word(\h4706, \h816A), Word(\hBA3E, \h2571),
           Word(\h7850, \hC26C), Word(\h9CD0, \hD89D)>>
    ELSE <<Word(\h8498, \h3E44), Word(\h1C3B, \hD26E), Word(\hBAAE, \h4AA1),
           Word(\hF951, \h29E5), Word(\hE546, \h70F1)>>])

\* The blocks of initiatePieces add up to the file exactly when a piece is a
\* multiple of a block and the last piece neither a whole piece nor a block or
\* longer: ceil is taken of a quotient that was rounded down already.
LayoutExact ==
  LET size == 4 IN
  (LayoutLength(length, pieceLen, size) = length) <=>
    \/ length = 0
    \/ /\ pieceLen % size = 0 \/ length <= pieceLen
       /\ length % pieceLen \in 1..(size - 1)
=============================================================================
