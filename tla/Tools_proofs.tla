----------------------------- MODULE Tools_proofs -----------------------------
(***************************************************************************)
(* nc, wget, sudo, dd, diff, xargs, and the tools that copy streams. nc's  *)
(* relay is faithful for every input on either side, every size of buffer  *)
(* and socket, and every order of its steps and those of the user and the  *)
(* peer. What wget saves, what it leaves alone, holds for every response,  *)
(* every size of its buffer and every way recv may cut a response into     *)
(* pieces. sudo runs a command only for whom the configuration grants it,  *)
(* and as the user asked for, for every pair of files and any number of    *)
(* edits between the questions it asks of them. dd copies what was asked   *)
(* for, and reports it, for every order, every part in which its blocks    *)
(* are read and written and every call that fails. What diff prints is a   *)
(* patch that makes the one file's lines the other's, for every pair of    *)
(* files and any look-ahead. Every word xargs reads becomes an argument of *)
(* exactly one command, for every input, as long as no word of an earlier  *)
(* line is in a command. What cat, cat -n, head, tail, tee and cp write is *)
(* what they are for, for any number of files of any size, however reads   *)
(* and writes cut them and whichever of them fail.                         *)
(***************************************************************************)
EXTENDS Relay, Response, Sudo, Dd, Diff, Xargs, Streams, SequenceTheorems, Lemmas

(* Types, and a socket that never holds more than it can. *)
RelayTypeOK ==
  /\ step \in {"socket", "bind", "listen", "accept", "connect", "typed", "send", "answer", "done"}
  /\ listening \in BOOLEAN /\ code \in {0, 1}
  /\ toType \in Seq(Byte) /\ typed \in Seq(Byte) /\ typedEnd \in BOOLEAN
  /\ sending \in Seq(Byte) /\ taken \in Seq(Byte)
  /\ toPeer \in Seq(Byte) /\ Len(toPeer) <= SocketSize /\ peerGot \in Seq(Byte)
  /\ toSend \in Seq(Byte) /\ peerEnd \in BOOLEAN
  /\ fromPeer \in Seq(Byte) /\ Len(fromPeer) <= SocketSize
  /\ display \in Seq(Byte) /\ came \in Seq(Byte) /\ dropped \in BOOLEAN
  /\ why \in {"running", "no connection", "end of input", "write failed", "peer closed"}

(* What nc reads is sent before it looks at anything else; an end it saw   *)
(* stays one, and nothing comes behind it.                                 *)
Ended ==
  /\ step = "done" <=> why # "running"
  /\ step \notin {"send", "done"} => sending = << >>
  /\ why = "no connection" => sending = << >>
  /\ typedEnd => toType = << >>
  /\ why = "end of input" => typedEnd
  /\ why = "peer closed" => peerEnd

RelayInv == RelayTypeOK /\ RelayFaithful /\ Ended

(* The buffer and the socket hold something. *)
LEMMA Sizes == BufSize \in Nat \ {0} /\ SocketSize \in Nat \ {0}
BY RelayAssumption DEF RelayAssumption

(* A piece is no longer than what it is taken from, nor than its limit. *)
LEMMA Piece ==
  ASSUME NEW m \in Nat, NEW l \in Nat, NEW k \in 1..Least(m, l)
  PROVE  k \in 0..m /\ k \in 0..l /\ k \in Nat
BY DEF Least

(* A sequence cut in two is its two parts, of the lengths asked for. *)
LEMMA CutInTwo ==
  ASSUME NEW s \in Seq(Byte), NEW k \in 0..Len(s)
  PROVE  /\ First(s, k) \in Seq(Byte) /\ Len(First(s, k)) = k
         /\ From(s, k) \in Seq(Byte) /\ Len(From(s, k)) = Len(s) - k
         /\ First(s, k) \o From(s, k) = s
<1>1. Len(s) \in Nat /\ \A i \in 1..Len(s) : s[i] \in Byte
  BY LenProperties
<1>2. First(s, k) \in Seq(Byte) /\ Len(First(s, k)) = k
  BY <1>1, SubSeqProperties DEF First
<1>3. From(s, k) \in Seq(Byte) /\ Len(From(s, k)) = Len(s) - k
  BY <1>1, SubSeqProperties DEF From
<1>4. SubSeq(s, 1, k) \o SubSeq(s, k + 1, Len(s)) = SubSeq(s, 1, Len(s))
  <2>1. 1 \in 1..Len(s)+1 /\ k \in 1-1..Len(s) /\ Len(s) \in k..Len(s)
    BY <1>1
  <2> QED BY <2>1, ConcatAdjacentSubSeq
<1>5. SubSeq(s, 1, Len(s)) = s
  BY SubSeqFull
<1> QED BY <1>2, <1>3, <1>4, <1>5 DEF First, From

(* The empty relay satisfies the invariant. *)
LEMMA RelayInitInv == RelayInit => RelayInv
<1> SUFFICES ASSUME RelayInit PROVE RelayInv
  OBVIOUS
<1>1. << >> \in Seq(Byte) /\ Len(<< >>) = 0
  BY EmptySeq
<1>2. RelayTypeOK
  <2>1. toType \in Seq(Byte) /\ toSend \in Seq(Byte)
    BY RelayAssumption DEF RelayInit, RelayAssumption
  <2>2. Len(toPeer) <= SocketSize /\ Len(fromPeer) <= SocketSize
    <3>1. Len(toPeer) = 0 /\ Len(fromPeer) = 0
      BY <1>1 DEF RelayInit
    <3> QED BY <3>1, Sizes
  <2> QED BY <1>1, <2>1, <2>2 DEF RelayInit, RelayTypeOK
<1>3. << >> \o << >> = << >>
  BY <1>1, ConcatEmptySeq
<1>4. RelayFaithful /\ Ended
  BY <1>3 DEF RelayInit, RelayFaithful, Ended
<1> QED BY <1>2, <1>4 DEF RelayInv

(* The calls before the relay move nothing. *)
LEMMA ConnectInv == RelayInv /\ Connect => RelayInv'
<1> SUFFICES ASSUME RelayInv, Connect PROVE RelayInv'
  OBVIOUS
<1> USE DEF RelayInv, Connect, SettingUp, userVars, peerVars, displayVars
<1>1. Following \in {"bind", "listen", "accept", "connect", "typed"}
  BY DEF Following
<1>2. sending = << >> /\ why = "running"
  BY DEF Ended
<1>3. RelayTypeOK'
  BY <1>1 DEF RelayTypeOK
<1>4. RelayFaithful' /\ Ended'
  BY <1>1, <1>2 DEF RelayFaithful, Ended
<1> QED BY <1>3, <1>4

(* A piece of what is typed goes to the hands of nc, which were empty. *)
LEMMA ReadTypedInv == RelayInv /\ ReadTyped => RelayInv'
<1> SUFFICES ASSUME RelayInv, ReadTyped PROVE RelayInv'
  OBVIOUS
<1> USE DEF RelayInv
<1>1. PICK k \in 1..Least(BufSize, Len(typed)) :
        /\ sending' = First(typed, k) /\ typed' = From(typed, k)
        /\ taken' = taken \o sending'
  BY DEF ReadTyped
<1>2. k \in 0..Len(typed)
  <2>1. Len(typed) \in Nat
    BY LenProperties DEF RelayTypeOK
  <2> QED BY <2>1, Sizes, Piece
<1>3. sending' \in Seq(Byte) /\ typed' \in Seq(Byte)
  BY <1>1, <1>2, CutInTwo DEF RelayTypeOK
<1>4. taken' \in Seq(Byte)
  BY <1>1, <1>3, ConcatProperties DEF RelayTypeOK
<1>5. RelayTypeOK'
  BY <1>3, <1>4 DEF RelayTypeOK, ReadTyped, displayVars, peerVars
<1>6. sending = << >> /\ why = "running"
  BY DEF ReadTyped, Ended
<1>7. (peerGot \o toPeer) \o << >> = peerGot \o toPeer
  BY ConcatProperties, ConcatEmptySeq DEF RelayTypeOK
<1>8. peerGot' \o toPeer' \o sending' = taken'
  BY <1>1, <1>6, <1>7 DEF ReadTyped, RelayFaithful, peerVars
<1>9. RelayFaithful'
  BY <1>6, <1>8 DEF ReadTyped, RelayFaithful, displayVars
<1>10. Ended'
  BY <1>6 DEF ReadTyped, Ended, peerVars
<1> QED BY <1>5, <1>9, <1>10

(* Looking and finding nothing, or an end, moves nothing. *)
LEMMA NothingInv == RelayInv /\ (NothingTyped \/ TypedEnds \/ NoAnswer \/ AnswerEnds) => RelayInv'
<1> SUFFICES ASSUME RelayInv, NothingTyped \/ TypedEnds \/ NoAnswer \/ AnswerEnds PROVE RelayInv'
  OBVIOUS
<1> USE DEF RelayInv, RelayTypeOK, RelayFaithful, Ended, userVars, peerVars, displayVars
<1>1. CASE NothingTyped BY <1>1 DEF NothingTyped
<1>2. CASE TypedEnds BY <1>2 DEF TypedEnds
<1>3. CASE NoAnswer BY <1>3 DEF NoAnswer
<1>4. CASE AnswerEnds BY <1>4 DEF AnswerEnds
<1> QED BY <1>1, <1>2, <1>3, <1>4

(* A write moves the front of what nc holds behind what is in the socket. *)
LEMMA SendInv == RelayInv /\ Send => RelayInv'
<1> SUFFICES ASSUME RelayInv, Send PROVE RelayInv'
  OBVIOUS
<1> USE DEF RelayInv
<1>1. PICK k \in 1..Least(Len(sending), SocketSize - Len(toPeer)) :
        /\ toPeer' = toPeer \o First(sending, k)
        /\ sending' = From(sending, k)
  BY DEF Send
<1>2. /\ k \in 0..Len(sending) /\ Len(toPeer) \in Nat
      /\ k <= SocketSize - Len(toPeer)
  <2>1. Len(sending) \in Nat /\ Len(toPeer) \in Nat
    BY LenProperties DEF RelayTypeOK
  <2>2. SocketSize - Len(toPeer) \in Nat
    BY <2>1, Sizes DEF Send
  <2> QED BY <2>1, <2>2, Piece
<1>3. /\ First(sending, k) \in Seq(Byte) /\ Len(First(sending, k)) = k
      /\ sending' \in Seq(Byte) /\ First(sending, k) \o sending' = sending
  BY <1>1, <1>2, CutInTwo DEF RelayTypeOK
<1>4. toPeer' \in Seq(Byte) /\ Len(toPeer') = Len(toPeer) + k
  BY <1>1, <1>3, ConcatProperties DEF RelayTypeOK
<1>5. Len(toPeer') <= SocketSize
  BY <1>2, <1>4, Sizes
<1>6. RelayTypeOK'
  BY <1>3, <1>4, <1>5 DEF RelayTypeOK, Send, userVars, peerVars, displayVars
<1>7. peerGot' \o toPeer' \o sending' = taken'
  <2>1. peerGot \o toPeer' = (peerGot \o toPeer) \o First(sending, k)
    <3>1. peerGot \in Seq(Byte) /\ toPeer \in Seq(Byte) /\ First(sending, k) \in Seq(Byte)
      BY <1>3 DEF RelayTypeOK
    <3>2. (peerGot \o toPeer) \o First(sending, k) = peerGot \o (toPeer \o First(sending, k))
      BY <3>1, ConcatAssociative
    <3> QED BY <1>1, <3>2
  <2>2. peerGot \o toPeer \in Seq(Byte)
    BY ConcatProperties DEF RelayTypeOK
  <2>3. First(sending, k) \in Seq(Byte) /\ sending' \in Seq(Byte)
    BY <1>3
  <2>4. ((peerGot \o toPeer) \o First(sending, k)) \o sending'
          = (peerGot \o toPeer) \o (First(sending, k) \o sending')
    <3> DEFINE before == peerGot \o toPeer
               front == First(sending, k)
    <3>1. before \in Seq(Byte) /\ front \in Seq(Byte) /\ sending' \in Seq(Byte)
      BY <2>2, <2>3
    <3> HIDE DEF before, front
    <3>2. (before \o front) \o sending' = before \o (front \o sending')
      BY <3>1, ConcatAssociative, SMTT(30)
    <3> QED BY <3>2 DEF before, front
  <2> QED BY <1>3, <2>1, <2>4 DEF Send, RelayFaithful, peerVars
<1>8. why = "running"
  BY DEF Send, Ended
<1>9. RelayFaithful'
  BY <1>7, <1>8 DEF Send, RelayFaithful, displayVars
<1>10. Ended'
  BY <1>8 DEF Send, Ended, userVars, peerVars
<1> QED BY <1>6, <1>9, <1>10

(* With no room nc ends, and what it holds is what is missing. *)
LEMMA SendFailsInv == RelayInv /\ SendFails => RelayInv'
<1> SUFFICES ASSUME RelayInv, SendFails PROVE RelayInv'
  OBVIOUS
<1>1. /\ step = "send" /\ step' = "done" /\ why' = "write failed"
      /\ UNCHANGED <<listening, code, userVars, sending, toPeer, fromPeer, peerVars, displayVars,
                     taken>>
  BY DEF SendFails
<1> QED BY <1>1 DEF RelayInv, RelayTypeOK, RelayFaithful, Ended, userVars, peerVars, displayVars

(* An answer is shown as far as it came, or something was dropped. *)
LEMMA ReadAnswerInv == RelayInv /\ ReadAnswer => RelayInv'
<1> SUFFICES ASSUME RelayInv, ReadAnswer PROVE RelayInv'
  OBVIOUS
<1> USE DEF RelayInv
<1>1. PICK k \in 1..Least(BufSize, Len(fromPeer)) :
        /\ came' = came \o First(fromPeer, k) /\ fromPeer' = From(fromPeer, k)
        /\ \E w \in 0..k :
             display' = display \o First(fromPeer, w) /\ dropped' = (dropped \/ w < k)
  BY DEF ReadAnswer
<1>2. PICK w \in 0..k :
        display' = display \o First(fromPeer, w) /\ dropped' = (dropped \/ w < k)
  BY <1>1
<1>3. k \in 0..Len(fromPeer) /\ w \in 0..Len(fromPeer) /\ k \in Nat /\ w \in Nat
  <2>1. Len(fromPeer) \in Nat
    BY LenProperties DEF RelayTypeOK
  <2>2. k \in 0..Len(fromPeer) /\ k \in Nat
    BY <2>1, Sizes, Piece
  <2> QED BY <2>1, <2>2
<1>4. /\ First(fromPeer, k) \in Seq(Byte) /\ First(fromPeer, w) \in Seq(Byte)
      /\ fromPeer' \in Seq(Byte) /\ Len(fromPeer') = Len(fromPeer) - k
  BY <1>1, <1>3, CutInTwo DEF RelayTypeOK
<1>5. came' \in Seq(Byte) /\ display' \in Seq(Byte)
  BY <1>1, <1>2, <1>4, ConcatProperties DEF RelayTypeOK
<1>6. Len(fromPeer') <= SocketSize
  <2>1. Len(fromPeer) \in Nat
    BY LenProperties DEF RelayTypeOK
  <2>2. Len(fromPeer) <= SocketSize
    BY DEF RelayTypeOK
  <2> QED BY <1>3, <1>4, <2>1, <2>2, Sizes
<1>7. dropped' \in BOOLEAN
  BY <1>2 DEF RelayTypeOK
<1>8. RelayTypeOK'
  BY <1>4, <1>5, <1>6, <1>7 DEF RelayTypeOK, ReadAnswer, userVars, peerVars
<1>9. ASSUME ~dropped' PROVE display' = came'
  <2>1. ~dropped /\ ~(w < k)
    BY <1>2, <1>9
  <2>2. w = k
    BY <1>3, <2>1
  <2> QED BY <1>1, <1>2, <2>1, <2>2 DEF RelayFaithful
<1>10. why = "running" /\ sending = << >>
  BY DEF ReadAnswer, Ended
<1>11. RelayFaithful'
  BY <1>9, <1>10 DEF ReadAnswer, RelayFaithful, peerVars
<1>12. Ended'
  BY <1>10 DEF ReadAnswer, Ended, userVars, peerVars
<1> QED BY <1>8, <1>11, <1>12

(* The user types: never behind the end of the input. *)
LEMMA UserInv == RelayInv /\ (Type \/ EndTyping) => RelayInv'
<1> SUFFICES ASSUME RelayInv, Type \/ EndTyping PROVE RelayInv'
  OBVIOUS
<1> USE DEF RelayInv
<1>1. CASE Type
  <2>1. Head(toType) \in Byte /\ Tail(toType) \in Seq(Byte)
    BY <1>1, HeadTailProperties DEF Type, RelayTypeOK
  <2>2. Append(typed, Head(toType)) \in Seq(Byte)
    BY <2>1, AppendProperties DEF RelayTypeOK
  <2>3. ~typedEnd
    BY <1>1 DEF Type, Ended
  <2> QED BY <1>1, <2>1, <2>2, <2>3 DEF Type, RelayTypeOK, RelayFaithful, Ended, peerVars, displayVars
<1>2. CASE EndTyping
  BY <1>2 DEF EndTyping, RelayTypeOK, RelayFaithful, Ended, peerVars, displayVars
<1> QED BY <1>1, <1>2

(* The peer reads all that is in the socket: it only moves on. *)
LEMMA PeerReadsInv == RelayInv /\ PeerReads => RelayInv'
<1> SUFFICES ASSUME RelayInv, PeerReads PROVE RelayInv'
  OBVIOUS
<1> USE DEF RelayInv
<1>1. peerGot' = peerGot \o toPeer /\ toPeer' = << >>
  BY DEF PeerReads
<1>2. peerGot' \in Seq(Byte) /\ toPeer' \in Seq(Byte) /\ Len(toPeer') = 0
  BY <1>1, ConcatProperties, EmptySeq DEF RelayTypeOK
<1>3. Len(toPeer') <= SocketSize
  BY <1>2, Sizes
<1>4. RelayTypeOK'
  BY <1>2, <1>3 DEF PeerReads, RelayTypeOK, userVars, displayVars
<1>5. peerGot' \o toPeer' = peerGot \o toPeer
  BY <1>1, <1>2, ConcatEmptySeq
<1>6. RelayFaithful'
  BY <1>5 DEF PeerReads, RelayFaithful, userVars, displayVars
<1>7. Ended'
  BY DEF PeerReads, Ended, userVars
<1> QED BY <1>4, <1>6, <1>7

(* The peer sends, or closes: never sends behind its close. *)
LEMMA PeerTalksInv == RelayInv /\ (PeerSends \/ PeerCloses) => RelayInv'
<1> SUFFICES ASSUME RelayInv, PeerSends \/ PeerCloses PROVE RelayInv'
  OBVIOUS
<1> USE DEF RelayInv
<1>1. CASE PeerSends
  <2>1. Head(toSend) \in Byte /\ Tail(toSend) \in Seq(Byte)
    BY <1>1, HeadTailProperties DEF PeerSends, RelayTypeOK
  <2>2. /\ Append(fromPeer, Head(toSend)) \in Seq(Byte)
        /\ Len(Append(fromPeer, Head(toSend))) = Len(fromPeer) + 1
    BY <2>1, AppendProperties DEF RelayTypeOK
  <2>3. Len(fromPeer) \in Nat /\ Len(fromPeer) < SocketSize
    BY <1>1, LenProperties DEF PeerSends, RelayTypeOK
  <2>4. Len(Append(fromPeer, Head(toSend))) <= SocketSize
    BY <2>2, <2>3, Sizes
  <2>5. RelayTypeOK'
    BY <1>1, <2>1, <2>2, <2>4 DEF PeerSends, RelayTypeOK, userVars, displayVars
  <2>6. why # "peer closed"
    BY <1>1 DEF PeerSends, Ended
  <2> QED BY <1>1, <2>5, <2>6 DEF PeerSends, RelayFaithful, Ended, userVars, displayVars
<1>2. CASE PeerCloses
  BY <1>2 DEF PeerCloses, RelayTypeOK, RelayFaithful, Ended, userVars, displayVars
<1> QED BY <1>1, <1>2

(* Every step keeps the invariant. *)
LEMMA RelayStepInv == RelayInv /\ [RelayNext]_relayVars => RelayInv'
<1> SUFFICES ASSUME RelayInv, [RelayNext]_relayVars PROVE RelayInv'
  OBVIOUS
<1>1. CASE UNCHANGED relayVars
  BY <1>1, ZenonT(30) DEF relayVars, RelayInv, RelayTypeOK, RelayFaithful, Ended, userVars, peerVars, displayVars
<1>2. CASE RelayNext
  BY <1>2, ConnectInv, ReadTypedInv, NothingInv, SendInv, SendFailsInv, ReadAnswerInv, UserInv,
     PeerReadsInv, PeerTalksInv DEF RelayNext, RelayStep
<1> QED BY <1>1, <1>2

(* The invariant of the relay holds in every reachable state. *)
THEOREM RelayInvariance == RelaySpec => []RelayInv
BY RelayInitInv, RelayStepInv, PTL DEF RelaySpec

(* Types, and the socket's limits in both directions (tools/nc.c, 28-69).  *)
THEOREM RelayTyped == RelaySpec => []RelayTypeOK
<1>1. RelayInv => RelayTypeOK
  BY DEF RelayInv
<1> QED BY <1>1, RelayInvariance, PTL

(* No byte is lost, doubled or moved in either direction, and the side     *)
(* whose end ends nc was heard out, for all inputs, sizes and orders.      *)
THEOREM Faithful == RelaySpec => []RelayFaithful
<1>1. RelayInv => RelayFaithful
  BY DEF RelayInv
<1> QED BY <1>1, RelayInvariance, PTL

(***************************************************************************)
(* The response to wget.                                                   *)
(***************************************************************************)

(* FirstIn is the least element of a nonempty set.                         *)
LEMMA FirstInIsLeast ==
  ASSUME NEW S \in SUBSET Nat, S # {}
  PROVE  FirstIn(S) \in S /\ \A j \in S : FirstIn(S) <= j
BY Minimum DEF FirstIn

(* Where a header may end is a place in the sequence looked at. *)
LEMMA EndsArePlaces ==
  ASSUME NEW s \in Seq(Symbol)
  PROVE  /\ EndsIn(s) \in SUBSET Nat
         /\ \A i \in EndsIn(s) : i \in 1..(Len(s) - 3) /\ i \in 1..Len(s)
<1>1. Len(s) \in Nat
  BY LenProperties
<1> QED BY <1>1 DEF EndsIn

(* What recv gives: the next k symbols, a sequence of its own. *)
LEMMA PieceOf ==
  ASSUME NEW s \in Seq(Symbol), NEW a \in Nat, NEW k \in 1..(Len(s) - a)
  PROVE  LET buf == SubSeq(s, a + 1, a + k) IN
           /\ buf \in Seq(Symbol) /\ Len(buf) = k /\ buf # << >>
           /\ \A i \in 1..k : buf[i] = s[a + i]
<1> DEFINE buf == SubSeq(s, a + 1, a + k)
<1>1. Len(s) \in Nat /\ \A i \in 1..Len(s) : s[i] \in Symbol
  BY LenProperties, ElementOfSeq
<1>2. /\ buf \in Seq(Symbol)
      /\ Len(buf) = IF a + 1 <= a + k THEN (a + k) - (a + 1) + 1 ELSE 0
      /\ \A i \in 1..((a + k) - (a + 1) + 1) : buf[i] = s[(a + 1) + i - 1]
  <2>1. a + 1 \in Int /\ a + k \in Int /\ \A i \in (a + 1)..(a + k) : s[i] \in Symbol
    BY <1>1
  <2> QED BY <2>1, SubSeqProperties
<1>3. Len(buf) = k
  BY <1>1, <1>2
<1>4. ASSUME NEW i \in 1..k PROVE buf[i] = s[a + i]
  <2>1. i \in 1..((a + k) - (a + 1) + 1) /\ (a + 1) + i - 1 = a + i
    BY <1>1
  <2> QED BY <1>2, <2>1
<1>5. buf # << >>
  BY <1>1, <1>3, EmptySeq
<1> QED BY <1>2, <1>3, <1>4, <1>5

(* A piece of a piece is a piece. *)
LEMMA PieceOfPiece ==
  ASSUME NEW s \in Seq(Symbol), NEW a \in Nat, NEW k \in 1..(Len(s) - a),
         NEW i \in 1..k, NEW j \in i..k
  PROVE  SubSeq(SubSeq(s, a + 1, a + k), i, j) = SubSeq(s, a + i, a + j)
<1>1. Len(s) \in Nat
  BY LenProperties
<1>2. /\ a + 1 \in 1..Len(s) /\ a + k \in 1..Len(s)
      /\ i \in 1..(a + k) - (a + 1) + 1 /\ j \in 1..(a + k) - (a + 1) + 1
  BY <1>1
<1>3. SubSeq(SubSeq(s, a + 1, a + k), i, j) = SubSeq(s, (a + 1) + i - 1, (a + 1) + j - 1)
  BY <1>2, SubSeqOfSubSeq
<1>4. (a + 1) + i - 1 = a + i /\ (a + 1) + j - 1 = a + j
  BY <1>1
<1> QED BY <1>3, <1>4

(* The ends of a header in a piece are those of the whole that lie in it.  *)
LEMMA EndsInPiece ==
  ASSUME NEW s \in Seq(Symbol), NEW a \in Nat, NEW k \in 1..(Len(s) - a),
         NEW i \in Nat
  PROVE  i \in EndsIn(SubSeq(s, a + 1, a + k)) <=> i \in 1..(k - 3) /\ a + i \in EndsIn(s)
<1>1. Len(s) \in Nat /\ Len(SubSeq(s, a + 1, a + k)) = k
  BY LenProperties, PieceOf
<1>2. CASE i \in 1..(k - 3)
  <2>1. i \in 1..k /\ i + 3 \in i..k /\ a + i \in 1..(Len(s) - 3)
    BY <1>1, <1>2
  <2>2. SubSeq(SubSeq(s, a + 1, a + k), i, i + 3) = SubSeq(s, a + i, a + (i + 3))
    BY <2>1, PieceOfPiece
  <2>3. a + (i + 3) = (a + i) + 3
    BY <1>1
  <2> QED BY <1>1, <1>2, <2>1, <2>2, <2>3 DEF EndsIn
<1>3. CASE ~ (i \in 1..(k - 3))
  BY <1>1, <1>3 DEF EndsIn
<1> QED BY <1>2, <1>3

(* The first end of the header in a piece is the first of all, if none lies *)
(* before the piece.                                                       *)
LEMMA FoundFirst ==
  ASSUME NEW s \in Seq(Symbol), NEW a \in Nat, NEW k \in 1..(Len(s) - a),
         EndsIn(SubSeq(s, a + 1, a + k)) # {},
         EndsIn(s) # {} => a < FirstIn(EndsIn(s))
  PROVE  LET i == FirstIn(EndsIn(SubSeq(s, a + 1, a + k))) IN
           EndsIn(s) # {} /\ i \in 1..(k - 3) /\ a + i = FirstIn(EndsIn(s))
<1> DEFINE buf == SubSeq(s, a + 1, a + k)
           i == FirstIn(EndsIn(buf))
           f == FirstIn(EndsIn(s))
<1>1. buf \in Seq(Symbol) /\ Len(s) \in Nat
  BY PieceOf, LenProperties
<1>2. EndsIn(buf) \in SUBSET Nat /\ EndsIn(s) \in SUBSET Nat
  BY <1>1, EndsArePlaces
<1>3. i \in EndsIn(buf) /\ i \in Nat /\ \A j \in EndsIn(buf) : i <= j
  BY <1>2, FirstInIsLeast
<1>4. i \in 1..(k - 3) /\ a + i \in EndsIn(s)
  BY <1>3, EndsInPiece
<1>5. f \in EndsIn(s) /\ f \in Nat /\ f <= a + i
  BY <1>2, <1>4, FirstInIsLeast
<1>6. a < f
  BY <1>4
<1>7. f - a \in Nat /\ f - a \in 1..(k - 3) /\ a + (f - a) = f
  BY <1>1, <1>4, <1>5, <1>6
<1>8. f - a \in EndsIn(buf)
  BY <1>5, <1>7, EndsInPiece
<1>9. i <= f - a
  BY <1>3, <1>8
<1> QED BY <1>3, <1>4, <1>5, <1>7, <1>9

(* A piece without an end of the header, that does not cut one, lies       *)
(* before the first.                                                       *)
LEMMA NotFound ==
  ASSUME NEW s \in Seq(Symbol), NEW a \in Nat, NEW k \in 1..(Len(s) - a),
         EndsIn(SubSeq(s, a + 1, a + k)) = {}, EndsIn(s) # {},
         a < FirstIn(EndsIn(s)),
         a + k \notin FirstIn(EndsIn(s))..(FirstIn(EndsIn(s)) + 2)
  PROVE  a + k < FirstIn(EndsIn(s))
<1> DEFINE f == FirstIn(EndsIn(s))
<1>1. Len(s) \in Nat /\ f \in EndsIn(s) /\ f \in Nat
  BY LenProperties, EndsArePlaces, FirstInIsLeast
<1>2. SUFFICES ASSUME a + k >= f PROVE FALSE
  BY <1>1
<1>3. f - a \in Nat /\ f - a \in 1..(k - 3) /\ a + (f - a) = f
  BY <1>1, <1>2
<1> QED BY <1>1, <1>3, EndsInPiece, ZenonT(30)

(* What is written behind what was there. *)
LEMMA Written ==
  ASSUME NEW before \in Seq(Symbol), NEW bytes \in Seq(Symbol), NEW k \in 0..Len(bytes),
         ~ (k < Len(bytes))
  PROVE  before \o SubSeq(bytes, 1, k) = before \o bytes
<1>1. Len(bytes) \in Nat
  BY LenProperties
<1>2. k = Len(bytes)
  BY <1>1
<1> QED BY <1>2, SubSeqFull
-------------------------------------------------------------------------------
Pcs == {"url", "resolve", "dns", "connect", "send", "recv", "done", "stuck", "killed"}

(* Types, and where a request may be when. *)
Phases ==
  /\ request \in Requests /\ phase \in Pcs /\ exitCode \in {0, 1}
  /\ whole \in 0..Len(request.response) /\ at \in 0..whole
  /\ header \in BOOLEAN /\ lost \in BOOLEAN /\ saved \in Nat
  /\ split \in SUBSET {"header", "end"}
  /\ header => phase \in {"recv", "done"} /\ exitCode = 0
  /\ exitCode = 1 => phase = "done"

(* While the end of the header is looked for, it is still to come, and the *)
(* first call of recv is the one that will see the status.                 *)
Searching ==
  /\ ~header => file = request.old /\ saved = 0
  /\ ~header /\ phase # "done" =>
       /\ split = {} => at = 0
       /\ "end" \notin split /\ HasEnd => at < HeaderEnd

(* A header found in one piece was judged by its own status. *)
Judged == header /\ split = {} => request.response[1] \notin Errors

(* Behind its end, the file is what was received of the body. *)
Held ==
  header /\ "end" \notin split =>
    /\ HasEnd /\ at >= HeaderEnd + 3
    /\ ~lost =>
         /\ file \in Seq(Symbol) /\ Len(file) = at - HeaderEnd - 3 /\ saved = Len(file)
         /\ \A i \in 1..Len(file) : file[i] = request.response[HeaderEnd + 3 + i]

ResponseInv == Phases /\ Searching /\ Judged /\ Held

(* A response is a sequence, and the first end of its header a place in it.*)
LEMMA ResponseTyped ==
  ASSUME Phases
  PROVE  /\ request.response \in Seq(Symbol) /\ Len(request.response) \in Nat
         /\ HasEnd => HeaderEnd \in 1..(Len(request.response) - 3)
<1>1. request.response \in Seq(Symbol)
  BY RequestsAssumption DEF Phases
<1> QED BY <1>1, LenProperties, EndsArePlaces, FirstInIsLeast DEF HasEnd, HeaderEnd

(* Before anything was sent or received, the invariant holds. *)
LEMMA ResponseInitInv == ResponseInit => ResponseInv
<1> SUFFICES ASSUME ResponseInit PROVE ResponseInv
  OBVIOUS
<1>1. Len(request.response) \in Nat
  BY RequestsAssumption, LenProperties DEF ResponseInit
<1>2. Phases
  <2>1. whole \in 0..Len(request.response) /\ at \in 0..whole
    BY <1>1 DEF ResponseInit
  <2>2. /\ request \in Requests /\ phase \in Pcs /\ exitCode \in {0, 1} /\ exitCode # 1 /\ saved \in Nat
        /\ split \in SUBSET {"header", "end"}
    BY DEF ResponseInit, Pcs
  <2>3. header = FALSE /\ lost = FALSE
    BY DEF ResponseInit
  <2> QED BY <2>1, <2>2, <2>3 DEF Phases
<1>3. HasEnd => 0 < HeaderEnd
  BY <1>2, ResponseTyped
<1> QED BY <1>2, <1>3 DEF ResponseInit, ResponseInv, Searching, Judged, Held

(* A step of the connection, before the first byte is received. *)
LEMMA ConnectionStep ==
  ASSUME ResponseInv, phase \notin {"recv", "done"}, UNCHANGED <<request, bodyVars>>,
         phase' \in Pcs, exitCode' \in {0, 1}, exitCode' = 1 => phase' = "done"
  PROVE  ResponseInv'
<1>1. ~header
  BY DEF ResponseInv, Phases
<1>2. Phases'
  BY <1>1 DEF ResponseInv, Phases, bodyVars
<1>3. Searching'
  BY <1>1 DEF ResponseInv, Searching, bodyVars, HasEnd, HeaderEnd
<1> QED BY <1>1, <1>2, <1>3 DEF ResponseInv, Judged, Held, bodyVars

(* The piece the header ends in. *)
LEMMA EndOfHeaderStep ==
  ASSUME ResponseInv, phase = "recv", UNCHANGED <<request, whole>>,
         NEW k \in 1..(whole - at),
         EndOfHeader(SubSeq(request.response, at + 1, at + k))
  PROVE  ResponseInv'
<1> DEFINE s == request.response
           buf == SubSeq(s, at + 1, at + k)
           i == FirstIn(EndsIn(buf))
           bytes == SubSeq(buf, i + 4, Len(buf))
<1>1. s \in Seq(Symbol) /\ Len(s) \in Nat /\ at \in Nat /\ k \in Nat /\ k \in 1..(Len(s) - at)
  BY ResponseTyped DEF ResponseInv, Phases
<1>2. buf \in Seq(Symbol) /\ Len(buf) = k /\ \A j \in 1..k : buf[j] = s[at + j]
  BY <1>1, PieceOf
<1>3. ~header /\ EndsIn(buf) # {} /\ at' = at + k /\ split' = split
  BY <1>2 DEF EndOfHeader, Received
<1>4. i \in 1..(k - 3)
  <2>1. EndsIn(buf) \in SUBSET Nat /\ i \in EndsIn(buf)
    BY <1>2, <1>3, EndsArePlaces, FirstInIsLeast
  <2> QED BY <1>1, <2>1, EndsInPiece
<1>5. at' \in 0..whole'
  BY <1>1, <1>3 DEF ResponseInv, Phases
<1>6. PICK given \in Codes(SubSeq(buf, 1, i)) :
        \/ /\ given \in Errors \/ ~request.creatable
           /\ Fail /\ UNCHANGED <<header, file, saved, lost>>
        \/ /\ given \notin Errors /\ request.creatable
           /\ header' = TRUE /\ UNCHANGED <<phase, exitCode>>
           /\ Save(bytes, << >>)
  BY DEF EndOfHeader
<1> HIDE DEF i, buf
<1>7. CASE Fail /\ UNCHANGED <<header, file, saved, lost>>
  BY <1>3, <1>5, <1>7 DEF Fail, Return, ResponseInv, Phases, Searching, Judged, Held, Pcs
<1>8. CASE /\ given \notin Errors
           /\ header' = TRUE /\ UNCHANGED <<phase, exitCode>> /\ Save(bytes, << >>)
  <2>1. /\ bytes \in Seq(Symbol) /\ Len(bytes) = k - i - 3
        /\ \A j \in 1..(k - i - 3) : bytes[j] = s[at + i + 3 + j]
    <3>1. i + 4 \in Int /\ k \in Int /\ \A j \in (i + 4)..k : buf[j] \in Symbol
      <4>1. \A j \in (i + 4)..k : j \in 1..k
        BY <1>1, <1>4
      <4> QED BY <1>1, <1>2, <1>4, <4>1, ElementOfSeq
    <3>2. /\ bytes \in Seq(Symbol)
          /\ Len(bytes) = IF i + 4 <= k THEN k - (i + 4) + 1 ELSE 0
          /\ \A j \in 1..(k - (i + 4) + 1) : bytes[j] = buf[(i + 4) + j - 1]
      <4>1. /\ SubSeq(buf, i + 4, k) \in Seq(Symbol)
            /\ Len(SubSeq(buf, i + 4, k)) = IF i + 4 <= k THEN k - (i + 4) + 1 ELSE 0
            /\ \A j \in 1..(k - (i + 4) + 1) : SubSeq(buf, i + 4, k)[j] = buf[(i + 4) + j - 1]
        BY <3>1, SubSeqProperties
      <4>2. bytes = SubSeq(buf, i + 4, k)
        BY <1>2
      <4> QED BY <4>1, <4>2
    <3>3. ASSUME NEW j \in 1..(k - i - 3) PROVE bytes[j] = s[at + i + 3 + j]
      <4>1. j \in 1..(k - (i + 4) + 1) /\ (i + 4) + j - 1 \in 1..k
            /\ at + ((i + 4) + j - 1) = at + i + 3 + j
        BY <1>1, <1>4
      <4>2. bytes[j] = buf[(i + 4) + j - 1]
        BY <3>2, <4>1, Zenon
      <4>3. buf[(i + 4) + j - 1] = s[at + ((i + 4) + j - 1)]
        BY <1>2, <4>1, Zenon
      <4> QED BY <4>1, <4>2, <4>3, Zenon
    <3>4. k - i - 3 = IF i + 4 <= k THEN k - (i + 4) + 1 ELSE 0
      BY <1>1, <1>4
    <3> HIDE DEF bytes
    <3> QED BY <3>2, <3>3, <3>4
  <2>2. PICK n \in 0..Len(bytes) :
          /\ file' = << >> \o SubSeq(bytes, 1, n)
          /\ lost' = (lost \/ n < Len(bytes))
          /\ saved' = saved + Len(bytes)
    BY <1>8 DEF Save
  <2>3. saved = 0 /\ saved' = Len(bytes) /\ saved' \in Nat /\ lost' \in BOOLEAN
    BY <1>1, <1>3, <1>4, <2>1, <2>2 DEF ResponseInv, Searching
  <2>4. Phases'
    BY <1>3, <1>5, <1>8, <2>3 DEF ResponseInv, Phases
  <2>5. Searching'
    BY <1>8 DEF Searching
  <2>6. Judged'
    <3>1. SUFFICES ASSUME split = {} PROVE s[1] \notin Errors
      BY <1>3 DEF Judged
    <3>2. at = 0
      BY <1>3, <3>1 DEF ResponseInv, Searching
    <3>3. SubSeq(buf, 1, i)[1] = buf[1] /\ buf[1] = s[1]
      <4>1. \A j \in 1..i : buf[j] \in Symbol
        <5>1. \A j \in 1..i : j \in 1..k
          BY <1>1, <1>4
        <5> QED BY <1>2, <5>1, ElementOfSeq
      <4>2. \A j \in 1..(i - 1 + 1) : SubSeq(buf, 1, i)[j] = buf[1 + j - 1]
        BY <1>1, <1>4, <4>1, SubSeqProperties
      <4>3. 1 \in 1..(i - 1 + 1) /\ 1 + 1 - 1 = 1 /\ 1 \in 1..k /\ at + 1 = 1
        BY <1>1, <1>4, <3>2
      <4>4. SubSeq(buf, 1, i)[1] = buf[1 + 1 - 1]
        BY <4>2, <4>3, Zenon
      <4>5. buf[1] = s[at + 1]
        BY <1>2, <4>3, Zenon
      <4> QED BY <4>3, <4>4, <4>5
    <3>4. given = SubSeq(buf, 1, i)[1]
      BY <3>2 DEF Codes
    <3> QED BY <1>8, <3>3, <3>4
  <2>7. Held'
    <3>1. SUFFICES ASSUME "end" \notin split
                   PROVE  /\ HasEnd /\ at' >= HeaderEnd + 3
                          /\ ~lost' =>
                               /\ file' \in Seq(Symbol) /\ Len(file') = at' - HeaderEnd - 3
                               /\ saved' = Len(file')
                               /\ \A j \in 1..Len(file') : file'[j] = s[HeaderEnd + 3 + j]
      BY <1>3 DEF Held, HasEnd, HeaderEnd
    <3>2. HasEnd => at < HeaderEnd
      BY <1>3, <3>1 DEF ResponseInv, Searching
    <3>3. HasEnd /\ at + i = HeaderEnd
      BY <1>1, <1>3, <3>2, FoundFirst DEF HasEnd, HeaderEnd, i, buf
    <3>4. at' >= HeaderEnd + 3
      BY <1>1, <1>3, <1>4, <3>3
    <3>5. ASSUME ~lost' PROVE file' = bytes
      <4>1. ~ (n < Len(bytes)) /\ << >> \in Seq(Symbol)
        BY <2>2, <3>5, EmptySeq
      <4>2. file' = << >> \o bytes
        BY <2>1, <2>2, <4>1, Written
      <4> QED BY <2>1, <4>2, ConcatEmptySeq
    <3>6. k - i - 3 = at' - HeaderEnd - 3
      BY <1>1, <1>3, <1>4, <3>3
    <3> QED BY <2>1, <2>3, <3>3, <3>4, <3>5, <3>6
  <2> QED BY <2>4, <2>5, <2>6, <2>7 DEF ResponseInv
<1> QED BY <1>6, <1>7, <1>8

(* A piece without the end of the header. *)
LEMMA InHeaderStep ==
  ASSUME ResponseInv, phase = "recv", UNCHANGED <<request, whole>>,
         NEW k \in 1..(whole - at),
         InHeader(SubSeq(request.response, at + 1, at + k))
  PROVE  ResponseInv'
<1> DEFINE s == request.response
           buf == SubSeq(s, at + 1, at + k)
<1>1. s \in Seq(Symbol) /\ Len(s) \in Nat /\ at \in Nat /\ k \in Nat /\ k \in 1..(Len(s) - at)
  BY ResponseTyped DEF ResponseInv, Phases
<1>2. Len(buf) = k
  BY <1>1, PieceOf
<1>3. /\ ~header /\ EndsIn(buf) = {} /\ at' = at + k
      /\ split' = split \cup {"header"}
                        \cup (IF HasEnd /\ at' \in HeaderEnd..(HeaderEnd + 2) THEN {"end"} ELSE {})
      /\ UNCHANGED <<phase, exitCode, header, file, saved, lost>>
  BY <1>2 DEF InHeader, Received
<1>4. Phases'
  <2>1. at' \in 0..whole' /\ split' \in SUBSET {"header", "end"}
    BY <1>1, <1>3 DEF ResponseInv, Phases
  <2> QED BY <1>3, <2>1 DEF ResponseInv, Phases
<1>5. ASSUME "end" \notin split', HasEnd PROVE at' < HeaderEnd
  <2>1. "end" \notin split /\ at' \notin HeaderEnd..(HeaderEnd + 2)
    BY <1>3, <1>5
  <2>2. at < HeaderEnd
    BY <1>3, <1>5, <2>1 DEF ResponseInv, Searching
  <2> QED BY <1>1, <1>3, <1>5, <2>1, <2>2, NotFound DEF HasEnd, HeaderEnd
<1>6. Searching'
  <2>1. split' # {}
    BY <1>3
  <2>2. HasEnd' = HasEnd /\ HeaderEnd' = HeaderEnd
    BY DEF HasEnd, HeaderEnd
  <2> QED BY <1>3, <1>5, <2>1, <2>2 DEF ResponseInv, Searching
<1> QED BY <1>3, <1>4, <1>6 DEF ResponseInv, Judged, Held

(* A piece of the body. *)
LEMMA InBodyStep ==
  ASSUME ResponseInv, phase = "recv", UNCHANGED <<request, whole>>,
         NEW k \in 1..(whole - at),
         InBody(SubSeq(request.response, at + 1, at + k))
  PROVE  ResponseInv'
<1> DEFINE s == request.response
           buf == SubSeq(s, at + 1, at + k)
<1>1. s \in Seq(Symbol) /\ Len(s) \in Nat /\ at \in Nat /\ k \in Nat /\ k \in 1..(Len(s) - at)
  BY ResponseTyped DEF ResponseInv, Phases
<1>2. buf \in Seq(Symbol) /\ Len(buf) = k /\ \A j \in 1..k : buf[j] = s[at + j]
  BY <1>1, PieceOf
<1>3. header /\ at' = at + k /\ UNCHANGED <<phase, exitCode, header, split>>
  BY <1>2 DEF InBody, Received
<1>4. PICK n \in 0..Len(buf) :
        /\ file' = file \o SubSeq(buf, 1, n)
        /\ lost' = (lost \/ n < Len(buf))
        /\ saved' = saved + Len(buf)
  BY DEF InBody, Save
<1> HIDE DEF buf
<1>5. Phases'
  <2>1. at' \in 0..whole' /\ saved' \in Nat /\ lost' \in BOOLEAN
    BY <1>1, <1>2, <1>3, <1>4 DEF ResponseInv, Phases
  <2> QED BY <1>3, <2>1 DEF ResponseInv, Phases
<1>6. Searching' /\ Judged'
  BY <1>3 DEF ResponseInv, Searching, Judged
<1>7. Held'
  <2>1. SUFFICES ASSUME "end" \notin split
                 PROVE  /\ HasEnd /\ at' >= HeaderEnd + 3
                        /\ ~lost' =>
                             /\ file' \in Seq(Symbol) /\ Len(file') = at' - HeaderEnd - 3
                             /\ saved' = Len(file')
                             /\ \A j \in 1..Len(file') : file'[j] = s[HeaderEnd + 3 + j]
    BY <1>3 DEF Held, HasEnd, HeaderEnd
  <2>2. HasEnd /\ HeaderEnd \in Nat /\ at >= HeaderEnd + 3
    BY <1>3, <2>1, ResponseTyped DEF ResponseInv, Held
  <2>3. at' >= HeaderEnd + 3
    BY <1>1, <1>3, <2>2
  <2>4. ASSUME ~lost'
        PROVE  /\ file' \in Seq(Symbol) /\ Len(file') = at' - HeaderEnd - 3
               /\ saved' = Len(file')
               /\ \A j \in 1..Len(file') : file'[j] = s[HeaderEnd + 3 + j]
    <3>1. /\ file \in Seq(Symbol) /\ Len(file) = at - HeaderEnd - 3 /\ saved = Len(file)
          /\ \A j \in 1..Len(file) : file[j] = s[HeaderEnd + 3 + j]
      BY <1>3, <1>4, <2>1, <2>4 DEF ResponseInv, Held
    <3>2. file' = file \o buf
      BY <1>2, <1>4, <2>4, <3>1, Written
    <3>3. /\ file' \in Seq(Symbol) /\ Len(file') = Len(file) + k
          /\ \A j \in 1..Len(file) + k :
               file'[j] = IF j <= Len(file) THEN file[j] ELSE buf[j - Len(file)]
      BY <1>2, <3>1, <3>2, ConcatProperties
    <3>4. Len(file) \in Nat /\ Len(file') = at' - HeaderEnd - 3 /\ saved' = Len(file')
      BY <1>1, <1>2, <1>3, <1>4, <2>2, <3>1, <3>3, LenProperties
    <3>5. ASSUME NEW j \in 1..Len(file') PROVE file'[j] = s[HeaderEnd + 3 + j]
      <4>1. CASE j <= Len(file)
        <5>1. j \in 1..Len(file) /\ j \in 1..Len(file) + k
          BY <1>2, <3>3, <3>4, <4>1
        <5>2. file'[j] = file[j]
          BY <3>3, <4>1, <5>1
        <5> QED BY <3>1, <5>1, <5>2
      <4>2. CASE ~ (j <= Len(file))
        <5>1. j - Len(file) \in 1..k /\ at + (j - Len(file)) = HeaderEnd + 3 + j
          <6> DEFINE l == Len(file)
          <6>1. at = HeaderEnd + 3 + l /\ l \in Nat /\ HeaderEnd \in Nat /\ at \in Nat /\ k \in Nat
            BY <1>1, <1>2, <2>2, <3>1, <3>4
          <6>2. j \in Int /\ 1 <= j /\ j <= l + k /\ ~ (j <= l)
            BY <3>3, <3>4, <4>2, <6>1
          <6> HIDE DEF l
          <6>3. j - l \in 1..k /\ at + (j - l) = HeaderEnd + 3 + j
            BY <6>1, <6>2
          <6> QED BY <6>3 DEF l
        <5> QED BY <1>2, <3>3, <4>2, <5>1
      <4> QED BY <4>1, <4>2
    <3> QED BY <3>3, <3>4, <3>5
  <2> QED BY <2>2, <2>3, <2>4
<1> QED BY <1>5, <1>6, <1>7 DEF ResponseInv

(* Every step keeps the invariant. *)
LEMMA ResponseNextInv == ResponseInv /\ [ResponseNext]_responseVars => ResponseInv'
<1> SUFFICES ASSUME ResponseInv, [ResponseNext]_responseVars PROVE ResponseInv'
  OBVIOUS
<1>0. phase \in Pcs /\ exitCode \in {0, 1} /\ (exitCode = 1 => phase = "done") /\ at \in Nat /\ whole \in Nat
  BY ResponseTyped DEF ResponseInv, Phases
<1>1. CASE ParseUrl
  BY <1>0, <1>1, ConnectionStep, Zenon DEF ParseUrl, Fail, Return, Pcs
<1>2. CASE Resolve
  BY <1>0, <1>2, ConnectionStep, Zenon DEF Resolve, Fail, Return, Pcs
<1>3. CASE DnsAnswer
  BY <1>0, <1>3, ConnectionStep, Zenon DEF DnsAnswer, Fail, Return, Pcs
<1>4. CASE DnsLost
  BY <1>0, <1>4, ConnectionStep, Zenon DEF DnsLost, Pcs
<1>5. CASE ConnectHost
  BY <1>0, <1>5, ConnectionStep, Zenon DEF ConnectHost, Fail, Return, Pcs
<1>6. CASE SendRequest
  BY <1>0, <1>6, ConnectionStep, Zenon DEF SendRequest, Fail, Return, Pcs
<1>7. CASE Sent
  BY <1>0, <1>7, ConnectionStep, Zenon DEF Sent, Pcs
<1>8. CASE Recv
  <2>1. PICK k \in 1..AtMost(RecvSize, whole - at) :
          LET buf == SubSeq(request.response, at + 1, at + k) IN
            EndOfHeader(buf) \/ InHeader(buf) \/ InBody(buf)
    BY <1>8 DEF Recv
  <2>2. k \in 1..(whole - at)
    BY <1>0, BufAssumption DEF AtMost
  <2>3. phase = "recv" /\ UNCHANGED <<request, whole>>
    BY <1>8 DEF Recv
  <2> QED BY <2>1, <2>2, <2>3, EndOfHeaderStep, InHeaderStep, InBodyStep
<1>9. CASE RecvEnds
  <2>1. Phases'
    BY <1>0, <1>9 DEF RecvEnds, Return, ResponseInv, Phases, bodyVars, Pcs
  <2>2. Searching' /\ Judged' /\ Held'
    BY <1>9 DEF RecvEnds, Return, ResponseInv, Searching, Judged, Held, HasEnd, HeaderEnd, bodyVars
  <2> QED BY <2>1, <2>2 DEF ResponseInv
<1>10. CASE UNCHANGED responseVars
  BY <1>10 DEF ResponseInv, Phases, Searching, Judged, Held, HasEnd, HeaderEnd, responseVars
<1> QED BY <1>1, <1>2, <1>3, <1>4, <1>5, <1>6, <1>7, <1>8, <1>9, <1>10 DEF ResponseNext

(* The file is the part of the body that was received, element by element, *)
(* and therefore the same sequence.                                        *)
LEMMA InvSaved == ResponseInv => BodySaved
<1> SUFFICES ASSUME ResponseInv, header, "end" \notin split, ~lost
             PROVE  /\ file = SubSeq(Body, 1, Len(file)) /\ saved = Len(file)
                    /\ phase = "done" /\ at = Len(request.response) => file = Body
  BY DEF BodySaved
<1> DEFINE s == request.response
           h == HeaderEnd
<1>1. /\ s \in Seq(Symbol) /\ Len(s) \in Nat /\ HasEnd /\ h \in Nat /\ at >= h + 3
      /\ at \in Nat /\ at <= Len(s)
  BY ResponseTyped DEF ResponseInv, Held, Phases
<1>2. /\ file \in Seq(Symbol) /\ Len(file) = at - h - 3 /\ saved = Len(file)
      /\ \A i \in 1..Len(file) : file[i] = s[h + 3 + i]
  BY DEF ResponseInv, Held
<1>3. /\ Body \in Seq(Symbol) /\ Len(Body) = Len(s) - h - 3
      /\ \A i \in 1..(Len(s) - h - 3) : Body[i] = s[h + 3 + i]
  <2>1. /\ h + 4 \in Int /\ Len(s) \in Int
        /\ \A i \in (h + 4)..Len(s) : i \in 1..Len(s) /\ s[i] \in Symbol
    BY <1>1, ElementOfSeq
  <2>2. /\ Body \in Seq(Symbol)
        /\ Len(Body) = IF h + 4 <= Len(s) THEN Len(s) - (h + 4) + 1 ELSE 0
        /\ \A i \in 1..(Len(s) - (h + 4) + 1) : Body[i] = s[(h + 4) + i - 1]
    <3>1. Body = SubSeq(s, h + 4, Len(s))
      BY DEF Body
    <3> HIDE DEF s, h
    <3>2. /\ SubSeq(s, h + 4, Len(s)) \in Seq(Symbol)
          /\ Len(SubSeq(s, h + 4, Len(s))) = IF h + 4 <= Len(s) THEN Len(s) - (h + 4) + 1 ELSE 0
          /\ \A i \in 1..(Len(s) - (h + 4) + 1) :
               SubSeq(s, h + 4, Len(s))[i] = s[(h + 4) + i - 1]
      BY <2>1, SubSeqProperties
    <3> QED BY <3>1, <3>2
  <2>3. Len(s) - (h + 4) + 1 = Len(s) - h - 3 /\ \A i \in Int : (h + 4) + i - 1 = h + 3 + i
    BY <1>1
  <2> HIDE DEF s, h
  <2>4. Len(Body) = Len(s) - h - 3
    BY <1>1, <2>2
  <2>5. ASSUME NEW i \in 1..(Len(s) - h - 3) PROVE Body[i] = s[h + 3 + i]
    <3>1. i \in 1..(Len(s) - (h + 4) + 1) /\ (h + 4) + i - 1 = h + 3 + i
      BY <1>1
    <3>2. Body[i] = s[(h + 4) + i - 1]
      BY <2>2, <3>1, Zenon
    <3> QED BY <3>1, <3>2
  <2> QED BY <2>2, <2>4, <2>5
<1>4. Len(file) \in Nat /\ Len(file) <= Len(Body)
  BY <1>1, <1>2, <1>3
<1>5. file = SubSeq(Body, 1, Len(file))
  <2>1. \A i \in 1..Len(file) : i \in 1..Len(Body) /\ Body[i] \in Symbol
    BY <1>3, <1>4, ElementOfSeq
  <2>2. /\ SubSeq(Body, 1, Len(file)) \in Seq(Symbol)
        /\ Len(SubSeq(Body, 1, Len(file))) = IF 1 <= Len(file) THEN Len(file) - 1 + 1 ELSE 0
        /\ \A i \in 1..(Len(file) - 1 + 1) : SubSeq(Body, 1, Len(file))[i] = Body[1 + i - 1]
    BY <1>4, <2>1, SubSeqProperties
  <2>3. Len(SubSeq(Body, 1, Len(file))) = Len(file)
    BY <1>4, <2>2
  <2>4. ASSUME NEW i \in 1..Len(file) PROVE file[i] = SubSeq(Body, 1, Len(file))[i]
    <3>1. i \in 1..(Len(file) - 1 + 1) /\ 1 + i - 1 = i /\ i \in 1..(Len(s) - h - 3)
      BY <1>1, <1>2, <1>4
    <3> QED BY <1>2, <1>3, <2>2, <3>1
  <2> QED BY <1>2, <2>2, <2>3, <2>4, SeqEqual
<1>6. ASSUME at = Len(s) PROVE file = Body
  <2>1. Len(file) = Len(Body)
    BY <1>2, <1>3, <1>6
  <2> QED BY <1>3, <1>5, <2>1, SubSeqFull
<1> QED BY <1>2, <1>5, <1>6

(* The invariant holds in every state. *)
THEOREM ResponseInvariant == ResponseSpec => []ResponseInv
BY ResponseInitInv, ResponseNextInv, PTL DEF ResponseSpec

(* What wget saves of a response whose end of the header came in one piece *)
(* is its body (wget.c:331-392), however recv cuts it.                     *)
THEOREM SavesTheBody == ResponseSpec => []BodySaved
BY InvSaved, ResponseInvariant, PTL

(* No failure before the header was read touches the file that was there   *)
(* (wget.c:354-375 creates it only then), and no error page is a success   *)
(* when its header came in one piece.                                      *)
THEOREM KeepsTheFile == ResponseSpec => []FailureKeepsFile
<1>1. ResponseInv => FailureKeepsFile
  BY DEF ResponseInv, Phases, Searching, Judged, FailureKeepsFile
<1> QED BY <1>1, ResponseInvariant, PTL

-----------------------------------------------------------------------------

Identity == [uid : Int, gid : Int]

SudoTypeOK ==
  /\ call \in Calls /\ conf \in Confs /\ passwd \in Passwds
  /\ hadConf \in SUBSET Confs /\ hadPasswd \in SUBSET Passwds
  /\ stage \in {"options", "authorize", "nopasswd", "prompt", "answer", "command", "environment",
                "group", "setgroups", "setgid", "setuid", "exec", "done"}
  /\ status \in {0, 1} /\ target \in Identity /\ echo \in BOOLEAN /\ answered \in {0, 1}
  /\ user \in Seq(Letter \cup {"r"}) /\ groups \in BOOLEAN /\ ids \in Identity
  /\ executed \in BOOLEAN /\ denied \in BOOLEAN /\ refused \in BOOLEAN
  /\ killed \in {"no", "options", "authorize", "nopasswd", "prompt", "answer", "command",
                 "environment", "group", "setgroups", "setgid", "setuid", "exec"}

(* The files as they are are among those they have been. *)
Remembered == conf \in hadConf /\ passwd \in hadPasswd

(* The stages behind each of the two questions. *)
Allowed == stage \notin {"options", "authorize", "done"} \/ executed
Admitted == stage \in {"command", "environment", "group", "setgroups", "setgid", "setuid", "exec"}
            \/ executed

(* What was answered remains the answer of files that there have been; a   *)
(* refusal is the last thing that happens.                                 *)
Decided ==
  /\ Allowed => Granted(FALSE)
  /\ Admitted => answered > 0 \/ Granted(TRUE)
  /\ denied => /\ stage = "done" /\ call.caller # 0
               /\ hadConf = {conf} /\ hadPasswd = {passwd} =>
                    ~\E i \in Entries(conf) :
                       NameOf(call.caller) # << >> /\ conf[i].word = NameOf(call.caller)

(* The identity is put together from answers to three questions. *)
Known == stage \notin {"options", "done"} \/ executed
Named == stage \in {"group", "setgroups", "setgid", "setuid", "exec"} \/ executed
Whose ==
  /\ call.user = << >> => target = [uid |-> 0, gid |-> 0]
  /\ call.user # << >> /\ Known => \E p \in hadPasswd : IsNamed(p, target.uid, call.user)
  /\ Named => IF target.uid = 0 THEN user = Root
              ELSE user # << >> => \E p \in hadPasswd : IsNamed(p, target.uid, user)
  /\ stage = "options" => target.gid = 0
  /\ target.gid # 0 => \E p \in hadPasswd : HasGroup(p, target.uid, target.gid)
  /\ stage \in {"setuid", "exec"} \/ executed => ids.gid = target.gid
  /\ stage = "exec" \/ executed => ids.uid = target.uid

(* The end, where echo is on unless a signal came at the prompt; and the   *)
(* groups, which go while sudo is still the super-user's.                  *)
Ending ==
  /\ stage # "answer" /\ killed # "answer" => echo
  /\ stage = "done" /\ ~executed /\ killed = "no" => status = 1
  /\ executed => stage = "done"
  /\ stage # "done" => killed = "no"
  /\ stage \notin {"exec", "done"} => ids.uid = 0
  /\ stage \in {"setgid", "setuid", "exec"} \/ executed => (groups => refused)

IInv == SudoTypeOK /\ Remembered /\ Decided /\ Whose /\ Ending

(* The places of entries are places of lines. *)
LEMMA EntriesAre ==
  ASSUME NEW text, NEW i \in Entries(text)
  PROVE  text # Absent /\ i \in 1..Len(text) /\ text[i].kind = "entry"
BY DEF Entries

LEMMA PasswdTyped ==
  ASSUME passwd \in Passwds
  PROVE  /\ Entries(passwd) \in SUBSET Nat
         /\ \A i \in Entries(passwd) : passwd[i] \in PasswdLine
<1>1. ASSUME NEW i \in Entries(passwd) PROVE i \in Nat /\ passwd[i] \in PasswdLine
  <2>1. passwd # Absent /\ i \in 1..Len(passwd)
    BY EntriesAre
  <2>2. passwd \in Seq(PasswdLine)
    BY <2>1, ConfsAssumption
  <2> QED BY <2>1, <2>2
<1> QED BY <1>1

(* The first line that fits is one of them. *)
LEMMA FirstOfFits ==
  ASSUME NEW fit \in SUBSET Nat, fit # {}
  PROVE  \E i \in fit : FirstOf(fit) = passwd[i]
<1> DEFINE Q(i) == \A j \in fit : i <= j
<1>1. \E i \in fit : Q(i)
  BY Minimum
<1>2. (CHOOSE i \in fit : Q(i)) \in fit
  <2> HIDE DEF Q
  <2> QED BY <1>1, Zenon
<1>3. FirstOf(fit) = passwd[CHOOSE i \in fit : Q(i)]
  BY DEF FirstOf
<1> HIDE DEF Q
<1> QED BY <1>2, <1>3

(* A lookup gives a line of the file that has what was looked for.         *)
LEMMA LookedUp ==
  ASSUME passwd \in Passwds, NEW uid, NEW name
  PROVE  /\ ByUid(uid) # Nobody => \E i \in Entries(passwd) :
              passwd[i].uid = uid /\ ByUid(uid) = passwd[i]
         /\ ByName(name) # Nobody => \E i \in Entries(passwd) :
              passwd[i].name = name /\ ByName(name) = passwd[i]
         /\ ByUid(uid) \in PasswdLine /\ ByName(name) \in PasswdLine
<1>0. Nobody \in PasswdLine /\ FirstOf({}) = Nobody
  BY DEF Nobody, PasswdLine, FirstOf
<1>1. ASSUME NEW fit \in SUBSET Entries(passwd)
      PROVE  \/ FirstOf(fit) = Nobody
             \/ \E i \in fit : FirstOf(fit) = passwd[i] /\ passwd[i] \in PasswdLine
  <2>1. CASE fit = {}
    BY <1>0, <2>1
  <2>2. CASE fit # {}
    <3>1. fit \in SUBSET Nat
      BY PasswdTyped
    <3>2. PICK i \in fit : FirstOf(fit) = passwd[i]
      BY <2>2, <3>1, FirstOfFits
    <3> QED BY <3>2, PasswdTyped
  <2> QED BY <2>1, <2>2
<1> DEFINE U == {i \in Entries(passwd) : passwd[i].uid = uid}
           M == {i \in Entries(passwd) : passwd[i].name = name}
<1>2. FirstOf(U) = Nobody \/ \E i \in U : FirstOf(U) = passwd[i] /\ passwd[i] \in PasswdLine
  BY <1>1
<1>3. FirstOf(M) = Nobody \/ \E i \in M : FirstOf(M) = passwd[i] /\ passwd[i] \in PasswdLine
  BY <1>1
<1> QED BY <1>0, <1>2, <1>3 DEF ByUid, ByName

(* Who has a name is named by the file. *)
LEMMA NameIsThere ==
  ASSUME passwd \in Passwds, NEW uid, ByUid(uid).name # << >>
  PROVE  \E i \in 1..Len(passwd) : /\ passwd # Absent /\ passwd[i].kind = "entry"
                                   /\ passwd[i].uid = uid /\ passwd[i].name = ByUid(uid).name
<1>1. ByUid(uid) # Nobody
  BY DEF Nobody
<1>2. PICK i \in Entries(passwd) : passwd[i].uid = uid /\ ByUid(uid) = passwd[i]
  BY <1>1, LookedUp
<1> QED BY <1>2, EntriesAre

(* What was granted stays granted. *)
LEMMA GrantedStays ==
  ASSUME call' = call, hadConf \subseteq hadConf', hadPasswd \subseteq hadPasswd', NEW b,
         Granted(b)
  PROVE  Granted(b)'
BY DEF Granted, NamesCaller, Names

(* The decision of is_user_authorized is one the files give. *)
LEMMA AuthorizedIsGranted ==
  ASSUME passwd \in Passwds, Remembered, IsUserAuthorized(call.caller)
  PROVE  Granted(FALSE)
<1> USE DEF Granted
<1>1. CASE call.caller = 0
  BY <1>1
<1>2. CASE call.caller # 0
  <2>1. PICK i \in Entries(conf) : Allows(conf[i], NameOf(call.caller))
    BY <1>2 DEF IsUserAuthorized
  <2>2. NameOf(call.caller) # << >>
    BY <1>2 DEF IsUserAuthorized
  <2>3. conf # Absent /\ i \in 1..Len(conf) /\ conf[i].kind = "entry"
    BY EntriesAre
  <2>4. CASE conf[i].word = All
    BY <2>3, <2>4 DEF Names, Remembered
  <2>5. CASE conf[i].word = NameOf(call.caller)
    <3>1. PICK k \in 1..Len(passwd) :
            /\ passwd # Absent /\ passwd[k].kind = "entry"
            /\ passwd[k].uid = call.caller /\ passwd[k].name = NameOf(call.caller)
      BY <2>2, NameIsThere DEF NameOf
    <3>2. Names(conf, passwd[k].name, FALSE)
      BY <2>3, <2>5, <3>1 DEF Names
    <3>3. NamesCaller(conf, passwd, FALSE)
      BY <3>1, <3>2 DEF NamesCaller
    <3> QED BY <3>3 DEF Remembered
  <2> QED BY <2>1, <2>4, <2>5 DEF Allows
<1> QED BY <1>1, <1>2

(* And so is that of check_nopasswd. *)
LEMMA NoPasswdIsGranted ==
  ASSUME passwd \in Passwds, Remembered, CheckNopasswd(call.caller)
  PROVE  Granted(TRUE)
<1> USE DEF Granted
<1>1. PICK i \in Entries(conf) : conf[i].word \in {All, NameOf(call.caller)} /\ conf[i].rest = "NOPASSWD"
  BY DEF CheckNopasswd
<1>2. NameOf(call.caller) # << >>
  BY DEF CheckNopasswd
<1>3. conf # Absent /\ i \in 1..Len(conf) /\ conf[i].kind = "entry"
  BY EntriesAre
<1>4. CASE conf[i].word = All
  BY <1>1, <1>3, <1>4 DEF Names, Remembered
<1>5. CASE conf[i].word = NameOf(call.caller)
  <2>1. PICK k \in 1..Len(passwd) :
          /\ passwd # Absent /\ passwd[k].kind = "entry"
          /\ passwd[k].uid = call.caller /\ passwd[k].name = NameOf(call.caller)
    BY <1>2, NameIsThere DEF NameOf
  <2>2. Names(conf, passwd[k].name, TRUE)
    BY <1>1, <1>3, <1>5, <2>1 DEF Names
  <2>3. NamesCaller(conf, passwd, TRUE)
    BY <2>1, <2>2 DEF NamesCaller
  <2> QED BY <2>3 DEF Remembered
<1> QED BY <1>1, <1>4, <1>5
-------------------------------------------------------------------------------
LEMMA SudoStart == SudoInit => IInv
<1> SUFFICES ASSUME SudoInit PROVE IInv
  OBVIOUS
<1> USE DEF SudoInit
<1>1. call.caller \in Int
  <2>1. \A c \in Calls : c.caller \in Int
    BY CallsAssumption
  <2>2. call \in Calls
    OBVIOUS
  <2> QED BY <2>1, <2>2
<1>2. SudoTypeOK
  <2>1. hadConf \in SUBSET Confs /\ hadPasswd \in SUBSET Passwds
    OBVIOUS
  <2>2. target \in Identity /\ ids \in Identity /\ user \in Seq(Letter \cup {"r"})
    BY <1>1 DEF Identity
  <2>3. echo \in BOOLEAN /\ groups \in BOOLEAN /\ executed \in BOOLEAN /\ denied \in BOOLEAN
        /\ refused \in BOOLEAN
    BY Zenon
  <2>4. status \in {0, 1} /\ answered \in {0, 1} /\ stage = "options" /\ killed = "no"
    OBVIOUS
  <2> QED BY <2>1, <2>2, <2>3, <2>4 DEF SudoTypeOK
<1>3. Remembered /\ Decided /\ Whose /\ Ending
  BY DEF Remembered, Decided, Allowed, Admitted, Whose, Known, Named, Ending
<1> QED BY <1>2, <1>3 DEF IInv

(* A step that leaves the files alone leaves what they say alone.          *)
LEMMA Unchanged ==
  ASSUME UNCHANGED <<call, conf, passwd, hadConf, hadPasswd>>
  PROVE  /\ Granted(FALSE)' = Granted(FALSE) /\ Granted(TRUE)' = Granted(TRUE)
         /\ NameOf(call.caller)' = NameOf(call.caller) /\ Entries(conf)' = Entries(conf)
         /\ Remembered' = Remembered
BY DEF Granted, NamesCaller, Names, Remembered, NameOf, ByUid, FirstOf, Entries

(* The options: the target is root or the user named. *)
LEMMA OptionsStep == IInv /\ Options => IInv'
<1> SUFFICES ASSUME IInv, Options PROVE IInv'
  OBVIOUS
<1>0. SudoTypeOK /\ Remembered /\ Decided /\ Whose /\ Ending
  BY DEF IInv
<1>1. /\ UNCHANGED <<call, conf, passwd, hadConf, hadPasswd, denied, echo, answered, user, groups,
                     refused, ids, executed, killed>>
      /\ stage = "options" /\ passwd \in Passwds
  BY <1>0 DEF Options, fileVars, idVars, SudoTypeOK
<1>2. \/ stage' = "done" /\ status' = 1 /\ target' = target
      \/ /\ stage' = "authorize" /\ status' = status
         /\ call.user # << >> => ByName(call.user) # Nobody
         /\ target' = [target EXCEPT !.uid = IF call.user = << >> THEN 0 ELSE ByName(call.user).uid]
  BY DEF Options, Quit, On
<1>3. ByName(call.user) \in PasswdLine
  BY <1>1, LookedUp
<1>4. target \in Identity /\ target' \in Identity
  BY <1>0, <1>2, <1>3 DEF SudoTypeOK, Identity, PasswdLine
<1>5. SudoTypeOK'
  BY <1>0, <1>1, <1>2, <1>4 DEF SudoTypeOK
<1>6. Decided' /\ Remembered'
  BY <1>0, <1>1, <1>2, Unchanged DEF Decided, Allowed, Admitted, Remembered, Ending
<1>7. Whose'
  <2>1. target'.gid = target.gid /\ target.gid = 0
    BY <1>0, <1>1, <1>2, <1>4 DEF Whose, Identity
  <2>2. ~executed /\ ~executed'
    BY <1>0, <1>1 DEF Ending
  <2>3. call.user = << >> => target' = [uid |-> 0, gid |-> 0]
    BY <1>0, <1>2, <1>4, <2>1 DEF Whose, Identity
  <2>4. ASSUME call.user # << >>, stage' = "authorize"
        PROVE  \E p \in hadPasswd : IsNamed(p, target'.uid, call.user)
    <3>1. ByName(call.user) # Nobody /\ target'.uid = ByName(call.user).uid
      BY <1>2, <1>4, <2>4 DEF Identity
    <3>2. PICK i \in Entries(passwd) : passwd[i].name = call.user /\ ByName(call.user) = passwd[i]
      BY <1>1, <3>1, LookedUp
    <3>3. IsNamed(passwd, target'.uid, call.user)
      BY <3>1, <3>2, EntriesAre DEF IsNamed
    <3> QED BY <1>0, <3>3 DEF Remembered
  <2>5. stage' = "authorize" \/ stage' = "done"
    BY <1>2
  <2> QED BY <1>1, <2>1, <2>2, <2>3, <2>4, <2>5 DEF Whose, Known, Named, IsNamed, HasGroup
<1>8. Ending'
  BY <1>0, <1>1, <1>2 DEF Ending
<1> QED BY <1>5, <1>6, <1>7, <1>8 DEF IInv

(* is_user_authorized. *)
LEMMA AuthorizeStep == IInv /\ Authorize => IInv'
<1> SUFFICES ASSUME IInv, Authorize PROVE IInv'
  OBVIOUS
<1>0. SudoTypeOK /\ Remembered /\ Decided /\ Whose /\ Ending
  BY DEF IInv
<1>1. /\ UNCHANGED <<call, conf, passwd, hadConf, hadPasswd, target, echo, answered, user, groups,
                     refused, ids, executed, killed>>
      /\ stage = "authorize" /\ passwd \in Passwds
  BY <1>0 DEF Authorize, fileVars, idVars, SudoTypeOK
<1>2. /\ denied' = ~IsUserAuthorized(call.caller)
      /\ IF denied' THEN stage' = "done" /\ status' = 1 ELSE stage' = "nopasswd" /\ status' = status
  BY DEF Authorize, Quit, On
<1>3. ~executed
  BY <1>0, <1>1 DEF Ending
<1>4. SudoTypeOK'
  <2>1. denied' \in BOOLEAN
    BY <1>2, Zenon DEF IsUserAuthorized
  <2> QED BY <1>0, <1>1, <1>2, <2>1 DEF SudoTypeOK
<1>5. Decided'
  <2>1. ~denied' => Granted(FALSE)
    BY <1>0, <1>1, <1>2, AuthorizedIsGranted
  <2>2. denied' => call.caller # 0 /\ ~\E i \in Entries(conf) :
                     NameOf(call.caller) # << >> /\ conf[i].word = NameOf(call.caller)
    BY <1>2 DEF IsUserAuthorized, Allows
  <2> QED BY <1>1, <1>2, <1>3, <2>1, <2>2, Unchanged DEF Decided, Allowed, Admitted
<1>6. Whose'
  BY <1>0, <1>1, <1>2, <1>3 DEF Whose, Known, Named, IsNamed, HasGroup
<1>7. Remembered' /\ Ending'
  BY <1>0, <1>1, <1>2, <1>3 DEF Remembered, Ending
<1> QED BY <1>4, <1>5, <1>6, <1>7 DEF IInv

(* check_nopasswd. *)
LEMMA NoPasswdStep == IInv /\ NoPasswd => IInv'
<1> SUFFICES ASSUME IInv, NoPasswd PROVE IInv'
  OBVIOUS
<1>0. SudoTypeOK /\ Remembered /\ Decided /\ Whose /\ Ending
  BY DEF IInv
<1>1. /\ UNCHANGED <<call, conf, passwd, hadConf, hadPasswd, denied, target, echo, answered, user,
                     groups, refused, ids, executed, killed, status>>
      /\ stage = "nopasswd" /\ passwd \in Passwds
      /\ \/ stage' = "prompt"
         \/ stage' = "command" /\ (call.caller = 0 \/ CheckNopasswd(call.caller))
  BY <1>0 DEF NoPasswd, On, fileVars, idVars, SudoTypeOK
<1>2. ~executed /\ Granted(FALSE) /\ ~denied
  BY <1>0, <1>1 DEF Ending, Decided, Allowed
<1>3. SudoTypeOK'
  BY <1>0, <1>1 DEF SudoTypeOK
<1>4. Decided'
  <2>1. stage' = "command" => Granted(TRUE)
    BY <1>0, <1>1, NoPasswdIsGranted DEF Granted
  <2> QED BY <1>1, <1>2, <2>1, Unchanged DEF Decided, Allowed, Admitted
<1>5. Whose'
  BY <1>0, <1>1, <1>2 DEF Whose, Known, Named, IsNamed, HasGroup
<1>6. Remembered' /\ Ending'
  BY <1>0, <1>1, <1>2 DEF Remembered, Ending
<1> QED BY <1>3, <1>4, <1>5, <1>6 DEF IInv

(* The prompt, and the command that is looked for. *)
LEMMA PromptStep == IInv /\ (Prompt \/ Answer \/ Command) => IInv'
<1> SUFFICES ASSUME IInv, Prompt \/ Answer \/ Command PROVE IInv'
  OBVIOUS
<1>0. SudoTypeOK /\ Remembered /\ Decided /\ Whose /\ Ending
  BY DEF IInv
<1>1. /\ UNCHANGED <<call, conf, passwd, hadConf, hadPasswd, denied, target, user, groups, refused,
                     ids, executed, killed>>
      /\ stage \in {"prompt", "answer", "command"}
  BY DEF Prompt, Answer, Command, fileVars, idVars
<1>2. ~executed /\ Granted(FALSE) /\ ~denied
  BY <1>0, <1>1 DEF Ending, Decided, Allowed
<1>3. /\ stage' \in {"answer", "command", "environment", "done"} /\ status' \in {0, 1}
      /\ answered' \in {0, 1} /\ echo' \in BOOLEAN /\ (stage' # "answer" => echo')
      /\ stage' = "done" => status' = 1
      /\ stage' \in {"command", "environment"} => answered' > 0 \/ Granted(TRUE)
  <2>1. CASE Prompt
    <3>1. answered' \in {0, 1} /\ stage = "prompt" /\ echo = TRUE
      BY <1>0, <2>1 DEF Prompt, SudoTypeOK, Ending
    <3>2. CASE On("answer") /\ echo' = FALSE
      BY <1>0, <3>1, <3>2 DEF On, SudoTypeOK
    <3>3. CASE Quit /\ echo' = echo
      BY <1>0, <3>1, <3>3 DEF Quit
    <3> QED BY <2>1, <3>2, <3>3 DEF Prompt
  <2>2. CASE Answer
    <3>1. echo' = TRUE /\ answered' \in {0, 1}
      BY <2>2 DEF Answer
    <3>2. echo' \in BOOLEAN /\ echo'
      BY <3>1, Zenon
    <3>3. \/ answered' = 0 /\ stage' = "done" /\ status' = 1
          \/ answered' = 1 /\ stage' = "command" /\ status' \in {0, 1}
      BY <1>0, <2>2, <3>1 DEF Answer, On, Quit, SudoTypeOK
    <3>4. stage' \in {"command", "done"} /\ status' \in {0, 1}
      BY <3>3
    <3>5. stage' = "done" => status' = 1
      BY <3>3
    <3>6. stage' \in {"command", "environment"} => answered' > 0
      BY <3>3
    <3> QED BY <3>1, <3>2, <3>4, <3>5, <3>6
  <2>3. CASE Command
    BY <1>0, <2>3 DEF Command, On, Quit, SudoTypeOK, Ending, Decided, Admitted
  <2> QED BY <2>1, <2>2, <2>3
<1>4. SudoTypeOK'
  BY <1>0, <1>1, <1>3 DEF SudoTypeOK
<1>5. Decided'
  BY <1>1, <1>2, <1>3, Unchanged DEF Decided, Allowed, Admitted
<1>6. Whose'
  BY <1>0, <1>1, <1>2, <1>3 DEF Whose, Known, Named, IsNamed, HasGroup
<1>7. Remembered' /\ Ending'
  BY <1>0, <1>1, <1>2, <1>3 DEF Remembered, Ending
<1> QED BY <1>4, <1>5, <1>6, <1>7 DEF IInv

(* The name of the environment and the group, each looked up once more.    *)
LEMMA LookupStep == IInv /\ (BuildEnv \/ Group) => IInv'
<1> SUFFICES ASSUME IInv, BuildEnv \/ Group PROVE IInv'
  OBVIOUS
<1>0. SudoTypeOK /\ Remembered /\ Decided /\ Whose /\ Ending
  BY DEF IInv
<1>1. /\ UNCHANGED <<call, conf, passwd, hadConf, hadPasswd, denied, echo, answered, groups,
                     refused, ids, executed, killed, status>>
      /\ stage \in {"environment", "group"} /\ stage' \in {"group", "setgroups"}
      /\ passwd \in Passwds /\ target \in Identity
  BY <1>0 DEF BuildEnv, Group, On, fileVars, idVars, SudoTypeOK
<1>2. /\ ~executed /\ Granted(FALSE) /\ ~denied /\ (answered > 0 \/ Granted(TRUE))
      /\ call.user # << >> => \E p \in hadPasswd : IsNamed(p, target.uid, call.user)
  BY <1>0, <1>1 DEF Ending, Decided, Allowed, Admitted, Whose, Known
<1>3. Decided'
  BY <1>1, <1>2, Unchanged DEF Decided, Allowed, Admitted
<1>4. Remembered' /\ Ending'
  BY <1>0, <1>1, <1>2 DEF Remembered, Ending
<1>5. ByUid(target.uid) \in PasswdLine
  BY <1>1, LookedUp
<1>6. CASE BuildEnv
  <2>1. /\ target' = target /\ stage' = "group"
        /\ user' = IF target.uid = 0 THEN Root ELSE ByUid(target.uid).name
    BY <1>6 DEF BuildEnv, On
  <2>2. SudoTypeOK'
    <3>1. user' \in Seq(Letter \cup {"r"})
      <4>1. Root \in Seq(Letter \cup {"r"})
        BY DEF Root
      <4>2. ByUid(target.uid).name \in Seq(Letter \cup {"r"})
        BY <1>5 DEF PasswdLine
      <4> QED BY <2>1, <4>1, <4>2
    <3> QED BY <1>0, <1>1, <2>1, <3>1 DEF SudoTypeOK
  <2>3. Whose'
    <3>1. ASSUME target.uid # 0, user' # << >>
          PROVE  \E p \in hadPasswd : IsNamed(p, target.uid, user')
      <4>1. user' = ByUid(target.uid).name
        BY <2>1, <3>1
      <4>2. IsNamed(passwd, target.uid, user')
        BY <1>1, <3>1, <4>1, NameIsThere DEF IsNamed
      <4> QED BY <1>0, <4>2 DEF Remembered
    <3> QED BY <1>0, <1>1, <1>2, <2>1, <3>1 DEF Whose, Known, Named, IsNamed, HasGroup
  <2> QED BY <1>3, <1>4, <2>2, <2>3 DEF IInv
<1>7. CASE Group
  <2>1. /\ user' = user /\ stage = "group" /\ stage' = "setgroups"
        /\ target' = [target EXCEPT !.gid = IF target.uid = 0 THEN 0 ELSE ByUid(target.uid).gid]
    BY <1>7 DEF Group, On, idVars
  <2>2. target' \in Identity /\ target'.uid = target.uid
        /\ target'.gid = IF target.uid = 0 THEN 0 ELSE ByUid(target.uid).gid
    BY <1>1, <1>5, <2>1 DEF Identity, PasswdLine
  <2>3. SudoTypeOK'
    BY <1>0, <1>1, <2>1, <2>2 DEF SudoTypeOK
  <2>4. Whose'
    <3>1. ASSUME target'.gid # 0 PROVE \E p \in hadPasswd : HasGroup(p, target.uid, target'.gid)
      <4>1. target'.gid = ByUid(target.uid).gid /\ ByUid(target.uid) # Nobody
        BY <2>2, <3>1 DEF Nobody
      <4>2. PICK i \in Entries(passwd) :
              passwd[i].uid = target.uid /\ ByUid(target.uid) = passwd[i]
        BY <1>1, <4>1, LookedUp
      <4>3. HasGroup(passwd, target.uid, target'.gid)
        BY <4>1, <4>2, EntriesAre DEF HasGroup
      <4> QED BY <1>0, <4>3 DEF Remembered
    <3>2. call.user = << >> => target' = [uid |-> 0, gid |-> 0]
      BY <1>0, <2>1 DEF Whose
    <3>3. IF target.uid = 0 THEN user = Root
          ELSE user # << >> => \E p \in hadPasswd : IsNamed(p, target.uid, user)
      BY <1>0, <2>1 DEF Whose, Named
    <3> QED BY <1>1, <1>2, <2>1, <2>2, <3>1, <3>2, <3>3 DEF Whose, Known, Named, IsNamed, HasGroup
  <2> QED BY <1>3, <1>4, <2>3, <2>4 DEF IInv
<1> QED BY <1>6, <1>7

(* The change of identity, and the command. *)
LEMMA BecomeStep == IInv /\ (SetGroups \/ SetGid \/ SetUid \/ Exec) => IInv'
<1> SUFFICES ASSUME IInv, SetGroups \/ SetGid \/ SetUid \/ Exec PROVE IInv'
  OBVIOUS
<1>0. SudoTypeOK /\ Remembered /\ Decided /\ Whose /\ Ending
  BY DEF IInv
<1>1. /\ UNCHANGED <<call, conf, passwd, hadConf, hadPasswd, denied, target, echo, answered, user>>
      /\ stage \in {"setgroups", "setgid", "setuid", "exec"} /\ killed' = killed
      /\ ids \in Identity /\ target \in Identity
  BY <1>0 DEF SetGroups, SetGid, SetUid, Exec, fileVars, SudoTypeOK
<1>2. /\ ~executed /\ Granted(FALSE) /\ ~denied /\ (answered > 0 \/ Granted(TRUE)) /\ echo
      /\ killed = "no"
  BY <1>0, <1>1 DEF Ending, Decided, Allowed, Admitted
<1>3. /\ stage' \in {"setgid", "setuid", "exec", "done"} /\ status' \in {0, 1}
      /\ groups' \in BOOLEAN /\ refused' \in BOOLEAN /\ ids' \in Identity /\ executed' \in BOOLEAN
      /\ stage' \notin {"exec", "done"} => ids'.uid = 0
      /\ stage' \in {"setgid", "setuid", "exec"} \/ executed' => (groups' => refused')
      /\ stage' = "done" /\ ~executed' => status' = 1
      /\ executed' => stage' = "done"
      /\ stage' \in {"setuid", "exec"} \/ executed' => ids'.gid = target.gid
      /\ stage' = "exec" \/ executed' => ids'.uid = target.uid
  <2>1. CASE SetGroups
    <3>1. ids.uid = 0 /\ stage' = "setgid" /\ status' = status /\ ids' = ids /\ executed' = executed
      BY <1>0, <2>1 DEF SetGroups, On, Ending
    <3>2. groups' \in BOOLEAN /\ refused' \in BOOLEAN /\ (groups' => refused')
      BY <1>0, <2>1, <3>1, Zenon DEF SetGroups, SudoTypeOK
    <3> QED BY <1>0, <1>1, <1>2, <3>1, <3>2 DEF SudoTypeOK
  <2>2. CASE SetGid
    BY <1>0, <1>1, <1>2, <2>2 DEF SetGid, On, Quit, SudoTypeOK, Identity, Ending
  <2>3. CASE SetUid
    BY <1>0, <1>1, <1>2, <2>3 DEF SetUid, On, Quit, SudoTypeOK, Identity, Whose, Ending
  <2>4. CASE Exec
    BY <1>0, <1>1, <1>2, <2>4 DEF Exec, Quit, SudoTypeOK, Whose, Ending
  <2> QED BY <2>1, <2>2, <2>3, <2>4
<1>4. SudoTypeOK'
  BY <1>0, <1>1, <1>3 DEF SudoTypeOK
<1>5. Decided'
  BY <1>1, <1>2, <1>3, Unchanged DEF Decided, Allowed, Admitted
<1>6. Whose'
  <2>1. /\ call.user = << >> => target = [uid |-> 0, gid |-> 0]
        /\ call.user # << >> => \E p \in hadPasswd : IsNamed(p, target.uid, call.user)
        /\ IF target.uid = 0 THEN user = Root
           ELSE user # << >> => \E p \in hadPasswd : IsNamed(p, target.uid, user)
        /\ target.gid # 0 => \E p \in hadPasswd : HasGroup(p, target.uid, target.gid)
    BY <1>0, <1>1 DEF Whose, Known, Named
  <2> QED BY <1>1, <1>3, <2>1 DEF Whose, IsNamed, HasGroup
<1>7. Remembered' /\ Ending'
  BY <1>0, <1>1, <1>2, <1>3 DEF Remembered, Ending
<1> QED BY <1>4, <1>5, <1>6, <1>7 DEF IInv

(* A signal ends everything as it is. *)
LEMMA KilledStep == IInv /\ Killed => IInv'
<1> SUFFICES ASSUME IInv, Killed PROVE IInv'
  OBVIOUS
<1>0. SudoTypeOK /\ Remembered /\ Decided /\ Whose /\ Ending
  BY DEF IInv
<1>1. /\ UNCHANGED <<call, conf, passwd, hadConf, hadPasswd, status, denied, target, echo, answered,
                     user, groups, refused, ids, executed>>
      /\ stage \notin {"done", "no"} /\ stage' = "done" /\ killed' = stage
      /\ ~executed /\ killed = "no"
  BY <1>0 DEF Killed, fileVars, Ending, SudoTypeOK
<1>2. SudoTypeOK'
  BY <1>0, <1>1 DEF SudoTypeOK
<1>3. Decided'
  BY <1>0, <1>1, Unchanged DEF Decided, Allowed, Admitted
<1>4. Whose'
  BY <1>0, <1>1 DEF Whose, Known, Named, IsNamed, HasGroup
<1>5. Remembered' /\ Ending'
  BY <1>0, <1>1 DEF Remembered, Ending
<1> QED BY <1>2, <1>3, <1>4, <1>5 DEF IInv

(* An edit takes nothing away of what the files have been. *)
LEMMA EditStep == IInv /\ Edit => IInv'
<1> SUFFICES ASSUME IInv, Edit PROVE IInv'
  OBVIOUS
<1>0. SudoTypeOK /\ Remembered /\ Decided /\ Whose /\ Ending
  BY DEF IInv
<1>1. /\ UNCHANGED <<call, stage, status, target, echo, answered, user, groups, refused, ids,
                     executed, denied, killed>>
      /\ conf' \in Confs /\ passwd' \in Passwds /\ stage # "done"
      /\ hadConf' = hadConf \cup {conf'} /\ hadPasswd' = hadPasswd \cup {passwd'}
  BY <1>0 DEF Edit, idVars, SudoTypeOK
<1>2. hadConf \subseteq hadConf' /\ hadPasswd \subseteq hadPasswd' /\ Remembered'
  BY <1>1 DEF Remembered
<1>3. SudoTypeOK'
  BY <1>0, <1>1 DEF SudoTypeOK
<1>4. Decided'
  <2>1. /\ Granted(FALSE) => Granted(FALSE)'
        /\ Granted(TRUE) => Granted(TRUE)'
    BY <1>1, <1>2, GrantedStays
  <2> QED BY <1>0, <1>1, <2>1 DEF Decided, Allowed, Admitted
<1>5. Whose'
  <2>1. \A u, w : /\ (\E p \in hadPasswd : IsNamed(p, u, w)) => \E p \in hadPasswd' : IsNamed(p, u, w)
                  /\ (\E p \in hadPasswd : HasGroup(p, u, w)) => \E p \in hadPasswd' : HasGroup(p, u, w)
    BY <1>2
  <2> QED BY <1>0, <1>1, <2>1 DEF Whose, Known, Named, IsNamed, HasGroup
<1>6. Ending'
  BY <1>0, <1>1 DEF Ending
<1> QED BY <1>2, <1>3, <1>4, <1>5, <1>6 DEF IInv

LEMMA RestStep == IInv /\ UNCHANGED sudoVars => IInv'
<1> SUFFICES ASSUME IInv, UNCHANGED sudoVars PROVE IInv'
  OBVIOUS
<1>1. Decided'
  BY Unchanged DEF IInv, Decided, Allowed, Admitted, sudoVars
<1>2. Whose'
  BY DEF IInv, Whose, Known, Named, IsNamed, HasGroup, sudoVars
<1>3. SudoTypeOK' /\ Remembered' /\ Ending'
  BY DEF IInv, SudoTypeOK, Remembered, Ending, sudoVars
<1> QED BY <1>1, <1>2, <1>3 DEF IInv

(* Each answer sudo has been given stays one of files that there have been,*)
(* and the identity is put together from such answers (sudo.c:123-201).    *)
THEOREM Invariance == SudoSpec => []IInv
<1>1. IInv /\ [SudoNext]_sudoVars => IInv'
  BY OptionsStep, AuthorizeStep, NoPasswdStep, PromptStep, LookupStep, BecomeStep, KilledStep,
     EditStep, RestStep DEF SudoNext
<1> QED BY <1>1, SudoStart, PTL DEF SudoSpec

THEOREM TypeCorrect == SudoSpec => []SudoTypeOK
<1>1. IInv => SudoTypeOK
  BY DEF IInv
<1> QED BY <1>1, Invariance, PTL

(* Nobody runs a command whom no configuration there has been grants it,   *)
(* and without an answer only where NOPASSWD stood; who is named in files  *)
(* nobody edits is not turned away (auth.h:39-124).                        *)
THEOREM GrantsOnly == SudoSpec => []OnlyGranted
<1>1. IInv => OnlyGranted
  BY DEF IInv, Decided, Allowed, Admitted, OnlyGranted
<1> QED BY <1>1, Invariance, PTL

(* A command that runs has the identity asked for, and of the groups only  *)
(* what setgroups refused to take; otherwise sudo returns 1, with the      *)
(* terminal's echo restored unless a signal came at the prompt             *)
(* (sudo.c:169-201, io.h:88-114).                                          *)
THEOREM BecomesWhoIsAsked == SudoSpec => []RunsAsAsked
<1>1. IInv => RunsAsAsked
  <2> SUFFICES ASSUME IInv PROVE RunsAsAsked
    OBVIOUS
  <2>1. ASSUME executed
        PROVE  /\ ids = target
               /\ call.user = << >> => target = [uid |-> 0, gid |-> 0] /\ user = Root
               /\ call.user # << >> => \E p \in hadPasswd : IsNamed(p, target.uid, call.user)
               /\ IF target.uid = 0 THEN user = Root
                  ELSE user # << >> => \E p \in hadPasswd : IsNamed(p, target.uid, user)
               /\ target.gid # 0 => \E p \in hadPasswd : HasGroup(p, target.uid, target.gid)
    BY <2>1 DEF IInv, SudoTypeOK, Identity, Whose, Known, Named
  <2>2. /\ executed /\ groups => refused
        /\ stage = "done" => /\ killed # "answer" => echo
                             /\ killed = "no" /\ ~executed => status = 1
    BY DEF IInv, Ending
  <2> QED BY <2>1, <2>2 DEF RunsAsAsked
<1> QED BY <1>1, Invariance, PTL
-------------------------------------------------------------------------------
(* dd. *)
Turns == {"options", "input", "output", "buffer", "read", "write", "done"}
Record == [blocksIn : Nat, partialIn : Nat, blocksOut : Nat, partialOut : Nat, bytes : Nat]

DdTypeOK ==
  /\ order \in Orders /\ turn \in Turns /\ got \in Nat
  /\ block \in Seq(Datum) /\ left \in Seq(Datum) /\ output \in Seq(Datum) \cup {Missing}
  /\ records \in Record /\ ddCode \in {0, 1} /\ broken \in SUBSET {"read", "write"}

Going == turn \in {"read", "write"} \/ (turn = "done" /\ ddCode = 0)

(* What was checked before the tool goes on.                               *)
Checked ==
  /\ turn \notin {"options", "done"} \/ Going => order.bs \in 1..MaxBlock
  /\ turn \notin {"options", "input", "done"} \/ Going => order.input # Missing
  /\ turn \notin {"options", "input", "output", "done"} \/ Going => order.old # Missing
  /\ (turn \in {"options", "input", "output"} \/ order.input = Missing \/ order.bs = 0) => output = order.old
  /\ turn # "done" => ddCode = 0 /\ broken = {}

Untouched ==
  turn \in {"options", "input", "output", "buffer"} =>
    /\ got = 0 /\ block = << >> /\ left = << >> /\ broken = {}
    /\ records = [blocksIn |-> 0, partialIn |-> 0, blocksOut |-> 0, partialOut |-> 0, bytes |-> 0]
    /\ turn = "buffer" => output = << >>

(* How much was written; the rest of the block is in hand.                 *)
Done == got - Len(left)
InPlace ==
  /\ got <= Len(order.input) - Skipped /\ Len(left) <= Len(block) /\ Len(block) <= got
  /\ left = SubSeq(order.input, Skipped + Done + 1, Skipped + got)
  /\ output = IF Done = 0 THEN << >> ELSE Hole \o SubSeq(order.input, Skipped + 1, Skipped + Done)
  /\ turn = "write" \/ "write" \in broken <=> left # << >>

(* What is reported: the blocks behind which something was read.           *)
FullInHand == IF left # << >> /\ Len(block) = order.bs THEN 1 ELSE 0
PartInHand == IF left # << >> /\ Len(block) # order.bs THEN 1 ELSE 0
Reported ==
  /\ records.bytes = got - (IF left = << >> THEN 0 ELSE Len(block))
  /\ records.blocksOut * order.bs + records.partialOut <= records.bytes
  /\ records.blocksIn = records.blocksOut + FullInHand
  /\ records.partialIn = records.partialOut + PartInHand
  /\ order.count >= 0 => records.blocksIn + records.partialIn <= order.count
  /\ records.partialIn = 0 => got = records.blocksIn * order.bs
  /\ turn = "done" /\ broken = {} => Ahead = 0 \/ ~GoesOn

DdInv ==
  /\ DdTypeOK /\ Checked /\ Untouched
  /\ Going => InPlace /\ Reported

(* Part b of a sequence, from behind the a-th element: parts of it, and two *)
(* of them one behind the other.                                           *)
LEMMA PartOf ==
  ASSUME NEW S, NEW s \in Seq(S), NEW a \in Nat, NEW b \in Nat, a <= b, b <= Len(s)
  PROVE  /\ SubSeq(s, a + 1, b) \in Seq(S) /\ Len(SubSeq(s, a + 1, b)) = b - a
         /\ \A i \in 1..(b - a) : SubSeq(s, a + 1, b)[i] = s[a + i]
<1>1. Len(s) \in Nat /\ \A i \in 1..Len(s) : s[i] \in S
  BY LenProperties, ElementOfSeq
<1>2. a + 1 \in Int /\ b \in Int /\ \A i \in (a + 1)..b : s[i] \in S
  BY <1>1
<1>3. /\ SubSeq(s, a + 1, b) \in Seq(S)
      /\ Len(SubSeq(s, a + 1, b)) = IF a + 1 <= b THEN b - (a + 1) + 1 ELSE 0
      /\ \A i \in 1..(b - (a + 1) + 1) : SubSeq(s, a + 1, b)[i] = s[(a + 1) + i - 1]
  BY <1>2, SubSeqProperties
<1>4. Len(SubSeq(s, a + 1, b)) = b - a
  BY <1>3
<1>5. ASSUME NEW i \in 1..(b - a) PROVE SubSeq(s, a + 1, b)[i] = s[a + i]
  <2>1. i \in 1..(b - (a + 1) + 1) /\ (a + 1) + i - 1 = a + i
    OBVIOUS
  <2> QED BY <2>1, <1>3
<1> QED BY <1>3, <1>4, <1>5

LEMMA Joined ==
  ASSUME NEW S, NEW s \in Seq(S), NEW a \in Nat, NEW b \in Nat, NEW c \in Nat,
         a <= b, b <= c, c <= Len(s)
  PROVE  SubSeq(s, a + 1, b) \o SubSeq(s, b + 1, c) = SubSeq(s, a + 1, c)
<1> DEFINE u == SubSeq(s, a + 1, b)
           v == SubSeq(s, b + 1, c)
           w == SubSeq(s, a + 1, c)
<1>0. Len(s) \in Nat
  BY LenProperties
<1>1. u \in Seq(S) /\ Len(u) = b - a /\ \A i \in 1..(b - a) : u[i] = s[a + i]
  BY <1>0, PartOf
<1>2. v \in Seq(S) /\ Len(v) = c - b /\ \A i \in 1..(c - b) : v[i] = s[b + i]
  BY <1>0, PartOf
<1>3. w \in Seq(S) /\ Len(w) = c - a /\ \A i \in 1..(c - a) : w[i] = s[a + i]
  BY <1>0, PartOf
<1> HIDE DEF u, v, w
<1>4. /\ u \o v \in Seq(S) /\ Len(u \o v) = c - a
      /\ \A i \in 1..(c - a) : (u \o v)[i] = IF i <= b - a THEN u[i] ELSE v[i - (b - a)]
  <2>1. /\ u \o v \in Seq(S) /\ Len(u \o v) = Len(u) + Len(v)
        /\ \A i \in 1..Len(u) + Len(v) : (u \o v)[i] = IF i <= Len(u) THEN u[i] ELSE v[i - Len(u)]
    BY <1>1, <1>2, ConcatProperties
  <2>2. Len(u) + Len(v) = c - a
    BY <1>1, <1>2
  <2> QED BY <2>1, <2>2, <1>1
<1>5. ASSUME NEW i \in 1..(c - a) PROVE (u \o v)[i] = w[i]
  <2>1. CASE i <= b - a
    <3>1. i \in 1..(b - a)
      BY <2>1
    <3> QED BY <3>1, <2>1, <1>1, <1>3, <1>4
  <2>2. CASE ~(i <= b - a)
    <3>1. i - (b - a) \in 1..(c - b) /\ b + (i - (b - a)) = a + i
      BY <2>2
    <3>2. v[i - (b - a)] = s[a + i]
      BY <3>1, <1>2
    <3> QED BY <3>2, <2>2, <1>3, <1>4
  <2> QED BY <2>1, <2>2
<1>6. u \o v = w
  <2>1. \A i \in 1..Len(u \o v) : (u \o v)[i] = w[i]
    BY <1>4, <1>5
  <2> QED BY <2>1, <1>3, <1>4, SeqEqual
<1> QED BY <1>6 DEF u, v, w

LEMMA PartOfPart ==
  ASSUME NEW S, NEW s \in Seq(S), NEW a \in Nat, NEW c \in Nat, a <= c, c <= Len(s),
         NEW i \in Nat, NEW j \in Nat, i <= j, j <= c - a
  PROVE  SubSeq(SubSeq(s, a + 1, c), i + 1, j) = SubSeq(s, a + i + 1, a + j)
<1> DEFINE u == SubSeq(s, a + 1, c)
           v == SubSeq(u, i + 1, j)
           w == SubSeq(s, a + i + 1, a + j)
<1>0. Len(s) \in Nat
  BY LenProperties
<1>1. u \in Seq(S) /\ Len(u) = c - a /\ \A k \in 1..(c - a) : u[k] = s[a + k]
  BY <1>0, PartOf
<1>2. w \in Seq(S) /\ Len(w) = j - i /\ \A k \in 1..(j - i) : w[k] = s[a + i + k]
  <2>1. a + i \in Nat /\ a + j \in Nat /\ a + i <= a + j /\ a + j <= Len(s) /\ (a + j) - (a + i) = j - i
    BY <1>0
  <2> QED BY <2>1, PartOf
<1> HIDE DEF u, w
<1>3. v \in Seq(S) /\ Len(v) = j - i /\ \A k \in 1..(j - i) : v[k] = u[i + k]
  BY <1>1, PartOf
<1> HIDE DEF v
<1>4. ASSUME NEW k \in 1..(j - i) PROVE v[k] = w[k]
  <2>1. i + k \in 1..(c - a) /\ a + (i + k) = a + i + k
    OBVIOUS
  <2>2. u[i + k] = s[a + (i + k)]
    BY <2>1, <1>1
  <2> QED BY <2>1, <2>2, <1>2, <1>3
<1>5. v = w
  <2>1. \A k \in 1..Len(v) : v[k] = w[k]
    BY <1>3, <1>4
  <2> QED BY <2>1, <1>2, <1>3, SeqEqual
<1> QED BY <1>5 DEF u, v, w

LEMMA Times ==
  ASSUME NEW m \in Nat, NEW n \in Nat
  PROVE  (m + 1) * n = m * n + n /\ m * n \in Nat
OBVIOUS

LEMMA OrderIs ==
  ASSUME order \in Orders
  PROVE  /\ order.bs \in Nat /\ order.count \in Int /\ order.count >= -1 /\ order.skip \in Nat /\ order.seek \in Nat
         /\ order.input \in Seq(Datum) \cup {Missing} /\ order.old \in Seq(Datum) \cup {Missing}
         /\ order.canSkip \in BOOLEAN /\ order.canSeek \in BOOLEAN
BY OrdersAssumption

LEMMA PositionIs ==
  ASSUME order \in Orders, NEW n \in Nat, NEW s \in BOOLEAN
  PROVE  /\ Position(n, s) \in Nat
         /\ Representable(n) => Position(n, s) = IF s THEN n * order.bs ELSE 0
<1> DEFINE m == n * order.bs
<1>1. m \in Nat
  BY OrderIs
<1>2. Offsets \in Nat /\ Offsets > 0
  BY OffsetsAssumption
<1>3. m % Offsets \in Nat
  <2> HIDE DEF m
  <2> QED BY <1>1, <1>2
<1>4. ASSUME m < Offsets \div 2 PROVE m % Offsets = m
  <2> HIDE DEF m
  <2>1. Offsets \div 2 <= Offsets
    BY <1>2
  <2>2. m < Offsets
    BY <2>1, <1>4, <1>1, <1>2
  <2> QED BY <2>2, <1>1, <1>2
<1>5. Position(n, s) = IF s /\ m % Offsets < Offsets \div 2 THEN m % Offsets ELSE 0
  BY DEF Position
<1>6. Representable(n) <=> m < Offsets \div 2
  BY DEF Representable
<1> HIDE DEF m
<1>7. Position(n, s) \in Nat
  BY <1>3, <1>5
<1>8. ASSUME Representable(n) PROVE Position(n, s) = IF s THEN m ELSE 0
  BY <1>8, <1>6, <1>5, <1>4
<1> QED BY <1>7, <1>8 DEF m

LEMMA SkippedIs ==
  ASSUME order \in Orders, order.input # Missing
  PROVE  /\ order.input \in Seq(Datum) /\ Len(order.input) \in Nat
         /\ Skipped \in Nat /\ Skipped <= Len(order.input)
<1>1. order.input \in Seq(Datum)
  BY OrderIs
<1>2. Len(order.input) \in Nat
  BY <1>1, LenProperties
<1>3. order.skip \in Nat /\ order.canSkip \in BOOLEAN
  BY OrderIs
<1>4. Position(order.skip, order.canSkip) \in Nat
  BY <1>3, PositionIs
<1> QED BY <1>1, <1>2, <1>4 DEF Skipped, Smaller

LEMMA HoleIs ==
  ASSUME order \in Orders
  PROVE  Hole \in Seq(Datum) /\ Len(Hole) = Position(order.seek, order.canSeek)
<1> DEFINE n == Position(order.seek, order.canSeek)
<1>1. n \in Nat
  <2>1. order.seek \in Nat /\ order.canSeek \in BOOLEAN
    BY OrderIs
  <2> QED BY <2>1, PositionIs
<1>2. Hole = [i \in 1..n |-> Null]
  BY DEF Hole
<1> HIDE DEF n
<1>3. Hole \in [1..n -> Datum]
  BY <1>2, MissingAssumption
<1>4. Hole \in Seq(Datum) /\ Len(Hole) = n
  BY <1>1, <1>3
<1> QED BY <1>4 DEF n

(* What counting a block does to the records. *)
LEMMA CountedIs ==
  ASSUME records \in Record, NEW n \in Nat
  PROVE  LET r == Counted(n) IN
         /\ r \in Record /\ r.bytes = records.bytes + n
         /\ r.blocksIn = records.blocksIn /\ r.partialIn = records.partialIn
         /\ r.blocksOut = (IF n = order.bs THEN records.blocksOut + 1 ELSE records.blocksOut)
         /\ r.partialOut = (IF n = order.bs THEN records.partialOut ELSE records.partialOut + 1)
<1>1. /\ records.blocksIn \in Nat /\ records.partialIn \in Nat /\ records.blocksOut \in Nat
      /\ records.partialOut \in Nat /\ records.bytes \in Nat
      /\ records.blocksOut + 1 \in Nat /\ records.partialOut + 1 \in Nat /\ records.bytes + n \in Nat
  BY DEF Record
<1>2. CASE n = order.bs
  <2>1. Counted(n) = [records EXCEPT !.blocksOut = @ + 1, !.bytes = @ + n]
    BY <1>2 DEF Counted
  <2> QED BY <2>1, <1>1, <1>2 DEF Record
<1>3. CASE n # order.bs
  <2>1. Counted(n) = [records EXCEPT !.partialOut = @ + 1, !.bytes = @ + n]
    BY <1>3 DEF Counted
  <2> QED BY <2>1, <1>1, <1>3 DEF Record
<1> QED BY <1>2, <1>3

LEMMA DdInitInv == DdInit => DdInv
<1> SUFFICES ASSUME DdInit PROVE DdInv
  OBVIOUS
<1> USE DEF DdInit
<1>1. DdTypeOK
  <2>1. order.old \in Seq(Datum) \cup {Missing}
    BY OrderIs
  <2>2. << >> \in Seq(Datum)
    BY EmptySeq
  <2>3. records \in Record
    BY DEF Record
  <2> QED BY <2>1, <2>2, <2>3 DEF DdTypeOK, Turns
<1>2. Checked /\ Untouched /\ ~Going
  BY DEF Checked, Untouched, Going
<1> QED BY <1>1, <1>2 DEF DdInv

(* Until the first block is read.                                          *)
LEMMA OpeningInv == DdInv /\ (CheckSize \/ OpenIn \/ OpenOut) => DdInv'
<1> SUFFICES ASSUME DdInv, CheckSize \/ OpenIn \/ OpenOut PROVE DdInv'
  OBVIOUS
<1> USE DEF DdInv
<1>1. turn \in {"options", "input", "output"} /\ ddCode = 0
  BY DEF CheckSize, OpenIn, OpenOut, Checked
<1>2. DdTypeOK'
  <2>1. << >> \in Seq(Datum)
    BY EmptySeq
  <2> QED BY <2>1 DEF DdTypeOK, Turns, CheckSize, OpenIn, OpenOut, Refuse, Proceed, transfer
<1>3. turn' \in {"input", "output", "buffer", "done"} /\ (turn' = "done" => ddCode' = 1)
  BY DEF CheckSize, OpenIn, OpenOut, Refuse, Proceed
<1>4. ~Going'
  BY <1>3 DEF Going
<1>5. Checked'
  <2>1. 0 \notin 1..MaxBlock
    BY OffsetsAssumption
  <2> QED BY <1>1, <1>4, <2>1 DEF Checked, CheckSize, OpenIn, OpenOut, Refuse, Proceed
<1>6. Untouched'
  BY <1>1 DEF Untouched, CheckSize, OpenIn, OpenOut, Refuse, Proceed, transfer
<1> QED BY <1>2, <1>4, <1>5, <1>6

LEMMA AllocateInv == DdInv /\ Allocate => DdInv'
<1> SUFFICES ASSUME DdInv, Allocate PROVE DdInv'
  OBVIOUS
<1> USE DEF DdInv
<1>1. turn = "buffer" /\ ddCode = 0 /\ ~Going
  BY DEF Allocate, Checked, Going
<1>2. DdTypeOK'
  BY DEF DdTypeOK, Turns, Allocate, Proceed, transfer
<1>3. Checked' /\ Untouched'
  BY <1>1 DEF Checked, Untouched, Going, Allocate, Proceed, transfer
<1>4. ASSUME Going' PROVE InPlace' /\ Reported'
  <2>0. broken = {} /\ broken \cup {"read"} = {"read"}
    BY <1>1 DEF Untouched
  <2>1. /\ (turn' = "read" /\ broken' = broken) \/ (turn' = "done" /\ broken' = {"read"})
        /\ UNCHANGED <<order, got, block, left, records, output>>
    BY <2>0 DEF Allocate, Proceed, transfer
  <2>2. /\ got = 0 /\ block = << >> /\ left = << >> /\ output = << >> /\ broken = {}
        /\ records = [blocksIn |-> 0, partialIn |-> 0, blocksOut |-> 0, partialOut |-> 0, bytes |-> 0]
    BY <1>1 DEF Untouched
  <2>3. order.input # Missing /\ order \in Orders
    BY <1>1 DEF Checked, DdTypeOK
  <2>4. order.input \in Seq(Datum) /\ Len(order.input) \in Nat /\ Skipped \in Nat /\ Skipped <= Len(order.input)
    BY <2>3, SkippedIs
  <2>5. Len(left) = 0
    BY <2>2
  <2>51. got = 0
    BY <2>2
  <2>50. Done = 0
    BY <2>51, <2>5 DEF Done
  <2>6. SubSeq(order.input, Skipped + 0 + 1, Skipped + 0) = << >>
    BY <2>4, PartOf, EmptySeq
  <2>7. InPlace
    BY <2>1, <2>2, <2>4, <2>5, <2>50, <2>6, <1>1 DEF InPlace
  <2>8. order.bs \in Nat /\ order.count \in Int /\ 0 * order.bs = 0
    BY <2>3, OrderIs
  <2>9. Reported
    BY <2>2, <2>5, <2>8, <1>1 DEF Reported, FullInHand, PartInHand
  <2>10. InPlace'
    BY <2>1, <2>2, <2>7, <1>1 DEF InPlace, Skipped, Position, Hole, Done
  <2>11. Reported'
    BY <2>1, <2>9 DEF Reported, FullInHand, PartInHand, Ahead, GoesOn, Skipped, Position
  <2> QED BY <2>10, <2>11
<1> QED BY <1>2, <1>3, <1>4

(* A block is read: nothing of it is written yet.                          *)
LEMMA ReadBlockInv == DdInv /\ ReadBlock => DdInv'
<1> SUFFICES ASSUME DdInv, ReadBlock PROVE DdInv'
  OBVIOUS
<1> USE DEF DdInv
<1>1. turn = "read" /\ Going /\ InPlace /\ Reported /\ turn' = "write" /\ GoesOn
  BY DEF ReadBlock, Going
<1>p. PICK k \in 1..Smaller(order.bs, Ahead) :
       /\ block' = SubSeq(order.input, Skipped + got + 1, Skipped + got + k)
       /\ got' = got + k
       /\ records' = IF k = order.bs THEN [records EXCEPT !.blocksIn = @ + 1]
                                     ELSE [records EXCEPT !.partialIn = @ + 1]
  BY DEF ReadBlock
<1>2. left' = block' /\ UNCHANGED <<order, output, ddCode, broken>>
  BY DEF ReadBlock
<1>3. order \in Orders /\ order.input # Missing /\ order.bs \in Nat /\ order.bs > 0 /\ got \in Nat /\ ddCode = 0
      /\ order.count \in Int
  BY <1>1, OrderIs, OffsetsAssumption DEF Checked, DdTypeOK
<1>4. order.input \in Seq(Datum) /\ Len(order.input) \in Nat /\ Skipped \in Nat /\ Skipped <= Len(order.input)
  BY <1>3, SkippedIs
<1>5. k \in Nat /\ k > 0 /\ k <= order.bs /\ k <= Len(order.input) - Skipped - got
  <2>1. Ahead \in Int /\ Ahead = Len(order.input) - Skipped - got
    BY <1>3, <1>4 DEF Ahead
  <2>2. Smaller(order.bs, Ahead) \in Int /\ Smaller(order.bs, Ahead) <= order.bs /\ Smaller(order.bs, Ahead) <= Ahead
    BY <2>1, <1>3 DEF Smaller
  <2>3. k \in Int /\ 1 <= k /\ k <= Smaller(order.bs, Ahead)
    BY <1>p, <2>2
  <2> HIDE DEF Ahead
  <2>4. k \in Nat /\ k > 0 /\ k <= order.bs /\ k <= Ahead
    BY <2>1, <2>2, <2>3, <1>3
  <2> QED BY <2>1, <2>4
<1>6. left = << >> /\ Len(left) = 0 /\ Done = got /\ "write" \notin broken
  <2>1. left = << >> /\ "write" \notin broken
    BY <1>1 DEF InPlace, Checked
  <2>2. Len(left) = 0
    BY <2>1
  <2> QED BY <2>1, <2>2, <1>3 DEF Done
<1>7. block' \in Seq(Datum) /\ Len(block') = k /\ block' # << >>
  <2>1. /\ Skipped + got \in Nat /\ Skipped + got + k \in Nat /\ Skipped + got <= Skipped + got + k
        /\ Skipped + got + k <= Len(order.input) /\ (Skipped + got + k) - (Skipped + got) = k
    BY <1>3, <1>4, <1>5
  <2>2. SubSeq(order.input, Skipped + got + 1, Skipped + got + k) \in Seq(Datum)
        /\ Len(SubSeq(order.input, Skipped + got + 1, Skipped + got + k)) = k
    <3> DEFINE m == Skipped + got
               n == Skipped + got + k
    <3>1. m \in Nat /\ n \in Nat /\ m <= n /\ n <= Len(order.input) /\ n - m = k
      BY <2>1
    <3> HIDE DEF m, n
    <3>2. SubSeq(order.input, m + 1, n) \in Seq(Datum) /\ Len(SubSeq(order.input, m + 1, n)) = n - m
      BY <3>1, <1>4, PartOf
    <3> QED BY <3>1, <3>2 DEF m, n
  <2>3. block' = SubSeq(order.input, Skipped + got + 1, Skipped + got + k)
    BY <1>p
  <2>4. block' \in Seq(Datum) /\ Len(block') = k
    BY <2>2, <2>3
  <2> QED BY <2>4, <1>5
<1>8. records \in Record /\ records' \in Record
      /\ records'.bytes = records.bytes /\ records'.blocksOut = records.blocksOut /\ records'.partialOut = records.partialOut
      /\ records'.blocksIn = (IF k = order.bs THEN records.blocksIn + 1 ELSE records.blocksIn)
      /\ records'.partialIn = (IF k = order.bs THEN records.partialIn ELSE records.partialIn + 1)
  <2>1. records \in Record
    BY DEF DdTypeOK
  <2>2. CASE k = order.bs
    <3>1. records' = [records EXCEPT !.blocksIn = @ + 1]
      BY <1>p, <2>2
    <3> QED BY <2>1, <2>2, <3>1 DEF Record
  <2>3. CASE k # order.bs
    <3>1. records' = [records EXCEPT !.partialIn = @ + 1]
      BY <1>p, <2>3
    <3> QED BY <2>1, <2>3, <3>1 DEF Record
  <2> QED BY <2>2, <2>3
<1>80. /\ records.blocksIn \in Nat /\ records.partialIn \in Nat /\ records.blocksOut \in Nat
       /\ records.partialOut \in Nat /\ records.bytes \in Nat
  BY <1>8 DEF Record
<1>9. DdTypeOK'
  BY <1>p, <1>1, <1>2, <1>3, <1>5, <1>7, <1>8, SMTT(30) DEF DdTypeOK, Turns
<1>10. Checked' /\ Untouched'
  BY <1>1, <1>2, <1>3 DEF Checked, Untouched, Going
<1>11. Skipped' = Skipped /\ Hole' = Hole /\ Done' = Done
  <2>1. Skipped' = Skipped /\ Hole' = Hole
    BY <1>2 DEF Skipped, Hole, Position
  <2>2. Done' = got' - Len(left')
    BY DEF Done
  <2>3. got' = got + k /\ Len(left') = k
    BY <1>p, <1>2, <1>7
  <2>4. Done' = got
    BY <2>2, <2>3, <1>3, <1>5
  <2> QED BY <2>1, <2>4, <1>6
<1>12. InPlace'
  <2>1. got' <= Len(order'.input) - Skipped' /\ Len(left') <= Len(block') /\ Len(block') <= got'
    <3>1. got' = got + k /\ Len(left') = k /\ Len(block') = k
      BY <1>p, <1>2, <1>7
    <3> QED BY <3>1, <1>2, <1>3, <1>4, <1>5, <1>11
  <2>2. left' = SubSeq(order'.input, Skipped' + Done' + 1, Skipped' + got')
    <3>1. Skipped + got + k = Skipped + (got + k)
      BY <1>3, <1>4, <1>5
    <3> QED BY <1>p, <3>1, <1>2, <1>6, <1>11
  <2>3. output' = IF Done' = 0 THEN << >> ELSE Hole' \o SubSeq(order'.input, Skipped' + 1, Skipped' + Done')
    BY <1>1, <1>2, <1>11 DEF InPlace
  <2> QED BY <2>1, <2>2, <2>3, <1>1, <1>2, <1>7 DEF InPlace
<1>13. Reported'
  <2>1. /\ records.bytes = got /\ records.blocksOut * order.bs + records.partialOut <= records.bytes
        /\ records.blocksIn = records.blocksOut /\ records.partialIn = records.partialOut
        /\ records.partialIn = 0 => got = records.blocksIn * order.bs
        /\ order.count >= 0 => records.blocksIn + records.partialIn < order.count
    BY <1>1, <1>3, <1>6, <1>8, <1>80 DEF Reported, FullInHand, PartInHand, Record, GoesOn
  <2>2. records'.bytes = got' - Len(block')
    BY <1>p, <2>1, <1>3, <1>5, <1>7, <1>8, SMTT(30)
  <2>3. records'.blocksOut * order.bs + records'.partialOut <= records'.bytes
    BY <2>1, <1>8
  <2>4. FullInHand' = (IF k = order.bs THEN 1 ELSE 0) /\ PartInHand' = (IF k = order.bs THEN 0 ELSE 1)
    BY <1>2, <1>7 DEF FullInHand, PartInHand
  <2>5. records'.blocksIn = records'.blocksOut + FullInHand' /\ records'.partialIn = records'.partialOut + PartInHand'
    BY <2>1, <2>4, <1>8, <1>80
  <2>6. order.count >= 0 => records'.blocksIn + records'.partialIn <= order.count
    BY <2>1, <1>3, <1>8, <1>80
  <2>7. records'.partialIn = 0 => got' = records'.blocksIn * order.bs
    <3>1. CASE k = order.bs
      <4>1. (records.blocksIn + 1) * order.bs = records.blocksIn * order.bs + order.bs
        BY <1>3, <1>80, Times
      <4> QED BY <1>p, <3>1, <4>1, <2>1, <1>3, <1>8, <1>80
    <3>2. CASE k # order.bs
      BY <3>2, <1>8, <1>80
    <3> QED BY <3>1, <3>2
  <2> QED BY <2>2, <2>3, <2>5, <2>6, <2>7, <1>1, <1>2, <1>7 DEF Reported
<1> QED BY <1>9, <1>10, <1>12, <1>13

LEMMA ReadsNoMoreInv == DdInv /\ ReadsNoMore => DdInv'
<1> SUFFICES ASSUME DdInv, ReadsNoMore PROVE DdInv'
  OBVIOUS
<1>1. turn = "read" /\ Going /\ InPlace /\ Reported /\ turn' = "done" /\ DdTypeOK /\ Checked
  BY DEF ReadsNoMore, Going, DdInv
<1>2. UNCHANGED <<order, got, block, left, records, output, ddCode>>
  BY DEF ReadsNoMore, transfer
<1>3. \/ (~GoesOn \/ Ahead = 0) /\ broken' = broken
      \/ broken' = broken \cup {"read"}
  BY DEF ReadsNoMore
<1>4. broken = {} /\ ddCode = 0 /\ ("write" \in broken' <=> "write" \in broken)
  BY <1>1, <1>3 DEF Checked
<1>5. DdTypeOK' /\ Checked' /\ Untouched'
  BY <1>1, <1>2, <1>3, <1>4 DEF DdTypeOK, Turns, Checked, Untouched, Going
<1>6. Skipped' = Skipped /\ Hole' = Hole /\ Done' = Done /\ Ahead' = Ahead /\ GoesOn' = GoesOn
      /\ FullInHand' = FullInHand /\ PartInHand' = PartInHand
  BY <1>2 DEF Skipped, Hole, Position, Done, Ahead, GoesOn, FullInHand, PartInHand
<1>7. InPlace'
  BY <1>1, <1>2, <1>4, <1>6 DEF InPlace
<1>8. Reported'
  BY <1>1, <1>2, <1>3, <1>6 DEF Reported
<1> QED BY <1>5, <1>7, <1>8 DEF DdInv

(* A write that fails leaves the rest of the block in hand.                *)
LEMMA WriteFailsInv == DdInv /\ WriteFails => DdInv'
<1> SUFFICES ASSUME DdInv, WriteFails PROVE DdInv'
  OBVIOUS
<1>1. turn = "write" /\ Going /\ InPlace /\ Reported /\ turn' = "done" /\ DdTypeOK /\ Checked
  BY DEF WriteFails, Going, DdInv
<1>2. UNCHANGED <<order, got, block, left, records, output, ddCode>> /\ broken' = broken \cup {"write"}
  BY DEF WriteFails, transfer
<1>3. broken = {} /\ ddCode = 0 /\ "write" \in broken' /\ broken' # {}
  BY <1>1, <1>2 DEF Checked
<1>5. DdTypeOK' /\ Checked' /\ Untouched'
  BY <1>1, <1>2, <1>3 DEF DdTypeOK, Turns, Checked, Untouched, Going
<1>6. Skipped' = Skipped /\ Hole' = Hole /\ Done' = Done /\ FullInHand' = FullInHand /\ PartInHand' = PartInHand
  BY <1>2 DEF Skipped, Hole, Position, Done, FullInHand, PartInHand
<1>7. InPlace'
  BY <1>1, <1>2, <1>3, <1>6 DEF InPlace
<1>8. Reported'
  BY <1>1, <1>2, <1>3, <1>6 DEF Reported
<1> QED BY <1>5, <1>7, <1>8 DEF DdInv

(* A write moves a beginning of what is left to the end of the output; the *)
(* block counts once nothing is left.                                      *)
LEMMA WriteInv == DdInv /\ Write => DdInv'
<1> SUFFICES ASSUME DdInv, Write PROVE DdInv'
  OBVIOUS
<1>1. turn = "write" /\ Going /\ InPlace /\ Reported /\ DdTypeOK /\ Checked /\ ddCode = 0 /\ broken = {}
  BY DEF Write, Going, DdInv, Checked
<1>p. PICK k \in 1..Len(left) :
        /\ output' = (IF output = << >> THEN Hole ELSE output) \o SubSeq(left, 1, k)
        /\ left' = SubSeq(left, k + 1, Len(left))
        /\ IF k = Len(left) THEN turn' = "read" /\ records' = Counted(Len(block))
                            ELSE UNCHANGED <<turn, records>>
  BY DEF Write, Grow
<1>2. UNCHANGED <<order, got, block, ddCode, broken>>
  BY DEF Write
<1>3. order \in Orders /\ order.input # Missing /\ order.bs \in Nat /\ order.bs \in 1..MaxBlock /\ got \in Nat
      /\ order.count \in Int /\ order.old # Missing /\ left \in Seq(Datum) /\ Len(left) \in Nat
      /\ block \in Seq(Datum) /\ Len(block) \in Nat
  <2>1. left \in Seq(Datum) /\ block \in Seq(Datum) /\ got \in Nat /\ order \in Orders
    BY <1>1 DEF DdTypeOK
  <2>2. Len(left) \in Nat /\ Len(block) \in Nat
    BY <2>1, LenProperties
  <2>3. order.input # Missing /\ order.bs \in 1..MaxBlock /\ order.old # Missing
    BY <1>1 DEF Checked
  <2> QED BY <2>1, <2>2, <2>3, OrderIs
<1>4. order.input \in Seq(Datum) /\ Len(order.input) \in Nat /\ Skipped \in Nat /\ Skipped <= Len(order.input)
  BY <1>3, SkippedIs
<1>n. Len(left) \in Nat /\ Len(block) \in Nat /\ got \in Nat /\ order.bs \in Nat /\ order.bs > 0
  BY <1>3, OffsetsAssumption
<1>5. k \in Nat /\ k > 0 /\ k <= Len(left)
  BY <1>p, <1>n
<1> DEFINE d == Done
<1>60. Len(left) <= Len(block) /\ Len(block) <= got /\ got <= Len(order.input) - Skipped
  BY <1>1 DEF InPlace
<1>61. left = SubSeq(order.input, Skipped + d + 1, Skipped + got)
  BY <1>1 DEF InPlace
<1>6. /\ d \in Nat /\ d + Len(left) = got /\ d + k <= got /\ d <= got /\ got - d = Len(left) /\ d + k \in Nat
      /\ got - (d + k) = Len(left) - k /\ d + k # 0
  <2>1. d = got - Len(left)
    BY DEF Done
  <2> HIDE DEF d
  <2> QED BY <2>1, <1>60, <1>n, <1>5
<1>7. output = IF d = 0 THEN << >> ELSE Hole \o SubSeq(order.input, Skipped + 1, Skipped + d)
  BY <1>1 DEF InPlace
<1>8. Skipped' = Skipped /\ Hole' = Hole /\ Done' = got - Len(left')
  BY <1>2 DEF Skipped, Hole, Position, Done
<1>9. Hole \in Seq(Datum)
  BY <1>3, HoleIs
<1> HIDE DEF d
<1> DEFINE S(m, n) == SubSeq(order.input, Skipped + m + 1, Skipped + n)
<1>10. ASSUME NEW m \in Nat, NEW n \in Nat, m <= n, n <= got
       PROVE  /\ S(m, n) \in Seq(Datum) /\ Len(S(m, n)) = n - m
              /\ \A i \in Nat, j \in Nat : i <= j /\ j <= n - m => SubSeq(S(m, n), i + 1, j) = S(m + i, m + j)
  <2> DEFINE a == Skipped + m
             b == Skipped + n
  <2>1. a \in Nat /\ b \in Nat /\ a <= b /\ b <= Len(order.input) /\ b - a = n - m
    BY <1>n, <1>4, <1>60, <1>10
  <2> HIDE DEF a, b
  <2>2. SubSeq(order.input, a + 1, b) \in Seq(Datum) /\ Len(SubSeq(order.input, a + 1, b)) = b - a
    BY <2>1, <1>4, PartOf
  <2>3. ASSUME NEW i \in Nat, NEW j \in Nat, i <= j, j <= n - m
        PROVE  SubSeq(S(m, n), i + 1, j) = S(m + i, m + j)
    <3>1. SubSeq(SubSeq(order.input, a + 1, b), i + 1, j) = SubSeq(order.input, a + i + 1, a + j)
      BY <2>1, <2>3, <1>4, PartOfPart
    <3>2. a + i + 1 = Skipped + (m + i) + 1 /\ a + j = Skipped + (m + j)
      BY <1>4, <1>10, <2>3 DEF a
    <3>3. S(m, n) = SubSeq(order.input, a + 1, b)
      BY DEF a, b
    <3> QED BY <3>1, <3>2, <3>3
  <2> QED BY <2>1, <2>2, <2>3 DEF a, b
<1>11. ASSUME NEW l \in Nat, NEW m \in Nat, NEW n \in Nat, l <= m, m <= n, n <= got
       PROVE  S(l, m) \o S(m, n) = S(l, n)
  <2> DEFINE a == Skipped + l
             b == Skipped + m
             c == Skipped + n
  <2>1. a \in Nat /\ b \in Nat /\ c \in Nat /\ a <= b /\ b <= c /\ c <= Len(order.input)
    BY <1>n, <1>4, <1>60, <1>11
  <2> HIDE DEF a, b, c
  <2>2. SubSeq(order.input, a + 1, b) \o SubSeq(order.input, b + 1, c) = SubSeq(order.input, a + 1, c)
    BY <2>1, <1>4, Joined
  <2> QED BY <2>2 DEF a, b, c
<1>12. left = S(d, got)
  BY <1>61
<1> HIDE DEF S
<1>13. SubSeq(left, 1, k) = S(d, d + k) /\ SubSeq(left, k + 1, Len(left)) = S(d + k, got)
  <2>1. \A i \in Nat, j \in Nat : i <= j /\ j <= got - d => SubSeq(S(d, got), i + 1, j) = S(d + i, d + j)
    <3>1. got \in Nat /\ d \in Nat /\ d <= got /\ got <= got
      BY <1>n, <1>6
    <3> QED BY <3>1, <1>10
  <2>2. SubSeq(S(d, got), 0 + 1, k) = S(d + 0, d + k)
    <3>1. 0 \in Nat /\ k \in Nat /\ 0 <= k /\ k <= got - d
      BY <1>5, <1>6
    <3> QED BY <2>1, <3>1
  <2>3. SubSeq(S(d, got), k + 1, Len(left)) = S(d + k, d + Len(left))
    <3>1. k \in Nat /\ Len(left) \in Nat /\ k <= Len(left) /\ Len(left) <= got - d
      BY <1>5, <1>6, <1>n
    <3> QED BY <2>1, <3>1
  <2>4. d + 0 = d /\ 0 + 1 = 1 /\ d + Len(left) = got
    BY <1>6
  <2> QED BY <2>2, <2>3, <2>4, <1>12
<1>14. left' \in Seq(Datum) /\ Len(left') = Len(left) - k /\ Done' = d + k
  <2>1. left' = S(d + k, got)
    BY <1>p, <1>13
  <2>2. d + k \in Nat /\ d + k <= got /\ got <= got /\ got \in Nat
    BY <1>n, <1>6
  <2>3. S(d + k, got) \in Seq(Datum) /\ Len(S(d + k, got)) = got - (d + k)
    BY <2>2, <1>10
  <2>4. Len(left') = Len(left) - k
    BY <2>1, <2>3, <1>6
  <2>5. got - (Len(left) - k) = d + k
    BY <1>n, <1>5, <1>6
  <2> QED BY <2>1, <2>3, <2>4, <2>5, <1>8
<1>15. output' = Hole \o S(0, d + k) /\ output' \in Seq(Datum)
  <2>1. S(0, d) \in Seq(Datum) /\ S(d, d + k) \in Seq(Datum) /\ S(0, d + k) \in Seq(Datum) /\ Len(S(0, d)) = d
        /\ Len(S(0, d + k)) = d + k
    <3>1. 0 \in Nat /\ d + k \in Nat /\ d \in Nat /\ 0 <= d /\ 0 <= d + k /\ d <= d + k /\ d <= got /\ d + k <= got
      BY <1>5, <1>6
    <3>2. S(0, d) \in Seq(Datum) /\ Len(S(0, d)) = d - 0
      BY <3>1, <1>10
    <3>3. S(d, d + k) \in Seq(Datum)
      BY <3>1, <1>10
    <3>4. S(0, d + k) \in Seq(Datum) /\ Len(S(0, d + k)) = (d + k) - 0
      BY <3>1, <1>10
    <3>5. d - 0 = d /\ (d + k) - 0 = d + k
      BY <3>1
    <3> QED BY <3>2, <3>3, <3>4, <3>5
  <2>2. S(0, d) \o S(d, d + k) = S(0, d + k)
    <3>1. 0 \in Nat /\ d + k \in Nat /\ d \in Nat /\ 0 <= d /\ d <= d + k /\ d + k <= got
      BY <1>5, <1>6
    <3> QED BY <3>1, <1>11
  <2>3. (IF output = << >> THEN Hole ELSE output) = Hole \o S(0, d)
    <3>1. CASE d = 0
      <4>1. S(0, d) = << >>
        BY <3>1, <2>1, EmptySeq
      <4>2. Hole \o << >> = Hole
        BY <1>9, ConcatEmptySeq
      <4> QED BY <3>1, <4>1, <4>2, <1>7
    <3>2. CASE d # 0
      <4>1. Skipped + 0 + 1 = Skipped + 1
        BY <1>4
      <4>2. output = Hole \o S(0, d)
        BY <3>2, <1>7, <4>1 DEF S
      <4>3. output # << >>
        <5>1. Len(Hole \o S(0, d)) = Len(Hole) + d /\ Len(Hole) \in Nat
          BY <2>1, <1>9, ConcatProperties, LenProperties
        <5>2. Len(output) > 0
          BY <5>1, <4>2, <3>2, <1>6
        <5> QED BY <5>2
      <4> QED BY <4>2, <4>3
    <3> QED BY <3>1, <3>2
  <2>4. output' = (Hole \o S(0, d)) \o S(d, d + k)
    BY <1>p, <2>3, <1>13
  <2>5. output' = Hole \o (S(0, d) \o S(d, d + k))
    <3> DEFINE u == S(0, d)
               v == S(d, d + k)
    <3>1. Hole \in Seq(Datum) /\ u \in Seq(Datum) /\ v \in Seq(Datum)
      BY <2>1, <1>9
    <3> HIDE DEF u, v
    <3>2. (Hole \o u) \o v = Hole \o (u \o v)
      BY <3>1, ConcatAssociative, SMTT(30)
    <3> QED BY <3>2, <2>4 DEF u, v
  <2>6. output' = Hole \o S(0, d + k)
    BY <2>2, <2>5
  <2> QED BY <2>6, <2>1, <1>9, ConcatProperties
<1>16. /\ records.blocksIn \in Nat /\ records.partialIn \in Nat /\ records.blocksOut \in Nat
       /\ records.partialOut \in Nat /\ records.bytes \in Nat /\ records \in Record
  BY <1>1 DEF DdTypeOK, Record
<1>17. /\ Len(left) <= Len(block) /\ left # << >>
  BY <1>1 DEF InPlace
<1>18. CASE k = Len(left)
  <2>1. turn' = "read" /\ records' = Counted(Len(block)) /\ Len(left') = 0
    BY <1>p, <1>14, <1>18, <1>3
  <2>2. left' = << >>
    BY <2>1, <1>14, EmptySeq
  <2>3. /\ records' \in Record /\ records'.bytes = records.bytes + Len(block)
        /\ records'.blocksIn = records.blocksIn /\ records'.partialIn = records.partialIn
        /\ records'.blocksOut = (IF Len(block) = order.bs THEN records.blocksOut + 1 ELSE records.blocksOut)
        /\ records'.partialOut = (IF Len(block) = order.bs THEN records.partialOut ELSE records.partialOut + 1)
    BY <2>1, <1>16, <1>n, CountedIs
  <2>4. DdTypeOK'
    BY <1>1, <1>2, <1>14, <1>15, <2>1, <2>3 DEF DdTypeOK, Turns
  <2>5. Checked' /\ Untouched'
    BY <1>1, <1>2, <1>3, <2>1, OffsetsAssumption DEF Checked, Untouched, Going
  <2>6. InPlace'
    <3>1. Done' = d + k /\ d + k # 0 /\ d + k = got /\ Len(left') = 0
      BY <1>14, <1>18, <1>5, <1>6, <2>1
    <3>2. left' = SubSeq(order.input, Skipped + (d + k) + 1, Skipped + got)
      BY <1>p, <1>13 DEF S
    <3>3. Skipped + 0 + 1 = Skipped + 1
      BY <1>4
    <3>4. output' = Hole \o SubSeq(order.input, Skipped + 1, Skipped + (d + k))
      BY <3>3, <1>15 DEF S
    <3>5. /\ got' <= Len(order'.input) - Skipped' /\ Len(left') <= Len(block') /\ Len(block') <= got'
      BY <3>1, <1>1, <1>2, <1>3, <1>8 DEF InPlace
    <3>6. ~(turn' = "write" \/ "write" \in broken')
      BY <2>1, <1>1, <1>2
    <3>7. turn' = "write" \/ "write" \in broken' <=> left' # << >>
      BY <3>6, <2>2
    <3>8. left' = SubSeq(order'.input, Skipped' + Done' + 1, Skipped' + got')
      BY <3>1, <3>2, <1>2, <1>8
    <3>9. output' = IF Done' = 0 THEN << >> ELSE Hole' \o SubSeq(order'.input, Skipped' + 1, Skipped' + Done')
      BY <3>1, <3>4, <1>2, <1>8
    <3> QED BY <3>5, <3>7, <3>8, <3>9 DEF InPlace
  <2>7. Reported'
    <3>1. /\ records.bytes = got - Len(block) /\ records.blocksOut * order.bs + records.partialOut <= records.bytes
          /\ order.count >= 0 => records.blocksIn + records.partialIn <= order.count
          /\ records.partialIn = 0 => got = records.blocksIn * order.bs
      BY <1>1, <1>17 DEF Reported
    <3>2. /\ records.blocksIn = (IF Len(block) = order.bs THEN records.blocksOut + 1 ELSE records.blocksOut)
          /\ records.partialIn = (IF Len(block) = order.bs THEN records.partialOut ELSE records.partialOut + 1)
      BY <1>1, <1>16, <1>17 DEF Reported, FullInHand, PartInHand
    <3>3. records'.bytes = got'
      BY <3>1, <2>3, <1>2, <1>3, <1>16
    <3>4. records'.blocksOut * order.bs + records'.partialOut <= records'.bytes
      <4>1. Len(block) >= 1
        BY <1>3, <1>5, <1>17
      <4>2. (records.blocksOut + 1) * order.bs = records.blocksOut * order.bs + order.bs
            /\ records.blocksOut * order.bs \in Nat
        BY <1>3, <1>16, Times
      <4> DEFINE t == records.blocksOut * order.bs
      <4>3. CASE Len(block) = order.bs
        <5>1. records'.blocksOut * order.bs = t + order.bs /\ records'.partialOut = records.partialOut
              /\ records'.bytes = records.bytes + order.bs
          BY <4>2, <4>3, <2>3
        <5>2. t + records.partialOut <= records.bytes /\ t \in Nat
          BY <3>1, <4>2
        <5> HIDE DEF t
        <5> QED BY <5>1, <5>2, <1>3, <1>16
      <4>4. CASE Len(block) # order.bs
        <5>1. records'.blocksOut * order.bs = t /\ records'.partialOut = records.partialOut + 1
              /\ records'.bytes = records.bytes + Len(block)
          BY <4>4, <2>3
        <5>2. t + records.partialOut <= records.bytes /\ t \in Nat
          BY <3>1, <4>2
        <5> HIDE DEF t
        <5> QED BY <5>1, <5>2, <4>1, <1>3, <1>16
      <4> QED BY <4>3, <4>4
    <3>5. records'.blocksIn = records'.blocksOut /\ records'.partialIn = records'.partialOut
      BY <3>2, <2>3
    <3>6. FullInHand' = 0 /\ PartInHand' = 0
      BY <2>2 DEF FullInHand, PartInHand
    <3>7. /\ records'.bytes = got' - 0
          /\ records'.blocksIn = records'.blocksOut + FullInHand' /\ records'.partialIn = records'.partialOut + PartInHand'
      BY <3>3, <3>5, <3>6, <1>2, <1>3, <2>3 DEF Record
    <3> QED BY <3>1, <3>4, <3>7, <2>1, <2>2, <2>3, <1>2 DEF Reported
  <2> QED BY <2>4, <2>5, <2>6, <2>7 DEF DdInv
<1>19. CASE k # Len(left)
  <2>1. turn' = turn /\ records' = records /\ Len(left') > 0
    BY <1>p, <1>14, <1>19, <1>3, <1>5
  <2>2. left' # << >>
    BY <2>1
  <2>4. DdTypeOK'
    BY <1>1, <1>2, <1>14, <1>15, <2>1 DEF DdTypeOK, Turns
  <2>5. Checked' /\ Untouched'
    BY <1>1, <1>2, <1>3, <2>1, OffsetsAssumption DEF Checked, Untouched, Going
  <2>6. InPlace'
    <3>1. Done' = d + k /\ d + k # 0 /\ Len(left') <= Len(left)
      BY <1>14, <1>3, <1>5, <1>6
    <3>2. left' = SubSeq(order.input, Skipped + (d + k) + 1, Skipped + got)
      BY <1>p, <1>13 DEF S
    <3>3. Skipped + 0 + 1 = Skipped + 1
      BY <1>4
    <3>4. output' = Hole \o SubSeq(order.input, Skipped + 1, Skipped + (d + k))
      BY <3>3, <1>15 DEF S
    <3>5. /\ got' <= Len(order'.input) - Skipped' /\ Len(left') <= Len(block') /\ Len(block') <= got'
      <4>1. got <= Len(order.input) - Skipped /\ Len(left) <= Len(block) /\ Len(block) <= got
        BY <1>1 DEF InPlace
      <4>2. Len(left') <= Len(block)
        BY <4>1, <1>14, <1>3, <1>5
      <4> QED BY <4>1, <4>2, <1>2, <1>8
    <3> QED BY <3>1, <3>2, <3>4, <3>5, <2>1, <2>2, <1>1, <1>2, <1>8 DEF InPlace
  <2>7. Reported'
    <3>1. FullInHand' = FullInHand /\ PartInHand' = PartInHand
      BY <2>2, <1>2, <1>17 DEF FullInHand, PartInHand
    <3> QED BY <3>1, <2>1, <2>2, <1>1, <1>2, <1>17 DEF Reported
  <2> QED BY <2>4, <2>5, <2>6, <2>7 DEF DdInv
<1> QED BY <1>18, <1>19

(* Every step of dd keeps the invariant. *)
LEMMA DdNextInv == DdInv /\ [DdNext]_ddVars => DdInv'
<1> SUFFICES ASSUME DdInv, [DdNext]_ddVars PROVE DdInv'
  OBVIOUS
<1>1. CASE CheckSize \/ OpenIn \/ OpenOut
  BY <1>1, OpeningInv
<1>2. CASE Allocate
  BY <1>2, AllocateInv
<1>3. CASE ReadBlock
  BY <1>3, ReadBlockInv
<1>4. CASE ReadsNoMore
  BY <1>4, ReadsNoMoreInv
<1>5. CASE Write
  BY <1>5, WriteInv
<1>6. CASE WriteFails
  BY <1>6, WriteFailsInv
<1>7. CASE UNCHANGED ddVars
  <2>1. UNCHANGED <<order, turn, got, block, left, output, records, ddCode, broken>>
    BY <1>7 DEF ddVars, transfer
  <2>2. DdTypeOK' /\ Checked' /\ Untouched' /\ Going' = Going
    BY <2>1 DEF DdInv, DdTypeOK, Checked, Untouched, Going
  <2>3. Skipped' = Skipped /\ Hole' = Hole /\ Done' = Done /\ Ahead' = Ahead /\ GoesOn' = GoesOn
        /\ FullInHand' = FullInHand /\ PartInHand' = PartInHand
    BY <2>1 DEF Skipped, Hole, Position, Done, Ahead, GoesOn, FullInHand, PartInHand
  <2>4. InPlace' = InPlace /\ Reported' = Reported
    BY <2>1, <2>3 DEF InPlace, Reported
  <2> QED BY <2>2, <2>4 DEF DdInv
<1> QED BY <1>1, <1>2, <1>3, <1>4, <1>5, <1>6, <1>7 DEF DdNext

LEMMA InOrder ==
  ASSUME NEW m \in Nat, NEW n \in Nat, NEW b \in Nat, m <= n
  PROVE  m * b <= n * b
<1> DEFINE k == n - m
<1>1. k \in Nat /\ n = m + k
  OBVIOUS
<1>2. (m + k) * b = m * b + k * b /\ k * b \in Nat /\ m * b \in Nat
  <2> HIDE DEF k
  <2> QED BY <1>1
<1> HIDE DEF k
<1> QED BY <1>1, <1>2

(* Where dd promises something: what was asked for is what it reads, and   *)
(* the hole is as long as was asked for.                                   *)
LEMMA AskedIs ==
  ASSUME order \in Orders, order.input # Missing, Representable(order.skip), Representable(order.seek)
  PROVE  /\ Asked = SubSeq(order.input, Skipped + 1, Len(order.input))
         /\ Len(Asked) = Len(order.input) - Skipped
         /\ Hole = [i \in 1..Before |-> Null] /\ Len(Hole) = Before /\ Hole \in Seq(Datum)
         /\ Before \in Nat
<1>1. /\ order.skip \in Nat /\ order.seek \in Nat /\ order.bs \in Nat
      /\ order.canSkip \in BOOLEAN /\ order.canSeek \in BOOLEAN
  BY OrderIs
<1>2. /\ order.input \in Seq(Datum) /\ Len(order.input) \in Nat
      /\ Skipped \in Nat /\ Skipped <= Len(order.input)
  BY SkippedIs
<1>3. Position(order.skip, order.canSkip) = IF order.canSkip THEN order.skip * order.bs ELSE 0
  BY <1>1, PositionIs
<1>4. /\ Position(order.seek, order.canSeek) = IF order.canSeek THEN order.seek * order.bs ELSE 0
      /\ Position(order.seek, order.canSeek) \in Nat
  BY <1>1, PositionIs
<1>5. Skipped = IF order.canSkip THEN Smaller(order.skip * order.bs, Len(order.input)) ELSE 0
  <2>1. Smaller(0, Len(order.input)) = 0
    BY <1>2 DEF Smaller
  <2> QED BY <2>1, <1>3 DEF Skipped
<1>6. Asked = SubSeq(order.input, 1 + Skipped, Len(order.input))
  BY <1>5 DEF Asked
<1>7. 1 + Skipped = Skipped + 1
  BY <1>2
<1>8. Len(SubSeq(order.input, Skipped + 1, Len(order.input))) = Len(order.input) - Skipped
  BY <1>2, PartOf
<1>9. Before = Position(order.seek, order.canSeek)
  BY <1>4 DEF Before
<1>10. Hole \in Seq(Datum) /\ Len(Hole) = Before
  BY <1>9, HoleIs
<1>11. Hole = [i \in 1..Before |-> Null]
  BY <1>9 DEF Hole
<1> QED BY <1>4, <1>6, <1>7, <1>8, <1>9, <1>10, <1>11

(* The invariant is more than what dd promises. *)
LEMMA InvAccounts == DdInv => DdAccounts
<1> SUFFICES ASSUME DdInv PROVE DdAccounts
  OBVIOUS
<1>1. DdTypeOK /\ Checked /\ Untouched
  BY DEF DdInv
<1> DEFINE size == IF output = << >> THEN 0 ELSE Len(output) - Before
<1>2. ASSUME Going, Representable(order.skip), Representable(order.seek)
      PROVE  /\ output # << >> => output = [i \in 1..Before |-> Null] \o SubSeq(Asked, 1, size)
             /\ records.blocksOut * order.bs + records.partialOut <= records.bytes
             /\ records.bytes <= size
             /\ order.count >= 0 => records.blocksIn + records.partialIn <= order.count
             /\ turn = "done" /\ "write" \notin broken =>
                  /\ records.bytes = size
                  /\ records.blocksIn = records.blocksOut /\ records.partialIn = records.partialOut
             /\ turn = "done" /\ broken = {} /\ (order.count >= 0 => records.partialIn = 0) => size = Blocks
  <2>1. InPlace /\ Reported
    BY <1>2 DEF DdInv
  <2>2. order \in Orders /\ order.input # Missing
    BY <1>1, <1>2 DEF Checked, DdTypeOK
  <2>3. /\ order.input \in Seq(Datum) /\ Len(order.input) \in Nat
        /\ Skipped \in Nat /\ Skipped <= Len(order.input)
    BY <2>2, SkippedIs
  <2>4. /\ Asked = SubSeq(order.input, Skipped + 1, Len(order.input))
        /\ Len(Asked) = Len(order.input) - Skipped
        /\ Hole = [i \in 1..Before |-> Null] /\ Len(Hole) = Before /\ Hole \in Seq(Datum)
        /\ Before \in Nat
    BY <1>2, <2>2, AskedIs
  <2>5. got \in Nat /\ Len(left) \in Nat /\ Len(block) \in Nat /\ order.bs \in Nat /\ order.count \in Int
        /\ order.count >= -1
    BY <1>1, <2>2, OrderIs, LenProperties DEF DdTypeOK
  <2>6. /\ records.blocksIn \in Nat /\ records.partialIn \in Nat /\ records.blocksOut \in Nat
        /\ records.partialOut \in Nat /\ records.bytes \in Nat
    BY <1>1 DEF DdTypeOK, Record
  <2>7. Len(left) <= Len(block) /\ Len(block) <= got /\ got <= Len(order.input) - Skipped
    BY <2>1 DEF InPlace
  <2>8. Done = got - Len(left) /\ Done \in Nat /\ Done <= Len(order.input) - Skipped
    BY <2>3, <2>5, <2>7 DEF Done
  <2>9. output = IF Done = 0 THEN << >> ELSE Hole \o SubSeq(order.input, Skipped + 1, Skipped + Done)
    BY <2>1 DEF InPlace
  <2>10. SubSeq(Asked, 1, Done) = SubSeq(order.input, Skipped + 1, Skipped + Done)
    <3>1. SubSeq(SubSeq(order.input, Skipped + 1, Len(order.input)), 0 + 1, Done)
            = SubSeq(order.input, Skipped + 0 + 1, Skipped + Done)
      BY <2>3, <2>8, PartOfPart
    <3>2. 0 + 1 = 1 /\ Skipped + 0 + 1 = Skipped + 1
      BY <2>3
    <3> QED BY <3>1, <3>2, <2>4
  <2>11. SubSeq(order.input, Skipped + 1, Skipped + Done) \in Seq(Datum)
         /\ Len(SubSeq(order.input, Skipped + 1, Skipped + Done)) = Done
    <3> DEFINE b == Skipped + Done
    <3>1. b \in Nat /\ Skipped <= b /\ b <= Len(order.input) /\ b - Skipped = Done
      BY <2>3, <2>8
    <3> HIDE DEF b
    <3>2. SubSeq(order.input, Skipped + 1, b) \in Seq(Datum) /\ Len(SubSeq(order.input, Skipped + 1, b)) = b - Skipped
      BY <3>1, <2>3, PartOf
    <3> QED BY <3>1, <3>2 DEF b
  <2>12. Done # 0 => Len(output) = Before + Done /\ output # << >>
    <3> SUFFICES ASSUME Done # 0 PROVE Len(output) = Before + Done /\ output # << >>
      OBVIOUS
    <3>1. Len(output) = Len(Hole) + Len(SubSeq(order.input, Skipped + 1, Skipped + Done))
      BY <2>4, <2>9, <2>11, ConcatProperties
    <3>2. Len(output) = Before + Done
      BY <3>1, <2>4, <2>11
    <3>3. Len(output) > 0
      BY <3>2, <2>4, <2>8
    <3> QED BY <3>2, <3>3
  <2>13. size = Done /\ (output # << >> <=> Done # 0)
    <3>1. CASE Done = 0
      BY <3>1, <2>9
    <3>2. CASE Done # 0
      <4>1. size = Len(output) - Before
        BY <3>2, <2>12
      <4>2. size = (Before + Done) - Before
        BY <3>2, <2>12, <4>1
      <4> HIDE DEF size
      <4> QED BY <3>2, <4>2, <2>4, <2>8, <2>12
    <3> QED BY <3>1, <3>2
  <2> HIDE DEF size
  <2>14. output # << >> => output = [i \in 1..Before |-> Null] \o SubSeq(Asked, 1, size)
    BY <2>4, <2>9, <2>10, <2>13
  <2>15. records.bytes <= size
    <3>1. left = << >> => Len(left) = 0
      OBVIOUS
    <3>2. records.bytes = got - (IF left = << >> THEN 0 ELSE Len(block))
      BY <2>1 DEF Reported
    <3>3. CASE left = << >>
      BY <3>1, <3>2, <3>3, <2>5, <2>8, <2>13
    <3>4. CASE left # << >>
      <4>1. records.bytes = got - Len(block)
        BY <3>2, <3>4
      <4> QED BY <4>1, <2>5, <2>7, <2>8, <2>13
    <3> QED BY <3>3, <3>4
  <2>16. ASSUME turn = "done", "write" \notin broken
         PROVE  /\ left = << >> /\ got = size /\ records.bytes = size
                /\ records.blocksIn = records.blocksOut /\ records.partialIn = records.partialOut
    <3>1. left = << >>
      BY <2>1, <2>16 DEF InPlace
    <3>2. Len(left) = 0
      BY <3>1
    <3>3. got = size
      BY <3>2, <2>5, <2>8, <2>13
    <3>4. records.bytes = got - 0 /\ records.blocksIn = records.blocksOut + 0 /\ records.partialIn = records.partialOut + 0
      BY <2>1, <3>1 DEF Reported, FullInHand, PartInHand
    <3> QED BY <3>1, <3>3, <3>4, <2>5, <2>6
  <2>17. ASSUME turn = "done", broken = {}, order.count >= 0 => records.partialIn = 0
         PROVE  size = Blocks
    <3>1. got = size
      BY <2>16, <2>17
    <3>2. Ahead = 0 \/ ~GoesOn
      BY <2>1, <2>17 DEF Reported
    <3>3. Ahead = 0 => got = Len(Asked)
      <4>1. Ahead = Len(order.input) - Skipped - got
        BY DEF Ahead
      <4> QED BY <4>1, <2>3, <2>4, <2>5
    <3>4. got <= Len(Asked) /\ Len(Asked) \in Nat
      BY <2>3, <2>4, <2>5, <2>7
    <3>5. CASE order.count = -1
      <4>1. GoesOn
        BY <3>5 DEF GoesOn
      <4>2. Blocks = Len(Asked)
        BY <3>5 DEF Blocks
      <4> QED BY <4>1, <4>2, <3>1, <3>2, <3>3
    <3>6. CASE order.count # -1
      <4>1. order.count \in Nat /\ order.count >= 0
        BY <3>6, <2>5
      <4>2. records.partialIn = 0 /\ got = records.blocksIn * order.bs
        BY <4>1, <2>1, <2>17 DEF Reported
      <4>3. records.blocksIn <= order.count
        <5>1. records.blocksIn + records.partialIn <= order.count
          BY <4>1, <2>1 DEF Reported
        <5> QED BY <5>1, <4>2, <2>6
      <4>4. Blocks = Smaller(order.count * order.bs, Len(Asked))
        BY <3>6 DEF Blocks
      <4>5. got <= order.count * order.bs /\ order.count * order.bs \in Nat
        BY <4>1, <4>2, <4>3, <2>5, <2>6, InOrder
      <4>6. ~GoesOn => got = order.count * order.bs
        <5>1. ~GoesOn => ~(records.blocksIn + records.partialIn < order.count)
          BY DEF GoesOn
        <5>2. ~GoesOn => records.blocksIn = order.count
          BY <5>1, <4>1, <4>2, <4>3, <2>6
        <5> QED BY <5>2, <4>2
      <4> DEFINE m == order.count * order.bs
      <4>7. Smaller(m, Len(Asked)) = got
        <5> HIDE DEF m
        <5>1. m \in Nat /\ got <= m /\ (got = m \/ got = Len(Asked))
          BY <4>5, <4>6, <3>2, <3>3 DEF m
        <5> QED BY <5>1, <3>4, <2>5 DEF Smaller
      <4> QED BY <4>4, <4>7, <3>1
    <3> QED BY <3>5, <3>6
  <2>18. /\ records.blocksOut * order.bs + records.partialOut <= records.bytes
         /\ order.count >= 0 => records.blocksIn + records.partialIn <= order.count
    BY <2>1 DEF Reported
  <2> QED BY <2>14, <2>15, <2>16, <2>17, <2>18
<1>3. (turn \in {"options", "input", "output"} \/ order.input = Missing \/ order.bs = 0) => output = order.old
  BY <1>1 DEF Checked
<1> HIDE DEF size
<1>4. (turn \in {"read", "write"} \/ (turn = "done" /\ ddCode = 0)) => Going
  BY DEF Going
<1> QED BY <1>2, <1>3, <1>4 DEF DdAccounts, size
-------------------------------------------------------------------------------
(* The invariant of dd (dd.c:85-103): where it is in the input and in the  *)
(* output, and what its counters stand for.                                *)
THEOREM DdInvariance == DdSpec => []DdInv
BY DdInitInv, DdNextInv, PTL DEF DdSpec

(* The variables of dd keep their types, whatever it is called with: a     *)
(* block, counts from 0, and an output that is a file (dd.c:22-103).       *)
THEOREM DdTypes == DdSpec => []DdTypeOK
<1>1. DdInv => DdTypeOK
  BY DEF DdInv
<1> QED BY <1>1, DdInvariance, PTL

(* dd, whatever the parts in which it reads and writes (dd.c:86, 95) and   *)
(* whatever fails: the output is what was asked for or its beginning, in   *)
(* its place, the summary (dd.c:107-113) is true of it, and where nothing  *)
(* came short it is all of it.                                             *)
THEOREM DdIsRight == DdSpec => []DdAccounts
BY InvAccounts, DdInvariance, PTL
-------------------------------------------------------------------------------
(* diff *)

(* Types: what was read and what was printed.  A hunk's numbers are        *)
(* integers here; that they are those of lines is RightHunk.               *)
Line == Seq(Char)
Hunk == [op : {"a", "c", "d"}, left : Int \X Int, right : Int \X Int, old : Seq(Line), new : Seq(Line)]
DiffTypeOK ==
  /\ pair \in (Text \cup {NoSuch}) \X (Text \cup {NoSuch})
  /\ doing \in {"read", "compare", "scan", "done"} /\ reading \in {1, 2} /\ place \in Nat \X Nat
  /\ texts \in [{1, 2} -> Text] /\ spot \in Nat \X Nat /\ hunks \in Seq(Hunk) /\ verdict \in 0..2

(* Behind u lines of the first file and m of the second come the same      *)
(* lines, up to i of the one and j of the other.                           *)
SameLines(u, m, i, j) ==
  u <= i /\ m <= j /\ i - u = j - m /\ \A k \in 1..(i - u) : linesA[u + k] = linesB[m + k]

(* How far the first n hunks lead in the first file and in the second.     *)
Used(n) == IF n = 0 THEN 0 ELSE hunks[n].left[2]
Made(n) == IF n = 0 THEN 0 ELSE hunks[n].right[2]

(* A hunk is right behind u and m lines: the same lines lead to it, and it *)
(* is one of the three kinds.                                              *)
RightAt(h, u, m, i, j) ==
  /\ SameLines(u, m, i, j)
  /\ \/ \E k \in 1..(Len(linesA) - i) : h = Deleted(i, j, k)
     \/ \E k \in 1..(Len(linesB) - j) : h = Added(i, j, k)
     \/ i < Len(linesA) /\ j < Len(linesB) /\ h = Changed(i, j)
RightHunk(h, u, m) == \E i \in 0..Len(linesA), j \in 0..Len(linesB) : RightAt(h, u, m, i, j)
Chained == \A n \in 1..Len(hunks) : RightHunk(hunks[n], Used(n - 1), Made(n - 1))
UpToHere ==
  /\ ia <= Len(linesA) /\ ib <= Len(linesB)
  /\ SameLines(Used(Len(hunks)), Made(Len(hunks)), ia, ib)

DiffInv ==
  /\ DiffTypeOK /\ Chained /\ UpToHere
  /\ doing \in {"read", "compare"} => hunks = << >> /\ spot = <<0, 0>> /\ verdict = 0
  /\ doing = "scan" => verdict = 0 /\ linesA # linesB
  /\ doing = "done" =>
       \/ verdict = 2
       \/ verdict = 0 /\ linesA = linesB /\ hunks = << >>
       \/ verdict = 1 /\ linesA # linesB /\ spot = <<Len(linesA), Len(linesB)>>

LEMMA TextsAre ==
  ASSUME DiffTypeOK
  PROVE  /\ linesA \in Seq(Line) /\ linesB \in Seq(Line) /\ Len(linesA) \in Nat /\ Len(linesB) \in Nat
         /\ ia \in Nat /\ ib \in Nat /\ Len(hunks) \in Nat
BY DEF DiffTypeOK, linesA, linesB, ia, ib, Text, Line

(* What is the same in both files may be taken from either.                *)
LEMMA SamePart ==
  ASSUME DiffTypeOK, NEW u \in Nat, NEW m \in Nat, NEW i \in 0..Len(linesA), NEW j \in 0..Len(linesB),
         SameLines(u, m, i, j)
  PROVE  SubSeq(linesA, u + 1, i) = SubSeq(linesB, m + 1, j)
<1>1. /\ linesA \in Seq(Line) /\ linesB \in Seq(Line) /\ Len(linesA) \in Nat /\ Len(linesB) \in Nat
      /\ u <= i /\ m <= j /\ i - u = j - m /\ \A k \in 1..(i - u) : linesA[u + k] = linesB[m + k]
  BY TextsAre DEF SameLines
<1> DEFINE x == SubSeq(linesA, u + 1, i)
           y == SubSeq(linesB, m + 1, j)
<1>2. x \in Seq(Line) /\ Len(x) = i - u /\ \A k \in 1..(i - u) : x[k] = linesA[u + k]
  BY <1>1, PartOf
<1>3. y \in Seq(Line) /\ Len(y) = j - m /\ \A k \in 1..(j - m) : y[k] = linesB[m + k]
  BY <1>1, PartOf
<1> HIDE DEF x, y
<1>4. \A k \in 1..Len(x) : x[k] = y[k]
  BY <1>1, <1>2, <1>3
<1>5. x = y
  BY <1>1, <1>2, <1>3, <1>4, SeqEqual
<1> QED BY <1>5 DEF x, y

LEMMA Starts ==
  ASSUME NEW S, NEW s \in Seq(S), NEW b \in Nat, NEW c \in Nat, b <= c, c <= Len(s)
  PROVE  /\ SubSeq(s, 1, b) \in Seq(S) /\ Len(SubSeq(s, 1, b)) = b
         /\ SubSeq(s, 1, b) \o SubSeq(s, b + 1, c) = SubSeq(s, 1, c)
<1> DEFINE a == 0
<1>1. Len(s) \in Nat /\ a \in Nat /\ a <= b /\ b <= Len(s) /\ a + 1 = 1 /\ b - a = b
  BY LenProperties
<1> HIDE DEF a
<1>2. SubSeq(s, a + 1, b) \in Seq(S) /\ Len(SubSeq(s, a + 1, b)) = b - a
  BY <1>1, PartOf
<1>3. SubSeq(s, a + 1, b) \o SubSeq(s, b + 1, c) = SubSeq(s, a + 1, c)
  BY <1>1, Joined
<1> QED BY <1>1, <1>2, <1>3

LEMMA OneLine ==
  ASSUME NEW S, NEW s \in Seq(S), NEW i \in Nat, i < Len(s)
  PROVE  <<s[i + 1]>> = SubSeq(s, i + 1, i + 1)
<1>1. Len(s) \in Nat
  BY LenProperties
<1> DEFINE x == SubSeq(s, i + 1, i + 1)
<1>2. x \in Seq(S) /\ Len(x) = (i + 1) - i /\ \A k \in 1..((i + 1) - i) : x[k] = s[i + k]
  BY <1>1, PartOf
<1> HIDE DEF x
<1>3. s[i + 1] \in S
  BY <1>1, ElementOfSeq
<1>4. Len(x) = 1 /\ x[1] = s[i + 1]
  BY <1>2
<1>5. x = <<s[i + 1]>>
  <2>1. <<s[i + 1]>> \in Seq(S) /\ Len(<<s[i + 1]>>) = 1 /\ <<s[i + 1]>>[1] = s[i + 1]
    BY <1>3
  <2>2. \A k \in 1..Len(x) : x[k] = <<s[i + 1]>>[k]
    BY <1>4, <2>1
  <2> QED BY <1>2, <1>4, <2>1, <2>2, SeqEqual
<1> QED BY <1>5 DEF x

(* A hunk that is right makes of the beginning of the second file a longer *)
(* one, and fits.                                                          *)
Beginning(u, m) == [text |-> SubSeq(linesB, 1, m), used |-> u, fits |-> TRUE]
LEMMA Leads ==
  ASSUME DiffTypeOK, NEW u \in Nat, NEW m \in Nat, NEW h, RightHunk(h, u, m)
  PROVE  /\ Apply(Beginning(u, m), h) = Beginning(h.left[2], h.right[2])
         /\ h.left[2] \in 0..Len(linesA) /\ h.right[2] \in 0..Len(linesB) /\ h \in Hunk
<1> PICK i \in 0..Len(linesA), j \in 0..Len(linesB) : RightAt(h, u, m, i, j)
  BY DEF RightHunk
<1>1. /\ linesA \in Seq(Line) /\ linesB \in Seq(Line) /\ Len(linesA) \in Nat /\ Len(linesB) \in Nat
      /\ u <= i /\ m <= j
  BY TextsAre DEF RightAt, SameLines
<1> DEFINE text == SubSeq(linesB, 1, m) \o SubSeq(linesA, u + 1, i)
<1>2. text = SubSeq(linesB, 1, j)
  <2>1. SubSeq(linesA, u + 1, i) = SubSeq(linesB, m + 1, j)
    BY SamePart DEF RightAt
  <2>2. SubSeq(linesB, 1, m) \o SubSeq(linesB, m + 1, j) = SubSeq(linesB, 1, j)
    BY <1>1, Starts
  <2> QED BY <2>1, <2>2
<1>3. text \in Seq(Line) /\ Len(text) = j
  <2>1. SubSeq(linesB, 1, j) \in Seq(Line) /\ Len(SubSeq(linesB, 1, j)) = j
    BY <1>1, Starts
  <2> HIDE DEF text
  <2> QED BY <1>2, <2>1
<1> HIDE DEF text
<1>4. ASSUME NEW until, until = (IF h.op = "a" THEN h.left[1] ELSE h.left[1] - 1), until = i
      PROVE  Apply(Beginning(u, m), h) =
               [text |-> text \o h.new,
                used |-> h.left[2],
                fits |-> /\ TRUE /\ u <= i
                         /\ h.op # "a" => h.old = SubSeq(linesA, h.left[1], h.left[2])
                         /\ IF h.op = "d" THEN h.right[1] = Len(text)
                            ELSE h.right = <<Len(text) + 1, Len(text) + Len(h.new)>>]
  BY <1>4 DEF Apply, Beginning, text
<1>5. ASSUME NEW k \in 1..(Len(linesA) - i), h = Deleted(i, j, k)
      PROVE  /\ Apply(Beginning(u, m), h) = Beginning(h.left[2], h.right[2])
             /\ h.left[2] \in 0..Len(linesA) /\ h.right[2] \in 0..Len(linesB) /\ h \in Hunk
  <2>1. /\ h.op = "d" /\ h.left = <<i + 1, i + k>> /\ h.right = <<j, j>>
        /\ h.old = SubSeq(linesA, i + 1, i + k) /\ h.new = << >>
    BY <1>5 DEF Deleted
  <2>2. h.left[1] = i + 1 /\ h.left[2] = i + k /\ h.right[1] = j /\ h.right[2] = j
    BY <2>1
  <2>3. SubSeq(linesA, i + 1, i + k) \in Seq(Line)
    BY <1>1, PartOf
  <2>4. text \o << >> = text
    BY <1>3, ConcatEmptySeq
  <2>5. Apply(Beginning(u, m), h) = [text |-> text, used |-> i + k, fits |-> TRUE]
    <3>1. i = (IF h.op = "a" THEN h.left[1] ELSE h.left[1] - 1)
      BY <2>1, <2>2
    <3> QED BY <3>1, <2>1, <2>2, <2>4, <1>1, <1>3, <1>4
  <2>6. h \in Hunk
    <3>1. << >> \in Seq(Line)
      OBVIOUS
    <3>2. h = [op |-> "d", left |-> <<i + 1, i + k>>, right |-> <<j, j>>, old |-> SubSeq(linesA, i + 1, i + k), new |-> << >>]
      BY <1>5 DEF Deleted
    <3> QED BY <3>1, <3>2, <2>3 DEF Hunk
  <2> QED BY <2>2, <2>5, <2>6, <1>1, <1>2 DEF Beginning
<1>6. ASSUME NEW k \in 1..(Len(linesB) - j), h = Added(i, j, k)
      PROVE  /\ Apply(Beginning(u, m), h) = Beginning(h.left[2], h.right[2])
             /\ h.left[2] \in 0..Len(linesA) /\ h.right[2] \in 0..Len(linesB) /\ h \in Hunk
  <2>1. /\ h.op = "a" /\ h.left = <<i, i>> /\ h.right = <<j + 1, j + k>>
        /\ h.old = << >> /\ h.new = SubSeq(linesB, j + 1, j + k)
    BY <1>6 DEF Added
  <2>2. h.left[1] = i /\ h.left[2] = i /\ h.right[1] = j + 1 /\ h.right[2] = j + k
    BY <2>1
  <2>3. SubSeq(linesB, j + 1, j + k) \in Seq(Line) /\ Len(SubSeq(linesB, j + 1, j + k)) = k
    BY <1>1, PartOf
  <2>4. text \o h.new = SubSeq(linesB, 1, j + k)
    <3>1. SubSeq(linesB, 1, j) \o SubSeq(linesB, j + 1, j + k) = SubSeq(linesB, 1, j + k)
      BY <1>1, Starts
    <3> QED BY <3>1, <2>1, <1>2
  <2>5. Apply(Beginning(u, m), h) = [text |-> SubSeq(linesB, 1, j + k), used |-> i, fits |-> TRUE]
    <3>1. i = (IF h.op = "a" THEN h.left[1] ELSE h.left[1] - 1)
      BY <2>1, <2>2
    <3>2. h.right = <<Len(text) + 1, Len(text) + Len(h.new)>>
      BY <2>1, <2>3, <1>3
    <3> QED BY <3>1, <3>2, <2>1, <2>2, <2>4, <1>1, <1>4
  <2>6. h \in Hunk
    <3>1. << >> \in Seq(Line)
      OBVIOUS
    <3>2. h = [op |-> "a", left |-> <<i, i>>, right |-> <<j + 1, j + k>>, old |-> << >>, new |-> SubSeq(linesB, j + 1, j + k)]
      BY <1>6 DEF Added
    <3> QED BY <3>1, <3>2, <2>3 DEF Hunk
  <2> QED BY <2>2, <2>5, <2>6, <1>1 DEF Beginning
<1>7. ASSUME i < Len(linesA), j < Len(linesB), h = Changed(i, j)
      PROVE  /\ Apply(Beginning(u, m), h) = Beginning(h.left[2], h.right[2])
             /\ h.left[2] \in 0..Len(linesA) /\ h.right[2] \in 0..Len(linesB) /\ h \in Hunk
  <2>1. /\ h.op = "c" /\ h.left = <<i + 1, i + 1>> /\ h.right = <<j + 1, j + 1>>
        /\ h.old = <<linesA[i + 1]>> /\ h.new = <<linesB[j + 1]>>
    BY <1>7 DEF Changed
  <2>2. h.left[1] = i + 1 /\ h.left[2] = i + 1 /\ h.right[1] = j + 1 /\ h.right[2] = j + 1
    BY <2>1
  <2>3. h.old = SubSeq(linesA, i + 1, i + 1) /\ h.new = SubSeq(linesB, j + 1, j + 1)
    BY <2>1, <1>1, <1>7, OneLine, SMTT(30)
  <2>4. text \o h.new = SubSeq(linesB, 1, j + 1) /\ Len(h.new) = 1
    <3>1. SubSeq(linesB, 1, j) \o SubSeq(linesB, j + 1, j + 1) = SubSeq(linesB, 1, j + 1)
      BY <1>1, <1>7, Starts
    <3> QED BY <3>1, <2>1, <2>3, <1>2
  <2>5. Apply(Beginning(u, m), h) = [text |-> SubSeq(linesB, 1, j + 1), used |-> i + 1, fits |-> TRUE]
    <3>1. i = (IF h.op = "a" THEN h.left[1] ELSE h.left[1] - 1)
      BY <2>1, <2>2
    <3>2. h.right = <<Len(text) + 1, Len(text) + Len(h.new)>>
      BY <2>1, <2>4, <1>3
    <3> QED BY <3>1, <3>2, <2>1, <2>2, <2>3, <2>4, <1>1, <1>4
  <2>6. h \in Hunk
    <3>1. linesA[i + 1] \in Line /\ linesB[j + 1] \in Line
      BY <1>1, <1>7, ElementOfSeq
    <3>2. h = [op |-> "c", left |-> <<i + 1, i + 1>>, right |-> <<j + 1, j + 1>>,
               old |-> <<linesA[i + 1]>>, new |-> <<linesB[j + 1]>>]
      BY <1>7 DEF Changed
    <3> QED BY <3>1, <3>2 DEF Hunk
  <2> QED BY <2>2, <2>5, <2>6, <1>1, <1>7 DEF Beginning
<1> QED BY <1>5, <1>6, <1>7 DEF RightAt

(* Right hunks end where the next one begins, and applied one after the    *)
(* other they make a beginning of the second file.                         *)
LEMMA InTexts ==
  ASSUME DiffTypeOK, Chained
  PROVE  \A n \in 0..Len(hunks) : Used(n) \in 0..Len(linesA) /\ Made(n) \in 0..Len(linesB)
<1> DEFINE N == Len(hunks)
           R == {n \in 0..N : Used(n) \in 0..Len(linesA) /\ Made(n) \in 0..Len(linesB)}
<1>1. N \in Nat /\ Len(linesA) \in Nat /\ Len(linesB) \in Nat
  BY TextsAre
<1>2. 0 \in R
  BY <1>1 DEF Used, Made
<1>3. ASSUME NEW n \in 1..N, n - 1 \in R PROVE n \in R
  <2>1. RightHunk(hunks[n], Used(n - 1), Made(n - 1)) /\ Used(n - 1) \in Nat /\ Made(n - 1) \in Nat
    BY <1>3 DEF Chained
  <2>2. hunks[n].left[2] \in 0..Len(linesA) /\ hunks[n].right[2] \in 0..Len(linesB)
    BY <2>1, Leads
  <2> QED BY <1>1, <2>2 DEF Used, Made
<1> HIDE DEF R
<1>4. \A n \in 0..N : n \in R
  BY <1>1, <1>2, <1>3, Reaches
<1> QED BY <1>4 DEF R

LEMMA PatchedIs ==
  ASSUME DiffTypeOK, Chained
  PROVE  Patched = Beginning(Used(Len(hunks)), Made(Len(hunks)))
<1> DEFINE N == Len(hunks)
           to(n) == Beginning(Used(n), Made(n))
           start == [text |-> << >>, used |-> 0, fits |-> TRUE]
<1>1. N \in Nat
  BY TextsAre
<1>2. to(0) = start
  <2>1. SubSeq(linesB, 1, 0) = << >>
    BY TextsAre
  <2> QED BY <2>1 DEF Beginning, Used, Made
<1>3. ASSUME NEW n \in 1..N PROVE Apply(to(n - 1), hunks[n]) = to(n)
  <2>1. RightHunk(hunks[n], Used(n - 1), Made(n - 1)) /\ Used(n - 1) \in Nat /\ Made(n - 1) \in Nat
    <3>1. n - 1 \in 0..N
      BY <1>1
    <3> QED BY <3>1, InTexts DEF Chained
  <2>2. Apply(to(n - 1), hunks[n]) = Beginning(hunks[n].left[2], hunks[n].right[2])
    BY <2>1, Leads
  <2>3. Used(n) = hunks[n].left[2] /\ Made(n) = hunks[n].right[2]
    BY DEF Used, Made
  <2> QED BY <2>2, <2>3
<1> HIDE DEF to, start
<1>4. PatchedBy = [n \in 0..N |-> IF n = 0 THEN start ELSE Apply(PatchedBy[n - 1], hunks[n])]
  <2> DEFINE f == [n \in 0..N |-> to(n)]
  <2>1. ASSUME NEW n \in 0..N PROVE to(n) = IF n = 0 THEN start ELSE Apply(f[n - 1], hunks[n])
    <3>1. CASE n = 0
      BY <3>1, <1>2
    <3>2. CASE n # 0
      <4>1. n \in 1..N /\ n - 1 \in 0..N
        BY <1>1, <3>2
      <4> QED BY <4>1, <3>2, <1>3
    <3> QED BY <3>1, <3>2
  <2>2. f = [n \in 0..N |-> IF n = 0 THEN start ELSE Apply(f[n - 1], hunks[n])]
    BY <2>1
  <2>3. \E g : g = [n \in 0..Len(hunks) |-> IF n = 0 THEN [text |-> << >>, used |-> 0, fits |-> TRUE]
                                                      ELSE Apply(g[n - 1], hunks[n])]
    BY <2>2 DEF start
  <2> QED BY <2>3, Zenon DEF PatchedBy, start
<1>5. ASSUME NEW n \in 0..N PROVE PatchedBy[n] = IF n = 0 THEN start ELSE Apply(PatchedBy[n - 1], hunks[n])
  BY <1>4, Zenon
<1> DEFINE R == {n \in 0..N : PatchedBy[n] = to(n)}
<1>6. 0 \in R
  <2>1. 0 \in 0..N
    BY <1>1
  <2> QED BY <2>1, <1>2, <1>5
<1>7. ASSUME NEW n \in 1..N, n - 1 \in R PROVE n \in R
  <2>1. n \in 0..N /\ n # 0
    BY <1>1
  <2>2. PatchedBy[n] = Apply(to(n - 1), hunks[n])
    BY <2>1, <1>5, <1>7
  <2> QED BY <2>1, <2>2, <1>3
<1> HIDE DEF R
<1>8. \A n \in 0..N : n \in R
  BY <1>1, <1>6, <1>7, Reaches
<1>9. N \in R
  BY <1>1, <1>8
<1> QED BY <1>9 DEF R, to, Patched

LEMMA InvApplies == DiffInv => DiffApplies
<1> SUFFICES ASSUME DiffInv, doing = "done", verdict # 2
             PROVE  /\ Patched.fits
                    /\ Patched.text \o SubSeq(linesA, Patched.used + 1, Len(linesA)) = linesB
                    /\ verdict = 0 <=> linesA = linesB /\ hunks = << >>
  BY DEF DiffApplies
<1> DEFINE u == Used(Len(hunks))
           m == Made(Len(hunks))
<1>1. DiffTypeOK /\ Chained /\ UpToHere
  BY DEF DiffInv
<1>2. Patched = Beginning(u, m)
  BY <1>1, PatchedIs
<1>3. /\ u \in 0..Len(linesA) /\ m \in 0..Len(linesB)
      /\ linesA \in Seq(Line) /\ linesB \in Seq(Line) /\ Len(linesA) \in Nat /\ Len(linesB) \in Nat
  <2>1. Len(hunks) \in 0..Len(hunks)
    BY <1>1, TextsAre
  <2> QED BY <1>1, <2>1, TextsAre, InTexts
<1>4. SameLines(u, m, Len(linesA), Len(linesB))
  <2>1. CASE verdict = 0 /\ linesA = linesB /\ hunks = << >>
    <3>1. u = 0 /\ m = 0
      BY <2>1 DEF Used, Made
    <3> QED BY <3>1, <2>1, <1>3 DEF SameLines
  <2>2. CASE verdict = 1 /\ linesA # linesB /\ spot = <<Len(linesA), Len(linesB)>>
    <3>1. ia = Len(linesA) /\ ib = Len(linesB)
      BY <2>2 DEF ia, ib
    <3> QED BY <3>1, <1>1 DEF UpToHere
  <2> QED BY <2>1, <2>2 DEF DiffInv
<1> HIDE DEF u, m
<1>5. SubSeq(linesB, 1, m) \o SubSeq(linesA, u + 1, Len(linesA)) = linesB
  <2>0. /\ u \in Nat /\ m \in Nat /\ m <= Len(linesB) /\ Len(linesB) <= Len(linesB)
        /\ Len(linesA) \in 0..Len(linesA) /\ Len(linesB) \in 0..Len(linesB)
    BY <1>3
  <2>1. SubSeq(linesA, u + 1, Len(linesA)) = SubSeq(linesB, m + 1, Len(linesB))
    BY <1>1, <2>0, <1>4, SamePart
  <2>2. SubSeq(linesB, 1, m) \o SubSeq(linesB, m + 1, Len(linesB)) = SubSeq(linesB, 1, Len(linesB))
    BY <1>3, <2>0, Starts
  <2>3. SubSeq(linesB, 1, Len(linesB)) = linesB
    BY <1>3
  <2> QED BY <2>1, <2>2, <2>3
<1>6. Patched.fits /\ Patched.text \o SubSeq(linesA, Patched.used + 1, Len(linesA)) = linesB
  BY <1>2, <1>5 DEF Beginning, u, m
<1>7. verdict = 0 <=> linesA = linesB /\ hunks = << >>
  BY DEF DiffInv
<1> QED BY <1>6, <1>7

-------------------------------------------------------------------------------
LEMMA SameHunks ==
  ASSUME UNCHANGED texts
  PROVE  /\ linesA' = linesA /\ linesB' = linesB
         /\ \A h, u, m : RightHunk(h, u, m)' <=> RightHunk(h, u, m)
         /\ \A u, m, i, j : SameLines(u, m, i, j)' <=> SameLines(u, m, i, j)
<1>1. linesA' = linesA /\ linesB' = linesB
  BY DEF linesA, linesB
<1>2. \A u, m, i, j : SameLines(u, m, i, j)' <=> SameLines(u, m, i, j)
  BY <1>1 DEF SameLines
<1>3. \A i, j, k : Deleted(i, j, k)' = Deleted(i, j, k) /\ Added(i, j, k)' = Added(i, j, k) /\ Changed(i, j)' = Changed(i, j)
  BY <1>1 DEF Deleted, Added, Changed
<1>4. \A h, u, m, i, j : RightAt(h, u, m, i, j)' <=> RightAt(h, u, m, i, j)
  BY <1>1, <1>2, <1>3 DEF RightAt
<1>5. \A h, u, m : RightHunk(h, u, m)' <=> RightHunk(h, u, m)
  BY <1>1, <1>4 DEF RightHunk
<1> QED BY <1>1, <1>2, <1>5

(* One right hunk more.                                                    *)
LEMMA MoreHunks ==
  ASSUME DiffTypeOK, Chained, UNCHANGED texts,
         NEW h, hunks' = Append(hunks, h), RightHunk(h, Used(Len(hunks)), Made(Len(hunks)))
  PROVE  /\ Chained' /\ hunks' \in Seq(Hunk) /\ Len(hunks') = Len(hunks) + 1
         /\ Used(Len(hunks))' = h.left[2] /\ Made(Len(hunks))' = h.right[2]
<1> PICK N : N = Len(hunks)
  OBVIOUS
<1>1. N \in Nat /\ hunks \in Seq(Hunk)
  BY TextsAre DEF DiffTypeOK
<1>2. h \in Hunk
  <2>1. Used(N) \in Nat /\ Made(N) \in Nat
    <3>1. N \in 0..N
      BY <1>1
    <3> QED BY <3>1, InTexts
  <2> QED BY <2>1, Leads
<1>3. /\ hunks' \in Seq(Hunk) /\ Len(hunks') = N + 1 /\ hunks'[N + 1] = h
      /\ \A n \in 1..N : hunks'[n] = hunks[n]
  BY <1>1, <1>2
<1>4. ASSUME NEW n \in 0..N PROVE Used(n)' = Used(n) /\ Made(n)' = Made(n)
  BY <1>1, <1>3 DEF Used, Made
<1>5. Used(N + 1)' = h.left[2] /\ Made(N + 1)' = h.right[2]
  BY <1>1, <1>3 DEF Used, Made
<1>6. ASSUME NEW n \in 1..(N + 1) PROVE RightHunk(hunks[n], Used(n - 1), Made(n - 1))'
  <2>1. n - 1 \in 0..N /\ Used(n - 1)' = Used(n - 1) /\ Made(n - 1)' = Made(n - 1)
    BY <1>1, <1>4
  <2>2. RightHunk(hunks'[n], Used(n - 1), Made(n - 1))
    <3>1. CASE n = N + 1
      BY <3>1, <1>1, <1>3
    <3>2. CASE n # N + 1
      <4>1. n \in 1..N
        BY <3>2, <1>1
      <4> QED BY <4>1, <1>3 DEF Chained
    <3> QED BY <3>1, <3>2
  <2> QED BY <2>1, <2>2, SameHunks
<1>7. Chained'
  BY <1>3, <1>6 DEF Chained
<1> QED BY <1>3, <1>5, <1>7

LEMMA DiffStart == DiffInit => DiffInv
<1> SUFFICES ASSUME DiffInit PROVE DiffInv
  OBVIOUS
<1>1. /\ pair \in Pairs /\ doing = "read" /\ reading = 1 /\ place = <<0, 0>> /\ texts = <<<< >>, << >>>>
      /\ spot = <<0, 0>> /\ hunks = << >> /\ verdict = 0
  BY DEF DiffInit
<1>2. linesA = << >> /\ linesB = << >> /\ ia = 0 /\ ib = 0
  BY <1>1 DEF linesA, linesB, ia, ib
<1>3. texts \in [{1, 2} -> Text]
  <2>1. << >> \in Text
    BY DEF Text
  <2> QED BY <1>1, <2>1
<1>4. DiffTypeOK
  <2>1. pair \in (Text \cup {NoSuch}) \X (Text \cup {NoSuch})
    BY <1>1, PairsAssumption
  <2>2. hunks \in Seq(Hunk) /\ spot \in Nat \X Nat /\ place \in Nat \X Nat
    BY <1>1
  <2> QED BY <1>1, <1>3, <2>1, <2>2 DEF DiffTypeOK
<1>5. Chained
  BY <1>1 DEF Chained
<1>6. UpToHere
  BY <1>1, <1>2 DEF UpToHere, SameLines, Used, Made
<1> QED BY <1>1, <1>4, <1>5, <1>6 DEF DiffInv

LEMMA ReadLineGives ==
  ASSUME DiffTypeOK, pair[reading] # NoSuch, NEW pos \in Nat \X Nat, NEW r \in CallsOfReadLine(pos)
  PROVE  r.line \in Line /\ r.pos \in Nat \X Nat
<1> DEFINE inHand == pair[reading]
<1>1. inHand \in Seq(Line)
  BY DEF DiffTypeOK, Text, Line
<1> HIDE DEF inHand
<1>2. pos[1] \in Nat /\ pos[2] \in Nat
  OBVIOUS
<1>3. LineAt(pos) \in Line /\ Len(LineAt(pos)) \in Nat
  <2>1. CASE pos[1] < Len(inHand)
    <3> DEFINE s == inHand[pos[1] + 1]
    <3>1. s \in Line
      BY <1>1, <1>2, <2>1, ElementOfSeq
    <3>2. LineAt(pos) = SubSeq(s, pos[2] + 1, Len(s))
      BY <2>1 DEF LineAt, inHand
    <3> HIDE DEF s
    <3>3. SubSeq(s, pos[2] + 1, Len(s)) \in Seq(Char)
      BY <1>2, <3>1 DEF Line
    <3> QED BY <3>2, <3>3 DEF Line
  <2>2. CASE ~(pos[1] < Len(inHand))
    <3>1. LineAt(pos) = << >>
      BY <2>2 DEF LineAt, inHand
    <3> QED BY <3>1 DEF Line
  <2> QED BY <2>1, <2>2
<1>4. CASE r = [line |-> LineAt(pos), pos |-> <<pos[1] + 1, 0>>]
  BY <1>2, <1>3, <1>4
<1>5. ASSUME NEW n \in 0..Len(LineAt(pos)), r = [line |-> SubSeq(LineAt(pos), 1, n), pos |-> <<pos[1], pos[2] + n>>]
      PROVE  r.line \in Line /\ r.pos \in Nat \X Nat
  <2>1. SubSeq(LineAt(pos), 1, n) \in Line
    BY <1>3, Starts DEF Line
  <2> QED BY <1>2, <1>3, <1>5, <2>1
<1> QED BY <1>4, <1>5 DEF CallsOfReadLine

LEMMA WithIs ==
  ASSUME DiffTypeOK, NEW line \in Line
  PROVE  With(line) \in [{1, 2} -> Text]
<1>1. texts[reading] \in Seq(Line) /\ reading \in {1, 2}
  BY DEF DiffTypeOK, Text, Line
<1>2. Append(texts[reading], line) \in Text
  BY <1>1 DEF Text, Line
<1> QED BY <1>1, <1>2 DEF With, DiffTypeOK

(* While the files are read nothing has been printed.                      *)
LEMMA StillReading ==
  ASSUME DiffInv, doing = "read", texts' \in [{1, 2} -> Text], place' \in Nat \X Nat, reading' \in {1, 2},
         UNCHANGED <<pair, spot, hunks>>, verdict' \in 0..2, doing' \in {"read", "compare", "scan", "done"}
  PROVE  DiffTypeOK' /\ Chained' /\ UpToHere' /\ hunks' = << >> /\ spot' = <<0, 0>>
<1>1. DiffTypeOK /\ hunks = << >> /\ spot = <<0, 0>>
  BY DEF DiffInv
<1>2. DiffTypeOK'
  BY <1>1 DEF DiffTypeOK
<1>3. Chained'
  BY <1>1 DEF Chained
<1>4. UpToHere'
  <2>1. Len(hunks') = 0 /\ ia' = 0 /\ ib' = 0
    BY <1>1 DEF ia, ib
  <2>2. (Used(Len(hunks)))' = 0 /\ (Made(Len(hunks)))' = 0
    BY <2>1 DEF Used, Made
  <2>3. Len(linesA') \in Nat /\ Len(linesB') \in Nat
    BY DEF linesA, linesB, Text
  <2> QED BY <2>1, <2>2, <2>3 DEF UpToHere, SameLines
<1> QED BY <1>1, <1>2, <1>3, <1>4

LEMMA ReadingStep == DiffInv /\ (CannotRead \/ StoreLine \/ LoopEnds) => DiffInv'
<1> SUFFICES ASSUME DiffInv, CannotRead \/ StoreLine \/ LoopEnds PROVE DiffInv'
  OBVIOUS
<1>1. DiffTypeOK /\ doing = "read" /\ verdict = 0
  BY DEF DiffInv, CannotRead, StoreLine, LoopEnds
<1>2. texts \in [{1, 2} -> Text] /\ place \in Nat \X Nat /\ reading \in {1, 2}
  BY <1>1 DEF DiffTypeOK
<1>3. CASE CannotRead
  <2>1. DiffTypeOK' /\ Chained' /\ UpToHere'
    BY <1>1, <1>2, <1>3, StillReading DEF CannotRead
  <2> QED BY <2>1, <1>3 DEF DiffInv, CannotRead
<1>4. CASE StoreLine
  <2> PICK r \in CallsOfReadLine(place) : place' = r.pos /\ texts' = With(r.line)
    BY <1>4 DEF StoreLine
  <2>1. r.line \in Line /\ r.pos \in Nat \X Nat
    BY <1>1, <1>2, <1>4, ReadLineGives DEF StoreLine
  <2>2. texts' \in [{1, 2} -> Text]
    BY <1>1, <2>1, WithIs
  <2>3. DiffTypeOK' /\ Chained' /\ UpToHere' /\ hunks' = << >> /\ spot' = <<0, 0>>
    BY <1>1, <1>2, <1>4, <2>1, <2>2, StillReading DEF StoreLine
  <2> QED BY <2>3, <1>1, <1>4 DEF DiffInv, StoreLine
<1>5. CASE LoopEnds
  <2>1. texts' \in [{1, 2} -> Text]
    <3>1. CASE texts' = texts
      BY <3>1, <1>2
    <3>2. CASE texts' # texts
      <4> PICK r \in CallsOfReadLine(place) : \E more \in CallsOfReadLine(r.pos) : texts' = With(more.line)
        BY <1>5, <3>2 DEF LoopEnds
      <4> PICK more \in CallsOfReadLine(r.pos) : texts' = With(more.line)
        OBVIOUS
      <4>1. r.pos \in Nat \X Nat
        BY <1>1, <1>2, <1>5, ReadLineGives DEF LoopEnds
      <4>2. more.line \in Line
        BY <4>1, <1>1, <1>5, ReadLineGives DEF LoopEnds
      <4> QED BY <4>2, <1>1, WithIs
    <3> QED BY <3>1, <3>2
  <2>2. place' \in Nat \X Nat /\ reading' \in {1, 2} /\ doing' \in {"read", "compare"} /\ verdict' = verdict
    BY <1>1, <1>2, <1>5 DEF LoopEnds
  <2>3. DiffTypeOK' /\ Chained' /\ UpToHere' /\ hunks' = << >> /\ spot' = <<0, 0>>
    BY <1>1, <1>5, <2>1, <2>2, StillReading DEF LoopEnds
  <2> QED BY <2>3, <2>2, <1>1 DEF DiffInv
<1> QED BY <1>3, <1>4, <1>5

LEMMA QuickCheckStep == DiffInv /\ (QuickCheck \/ UNCHANGED diffVars) => DiffInv'
<1> SUFFICES ASSUME DiffInv, QuickCheck \/ UNCHANGED diffVars PROVE DiffInv'
  OBVIOUS
<1>1. UNCHANGED <<pair, reading, place, texts, spot, hunks, verdict>>
  BY DEF QuickCheck, diffVars
<1>2. linesA' = linesA /\ linesB' = linesB /\ Chained' /\ UpToHere'
  <2>1. /\ linesA' = linesA /\ linesB' = linesB
        /\ \A h, u, m : RightHunk(h, u, m)' <=> RightHunk(h, u, m)
        /\ \A u, m, i, j : SameLines(u, m, i, j)' <=> SameLines(u, m, i, j)
    BY <1>1, SameHunks
  <2>2. \A n : Used(n)' = Used(n) /\ Made(n)' = Made(n)
    BY <1>1 DEF Used, Made
  <2>3. ia' = ia /\ ib' = ib /\ Used(Len(hunks))' = Used(Len(hunks)) /\ Made(Len(hunks))' = Made(Len(hunks))
    BY <1>1 DEF ia, ib, Used, Made
  <2>4. Chained'
    BY <1>1, <2>1, <2>2 DEF DiffInv, Chained
  <2>5. UpToHere'
    BY <2>1, <2>3 DEF DiffInv, UpToHere
  <2> QED BY <2>1, <2>4, <2>5
<1>3. DiffTypeOK'
  <2>1. doing' \in {"read", "compare", "scan", "done"}
    BY DEF QuickCheck, diffVars, DiffInv, DiffTypeOK
  <2> QED BY <1>1, <2>1 DEF DiffInv, DiffTypeOK
<1>4. CASE QuickCheck
  BY <1>1, <1>2, <1>3, <1>4 DEF DiffInv, QuickCheck
<1>5. CASE UNCHANGED diffVars
  BY <1>1, <1>2, <1>3, <1>5 DEF DiffInv, diffVars
<1> QED BY <1>4, <1>5

LEMMA MatchStep == DiffInv /\ Match => DiffInv'
<1> SUFFICES ASSUME DiffInv, Match PROVE DiffInv'
  OBVIOUS
<1> PICK u : u = Used(Len(hunks))
  OBVIOUS
<1> PICK m : m = Made(Len(hunks))
  OBVIOUS
<1>1. /\ DiffTypeOK /\ Chained /\ UpToHere /\ doing = "scan" /\ verdict = 0 /\ linesA # linesB
      /\ ia < Len(linesA) /\ ib < Len(linesB) /\ linesA[ia + 1] = linesB[ib + 1]
      /\ spot' = <<ia + 1, ib + 1>> /\ UNCHANGED <<pair, doing, reading, place, texts, hunks, verdict>>
  BY DEF DiffInv, Match, Scanning, Matching
<1>2. /\ linesA' = linesA /\ linesB' = linesB
      /\ \A h, y, z : RightHunk(h, y, z)' <=> RightHunk(h, y, z)
      /\ \A y, z, i, j : SameLines(y, z, i, j)' <=> SameLines(y, z, i, j)
  BY <1>1, SameHunks
<1>3. /\ ia \in Nat /\ ib \in Nat /\ u \in Nat /\ m \in Nat /\ Len(linesA) \in Nat /\ Len(linesB) \in Nat
      /\ Len(hunks) \in Nat
  <2>1. Len(hunks) \in 0..Len(hunks)
    BY <1>1, TextsAre
  <2> QED BY <1>1, <2>1, TextsAre, InTexts
<1>4. SameLines(u, m, ia + 1, ib + 1)
  <2>1. SameLines(u, m, ia, ib)
    BY <1>1 DEF UpToHere
  <2>2. u <= ia /\ m <= ib /\ ia - u = ib - m /\ \A k \in 1..(ia - u) : linesA[u + k] = linesB[m + k]
    BY <2>1 DEF SameLines
  <2>3. ASSUME NEW k \in 1..(ia + 1 - u) PROVE linesA[u + k] = linesB[m + k]
    <3>1. CASE k \in 1..(ia - u)
      BY <3>1, <2>2
    <3>2. CASE k \notin 1..(ia - u)
      <4>1. u + k = ia + 1 /\ m + k = ib + 1
        BY <3>2, <2>2, <1>3, SMTT(30)
      <4> QED BY <4>1, <1>1
    <3> QED BY <3>1, <3>2
  <2> QED BY <2>2, <2>3, <1>3, SMTT(30) DEF SameLines
<1>5. ia' = ia + 1 /\ ib' = ib + 1
  BY <1>1 DEF ia, ib
<1>6. UpToHere'
  <2>1. (Used(Len(hunks)))' = u /\ (Made(Len(hunks)))' = m
    BY <1>1 DEF Used, Made
  <2> QED BY <2>1, <1>1, <1>2, <1>3, <1>4, <1>5 DEF UpToHere
<1>7. Chained'
  <2>1. \A n : Used(n)' = Used(n) /\ Made(n)' = Made(n)
    BY <1>1 DEF Used, Made
  <2> QED BY <1>1, <1>2, <2>1 DEF Chained
<1>8. DiffTypeOK'
  BY <1>1, <1>3, SMTT(30) DEF DiffTypeOK
<1> QED BY <1>1, <1>2, <1>6, <1>7, <1>8 DEF DiffInv

(* A right hunk is printed, and the place is behind it.                    *)
LEMMA HunkShown ==
  ASSUME DiffTypeOK, Chained, UNCHANGED <<pair, reading, place, texts>>, doing' \in {"scan", "done"}, verdict' \in 0..2,
         NEW h, hunks' = Append(hunks, h), RightAt(h, Used(Len(hunks)), Made(Len(hunks)), ia, ib),
         ia <= Len(linesA), ib <= Len(linesB), spot' = <<h.left[2], h.right[2]>>
  PROVE  DiffTypeOK' /\ Chained' /\ UpToHere'
<1>1. RightHunk(h, Used(Len(hunks)), Made(Len(hunks)))
  <2>1. ia \in 0..Len(linesA) /\ ib \in 0..Len(linesB)
    BY TextsAre
  <2> QED BY <2>1 DEF RightHunk
<1>2. /\ Chained' /\ hunks' \in Seq(Hunk) /\ Len(hunks') = Len(hunks) + 1
      /\ Used(Len(hunks))' = h.left[2] /\ Made(Len(hunks))' = h.right[2]
  BY <1>1, MoreHunks
<1>3. h.left[2] \in 0..Len(linesA) /\ h.right[2] \in 0..Len(linesB)
  <2>1. Len(hunks) \in 0..Len(hunks)
    BY TextsAre
  <2>2. Used(Len(hunks)) \in Nat /\ Made(Len(hunks)) \in Nat
    BY <2>1, InTexts
  <2> QED BY <1>1, <2>2, Leads
<1>4. linesA' = linesA /\ linesB' = linesB
  BY SameHunks
<1>5. ia' = h.left[2] /\ ib' = h.right[2] /\ spot' \in Nat \X Nat
  BY <1>3, TextsAre DEF ia, ib
<1>6. UpToHere'
  BY <1>2, <1>3, <1>4, <1>5, TextsAre DEF UpToHere, SameLines
<1>7. DiffTypeOK'
  BY <1>2, <1>5 DEF DiffTypeOK
<1> QED BY <1>2, <1>6, <1>7

LEMMA NearestIs ==
  ASSUME NEW S \in SUBSET Nat, S # {}
  PROVE  Nearest(S) \in S
BY Minimum DEF Nearest

LEMMA HunkStep == DiffInv /\ (Delete \/ Add \/ Change) => DiffInv'
<1> SUFFICES ASSUME DiffInv, Delete \/ Add \/ Change PROVE DiffInv'
  OBVIOUS
<1>1. /\ DiffTypeOK /\ Chained /\ UpToHere /\ doing = "scan" /\ verdict = 0 /\ linesA # linesB
      /\ ia < Len(linesA) /\ ib < Len(linesB) /\ UNCHANGED <<pair, doing, reading, place, texts, verdict>>
  BY DEF DiffInv, Delete, Add, Change, Scanning
<1>2. linesA' = linesA /\ linesB' = linesB
  BY <1>1, SameHunks
<1>3. ia \in Nat /\ ib \in Nat /\ Len(linesA) \in Nat /\ Len(linesB) \in Nat
  BY <1>1, TextsAre
<1>4. SameLines(Used(Len(hunks)), Made(Len(hunks)), ia, ib)
  BY <1>1 DEF UpToHere
<1>5. DiffTypeOK' /\ Chained' /\ UpToHere'
  <2>1. CASE Delete
    <3> DEFINE k == Nearest(InA)
               h == Deleted(ia, ib, k)
    <3>1. k \in InA
      <4>1. InA \in SUBSET Nat /\ InA # {}
        BY <2>1, LookAssumption DEF InA, Delete
      <4> QED BY <4>1, NearestIs
    <3>2. k \in 1..(Len(linesA) - ia)
      BY <3>1, <1>3, LookAssumption DEF InA
    <3>3. hunks' = Append(hunks, h) /\ spot' = <<ia + k, ib>>
      BY <2>1 DEF Delete, Show
    <3> HIDE DEF k
    <3>4. h.left[2] = ia + k /\ h.right[2] = ib
      BY DEF Deleted
    <3>5. RightAt(h, Used(Len(hunks)), Made(Len(hunks)), ia, ib)
      BY <1>4, <3>2 DEF RightAt
    <3> HIDE DEF h
    <3> QED BY <1>1, <1>3, <3>3, <3>4, <3>5, HunkShown
  <2>2. CASE Add
    <3> DEFINE k == Nearest(InB)
               h == Added(ia, ib, k)
    <3>1. k \in InB
      <4>1. InB \in SUBSET Nat /\ InB # {}
        BY <2>2, LookAssumption DEF InB, Add
      <4> QED BY <4>1, NearestIs
    <3>2. k \in 1..(Len(linesB) - ib)
      BY <3>1, <1>3, LookAssumption DEF InB
    <3>3. hunks' = Append(hunks, h) /\ spot' = <<ia, ib + k>>
      BY <2>2 DEF Add, Show
    <3> HIDE DEF k
    <3>4. h.left[2] = ia /\ h.right[2] = ib + k
      BY DEF Added
    <3>5. RightAt(h, Used(Len(hunks)), Made(Len(hunks)), ia, ib)
      BY <1>4, <3>2 DEF RightAt
    <3> HIDE DEF h
    <3> QED BY <1>1, <1>3, <3>3, <3>4, <3>5, HunkShown
  <2>3. CASE Change
    <3> DEFINE h == Changed(ia, ib)
    <3>3. hunks' = Append(hunks, h) /\ spot' = <<ia + 1, ib + 1>>
      BY <2>3 DEF Change, Show
    <3>4. h.left[2] = ia + 1 /\ h.right[2] = ib + 1
      BY DEF Changed
    <3>5. RightAt(h, Used(Len(hunks)), Made(Len(hunks)), ia, ib)
      BY <1>1, <1>4 DEF RightAt
    <3> HIDE DEF h
    <3> QED BY <1>1, <1>3, <3>3, <3>4, <3>5, HunkShown
  <2> QED BY <2>1, <2>2, <2>3
<1> QED BY <1>1, <1>2, <1>5 DEF DiffInv

LEMMA RemainingStep == DiffInv /\ Remaining => DiffInv'
<1> SUFFICES ASSUME DiffInv, Remaining PROVE DiffInv'
  OBVIOUS
<1>1. /\ DiffTypeOK /\ Chained /\ UpToHere /\ linesA # linesB /\ ~(ia < Len(linesA) /\ ib < Len(linesB))
      /\ spot' = <<Len(linesA), Len(linesB)>> /\ doing' = "done" /\ verdict' = 1
      /\ UNCHANGED <<pair, reading, place, texts>>
  BY DEF DiffInv, Remaining, Scanning
<1>2. linesA' = linesA /\ linesB' = linesB
  BY <1>1, SameHunks
<1>3. /\ ia \in Nat /\ ib \in Nat /\ Len(linesA) \in Nat /\ Len(linesB) \in Nat /\ hunks \in Seq(Hunk)
      /\ ia <= Len(linesA) /\ ib <= Len(linesB)
  BY <1>1, TextsAre DEF UpToHere, DiffTypeOK
<1>4. SameLines(Used(Len(hunks)), Made(Len(hunks)), ia, ib)
  BY <1>1 DEF UpToHere
<1>5. DiffTypeOK' /\ Chained' /\ UpToHere'
  <2>1. CASE ia < Len(linesA)
    <3> DEFINE h == Deleted(ia, ib, Len(linesA) - ia)
    <3>1. ib = Len(linesB)
      BY <2>1, <1>1, <1>3
    <3>2. Len(linesA) - ia \in 1..(Len(linesA) - ia)
      BY <2>1, <1>3
    <3>3. RightAt(h, Used(Len(hunks)), Made(Len(hunks)), ia, ib)
      BY <1>4, <3>2 DEF RightAt
    <3>4. h.left[2] = Len(linesA) /\ h.right[2] = Len(linesB)
      BY <1>3, <3>1 DEF Deleted
    <3>5. hunks' = (hunks \o <<h>>) \o << >>
      BY <2>1, <3>1, <1>3 DEF Remaining
    <3>6. h \in Hunk
      <4>1. Len(hunks) \in 0..Len(hunks)
        BY <1>1, TextsAre
      <4>2. Used(Len(hunks)) \in Nat /\ Made(Len(hunks)) \in Nat
        BY <4>1, <1>1, InTexts
      <4>3. RightHunk(h, Used(Len(hunks)), Made(Len(hunks)))
        BY <1>3, <3>3 DEF RightHunk
      <4> QED BY <1>1, <4>2, <4>3, Leads
    <3> HIDE DEF h
    <3>7. hunks' = Append(hunks, h)
      BY <3>5, <3>6, <1>3
    <3> QED BY <1>1, <1>3, <3>3, <3>4, <3>7, HunkShown
  <2>2. CASE ib < Len(linesB)
    <3> DEFINE h == Added(ia, ib, Len(linesB) - ib)
    <3>1. ia = Len(linesA)
      BY <2>2, <1>1, <1>3
    <3>2. Len(linesB) - ib \in 1..(Len(linesB) - ib)
      BY <2>2, <1>3
    <3>3. RightAt(h, Used(Len(hunks)), Made(Len(hunks)), ia, ib)
      BY <1>4, <3>2 DEF RightAt
    <3>4. h.left[2] = Len(linesA) /\ h.right[2] = Len(linesB)
      <4>1. h.left[2] = ia /\ h.right[2] = ib + (Len(linesB) - ib)
        BY DEF Added
      <4>2. ib + (Len(linesB) - ib) = Len(linesB)
        BY <1>3
      <4> QED BY <3>1, <4>1, <4>2
    <3>5. hunks' = (hunks \o << >>) \o <<h>>
      <4>1. ~(ia < Len(linesA))
        BY <3>1, <1>3
      <4>2. hunks' = hunks \o << >> \o <<Added(Len(linesA), ib, Len(linesB) - ib)>>
        BY <2>2, <4>1 DEF Remaining
      <4>3. h = Added(Len(linesA), ib, Len(linesB) - ib)
        BY <3>1
      <4> QED BY <4>2, <4>3
    <3>6. h \in Hunk
      <4>1. Len(hunks) \in 0..Len(hunks)
        BY <1>1, TextsAre
      <4>2. Used(Len(hunks)) \in Nat /\ Made(Len(hunks)) \in Nat
        BY <4>1, <1>1, InTexts
      <4>3. RightHunk(h, Used(Len(hunks)), Made(Len(hunks)))
        BY <1>3, <3>3 DEF RightHunk
      <4> QED BY <1>1, <4>2, <4>3, Leads
    <3> HIDE DEF h
    <3>7. hunks' = Append(hunks, h)
      BY <3>5, <3>6, <1>3
    <3> QED BY <1>1, <1>3, <3>3, <3>4, <3>7, HunkShown
  <2>3. CASE ~(ia < Len(linesA)) /\ ~(ib < Len(linesB))
    <3>1. hunks' = (hunks \o << >>) \o << >>
      BY <2>3 DEF Remaining
    <3>2. hunks' = hunks
      BY <3>1, <1>3
    <3>3. ia = Len(linesA) /\ ib = Len(linesB)
      BY <2>3, <1>3
    <3>4. ia' = ia /\ ib' = ib
      BY <1>1, <3>3 DEF ia, ib
    <3>5. Used(Len(hunks))' = Used(Len(hunks)) /\ Made(Len(hunks))' = Made(Len(hunks))
      BY <3>2 DEF Used, Made
    <3>6. /\ \A h, u, m : RightHunk(h, u, m)' <=> RightHunk(h, u, m)
          /\ \A u, m, i, j : SameLines(u, m, i, j)' <=> SameLines(u, m, i, j)
      BY <1>1, SameHunks
    <3>7. UpToHere'
      BY <1>2, <1>3, <1>4, <3>4, <3>5, <3>6 DEF UpToHere
    <3>8. Chained'
      <4>1. \A n : Used(n)' = Used(n) /\ Made(n)' = Made(n)
        BY <3>2 DEF Used, Made
      <4> QED BY <1>1, <3>2, <3>6, <4>1 DEF Chained
    <3>9. DiffTypeOK'
      BY <1>1, <1>3, <3>2 DEF DiffTypeOK
    <3> QED BY <3>7, <3>8, <3>9
  <2> QED BY <2>1, <2>2, <2>3
<1> QED BY <1>1, <1>2, <1>5 DEF DiffInv

(* The invariant of diff: the hunks printed so far lead from where the one *)
(* before ends over lines that are the same in both files, and so on up to *)
(* where the comparison is now.                                            *)
THEOREM DiffInvariance == DiffSpec => []DiffInv
<1>1. DiffInv /\ [DiffNext]_diffVars => DiffInv'
  BY ReadingStep, QuickCheckStep, MatchStep, HunkStep, RemainingStep DEF DiffNext
<1> QED BY <1>1, DiffStart, PTL DEF DiffSpec

(* Types of diff: read_line's pieces are lines, and a hunk's numbers are   *)
(* numbers of lines (diff.c:33, 65).                                       *)
THEOREM DiffTypes == DiffSpec => []DiffTypeOK
<1>1. DiffInv => DiffTypeOK
  BY DEF DiffInv
<1> QED BY <1>1, DiffInvariance, PTL

(* What diff prints is a patch of the first file's lines into the second's *)
(* with every number in it right, for any two files, any look-ahead and    *)
(* any limits, wherever reading stopped (simple_diff, diff.c:54); status 0 *)
(* means that the lines are the same and nothing was printed.              *)
THEOREM DiffIsPatch == DiffSpec => []DiffApplies
<1> QED BY InvApplies, DiffInvariance, PTL

-------------------------------------------------------------------------------
(* xargs. *)
LEMMA IsSeqOf ==
  ASSUME NEW S, NEW n \in Nat, NEW s \in [1..n -> S]
  PROVE  s \in Seq(S) /\ Len(s) = n
<1>1. s \in Seq(S)
  OBVIOUS
<1>2. Len(s) \in Nat /\ DOMAIN s = 1..Len(s) /\ DOMAIN s = 1..n
  BY <1>1, LenProperties
<1> QED BY <1>1, <1>2

(* FlattenSeq is recursive: f joins more and more of the parts ss.         *)
Flattens(f, ss, n) ==
  /\ FlattenSeq(ss) = f[n] /\ f[1] = ss[1]
  /\ \A i \in 2..n : f[i] = f[i - 1] \o ss[i]

LEMMA FlattenIs ==
  ASSUME NEW S, NEW n \in Nat, n # 0, NEW ss \in [1..n -> Seq(S)]
  PROVE  \E f \in [1..n -> Seq(S)] : Flattens(f, ss, n)
<1> DEFINE joins == [z \in (1..(n - 1)) \X Seq(S) |-> z[2] \o ss[z[1] + 1]]
<1>1. n - 1 \in Nat /\ 1 \in 1..n /\ ss[1] \in Seq(S) /\ Len(ss) = n
  BY IsSeqOf
<1>2. joins \in [(1..(n - 1)) \X Seq(S) -> Seq(S)]
  <2>1. ASSUME NEW z \in (1..(n - 1)) \X Seq(S) PROVE z[2] \o ss[z[1] + 1] \in Seq(S)
    <3>1. z[2] \in Seq(S) /\ z[1] + 1 \in 1..n
      OBVIOUS
    <3>2. ss[z[1] + 1] \in Seq(S)
      BY <3>1
    <3> QED BY <3>1, <3>2, ConcatProperties
  <2> QED BY <2>1
<1>3. \A i \in 1..(n - 1), t \in Seq(S) : joins[<<i, t>>] = t \o ss[i + 1]
  OBVIOUS
<1> HIDE DEF joins
<1>4. PICK g \in [0..(n - 1) -> Seq(S)] : Follows(g, n - 1, ss[1], joins)
  BY <1>1, <1>2, RecursionExists, Zenon
<1> DEFINE f == [i \in 1..n |-> g[i - 1]]
<1>5. f \in [1..n -> Seq(S)] /\ f[1] = ss[1]
  <2>1. \A i \in 1..n : i - 1 \in 0..(n - 1)
    OBVIOUS
  <2> QED BY <2>1, <1>1, <1>4 DEF Follows
<1>6. ASSUME NEW i \in 2..n PROVE f[i] = f[i - 1] \o ss[i]
  <2>1. i \in 1..n /\ i - 1 \in 1..n /\ i - 1 \in 1..(n - 1) /\ (i - 1) - 1 \in 0..(n - 1) /\ (i - 1) + 1 = i
    OBVIOUS
  <2>2. g[i - 1] = joins[<<i - 1, g[(i - 1) - 1]>>] /\ g[(i - 1) - 1] \in Seq(S)
    BY <2>1, <1>4 DEF Follows
  <2> QED BY <2>1, <2>2, <1>3
<1> HIDE DEF f
<1>7. f = [i \in 1..n |-> IF i = 1 THEN ss[i] ELSE f[i - 1] \o ss[i]]
  <2>1. ASSUME NEW i \in 1..n PROVE f[i] = IF i = 1 THEN ss[i] ELSE f[i - 1] \o ss[i]
    <3>1. CASE i = 1
      BY <3>1, <1>5
    <3>2. CASE i # 1
      <4>1. i \in 2..n
        BY <3>2
      <4> QED BY <4>1, <3>2, <1>6
    <3> QED BY <3>1, <3>2
  <2> QED BY <2>1, <1>5
<1> DEFINE flatten == CHOOSE h : h = [i \in 1..Len(ss) |-> IF i = 1 THEN ss[i] ELSE h[i - 1] \o ss[i]]
<1>8. flatten = [i \in 1..n |-> IF i = 1 THEN ss[i] ELSE flatten[i - 1] \o ss[i]]
  <2>1. \E h : h = [i \in 1..Len(ss) |-> IF i = 1 THEN ss[i] ELSE h[i - 1] \o ss[i]]
    BY <1>7, <1>1
  <2>2. flatten = [i \in 1..Len(ss) |-> IF i = 1 THEN ss[i] ELSE flatten[i - 1] \o ss[i]]
    BY <2>1, Zenon
  <2> QED BY <2>2, <1>1
<1>9. FlattenSeq(ss) = flatten[n]
  BY <1>1 DEF FlattenSeq
<1> HIDE DEF flatten
<1>10. ASSUME NEW i \in 1..n PROVE flatten[i] = IF i = 1 THEN ss[i] ELSE flatten[i - 1] \o ss[i]
  BY <1>8, Zenon
<1> DEFINE R == {i \in 0..(n - 1) : flatten[i + 1] = f[i + 1]}
<1>11. 0 \in R
  BY <1>1, <1>5, <1>10
<1>12. ASSUME NEW i \in 1..(n - 1), i - 1 \in R PROVE i \in R
  <2>1. /\ i + 1 \in 1..n /\ i + 1 # 1 /\ i + 1 \in 2..n /\ (i + 1) - 1 = i /\ (i - 1) + 1 = i
        /\ i \in 0..(n - 1)
    OBVIOUS
  <2>2. flatten[i] = f[i]
    BY <1>12, <2>1
  <2>3. flatten[i + 1] = flatten[i] \o ss[i + 1]
    BY <1>10, <2>1
  <2>4. f[i + 1] = f[i] \o ss[i + 1]
    BY <1>6, <2>1
  <2> QED BY <2>1, <2>2, <2>3, <2>4
<1> HIDE DEF R
<1>13. n - 1 \in R
  <2>1. \A i \in 0..(n - 1) : i \in R
    BY <1>1, <1>11, <1>12, Reaches
  <2> QED BY <1>1, <2>1
<1>14. flatten[n] = f[n]
  <2>1. (n - 1) + 1 = n
    OBVIOUS
  <2> QED BY <1>13, <2>1 DEF R
<1> QED BY <1>5, <1>6, <1>9, <1>14 DEF Flattens

(* All but the last, and the last.                                         *)
LEMMA FlattenNext ==
  ASSUME NEW S, NEW n \in Nat, NEW ss \in [1..n -> Seq(S)], NEW tt \in [1..(n + 1) -> Seq(S)],
         \A i \in 1..n : tt[i] = ss[i]
  PROVE  FlattenSeq(ss) \in Seq(S) /\ FlattenSeq(tt) = FlattenSeq(ss) \o tt[n + 1]
<1> DEFINE m == n + 1
<1>0. m \in Nat /\ m # 0 /\ tt \in [1..m -> Seq(S)]
  OBVIOUS
<1> HIDE DEF m
<1>00. PICK g \in [1..m -> Seq(S)] : Flattens(g, tt, m)
  BY <1>0, FlattenIs, Zenon
<1>1. /\ g \in [1..(n + 1) -> Seq(S)] /\ FlattenSeq(tt) = g[n + 1] /\ g[1] = tt[1]
      /\ \A i \in 2..(n + 1) : g[i] = g[i - 1] \o tt[i]
  BY <1>00 DEF m, Flattens
<1>2. CASE n = 0
  <2>1. Len(ss) = 0 /\ ss = << >>
    BY <1>2, IsSeqOf
  <2>2. FlattenSeq(ss) = << >>
    BY <2>1 DEF FlattenSeq
  <2>3. FlattenSeq(tt) = tt[1] /\ tt[1] \in Seq(S)
    BY <1>1, <1>2
  <2> QED BY <1>2, <2>2, <2>3, ConcatEmptySeq
<1>3. CASE n # 0
  <2>0. PICK f \in [1..n -> Seq(S)] : Flattens(f, ss, n)
    BY <1>3, FlattenIs, Zenon
  <2>1. FlattenSeq(ss) = f[n] /\ f[1] = ss[1] /\ \A i \in 2..n : f[i] = f[i - 1] \o ss[i]
    BY <2>0 DEF Flattens
  <2> DEFINE R == {i \in 0..(n - 1) : g[i + 1] = f[i + 1]}
  <2>2. 0 \in R
    BY <1>1, <1>3, <2>1
  <2>3. ASSUME NEW i \in 1..(n - 1), i - 1 \in R PROVE i \in R
    <3>1. /\ i + 1 \in 2..(n + 1) /\ i + 1 \in 2..n /\ i + 1 \in 1..n /\ (i + 1) - 1 = i /\ (i - 1) + 1 = i
          /\ i \in 0..(n - 1)
      OBVIOUS
    <3>2. g[i] = f[i]
      BY <2>3, <3>1
    <3>3. g[i + 1] = g[i] \o tt[i + 1] /\ f[i + 1] = f[i] \o ss[i + 1] /\ tt[i + 1] = ss[i + 1]
      BY <1>1, <2>1, <3>1
    <3> QED BY <3>1, <3>2, <3>3
  <2> HIDE DEF R
  <2>4. n - 1 \in R
    <3>1. n - 1 \in Nat
      BY <1>3
    <3>2. \A i \in 0..(n - 1) : i \in R
      BY <3>1, <2>2, <2>3, Reaches
    <3> QED BY <3>1, <3>2
  <2>5. g[n] = f[n]
    <3>1. (n - 1) + 1 = n
      OBVIOUS
    <3> QED BY <2>4, <3>1 DEF R
  <2>6. n + 1 \in 2..(n + 1) /\ (n + 1) - 1 = n /\ n \in 1..n
    BY <1>3
  <2>7. FlattenSeq(tt) = g[n] \o tt[n + 1]
    BY <1>1, <2>6
  <2> QED BY <2>1, <2>5, <2>6, <2>7
<1> QED BY <1>2, <1>3

LEMMA FlattenNone == FlattenSeq(<< >>) = << >>
BY DEF FlattenSeq

LEMMA FlattenMore ==
  ASSUME NEW S, NEW ss \in Seq(Seq(S)), NEW s \in Seq(S)
  PROVE  FlattenSeq(ss) \in Seq(S) /\ FlattenSeq(Append(ss, s)) = FlattenSeq(ss) \o s
<1> DEFINE n == Len(ss)
           tt == Append(ss, s)
<1>1. n \in Nat /\ ss \in [1..n -> Seq(S)]
  BY LenProperties
<1>2. tt \in [1..(n + 1) -> Seq(S)] /\ tt[n + 1] = s /\ \A i \in 1..n : tt[i] = ss[i]
  <2>1. /\ tt \in Seq(Seq(S)) /\ Len(tt) = n + 1 /\ tt[n + 1] = s
        /\ \A i \in 1..n : tt[i] = ss[i]
    BY AppendProperties
  <2> HIDE DEF n, tt
  <2>2. tt \in [1..Len(tt) -> Seq(S)]
    BY <2>1, LenProperties
  <2> QED BY <2>1, <2>2
<1> HIDE DEF n, tt
<1>3. FlattenSeq(ss) \in Seq(S) /\ FlattenSeq(tt) = FlattenSeq(ss) \o tt[n + 1]
  BY <1>1, <1>2, FlattenNext
<1> QED BY <1>2, <1>3 DEF tt

(* The first n parts. *)
FlattenTo(ss, n) == FlattenSeq([i \in 1..n |-> ss[i]])

LEMMA FlattenUpTo ==
  ASSUME NEW S, NEW n \in Nat, NEW m \in Nat, n <= m, NEW ss \in [1..m -> Seq(S)]
  PROVE  /\ FlattenTo(ss, n) \in Seq(S)
         /\ n # 0 => FlattenTo(ss, n) = FlattenTo(ss, n - 1) \o ss[n]
<1> DEFINE of(k) == [i \in 1..k |-> ss[i]]
<1>1. of(n) \in [1..n -> Seq(S)]
  OBVIOUS
<1>2. FlattenSeq(of(n)) \in Seq(S)
  <2> DEFINE tt == [i \in 1..(n + 1) |-> IF i <= n THEN ss[i] ELSE << >>]
  <2>1. tt \in [1..(n + 1) -> Seq(S)] /\ \A i \in 1..n : tt[i] = of(n)[i]
    OBVIOUS
  <2> HIDE DEF tt, of
  <2> QED BY <1>1, <2>1, FlattenNext
<1>3. ASSUME n # 0 PROVE FlattenSeq(of(n)) = FlattenSeq(of(n - 1)) \o ss[n]
  <2> DEFINE k == n - 1
  <2>1. k \in Nat /\ k + 1 = n /\ n \in 1..n
    BY <1>3
  <2>2. /\ of(k) \in [1..k -> Seq(S)] /\ of(n) \in [1..(k + 1) -> Seq(S)]
        /\ \A i \in 1..k : of(n)[i] = of(k)[i]
    BY <2>1
  <2>3. of(n)[k + 1] = ss[n]
    BY <2>1
  <2> HIDE DEF of, k
  <2>4. FlattenSeq(of(n)) = FlattenSeq(of(k)) \o of(n)[k + 1]
    BY <2>1, <2>2, FlattenNext
  <2> QED BY <2>3, <2>4 DEF k
<1> QED BY <1>2, <1>3 DEF FlattenTo

(* t is where u begins. *)
Opens(t, u, S) == \E r \in Seq(S) : u = t \o r

(* What is flattened of the first n parts is a beginning of all.           *)
LEMMA FlattenPart ==
  ASSUME NEW S, NEW m \in Nat, NEW ss \in [1..m -> Seq(S)], NEW n \in 0..m
  PROVE  Opens(FlattenTo(ss, n), FlattenTo(ss, m), S)
<1> DEFINE R == {k \in 0..(m - n) : \E r \in Seq(S) : FlattenTo(ss, n + k) = FlattenTo(ss, n) \o r}
<1>0. ASSUME NEW k \in 0..m
      PROVE  FlattenTo(ss, k) \in Seq(S) /\ (k # 0 => FlattenTo(ss, k) = FlattenTo(ss, k - 1) \o ss[k])
  <2>1. k \in Nat /\ k <= m
    OBVIOUS
  <2> QED BY <2>1, FlattenUpTo
<1>1. m - n \in Nat /\ n \in Nat
  OBVIOUS
<1>2. 0 \in R
  <2>1. n + 0 = n /\ n <= m /\ 0 \in 0..(m - n)
    BY <1>1
  <2>2. FlattenTo(ss, n) \in Seq(S)
    BY <1>1, <2>1, FlattenUpTo
  <2>3. FlattenTo(ss, n) \o << >> = FlattenTo(ss, n)
    BY <2>2, ConcatEmptySeq
  <2>4. << >> \in Seq(S)
    BY EmptySeq
  <2>5. \E r \in Seq(S) : FlattenTo(ss, n + 0) = FlattenTo(ss, n) \o r
    BY <2>1, <2>3, <2>4
  <2> QED BY <2>1, <2>5
<1>3. ASSUME NEW k \in 1..(m - n), k - 1 \in R PROVE k \in R
  <2>1. PICK r \in Seq(S) : FlattenTo(ss, n + (k - 1)) = FlattenTo(ss, n) \o r
    BY <1>3
  <2>2. n + k \in 0..m /\ n + k # 0 /\ (n + k) - 1 = n + (k - 1) /\ n + k \in 1..m /\ k \in 0..(m - n)
    OBVIOUS
  <2>3. FlattenTo(ss, n + k) = (FlattenTo(ss, n) \o r) \o ss[n + k]
    BY <1>0, <2>1, <2>2
  <2>4. FlattenTo(ss, n) \in Seq(S) /\ ss[n + k] \in Seq(S)
    <3>1. n <= m
      BY <1>1
    <3>2. FlattenTo(ss, n) \in Seq(S)
      BY <3>1, <1>1, FlattenUpTo
    <3> QED BY <2>2, <3>2
  <2>5. (FlattenTo(ss, n) \o r) \o ss[n + k] = FlattenTo(ss, n) \o (r \o ss[n + k])
    <3> DEFINE s == FlattenTo(ss, n)  u == ss[n + k]
    <3>1. s \in Seq(S) /\ r \in Seq(S) /\ u \in Seq(S)
      BY <2>4
    <3> HIDE DEF s, u
    <3>2. (s \o r) \o u = s \o (r \o u)
      BY <3>1, ConcatAssociative
    <3> QED BY <3>2 DEF s, u
  <2>6. r \o ss[n + k] \in Seq(S)
    BY <2>4, ConcatProperties
  <2> QED BY <2>2, <2>3, <2>5, <2>6
<1> HIDE DEF R
<1>4. m - n \in R
  <2>1. \A k \in 0..(m - n) : k \in R
    BY <1>1, <1>2, <1>3, Reaches
  <2> QED BY <1>1, <2>1
<1>5. n + (m - n) = m
  OBVIOUS
<1> QED BY <1>4, <1>5 DEF R, Opens

(* Parts that are empty add nothing.                                       *)
LEMMA FlattenSame ==
  ASSUME NEW S, NEW m \in Nat, NEW ss \in [1..m -> Seq(S)], NEW n \in 0..m,
         \A i \in (n + 1)..m : ss[i] = << >>
  PROVE  FlattenTo(ss, m) = FlattenTo(ss, n)
<1> DEFINE R == {k \in 0..(m - n) : FlattenTo(ss, n + k) = FlattenTo(ss, n)}
<1>0. ASSUME NEW k \in 0..m
      PROVE  FlattenTo(ss, k) \in Seq(S) /\ (k # 0 => FlattenTo(ss, k) = FlattenTo(ss, k - 1) \o ss[k])
  <2>1. k \in Nat /\ k <= m
    OBVIOUS
  <2> QED BY <2>1, FlattenUpTo
<1>1. m - n \in Nat /\ n \in Nat
  OBVIOUS
<1>2. 0 \in R
  BY <1>1
<1>3. ASSUME NEW k \in 1..(m - n), k - 1 \in R PROVE k \in R
  <2>1. FlattenTo(ss, n + (k - 1)) = FlattenTo(ss, n)
    BY <1>3
  <2>2. /\ n + k \in 0..m /\ n + k # 0 /\ (n + k) - 1 = n + (k - 1) /\ n + k \in (n + 1)..m
        /\ k \in 0..(m - n) /\ n \in 0..m
    OBVIOUS
  <2>3. FlattenTo(ss, n + k) = FlattenTo(ss, n) \o << >>
    BY <1>0, <2>1, <2>2
  <2> QED BY <1>0, <2>2, <2>3, ConcatEmptySeq
<1> HIDE DEF R
<1>4. m - n \in R
  <2>1. \A k \in 0..(m - n) : k \in R
    BY <1>1, <1>2, <1>3, Reaches
  <2> QED BY <1>1, <2>1
<1>5. n + (m - n) = m
  OBVIOUS
<1> QED BY <1>4, <1>5 DEF R

LEMMA SmallestIs ==
  ASSUME NEW T \in SUBSET Nat, T # {}
  PROVE  SmallestOf(T) \in T /\ \A j \in T : SmallestOf(T) <= j
<1>1. \E i \in T : \A j \in T : i <= j
  BY Minimum
<1> QED BY <1>1, Zenon DEF SmallestOf

LEMMA SmallestOnly ==
  ASSUME NEW T \in SUBSET Nat, NEW i \in T, \A j \in T : i <= j
  PROVE  SmallestOf(T) = i
<1>1. SmallestOf(T) \in T /\ SmallestOf(T) <= i
  BY SmallestIs
<1>2. i <= SmallestOf(T) /\ i \in Nat /\ SmallestOf(T) \in Nat
  BY <1>1
<1> QED BY <1>1, <1>2
-------------------------------------------------------------------------------
LEMMA LinesAre ==
  ASSUME NEW line \in InputLine
  PROVE  line \in Seq(Glyph) /\ Len(line) \in 1..(LineMax - 1) /\ LineMax \in Nat \ {0}
BY GlyphAssumption DEF InputLine

LEMMA EndsAre ==
  ASSUME NEW line \in InputLine, NEW i \in 1..Len(line)
  PROVE  /\ WordEnd(line, i) \in i..(Len(line) + 1)
         /\ WordEnd(line, i) = Len(line) + 1 \/ line[WordEnd(line, i)] = Blank
         /\ \A j \in i..(WordEnd(line, i) - 1) : line[j] # Blank
<1> DEFINE T == {j \in i..(Len(line) + 1) : j = Len(line) + 1 \/ line[j] = Blank}
<1>1. Len(line) \in Nat
  BY LinesAre
<1>2. T \in SUBSET Nat /\ Len(line) + 1 \in T
  BY <1>1
<1>3. WordEnd(line, i) = SmallestOf(T)
  BY DEF WordEnd
<1>4. WordEnd(line, i) \in T /\ \A j \in T : WordEnd(line, i) <= j
  <2>1. T # {}
    BY <1>2
  <2> HIDE DEF T
  <2> QED BY <1>2, <1>3, <2>1, SmallestIs
<1>5. ASSUME NEW j \in i..(WordEnd(line, i) - 1) PROVE line[j] # Blank
  <2>1. j \in i..(Len(line) + 1) /\ ~(WordEnd(line, i) <= j)
    BY <1>1, <1>4
  <2> QED BY <2>1, <1>4
<1> QED BY <1>4, <1>5

LEMMA WordsAre ==
  ASSUME NEW line \in InputLine, NEW i \in 1..Len(line)
  PROVE  /\ WordFrom(line, i) \in Seq(Glyph) /\ Len(WordFrom(line, i)) = WordEnd(line, i) - i
         /\ \A n \in 1..(WordEnd(line, i) - i) : WordFrom(line, i)[n] = line[i + n - 1]
<1> DEFINE from == i - 1
           to == WordEnd(line, i) - 1
<1>1. Len(line) \in Nat /\ line \in Seq(Glyph) /\ WordEnd(line, i) \in i..(Len(line) + 1)
  BY LinesAre, EndsAre
<1>2. from \in Nat /\ to \in Nat /\ from <= to /\ to <= Len(line) /\ to - from = WordEnd(line, i) - i
      /\ from + 1 = i
  BY <1>1
<1>3. WordFrom(line, i) = SubSeq(line, from + 1, to)
  BY <1>2 DEF WordFrom
<1> HIDE DEF from, to
<1>4. /\ SubSeq(line, from + 1, to) \in Seq(Glyph) /\ Len(SubSeq(line, from + 1, to)) = to - from
      /\ \A n \in 1..(to - from) : SubSeq(line, from + 1, to)[n] = line[from + n]
  BY <1>1, <1>2, PartOf
<1>5. \A n \in 1..(to - from) : from + n = i + n - 1
  BY <1>2
<1> QED BY <1>2, <1>3, <1>4, <1>5

(* The words of a line as parts, one for each character.                   *)
PartsOf(line) ==
  [i \in 1..Len(line) |-> IF BeginsWord(line, i) THEN <<WordFrom(line, i)>> ELSE << >>]

LEMMA PartsAre ==
  ASSUME NEW line \in InputLine
  PROVE  /\ PartsOf(line) \in [1..Len(line) -> Seq(Seq(Glyph))] /\ Len(line) \in Nat
         /\ \A n \in 0..Len(line) : WordsIn(line, n) = FlattenTo(PartsOf(line), n)
<1>1. Len(line) \in Nat
  BY LinesAre
<1>2. ASSUME NEW i \in 1..Len(line)
      PROVE  (IF BeginsWord(line, i) THEN <<WordFrom(line, i)>> ELSE << >>) \in Seq(Seq(Glyph))
  <2>1. WordFrom(line, i) \in Seq(Glyph)
    BY WordsAre
  <2>2. <<WordFrom(line, i)>> \in Seq(Seq(Glyph)) /\ << >> \in Seq(Seq(Glyph))
    BY <2>1
  <2> QED BY <2>2
<1>3. ASSUME NEW n \in 0..Len(line) PROVE WordsIn(line, n) = FlattenTo(PartsOf(line), n)
  <2>1. \A i \in 1..n : i \in 1..Len(line)
    BY <1>1
  <2>2. [i \in 1..n |-> IF BeginsWord(line, i) THEN <<WordFrom(line, i)>> ELSE << >>]
          = [i \in 1..n |-> PartsOf(line)[i]]
    BY <2>1 DEF PartsOf
  <2> QED BY <2>2 DEF WordsIn, FlattenTo
<1> QED BY <1>1, <1>2, <1>3 DEF PartsOf

LEMMA WordsTyped ==
  ASSUME NEW line \in InputLine, NEW n \in 0..Len(line)
  PROVE  WordsIn(line, n) \in Seq(Seq(Glyph))
<1> DEFINE m == Len(line)  pp == PartsOf(line)  S == Seq(Glyph)
<1>1. pp \in [1..m -> Seq(S)] /\ m \in Nat /\ WordsIn(line, n) = FlattenTo(pp, n)
  BY PartsAre
<1>2. n \in Nat /\ n <= m
  BY <1>1
<1> HIDE DEF m, pp, S
<1>3. FlattenTo(pp, n) \in Seq(S)
  BY <1>1, <1>2, FlattenUpTo
<1> QED BY <1>1, <1>3 DEF S

(* No word begins behind n and up to m.                                    *)
LEMMA NoWord ==
  ASSUME NEW line \in InputLine, NEW m \in 0..Len(line), NEW n \in 0..m,
         \A i \in (n + 1)..m : ~BeginsWord(line, i)
  PROVE  WordsIn(line, m) = WordsIn(line, n)
<1> DEFINE pp == [i \in 1..m |-> PartsOf(line)[i]]  S == Seq(Glyph)
<1>1. /\ PartsOf(line) \in [1..Len(line) -> Seq(S)] /\ Len(line) \in Nat
      /\ WordsIn(line, n) = FlattenTo(PartsOf(line), n) /\ WordsIn(line, m) = FlattenTo(PartsOf(line), m)
  <2>1. Len(line) \in Nat
    BY PartsAre
  <2>2. n \in 0..Len(line)
    BY <2>1
  <2> QED BY <2>2, PartsAre
<1>2. pp \in [1..m -> Seq(S)] /\ m \in Nat
  BY <1>1
<1>3. \A i \in (n + 1)..m : pp[i] = << >>
  BY <1>1 DEF PartsOf
<1>4. FlattenTo(pp, n) = FlattenTo(PartsOf(line), n) /\ FlattenTo(pp, m) = FlattenTo(PartsOf(line), m)
  <2>1. /\ [i \in 1..n |-> pp[i]] = [i \in 1..n |-> PartsOf(line)[i]]
        /\ [i \in 1..m |-> pp[i]] = [i \in 1..m |-> PartsOf(line)[i]]
    BY <1>2
  <2> QED BY <2>1 DEF FlattenTo
<1> HIDE DEF pp, S
<1>5. FlattenTo(pp, m) = FlattenTo(pp, n)
  BY <1>2, <1>3, FlattenSame
<1> QED BY <1>1, <1>4, <1>5

LEMMA OneWord ==
  ASSUME NEW line \in InputLine, NEW n \in 1..Len(line), BeginsWord(line, n)
  PROVE  WordsIn(line, n) = WordsIn(line, n - 1) \o <<WordFrom(line, n)>>
<1> DEFINE m == Len(line)  pp == PartsOf(line)  S == Seq(Glyph)
<1>1. /\ pp \in [1..m -> Seq(S)] /\ m \in Nat
      /\ WordsIn(line, n) = FlattenTo(pp, n) /\ WordsIn(line, n - 1) = FlattenTo(pp, n - 1)
  <2>1. Len(line) \in Nat
    BY PartsAre
  <2>2. n \in 0..Len(line) /\ n - 1 \in 0..Len(line)
    BY <2>1
  <2> QED BY <2>2, PartsAre
<1>2. n \in Nat /\ n # 0 /\ n <= m /\ pp[n] = <<WordFrom(line, n)>>
  BY <1>1 DEF PartsOf
<1> HIDE DEF m, pp, S
<1>3. FlattenTo(pp, n) = FlattenTo(pp, n - 1) \o pp[n]
  BY <1>1, <1>2, FlattenUpTo
<1> QED BY <1>1, <1>2, <1>3

(* The words up to n are the first ones of the line.                       *)
LEMMA FirstWords ==
  ASSUME NEW line \in InputLine, NEW n \in 0..Len(line)
  PROVE  \E r \in Seq(Seq(Glyph)) : WordsIn(line, Len(line)) = WordsIn(line, n) \o r
<1> DEFINE m == Len(line)  pp == PartsOf(line)  S == Seq(Glyph)
<1>1. /\ pp \in [1..m -> Seq(S)] /\ m \in Nat
      /\ WordsIn(line, n) = FlattenTo(pp, n) /\ WordsIn(line, m) = FlattenTo(pp, m)
  <2>1. Len(line) \in Nat
    BY PartsAre
  <2>2. Len(line) \in 0..Len(line)
    BY <2>1
  <2> QED BY <2>2, PartsAre
<1>2. n \in 0..m
  OBVIOUS
<1> HIDE DEF m, pp, S
<1>3. Opens(FlattenTo(pp, n), FlattenTo(pp, m), S)
  BY <1>1, <1>2, FlattenPart
<1> QED BY <1>1, <1>3 DEF S, m, Opens

-------------------------------------------------------------------------------
Cells == 0..(LineMax - 1)
Chars == Glyph \cup {Nul}
XargsTypeOK ==
  /\ batch \in [input : Seq(InputLine), max : Int, base : Nat] /\ batch.base < MaxArgc
  /\ loop \in {"line", "word", "done"} /\ lineNo \in 0..Len(batch.input)
  /\ lineBuf \in [Cells -> Chars] /\ cursor \in Cells
  /\ cmdArgv \in Seq(Cells) /\ origin \in Seq(Nat) /\ Len(origin) = Len(cmdArgv)
  /\ ran \in Seq(Seq(Seq(Chars))) /\ spanned \in BOOLEAN /\ spoilt \in BOOLEAN

InHand == batch.input[lineNo]

(* What of a line is in the buffer at its place, once the words in front   *)
(* of the cursor are terminated.                                           *)
Holds(memory, line, point) ==
  /\ point \in 0..Len(line) /\ memory[Len(line)] = Nul
  /\ point = 0 \/ point = Len(line) \/ line[point] = Blank
  /\ \A i \in 1..Len(line) : i > point \/ line[i] # Blank => memory[i - 1] = line[i]
  /\ \A i \in 1..point : BeginsWord(line, i) => memory[WordEnd(line, i) - 1] = Nul

(* Every pointer points to a string, and one of the line in hand to a word *)
(* of it.                                                                  *)
Points ==
  /\ \A k \in 1..Len(cmdArgv) : \E j \in cmdArgv[k]..(LineMax - 1) : lineBuf[j] = Nul
  /\ \A k \in 1..Len(cmdArgv) : origin[k] <= lineNo
  /\ \A k \in 1..Len(cmdArgv) :
       origin[k] = lineNo => cmdArgv[k] < cursor /\ BeginsWord(InHand, cmdArgv[k] + 1)

Stale == \E k \in 1..Len(origin) : origin[k] # lineNo
Strings(memory, pointers) == [i \in 1..Len(pointers) |-> StringAt(memory, pointers[i])]
SoFar == IF lineNo = 0 THEN << >> ELSE WordsTo(lineNo - 1) \o WordsIn(InHand, cursor)

(* The commands, and the vector, have got the words so far; what the       *)
(* vector has of an earlier line is lost.                                  *)
Accounted ==
  ~spoilt /\ ~spanned =>
    IF Stale THEN \E r \in Seq(Seq(Chars)) : AllWords = FlattenSeq(ran) \o r
             ELSE FlattenSeq(ran) \o Strings(lineBuf, cmdArgv) = SoFar

Counts ==
  /\ \A k \in 1..Len(ran) : Len(ran[k]) >= 1 /\ (Len(ran[k]) <= batch.max \/ Len(ran[k]) = 1)
  /\ cmdArgv = << >> \/ Len(cmdArgv) < batch.max

XargsInv ==
  /\ XargsTypeOK /\ Points /\ Accounted /\ Counts
  /\ lineNo = 0 => cmdArgv = << >> /\ loop # "word"
  /\ lineNo # 0 => Holds(lineBuf, InHand, cursor)
  /\ loop # "word" /\ lineNo # 0 => \A i \in (cursor + 1)..Len(InHand) : ~BeginsWord(InHand, i)
  /\ loop = "done" => ReadsNothing /\ cmdArgv = << >>

(* A pointer of the line in hand shows a word of it.                       *)
LEMMA StringIs ==
  ASSUME NEW memory \in [Cells -> Chars], NEW line \in InputLine, NEW point, Holds(memory, line, point),
         NEW i \in 1..point, BeginsWord(line, i)
  PROVE  StringAt(memory, i - 1) = WordFrom(line, i)
<1> DEFINE e == WordEnd(line, i) - 1
           T == {k \in (i - 1)..(LineMax - 1) : memory[k] = Nul}
<1>1. /\ Len(line) \in 1..(LineMax - 1) /\ LineMax \in Nat /\ line \in Seq(Glyph)
      /\ i \in 1..Len(line) /\ i - 1 \in Nat
  BY LinesAre DEF Holds
<1>2. e \in i..Len(line) \/ e = i - 1
  BY <1>1, EndsAre
<1>3. /\ memory[e] = Nul /\ e \in Nat /\ e >= i - 1 /\ e <= Len(line)
      /\ \A j \in i..e : line[j] # Blank
  BY <1>1, <1>2, EndsAre DEF Holds
<1>4. ASSUME NEW j \in i..e PROVE memory[j - 1] = line[j] /\ memory[j - 1] # Nul
  <2>1. j \in 1..Len(line) /\ line[j] # Blank
    BY <1>1, <1>3
  <2>2. memory[j - 1] = line[j] /\ line[j] \in Glyph
    BY <2>1, <1>1, ElementOfSeq DEF Holds
  <2> QED BY <2>2, GlyphAssumption
<1> HIDE DEF e
<1>5. SmallestOf(T) = e
  <2>1. T \in SUBSET Nat /\ e \in T
    BY <1>1, <1>3
  <2>2. ASSUME NEW j \in T PROVE e <= j
    <3> SUFFICES ASSUME j < e PROVE FALSE
      BY <2>1
    <3>1. j + 1 \in i..e /\ (j + 1) - 1 = j
      BY <1>1, <1>3, <2>1
    <3>2. memory[j] # Nul
      BY <3>1, <1>4
    <3> QED BY <3>2
  <2> HIDE DEF T
  <2> QED BY <2>1, <2>2, SmallestOnly
<1>6. StringAt(memory, i - 1) = [n \in 1..(e - (i - 1)) |-> memory[(i - 1) + n - 1]]
  BY <1>5 DEF StringAt
<1>7. e - (i - 1) \in Nat /\ e - (i - 1) = WordEnd(line, i) - i
  <2>1. WordEnd(line, i) \in Nat
    BY <1>1, EndsAre
  <2> QED BY <2>1, <1>1, <1>3 DEF e
<1>8. ASSUME NEW n \in 1..(e - (i - 1)) PROVE memory[(i - 1) + n - 1] = WordFrom(line, i)[n]
  <2>1. i + n - 1 \in i..e /\ (i + n - 1) - 1 = (i - 1) + n - 1
    BY <1>1, <1>3
  <2>2. memory[(i - 1) + n - 1] = line[i + n - 1]
    BY <2>1, <1>4
  <2> QED BY <2>2, <1>1, <1>7, WordsAre
<1>9. WordFrom(line, i) \in Seq(Glyph) /\ Len(WordFrom(line, i)) = e - (i - 1)
  BY <1>1, <1>7, WordsAre
<1>10. WordFrom(line, i) = [n \in 1..(e - (i - 1)) |-> WordFrom(line, i)[n]]
  BY <1>9, LenProperties
<1> QED BY <1>6, <1>8, <1>10

LEMMA StringTyped ==
  ASSUME NEW memory \in [Cells -> Chars], NEW start \in Cells,
         \E j \in start..(LineMax - 1) : memory[j] = Nul
  PROVE  StringAt(memory, start) \in Seq(Chars)
<1> DEFINE T == {k \in start..(LineMax - 1) : memory[k] = Nul}
           e == SmallestOf(T)
<1>1. T \in SUBSET Nat /\ T # {} /\ LineMax \in Nat /\ start \in Nat
  BY GlyphAssumption DEF Cells
<1>2. e \in T
  <2> HIDE DEF T
  <2> QED BY <1>1, SmallestIs
<1>3. e \in start..(LineMax - 1)
  BY <1>2
<1> HIDE DEF e
<1>4. e - start \in Nat /\ \A n \in 1..(e - start) : start + n - 1 \in Cells
  BY <1>1, <1>3 DEF Cells
<1>5. [n \in 1..(e - start) |-> memory[start + n - 1]] \in [1..(e - start) -> Chars]
  BY <1>4
<1>6. [n \in 1..(e - start) |-> memory[start + n - 1]] \in Seq(Chars)
  BY <1>4, <1>5, IsSeqOf
<1> QED BY <1>6 DEF StringAt, e

LEMMA LineInHand ==
  ASSUME XargsTypeOK, lineNo # 0
  PROVE  InHand \in InputLine /\ lineNo \in 1..Len(batch.input) /\ Len(batch.input) \in Nat
<1>1. batch.input \in Seq(InputLine) /\ Len(batch.input) \in Nat
  BY DEF XargsTypeOK
<1>2. lineNo \in 1..Len(batch.input)
  BY <1>1 DEF XargsTypeOK
<1> QED BY <1>1, <1>2, ElementOfSeq DEF InHand

(* What is ahead of the cursor is the line, so words start where it has them. *)
LEMMA StartsAre ==
  ASSUME NEW line \in InputLine, lineBuf \in [Cells -> Chars], Holds(lineBuf, line, cursor)
  PROVE  /\ WordStarts = {i \in cursor..(Len(line) - 1) : line[i + 1] # Blank}
         /\ \A i \in cursor..(Len(line) - 1) : lineBuf[i] = line[i + 1] /\ lineBuf[i] # Nul
<1> DEFINE W == {i \in cursor..(Len(line) - 1) : line[i + 1] # Blank}
<1>1. /\ Len(line) \in 1..(LineMax - 1) /\ LineMax \in Nat /\ line \in Seq(Glyph)
      /\ cursor \in 0..Len(line) /\ lineBuf[Len(line)] = Nul
      /\ \A i \in 1..Len(line) : line[i] \in Glyph
  BY LinesAre, ElementOfSeq DEF Holds
<1>2. ASSUME NEW i \in cursor..(Len(line) - 1) PROVE lineBuf[i] = line[i + 1] /\ lineBuf[i] # Nul
  <2>1. i + 1 \in 1..Len(line) /\ i + 1 > cursor /\ (i + 1) - 1 = i
    BY <1>1
  <2>2. lineBuf[i] = line[i + 1] /\ line[i + 1] \in Glyph
    BY <2>1, <1>1 DEF Holds
  <2> QED BY <2>2, GlyphAssumption
<1>3. WordStarts = W
  <2>1. ASSUME NEW i \in WordStarts PROVE i \in W
    <3>1. i \in cursor..(LineMax - 1) /\ lineBuf[i] # Blank /\ \A j \in cursor..i : lineBuf[j] # Nul
      BY DEF WordStarts
    <3>2. i \in cursor..(Len(line) - 1)
      <4>1. ~(Len(line) \in cursor..i)
        BY <1>1, <3>1
      <4> QED BY <1>1, <3>1, <4>1
    <3> QED BY <1>2, <3>1, <3>2
  <2>2. ASSUME NEW i \in W PROVE i \in WordStarts
    <3>1. i \in cursor..(LineMax - 1)
      BY <1>1
    <3>2. lineBuf[i] \notin {Blank, Nul}
      BY <1>2
    <3>3. \A j \in cursor..i : lineBuf[j] # Nul
      <4>1. \A j \in cursor..i : j \in cursor..(Len(line) - 1)
        BY <1>1
      <4> QED BY <4>1, <1>2
    <3> QED BY <3>1, <3>2, <3>3 DEF WordStarts
  <2> QED BY <2>1, <2>2
<1> QED BY <1>2, <1>3

(* The word that comes next in the buffer is the next one of the line.     *)
LEMMA NextIs ==
  ASSUME NEW line \in InputLine, lineBuf \in [Cells -> Chars], Holds(lineBuf, line, cursor),
         WordStarts # {}, NEW s, s = SmallestOf(WordStarts), NEW e, e = EndOfWord(s)
  PROVE  /\ s \in cursor..(Len(line) - 1) /\ BeginsWord(line, s + 1)
         /\ e = WordEnd(line, s + 1) - 1 /\ e \in (s + 1)..Len(line)
         /\ \A i \in (cursor + 1)..s : ~BeginsWord(line, i)
         /\ \A i \in (s + 2)..(e + 1) : i <= Len(line) => ~BeginsWord(line, i)
         /\ \A i \in (s + 1)..e : line[i] # Blank
         /\ IF lineBuf[e] = Nul THEN e = Len(line) ELSE e < Len(line) /\ line[e + 1] = Blank
<1> DEFINE W == {i \in cursor..(Len(line) - 1) : line[i + 1] # Blank}
<1>1. /\ Len(line) \in 1..(LineMax - 1) /\ LineMax \in Nat /\ line \in Seq(Glyph)
      /\ cursor \in 0..Len(line) /\ lineBuf[Len(line)] = Nul
      /\ \A i \in 1..Len(line) : line[i] \in Glyph
  BY LinesAre, ElementOfSeq DEF Holds
<1>2. ASSUME NEW i \in cursor..(Len(line) - 1) PROVE lineBuf[i] = line[i + 1] /\ lineBuf[i] # Nul
  BY StartsAre
<1>3. WordStarts = W
  BY StartsAre
<1>4. s \in W /\ \A j \in W : s <= j
  <2>1. W \in SUBSET Nat /\ W # {}
    BY <1>1, <1>3
  <2> HIDE DEF W
  <2> QED BY <2>1, <1>3, SmallestIs
<1>5. s \in cursor..(Len(line) - 1) /\ line[s + 1] # Blank /\ s \in Nat /\ s + 1 \in 1..Len(line)
  BY <1>1, <1>4
<1>6. ASSUME NEW i \in (cursor + 1)..s PROVE line[i] = Blank
  <2>1. i - 1 \in cursor..(Len(line) - 1) /\ ~(s <= i - 1) /\ (i - 1) + 1 = i
    BY <1>1, <1>5
  <2> QED BY <2>1, <1>4
<1>7. BeginsWord(line, s + 1)
  <2>1. CASE s = cursor
    <3>1. s + 1 = 1 \/ line[(s + 1) - 1] = Blank
      <4>1. (s + 1) - 1 = s /\ s # Len(line)
        BY <1>1, <1>5
      <4> QED BY <4>1, <2>1 DEF Holds
    <3> QED BY <3>1, <1>5 DEF BeginsWord
  <2>2. CASE s # cursor
    <3>1. s \in (cursor + 1)..s /\ (s + 1) - 1 = s
      BY <1>1, <1>5, <2>2
    <3> QED BY <3>1, <1>5, <1>6 DEF BeginsWord
  <2> QED BY <2>1, <2>2
<1> DEFINE w == WordEnd(line, s + 1) - 1
<1>8. /\ w \in (s + 1)..Len(line) /\ w + 1 = WordEnd(line, s + 1)
      /\ w = Len(line) \/ line[w + 1] = Blank
      /\ \A j \in (s + 1)..w : line[j] # Blank
  <2>1. /\ WordEnd(line, s + 1) \in (s + 1)..(Len(line) + 1)
        /\ WordEnd(line, s + 1) = Len(line) + 1 \/ line[WordEnd(line, s + 1)] = Blank
        /\ \A j \in (s + 1)..w : line[j] # Blank
    BY <1>5, EndsAre
  <2>2. WordEnd(line, s + 1) # s + 1
    BY <1>1, <1>5, <2>1
  <2>3. w \in (s + 1)..Len(line) /\ w + 1 = WordEnd(line, s + 1)
    BY <1>1, <1>5, <2>1, <2>2
  <2> QED BY <2>1, <2>3, <1>1
<1> HIDE DEF w, W
<1>9. e = w
  <2> DEFINE T == {i \in s..(LineMax - 1) : lineBuf[i] \in {Blank, Nul}}
  <2>1. T \in SUBSET Nat /\ e = SmallestOf(T)
    BY <1>1, <1>5 DEF EndOfWord
  <2>2. w \in T
    <3>1. w \in s..(LineMax - 1)
      BY <1>1, <1>5, <1>8
    <3>2. CASE w = Len(line)
      BY <3>1, <3>2, <1>1
    <3>3. CASE w # Len(line)
      <4>1. w \in cursor..(Len(line) - 1) /\ line[w + 1] = Blank
        BY <1>1, <1>5, <1>8, <3>3
      <4>2. lineBuf[w] = Blank
        BY <4>1, <1>2
      <4> QED BY <3>1, <4>2
    <3> QED BY <3>2, <3>3
  <2>3. ASSUME NEW j \in T PROVE w <= j
    <3> SUFFICES ASSUME j < w PROVE FALSE
      BY <1>1, <1>5, <1>8
    <3>1. j \in cursor..(Len(line) - 1) /\ j + 1 \in (s + 1)..w
      BY <1>1, <1>5, <1>8
    <3>2. lineBuf[j] # Blank /\ lineBuf[j] # Nul
      BY <3>1, <1>2, <1>8
    <3> QED BY <3>2
  <2> HIDE DEF T
  <2> QED BY <2>1, <2>2, <2>3, SmallestOnly
<1>10. ASSUME NEW i \in (s + 2)..(e + 1), i <= Len(line) PROVE ~BeginsWord(line, i)
  <2>1. i - 1 \in (s + 1)..w /\ i # 1
    BY <1>1, <1>5, <1>8, <1>9
  <2> QED BY <2>1, <1>8 DEF BeginsWord
<1>11. IF lineBuf[e] = Nul THEN e = Len(line) ELSE e < Len(line) /\ line[e + 1] = Blank
  <2>1. CASE w = Len(line)
    BY <2>1, <1>1, <1>9
  <2>2. CASE w # Len(line)
    <3>1. w \in cursor..(Len(line) - 1) /\ line[w + 1] = Blank /\ w < Len(line)
      BY <1>1, <1>5, <1>8, <2>2
    <3> QED BY <3>1, <1>2, <1>9
  <2> QED BY <2>1, <2>2
<1>12. \A i \in (cursor + 1)..s : ~BeginsWord(line, i)
  BY <1>6 DEF BeginsWord
<1> QED BY <1>5, <1>7, <1>8, <1>9, <1>10, <1>11, <1>12 DEF w

LEMMA Wider == Seq(Seq(Glyph)) \subseteq Seq(Seq(Chars))
<1>1. \A t \in Seq(Glyph) : t \in Seq(Chars)
  <2>1. Glyph \subseteq Chars
    BY DEF Chars
  <2> QED BY <2>1, SeqMonotonic
<1>2. Seq(Glyph) \subseteq Seq(Chars)
  BY <1>1
<1> QED BY <1>2, SeqMonotonic

LEMMA WordsToIs ==
  ASSUME XargsTypeOK, NEW k \in 0..Len(batch.input)
  PROVE  /\ WordsTo(k) \in Seq(Seq(Chars))
         /\ k # 0 => WordsTo(k) = WordsTo(k - 1) \o WordsIn(batch.input[k], Len(batch.input[k]))
         /\ \E r \in Seq(Seq(Chars)) : AllWords = WordsTo(k) \o r
<1> DEFINE N == Len(batch.input)
           S == Seq(Chars)
           pp == [i \in 1..N |-> WordsIn(batch.input[i], Len(batch.input[i]))]
<1>1. batch.input \in Seq(InputLine) /\ N \in Nat
  BY DEF XargsTypeOK
<1>2. ASSUME NEW i \in 1..N PROVE WordsIn(batch.input[i], Len(batch.input[i])) \in Seq(S)
  <2>1. batch.input[i] \in InputLine
    BY <1>1, ElementOfSeq
  <2>2. Len(batch.input[i]) \in 0..Len(batch.input[i])
    BY <2>1, LinesAre
  <2> QED BY <2>1, <2>2, WordsTyped, Wider
<1>3. pp \in [1..N -> Seq(S)] /\ \A i \in 1..N : pp[i] = WordsIn(batch.input[i], Len(batch.input[i]))
  BY <1>2
<1>4. ASSUME NEW n \in 0..N PROVE WordsTo(n) = FlattenTo(pp, n)
  <2>1. \A i \in 1..n : i \in 1..N
    BY <1>1
  <2>2. [i \in 1..n |-> WordsIn(batch.input[i], Len(batch.input[i]))] = [i \in 1..n |-> pp[i]]
    BY <2>1, <1>3
  <2> QED BY <2>2 DEF WordsTo, FlattenTo
<1>5. k \in Nat /\ k <= N /\ N \in 0..N /\ k \in 0..N
  BY <1>1
<1> HIDE DEF pp, S, N
<1>6. FlattenTo(pp, k) \in Seq(S) /\ (k # 0 => FlattenTo(pp, k) = FlattenTo(pp, k - 1) \o pp[k])
  BY <1>1, <1>3, <1>5, FlattenUpTo
<1>7. Opens(FlattenTo(pp, k), FlattenTo(pp, N), S)
  <2>1. pp \in [1..N -> Seq(S)] /\ N \in Nat /\ k \in 0..N
    BY <1>1, <1>3, <1>5
  <2> QED BY <2>1, FlattenPart
<1>8. WordsTo(k) = FlattenTo(pp, k) /\ AllWords = FlattenTo(pp, N)
  BY <1>4, <1>5 DEF AllWords, N
<1>9. ASSUME k # 0
      PROVE  WordsTo(k) = WordsTo(k - 1) \o WordsIn(batch.input[k], Len(batch.input[k]))
  <2>1. k \in 1..N /\ k - 1 \in 0..N
    BY <1>1, <1>5, <1>9
  <2> QED BY <2>1, <1>3, <1>4, <1>6, <1>8, <1>9
<1> QED BY <1>6, <1>7, <1>8, <1>9 DEF S, Opens

LEMMA SoFarIs ==
  ASSUME XargsTypeOK, lineNo # 0 => Holds(lineBuf, InHand, cursor)
  PROVE  /\ SoFar \in Seq(Seq(Chars))
         /\ \E r \in Seq(Seq(Chars)) : AllWords = SoFar \o r
         /\ (lineNo # 0 => \A i \in (cursor + 1)..Len(InHand) : ~BeginsWord(InHand, i))
              => SoFar = WordsTo(lineNo)
<1> DEFINE S == Seq(Chars)
<1>1. lineNo \in 0..Len(batch.input) /\ Len(batch.input) \in Nat
  BY DEF XargsTypeOK
<1>2. /\ WordsTo(lineNo) \in Seq(S)
      /\ lineNo # 0 => WordsTo(lineNo) = WordsTo(lineNo - 1) \o WordsIn(InHand, Len(InHand))
      /\ \E r \in Seq(S) : AllWords = WordsTo(lineNo) \o r
  BY <1>1, WordsToIs DEF InHand
<1>3. CASE lineNo = 0
  <2>1. WordsTo(0) = << >>
    <3>1. [i \in 1..0 |-> WordsIn(batch.input[i], Len(batch.input[i]))] = << >>
      OBVIOUS
    <3> QED BY <3>1, FlattenNone DEF WordsTo
  <2> QED BY <2>1, <1>2, <1>3 DEF SoFar
<1>4. CASE lineNo # 0
  <2>1. InHand \in InputLine /\ cursor \in 0..Len(InHand) /\ Len(InHand) \in 0..Len(InHand) /\ lineNo - 1 \in 0..Len(batch.input)
    <3>1. InHand \in InputLine /\ cursor \in 0..Len(InHand)
      BY <1>4, LineInHand DEF Holds
    <3> QED BY <3>1, <1>1, <1>4, LinesAre
  <2>2. /\ WordsIn(InHand, cursor) \in Seq(S) /\ WordsTo(lineNo - 1) \in Seq(S)
        /\ WordsIn(InHand, Len(InHand)) \in Seq(S)
    BY <2>1, WordsTyped, WordsToIs, Wider
  <2>3. SoFar = WordsTo(lineNo - 1) \o WordsIn(InHand, cursor)
    BY <1>4 DEF SoFar
  <2>4. PICK r \in Seq(S) : WordsIn(InHand, Len(InHand)) = WordsIn(InHand, cursor) \o r
    BY <2>1, FirstWords, Wider
  <2>5. PICK q \in Seq(S) : AllWords = WordsTo(lineNo) \o q
    BY <1>2
  <2> DEFINE t == WordsTo(lineNo - 1)  w == WordsIn(InHand, cursor)
  <2>6. AllWords = (t \o (w \o r)) \o q
    BY <1>2, <1>4, <2>4, <2>5
  <2>7. t \in Seq(S) /\ w \in Seq(S) /\ r \in Seq(S) /\ q \in Seq(S)
    BY <2>2
  <2>8. ASSUME \A i \in (cursor + 1)..Len(InHand) : ~BeginsWord(InHand, i)
        PROVE  SoFar = WordsTo(lineNo)
    <3>1. WordsIn(InHand, Len(InHand)) = WordsIn(InHand, cursor)
      BY <2>1, <2>8, NoWord
    <3> QED BY <3>1, <1>2, <1>4, <2>3
  <2> HIDE DEF t, w, S
  <2>9. t \o w \in Seq(S) /\ r \o q \in Seq(S)
    BY <2>7, ConcatProperties
  <2>10. (t \o w) \o r = t \o (w \o r)
    BY <2>7, ConcatAssociative
  <2>11. ((t \o w) \o r) \o q = (t \o w) \o (r \o q)
    BY <2>7, <2>9, ConcatAssociative, SMTT(30)
  <2>12. AllWords = SoFar \o (r \o q)
    BY <2>3, <2>6, <2>10, <2>11 DEF t, w
  <2> QED BY <2>3, <2>8, <2>9, <2>12, <1>4 DEF t, w, S
<1> QED BY <1>3, <1>4

LEMMA StringsTyped ==
  ASSUME NEW memory \in [Cells -> Chars], NEW pointers \in Seq(Cells),
         \A k \in 1..Len(pointers) : \E j \in pointers[k]..(LineMax - 1) : memory[j] = Nul
  PROVE  Strings(memory, pointers) \in Seq(Seq(Chars)) /\ Len(Strings(memory, pointers)) = Len(pointers)
<1>1. Len(pointers) \in Nat
  BY LenProperties
<1>2. ASSUME NEW k \in 1..Len(pointers) PROVE StringAt(memory, pointers[k]) \in Seq(Chars)
  <2>1. pointers[k] \in Cells
    BY ElementOfSeq
  <2> QED BY <2>1, StringTyped
<1>3. Strings(memory, pointers) \in [1..Len(pointers) -> Seq(Chars)]
  BY <1>2 DEF Strings
<1> QED BY <1>1, <1>3, IsSeqOf

LEMMA StringsNone == \A memory : Strings(memory, << >>) = << >>
<1>1. Len(<< >>) = 0 /\ 1..0 = {}
  OBVIOUS
<1> QED BY <1>1 DEF Strings

LEMMA HasRun ==
  ASSUME NEW S, NEW t \in Seq(S), NEW u \in Seq(S), NEW r \in Seq(S)
  PROVE  IsPrefix(t, t \o u) /\ (t \o u) \o r = t \o (u \o r) /\ u \o r \in Seq(S)
<1>1. t \o u \in Seq(S) /\ u \o r \in Seq(S) /\ Len(t \o u) = Len(t) + Len(u) /\ Len(t) \in Nat /\ Len(u) \in Nat
  BY ConcatProperties, LenProperties
<1>2. Len(t) <= Len(t \o u) /\ 0 \in Nat /\ 0 <= Len(t)
  BY <1>1
<1>3. /\ SubSeq(t, 0 + 1, Len(t)) \in Seq(S) /\ Len(SubSeq(t, 0 + 1, Len(t))) = Len(t) - 0
      /\ \A i \in 1..(Len(t) - 0) : SubSeq(t, 0 + 1, Len(t))[i] = t[0 + i]
  BY <1>1, <1>2, PartOf
<1>4. /\ SubSeq(t \o u, 0 + 1, Len(t)) \in Seq(S) /\ Len(SubSeq(t \o u, 0 + 1, Len(t))) = Len(t) - 0
      /\ \A i \in 1..(Len(t) - 0) : SubSeq(t \o u, 0 + 1, Len(t))[i] = (t \o u)[0 + i]
  BY <1>1, <1>2, PartOf
<1>5. ASSUME NEW i \in 1..Len(t) PROVE (t \o u)[i] = t[i]
  <2>1. i \in 1..(Len(t) + Len(u)) /\ i <= Len(t)
    BY <1>1
  <2> QED BY <2>1, ConcatProperties
<1>6. SubSeq(t, 0 + 1, Len(t)) = SubSeq(t \o u, 0 + 1, Len(t))
  <2>1. 0 + 1 = 1 /\ Len(t) - 0 = Len(t) /\ \A i \in 1..Len(t) : 0 + i = i
    BY <1>1
  <2>2. \A i \in 1..Len(SubSeq(t, 0 + 1, Len(t))) : SubSeq(t, 0 + 1, Len(t))[i] = SubSeq(t \o u, 0 + 1, Len(t))[i]
    BY <2>1, <1>3, <1>4, <1>5
  <2> QED BY <2>2, <1>3, <1>4, SeqEqual
<1>7. 0 + 1 = 1
  OBVIOUS
<1>8. (t \o u) \o r = t \o (u \o r)
  BY ConcatAssociative
<1> QED BY <1>1, <1>2, <1>6, <1>7, <1>8 DEF IsPrefix

LEMMA InvWords == XargsInv => WordsOfALine
<1> SUFFICES ASSUME XargsInv, ~spoilt, ~spanned
             PROVE  /\ IsPrefix(FlattenSeq(ran), AllWords)
                    /\ loop = "done" => FlattenSeq(ran) = WordsTo(lineNo)
                    /\ loop = "done" /\ LinesEnd => FlattenSeq(ran) = AllWords
                    /\ \A k \in 1..Len(ran) :
                         Len(ran[k]) >= 1 /\ (Len(ran[k]) <= batch.max \/ Len(ran[k]) = 1)
  BY DEF WordsOfALine
<1> DEFINE S == Seq(Chars)  fed == FlattenSeq(ran)  held == Strings(lineBuf, cmdArgv)
<1>1. XargsTypeOK /\ Points /\ Accounted /\ Counts
  BY DEF XargsInv
<1>2. fed \in Seq(S)
  <2>1. << >> \in S
    OBVIOUS
  <2> QED BY <1>1, <2>1, FlattenMore DEF XargsTypeOK
<1>3. held \in Seq(S)
  BY <1>1, StringsTyped DEF XargsTypeOK, Points
<1>4. /\ SoFar \in Seq(S) /\ \E r \in Seq(S) : AllWords = SoFar \o r
      /\ (lineNo # 0 => \A i \in (cursor + 1)..Len(InHand) : ~BeginsWord(InHand, i))
              => SoFar = WordsTo(lineNo)
  BY <1>1, SoFarIs DEF XargsInv
<1>5. CASE Stale
  <2>1. PICK r \in Seq(S) : AllWords = fed \o r
    BY <1>1, <1>5 DEF Accounted
  <2>2. IsPrefix(fed, AllWords)
    <3> HIDE DEF S, fed
    <3> QED BY <1>2, <2>1, HasRun
  <2>3. loop # "done"
    <3> SUFFICES ASSUME loop = "done" PROVE FALSE
      OBVIOUS
    <3>1. cmdArgv = << >>
      BY DEF XargsInv
    <3>2. Len(origin) = 0
      BY <3>1, <1>1 DEF XargsTypeOK
    <3> QED BY <3>2, <1>5 DEF Stale
  <2> QED BY <1>1, <2>2, <2>3 DEF Counts
<1>6. CASE ~Stale
  <2>1. fed \o held = SoFar
    BY <1>1, <1>6 DEF Accounted
  <2>2. PICK r \in Seq(S) : AllWords = SoFar \o r
    BY <1>4
  <2>3. IsPrefix(fed, AllWords)
    <3> HIDE DEF S, fed, held
    <3>1. (fed \o held) \o r = fed \o (held \o r) /\ held \o r \in Seq(S)
      BY <1>2, <1>3, HasRun
    <3>2. AllWords = fed \o (held \o r)
      BY <2>1, <2>2, <3>1
    <3> QED BY <1>2, <3>1, <3>2, HasRun
  <2>4. ASSUME loop = "done" PROVE fed = WordsTo(lineNo) /\ (LinesEnd => fed = AllWords)
    <3>1. ReadsNothing /\ cmdArgv = << >>
      BY <2>4 DEF XargsInv
    <3>2. SoFar = WordsTo(lineNo)
      BY <1>4, <2>4 DEF XargsInv
    <3>3. held = << >>
      BY <3>1, StringsNone
    <3>4. ASSUME LinesEnd PROVE lineNo = Len(batch.input)
      <4>1. lineNo \in 0..Len(batch.input) /\ Len(batch.input) \in Nat
        BY <1>1, LenProperties DEF XargsTypeOK
      <4>2. ASSUME lineNo # Len(batch.input) PROVE FALSE
        <5>1. lineNo # 0 /\ Len(batch.input[lineNo]) = LineMax - 1
          BY <3>1, <4>2 DEF ReadsNothing, LeftItsNewline
        <5>2. lineNo \in 1..(Len(batch.input) - 1)
          BY <4>1, <4>2, <5>1
        <5>3. Len(batch.input[lineNo]) < LineMax - 1
          BY <3>4, <5>2 DEF LinesEnd
        <5> QED BY <5>1, <5>3, GlyphAssumption
      <4> QED BY <4>2
    <3> HIDE DEF S, fed, held
    <3>5. fed = WordsTo(lineNo)
      BY <1>2, <2>1, <3>2, <3>3, ConcatEmptySeq
    <3> QED BY <3>4, <3>5 DEF AllWords
  <2> QED BY <1>1, <2>3, <2>4 DEF Counts
<1> QED BY <1>5, <1>6
-------------------------------------------------------------------------------
LEMMA XargsStart == XargsInit => XargsInv
<1> SUFFICES ASSUME XargsInit PROVE XargsInv
  OBVIOUS
<1>1. batch \in [input : Seq(InputLine), max : Int, base : Nat] /\ batch.base < MaxArgc
  BY BatchesAssumption DEF XargsInit
<1>2. Len(batch.input) \in Nat
  BY <1>1, LenProperties
<1>3. lineBuf \in [Cells -> Chars] /\ cursor \in Cells
  BY GlyphAssumption DEF XargsInit, Cells, Chars
<1>4. << >> \in Seq(Cells) /\ << >> \in Seq(Nat) /\ << >> \in Seq(Seq(Seq(Chars))) /\ Len(<< >>) = 0
  OBVIOUS
<1>5. XargsTypeOK
  BY <1>1, <1>2, <1>3, <1>4 DEF XargsInit, XargsTypeOK
<1>6. Points /\ ~Stale /\ Counts
  BY <1>4 DEF XargsInit, Points, Stale, Counts
<1>7. Accounted
  <2>1. FlattenSeq(ran) = << >> /\ Strings(lineBuf, cmdArgv) = << >> /\ SoFar = << >>
    BY FlattenNone, StringsNone DEF XargsInit, SoFar
  <2>2. << >> \o << >> = << >>
    BY EmptySeq, ConcatEmptySeq
  <2> QED BY <1>6, <2>1, <2>2 DEF Accounted
<1> QED BY <1>5, <1>6, <1>7 DEF XargsInv, XargsInit

(* A command is run, or fork fails.                                        *)
LEMMA RunIs ==
  ASSUME XargsTypeOK, Counts, NEW pointers, NEW from, NEW memory, RunBatch(pointers, from, memory),
         NEW given, given = Strings(memory, pointers), given \in Seq(Seq(Chars)),
         Len(given) >= 1, Len(given) <= batch.max \/ Len(given) = 1
  PROVE  /\ cmdArgv' = << >> /\ origin' = << >> /\ ran' \in Seq(Seq(Seq(Chars)))
         /\ spanned' \in BOOLEAN /\ spoilt' \in BOOLEAN
         /\ \A k \in 1..Len(ran') : Len(ran'[k]) >= 1 /\ (Len(ran'[k]) <= batch.max \/ Len(ran'[k]) = 1)
         /\ ~spoilt' => ~spoilt /\ FlattenSeq(ran') = FlattenSeq(ran) \o given
         /\ ~spanned' => ~spanned /\ \A i \in 1..Len(from) : from[i] = lineNo
<1>1. /\ cmdArgv' = << >> /\ origin' = << >> /\ spanned' = (spanned \/ \E i \in 1..Len(from) : from[i] # lineNo)
      /\ spanned \in BOOLEAN /\ spoilt \in BOOLEAN /\ ran \in Seq(Seq(Seq(Chars)))
  BY DEF RunBatch, XargsTypeOK
<1>2. CASE ran' = ran /\ spoilt' = TRUE
  BY <1>1, <1>2 DEF Counts
<1>3. CASE ran' = Append(ran, given) /\ spoilt' = spoilt
  <2>1. /\ ran' \in Seq(Seq(Seq(Chars))) /\ Len(ran') = Len(ran) + 1 /\ Len(ran) \in Nat
        /\ \A i \in 1..Len(ran) : ran'[i] = ran[i]
        /\ ran'[Len(ran) + 1] = given
    BY <1>1, <1>3, AppendProperties, LenProperties
  <2>2. FlattenSeq(ran') = FlattenSeq(ran) \o given
    BY <1>1, <1>3, FlattenMore
  <2>3. \A k \in 1..Len(ran') : k \in 1..Len(ran) \/ k = Len(ran) + 1
    BY <2>1
  <2> QED BY <1>1, <1>3, <2>1, <2>2, <2>3 DEF Counts
<1> QED BY <1>2, <1>3 DEF RunBatch, Strings

LEMMA Typed ==
  ASSUME XargsInv
  PROVE  /\ XargsTypeOK /\ Points /\ Accounted /\ Counts
         /\ batch.input \in Seq(InputLine) /\ Len(batch.input) \in Nat
         /\ lineNo \in Nat /\ cursor \in Nat /\ LineMax \in Nat \ {0}
         /\ cmdArgv \in Seq(Cells) /\ Len(cmdArgv) \in Nat /\ Len(origin) = Len(cmdArgv)
         /\ \A k \in 1..Len(cmdArgv) : cmdArgv[k] \in Cells /\ origin[k] \in Nat
         /\ FlattenSeq(ran) \in Seq(Seq(Chars)) /\ Strings(lineBuf, cmdArgv) \in Seq(Seq(Chars))
<1>1. XargsTypeOK /\ Points /\ Accounted /\ Counts
  BY DEF XargsInv
<1>2. /\ batch.input \in Seq(InputLine) /\ Len(batch.input) \in Nat /\ lineNo \in Nat /\ cursor \in Nat
      /\ LineMax \in Nat \ {0}
      /\ cmdArgv \in Seq(Cells) /\ Len(cmdArgv) \in Nat /\ Len(origin) = Len(cmdArgv)
  BY <1>1, GlyphAssumption DEF XargsTypeOK, Cells
<1>3. \A k \in 1..Len(cmdArgv) : cmdArgv[k] \in Cells /\ origin[k] \in Nat
  BY <1>1, ElementOfSeq DEF XargsTypeOK
<1>4. FlattenSeq(ran) \in Seq(Seq(Chars))
  <2>1. << >> \in Seq(Seq(Chars))
    OBVIOUS
  <2> QED BY <1>1, <2>1, FlattenMore DEF XargsTypeOK
<1>5. Strings(lineBuf, cmdArgv) \in Seq(Seq(Chars))
  BY <1>1, StringsTyped DEF XargsTypeOK, Points
<1> QED BY <1>1, <1>2, <1>3, <1>4, <1>5

LEMMA NextLineStep ==
  ASSUME XargsInv, NextLine
  PROVE  XargsInv'
<1> DEFINE line == batch.input[lineNo + 1]
<1>0. loop = "line" /\ lineNo # Len(batch.input)
  BY DEF NextLine, ReadsNothing
<1>1. /\ loop = "line" /\ lineNo < Len(batch.input)
      /\ lineNo' = lineNo + 1 /\ cursor' = 0 /\ loop' = "word"
      /\ lineBuf' = [i \in 0..(LineMax - 1) |-> CASE i < Len(line) -> line[i + 1]
                                                  [] i = Len(line) -> Nul
                                                  [] OTHER -> lineBuf[i]]
      /\ UNCHANGED <<batch, cmdArgv, origin, ran, spanned, spoilt>>
  <2>1. lineNo < Len(batch.input)
    BY <1>0, Typed DEF XargsTypeOK
  <2> QED BY <2>1 DEF NextLine
<1>2. lineNo + 1 \in 1..Len(batch.input) /\ lineNo + 1 # 0
  BY <1>1, Typed
<1>3. line \in InputLine /\ InHand' = line
  BY <1>1, <1>2, Typed, ElementOfSeq DEF InHand
<1> HIDE DEF line
<1>4. /\ Len(line) \in 1..(LineMax - 1) /\ LineMax \in Nat /\ line \in Seq(Glyph)
      /\ \A i \in 1..Len(line) : line[i] \in Glyph
  BY <1>3, LinesAre, ElementOfSeq
<1>5. /\ \A i \in 0..(Len(line) - 1) : lineBuf'[i] = line[i + 1]
      /\ lineBuf'[Len(line)] = Nul
      /\ \A i \in (Len(line) + 1)..(LineMax - 1) : lineBuf'[i] = lineBuf[i]
  BY <1>1, <1>4
<1>6. lineBuf' \in [Cells -> Chars]
  <2>1. ASSUME NEW i \in 0..(LineMax - 1)
        PROVE (CASE i < Len(line) -> line[i + 1] [] i = Len(line) -> Nul [] OTHER -> lineBuf[i]) \in Chars
    <3>1. lineBuf[i] \in Chars
      BY Typed DEF XargsTypeOK, Cells
    <3>2. CASE i < Len(line)
      <4>1. i + 1 \in 1..Len(line)
        BY <3>2, <1>4
      <4> QED BY <4>1, <3>2, <1>4 DEF Chars
    <3>3. CASE ~(i < Len(line))
      BY <3>1, <3>3, <1>4 DEF Chars
    <3> QED BY <3>2, <3>3
  <2> QED BY <2>1, <1>1 DEF Cells
<1>7. XargsTypeOK'
  <2>1. cursor' \in Cells /\ lineNo' \in 0..Len(batch'.input)
    BY <1>1, <1>2, Typed DEF Cells
  <2> QED BY <2>1, <1>1, <1>6, Typed DEF XargsTypeOK
<1>8. Holds(lineBuf', line, 0)
  <2>1. ASSUME NEW i \in 1..Len(line) PROVE lineBuf'[i - 1] = line[i]
    <3>1. i - 1 \in 0..(Len(line) - 1) /\ (i - 1) + 1 = i
      BY <1>4
    <3> QED BY <3>1, <1>5
  <2> QED BY <2>1, <1>4, <1>5 DEF Holds
<1>9. Points'
  <2>1. ASSUME NEW k \in 1..Len(cmdArgv)
        PROVE  \E j \in cmdArgv[k]..(LineMax - 1) : lineBuf'[j] = Nul
    <3>1. PICK j \in cmdArgv[k]..(LineMax - 1) : lineBuf[j] = Nul
      BY Typed DEF Points
    <3>2. cmdArgv[k] \in Nat /\ j \in Nat
      BY Typed DEF Cells
    <3>3. CASE j > Len(line)
      BY <3>2, <3>3, <3>1, <1>4, <1>5
    <3>4. CASE ~(j > Len(line))
      <4>1. Len(line) \in cmdArgv[k]..(LineMax - 1)
        BY <3>2, <3>4, <1>4
      <4> QED BY <4>1, <1>5
    <3> QED BY <3>3, <3>4
  <2>2. \A k \in 1..Len(cmdArgv) : origin[k] <= lineNo + 1 /\ origin[k] # lineNo + 1
    <3>1. \A k \in 1..Len(cmdArgv) : origin[k] \in Nat /\ origin[k] <= lineNo
      BY Typed DEF Points
    <3> QED BY <3>1, Typed
  <2> QED BY <2>1, <2>2, <1>1 DEF Points
<1>10. Accounted'
  <2> SUFFICES ASSUME ~spoilt, ~spanned
               PROVE  IF Stale' THEN \E r \in Seq(Seq(Chars)) : AllWords = FlattenSeq(ran) \o r
                      ELSE FlattenSeq(ran) \o Strings(lineBuf', cmdArgv) = SoFar'
    BY <1>1 DEF Accounted, AllWords, WordsTo
  <2>1. SoFar = WordsTo(lineNo) /\ SoFar \in Seq(Seq(Chars)) /\ \E r \in Seq(Seq(Chars)) : AllWords = SoFar \o r
    BY <1>1, Typed, SoFarIs DEF XargsInv
  <2>2. CASE Stale'
    <3>1. CASE Stale
      BY <3>1, <2>2, Typed DEF Accounted
    <3>2. CASE ~Stale
      <4> DEFINE S == Seq(Chars)  fed == FlattenSeq(ran)  held == Strings(lineBuf, cmdArgv)
      <4>1. fed \o held = SoFar
        BY <3>2, Typed DEF Accounted
      <4>2. PICK r \in Seq(S) : AllWords = SoFar \o r
        BY <2>1
      <4>3. fed \in Seq(S) /\ held \in Seq(S)
        BY Typed
      <4> HIDE DEF S, fed, held
      <4>4. (fed \o held) \o r = fed \o (held \o r) /\ held \o r \in Seq(S)
        BY <4>3, HasRun
      <4>5. AllWords = fed \o (held \o r)
        BY <4>1, <4>2, <4>4
      <4> QED BY <2>2, <4>4, <4>5 DEF S, fed
    <3> QED BY <3>1, <3>2
  <2>3. CASE ~Stale'
    <3>1. cmdArgv = << >> /\ ~Stale
      <4>1. Len(origin) = 0
        <5> SUFFICES ASSUME Len(origin) # 0 PROVE FALSE
          OBVIOUS
        <5>1. 1 \in 1..Len(origin) /\ 1 \in 1..Len(cmdArgv)
          BY Typed
        <5>2. origin[1] <= lineNo /\ origin[1] \in Nat
          BY <5>1, Typed DEF Points
        <5>3. origin[1] # lineNo + 1
          BY <5>2, Typed
        <5>4. \A k \in 1..Len(origin) : origin[k] = lineNo + 1
          BY <1>1, <2>3 DEF Stale
        <5> QED BY <5>1, <5>3, <5>4
      <4>2. Len(cmdArgv) = 0
        BY <4>1, Typed
      <4> QED BY <4>1, <4>2, Typed DEF Stale
    <3>2. FlattenSeq(ran) \o Strings(lineBuf, cmdArgv) = SoFar
      BY <3>1, Typed DEF Accounted
    <3>3. FlattenSeq(ran) \o Strings(lineBuf', cmdArgv) = SoFar
      BY <3>1, <3>2, StringsNone
    <3>4. SoFar' = WordsTo(lineNo) \o WordsIn(line, 0)
      <4>1. lineNo' - 1 = lineNo /\ lineNo' # 0
        BY <1>1, <1>2, Typed
      <4>2. SoFar' = FlattenSeq([i \in 1..(lineNo' - 1) |->
                                   WordsIn(batch'.input[i], Len(batch'.input[i]))]) \o WordsIn(line, 0)
        BY <1>1, <1>3, <4>1 DEF SoFar, WordsTo
      <4>3. SoFar' = FlattenSeq([i \in 1..lineNo |->
                                   WordsIn(batch.input[i], Len(batch.input[i]))]) \o WordsIn(line, 0)
        BY <4>1, <4>2, <1>1
      <4> QED BY <4>3 DEF WordsTo
    <3>5. WordsIn(line, 0) = << >>
      <4>1. [i \in 1..0 |-> IF BeginsWord(line, i) THEN <<WordFrom(line, i)>> ELSE << >>] = << >>
        OBVIOUS
      <4> QED BY <4>1, FlattenNone DEF WordsIn
    <3>6. WordsTo(lineNo) \o << >> = WordsTo(lineNo)
      BY <2>1, ConcatEmptySeq
    <3> QED BY <2>1, <2>3, <3>3, <3>4, <3>5, <3>6
  <2> QED BY <2>2, <2>3
<1>11. Counts'
  BY <1>1, Typed DEF Counts
<1> QED BY <1>1, <1>2, <1>3, <1>7, <1>8, <1>9, <1>10, <1>11 DEF XargsInv

LEMMA LineDoneStep ==
  ASSUME XargsInv, LineDone
  PROVE  XargsInv'
<1>1. /\ loop = "word" /\ WordStarts = {} /\ loop' = "line"
      /\ UNCHANGED <<batch, lineNo, lineBuf, cursor, cmdArgv, origin, ran, spanned, spoilt>>
  BY DEF LineDone
<1>2. lineNo # 0 /\ Holds(lineBuf, InHand, cursor) /\ InHand \in InputLine
  BY <1>1, Typed, LineInHand DEF XargsInv
<1>3. ASSUME NEW i \in (cursor + 1)..Len(InHand), BeginsWord(InHand, i) PROVE FALSE
  <2>1. Len(InHand) \in Nat /\ cursor \in Nat
    BY <1>2, LinesAre, Typed
  <2>2. i - 1 \in cursor..(Len(InHand) - 1) /\ (i - 1) + 1 = i
    BY <2>1
  <2>3. InHand[(i - 1) + 1] # Blank
    BY <2>2, <1>3 DEF BeginsWord
  <2>4. i - 1 \in WordStarts
    BY <2>2, <2>3, <1>2, Typed, StartsAre DEF XargsTypeOK
  <2> QED BY <2>4, <1>1
<1>4. InHand' = InHand /\ Stale' = Stale /\ SoFar' = SoFar /\ AllWords' = AllWords
  BY <1>1 DEF InHand, Stale, SoFar, AllWords, WordsTo
<1>5. XargsTypeOK' /\ Points' /\ Counts'
  BY <1>1, <1>4, Typed DEF XargsTypeOK, Points, Counts
<1>6. Accounted'
  BY <1>1, <1>4, Typed DEF Accounted
<1> QED BY <1>1, <1>2, <1>3, <1>4, <1>5, <1>6 DEF XargsInv

(* The word that comes next is terminated, and the cursor is behind it.    *)
TheNext(line, s, e, c, t) ==
  /\ line \in InputLine /\ lineBuf \in [Cells -> Chars] /\ Holds(lineBuf, line, cursor)
  /\ WordStarts # {} /\ s = SmallestOf(WordStarts) /\ e = EndOfWord(s)
  /\ c = (IF lineBuf[e] = Nul THEN e ELSE e + 1) /\ t = [lineBuf EXCEPT ![e] = Nul]
Terminated(line, s, e, c, t) ==
  /\ t \in [Cells -> Chars] /\ c \in Cells /\ s \in Cells /\ e \in s..(LineMax - 1) /\ t[e] = Nul
  /\ \A i \in Cells : t[i] = Nul \/ (t[i] = lineBuf[i] /\ i # e)
  /\ cursor <= s /\ s < c /\ BeginsWord(line, s + 1)
  /\ Holds(t, line, c)

LEMMA AfterWord ==
  ASSUME NEW line, NEW s, NEW e, NEW c, NEW t, TheNext(line, s, e, c, t)
  PROVE  /\ Terminated(line, s, e, c, t)
         /\ WordsIn(line, c) = WordsIn(line, cursor) \o <<WordFrom(line, s + 1)>>
<1> SUFFICES ASSUME line \in InputLine, lineBuf \in [Cells -> Chars], Holds(lineBuf, line, cursor),
                    WordStarts # {}, s = SmallestOf(WordStarts), e = EndOfWord(s),
                    c = (IF lineBuf[e] = Nul THEN e ELSE e + 1), t = [lineBuf EXCEPT ![e] = Nul]
             PROVE  /\ Terminated(line, s, e, c, t)
                    /\ WordsIn(line, c) = WordsIn(line, cursor) \o <<WordFrom(line, s + 1)>>
  BY DEF TheNext
<1>1. /\ Len(line) \in 1..(LineMax - 1) /\ LineMax \in Nat /\ line \in Seq(Glyph)
      /\ cursor \in 0..Len(line) /\ lineBuf[Len(line)] = Nul /\ lineBuf \in [0..(LineMax - 1) -> Chars]
  BY LinesAre DEF Holds, Cells
<1>2. /\ s \in cursor..(Len(line) - 1) /\ BeginsWord(line, s + 1)
      /\ e = WordEnd(line, s + 1) - 1 /\ e \in (s + 1)..Len(line)
      /\ \A i \in (cursor + 1)..s : ~BeginsWord(line, i)
      /\ \A i \in (s + 2)..(e + 1) : i <= Len(line) => ~BeginsWord(line, i)
      /\ \A i \in (s + 1)..e : line[i] # Blank
      /\ IF lineBuf[e] = Nul THEN e = Len(line) ELSE e < Len(line) /\ line[e + 1] = Blank
  BY NextIs, Zenon
<1>3. (c = e /\ e = Len(line)) \/ (c = e + 1 /\ e < Len(line) /\ line[e + 1] = Blank)
  BY <1>2
<1>4. /\ s \in Nat /\ e \in Nat /\ c \in Nat /\ cursor <= s /\ s < e /\ e <= c /\ c <= e + 1
      /\ c <= Len(line) /\ e < LineMax /\ c < LineMax /\ s < LineMax
  BY <1>1, <1>2, <1>3
<1>5. \A i \in 0..(LineMax - 1) : t[i] = IF i = e THEN Nul ELSE lineBuf[i]
  BY <1>1
<1>6. t \in [Cells -> Chars]
  BY <1>1 DEF Chars, Cells
<1>7. Holds(t, line, c)
  <2>1. c \in 0..Len(line) /\ t[Len(line)] = Nul /\ (c = Len(line) \/ line[c] = Blank)
    BY <1>1, <1>3, <1>4, <1>5
  <2>2. ASSUME NEW i \in 1..Len(line), i > c \/ line[i] # Blank PROVE t[i - 1] = line[i]
    <3>1. i - 1 # e /\ (i > cursor \/ line[i] # Blank) /\ i - 1 \in 0..(LineMax - 1)
      BY <1>1, <1>3, <1>4, <2>2
    <3>2. lineBuf[i - 1] = line[i]
      BY <3>1 DEF Holds
    <3> QED BY <3>1, <3>2, <1>5
  <2>3. ASSUME NEW i \in 1..c, BeginsWord(line, i) PROVE t[WordEnd(line, i) - 1] = Nul
    <3>1. i \in 1..Len(line)
      BY <1>1, <1>4
    <3>2. WordEnd(line, i) \in i..(Len(line) + 1)
      BY <3>1, EndsAre
    <3>3. WordEnd(line, i) - 1 \in 0..(LineMax - 1)
      BY <3>1, <3>2, <1>1
    <3>4. CASE i \in 1..cursor
      <4>1. lineBuf[WordEnd(line, i) - 1] = Nul
        BY <3>4, <2>3 DEF Holds
      <4> QED BY <4>1, <3>3, <1>5
    <3>5. CASE i = s + 1
      BY <3>5, <3>3, <1>2, <1>5
    <3>6. CASE i \in (cursor + 1)..s \/ i \in (s + 2)..(e + 1)
      BY <3>1, <3>6, <2>3, <1>2
    <3>7. i \in 1..cursor \/ i = s + 1 \/ i \in (cursor + 1)..s \/ i \in (s + 2)..(e + 1)
      BY <1>1, <1>4, <3>1
    <3> QED BY <3>4, <3>5, <3>6, <3>7
  <2> QED BY <2>1, <2>2, <2>3 DEF Holds
<1>8. WordsIn(line, c) = WordsIn(line, cursor) \o <<WordFrom(line, s + 1)>>
  <2> DEFINE b == s + 1
  <2>1. /\ b \in 1..Len(line) /\ c \in 0..Len(line) /\ b \in 0..c /\ s \in 0..Len(line)
        /\ cursor \in 0..s /\ b - 1 = s
    BY <1>1, <1>2, <1>4
  <2>2. \A i \in (b + 1)..c : ~BeginsWord(line, i)
    <3>1. \A i \in (b + 1)..c : i \in (s + 2)..(e + 1) /\ i <= Len(line)
      BY <1>4
    <3> QED BY <3>1, <1>2
  <2>3. BeginsWord(line, b)
    BY <1>2
  <2> HIDE DEF b
  <2>4. WordsIn(line, c) = WordsIn(line, b)
    BY <2>1, <2>2, NoWord
  <2>5. WordsIn(line, b) = WordsIn(line, s) \o <<WordFrom(line, b)>>
    BY <2>1, <2>3, OneWord
  <2>6. WordsIn(line, s) = WordsIn(line, cursor)
    BY <2>1, <1>2, NoWord
  <2> QED BY <2>4, <2>5, <2>6 DEF b
<1>9. c \in Cells /\ s \in Cells /\ e \in s..(LineMax - 1) /\ e \in 0..(LineMax - 1)
  BY <1>1, <1>4 DEF Cells
<1>10. t[e] = Nul /\ \A i \in Cells : t[i] = Nul \/ (t[i] = lineBuf[i] /\ i # e)
  BY <1>5, <1>9 DEF Cells
<1> QED BY <1>2, <1>4, <1>6, <1>7, <1>8, <1>9, <1>10 DEF Terminated

(* The vector with that word in it.                                        *)
Gains(line, s, c, t, words, lines) ==
  /\ words \in Seq(Cells) /\ Len(words) = Len(cmdArgv) + 1
  /\ lines \in Seq(Nat) /\ Len(lines) = Len(words)
  /\ \A k \in 1..Len(words) : \E j \in words[k]..(LineMax - 1) : t[j] = Nul
  /\ \A k \in 1..Len(words) : lines[k] <= lineNo
  /\ \A k \in 1..Len(words) : lines[k] = lineNo => words[k] < c /\ BeginsWord(line, words[k] + 1)
  /\ Strings(t, words) \in Seq(Seq(Chars)) /\ Len(Strings(t, words)) = Len(cmdArgv) + 1
  /\ Stale <=> \E k \in 1..Len(lines) : lines[k] # lineNo
  /\ ~Stale => Strings(t, words) = Strings(lineBuf, cmdArgv) \o <<WordFrom(line, s + 1)>>

LEMMA WithWord ==
  ASSUME XargsInv, NEW line, NEW s, NEW e, NEW c, NEW t, NEW words, NEW lines,
         line \in InputLine /\ line = InHand /\ Holds(lineBuf, line, cursor),
         Terminated(line, s, e, c, t), words = Append(cmdArgv, s), lines = Append(origin, lineNo)
  PROVE  Gains(line, s, c, t, words, lines)
<1> SUFFICES ASSUME t \in [Cells -> Chars], c \in Cells, s \in Cells, e \in s..(LineMax - 1), t[e] = Nul,
                    \A i \in Cells : t[i] = Nul \/ (t[i] = lineBuf[i] /\ i # e),
                    cursor <= s, s < c, BeginsWord(line, s + 1), Holds(t, line, c)
             PROVE  Gains(line, s, c, t, words, lines)
  BY DEF Terminated
<1> DEFINE n == Len(cmdArgv)
<1>1. /\ n \in Nat /\ Len(origin) = n /\ origin \in Seq(Nat) /\ cmdArgv \in Seq(Cells) /\ lineNo \in Nat
      /\ LineMax \in Nat /\ cursor \in Nat /\ s \in Nat /\ c \in Nat
      /\ lineBuf \in [Cells -> Chars]
  BY Typed DEF XargsTypeOK, Cells
<1>2. /\ words \in Seq(Cells) /\ Len(words) = n + 1 /\ words[n + 1] = s
      /\ \A k \in 1..n : words[k] = cmdArgv[k]
  BY <1>1, AppendProperties
<1>3. /\ lines \in Seq(Nat) /\ Len(lines) = n + 1 /\ lines[n + 1] = lineNo
      /\ \A k \in 1..n : lines[k] = origin[k]
  BY <1>1, AppendProperties
<1>4. \A k \in 1..(n + 1) : k \in 1..n \/ k = n + 1
  BY <1>1
<1>5. /\ \A k \in 1..n : \E j \in cmdArgv[k]..(LineMax - 1) : lineBuf[j] = Nul
      /\ \A k \in 1..n : origin[k] <= lineNo /\ cmdArgv[k] \in Cells /\ cmdArgv[k] \in Nat
      /\ \A k \in 1..n : origin[k] = lineNo => cmdArgv[k] < cursor /\ BeginsWord(line, cmdArgv[k] + 1)
  BY Typed, SMTT(30) DEF Points, Cells
<1> HIDE DEF n
<1>6. ASSUME NEW k \in 1..(n + 1) PROVE \E j \in words[k]..(LineMax - 1) : t[j] = Nul
  <2>1. CASE k = n + 1
    BY <2>1, <1>2
  <2>2. CASE k \in 1..n
    <3>1. PICK j \in cmdArgv[k]..(LineMax - 1) : lineBuf[j] = Nul
      BY <1>5, <2>2
    <3>2. j \in Cells
      BY <3>1, <2>2, <1>1, <1>5, SMTT(30) DEF Cells
    <3>3. t[j] = Nul
      BY <3>1, <3>2
    <3> QED BY <3>1, <3>3, <2>2, <1>2
  <2> QED BY <2>1, <2>2, <1>4
<1>7. ASSUME NEW k \in 1..(n + 1)
      PROVE  lines[k] <= lineNo /\ (lines[k] = lineNo => words[k] < c /\ BeginsWord(line, words[k] + 1))
  <2>1. CASE k = n + 1
    BY <2>1, <1>1, <1>2, <1>3
  <2>2. CASE k \in 1..n
    BY <2>2, <1>1, <1>2, <1>3, <1>5, SMTT(30)
  <2> QED BY <2>1, <2>2, <1>4
<1>8. Strings(t, words) \in Seq(Seq(Chars)) /\ Len(Strings(t, words)) = n + 1
  BY <1>2, <1>6, StringsTyped
<1>9. Stale <=> \E k \in 1..(n + 1) : lines[k] # lineNo
  <2>1. ASSUME NEW k \in 1..n, origin[k] # lineNo PROVE k \in 1..(n + 1) /\ lines[k] # lineNo
    BY <2>1, <1>1, <1>3
  <2>2. ASSUME NEW k \in 1..(n + 1), lines[k] # lineNo PROVE k \in 1..n /\ origin[k] # lineNo
    BY <2>2, <1>3, <1>4
  <2> QED BY <2>1, <2>2, <1>1 DEF Stale
<1>10. ASSUME ~Stale PROVE Strings(t, words) = Strings(lineBuf, cmdArgv) \o <<WordFrom(line, s + 1)>>
  <2> DEFINE held == Strings(lineBuf, cmdArgv)  more == <<WordFrom(line, s + 1)>>
  <2>1. held \in Seq(Seq(Chars)) /\ Len(held) = n
    BY <1>1, <1>2, <1>5, StringsTyped DEF n
  <2>2. /\ cursor <= c /\ \A k \in 1..(n + 1) : words[k] + 1 \in 1..c /\ (words[k] + 1) - 1 = words[k]
        /\ \A k \in 1..n : words[k] + 1 \in 1..cursor
        /\ \A k \in 1..(n + 1) : BeginsWord(line, words[k] + 1)
    <3>1. \A k \in 1..(n + 1) : lines[k] = lineNo
      BY <1>9, <1>10
    <3>2. \A k \in 1..(n + 1) : words[k] < c /\ BeginsWord(line, words[k] + 1) /\ words[k] \in Nat
      <4>1. \A k \in 1..(n + 1) : words[k] \in Cells
        BY <1>2, ElementOfSeq
      <4>2. \A k \in 1..(n + 1) : words[k] \in Nat
        <5>1. Cells \subseteq Nat
          BY DEF Cells
        <5> QED BY <4>1, <5>1, Zenon
      <4>3. \A k \in 1..(n + 1) : words[k] < c /\ BeginsWord(line, words[k] + 1)
        BY <3>1, <1>7
      <4> QED BY <4>2, <4>3
    <3>3. \A k \in 1..n : words[k] < cursor
      <4>1. \A k \in 1..n : k \in 1..(n + 1)
        BY <1>1
      <4> QED BY <3>1, <4>1, <1>2, <1>3, <1>5
    <3>4. \A k \in 1..n : k \in 1..(n + 1)
      BY <1>1
    <3>5. cursor <= c
      BY <1>1
    <3>6. ASSUME NEW k \in 1..(n + 1) PROVE words[k] + 1 \in 1..c /\ (words[k] + 1) - 1 = words[k]
      <4> DEFINE point == words[k]
      <4>1. point \in Nat /\ point < c /\ c \in Nat
        BY <3>2, <1>1
      <4> HIDE DEF point
      <4>2. point + 1 \in 1..c /\ (point + 1) - 1 = point
        BY <4>1
      <4> QED BY <4>2 DEF point
    <3>7. ASSUME NEW k \in 1..n PROVE words[k] + 1 \in 1..cursor
      <4> DEFINE point == words[k]
      <4>1. point \in Nat /\ point < cursor /\ cursor \in Nat
        BY <3>2, <3>3, <3>4, <1>1
      <4> HIDE DEF point
      <4>2. point + 1 \in 1..cursor
        BY <4>1
      <4> QED BY <4>2 DEF point
    <3> QED BY <3>2, <3>5, <3>6, <3>7
  <2>3. ASSUME NEW k \in 1..(n + 1) PROVE Strings(t, words)[k] = WordFrom(line, words[k] + 1)
    <3>1. StringAt(t, (words[k] + 1) - 1) = WordFrom(line, words[k] + 1)
      BY <2>2, StringIs, ZenonT(30)
    <3> QED BY <3>1, <2>2, <1>2 DEF Strings
  <2>4. ASSUME NEW k \in 1..n PROVE held[k] = WordFrom(line, words[k] + 1)
    <3>1. k \in 1..(n + 1) /\ k \in 1..Len(cmdArgv)
      BY <1>1 DEF n
    <3>2. BeginsWord(line, words[k] + 1) /\ words[k] + 1 \in 1..cursor
      BY <3>1, <2>2
    <3>3. StringAt(lineBuf, (words[k] + 1) - 1) = WordFrom(line, words[k] + 1)
      <4> DEFINE memory == lineBuf  point == cursor  i == words[k] + 1
      <4>1. memory \in [Cells -> Chars] /\ Holds(memory, line, point) /\ i \in 1..point /\ BeginsWord(line, i)
        BY <3>2, <1>1
      <4> HIDE DEF memory, point, i
      <4>2. StringAt(memory, i - 1) = WordFrom(line, i)
        BY <4>1, StringIs
      <4> QED BY <4>2 DEF memory, i
    <3>4. held[k] = StringAt(lineBuf, cmdArgv[k])
      BY <3>1 DEF Strings
    <3> QED BY <3>1, <3>3, <3>4, <2>2, <1>2
  <2>5. more \in Seq(Seq(Chars)) /\ Len(more) = 1 /\ more[1] = WordFrom(line, s + 1)
    <3>1. n + 1 \in 1..(n + 1)
      BY <1>1
    <3>2. Strings(t, words)[n + 1] \in Seq(Chars)
      BY <3>1, <1>8, ElementOfSeq
    <3>3. WordFrom(line, s + 1) \in Seq(Chars)
      BY <3>1, <3>2, <2>3, <1>2
    <3> QED BY <3>3
  <2> HIDE DEF held, more
  <2>6. /\ held \o more \in Seq(Seq(Chars)) /\ Len(held \o more) = n + 1
        /\ \A k \in 1..(n + 1) : (held \o more)[k] = IF k <= n THEN held[k] ELSE more[k - n]
    <3>1. /\ held \o more \in Seq(Seq(Chars)) /\ Len(held \o more) = Len(held) + Len(more)
          /\ \A k \in 1..(Len(held) + Len(more)) :
               (held \o more)[k] = IF k <= Len(held) THEN held[k] ELSE more[k - Len(held)]
      BY <2>1, <2>5, ConcatProperties, ZenonT(30)
    <3> QED BY <3>1, <2>1, <2>5
  <2>7. ASSUME NEW k \in 1..(n + 1) PROVE Strings(t, words)[k] = (held \o more)[k]
    <3>1. CASE k = n + 1
      <4>1. ~(k <= n) /\ k - n = 1
        BY <3>1, <1>1
      <4> QED BY <3>1, <4>1, <2>3, <2>5, <2>6, <1>2
    <3>2. CASE k \in 1..n
      <4>1. k <= n
        BY <3>2
      <4> QED BY <3>2, <4>1, <2>3, <2>4, <2>6
    <3> QED BY <3>1, <3>2, <1>4
  <2>8. Strings(t, words) = held \o more
    BY <1>8, <2>6, <2>7, SeqEqual
  <2> QED BY <2>8 DEF held, more
<1> QED BY <1>2, <1>3, <1>6, <1>7, <1>8, <1>9, <1>10 DEF n, Gains

LEMMA NextWordStep ==
  ASSUME XargsInv, NextWord
  PROVE  XargsInv'
<1> DEFINE s == SmallestOf(WordStarts)
           e == EndOfWord(s)
           c == IF lineBuf[e] = Nul THEN e ELSE e + 1
           t == [lineBuf EXCEPT ![e] = Nul]
           fits == batch.base + Len(cmdArgv) < MaxArgc
           more == Append(cmdArgv, s)
           lines == Append(origin, lineNo)
           S == Seq(Chars)
           fed == FlattenSeq(ran)
           held == Strings(lineBuf, cmdArgv)
           given == Strings(t, more)
           word == <<WordFrom(InHand, s + 1)>>
<1>1. /\ loop = "word" /\ WordStarts # {}
      /\ lineBuf' = t /\ cursor' = c
      /\ UNCHANGED <<batch, loop, lineNo>>
      /\ fits => IF Len(more) >= batch.max THEN RunBatch(more, lines, t)
                 ELSE /\ cmdArgv' = more /\ origin' = lines /\ spoilt' = spoilt
                      /\ UNCHANGED <<ran, spanned>>
      /\ ~fits => IF Len(cmdArgv) >= batch.max THEN RunBatch(cmdArgv, origin, t)
                  ELSE /\ cmdArgv' = cmdArgv /\ origin' = origin /\ spoilt' = TRUE
                       /\ UNCHANGED <<ran, spanned>>
  <2>1. spoilt \in BOOLEAN
    BY Typed DEF XargsTypeOK
  <2> QED BY <2>1 DEF NextWord
<1>2. lineNo # 0 /\ Holds(lineBuf, InHand, cursor) /\ InHand \in InputLine /\ lineBuf \in [Cells -> Chars]
  BY <1>1, Typed, LineInHand DEF XargsInv, XargsTypeOK
<1>3. /\ s = SmallestOf(WordStarts) /\ e = EndOfWord(s) /\ c = (IF lineBuf[e] = Nul THEN e ELSE e + 1)
      /\ t = [lineBuf EXCEPT ![e] = Nul] /\ more = Append(cmdArgv, s) /\ lines = Append(origin, lineNo)
  OBVIOUS
<1> HIDE DEF s, e, c, t, more, lines
<1>4. /\ t \in [Cells -> Chars] /\ c \in Cells /\ s \in Cells /\ e \in s..(LineMax - 1) /\ t[e] = Nul
      /\ \A i \in Cells : t[i] = Nul \/ (t[i] = lineBuf[i] /\ i # e)
      /\ cursor <= s /\ s < c /\ BeginsWord(InHand, s + 1)
      /\ Holds(t, InHand, c)
      /\ WordsIn(InHand, c) = WordsIn(InHand, cursor) \o word
  <2>1. TheNext(InHand, s, e, c, t)
    BY <1>1, <1>2, <1>3 DEF TheNext
  <2>2. Terminated(InHand, s, e, c, t) /\ WordsIn(InHand, c) = WordsIn(InHand, cursor) \o word
    BY <2>1, AfterWord
  <2> QED BY <2>2 DEF Terminated
<1>5. /\ more \in Seq(Cells) /\ Len(more) = Len(cmdArgv) + 1
      /\ lines \in Seq(Nat) /\ Len(lines) = Len(more)
      /\ \A k \in 1..Len(more) : \E j \in more[k]..(LineMax - 1) : t[j] = Nul
      /\ \A k \in 1..Len(more) : lines[k] <= lineNo
      /\ \A k \in 1..Len(more) : lines[k] = lineNo => more[k] < c /\ BeginsWord(InHand, more[k] + 1)
      /\ given \in Seq(S) /\ Len(given) = Len(cmdArgv) + 1
      /\ Stale <=> \E k \in 1..Len(lines) : lines[k] # lineNo
      /\ ~Stale => given = held \o word
  <2>1. Terminated(InHand, s, e, c, t)
    BY <1>4 DEF Terminated
  <2>2. Gains(InHand, s, c, t, more, lines)
    BY <2>1, <1>2, <1>3, WithWord
  <2> QED BY <2>2 DEF Gains
<1>6. /\ InHand' = InHand /\ AllWords' = AllWords /\ lineNo' = lineNo
      /\ SoFar = WordsTo(lineNo - 1) \o WordsIn(InHand, cursor)
      /\ SoFar' = WordsTo(lineNo - 1) \o WordsIn(InHand, c)
  BY <1>1, <1>2 DEF InHand, AllWords, WordsTo, SoFar
<1>7. SoFar' = SoFar \o word /\ word \in Seq(S)
  <2> DEFINE a == WordsTo(lineNo - 1)  b == WordsIn(InHand, cursor)
  <2>1. cursor \in 0..Len(InHand) /\ lineNo - 1 \in 0..Len(batch.input) /\ s + 1 \in 1..Len(InHand)
    <3>1. cursor \in 0..Len(InHand) /\ c \in 0..Len(InHand)
      BY <1>2, <1>4 DEF Holds
    <3>2. lineNo \in 1..Len(batch.input) /\ Len(batch.input) \in Nat
      BY <1>2, Typed, LineInHand
    <3>3. s \in Nat /\ s < c /\ Len(InHand) \in Nat
      BY <1>2, <1>4, LinesAre DEF Cells
    <3> QED BY <3>1, <3>2, <3>3
  <2>2. a \in Seq(S) /\ b \in Seq(S)
    BY <2>1, <1>2, Typed, WordsToIs, WordsTyped, Wider
  <2>3. word \in Seq(S)
    <3>1. WordFrom(InHand, s + 1) \in Seq(Glyph)
      BY <2>1, <1>2, WordsAre
    <3>2. word \in Seq(Seq(Glyph))
      BY <3>1
    <3> QED BY <3>2, Wider
  <2> HIDE DEF a, b, S, word
  <2>4. (a \o b) \o word = a \o (b \o word)
    BY <2>2, <2>3, ConcatAssociative
  <2> QED BY <2>3, <2>4, <1>4, <1>6 DEF a, b
<1>8. fed \in Seq(S) /\ held \in Seq(S)
  BY Typed
<1>9. Holds(lineBuf', InHand', cursor') /\ lineNo' # 0 /\ loop' = "word"
  BY <1>1, <1>2, <1>4, <1>6
<1>10. /\ batch' \in [input : Seq(InputLine), max : Int, base : Nat] /\ batch'.base < MaxArgc
       /\ loop' \in {"line", "word", "done"} /\ lineNo' \in 0..Len(batch'.input)
       /\ lineBuf' \in [Cells -> Chars] /\ cursor' \in Cells
       /\ batch.max \in Int /\ batch.base \in Nat /\ batch.base < MaxArgc
       /\ ran \in Seq(Seq(S)) /\ spanned \in BOOLEAN /\ spoilt \in BOOLEAN
  BY <1>1, <1>4, Typed DEF XargsTypeOK
<1>11. ASSUME ~Stale PROVE fed \o held = SoFar \/ spoilt \/ spanned
  BY <1>11, Typed DEF Accounted
<1>12. ASSUME ~Stale, ~spoilt, ~spanned PROVE fed \o given = SoFar'
  <2> HIDE DEF S, fed, held, given, word
  <2>1. fed \o held = SoFar /\ given = held \o word
    BY <1>5, <1>11, <1>12
  <2>2. (fed \o held) \o word = fed \o (held \o word)
    BY <1>7, <1>8, ConcatAssociative
  <2> QED BY <2>1, <2>2, <1>7
<1> HIDE DEF fits, S, fed, held, given, word
<1>13. CASE fits /\ Len(more) >= batch.max
  <2>1. RunBatch(more, lines, t)
    BY <1>1, <1>13
  <2>2. Len(given) >= 1 /\ (Len(given) <= batch.max \/ Len(given) = 1)
    <3>1. Len(cmdArgv) \in Nat /\ (Len(cmdArgv) = 0 \/ Len(cmdArgv) < batch.max)
      BY Typed DEF Counts
    <3> QED BY <3>1, <1>5, <1>10
  <2>3. /\ cmdArgv' = << >> /\ origin' = << >> /\ ran' \in Seq(Seq(S))
        /\ spanned' \in BOOLEAN /\ spoilt' \in BOOLEAN
        /\ \A k \in 1..Len(ran') : Len(ran'[k]) >= 1 /\ (Len(ran'[k]) <= batch.max \/ Len(ran'[k]) = 1)
        /\ ~spoilt' => ~spoilt /\ FlattenSeq(ran') = fed \o given
        /\ ~spanned' => ~spanned /\ \A i \in 1..Len(lines) : lines[i] = lineNo
    BY <2>1, <2>2, <1>5, Typed, RunIs DEF given, fed, S
  <2>4. << >> \in Seq(Cells) /\ << >> \in Seq(Nat) /\ Len(<< >>) = 0
    OBVIOUS
  <2>5. XargsTypeOK'
    BY <2>3, <2>4, <1>10 DEF XargsTypeOK, S
  <2>6. Points' /\ Counts' /\ ~Stale'
    BY <2>3, <2>4, <1>1 DEF Points, Counts, Stale
  <2>7. Accounted'
    <3> SUFFICES ASSUME ~spoilt', ~spanned'
                 PROVE  FlattenSeq(ran') \o Strings(lineBuf', cmdArgv') = SoFar'
      BY <2>6 DEF Accounted
    <3>1. Strings(lineBuf', cmdArgv') = << >>
      BY <2>3, StringsNone
    <3>2. FlattenSeq(ran') = fed \o given /\ ~Stale /\ ~spoilt /\ ~spanned
      BY <2>3, <1>5
    <3>3. fed \o given = SoFar' /\ fed \o given \in Seq(S)
      BY <3>2, <1>5, <1>8, <1>12, ConcatProperties
    <3> QED BY <3>1, <3>2, <3>3, ConcatEmptySeq
  <2> QED BY <2>5, <2>6, <2>7, <1>9 DEF XargsInv
<1>14. CASE fits /\ ~(Len(more) >= batch.max)
  <2>1. cmdArgv' = more /\ origin' = lines /\ spoilt' = spoilt /\ ran' = ran /\ spanned' = spanned
    BY <1>1, <1>14
  <2>2. XargsTypeOK'
    BY <2>1, <1>5, <1>10 DEF XargsTypeOK, S
  <2>3. Points'
    BY <2>1, <1>1, <1>5, <1>6 DEF Points
  <2>4. Counts'
    <3>1. Len(more) < batch.max
      <4>1. Len(more) \in Nat
        BY <1>5, Typed
      <4> QED BY <4>1, <1>10, <1>14
    <3> QED BY <3>1, <2>1, <1>1, Typed DEF Counts
  <2>5. Stale' <=> Stale
    BY <2>1, <1>5, <1>6 DEF Stale
  <2>6. Accounted'
    <3> SUFFICES ASSUME ~spoilt, ~spanned
                 PROVE  IF Stale THEN \E r \in Seq(Seq(Chars)) : AllWords = FlattenSeq(ran) \o r
                        ELSE FlattenSeq(ran) \o Strings(t, more) = SoFar'
      BY <2>1, <2>5, <1>1, <1>6 DEF Accounted
    <3>1. CASE Stale
      BY <3>1, Typed DEF Accounted
    <3>2. CASE ~Stale
      BY <3>2, <1>12 DEF fed, given
    <3> QED BY <3>1, <3>2
  <2> QED BY <2>2, <2>3, <2>4, <2>6, <1>9 DEF XargsInv
<1>15. CASE ~fits
  <2>1. Len(cmdArgv) < batch.max
    <3>1. Len(cmdArgv) \in Nat /\ MaxArgc \in Nat /\ (Len(cmdArgv) = 0 \/ Len(cmdArgv) < batch.max)
      BY Typed, GlyphAssumption DEF Counts
    <3>2. Len(cmdArgv) # 0
      BY <3>1, <1>10, <1>15 DEF fits
    <3> QED BY <3>1, <3>2
  <2>2. cmdArgv' = cmdArgv /\ origin' = origin /\ spoilt' = TRUE /\ ran' = ran /\ spanned' = spanned
    <3>1. Len(cmdArgv) \in Nat
      BY Typed
    <3>2. ~(Len(cmdArgv) >= batch.max)
      BY <2>1, <3>1, <1>10
    <3> QED BY <3>2, <1>1, <1>15
  <2>3. XargsTypeOK' /\ Counts' /\ Accounted'
    <3>1. XargsTypeOK'
      BY <2>2, <1>10, Typed DEF XargsTypeOK, S
    <3>2. Counts' /\ Accounted'
      BY <2>2, <1>1, Typed DEF Counts, Accounted
    <3> QED BY <3>1, <3>2
  <2>4. ASSUME NEW k \in 1..Len(cmdArgv)
        PROVE  /\ \E j \in cmdArgv[k]..(LineMax - 1) : t[j] = Nul
               /\ origin[k] <= lineNo
               /\ origin[k] = lineNo => cmdArgv[k] < c /\ BeginsWord(InHand, cmdArgv[k] + 1)
    <3>1. cmdArgv[k] \in Nat /\ cursor \in Nat /\ s \in Nat /\ c \in Nat /\ LineMax \in Nat
      BY <1>4, Typed DEF Cells
    <3>2. /\ origin[k] <= lineNo
          /\ origin[k] = lineNo => cmdArgv[k] < cursor /\ BeginsWord(InHand, cmdArgv[k] + 1)
      BY Typed DEF Points
    <3>3. PICK j \in cmdArgv[k]..(LineMax - 1) : lineBuf[j] = Nul
      BY Typed DEF Points
    <3>4. j \in Cells
      BY <3>1 DEF Cells
    <3>5. t[j] = Nul
      BY <3>3, <3>4, <1>4
    <3>6. origin[k] = lineNo => cmdArgv[k] < c
      BY <3>1, <3>2, <1>4
    <3> QED BY <3>2, <3>5, <3>6
  <2>5. Points'
    BY <2>2, <2>4, <1>1, <1>6 DEF Points
  <2> QED BY <2>3, <2>5, <1>9 DEF XargsInv
<1> QED BY <1>13, <1>14, <1>15

LEMMA InputEndsStep ==
  ASSUME XargsInv, InputEnds
  PROVE  XargsInv'
<1> DEFINE S == Seq(Chars)
           fed == FlattenSeq(ran)
           held == Strings(lineBuf, cmdArgv)
<1>1. /\ loop = "line" /\ ReadsNothing /\ loop' = "done"
      /\ IF cmdArgv # << >> THEN RunBatch(cmdArgv, origin, lineBuf)
         ELSE UNCHANGED <<cmdArgv, origin, ran, spanned, spoilt>>
      /\ UNCHANGED <<batch, lineNo, lineBuf, cursor>>
  BY DEF InputEnds
<1>2. InHand' = InHand /\ SoFar' = SoFar /\ AllWords' = AllWords
  BY <1>1 DEF InHand, SoFar, AllWords, WordsTo
<1>3. /\ lineNo' = 0 => loop' # "word"
      /\ lineNo' # 0 => Holds(lineBuf', InHand', cursor')
      /\ lineNo' # 0 => \A i \in (cursor' + 1)..Len(InHand') : ~BeginsWord(InHand', i)
      /\ ReadsNothing'
  BY <1>1, <1>2 DEF XargsInv, ReadsNothing, LeftItsNewline
<1>4. fed \in Seq(S) /\ held \in Seq(S)
  BY Typed
<1>5. CASE cmdArgv = << >>
  <2>1. UNCHANGED <<cmdArgv, origin, ran, spanned, spoilt>>
    BY <1>1, <1>5
  <2>2. Stale' = Stale
    BY <2>1, <1>1 DEF Stale
  <2>3. XargsTypeOK' /\ Points' /\ Counts'
    BY <2>1, <1>1, <1>2, Typed DEF XargsTypeOK, Points, Counts
  <2>4. Accounted'
    BY <2>1, <2>2, <1>1, <1>2, Typed DEF Accounted
  <2> QED BY <2>1, <2>3, <2>4, <1>1, <1>3, <1>5 DEF XargsInv
<1>6. CASE cmdArgv # << >>
  <2>1. Len(held) >= 1 /\ (Len(held) <= batch.max \/ Len(held) = 1)
    <3>1. Len(held) = Len(cmdArgv)
      BY Typed, StringsTyped DEF XargsTypeOK, Points
    <3>2. Len(cmdArgv) \in Nat /\ Len(cmdArgv) # 0 /\ Len(cmdArgv) < batch.max /\ batch.max \in Int
      BY <1>6, Typed DEF Counts, XargsTypeOK
    <3> QED BY <3>1, <3>2
  <2>2. RunBatch(cmdArgv, origin, lineBuf)
    BY <1>1, <1>6
  <2>3. /\ cmdArgv' = << >> /\ origin' = << >> /\ ran' \in Seq(Seq(S))
        /\ spanned' \in BOOLEAN /\ spoilt' \in BOOLEAN
        /\ \A k \in 1..Len(ran') : Len(ran'[k]) >= 1 /\ (Len(ran'[k]) <= batch.max \/ Len(ran'[k]) = 1)
        /\ ~spoilt' => ~spoilt /\ FlattenSeq(ran') = fed \o held
        /\ ~spanned' => ~spanned /\ \A i \in 1..Len(origin) : origin[i] = lineNo
    BY <2>1, <2>2, <1>4, Typed, RunIs
  <2>4. << >> \in Seq(Cells) /\ << >> \in Seq(Nat) /\ Len(<< >>) = 0
    OBVIOUS
  <2>5. XargsTypeOK'
    BY <2>3, <2>4, <1>1, Typed DEF XargsTypeOK
  <2>6. Points' /\ Counts' /\ ~Stale'
    BY <2>3, <2>4, <1>1 DEF Points, Counts, Stale
  <2>7. Accounted'
    <3> SUFFICES ASSUME ~spoilt', ~spanned'
                 PROVE  FlattenSeq(ran') \o Strings(lineBuf', cmdArgv') = SoFar'
      BY <2>6 DEF Accounted
    <3>1. Strings(lineBuf', cmdArgv') = << >>
      BY <2>3, StringsNone
    <3>2. FlattenSeq(ran') = fed \o held /\ ~Stale /\ ~spoilt /\ ~spanned
      BY <2>3 DEF Stale
    <3>3. fed \o held = SoFar'
      BY <3>2, <1>2, Typed DEF Accounted
    <3> HIDE DEF fed, held, S
    <3>4. fed \o held \in Seq(S)
      BY <1>4, ConcatProperties
    <3> QED BY <3>1, <3>2, <3>3, <3>4, ConcatEmptySeq
  <2> QED BY <2>3, <2>5, <2>6, <2>7, <1>1, <1>3 DEF XargsInv
<1> QED BY <1>5, <1>6

(* The inductive invariant of xargs: everything below follows from it.     *)
THEOREM XargsInvariance == XargsSpec => []XargsInv
<1>1. ASSUME XargsInv, [XargsNext]_xargsVars PROVE XargsInv'
  <2>1. CASE NextLine
    BY <1>1, <2>1, NextLineStep
  <2>2. CASE NextWord
    BY <1>1, <2>2, NextWordStep
  <2>3. CASE LineDone
    BY <1>1, <2>3, LineDoneStep
  <2>4. CASE InputEnds
    BY <1>1, <2>4, InputEndsStep
  <2>5. CASE UNCHANGED xargsVars
    <3>1. UNCHANGED <<batch, loop, lineNo, lineBuf, cursor, cmdArgv, origin, ran, spanned, spoilt>>
      BY <2>5 DEF xargsVars
    <3>2. /\ InHand' = InHand /\ Stale' = Stale /\ SoFar' = SoFar /\ AllWords' = AllWords
          /\ XargsTypeOK' = XargsTypeOK /\ Counts' = Counts /\ ReadsNothing' = ReadsNothing
      BY <3>1 DEF InHand, Stale, SoFar, AllWords, WordsTo, XargsTypeOK, Counts, ReadsNothing, LeftItsNewline
    <3>3. Points' /\ Accounted'
      BY <3>1, <3>2, <1>1, Typed DEF Points, Accounted
    <3> QED BY <3>1, <3>2, <3>3, <1>1 DEF XargsInv
  <2> QED BY <1>1, <2>1, <2>2, <2>3, <2>4, <2>5 DEF XargsNext
<1> QED BY <1>1, XargsStart, PTL DEF XargsSpec

(* The words of the input, in order, each an argument of exactly one       *)
(* command with at most -n of them, for every input, -n and size of the    *)
(* buffer and of the vector, and whichever forks fail: what the commands   *)
(* got is a beginning of the words, and at the end those of all lines up   *)
(* to the first that fills the buffer, as long as no command was given a   *)
(* word of an earlier line, none was dropped and no fork failed.           *)
THEOREM WordsAreGiven == XargsSpec => []WordsOfALine
BY XargsInvariance, InvWords, PTL

-------------------------------------------------------------------------------
(* Newlines between two places of s, counted.                              *)
Lines(s, a, b) == NewlinesIn(SubSeq(s, a + 1, b))

LEMMA CountNext ==
  ASSUME NEW S, NEW s \in Seq(S), NEW a \in Nat, NEW b \in Nat, a <= b, b <= Len(s)
  PROVE  /\ Lines(s, a, b) \in Nat
         /\ a = b => Lines(s, a, b) = 0
         /\ a < b => Lines(s, a, b) = Lines(s, a, b - 1) + (IF s[b] = Eol THEN 1 ELSE 0)
<1> DEFINE T == {i \in 1..(Len(s) - a) : s[a + i] = Eol}
<1>0. Len(s) \in Nat
  BY LenProperties
<1>1. IsFiniteSet(T) /\ \A i \in T : i \in Nat
  <2>1. Len(s) - a \in Int
    BY <1>0
  <2>2. IsFiniteSet(1..(Len(s) - a))
    BY <2>1, FS_Interval
  <2>3. T \in SUBSET (1..(Len(s) - a))
    OBVIOUS
  <2>4. IsFiniteSet(T)
    BY <2>2, <2>3, FS_Subset
  <2> QED BY <2>4
<1>2. ASSUME NEW c \in Nat, a <= c, c <= Len(s)
      PROVE  Lines(s, a, c) = Below(T, (c - a) + 1)
  <2> DEFINE u == SubSeq(s, a + 1, c)
  <2>1. Len(u) = c - a /\ \A i \in 1..(c - a) : u[i] = s[a + i]
    BY <1>0, <1>2, PartOf
  <2> HIDE DEF u
  <2>2. {i \in 1..Len(u) : u[i] = Eol} = {i \in T : i < (c - a) + 1}
    BY <2>1, <1>0, <1>2
  <2> HIDE DEF T
  <2> QED BY <2>2 DEF Lines, NewlinesIn, Below, u
<1> HIDE DEF T
<1>3. Lines(s, a, b) \in Nat
  <2>1. (b - a) + 1 \in Nat
    OBVIOUS
  <2>2. Below(T, (b - a) + 1) \in Nat
    BY <2>1, <1>1, BelowStep
  <2> QED BY <2>2, <1>2
<1>4. ASSUME a = b PROVE Lines(s, a, b) = 0
  <2>1. SubSeq(s, a + 1, b) = << >>
    BY <1>4, SubSeqEmpty
  <2>2. {i \in 1..Len(<< >>) : << >>[i] = Eol} = {}
    BY EmptySeq
  <2> QED BY <2>1, <2>2, FS_EmptySet DEF Lines, NewlinesIn
<1>5. ASSUME a < b PROVE Lines(s, a, b) = Lines(s, a, b - 1) + (IF s[b] = Eol THEN 1 ELSE 0)
  <2>1. b - a \in Nat /\ b - 1 \in Nat /\ a <= b - 1 /\ b - 1 <= Len(s) /\ ((b - 1) - a) + 1 = b - a
    BY <1>5, <1>0
  <2>2. Below(T, (b - a) + 1) = Below(T, b - a) + (IF b - a \in T THEN 1 ELSE 0)
    BY <2>1, <1>1, BelowStep
  <2>3. b - a \in T <=> s[b] = Eol
    <3>1. b - a \in 1..(Len(s) - a) /\ a + (b - a) = b
      BY <1>0, <1>5
    <3> QED BY <3>1 DEF T
  <2>4. Lines(s, a, b) = Below(T, (b - a) + 1) /\ Lines(s, a, b - 1) = Below(T, b - a)
    BY <2>1, <1>2
  <2> QED BY <2>2, <2>3, <2>4
<1> QED BY <1>3, <1>4, <1>5

LEMMA CountAdds ==
  ASSUME NEW S, NEW s \in Seq(S), NEW a \in Nat, NEW b \in Nat, NEW c \in Nat,
         a <= b, b <= c, c <= Len(s)
  PROVE  Lines(s, a, c) = Lines(s, a, b) + Lines(s, b, c)
<1> DEFINE N == c - b
           R == {k \in 0..N : Lines(s, a, b + k) = Lines(s, a, b) + Lines(s, b, b + k)}
<1>0. Len(s) \in Nat /\ N \in Nat /\ b + N = c /\ b + 0 = b
  BY LenProperties
<1>1. 0 \in R
  <2>1. Lines(s, b, b) = 0 /\ Lines(s, a, b) \in Nat
    BY <1>0, CountNext
  <2> QED BY <2>1, <1>0
<1>2. ASSUME NEW k \in 1..N, k - 1 \in R PROVE k \in R
  <2> DEFINE d == b + k
             e == IF s[d] = Eol THEN 1 ELSE 0
  <2>1. d \in Nat /\ a <= d /\ b <= d /\ d <= Len(s) /\ a < d /\ b < d /\ d - 1 = b + (k - 1)
        /\ b + (k - 1) \in Nat /\ a <= b + (k - 1) /\ b <= b + (k - 1) /\ b + (k - 1) <= Len(s)
    BY <1>0
  <2>2. Lines(s, a, b + (k - 1)) = Lines(s, a, b) + Lines(s, b, b + (k - 1))
    BY <1>2
  <2> HIDE DEF d
  <2>3. Lines(s, a, d) = Lines(s, a, d - 1) + e /\ Lines(s, b, d) = Lines(s, b, d - 1) + e
    BY <2>1, CountNext
  <2>4. Lines(s, a, b) \in Nat /\ Lines(s, b, d - 1) \in Nat /\ e \in Nat
    <3>1. d - 1 \in Nat /\ b <= d - 1 /\ d - 1 <= Len(s) /\ b <= Len(s)
      BY <2>1, <1>0
    <3> HIDE DEF e
    <3>2. Lines(s, a, b) \in Nat /\ Lines(s, b, d - 1) \in Nat
      BY <3>1, CountNext
    <3> QED BY <3>2 DEF e
  <2>5. Lines(s, a, d) = Lines(s, a, b) + Lines(s, b, d)
    BY <2>1, <2>2, <2>3, <2>4
  <2> QED BY <2>5, <1>2 DEF d
<1> HIDE DEF R, N
<1>3. N \in R
  BY <1>0, <1>1, <1>2, Reaches, SMTT(30)
<1> QED BY <1>3, <1>0 DEF R

(* Hence no fewer newlines in a longer part. *)
LEMMA CountGrows ==
  ASSUME NEW S, NEW s \in Seq(S), NEW a \in Nat, NEW b \in Nat, NEW c \in Nat,
         a <= b, b <= c, c <= Len(s)
  PROVE  /\ Lines(s, a, b) \in Nat /\ Lines(s, a, c) \in Nat /\ Lines(s, b, c) \in Nat
         /\ Lines(s, a, b) <= Lines(s, a, c) /\ Lines(s, b, c) <= Lines(s, a, c)
<1>0. Len(s) \in Nat
  BY LenProperties
<1>1. Lines(s, a, b) \in Nat /\ Lines(s, a, c) \in Nat /\ Lines(s, b, c) \in Nat
  BY <1>0, CountNext
<1>2. Lines(s, a, c) = Lines(s, a, b) + Lines(s, b, c)
  BY CountAdds
<1> QED BY <1>1, <1>2

-------------------------------------------------------------------------------
(* head: what it shows ends behind that many bytes of the first m.         *)
TopEnd(s, m, n) == Cardinality({i \in 1..m : NewlinesIn(SubSeq(s, 1, i - 1)) < n})

LEMMA TopEndIs ==
  ASSUME NEW S, NEW s \in Seq(S), NEW m \in Nat, m <= Len(s), NEW n \in Nat, NEW e \in 0..m,
         \A i \in 1..e : Lines(s, 0, i - 1) < n, \A i \in (e + 1)..m : n <= Lines(s, 0, i - 1)
  PROVE  TopEnd(s, m, n) = e
<1>1. ASSUME NEW i \in 1..m PROVE Lines(s, 0, i - 1) \in Nat /\ Lines(s, 0, i - 1) = NewlinesIn(SubSeq(s, 1, i - 1))
  <2>0. Len(s) \in Nat
    BY LenProperties
  <2>1. i - 1 \in Nat /\ 0 <= i - 1 /\ i - 1 <= Len(s) /\ 0 + 1 = 1 /\ 0 \in Nat
    BY <2>0
  <2>2. Lines(s, 0, i - 1) \in Nat
    BY <2>1, CountNext
  <2> QED BY <2>1, <2>2 DEF Lines
<1>2. {i \in 1..m : NewlinesIn(SubSeq(s, 1, i - 1)) < n} = 1..e
  <2>1. ASSUME NEW i \in 1..m PROVE NewlinesIn(SubSeq(s, 1, i - 1)) < n <=> i \in 1..e
    <3>1. CASE i \in 1..e
      BY <3>1, <1>1
    <3>2. CASE i \notin 1..e
      <4>1. i \in (e + 1)..m
        BY <3>2
      <4>2. n <= Lines(s, 0, i - 1)
        BY <4>1
      <4> QED BY <4>2, <3>2, <1>1
    <3> QED BY <3>1, <3>2
  <2>2. \A i \in 1..e : i \in 1..m
    OBVIOUS
  <2> QED BY <2>1, <2>2
<1>3. Cardinality(1..e) = e
  BY FS_Interval
<1> QED BY <1>2, <1>3 DEF TopEnd

(* A piece behind fewer than n newlines is shown up to that place; head    *)
(* has then counted as many newlines as there are, but no more than n.     *)
LEMMA HeadOfPiece ==
  ASSUME NEW S, NEW s \in Seq(S), NEW a \in Nat, NEW b \in Nat, a <= b, b <= Len(s),
         NEW n \in Nat, Lines(s, 0, a) < n
  PROVE  LET e == TopEnd(s, b, n) IN
           /\ TopEnd(s, a, n) = a /\ e \in a..b
           /\ FirstLines(SubSeq(s, a + 1, b), n - Lines(s, 0, a)) = SubSeq(s, a + 1, e)
           /\ Lines(s, 0, a) + Lines(s, a, e) = Lesser(n, Lines(s, 0, b))
<1> DEFINE u == SubSeq(s, a + 1, b)
           k == n - Lines(s, 0, a)
           enough == {i \in 0..Len(u) : NewlinesIn(SubSeq(u, 1, i)) = k}
<1>0. Len(s) \in Nat /\ 0 \in Nat /\ 0 <= a /\ 0 <= b
  BY LenProperties
<1>1. Lines(s, 0, a) \in Nat /\ Lines(s, 0, b) \in Nat
  BY <1>0, CountNext
<1>2. u \in Seq(S) /\ Len(u) = b - a
  BY PartOf
<1>3. ASSUME NEW i \in 0..(b - a)
      PROVE  /\ SubSeq(u, 1, i) = SubSeq(s, a + 1, a + i)
             /\ a + i \in Nat /\ a <= a + i /\ a + i <= b
             /\ Lines(s, 0, a + i) = Lines(s, 0, a) + Lines(s, a, a + i)
             /\ Lines(s, 0, a + i) \in Nat /\ Lines(s, a, a + i) \in Nat
             /\ i \in enough <=> Lines(s, 0, a + i) = n
  <2>1. i \in Nat /\ 0 <= i /\ i <= b - a /\ 0 + 1 = 1 /\ a + 0 + 1 = a + 1 /\ a + i \in Nat
        /\ a + i <= Len(s) /\ a <= a + i /\ a + i <= b
    BY <1>0
  <2>2. SubSeq(u, 0 + 1, i) = SubSeq(s, a + 0 + 1, a + i)
    BY <2>1, <1>0, PartOfPart
  <2>3. Lines(s, 0, a + i) = Lines(s, 0, a) + Lines(s, a, a + i)
    BY <2>1, <1>0, CountAdds
  <2>4. Lines(s, 0, a + i) \in Nat /\ Lines(s, a, a + i) \in Nat
    BY <2>1, <1>0, CountGrows
  <2>5. NewlinesIn(SubSeq(u, 1, i)) = Lines(s, a, a + i)
    BY <2>1, <2>2 DEF Lines
  <2> HIDE DEF u
  <2> QED BY <2>1, <2>2, <2>3, <2>4, <2>5, <1>1, <1>2
<1>4. ASSUME NEW i \in 1..a PROVE Lines(s, 0, i - 1) < n
  <2>1. i - 1 \in Nat /\ 0 <= i - 1 /\ i - 1 <= a
    OBVIOUS
  <2>2. Lines(s, 0, i - 1) \in Nat /\ Lines(s, 0, i - 1) <= Lines(s, 0, a)
    BY <2>1, <1>0, CountGrows
  <2> QED BY <2>2, <1>1
<1>5. TopEnd(s, a, n) = a
  <2>1. a \in 0..a /\ (a + 1)..a = {} /\ a <= Len(s)
    BY <1>0
  <2> QED BY <2>1, <1>4, TopEndIs
<1> HIDE DEF u, enough
<1>6. CASE enough = {}
  <2> DEFINE R == {i \in 0..(b - a) : Lines(s, 0, a + i) < n}
  <2>1. 0 \in R
    BY <1>0
  <2>2. ASSUME NEW i \in 1..(b - a), i - 1 \in R PROVE i \in R
    <3>1. i \in 0..(b - a) /\ a + i \in Nat /\ 0 < a + i /\ a + i <= Len(s) /\ (a + i) - 1 = a + (i - 1)
      BY <1>0
    <3>2. Lines(s, 0, a + i) = Lines(s, 0, (a + i) - 1) + (IF s[a + i] = Eol THEN 1 ELSE 0)
      BY <3>1, <1>0, CountNext
    <3>3. i - 1 \in 0..(b - a) /\ Lines(s, 0, a + (i - 1)) \in Nat /\ Lines(s, 0, a + (i - 1)) < n
      BY <2>2, <1>3
    <3>4. Lines(s, 0, a + i) # n
      BY <3>1, <1>3, <1>6
    <3>5. Lines(s, 0, a + i) < n
      BY <3>1, <3>2, <3>3, <3>4
    <3> QED BY <3>1, <3>5
  <2> HIDE DEF R
  <2>3. \A i \in 0..(b - a) : i \in R
    <3>1. b - a \in Nat
      OBVIOUS
    <3> QED BY <3>1, <2>1, <2>2, Reaches
  <2>4. ASSUME NEW i \in 1..b PROVE Lines(s, 0, i - 1) < n
    <3>1. CASE i \in 1..a
      BY <3>1, <1>4
    <3>2. CASE i \notin 1..a
      <4>1. (i - 1) - a \in 0..(b - a) /\ a + ((i - 1) - a) = i - 1
        BY <3>2
      <4>2. (i - 1) - a \in R
        BY <4>1, <2>3
      <4> QED BY <4>1, <4>2 DEF R
    <3> QED BY <3>1, <3>2
  <2>5. TopEnd(s, b, n) = b
    <3>1. b \in 0..b /\ (b + 1)..b = {}
      BY <1>0
    <3> QED BY <3>1, <2>4, TopEndIs
  <2>6. Lines(s, 0, b) < n
    <3>1. b - a \in 0..(b - a) /\ a + (b - a) = b
      OBVIOUS
    <3>2. b - a \in R
      BY <3>1, <2>3
    <3> QED BY <3>1, <3>2 DEF R
  <2>7. FirstLines(u, k) = u
    BY <1>6 DEF FirstLines, enough
  <2>8. Lines(s, 0, a) + Lines(s, a, b) = Lines(s, 0, b)
    BY <1>0, CountAdds
  <2>9. Lesser(n, Lines(s, 0, b)) = Lines(s, 0, b)
    BY <2>6, <1>1 DEF Lesser
  <2> QED BY <2>5, <2>7, <2>8, <2>9, <1>5 DEF u, k
<1>7. CASE enough # {}
  <2> DEFINE i0 == EarliestOf(enough)
             e == a + i0
  <2>1. enough \in SUBSET Nat /\ enough \subseteq 0..(b - a)
    BY <1>2 DEF enough
  <2>2. i0 \in enough /\ \A j \in enough : i0 <= j
    <3>1. \E i \in enough : \A j \in enough : i <= j
      BY <2>1, <1>7, Minimum
    <3> QED BY <3>1, Zenon DEF EarliestOf
  <2> HIDE DEF i0
  <2>3. i0 \in 0..(b - a) /\ e \in a..b /\ e \in Nat /\ Lines(s, 0, e) = n /\ SubSeq(u, 1, i0) = SubSeq(s, a + 1, e)
        /\ Lines(s, 0, e) = Lines(s, 0, a) + Lines(s, a, e)
    BY <2>1, <2>2, <1>3
  <2>4. ASSUME NEW i \in 1..e PROVE Lines(s, 0, i - 1) < n
    <3>1. CASE i \in 1..a
      BY <3>1, <1>4
    <3>2. CASE i \notin 1..a
      <4> DEFINE j == (i - 1) - a
      <4>1. j \in 0..(b - a) /\ a + j = i - 1 /\ j < i0 /\ i - 1 \in Nat /\ i - 1 <= e /\ e <= Len(s) /\ 0 <= i - 1
        BY <3>2, <2>3, <1>0
      <4> HIDE DEF j, e
      <4>2. j \notin enough
        BY <4>1, <2>1, <2>2
      <4>3. Lines(s, 0, i - 1) # n
        BY <4>1, <4>2, <1>3
      <4>4. Lines(s, 0, i - 1) \in Nat /\ Lines(s, 0, i - 1) <= Lines(s, 0, e)
        BY <4>1, <2>3, <1>0, CountGrows
      <4> QED BY <4>3, <4>4, <2>3
    <3> QED BY <3>1, <3>2
  <2>5. ASSUME NEW i \in (e + 1)..b PROVE n <= Lines(s, 0, i - 1)
    <3>1. i - 1 \in Nat /\ e <= i - 1 /\ i - 1 <= Len(s) /\ 0 <= e
      BY <2>3, <1>0
    <3> HIDE DEF e
    <3>2. Lines(s, 0, e) <= Lines(s, 0, i - 1)
      BY <3>1, <2>3, <1>0, CountGrows
    <3> QED BY <3>2, <2>3
  <2>6. TopEnd(s, b, n) = e
    <3>1. e \in 0..b
      BY <2>3
    <3> HIDE DEF e
    <3> QED BY <3>1, <2>4, <2>5, TopEndIs
  <2>7. FirstLines(u, k) = SubSeq(u, 1, i0)
    BY <1>7 DEF FirstLines, enough, i0
  <2>8. Lesser(n, Lines(s, 0, b)) = n
    <3>1. e <= b /\ 0 <= e
      BY <2>3
    <3> HIDE DEF e
    <3>2. Lines(s, 0, e) <= Lines(s, 0, b)
      BY <3>1, <2>3, <1>0, CountGrows
    <3> QED BY <3>2, <2>3, <1>1 DEF Lesser
  <2> HIDE DEF e
  <2> QED BY <2>3, <2>6, <2>7, <2>8, <1>5 DEF u, k
<1> QED BY <1>6, <1>7

(* Behind n newlines nothing more is shown. *)
LEMMA TopEnds ==
  ASSUME NEW S, NEW s \in Seq(S), NEW a \in Nat, a <= Len(s), NEW n \in Nat, n <= Lines(s, 0, a)
  PROVE  TopEnd(s, Len(s), n) = TopEnd(s, a, n)
<1>0. Len(s) \in Nat /\ 0 \in Nat
  BY LenProperties
<1>1. ASSUME NEW i \in 1..Len(s), i \notin 1..a PROVE ~(NewlinesIn(SubSeq(s, 1, i - 1)) < n)
  <2>1. i - 1 \in Nat /\ 0 <= a /\ a <= i - 1 /\ i - 1 <= Len(s) /\ 0 + 1 = 1
    BY <1>0, <1>1
  <2>2. Lines(s, 0, a) \in Nat /\ Lines(s, 0, i - 1) \in Nat /\ Lines(s, 0, a) <= Lines(s, 0, i - 1)
    BY <2>1, <1>0, CountGrows
  <2>3. NewlinesIn(SubSeq(s, 1, i - 1)) = Lines(s, 0, i - 1)
    BY <2>1 DEF Lines
  <2> QED BY <2>2, <2>3
<1>2. \A i \in 1..a : i \in 1..Len(s)
  BY <1>0
<1>3. {i \in 1..Len(s) : NewlinesIn(SubSeq(s, 1, i - 1)) < n} = {i \in 1..a : NewlinesIn(SubSeq(s, 1, i - 1)) < n}
  BY <1>1, <1>2
<1> QED BY <1>3 DEF TopEnd

-------------------------------------------------------------------------------
(* tail: what LastLines finds is what a user expects. *)
LEMMA TailIsBottom ==
  ASSUME NEW S, NEW s \in Seq(S), NEW k \in Nat
  PROVE  LastLines(s, k) = BottomLines(s, k)
<1> DEFINE L == Len(s)
           D(i) == Lines(s, i - 1, L)
           cuts == {i \in 1..L : s[i] = Eol /\ NewlinesIn(SubSeq(s, i, L)) = k + 1}
           more == {i \in 1..L : NewlinesIn(SubSeq(s, i, L)) > k}
<1>0. L \in Nat
  BY LenProperties
<1>1. ASSUME NEW i \in 1..L PROVE D(i) = NewlinesIn(SubSeq(s, i, L)) /\ D(i) \in Nat
  <2>1. (i - 1) + 1 = i /\ i - 1 \in Nat /\ i - 1 <= L /\ L <= Len(s)
    BY <1>0
  <2> HIDE DEF L
  <2>2. Lines(s, i - 1, L) \in Nat
    BY <1>0, <2>1, CountNext
  <2> QED BY <2>1, <2>2 DEF Lines
<1>2. ASSUME NEW i \in 1..L, NEW j \in 1..L, i <= j PROVE D(j) <= D(i)
  <2>1. i - 1 \in Nat /\ j - 1 \in Nat /\ i - 1 <= j - 1 /\ j - 1 <= L /\ L <= Len(s)
    BY <1>0, <1>2
  <2> HIDE DEF L
  <2> QED BY <2>1, <1>0, CountGrows
<1>3. ASSUME NEW i \in 1..L
      PROVE  D(i) = (IF i = L THEN 0 ELSE D(i + 1)) + (IF s[i] = Eol THEN 1 ELSE 0)
  <2> DEFINE h == i - 1
  <2>1. h \in Nat /\ h < i /\ h <= i /\ i \in Nat /\ i <= L /\ L <= Len(s) /\ i - 1 = h /\ (i + 1) - 1 = i
    BY <1>0
  <2> HIDE DEF L, h
  <2>2. Lines(s, h, L) = Lines(s, h, i) + Lines(s, i, L)
    BY <2>1, <1>0, CountAdds
  <2>3. Lines(s, h, i) = Lines(s, h, h) + (IF s[i] = Eol THEN 1 ELSE 0)
    <3>1. i <= Len(s)
      BY <2>1, <1>0 DEF L
    <3> QED BY <3>1, <2>1, CountNext
  <2>4. Lines(s, h, h) = 0 /\ Lines(s, i, L) \in Nat /\ (i = L => Lines(s, i, L) = 0)
    <3>1. h <= Len(s)
      BY <2>1, <1>0 DEF L
    <3> QED BY <3>1, <2>1, <1>0, CountNext
  <2> QED BY <2>1, <2>2, <2>3, <2>4
<1> HIDE DEF D, cuts, more
<1>4. \A i \in 1..L : (i \in cuts <=> s[i] = Eol /\ D(i) = k + 1) /\ (i \in more <=> D(i) > k)
  BY <1>1 DEF cuts, more
<1>5. CASE cuts = {}
  <2> DEFINE R == {j \in 0..L : j < L => D(L - j) <= k}
  <2>1. \A j \in 1..L : j - 1 \in R => j \in R
    <3> SUFFICES ASSUME NEW j \in 1..L, j - 1 \in R, j < L PROVE j \in R
      OBVIOUS
    <3>1. L - j \in 1..L /\ L - j # L /\ (L - j) + 1 = L - (j - 1) /\ L - (j - 1) \in 1..L /\ j - 1 < L
      BY <1>0
    <3>2. D(L - (j - 1)) <= k /\ D(L - (j - 1)) \in Nat /\ D(L - j) \in Nat
      BY <3>1, <1>1
    <3>3. D(L - j) = D(L - (j - 1)) + (IF s[L - j] = Eol THEN 1 ELSE 0)
      BY <3>1, <1>3
    <3>4. ~(s[L - j] = Eol /\ D(L - j) = k + 1)
      BY <3>1, <1>4, <1>5
    <3>5. D(L - j) <= k
      BY <3>2, <3>3, <3>4
    <3> QED BY <3>5
  <2>2. 0 \in R
    <3> SUFFICES ASSUME 0 < L PROVE D(L) <= k
      BY <1>0
    <3>1. L \in 1..L
      BY <1>0
    <3>2. D(L) = 0 + (IF s[L] = Eol THEN 1 ELSE 0)
      BY <3>1, <1>3
    <3>3. ~(s[L] = Eol /\ D(L) = k + 1)
      BY <3>1, <1>4, <1>5
    <3> QED BY <3>2, <3>3
  <2> HIDE DEF R, L
  <2>3. \A j \in 0..L : j \in R
    BY <1>0, <2>1, <2>2, Reaches
  <2>4. more = {}
    <3>1. ASSUME NEW i \in 1..L PROVE i \notin more
      <4>1. L - i \in 0..L /\ L - i < L /\ L - (L - i) = i
        BY <1>0
      <4>2. L - i \in R
        BY <4>1, <2>3
      <4>3. D(i) <= k
        BY <4>1, <4>2 DEF R
      <4> QED BY <4>3, <1>1, <1>4
    <3> QED BY <3>1 DEF more
  <2>5. Cardinality(more) = 0
    BY <2>4, FS_EmptySet
  <2>6. SubSeq(s, 1, L) = s
    BY SubSeqFull DEF L
  <2>7. LastLines(s, k) = s
    BY <1>5 DEF LastLines, cuts, L
  <2>8. BottomLines(s, k) = SubSeq(s, 1 + Cardinality(more), L)
    BY DEF BottomLines, more, L
  <2> QED BY <2>5, <2>6, <2>7, <2>8
<1>6. CASE cuts # {}
  <2> DEFINE c == CHOOSE i \in cuts : TRUE
  <2>1. c \in cuts
    BY <1>6
  <2> HIDE DEF c
  <2>2. c \in 1..L /\ s[c] = Eol /\ D(c) = k + 1
    BY <2>1, <1>4 DEF cuts
  <2>3. ASSUME NEW i \in 1..L PROVE i \in more <=> i \in 1..c
    <3>1. CASE i <= c
      <4>1. D(c) <= D(i)
        BY <3>1, <2>2, <1>2
      <4> QED BY <4>1, <3>1, <2>2, <1>1, <1>4
    <3>2. CASE i > c
      <4>1. c + 1 \in 1..L /\ c # L /\ c + 1 <= i
        BY <3>2, <2>2, <1>0
      <4>2. D(c) = D(c + 1) + 1 /\ D(c + 1) \in Nat
        BY <4>1, <2>2, <1>1, <1>3
      <4>3. D(i) <= D(c + 1)
        BY <4>1, <1>2
      <4> QED BY <4>2, <4>3, <3>2, <2>2, <1>1, <1>4
    <3> QED BY <3>1, <3>2, <2>2
  <2>4. more = 1..c
    <3>1. \A i \in 1..c : i \in 1..L
      BY <2>2, <1>0
    <3>2. \A i \in more : i \in 1..L
      BY DEF more
    <3> QED BY <2>3, <3>1, <3>2
  <2>5. Cardinality(more) = c
    BY <2>2, <2>4, FS_Interval
  <2>6. LastLines(s, k) = SubSeq(s, c + 1, L)
    BY <1>6 DEF LastLines, cuts, L, c
  <2>7. BottomLines(s, k) = SubSeq(s, 1 + c, L)
    BY <2>5 DEF BottomLines, more, L
  <2> QED BY <2>2, <2>6, <2>7
<1> QED BY <1>5, <1>6

(* What is behind all lines but the last k begins somewhere. *)
LEMMA BottomIs ==
  ASSUME NEW S, NEW s \in Seq(S), NEW k \in Nat
  PROVE  \E c \in 0..Len(s) :
           /\ {i \in 1..Len(s) : NewlinesIn(SubSeq(s, i, Len(s))) > k} = 1..c
           /\ BottomLines(s, k) = SubSeq(s, c + 1, Len(s))
<1> DEFINE L == Len(s)
           D(i) == Lines(s, i - 1, L)
           more == {i \in 1..L : NewlinesIn(SubSeq(s, i, L)) > k}
<1>0. L \in Nat
  BY LenProperties
<1>1. ASSUME NEW i \in 1..L PROVE D(i) = NewlinesIn(SubSeq(s, i, L)) /\ D(i) \in Nat
  <2>1. (i - 1) + 1 = i /\ i - 1 \in Nat /\ i - 1 <= L /\ L <= Len(s)
    BY <1>0
  <2> HIDE DEF L
  <2>2. Lines(s, i - 1, L) \in Nat
    BY <1>0, <2>1, CountNext
  <2> QED BY <2>1, <2>2 DEF Lines
<1>2. ASSUME NEW i \in 1..L, NEW j \in 1..L, i <= j PROVE D(j) <= D(i)
  <2>1. i - 1 \in Nat /\ j - 1 \in Nat /\ i - 1 <= j - 1 /\ j - 1 <= L /\ L <= Len(s)
    BY <1>0, <1>2
  <2> HIDE DEF L
  <2> QED BY <2>1, <1>0, CountGrows
<1>3. more \subseteq 1..L /\ \A i \in 1..L : i \in more <=> D(i) > k
  BY <1>1
<1> HIDE DEF D, more
<1>4. CASE more = {}
  <2>1. more = 1..0 /\ 0 \in 0..L
    BY <1>0, <1>4
  <2>2. Cardinality(more) = 0
    BY <1>4, FS_EmptySet
  <2>3. BottomLines(s, k) = SubSeq(s, 1 + Cardinality(more), L)
    BY DEF BottomLines, more
  <2>4. BottomLines(s, k) = SubSeq(s, 0 + 1, L)
    BY <2>2, <2>3
  <2> QED BY <2>1, <2>4 DEF more
<1>5. CASE more # {}
  <2> DEFINE T == {n \in Nat : L - n \in more}
  <2>1. T \in SUBSET Nat /\ T # {}
    <3>1. PICK i \in 1..L : i \in more
      BY <1>3, <1>5
    <3>2. L - i \in Nat /\ L - (L - i) = i
      BY <1>0
    <3> QED BY <3>1, <3>2
  <2>2. PICK n \in T : \A m \in T : n <= m
    BY <2>1, Minimum
  <2>3. PICK c \in 1..L : c = L - n /\ c \in more
    BY <1>3, <2>2
  <2>4. ASSUME NEW i \in more PROVE i <= c
    <3>1. i \in 1..L /\ L - i \in Nat /\ L - (L - i) = i
      BY <1>0, <1>3
    <3>2. n <= L - i /\ n \in Nat
      BY <2>2, <3>1
    <3> QED BY <1>0, <2>3, <3>1, <3>2
  <2>5. ASSUME NEW i \in 1..c PROVE i \in more
    <3>1. i \in 1..L /\ i <= c
      BY <1>0
    <3>2. D(c) <= D(i) /\ D(c) > k /\ D(i) \in Nat /\ D(c) \in Nat
      BY <1>1, <1>2, <1>3, <2>3, <3>1
    <3> QED BY <1>3, <3>1, <3>2
  <2>6. more = 1..c
    <3>1. \A i \in more : i \in 1..L /\ i <= c
      BY <1>3, <2>4
    <3>2. \A i \in more : i \in 1..c
      BY <1>0, <3>1
    <3> QED BY <2>5, <3>2
  <2>7. 1 + c = c + 1 /\ c \in 0..L /\ c \in Nat
    BY <1>0
  <2>8. Cardinality(more) = c
    BY <2>6, <2>7, FS_Interval
  <2>9. BottomLines(s, k) = SubSeq(s, 1 + Cardinality(more), L)
    BY DEF BottomLines, more
  <2> QED BY <2>6, <2>7, <2>8, <2>9 DEF more
<1> QED BY <1>4, <1>5

(* Lines that fit into the end of a file are found there. *)
LEMMA BottomOfEnd ==
  ASSUME NEW S, NEW s \in Seq(S), NEW k \in Nat, NEW g \in 0..Len(s),
         Len(BottomLines(s, k)) <= Len(s) - g
  PROVE  BottomLines(SubSeq(s, g + 1, Len(s)), k) = BottomLines(s, k)
<1> DEFINE L == Len(s)
           h == SubSeq(s, g + 1, L)
           more == {i \in 1..L : NewlinesIn(SubSeq(s, i, L)) > k}
           moreh == {j \in 1..Len(h) : NewlinesIn(SubSeq(h, j, Len(h))) > k}
<1>0. L \in Nat /\ g \in Nat /\ g <= L /\ L <= Len(s)
  BY LenProperties
<1>1. PICK c \in 0..L : more = 1..c /\ BottomLines(s, k) = SubSeq(s, c + 1, L)
  BY BottomIs
<1>2. c \in Nat /\ c <= L /\ Len(SubSeq(s, c + 1, L)) = L - c
  <2>1. c \in Nat /\ c <= L
    BY <1>0
  <2> HIDE DEF L
  <2> QED BY <2>1, <1>0, PartOf
<1>3. g <= c /\ c - g \in Nat /\ c - g <= L - g /\ L - g \in Nat
  <2>1. L - c <= L - g
    BY <1>1, <1>2
  <2> QED BY <1>0, <1>2, <2>1
<1>4. h \in Seq(S) /\ Len(h) = L - g
  <2> HIDE DEF L
  <2> QED BY <1>0, PartOf
<1> HIDE DEF more
<1>5. ASSUME NEW j \in 1..(L - g) PROVE SubSeq(h, j, L - g) = SubSeq(s, g + j, L)
  <2>1. j - 1 \in Nat /\ L - g \in Nat /\ j - 1 <= L - g /\ (j - 1) + 1 = j
        /\ (g + (j - 1)) + 1 = g + j /\ g + (L - g) = L
    BY <1>0, <1>3
  <2> HIDE DEF L
  <2> QED BY <1>0, <2>1, PartOfPart
<1>6. \A j \in 1..(L - g) : NewlinesIn(SubSeq(h, j, L - g)) > k <=> g + j \in more
  <2> SUFFICES ASSUME NEW j \in 1..(L - g)
               PROVE  NewlinesIn(SubSeq(s, g + j, L)) > k <=> g + j \in more
    BY <1>5
  <2>1. g + j \in 1..L
    BY <1>0
  <2> QED BY <2>1 DEF more
<1> HIDE DEF h
<1>7. moreh = 1..(c - g)
  <2>1. moreh = {j \in 1..(L - g) : g + j \in 1..c}
    BY <1>1, <1>4, <1>6
  <2> HIDE DEF moreh, L, h
  <2>2. ASSUME NEW j \in 1..(L - g) PROVE g + j \in 1..c <=> j \in 1..(c - g)
    BY <1>0, <1>2, <1>3
  <2>3. \A j \in 1..(c - g) : j \in 1..(L - g)
    BY <1>0, <1>2, <1>3
  <2> QED BY <2>1, <2>2, <2>3
<1>8. Cardinality(moreh) = c - g
  <2> DEFINE d == c - g
  <2>1. d \in Nat /\ moreh = 1..d
    BY <1>3, <1>7
  <2> HIDE DEF d, moreh
  <2>2. Cardinality(1..d) = d
    BY <2>1, FS_Interval
  <2> QED BY <2>1, <2>2 DEF d
<1>9. BottomLines(h, k) = SubSeq(h, 1 + (c - g), L - g)
  BY <1>4, <1>8 DEF BottomLines
<1>10. SubSeq(h, (c - g) + 1, L - g) = SubSeq(s, c + 1, L)
  <2>1. (g + (c - g)) + 1 = c + 1 /\ g + (L - g) = L
    BY <1>0, <1>2
  <2> HIDE DEF L
  <2> QED BY <1>0, <1>3, <2>1, PartOfPart DEF h
<1>11. 1 + (c - g) = (c - g) + 1
  BY <1>3
<1> QED BY <1>1, <1>9, <1>10, <1>11 DEF h

-------------------------------------------------------------------------------
(* cat -n.  What outputs hold: bytes, headings of files, numbers of lines. *)
Mark == Octet \cup {Heading} \cup [1..1 -> Nat]

LEMMA LinesNext ==
  ASSUME NEW s, NEW n \in Nat
  PROVE  LinesIn(s, n) \in Nat /\ LinesIn(s, 0) = 0
         /\ LinesIn(s, n + 1) = LinesIn(s, n) + (IF BeginsALine(s, n + 1) THEN 1 ELSE 0)
<1> DEFINE T(k) == {i \in 1..k : BeginsALine(s, i)}
<1>1. IsFiniteSet(T(n))
  <2>1. IsFiniteSet(1..n) /\ T(n) \in SUBSET (1..n)
    BY FS_Interval
  <2> HIDE DEF T
  <2> QED BY <2>1, FS_Subset
<1>2. T(0) = {}
  OBVIOUS
<1>3. T(n + 1) = IF BeginsALine(s, n + 1) THEN T(n) \cup {n + 1} ELSE T(n)
  OBVIOUS
<1>4. n + 1 \notin T(n)
  OBVIOUS
<1>5. LinesIn(s, n) = Cardinality(T(n)) /\ LinesIn(s, n + 1) = Cardinality(T(n + 1)) /\ LinesIn(s, 0) = Cardinality(T(0))
  BY DEF LinesIn
<1> HIDE DEF T
<1>6. Cardinality(T(n)) \in Nat
  BY <1>1, FS_CardinalityType
<1>7. Cardinality(T(n) \cup {n + 1}) = Cardinality(T(n)) + 1
  BY <1>1, <1>4, FS_AddElement
<1> QED BY <1>2, <1>3, <1>5, <1>6, <1>7, FS_EmptySet

(* The bytes of s, numbered. *)
Marks(s, q) == [j \in 1..Len(s) |-> WithNumber(s, j, q)]

LEMMA MarksAre ==
  ASSUME NEW s \in Seq(Octet), NEW q \in Nat
  PROVE  Len(s) \in Nat /\ Marks(s, q) \in [1..Len(s) -> Seq(Mark)]
<1>0. Len(s) \in Nat
  BY LenProperties
<1>1. ASSUME NEW j \in 1..Len(s) PROVE WithNumber(s, j, q) \in Seq(Mark)
  <2>1. s[j] \in Mark
    BY ElementOfSeq DEF Mark
  <2>2. LinesIn(s, j) \in Nat
    BY LinesNext
  <2>3. <<q + LinesIn(s, j)>> \in Mark
    BY <2>2 DEF Mark
  <2> DEFINE m == <<q + LinesIn(s, j)>>
  <2> HIDE DEF m
  <2>4. <<m, s[j]>> \in Seq(Mark) /\ <<s[j]>> \in Seq(Mark)
    BY <2>1, <2>3 DEF m
  <2> QED BY <2>4 DEF WithNumber, m
<1> QED BY <1>0, <1>1 DEF Marks

(* A file shown up to a, and the piece behind it. *)
(* What cat -n makes of a piece, when q lines came before the file. *)
NumberedAs(s, q, a, b, r) ==
  /\ r.made \in Seq(Mark) /\ r.num = q + LinesIn(s, b) + 1
  /\ r.begins = BeginsALine(s, b + 1)
  /\ FlattenTo(Marks(s, q), b) = FlattenTo(Marks(s, q), a) \o r.made

LEMMA NumberedPiece ==
  ASSUME NEW s \in Seq(Octet), NEW a \in Nat, NEW b \in Nat, a <= b, b <= Len(s), NEW q \in Nat
  PROVE  NumberedAs(s, q, a, b, Numbered(SubSeq(s, a + 1, b), q + LinesIn(s, a) + 1, BeginsALine(s, a + 1)))
<1> DEFINE piece == SubSeq(s, a + 1, b)
           num == q + LinesIn(s, a) + 1
           begins == BeginsALine(s, a + 1)
           first == [made |-> << >>, num |-> num, begins |-> begins]
           Acc == [made : Seq(Mark), num : Nat, begins : BOOLEAN]
           N == b - a
           joins == [z \in (1..N) \X Acc |-> NumberByte(z[2], piece[z[1]])]
<1>0. Len(s) \in Nat /\ N \in Nat
  BY LenProperties
<1>1. piece \in Seq(Octet) /\ Len(piece) = N /\ \A i \in 1..N : piece[i] = s[a + i]
  BY <1>0, PartOf
<1> HIDE DEF piece
<1>2. first \in Acc
  <2>1. LinesIn(s, a) \in Nat /\ BeginsALine(s, a + 1) \in BOOLEAN
    BY LinesNext DEF BeginsALine
  <2>2. << >> \in Seq(Mark)
    BY EmptySeq
  <2> QED BY <2>1, <2>2
<1>3. ASSUME NEW i \in 1..N, NEW acc \in Acc PROVE NumberByte(acc, piece[i]) \in Acc
  <2>1. piece[i] \in Mark
    BY <1>1, ElementOfSeq DEF Mark
  <2>2. <<acc.num>> \in Mark
    BY DEF Mark
  <2> DEFINE m == <<acc.num>>
             byte == piece[i]
             t == IF acc.begins THEN <<m, byte>> ELSE <<byte>>
  <2> HIDE DEF m, byte
  <2>3. t \in Seq(Mark)
    BY <2>1, <2>2 DEF m, byte
  <2> HIDE DEF t
  <2>4. acc.made \o t \in Seq(Mark)
    BY <2>3, ConcatProperties
  <2>5. NumberByte(acc, byte) = [made |-> acc.made \o t, num |-> IF acc.begins THEN acc.num + 1 ELSE acc.num,
                                 begins |-> byte = Eol]
    BY DEF NumberByte, t, m
  <2>6. NumberByte(acc, byte) \in Acc
    BY <2>4, <2>5
  <2> QED BY <2>6 DEF byte
<1> HIDE DEF Acc, first
<1>4. joins \in [(1..N) \X Acc -> Acc]
  BY <1>3
<1>5. \A i \in 1..N, acc \in Acc : joins[<<i, acc>>] = NumberByte(acc, piece[i])
  OBVIOUS
<1> HIDE DEF joins
<1>6. PICK g \in [0..N -> Acc] : Follows(g, N, first, joins)
  BY <1>0, <1>2, <1>4, RecursionExists, Zenon
<1>7. ASSUME NEW i \in 0..N PROVE g[i] = IF i = 0 THEN first ELSE NumberByte(g[i - 1], piece[i])
  <2>1. CASE i = 0
    BY <2>1, <1>6 DEF Follows
  <2>2. CASE i # 0
    <3>1. i \in 1..N /\ i - 1 \in 0..N
      BY <2>2
    <3> QED BY <3>1, <2>2, <1>5, <1>6 DEF Follows
  <2> QED BY <2>1, <2>2
<1> DEFINE upToByte == CHOOSE h : h = [i \in 0..Len(piece) |-> IF i = 0 THEN first ELSE NumberByte(h[i - 1], piece[i])]
<1>8. upToByte = [i \in 0..N |-> IF i = 0 THEN first ELSE NumberByte(upToByte[i - 1], piece[i])]
  <2>1. g = [i \in 0..Len(piece) |-> IF i = 0 THEN first ELSE NumberByte(g[i - 1], piece[i])]
    BY <1>1, <1>7
  <2>2. \E h : h = [i \in 0..Len(piece) |-> IF i = 0 THEN first ELSE NumberByte(h[i - 1], piece[i])]
    BY <2>1
  <2>3. upToByte = [i \in 0..Len(piece) |-> IF i = 0 THEN first ELSE NumberByte(upToByte[i - 1], piece[i])]
    BY <2>2, Zenon
  <2> QED BY <2>3, <1>1
<1>9. Numbered(piece, num, begins) = upToByte[N]
  BY <1>1 DEF Numbered, first
<1> HIDE DEF upToByte
<1>10. ASSUME NEW i \in 0..N PROVE upToByte[i] = IF i = 0 THEN first ELSE NumberByte(upToByte[i - 1], piece[i])
  BY <1>8, Zenon
<1> DEFINE M == Marks(s, q)
           Right(i) == /\ upToByte[i] \in Acc /\ upToByte[i].num = q + LinesIn(s, a + i) + 1
                       /\ upToByte[i].begins = BeginsALine(s, a + i + 1)
                       /\ FlattenTo(M, a + i) = FlattenTo(M, a) \o upToByte[i].made
           R == {i \in 0..N : Right(i)}
<1>11. M \in [1..Len(s) -> Seq(Mark)]
  BY MarksAre
<1>12. ASSUME NEW m \in Nat, m <= Len(s)
       PROVE  FlattenTo(M, m) \in Seq(Mark) /\ (m # 0 => FlattenTo(M, m) = FlattenTo(M, m - 1) \o WithNumber(s, m, q))
  <2>1. m # 0 => M[m] = WithNumber(s, m, q)
    BY <1>0, <1>12 DEF Marks
  <2> HIDE DEF M
  <2>2. FlattenTo(M, m) \in Seq(Mark) /\ (m # 0 => FlattenTo(M, m) = FlattenTo(M, m - 1) \o M[m])
    BY <1>0, <1>11, <1>12, FlattenUpTo
  <2> QED BY <2>1, <2>2
<1> HIDE DEF M
<1>13. 0 \in R
  <2>1. 0 \in 0..N /\ a + 0 = a /\ a <= Len(s)
    BY <1>0
  <2>2. upToByte[0] = first
    BY <2>1, <1>10
  <2>3. FlattenTo(M, a) \in Seq(Mark)
    BY <2>1, <1>12
  <2>4. FlattenTo(M, a) \o << >> = FlattenTo(M, a)
    BY <2>3, ConcatEmptySeq
  <2>5. upToByte[0].made = << >> /\ upToByte[0].num = num /\ upToByte[0].begins = begins /\ upToByte[0] \in Acc
    BY <2>2, <1>2 DEF first
  <2>6. Right(0)
    BY <2>1, <2>4, <2>5
  <2> HIDE DEF Right
  <2> QED BY <2>1, <2>6
<1>14. ASSUME NEW i \in 1..N, i - 1 \in R PROVE i \in R
  <2> DEFINE acc == upToByte[i - 1]
             d == a + i
             t == IF acc.begins THEN <<<<acc.num>>, piece[i]>> ELSE <<piece[i]>>
  <2>1. /\ i \in 0..N /\ i # 0 /\ d \in Nat /\ d # 0 /\ d <= Len(s) /\ d - 1 = a + (i - 1) /\ d - 1 \in Nat
        /\ (a + (i - 1)) + 1 = d /\ d = (d - 1) + 1
    BY <1>0
  <2>2. /\ acc \in Acc /\ acc.num = q + LinesIn(s, d - 1) + 1 /\ acc.begins = BeginsALine(s, d)
        /\ FlattenTo(M, d - 1) = FlattenTo(M, a) \o acc.made
    BY <2>1, <1>14
  <2>3. upToByte[i] = NumberByte(acc, piece[i])
    BY <2>1, <1>10
  <2>4. piece[i] = s[d]
    BY <1>1
  <2> HIDE DEF acc, d
  <2>5. LinesIn(s, d) = LinesIn(s, d - 1) + (IF BeginsALine(s, d) THEN 1 ELSE 0) /\ LinesIn(s, d - 1) \in Nat
    BY <2>1, LinesNext
  <2>6. WithNumber(s, d, q) = t
    <3>1. CASE acc.begins
      <4>1. acc.num = q + LinesIn(s, d)
        BY <3>1, <2>2, <2>5
      <4> QED BY <4>1, <3>1, <2>2, <2>4 DEF WithNumber
    <3>2. CASE ~acc.begins
      BY <3>2, <2>2, <2>4 DEF WithNumber
    <3> QED BY <3>1, <3>2
  <2>7. upToByte[i].made = acc.made \o t /\ upToByte[i].num = (IF acc.begins THEN acc.num + 1 ELSE acc.num)
        /\ upToByte[i].begins = (piece[i] = Eol)
    <3>1. NumberByte(acc, piece[i]) = [made |-> acc.made \o t,
                                       num |-> IF acc.begins THEN acc.num + 1 ELSE acc.num,
                                       begins |-> piece[i] = Eol]
      BY DEF NumberByte
    <3> HIDE DEF t
    <3> DEFINE r == upToByte[i]
    <3>2. r = [made |-> acc.made \o t, num |-> IF acc.begins THEN acc.num + 1 ELSE acc.num,
               begins |-> piece[i] = Eol]
      BY <2>3, <3>1
    <3> HIDE DEF r
    <3>3. r.made = acc.made \o t /\ r.num = (IF acc.begins THEN acc.num + 1 ELSE acc.num)
          /\ r.begins = (piece[i] = Eol)
      BY <3>2
    <3> QED BY <3>3 DEF r
  <2>8. NumberByte(acc, piece[i]) \in Acc
    BY <2>2, <1>3
  <2>9. FlattenTo(M, d) = FlattenTo(M, a) \o upToByte[i].made
    <3>1. FlattenTo(M, d) = (FlattenTo(M, a) \o acc.made) \o WithNumber(s, d, q)
      BY <2>1, <2>2, <1>12
    <3>2. FlattenTo(M, a) \in Seq(Mark) /\ acc.made \in Seq(Mark) /\ WithNumber(s, d, q) \in Seq(Mark)
      <4>1. a <= Len(s)
        BY <1>0
      <4>2. FlattenTo(M, a) \in Seq(Mark)
        BY <4>1, <1>12
      <4>3. d \in 1..Len(s)
        BY <2>1, <1>0
      <4>4. Marks(s, q)[d] = WithNumber(s, d, q) /\ Marks(s, q)[d] \in Seq(Mark)
        BY <4>3, MarksAre DEF Marks
      <4> QED BY <4>2, <4>4, <2>2 DEF Acc
    <3> DEFINE A == FlattenTo(M, a)  B == acc.made  C == WithNumber(s, d, q)
    <3>3. A \in Seq(Mark) /\ B \in Seq(Mark) /\ C \in Seq(Mark)
      BY <3>2
    <3> HIDE DEF A, B, C
    <3>4. (A \o B) \o C = A \o (B \o C)
      BY <3>3, ConcatAssociative, SMTT(30)
    <3> QED BY <3>1, <3>4, <2>6, <2>7 DEF A, B, C
  <2>10. upToByte[i].num = q + LinesIn(s, d) + 1
    <3>1. BeginsALine(s, d) \in BOOLEAN
      BY DEF BeginsALine
    <3> QED BY <3>1, <2>2, <2>5, <2>7
  <2>11. upToByte[i].begins = BeginsALine(s, d + 1)
    <3>1. d + 1 # 1 /\ (d + 1) - 1 = d
      BY <2>1
    <3>2. BeginsALine(s, d + 1) = (s[d] = Eol)
      BY <3>1 DEF BeginsALine
    <3> QED BY <3>2, <2>4, <2>7
  <2>12. Right(i)
    BY <2>3, <2>8, <2>9, <2>10, <2>11 DEF d
  <2> QED BY <2>1, <2>12
<1> HIDE DEF R, Right
<1>15. Right(N)
  <2>1. N \in R
    <3> HIDE DEF N
    <3>1. \A i \in 0..N : i \in R
      BY <1>0, <1>13, <1>14, Reaches
    <3> QED BY <3>1, <1>0
  <2> QED BY <2>1 DEF R
<1>16. a + N = b
  OBVIOUS
<1> HIDE DEF N
<1> QED BY <1>9, <1>15, <1>16 DEF Right, Acc, M, piece, NumberedAs

-------------------------------------------------------------------------------
(* What a command is. *)
AFile(i) == i \in 1..Len(Inputs) /\ Openable(i)

LEMMA CommandIs ==
  ASSUME copy \in Transfers
  PROVE  /\ Len(Inputs) \in Nat \ {0} /\ Len(copy.files) \in Nat /\ copy.n \in Nat
         /\ copy.tool \in {"cat", "cat_n", "head", "tail", "tee", "cp"}
         /\ Len(copy.old) \in Nat \ {0} /\ DOMAIN copy.old = 1..Len(copy.old)
         /\ \A s \in Sinks : s \in 1..Len(copy.old) /\ copy.old[s] \in Seq(Octet)
         /\ \A i \in 1..Len(Inputs) : Inputs[i] # NotThere => Inputs[i] \in Seq(Octet)
         /\ Copier({"cp"}) => \A i \in 1..Len(Inputs) : copy.to[i] \in 1..Len(copy.old)
         /\ ~Copier({"cp"}) => 1 \in Sinks
         /\ ~Copier({"cp", "tee"}) => Sinks = {1}
<1>1. /\ copy.tool \in {"cat", "cat_n", "head", "tail", "tee", "cp"}
      /\ copy.files \in Seq(Seq(Octet) \cup {NotThere}) /\ copy.stdin \in Seq(Octet)
      /\ copy.old \in Seq(Seq(Octet) \cup {NotThere}) /\ Len(copy.old) >= 1 /\ copy.n \in Nat
      /\ IF copy.tool = "cp"
         THEN /\ copy.files # << >> /\ Len(copy.to) = Len(copy.files)
              /\ \A i \in 1..Len(copy.files) : copy.to[i] \in 1..Len(copy.old)
         ELSE /\ copy.old[1] # NotThere
              /\ IF copy.tool = "tee" THEN copy.files = << >> ELSE Len(copy.old) = 1 /\ ~copy.append
  BY TransfersAssumption, Zenon
<1>2. Len(copy.files) \in Nat /\ Len(copy.old) \in Nat /\ DOMAIN copy.old = 1..Len(copy.old)
      /\ (copy.files # << >> => Len(copy.files) # 0)
  BY <1>1, LenProperties, EmptySeq
<1>2a. Len(copy.old) >= 1
  BY <1>1, Zenon
<1>3. \A s \in 1..Len(copy.old) : copy.old[s] \in Seq(Octet) \cup {NotThere}
  BY <1>1, ElementOfSeq
<1>4. Len(Inputs) \in Nat \ {0} /\ \A i \in 1..Len(Inputs) : Inputs[i] # NotThere => Inputs[i] \in Seq(Octet)
  <2>1. CASE copy.files = << >>
    <3> DEFINE t == copy.stdin
    <3> HIDE DEF t
    <3>1. Len(<<t>>) = 1 /\ <<t>>[1] = t
      OBVIOUS
    <3>2. Inputs = <<t>>
      BY <2>1 DEF Inputs, t
    <3>3. Len(Inputs) = 1 /\ Inputs[1] = t
      BY <3>1, <3>2
    <3>4. \A i \in 1..Len(Inputs) : i = 1
      BY <3>3
    <3>5. t \in Seq(Octet)
      BY <1>1 DEF t
    <3> QED BY <3>3, <3>4, <3>5
  <2>2. CASE copy.files # << >>
    <3>1. Inputs = copy.files
      BY <2>2 DEF Inputs
    <3>2. \A i \in 1..Len(copy.files) : copy.files[i] \in Seq(Octet) \cup {NotThere}
      BY <1>1, ElementOfSeq
    <3> QED BY <3>1, <3>2, <2>2, <1>2
  <2> QED BY <2>1, <2>2
<1>5. ASSUME Copier({"cp"}) PROVE \A i \in 1..Len(Inputs) : copy.to[i] \in 1..Len(copy.old)
  BY <1>1, <1>5 DEF Copier, Inputs
<1>6. ASSUME ~Copier({"cp"}) PROVE 1 \in Sinks
  <2>1. copy.tool # "cp"
    BY <1>6 DEF Copier
  <2>2. copy.old[1] # NotThere
    BY <2>1, <1>1
  <2>3. 1 \in 1..Len(copy.old)
    BY <1>2a, <1>2
  <2> QED BY <2>2, <2>3 DEF Sinks
<1>7. ASSUME ~Copier({"cp", "tee"}) PROVE Sinks = {1}
  <2>1. copy.tool # "cp" /\ copy.tool # "tee"
    BY <1>7 DEF Copier
  <2>2. Len(copy.old) = 1
    BY <2>1, <1>1
  <2>3. 1 \in Sinks
    BY <2>1, <1>6 DEF Copier
  <2>4. \A s \in Sinks : s = 1
    BY <2>2 DEF Sinks
  <2> QED BY <2>3, <2>4
<1>8. \A s \in Sinks : s \in 1..Len(copy.old) /\ copy.old[s] \in Seq(Octet)
  BY <1>3 DEF Sinks
<1>9. Len(copy.old) \in Nat \ {0} /\ DOMAIN copy.old = 1..Len(copy.old)
  BY <1>2, <1>2a
<1>10. copy.tool \in {"cat", "cat_n", "head", "tail", "tee", "cp"} /\ copy.n \in Nat
  BY <1>1
<1> QED BY <1>2, <1>4, <1>5, <1>6, <1>7, <1>8, <1>9, <1>10, Zenon

LEMMA InputsAre ==
  ASSUME copy \in Transfers PROVE Len(Inputs) \in Nat /\ Len(Inputs) # 0
<1>1. Len(Inputs) \in Nat \ {0}
  BY CommandIs, Zenon
<1> QED BY <1>1

LEMMA AFileIs ==
  ASSUME copy \in Transfers, NEW i, AFile(i)
  PROVE  Inputs[i] \in Seq(Octet) /\ Len(Inputs[i]) \in Nat /\ BeginsAt(Inputs[i]) \in 0..Len(Inputs[i])
         /\ (~Copier({"tail"}) => BeginsAt(Inputs[i]) = 0)
         /\ (BeginsAt(Inputs[i]) # 0 => Len(Inputs[i]) - BeginsAt(Inputs[i]) = HoldSize /\ copy.files # << >>)
         /\ (copy.files # << >> => Len(Inputs[i]) - BeginsAt(Inputs[i]) <= HoldSize \/ ~Copier({"tail"}))
<1>1. Inputs[i] \in Seq(Octet)
  BY CommandIs DEF AFile, Openable
<1>2. Len(Inputs[i]) \in Nat
  BY <1>1, LenProperties
<1> QED BY <1>1, <1>2, LengthsAssumption DEF BeginsAt

(* The bytes and newlines an output holds, and its headings and numbers. *)
LEMMA Marked ==
  /\ Seq(Octet) \subseteq Seq(Mark)
  /\ <<Heading>> \in Seq(Mark) /\ <<Eol>> \in Seq(Mark) /\ << >> \in Seq(Mark)
<1>1. Octet \subseteq Mark /\ Heading \in Mark /\ Eol \in Mark
  BY MarksAssumption DEF Mark
<1>2. Seq(Octet) \subseteq Seq(Mark)
  BY <1>1, SeqMonotonic
<1> QED BY <1>1, <1>2, EmptySeq

(* Lines of the first files, counted. *)
LEMMA FilesLines ==
  ASSUME copy \in Transfers
  PROVE  /\ LinesOfFiles[0] = 0 /\ \A i \in 0..Len(Inputs) : LinesOfFiles[i] \in Nat
         /\ \A i \in 1..Len(Inputs) : LinesOfFiles[i] = LinesOfFiles[i - 1] +
              (IF Inputs[i] # NotThere THEN LinesIn(Inputs[i], Len(Inputs[i])) ELSE 0)
<1> DEFINE N == Len(Inputs)
           of(i) == IF Inputs[i] # NotThere THEN LinesIn(Inputs[i], Len(Inputs[i])) ELSE 0
           adds == [z \in (1..N) \X Nat |-> z[2] + of(z[1])]
<1>0. N \in Nat
  BY InputsAre
<1>1. ASSUME NEW i \in 1..N PROVE of(i) \in Nat
  <2>1. CASE Inputs[i] # NotThere
    <3>1. Len(Inputs[i]) \in Nat
      BY <2>1, CommandIs, LenProperties
    <3>2. LinesIn(Inputs[i], Len(Inputs[i])) \in Nat
      BY <3>1, LinesNext
    <3> QED BY <3>2
  <2>2. CASE ~(Inputs[i] # NotThere)
    BY <2>2
  <2> QED BY <2>1, <2>2
<1> HIDE DEF N, of
<1>2. adds \in [(1..N) \X Nat -> Nat] /\ \A i \in 1..N, k \in Nat : adds[<<i, k>>] = k + of(i)
  BY <1>1
<1> HIDE DEF adds
<1>3. PICK g \in [0..N -> Nat] : Follows(g, N, 0, adds)
  <2>1. 0 \in Nat
    OBVIOUS
  <2> QED BY <1>0, <1>2, <2>1, RecursionExists, Zenon
<1>4. ASSUME NEW i \in 0..N PROVE g[i] = IF i = 0 THEN 0 ELSE g[i - 1] + of(i)
  <2>1. CASE i = 0
    BY <2>1, <1>3 DEF Follows
  <2>2. CASE i # 0
    <3>1. i \in 1..N /\ i - 1 \in 0..N
      BY <2>2, <1>0
    <3>2. g[i - 1] \in Nat
      BY <3>1, <1>3
    <3> QED BY <3>1, <3>2, <2>2, <1>2, <1>3 DEF Follows
  <2> QED BY <2>1, <2>2
<1>5. g = [i \in 0..N |-> IF i = 0 THEN 0 ELSE g[i - 1] + of(i)]
  BY <1>4
<1>6. LinesOfFiles = [i \in 0..N |-> IF i = 0 THEN 0 ELSE LinesOfFiles[i - 1] + of(i)]
  <2>1. \E h : h = [i \in 0..N |-> IF i = 0 THEN 0 ELSE h[i - 1] + of(i)]
    BY <1>5
  <2>2. LinesOfFiles = CHOOSE h : h = [i \in 0..N |-> IF i = 0 THEN 0 ELSE h[i - 1] + of(i)]
    BY DEF LinesOfFiles, N, of
  <2> QED BY <2>1, <2>2, Zenon
<1>7. ASSUME NEW i \in 0..N PROVE LinesOfFiles[i] = IF i = 0 THEN 0 ELSE LinesOfFiles[i - 1] + of(i)
  BY <1>6, Zenon
<1> DEFINE R == {i \in 0..N : LinesOfFiles[i] \in Nat}
<1>8. 0 \in R /\ LinesOfFiles[0] = 0
  BY <1>0, <1>7
<1>9. ASSUME NEW i \in 1..N, i - 1 \in R PROVE i \in R
  <2>1. i \in 0..N /\ i # 0
    OBVIOUS
  <2>2. LinesOfFiles[i] = LinesOfFiles[i - 1] + of(i)
    BY <2>1, <1>7
  <2> QED BY <2>1, <2>2, <1>1, <1>9
<1> HIDE DEF R
<1>10. \A i \in 0..N : i \in R
  BY <1>0, <1>8, <1>9, Reaches
<1>11. ASSUME NEW i \in 1..N PROVE LinesOfFiles[i] = LinesOfFiles[i - 1] + of(i)
  <2>1. i \in 0..N /\ i # 0
    OBVIOUS
  <2> QED BY <2>1, <1>7
<1> QED BY <1>8, <1>10, <1>11 DEF R, N, of

-------------------------------------------------------------------------------
(* What is shown of a file when the first k bytes of it were read.         *)
ShownTo(i, k) ==
  CASE Copier({"cat", "tee"}) -> SubSeq(Inputs[i], 1, k)
    [] Copier({"cat_n"}) -> FlattenTo(Marks(Inputs[i], LinesOfFiles[i - 1]), k)
    [] Copier({"head"}) -> SubSeq(Inputs[i], 1, TopEnd(Inputs[i], k, copy.n))
    [] OTHER -> << >>

LEMMA PrefixIs ==
  ASSUME NEW S, NEW s \in Seq(S), NEW k \in 0..Len(s)
  PROVE  SubSeq(s, 1, k) \in Seq(S) /\ Len(SubSeq(s, 1, k)) = k
<1>1. Len(s) \in Nat
  BY LenProperties
<1>2. 0 + 1 = 1 /\ 0 \in Nat /\ k \in Nat /\ 0 <= k /\ k <= Len(s) /\ k - 0 = k
  BY <1>1
<1>3. SubSeq(s, 0 + 1, k) \in Seq(S) /\ Len(SubSeq(s, 0 + 1, k)) = k - 0
  BY <1>2, PartOf
<1> QED BY <1>2, <1>3

LEMMA TopEndTyped ==
  ASSUME NEW s, NEW m \in Nat, NEW n PROVE TopEnd(s, m, n) \in 0..m
<1> DEFINE T == {i \in 1..m : NewlinesIn(SubSeq(s, 1, i - 1)) < n}
<1>1. IsFiniteSet(1..m) /\ Cardinality(1..m) = m
  BY FS_Interval
<1>2. T \in SUBSET (1..m)
  OBVIOUS
<1> HIDE DEF T
<1>3. IsFiniteSet(T) /\ Cardinality(T) <= m
  BY <1>1, <1>2, FS_Subset
<1>4. Cardinality(T) \in Nat
  BY <1>3, FS_CardinalityType
<1> QED BY <1>3, <1>4 DEF TopEnd, T

LEMMA ShownToIs ==
  ASSUME copy \in Transfers, NEW i, AFile(i), NEW k \in 0..Len(Inputs[i])
  PROVE  ShownTo(i, k) \in Seq(Mark)
<1> DEFINE s == Inputs[i]
           q == LinesOfFiles[i - 1]
<1>1. s \in Seq(Octet) /\ Len(s) \in Nat /\ q \in Nat
  <2>1. i - 1 \in 0..Len(Inputs)
    BY InputsAre DEF AFile
  <2> QED BY <2>1, AFileIs, FilesLines
<1> HIDE DEF s, q
<1>2. SubSeq(s, 1, k) \in Seq(Octet)
  BY <1>1, PrefixIs DEF s
<1>3. FlattenTo(Marks(s, q), k) \in Seq(Mark)
  <2>1. Marks(s, q) \in [1..Len(s) -> Seq(Mark)] /\ k \in Nat /\ k <= Len(s)
    BY <1>1, MarksAre DEF s
  <2> QED BY <2>1, <1>1, FlattenUpTo
<1>4. SubSeq(s, 1, TopEnd(s, k, copy.n)) \in Seq(Octet)
  <2>1. TopEnd(s, k, copy.n) \in 0..Len(s)
    <3>1. k \in Nat /\ k <= Len(s)
      BY <1>1 DEF s
    <3>2. TopEnd(s, k, copy.n) \in 0..k
      BY <3>1, TopEndTyped
    <3> QED BY <3>1, <3>2, <1>1
  <2> QED BY <2>1, <1>1, PrefixIs
<1>5. SubSeq(s, 1, k) \in Seq(Mark) /\ SubSeq(s, 1, TopEnd(s, k, copy.n)) \in Seq(Mark) /\ << >> \in Seq(Mark)
  BY <1>2, <1>4, Marked
<1> QED BY <1>3, <1>5 DEF ShownTo, s, q

(* Nothing, before the first read; all that is to be shown, behind the     *)
(* last one, but for tail.                                                 *)
LEMMA ShownFirst ==
  ASSUME copy \in Transfers, NEW i, AFile(i)
  PROVE  ShownTo(i, BeginsAt(Inputs[i])) = << >>
<1> DEFINE s == Inputs[i]
<1>1. s \in Seq(Octet) /\ (~Copier({"tail"}) => BeginsAt(s) = 0)
  BY AFileIs
<1>2. copy.tool \in {"cat", "cat_n", "head", "tail", "tee", "cp"}
  BY CommandIs
<1>3. SubSeq(s, 1, 0) = << >>
  BY SubSeqEmpty
<1>4. TopEnd(s, 0, copy.n) = 0
  <2>1. TopEnd(s, 0, copy.n) \in 0..0
    BY TopEndTyped
  <2> QED BY <2>1
<1>5. \A q : FlattenTo(Marks(s, q), 0) = << >>
  <2> SUFFICES ASSUME NEW q PROVE FlattenTo(Marks(s, q), 0) = << >>
    OBVIOUS
  <2>1. [j \in 1..0 |-> Marks(s, q)[j]] = << >>
    OBVIOUS
  <2> QED BY <2>1, FlattenNone DEF FlattenTo
<1> HIDE DEF s
<1>6. CASE Copier({"tail"})
  BY <1>6 DEF ShownTo, Copier
<1>7. CASE ~Copier({"tail"})
  BY <1>1, <1>2, <1>3, <1>4, <1>5, <1>7 DEF ShownTo, Copier, s
<1> QED BY <1>6, <1>7

LEMMA ShownAll ==
  ASSUME copy \in Transfers, NEW i, AFile(i), ~Copier({"tail", "cp"})
  PROVE  ShownTo(i, Len(Inputs[i])) = Shown(i)
<1> DEFINE s == Inputs[i]
<1>1. s \in Seq(Octet)
  BY AFileIs
<1>2. copy.tool \in {"cat", "cat_n", "head", "tail", "tee", "cp"}
  BY CommandIs
<1>3. SubSeq(s, 1, Len(s)) = s
  BY <1>1, SubSeqFull
<1>4. SubSeq(s, 1, TopEnd(s, Len(s), copy.n)) = TopLines(s, copy.n)
  BY DEF TopEnd, TopLines
<1>5. \A q : FlattenTo(Marks(s, q), Len(s)) = WithNumbers(s, q)
  <2> SUFFICES ASSUME NEW q PROVE FlattenTo(Marks(s, q), Len(s)) = WithNumbers(s, q)
    OBVIOUS
  <2> HIDE DEF s
  <2>1. [j \in 1..Len(s) |-> Marks(s, q)[j]] = [j \in 1..Len(s) |-> WithNumber(s, j, q)]
    BY DEF Marks
  <2> QED BY <2>1, Zenon DEF FlattenTo, WithNumbers
<1> HIDE DEF s
<1>6. CASE Copier({"cat", "tee"})
  BY <1>3, <1>6 DEF ShownTo, Shown, Copier, s
<1>7. CASE Copier({"cat_n"})
  BY <1>5, <1>7 DEF ShownTo, Shown, Copier, s
<1>8. CASE Copier({"head"})
  BY <1>4, <1>8 DEF ShownTo, Shown, Copier, s
<1> QED BY <1>2, <1>6, <1>7, <1>8 DEF Copier

(* What is left of s for tail. *)
LEMMA BottomTyped ==
  ASSUME NEW s \in Seq(Octet), NEW n \in Nat PROVE BottomLines(s, n) \in Seq(Octet)
<1> DEFINE T == {j \in 1..Len(s) : NewlinesIn(SubSeq(s, j, Len(s))) > n}
<1>0. Len(s) \in Nat
  BY LenProperties
<1>1. IsFiniteSet(1..Len(s)) /\ Cardinality(1..Len(s)) = Len(s)
  BY <1>0, FS_Interval
<1>2. T \in SUBSET (1..Len(s))
  OBVIOUS
<1> HIDE DEF T
<1>3. IsFiniteSet(T) /\ Cardinality(T) <= Len(s)
  BY <1>1, <1>2, FS_Subset
<1>4. Cardinality(T) \in Nat
  BY <1>3, FS_CardinalityType
<1> DEFINE c == Cardinality(T)
<1>5. c \in Nat /\ c <= Len(s) /\ 1 + c = c + 1
  BY <1>3, <1>4
<1> HIDE DEF c
<1>6. SubSeq(s, c + 1, Len(s)) \in Seq(Octet)
  BY <1>0, <1>5, PartOf
<1> QED BY <1>5, <1>6 DEF BottomLines, c, T

LEMMA ShownTyped ==
  ASSUME copy \in Transfers, NEW i, AFile(i), ~Copier({"cp"})
  PROVE  Shown(i) \in Seq(Mark)
<1>1. CASE ~Copier({"tail"})
  <2>1. ~Copier({"tail", "cp"}) /\ Len(Inputs[i]) \in 0..Len(Inputs[i])
    BY <1>1, AFileIs DEF Copier
  <2> QED BY <2>1, ShownAll, ShownToIs
<1>2. CASE Copier({"tail"})
  <2> DEFINE s == Inputs[i]
  <2>1. s \in Seq(Octet)
    BY AFileIs
  <2> HIDE DEF s
  <2>2. BottomLines(s, copy.n) \in Seq(Octet)
    <3>1. copy.n \in Nat
      BY CommandIs
    <3> QED BY <2>1, <3>1, BottomTyped
  <2>3. Shown(i) = BottomLines(s, copy.n)
    BY <1>2 DEF Shown, Copier, s
  <2> QED BY <2>2, <2>3, Marked
<1> QED BY <1>1, <1>2

LEMMA ShareTyped ==
  ASSUME copy \in Transfers, ~Copier({"cp"}), NEW i \in 1..Len(Inputs)
  PROVE  Share(i) \in Seq(Mark) /\ TitleOf(i) \in Seq(Mark) /\ GapBehind(i) \in Seq(Mark)
<1>1. TitleOf(i) \in Seq(Mark) /\ GapBehind(i) \in Seq(Mark)
  BY Marked DEF TitleOf, GapBehind
<1>2. CASE Openable(i)
  <2>1. Shown(i) \in Seq(Mark)
    BY <1>2, ShownTyped DEF AFile
  <2>2. TitleOf(i) \o Shown(i) \in Seq(Mark)
    BY <2>1, <1>1, ConcatProperties
  <2>3. (TitleOf(i) \o Shown(i)) \o GapBehind(i) \in Seq(Mark)
    BY <2>2, <1>1, ConcatProperties
  <2> QED BY <2>3, <1>1, <1>2 DEF Share
<1>3. CASE ~Openable(i)
  BY <1>1, <1>3, Marked DEF Share
<1> QED BY <1>2, <1>3

LEMMA SharesNext ==
  ASSUME copy \in Transfers, ~Copier({"cp"}), NEW n \in 0..Len(Inputs)
  PROVE  /\ SharesTo(n) \in Seq(Mark) /\ SharesTo(0) = << >>
         /\ n # 0 => SharesTo(n) = SharesTo(n - 1) \o Share(n)
<1> DEFINE N == Len(Inputs)
           all == [i \in 1..N |-> Share(i)]
<1>0. N \in Nat /\ n \in Nat /\ n <= N
  BY InputsAre
<1>1. all \in [1..N -> Seq(Mark)]
  BY ShareTyped
<1>2. ASSUME NEW k \in 0..N PROVE SharesTo(k) = FlattenTo(all, k)
  <2>1. [i \in 1..k |-> Share(i)] = [i \in 1..k |-> all[i]]
    <3>1. \A i \in 1..k : i \in 1..N
      BY <1>0
    <3> QED BY <3>1
  <2> HIDE DEF all
  <2> QED BY <2>1, Zenon DEF SharesTo, FlattenTo
<1>3. n # 0 => all[n] = Share(n) /\ n - 1 \in 0..N
  BY <1>0
<1> HIDE DEF all, N
<1>4. FlattenTo(all, n) \in Seq(Mark) /\ (n # 0 => FlattenTo(all, n) = FlattenTo(all, n - 1) \o all[n])
  BY <1>0, <1>1, FlattenUpTo
<1>5. SharesTo(0) = << >>
  <2>1. [i \in 1..0 |-> Share(i)] = << >>
    OBVIOUS
  <2> QED BY <2>1, FlattenNone DEF SharesTo
<1>6. n \in 0..N
  BY <1>0
<1> QED BY <1>2, <1>3, <1>4, <1>5, <1>6

-------------------------------------------------------------------------------
(* cp: what the first n files leave in an output. *)
LEMMA CopyNone ==
  ASSUME NEW s PROVE CopyIn(s, 0) = copy.old[s]
BY DEF CopyIn, CopiedTo

LEMMA CopyNextFile ==
  ASSUME NEW s, NEW n \in Nat
  PROVE  CopyIn(s, n + 1) = IF Openable(n + 1) /\ copy.to[n + 1] = s THEN Inputs[n + 1] ELSE CopyIn(s, n)
<1>1. CASE Openable(n + 1) /\ copy.to[n + 1] = s
  <2> DEFINE T == CopiedTo(s, n + 1)
  <2>1. n + 1 \in T /\ \A j \in T : j \in 1..(n + 1)
    BY <1>1 DEF CopiedTo
  <2> HIDE DEF T
  <2>2. LatestTo(s, n + 1) \in T /\ \A j \in T : j <= LatestTo(s, n + 1)
    <3>1. \A j \in T : j <= n + 1
      BY <2>1
    <3>2. \E i \in T : \A j \in T : j <= i
      BY <2>1, <3>1
    <3> QED BY <3>2, Zenon DEF LatestTo, T
  <2>3. LatestTo(s, n + 1) = n + 1
    BY <2>1, <2>2
  <2>4. T # {}
    BY <2>1
  <2> QED BY <1>1, <2>3, <2>4 DEF CopyIn, T
<1>2. CASE ~(Openable(n + 1) /\ copy.to[n + 1] = s)
  <2>0. \A i \in 1..(n + 1) : i \in 1..n \/ i = n + 1
    OBVIOUS
  <2>1. CopiedTo(s, n + 1) = CopiedTo(s, n)
    <3>1. \A i \in 1..n : i \in 1..(n + 1)
      OBVIOUS
    <3>2. \A i : i \in CopiedTo(s, n + 1) <=> i \in CopiedTo(s, n)
      BY <1>2, <2>0, <3>1, Zenon DEF CopiedTo
    <3> QED BY <3>2
  <2>2. LatestTo(s, n + 1) = LatestTo(s, n)
    BY <2>1, Zenon DEF LatestTo
  <2> QED BY <1>2, <2>1, <2>2, Zenon DEF CopyIn
<1> QED BY <1>1, <1>2

-------------------------------------------------------------------------------
(* Types. *)
CopyTypeOK ==
  /\ copy \in Transfers /\ where \in {"start", "open", "read", "close", "done"}
  /\ nth \in 1..(Len(Inputs) + 1)
  /\ contents \in Seq(Octet) /\ upTo \in 0..Len(contents)
  /\ hold \in Seq(Octet) /\ Len(hold) <= HoldSize
  /\ pending \in Seq(Mark) /\ sink \in 1..Len(copy.old)
  /\ outs \in Seq(Seq(Mark) \cup {NotThere}) /\ Len(outs) = Len(copy.old)
  /\ \A s \in Sinks : outs[s] \in Seq(Mark)
  /\ counted \in Nat /\ lineBegins \in BOOLEAN
  /\ readFailed \in BOOLEAN /\ cutShort \in SUBSET (1..Len(copy.old))

(* The file in hand is one that was opened, and read up to a place; tail   *)
(* holds what was read of it, head has counted its newlines, cp has opened *)
(* its output.                                                             *)
FileInHand ==
  where \in {"read", "close"} =>
    /\ AFile(nth) /\ contents = Inputs[nth] /\ BeginsAt(contents) <= upTo
    /\ Copier({"tail"}) => hold = SubSeq(contents, BeginsAt(contents) + 1, upTo)
    /\ Copier({"head"}) => counted = Lesser(copy.n, Lines(contents, 0, upTo))
    /\ Copier({"cp"}) => sink = copy.to[nth]

(* Outputs get what is pending in their order; before it is all made, they *)
(* have had all of what came before.                                       *)
SinksInTurn ==
  /\ ~Copier({"cp"}) => sink \in Sinks
  /\ ~Copier({"cp"}) /\ pending = << >> => \A s \in Sinks : sink <= s
  /\ Copier({"cp"}) /\ pending # << >> => where = "read"
  /\ where = "start" => nth = 1 /\ pending = << >> /\ outs = copy.old
  /\ where = "done" => nth = Len(Inputs) + 1 /\ pending = << >>

(* cat -n: line_num and at_line_start.                                     *)
LinesCounted ==
  Copier({"cat_n"}) =>
    /\ where = "read" =>
         lineBegins = BeginsALine(contents, upTo + 1) /\ LinesIn(contents, upTo) <= counted
    /\ ~readFailed =>
         counted = CASE where = "read" -> LinesOfFiles[nth - 1] + LinesIn(contents, upTo)
                     [] where = "close" -> LinesOfFiles[nth]
                     [] OTHER -> LinesOfFiles[nth - 1]

(* All that was made up to now for every output. *)
Due ==
  CASE where = "start" -> << >>
    [] where = "read" -> (SharesTo(nth - 1) \o TitleOf(nth)) \o ShownTo(nth, upTo)
    [] where = "close" -> (SharesTo(nth - 1) \o TitleOf(nth)) \o Shown(nth)
    [] OTHER -> SharesTo(nth - 1)

(* An output that took all it was given has what was made for it, but what *)
(* is pending.                                                             *)
AllWritten ==
  ~Copier({"cp"}) /\ TailFits /\ ~readFailed /\ where # "start" =>
    \A s \in Sinks \ cutShort :
      outs[s] \o (IF s >= sink THEN pending ELSE << >>) = OldPart(s) \o Due

AllCopied ==
  Copier({"cp"}) /\ ~readFailed =>
    /\ \A s \in Sinks \ cutShort :
         IF where \in {"read", "close"} /\ s = sink
         THEN outs[s] \o pending = SubSeq(contents, 1, upTo) ELSE outs[s] = CopyIn(s, nth - 1)
    /\ where = "close" => upTo = Len(contents)

CopyInv == CopyTypeOK /\ FileInHand /\ SinksInTurn /\ LinesCounted /\ AllWritten /\ AllCopied

SameCommand ==
  /\ copy' = copy /\ Inputs' = Inputs /\ Sinks' = Sinks /\ LinesOfFiles' = LinesOfFiles
  /\ \A names : Copier(names)' <=> Copier(names)
  /\ TailFits' <=> TailFits
  /\ \A i : (Openable(i)' <=> Openable(i)) /\ (AFile(i)' <=> AFile(i))
  /\ \A t : BeginsAt(t)' = BeginsAt(t)
  /\ \A i : SharesTo(i)' = SharesTo(i) /\ TitleOf(i)' = TitleOf(i) /\ Shown(i)' = Shown(i)
  /\ \A i, k : ShownTo(i, k)' = ShownTo(i, k)
  /\ \A s : OldPart(s)' = OldPart(s)
  /\ \A s, i : CopyIn(s, i)' = CopyIn(s, i)

LEMMA Commands == ASSUME copy' = copy PROVE SameCommand
<1>1. Inputs' = Inputs /\ Sinks' = Sinks
  BY DEF Inputs, Sinks
<1>2. \A names : Copier(names)' <=> Copier(names)
  BY DEF Copier
<1>3. \A i : (Openable(i)' <=> Openable(i)) /\ (AFile(i)' <=> AFile(i))
  BY <1>1, <1>2 DEF Openable, AFile
<1>4. \A t : BeginsAt(t)' = BeginsAt(t)
  BY <1>2 DEF BeginsAt
<1>5. LinesOfFiles' = LinesOfFiles
  BY <1>1 DEF LinesOfFiles
<1>6. \A i : SharesTo(i)' = SharesTo(i) /\ TitleOf(i)' = TitleOf(i) /\ Shown(i)' = Shown(i)
  BY DEF SharesTo, Share, Openable, TitleOf, Shown, GapBehind, Inputs, Copier, Sinks, BeginsAt, WithNumbers,
         WithNumber, LinesOfFiles, TopLines, BottomLines
<1>10. TailFits' <=> TailFits
  BY DEF TailFits, FitsHold, Inputs, Copier, BottomLines
<1>7. \A i, k : ShownTo(i, k)' = ShownTo(i, k)
  BY DEF ShownTo, Inputs, Copier, LinesOfFiles, Marks, WithNumber
<1>8. \A s : OldPart(s)' = OldPart(s)
  BY DEF OldPart
<1>9. \A s, i : CopyIn(s, i)' = CopyIn(s, i)
  BY DEF CopyIn, LatestTo, CopiedTo, Openable, Inputs, Copier, Sinks
<1> QED BY <1>1, <1>2, <1>3, <1>4, <1>5, <1>6, <1>7, <1>8, <1>9, <1>10 DEF SameCommand

LEMMA OldTyped ==
  ASSUME copy \in Transfers, NEW s \in Sinks
  PROVE  OldPart(s) \in Seq(Mark) /\ copy.old[s] \in Seq(Mark)
<1>1. copy.old[s] \in Seq(Octet)
  BY CommandIs
<1> QED BY <1>1, Marked DEF OldPart

LEMMA DueTyped ==
  ASSUME CopyTypeOK, FileInHand, ~Copier({"cp"}) PROVE Due \in Seq(Mark)
<1>0. copy \in Transfers /\ nth - 1 \in 0..Len(Inputs)
  BY InputsAre DEF CopyTypeOK
<1>1. SharesTo(nth - 1) \in Seq(Mark)
  BY <1>0, SharesNext
<1>2. CASE where \in {"read", "close"}
  <2>1. AFile(nth) /\ contents = Inputs[nth] /\ nth \in 1..Len(Inputs) /\ upTo \in 0..Len(Inputs[nth])
    BY <1>2 DEF FileInHand, AFile, CopyTypeOK
  <2>2. TitleOf(nth) \in Seq(Mark)
    BY <1>0, <2>1, ShareTyped
  <2>3. ShownTo(nth, upTo) \in Seq(Mark) /\ Shown(nth) \in Seq(Mark)
    BY <1>0, <2>1, ShownToIs, ShownTyped
  <2>4. SharesTo(nth - 1) \o TitleOf(nth) \in Seq(Mark)
    BY <1>1, <2>2, ConcatProperties
  <2> DEFINE A == SharesTo(nth - 1) \o TitleOf(nth)
             B == ShownTo(nth, upTo)
             C == Shown(nth)
  <2>5. A \in Seq(Mark) /\ B \in Seq(Mark) /\ C \in Seq(Mark)
    BY <2>3, <2>4
  <2> HIDE DEF A, B, C
  <2>6. A \o B \in Seq(Mark) /\ A \o C \in Seq(Mark)
    BY <2>5, ConcatProperties
  <2> QED BY <2>6, <1>2 DEF Due, A, B, C
<1>3. CASE ~(where \in {"read", "close"})
  BY <1>1, <1>3, Marked DEF Due
<1> QED BY <1>2, <1>3

LEMMA Regroup ==
  ASSUME NEW S, NEW a \in Seq(S), NEW b \in Seq(S), NEW c \in Seq(S), NEW d \in Seq(S), d \o << >> = a \o b
  PROVE  d \o c = a \o (b \o c)
<1>1. d \o << >> = d
  BY ConcatEmptySeq
<1>2. d = a \o b
  BY <1>1
<1>3. (a \o b) \o c = a \o (b \o c)
  BY ConcatAssociative
<1> QED BY <1>2, <1>3

(* More is made, and is pending. *)
LEMMA MoreIsDue ==
  ASSUME CopyTypeOK, FileInHand, SinksInTurn, AllWritten, SameCommand, where # "start", pending = << >>,
         outs' = outs, sink' = sink, cutShort' = cutShort, pending' \in Seq(Mark),
         ~Copier({"cp"}) /\ TailFits /\ ~readFailed' => ~readFailed /\ Due' = Due \o pending'
  PROVE  AllWritten'
<1>1. ASSUME NEW s \in Sinks, ~Copier({"cp"}), outs[s] \o << >> = OldPart(s) \o Due
      PROVE  outs[s] \o pending' = OldPart(s) \o (Due \o pending')
  <2>1. OldPart(s) \in Seq(Mark) /\ Due \in Seq(Mark) /\ outs[s] \in Seq(Mark)
    BY <1>1, OldTyped, DueTyped DEF CopyTypeOK
  <2> QED BY <1>1, <2>1, Regroup
<1> SUFFICES ASSUME ~Copier({"cp"}), TailFits, ~readFailed', NEW s \in Sinks, s \notin cutShort
             PROVE  outs[s] \o (IF s >= sink THEN pending' ELSE << >>) = OldPart(s) \o Due'
  BY DEF AllWritten, SameCommand
<1>2. ~readFailed /\ Due' = Due \o pending'
  OBVIOUS
<1>3. s >= sink
  <2>1. sink <= s /\ s \in 1..Len(copy.old) /\ sink \in 1..Len(copy.old)
    BY DEF SinksInTurn, CopyTypeOK, Sinks
  <2> QED BY <2>1
<1>4. outs[s] \o << >> = OldPart(s) \o Due
  BY <1>2, <1>3 DEF AllWritten
<1> QED BY <1>1, <1>2, <1>3, <1>4

LEMMA Delivered ==
  ASSUME CopyTypeOK, sink \in Sinks, NEW bytes \in Seq(Mark), Deliver(bytes)
  PROVE  /\ outs' \in Seq(Seq(Mark) \cup {NotThere}) /\ Len(outs') = Len(outs)
         /\ \A s \in Sinks : outs'[s] \in Seq(Mark) /\ outs'[s] = IF s = sink THEN outs[s] \o bytes ELSE outs[s]
<1> DEFINE new == outs[sink] \o bytes
<1>1. new \in Seq(Mark)
  BY ConcatProperties DEF CopyTypeOK
<1>2. outs' = [outs EXCEPT ![sink] = new]
  BY DEF Deliver
<1>3. sink \in 1..Len(outs) /\ new \in Seq(Mark) \cup {NotThere}
  BY <1>1 DEF CopyTypeOK
<1> HIDE DEF new
<1>4. /\ outs' \in Seq(Seq(Mark) \cup {NotThere}) /\ Len(outs') = Len(outs)
      /\ \A s \in 1..Len(outs) : outs'[s] = IF s = sink THEN new ELSE outs[s]
  BY <1>2, <1>3, ExceptSeq DEF CopyTypeOK
<1>5. \A s \in Sinks : s \in 1..Len(outs) /\ outs[s] \in Seq(Mark)
  BY DEF CopyTypeOK, Sinks
<1> QED BY <1>1, <1>4, <1>5 DEF new

-------------------------------------------------------------------------------
LEMMA CopyStart == CopyInit => CopyInv
<1> SUFFICES ASSUME CopyInit PROVE CopyInv
  OBVIOUS
<1>1. copy \in Transfers /\ where = "start" /\ nth = 1 /\ contents = << >> /\ upTo = 0 /\ hold = << >>
      /\ pending = << >> /\ sink = 1 /\ outs = copy.old /\ counted = 0 /\ lineBegins = TRUE
      /\ readFailed = FALSE /\ cutShort = {}
  BY DEF CopyInit
<1>2. Len(Inputs) \in Nat /\ HoldSize \in Nat
  BY <1>1, InputsAre, LengthsAssumption
<1>3. Len(copy.old) \in Nat \ {0}
  BY <1>1, CommandIs
<1>4. \A s \in Sinks : s \in 1..Len(copy.old) /\ copy.old[s] \in Seq(Octet)
  BY <1>1, CommandIs
<1>5. copy.old \in Seq(Seq(Mark) \cup {NotThere})
  <2>1. copy.old \in Seq(Seq(Octet) \cup {NotThere})
    BY <1>1, TransfersAssumption
  <2>2. Seq(Octet) \cup {NotThere} \subseteq Seq(Mark) \cup {NotThere}
    BY Marked
  <2> QED BY <2>1, <2>2, SeqMonotonic
<1>6. << >> \in Seq(Octet) /\ << >> \in Seq(Mark) /\ Len(<< >>) = 0
  BY EmptySeq
<1>7. CopyTypeOK
  <2>1. copy \in Transfers /\ where \in {"start", "open", "read", "close", "done"} /\ lineBegins \in BOOLEAN
        /\ readFailed \in BOOLEAN /\ cutShort \in SUBSET (1..Len(copy.old)) /\ counted \in Nat
    BY <1>1
  <2>2. contents \in Seq(Octet) /\ hold \in Seq(Octet) /\ pending \in Seq(Mark)
    BY <1>1, <1>6
  <2>3. upTo \in 0..Len(contents) /\ Len(hold) <= HoldSize
    BY <1>1, <1>2, <1>6
  <2>4. nth \in 1..(Len(Inputs) + 1) /\ sink \in 1..Len(copy.old)
    BY <1>1, <1>2, <1>3
  <2>5. outs \in Seq(Seq(Mark) \cup {NotThere}) /\ Len(outs) = Len(copy.old)
    BY <1>1, <1>5
  <2>6. \A s \in Sinks : outs[s] \in Seq(Mark)
    BY <1>1, <1>4, Marked
  <2> QED BY <2>1, <2>2, <2>3, <2>4, <2>5, <2>6 DEF CopyTypeOK
<1>8. FileInHand
  BY <1>1 DEF FileInHand
<1>9. SinksInTurn
  <2>1. ~Copier({"cp"}) => 1 \in Sinks
    BY <1>1, CommandIs
  <2>2. \A s \in Sinks : 1 <= s
    BY <1>3, <1>4
  <2> QED BY <1>1, <2>1, <2>2 DEF SinksInTurn
<1>10. LinesCounted
  <2>1. nth - 1 = 0
    BY <1>1
  <2>2. LinesOfFiles[0] = 0
    BY <1>1, FilesLines
  <2> QED BY <1>1, <2>1, <2>2 DEF LinesCounted
<1>11. AllWritten
  BY <1>1 DEF AllWritten
<1>12. AllCopied
  <2>1. \A s : CopyIn(s, nth - 1) = outs[s]
    <3>1. nth - 1 = 0
      BY <1>1
    <3> QED BY <3>1, <1>1, CopyNone
  <2> QED BY <1>1, <2>1 DEF AllCopied
<1> QED BY <1>7, <1>8, <1>9, <1>10, <1>11, <1>12 DEF CopyInv

LEMMA OpenOutputsStep == CopyInv /\ OpenOutputs => CopyInv'
<1> SUFFICES ASSUME CopyInv, OpenOutputs PROVE CopyInv'
  OBVIOUS
<1> USE DEF CopyInv
<1>1. /\ where = "start" /\ where' = "open"
      /\ outs' = [s \in 1..Len(outs) |->
                   IF copy.append \/ s \notin Sinks \/ Copier({"cp"}) THEN outs[s] ELSE << >>]
      /\ UNCHANGED <<copy, nth, contents, upTo, hold, readFailed, pending, sink, cutShort, counted, lineBegins>>
  BY DEF OpenOutputs, inVars
<1>2. SameCommand
  BY <1>1, Commands
<1>3. nth = 1 /\ pending = << >> /\ outs = copy.old /\ nth - 1 = 0
  BY <1>1 DEF SinksInTurn
<1>4. /\ outs' \in Seq(Seq(Mark) \cup {NotThere}) /\ Len(outs') = Len(copy.old)
      /\ \A s \in Sinks : outs'[s] \in Seq(Mark)
                          /\ outs'[s] = IF copy.append \/ Copier({"cp"}) THEN outs[s] ELSE << >>
  <2>1. Len(outs) \in Nat /\ Len(outs) = Len(copy.old)
    BY LenProperties DEF CopyTypeOK
  <2>2. ASSUME NEW s \in 1..Len(outs) PROVE outs'[s] \in Seq(Mark) \cup {NotThere}
    <3>1. outs[s] \in Seq(Mark) \cup {NotThere}
      BY ElementOfSeq DEF CopyTypeOK
    <3> QED BY <3>1, <1>1, EmptySeq
  <2>3. outs' \in [1..Len(outs) -> Seq(Mark) \cup {NotThere}]
    BY <1>1, <2>2
  <2>4. outs' \in Seq(Seq(Mark) \cup {NotThere}) /\ Len(outs') = Len(outs)
    BY <2>1, <2>3, IsSeqOf
  <2>5. ASSUME NEW s \in Sinks
        PROVE  outs'[s] = (IF copy.append \/ Copier({"cp"}) THEN outs[s] ELSE << >>) /\ outs[s] \in Seq(Mark)
    <3>1. s \in 1..Len(outs)
      BY <2>1 DEF Sinks
    <3> QED BY <3>1, <1>1 DEF CopyTypeOK
  <2> QED BY <2>1, <2>4, <2>5, EmptySeq
<1>5. CopyTypeOK'
  BY <1>1, <1>2, <1>4 DEF CopyTypeOK, SameCommand
<1>6. FileInHand'
  BY <1>1 DEF FileInHand
<1>7. SinksInTurn'
  BY <1>1, <1>2, <1>3 DEF SinksInTurn, SameCommand
<1>8. LinesCounted'
  BY <1>1, <1>2 DEF LinesCounted, SameCommand
<1>9. AllWritten'
  <2> SUFFICES ASSUME ~Copier({"cp"}), NEW s \in Sinks PROVE outs'[s] \o << >> = OldPart(s) \o Due'
    BY <1>1, <1>2, <1>3 DEF AllWritten, SameCommand
  <2>1. Due' = << >>
    <3>1. SharesTo(0) = << >>
      <4>1. 0 \in 0..Len(Inputs) /\ copy \in Transfers
        BY InputsAre DEF CopyTypeOK
      <4> QED BY <4>1, SharesNext
    <3>2. Due' = SharesTo(nth - 1)
      BY <1>1, <1>2 DEF Due, SameCommand
    <3> QED BY <3>1, <3>2, <1>3
  <2>2. outs'[s] = OldPart(s)
    BY <1>3, <1>4 DEF OldPart
  <2> QED BY <2>1, <2>2
<1>10. AllCopied'
  BY <1>1, <1>2, <1>4 DEF AllCopied, SameCommand
<1> QED BY <1>5, <1>6, <1>7, <1>8, <1>9, <1>10

LEMMA OpenInputStep == CopyInv /\ OpenInput => CopyInv'
<1> SUFFICES ASSUME CopyInv, OpenInput PROVE CopyInv'
  OBVIOUS
<1> USE DEF CopyInv
<1>1. /\ where = "open" /\ pending = << >> /\ nth <= Len(Inputs) /\ Openable(nth)
      /\ where' = "read" /\ contents' = Inputs[nth] /\ upTo' = BeginsAt(Inputs[nth]) /\ hold' = << >>
      /\ pending' = (IF Copier({"head", "tail"}) /\ Len(copy.files) > 1 THEN <<Heading>> ELSE << >>)
      /\ counted' = (IF Copier({"head"}) THEN 0 ELSE counted)
      /\ lineBegins' = TRUE
      /\ IF Copier({"cp"})
         THEN sink' = copy.to[nth] /\ outs' = [outs EXCEPT ![sink'] = << >>]
         ELSE sink' = sink /\ outs' = outs
      /\ UNCHANGED <<copy, nth, readFailed, cutShort>>
  BY DEF OpenInput
<1>2. SameCommand
  BY <1>1, Commands
<1>3. copy \in Transfers /\ nth \in 1..Len(Inputs) /\ AFile(nth) /\ nth - 1 \in 0..Len(Inputs) /\ nth \in Nat
  BY <1>1, InputsAre DEF CopyTypeOK, AFile
<1> DEFINE s0 == Inputs[nth]
<1>4. s0 \in Seq(Octet) /\ Len(s0) \in Nat /\ BeginsAt(s0) \in 0..Len(s0)
      /\ (~Copier({"tail"}) => BeginsAt(s0) = 0)
  BY <1>3, AFileIs
<1> HIDE DEF s0
<1>5. /\ outs' \in Seq(Seq(Mark) \cup {NotThere}) /\ Len(outs') = Len(copy.old)
      /\ \A s \in Sinks : outs'[s] \in Seq(Mark)
      /\ sink' \in 1..Len(copy.old)
      /\ Copier({"cp"}) => \A s \in Sinks : outs'[s] = IF s = sink' THEN << >> ELSE outs[s]
  <2>1. CASE Copier({"cp"})
    <3>0. copy.to[nth] \in 1..Len(copy.old)
      BY <2>1, <1>3, CommandIs
    <3>1. sink' \in 1..Len(copy.old) /\ sink' \in Sinks
      BY <3>0, <2>1, <1>1 DEF Openable
    <3>2. sink' \in 1..Len(outs) /\ << >> \in Seq(Mark) \cup {NotThere}
      BY <3>1, EmptySeq DEF CopyTypeOK
    <3>3. outs' = [outs EXCEPT ![sink'] = << >>]
      BY <2>1, <1>1
    <3>4. /\ outs' \in Seq(Seq(Mark) \cup {NotThere}) /\ Len(outs') = Len(outs)
          /\ \A j \in 1..Len(outs) : outs'[j] = IF j = sink' THEN << >> ELSE outs[j]
      BY <3>2, <3>3, ExceptSeq DEF CopyTypeOK
    <3>5. \A s \in Sinks : s \in 1..Len(outs) /\ outs[s] \in Seq(Mark)
      BY DEF CopyTypeOK, Sinks
    <3>6. \A s \in Sinks : outs'[s] \in Seq(Mark)
      BY <3>4, <3>5, EmptySeq
    <3>7. Len(outs) = Len(copy.old)
      BY DEF CopyTypeOK
    <3> QED BY <3>1, <3>4, <3>5, <3>6, <3>7
  <2>2. CASE ~Copier({"cp"})
    BY <2>2, <1>1 DEF CopyTypeOK
  <2> QED BY <2>1, <2>2
<1>6. pending' \in Seq(Mark) /\ counted' \in Nat /\ Len(<< >>) = 0 /\ HoldSize \in Nat /\ << >> \in Seq(Octet)
  <2>1. << >> \in Seq(Octet) /\ Len(<< >>) = 0
    BY EmptySeq
  <2> QED BY <1>1, <2>1, Marked, LengthsAssumption DEF CopyTypeOK
<1>7. CopyTypeOK'
  <2>1. where' \in {"start", "open", "read", "close", "done"} /\ lineBegins' \in BOOLEAN
        /\ contents' \in Seq(Octet) /\ upTo' \in 0..Len(contents') /\ hold' \in Seq(Octet) /\ Len(hold') <= HoldSize
    BY <1>1, <1>4, <1>6 DEF s0
  <2> QED BY <1>1, <1>2, <1>5, <1>6, <2>1 DEF CopyTypeOK, SameCommand
<1>8. FileInHand'
  <2>1. AFile(nth)' /\ contents' = Inputs'[nth'] /\ BeginsAt(contents)' <= upTo'
    BY <1>1, <1>2, <1>3, <1>4 DEF SameCommand, s0
  <2>2. Copier({"tail"}) => hold' = SubSeq(contents', BeginsAt(contents)' + 1, upTo')
    <3>1. BeginsAt(contents)' = upTo'
      BY <1>1, <1>2 DEF SameCommand
    <3>2. upTo' \in Int /\ upTo' + 1 \in Int /\ upTo' < upTo' + 1
      BY <1>1, <1>4 DEF s0
    <3>3. SubSeq(contents', upTo' + 1, upTo') = << >>
      BY <3>2, SubSeqEmpty
    <3> QED BY <3>1, <3>3, <1>1
  <2>3. Copier({"head"}) => counted' = Lesser(copy.n, Lines(contents', 0, upTo'))
    <3> SUFFICES ASSUME Copier({"head"}) PROVE counted' = Lesser(copy.n, Lines(contents', 0, upTo'))
      OBVIOUS
    <3>1. upTo' = 0 /\ counted' = 0 /\ contents' = s0
      BY <1>1, <1>4 DEF Copier, s0
    <3>2. Lines(s0, 0, 0) = 0
      <4>1. 0 \in Nat /\ 0 <= Len(s0)
        BY <1>4
      <4> QED BY <4>1, <1>4, CountNext
    <3>3. copy.n \in Nat
      BY <1>3, CommandIs
    <3> QED BY <3>1, <3>2, <3>3 DEF Lesser
  <2>4. Copier({"cp"}) => sink' = copy.to[nth]
    BY <1>1
  <2> QED BY <1>1, <1>2, <2>1, <2>2, <2>3, <2>4 DEF FileInHand, SameCommand
<1>9. SinksInTurn'
  BY <1>1, <1>2 DEF SinksInTurn, SameCommand, Copier
<1>10. LinesCounted'
  <2> SUFFICES ASSUME Copier({"cat_n"})
               PROVE  /\ lineBegins' = BeginsALine(contents', upTo' + 1) /\ LinesIn(contents', upTo') <= counted'
                      /\ ~readFailed' => counted' = LinesOfFiles[nth - 1] + LinesIn(contents', upTo')
    BY <1>1, <1>2 DEF LinesCounted, SameCommand
  <2>1. upTo' = 0 /\ counted' = counted
    BY <1>1, <1>4 DEF s0, Copier
  <2>2. LinesIn(contents', upTo') = 0
    <3>1. \A t : LinesIn(t, 0) = 0
      <4>1. 0 \in Nat
        OBVIOUS
      <4> QED BY <4>1, LinesNext
    <3> QED BY <3>1, <2>1
  <2>3. ~readFailed => counted = LinesOfFiles[nth - 1]
    BY <1>1 DEF LinesCounted
  <2>4. counted \in Nat
    BY DEF CopyTypeOK
  <2>5. BeginsALine(contents', upTo' + 1)
    <3>1. \A t : BeginsALine(t, 0 + 1)
      BY DEF BeginsALine
    <3> QED BY <2>1, <3>1, Zenon
  <2>6. \A k : k \in Nat => 0 <= k /\ k = k + 0
    OBVIOUS
  <2>7. LinesOfFiles[nth - 1] \in Nat
    BY <1>3, FilesLines
  <2>8. ~readFailed' => counted' = LinesOfFiles[nth - 1] + LinesIn(contents', upTo')
    BY <1>1, <2>1, <2>2, <2>3, <2>6, <2>7
  <2>9. LinesIn(contents', upTo') <= counted'
    BY <2>1, <2>2, <2>4, <2>6
  <2> QED BY <1>1, <2>5, <2>8, <2>9
<1>11. AllWritten'
  <2>1. CASE Copier({"cp"})
    BY <2>1, <1>2 DEF AllWritten, SameCommand
  <2>2. CASE ~Copier({"cp"})
    <3>1. Due' = Due \o pending'
      <4>1. Due' = (SharesTo(nth - 1) \o TitleOf(nth)) \o ShownTo(nth, upTo')
        BY <1>1, <1>2 DEF Due, SameCommand
      <4>2. ShownTo(nth, upTo') = << >>
        BY <1>1, <1>3, ShownFirst
      <4>3. TitleOf(nth) = pending'
        BY <1>1 DEF TitleOf
      <4>4. SharesTo(nth - 1) \in Seq(Mark)
        BY <1>3, <2>2, SharesNext
      <4>5. SharesTo(nth - 1) \o pending' \in Seq(Mark)
        BY <4>4, <1>6, ConcatProperties
      <4>6. (SharesTo(nth - 1) \o pending') \o << >> = SharesTo(nth - 1) \o pending'
        BY <4>5, ConcatEmptySeq
      <4>7. Due = SharesTo(nth - 1)
        BY <1>1 DEF Due
      <4> QED BY <4>1, <4>2, <4>3, <4>6, <4>7
    <3>2. outs' = outs /\ sink' = sink /\ cutShort' = cutShort /\ readFailed' = readFailed /\ where # "start"
      BY <1>1, <2>2
    <3> QED BY <3>1, <3>2, <1>1, <1>2, <1>6, MoreIsDue
  <2> QED BY <2>1, <2>2
<1>12. AllCopied'
  <2> SUFFICES ASSUME Copier({"cp"}), ~readFailed, NEW s \in Sinks, s \notin cutShort
               PROVE  IF s = sink' THEN outs'[s] \o pending' = SubSeq(contents', 1, upTo')
                                   ELSE outs'[s] = CopyIn(s, nth - 1)
    BY <1>1, <1>2 DEF AllCopied, SameCommand
  <2>1. outs[s] = CopyIn(s, nth - 1)
    BY <1>1 DEF AllCopied
  <2>2. pending' = << >> /\ upTo' = 0
    BY <1>1, <1>4 DEF Copier, s0
  <2>3. SubSeq(contents', 1, 0) = << >>
    BY SubSeqEmpty
  <2>4. << >> \o << >> = << >>
    BY Marked, ConcatEmptySeq
  <2> QED BY <2>1, <2>2, <2>3, <2>4, <1>5
<1> QED BY <1>7, <1>8, <1>9, <1>10, <1>11, <1>12

LEMMA CannotOpenStep == CopyInv /\ CannotOpen => CopyInv'
<1> SUFFICES ASSUME CopyInv, CannotOpen PROVE CopyInv'
  OBVIOUS
<1> USE DEF CopyInv
<1>1. /\ where = "open" /\ pending = << >> /\ nth <= Len(Inputs) /\ ~Openable(nth)
      /\ nth' = nth + 1
      /\ UNCHANGED <<copy, where, contents, upTo, hold, readFailed, pending, sink, outs, cutShort, counted, lineBegins>>
  BY DEF CannotOpen, outVars
<1>2. SameCommand
  BY <1>1, Commands
<1>3. copy \in Transfers /\ nth \in 1..Len(Inputs) /\ nth \in 0..Len(Inputs) /\ nth # 0 /\ nth + 1 \in 1..(Len(Inputs) + 1)
      /\ (nth + 1) - 1 = nth /\ nth - 1 \in Nat /\ (nth - 1) + 1 = nth
  BY <1>1, InputsAre DEF CopyTypeOK
<1>4. CopyTypeOK'
  BY <1>1, <1>2, <1>3 DEF CopyTypeOK, SameCommand
<1>5. FileInHand'
  BY <1>1 DEF FileInHand
<1>6. SinksInTurn'
  BY <1>1, <1>2 DEF SinksInTurn, SameCommand
<1>6a. ASSUME Copier({"cat_n"}), counted = LinesOfFiles[nth - 1] PROVE counted = LinesOfFiles[nth]
  <2>2. Inputs[nth] = NotThere
    BY <1>1, <1>6a DEF Openable, Copier
  <2>3. \A i \in 1..Len(Inputs) : LinesOfFiles[i] = LinesOfFiles[i - 1] +
           (IF Inputs[i] # NotThere THEN LinesIn(Inputs[i], Len(Inputs[i])) ELSE 0)
    BY <1>3, FilesLines, Zenon
  <2>4. LinesOfFiles[nth] = LinesOfFiles[nth - 1] + 0
    <3>1. nth \in 1..Len(Inputs)
      BY <1>3
    <3> QED BY <2>2, <2>3, <3>1, Zenon
  <2>5. LinesOfFiles[nth - 1] \in Nat
    BY <1>6a DEF CopyTypeOK
  <2> QED BY <1>6a, <2>4, <2>5
<1>7. LinesCounted'
  <2>1. Copier({"cat_n"}) /\ ~readFailed => counted = LinesOfFiles[nth - 1]
    BY <1>1 DEF LinesCounted
  <2>2. Copier({"cat_n"}) /\ ~readFailed => counted = LinesOfFiles[nth]
    BY <2>1, <1>6a
  <2> QED BY <1>1, <1>2, <1>3, <2>2 DEF LinesCounted, SameCommand
<1>8. AllWritten'
  <2>1. CASE Copier({"cp"})
    BY <2>1, <1>2 DEF AllWritten, SameCommand
  <2>2. CASE ~Copier({"cp"})
    <3>1. Due' = Due \o pending'
      <4>1. Due' = SharesTo(nth) /\ Due = SharesTo(nth - 1)
        BY <1>1, <1>2, <1>3 DEF Due, SameCommand
      <4>2. SharesTo(nth) = SharesTo(nth - 1) \o Share(nth)
        BY <2>2, <1>3, SharesNext
      <4>3. Share(nth) = << >>
        BY <1>1 DEF Share
      <4> QED BY <4>1, <4>2, <4>3, <1>1
    <3>2. pending' \in Seq(Mark)
      BY <1>1, Marked
    <3>3. outs' = outs /\ sink' = sink /\ cutShort' = cutShort /\ readFailed' = readFailed /\ where # "start"
      BY <1>1
    <3> QED BY <3>1, <3>2, <3>3, <1>1, <1>2, MoreIsDue
  <2> QED BY <2>1, <2>2
<1>9. AllCopied'
  <2> SUFFICES ASSUME Copier({"cp"}), ~readFailed, NEW s \in Sinks, s \notin cutShort
               PROVE  outs[s] = CopyIn(s, nth)
    BY <1>1, <1>2, <1>3 DEF AllCopied, SameCommand
  <2>1. outs[s] = CopyIn(s, nth - 1)
    BY <1>1 DEF AllCopied
  <2>2. CopyIn(s, (nth - 1) + 1) = CopyIn(s, nth - 1)
    <3>1. ~Openable((nth - 1) + 1)
      BY <1>1, <1>3
    <3> QED BY <3>1, <1>3, CopyNextFile
  <2> QED BY <2>1, <2>2, <1>3
<1> QED BY <1>4, <1>5, <1>6, <1>7, <1>8, <1>9

-------------------------------------------------------------------------------
(* What is made of a piece, when reading has come to m. *)
PieceGives(m) ==
  /\ pending' \in Seq(Mark) /\ hold' \in Seq(Octet) /\ Len(hold') <= HoldSize
  /\ counted' \in Nat /\ lineBegins' \in BOOLEAN
  /\ Copier({"tail"}) => hold' = SubSeq(contents, BeginsAt(contents) + 1, m)
  /\ Copier({"head"}) => counted' = Lesser(copy.n, Lines(contents, 0, m))
  /\ Copier({"cat_n"}) =>
       /\ lineBegins' = BeginsALine(contents, m + 1) /\ LinesIn(contents, m) <= counted'
       /\ counted = LinesOfFiles[nth - 1] + LinesIn(contents, upTo) =>
            counted' = LinesOfFiles[nth - 1] + LinesIn(contents, m)
  /\ Copier({"cp"}) => pending' = SubSeq(contents, upTo + 1, m)
  /\ ~Copier({"cp"}) /\ (Copier({"cat_n"}) => counted = LinesOfFiles[nth - 1] + LinesIn(contents, upTo)) =>
       ShownTo(nth, m) = ShownTo(nth, upTo) \o pending'

LEMMA PieceMade ==
  ASSUME CopyTypeOK, FileInHand, LinesCounted, where = "read", pending = << >>, WantsMore,
         NEW k \in 1..Lesser(RoomLeft, Len(contents) - upTo),
         Process(SubSeq(contents, upTo + 1, upTo + k))
  PROVE  upTo + k \in upTo..Len(contents) /\ PieceGives(upTo + k)
<1> DEFINE s == contents
           a == upTo
           b == upTo + k
           piece == SubSeq(s, a + 1, b)
<1>0. copy \in Transfers /\ AFile(nth) /\ s = Inputs[nth] /\ nth - 1 \in 0..Len(Inputs)
  BY InputsAre DEF FileInHand, CopyTypeOK, AFile
<1>1. s \in Seq(Octet) /\ Len(s) \in Nat /\ a \in Nat /\ a <= Len(s)
      /\ hold \in Seq(Octet) /\ Len(hold) \in Nat /\ Len(hold) <= HoldSize /\ HoldSize \in Nat
      /\ counted \in Nat /\ lineBegins \in BOOLEAN
  BY LenProperties, LengthsAssumption DEF CopyTypeOK
<1>2. RoomLeft \in Int /\ PieceLength \in Nat
  BY <1>1, LengthsAssumption DEF RoomLeft
<1>3. k \in Nat /\ k # 0 /\ b \in Nat /\ a <= b /\ b <= Len(s) /\ b - a = k /\ k <= RoomLeft /\ 0 \in Nat /\ 0 <= a /\ 0 <= b
  BY <1>1, <1>2 DEF Lesser
<1>4. copy.n \in Nat /\ copy.tool \in {"cat", "cat_n", "head", "tail", "tee", "cp"}
  BY <1>0, CommandIs
<1> HIDE DEF s, a, b
<1>5. piece \in Seq(Octet) /\ Len(piece) = k /\ piece \in Seq(Mark)
  <2>1. piece \in Seq(Octet) /\ Len(piece) = b - a
    BY <1>1, <1>3, PartOf
  <2> QED BY <2>1, <1>3, Marked
<1>6. SubSeq(s, 1, b) = SubSeq(s, 1, a) \o piece
  <2>1. 0 + 1 = 1
    OBVIOUS
  <2>2. SubSeq(s, 0 + 1, a) \o SubSeq(s, a + 1, b) = SubSeq(s, 0 + 1, b)
    BY <1>1, <1>3, Joined
  <2> QED BY <2>1, <2>2
<1> HIDE DEF piece
<1>7. \A i : i \in 0..Len(s) => ShownTo(nth, i) \in Seq(Mark)
  BY <1>0, ShownToIs
<1>8. a \in 0..Len(s) /\ b \in 0..Len(s)
  BY <1>1, <1>3
<1>9. Process(piece)
  BY DEF piece, s, a, b
<1>10. CASE Copier({"cat_n"})
  <2> DEFINE q == counted - LinesIn(s, a)
             q0 == LinesOfFiles[nth - 1]
             r == Numbered(piece, counted + 1, lineBegins)
  <2>1. LinesIn(s, a) \in Nat /\ LinesIn(s, a) <= counted /\ LinesIn(s, b) \in Nat /\ q0 \in Nat
        /\ lineBegins = BeginsALine(s, a + 1)
    BY <1>0, <1>1, <1>3, <1>10, LinesNext, FilesLines DEF LinesCounted, s, a
  <2>2. q \in Nat /\ q + LinesIn(s, a) + 1 = counted + 1
    BY <2>1, <1>1
  <2> HIDE DEF q, q0, r
  <2>3. /\ r.made \in Seq(Mark) /\ r.num = q + LinesIn(s, b) + 1 /\ r.begins = BeginsALine(s, b + 1)
        /\ FlattenTo(Marks(s, q), b) = FlattenTo(Marks(s, q), a) \o r.made
    <3>1. NumberedAs(s, q, a, b, Numbered(SubSeq(s, a + 1, b), q + LinesIn(s, a) + 1, BeginsALine(s, a + 1)))
      BY <1>1, <1>3, <2>2, NumberedPiece
    <3>2. Numbered(SubSeq(s, a + 1, b), q + LinesIn(s, a) + 1, BeginsALine(s, a + 1)) = r
      BY <2>1, <2>2 DEF r, piece
    <3> QED BY <3>1, <3>2 DEF NumberedAs
  <2>4. pending' = r.made /\ counted' = r.num - 1 /\ lineBegins' = r.begins /\ hold' = hold
    BY <1>9, <1>10 DEF Process, Copier, NumberPiece, r
  <2>5. counted' = q + LinesIn(s, b) /\ counted' \in Nat /\ LinesIn(s, b) <= counted'
    <3>1. \A n \in Nat, l \in Nat : (n + l + 1) - 1 = n + l /\ n + l \in Nat /\ l <= n + l
      OBVIOUS
    <3> QED BY <3>1, <2>1, <2>2, <2>3, <2>4
  <2>6. ASSUME counted = q0 + LinesIn(s, a)
        PROVE  counted' = q0 + LinesIn(s, b) /\ ShownTo(nth, b) = ShownTo(nth, a) \o pending'
    <3>1. q = q0
      <4>1. \A n \in Nat, l \in Nat : (n + l) - l = n
        OBVIOUS
      <4> QED BY <4>1, <2>1, <2>6 DEF q
    <3>2. \A i : ShownTo(nth, i) = FlattenTo(Marks(s, q0), i)
      BY <1>0, <1>10 DEF ShownTo, Copier, q0
    <3> QED BY <3>1, <3>2, <2>3, <2>4, <2>5
  <2>7. lineBegins' \in BOOLEAN
    BY <2>3, <2>4 DEF BeginsALine
  <2>8. PieceGives(b)
    BY <1>1, <1>10, <2>3, <2>4, <2>5, <2>6, <2>7 DEF PieceGives, Copier, s, a, q0
  <2> QED BY <2>8, <1>3 DEF s, a, b
<1>11. CASE Copier({"head"})
  <2> DEFINE n == copy.n
             e == TopEnd(s, b, n)
  <2>1. Lines(s, 0, a) \in Nat /\ counted < n /\ counted = Lesser(n, Lines(s, 0, a))
    <3>1. Lines(s, 0, a) \in Nat
      BY <1>1, <1>3, CountNext
    <3> QED BY <3>1, <1>11 DEF WantsMore, FileInHand, s, a
  <2>2. counted = Lines(s, 0, a) /\ Lines(s, 0, a) < n
    BY <2>1, <1>4 DEF Lesser
  <2> HIDE DEF n, e
  <2>3. /\ TopEnd(s, a, n) = a /\ e \in a..b
        /\ FirstLines(piece, n - Lines(s, 0, a)) = SubSeq(s, a + 1, e)
        /\ Lines(s, 0, a) + Lines(s, a, e) = Lesser(n, Lines(s, 0, b))
    <3>1. s \in Seq(Octet) /\ a \in Nat /\ b \in Nat /\ a <= b /\ b <= Len(s) /\ n \in Nat /\ Lines(s, 0, a) < n
      BY <1>1, <1>3, <1>4, <2>2 DEF n
    <3>2. LET x == TopEnd(s, b, n) IN
           /\ TopEnd(s, a, n) = a /\ x \in a..b
           /\ FirstLines(SubSeq(s, a + 1, b), n - Lines(s, 0, a)) = SubSeq(s, a + 1, x)
           /\ Lines(s, 0, a) + Lines(s, a, x) = Lesser(n, Lines(s, 0, b))
      BY <3>1, HeadOfPiece, Zenon
    <3> QED BY <3>2, Zenon DEF e, piece
  <2>4. pending' = SubSeq(s, a + 1, e) /\ counted' = counted + NewlinesIn(pending')
        /\ lineBegins' = lineBegins /\ hold' = hold
    BY <1>9, <1>11, <2>2, <2>3 DEF Process, Copier, HeadPiece, n
  <2>5. NewlinesIn(pending') = Lines(s, a, e)
    BY <2>4 DEF Lines
  <2>6. counted' = Lesser(n, Lines(s, 0, b)) /\ counted' \in Nat
    <3>1. Lines(s, 0, b) \in Nat
      BY <1>1, <1>3, CountNext
    <3> QED BY <3>1, <2>2, <2>3, <2>4, <2>5, <1>4 DEF Lesser, n
  <2>7. e \in Nat /\ a <= e /\ e <= Len(s) /\ 0 + 1 = 1
    BY <1>1, <1>3, <2>3
  <2>8. pending' \in Seq(Octet) /\ pending' \in Seq(Mark)
    BY <1>1, <2>4, <2>7, PartOf, Marked
  <2>9. ShownTo(nth, b) = ShownTo(nth, a) \o pending'
    <3>1. SubSeq(s, 0 + 1, a) \o SubSeq(s, a + 1, e) = SubSeq(s, 0 + 1, e)
      BY <1>1, <1>3, <2>7, Joined
    <3>2. \A i : ShownTo(nth, i) = SubSeq(s, 1, TopEnd(s, i, n))
      BY <1>0, <1>11 DEF ShownTo, Copier, n
    <3> QED BY <3>1, <3>2, <2>3, <2>4, <2>7 DEF e
  <2>10. PieceGives(b)
    BY <1>1, <1>11, <2>4, <2>6, <2>8, <2>9 DEF PieceGives, Copier, s, a, n
  <2> QED BY <2>10, <1>3 DEF s, a, b
<1>12. CASE Copier({"tail"})
  <2> DEFINE g == BeginsAt(s)
  <2>1. hold = SubSeq(s, g + 1, a) /\ g <= a
    BY <1>12 DEF FileInHand, s, a
  <2>2. g \in Nat
    BY <1>0, AFileIs
  <2> HIDE DEF g
  <2>3. hold' = hold \o piece /\ pending' = pending /\ counted' = counted /\ lineBegins' = lineBegins
    BY <1>9, <1>12 DEF Process, Copier, HoldPiece
  <2>4. hold' = SubSeq(s, g + 1, b)
    BY <2>1, <2>2, <2>3, <1>1, <1>3, Joined, SMTT(30) DEF piece
  <2>5. hold' \in Seq(Octet) /\ Len(hold') = Len(hold) + k
    BY <2>3, <1>1, <1>5, ConcatProperties
  <2>6. Len(hold') <= HoldSize
    <3>1. k <= HoldSize - Len(hold)
      BY <1>3, <1>12 DEF RoomLeft
    <3> QED BY <3>1, <2>5, <1>1, <1>3
  <2>7. \A i : ShownTo(nth, i) = << >>
    BY <1>12 DEF ShownTo, Copier
  <2>8. << >> \o << >> = << >> /\ << >> \in Seq(Mark)
    BY Marked, ConcatEmptySeq
  <2>9. ShownTo(nth, b) = ShownTo(nth, a) \o pending'
    BY <2>3, <2>7, <2>8
  <2>10. PieceGives(b)
    BY <1>1, <1>12, <2>3, <2>4, <2>5, <2>6, <2>8, <2>9 DEF PieceGives, Copier, s, a, g
  <2> QED BY <2>10, <1>3 DEF s, a, b
<1>13. CASE Copier({"cat", "tee", "cp"})
  <2>1. pending' = piece /\ counted' = counted /\ lineBegins' = lineBegins /\ hold' = hold
    BY <1>9, <1>13 DEF Process, Copier
  <2>2. ASSUME ~Copier({"cp"}) PROVE ShownTo(nth, b) = ShownTo(nth, a) \o pending'
    <3>1. \A i : ShownTo(nth, i) = SubSeq(s, 1, i)
      BY <1>0, <1>13, <2>2 DEF ShownTo, Copier
    <3> QED BY <3>1, <2>1, <1>6
  <2>3. PieceGives(b)
    BY <1>1, <1>5, <1>13, <2>1, <2>2 DEF PieceGives, Copier, s, a, b, piece
  <2> QED BY <2>3, <1>3 DEF s, a, b
<1> QED BY <1>4, <1>10, <1>11, <1>12, <1>13 DEF Copier

(* What is shown grows by what is pending. *)
LEMMA ShownGrows ==
  ASSUME CopyTypeOK, FileInHand, SameCommand, ~Copier({"cp"}), where = "read", where' = "read", nth' = nth,
         pending' \in Seq(Mark), ShownTo(nth, upTo') = ShownTo(nth, upTo) \o pending'
  PROVE  Due' = Due \o pending'
<1>1. copy \in Transfers /\ nth - 1 \in 0..Len(Inputs) /\ nth \in 1..Len(Inputs) /\ AFile(nth)
      /\ upTo \in 0..Len(Inputs[nth])
  BY InputsAre DEF CopyTypeOK, FileInHand, AFile
<1>2. SharesTo(nth - 1) \in Seq(Mark) /\ TitleOf(nth) \in Seq(Mark)
  BY <1>1, SharesNext, ShareTyped
<1> DEFINE A == SharesTo(nth - 1) \o TitleOf(nth)
           B == ShownTo(nth, upTo)
<1>3. A \in Seq(Mark) /\ B \in Seq(Mark)
  BY <1>1, <1>2, ConcatProperties, ShownToIs
<1>4. Due = A \o B /\ Due' = A \o (B \o pending')
  BY DEF Due, SameCommand
<1> HIDE DEF A, B
<1>5. (A \o B) \o pending' = A \o (B \o pending')
  BY <1>3, ConcatAssociative
<1> QED BY <1>4, <1>5

LEMMA ReadPieceStep == CopyInv /\ ReadPiece => CopyInv'
<1> SUFFICES ASSUME CopyInv, ReadPiece PROVE CopyInv'
  OBVIOUS
<1> USE DEF CopyInv
<1>1. /\ where = "read" /\ pending = << >> /\ WantsMore
      /\ UNCHANGED <<copy, where, nth, contents, readFailed, sink, outs, cutShort>>
  BY DEF ReadPiece, outVars
<1>2. PICK k \in 1..Lesser(RoomLeft, Len(contents) - upTo) :
         Process(SubSeq(contents, upTo + 1, upTo + k)) /\ upTo' = upTo + k
  BY DEF ReadPiece
<1>3. upTo' \in upTo..Len(contents) /\ PieceGives(upTo')
  BY <1>1, <1>2, PieceMade
<1>4. SameCommand
  BY <1>1, Commands
<1>5. upTo \in Nat /\ Len(contents) \in Nat /\ BeginsAt(contents) <= upTo /\ BeginsAt(contents) \in Nat
      /\ AFile(nth) /\ contents = Inputs[nth]
  <2>1. AFile(nth) /\ contents = Inputs[nth] /\ BeginsAt(contents) <= upTo /\ copy \in Transfers
    BY <1>1 DEF FileInHand, CopyTypeOK
  <2>2. Len(contents) \in Nat /\ BeginsAt(contents) \in 0..Len(contents)
    BY <2>1, AFileIs
  <2> QED BY <2>1, <2>2 DEF CopyTypeOK
<1>6. CopyTypeOK'
  <2>1. upTo' \in 0..Len(contents')
    BY <1>1, <1>3, <1>5
  <2> QED BY <1>1, <1>3, <1>4, <2>1 DEF CopyTypeOK, SameCommand, PieceGives
<1>7. FileInHand'
  <2>1. BeginsAt(contents') <= upTo'
    BY <1>1, <1>3, <1>5
  <2> QED BY <1>1, <1>3, <1>4, <2>1 DEF FileInHand, SameCommand, PieceGives
<1>8. SinksInTurn'
  BY <1>1, <1>4 DEF SinksInTurn, SameCommand
<1>9. LinesCounted'
  <2>1. Copier({"cat_n"}) =>
          /\ lineBegins' = BeginsALine(contents, upTo' + 1) /\ LinesIn(contents, upTo') <= counted'
          /\ counted = LinesOfFiles[nth - 1] + LinesIn(contents, upTo) =>
               counted' = LinesOfFiles[nth - 1] + LinesIn(contents, upTo')
    BY <1>3 DEF PieceGives
  <2>2. Copier({"cat_n"}) /\ ~readFailed => counted = LinesOfFiles[nth - 1] + LinesIn(contents, upTo)
    BY <1>1 DEF LinesCounted
  <2> QED BY <1>1, <1>4, <2>1, <2>2 DEF LinesCounted, SameCommand
<1>10. AllWritten'
  <2>1. Copier({"cat_n"}) /\ ~readFailed => counted = LinesOfFiles[nth - 1] + LinesIn(contents, upTo)
    BY <1>1 DEF LinesCounted
  <2>2. ASSUME ~Copier({"cp"}), ShownTo(nth, upTo') = ShownTo(nth, upTo) \o pending'
        PROVE  Due' = Due \o pending'
    BY <1>1, <1>3, <1>4, <2>2, ShownGrows DEF PieceGives
  <2>3. ~Copier({"cp"}) /\ ~readFailed' => ~readFailed /\ Due' = Due \o pending'
    BY <1>1, <1>3, <2>1, <2>2 DEF PieceGives
  <2>4. outs' = outs /\ sink' = sink /\ cutShort' = cutShort /\ pending' \in Seq(Mark) /\ where # "start"
    BY <1>1, <1>3 DEF PieceGives
  <2> QED BY <1>1, <1>4, <2>3, <2>4, MoreIsDue
<1>11. AllCopied'
  <2>1. ASSUME Copier({"cp"}), NEW s \in Sinks, outs[s] \o << >> = SubSeq(contents, 1, upTo)
        PROVE  outs[s] \o pending' = SubSeq(contents, 1, upTo')
    <3>1. pending' = SubSeq(contents, upTo + 1, upTo')
      BY <1>3, <2>1 DEF PieceGives
    <3>2. outs[s] \in Seq(Mark)
      BY DEF CopyTypeOK
    <3>3. outs[s] \o << >> = outs[s]
      BY <3>2, ConcatEmptySeq
    <3>4. outs[s] = SubSeq(contents, 1, upTo)
      BY <2>1, <3>3
    <3>5. contents \in Seq(Octet) /\ 0 + 1 = 1 /\ 0 \in Nat /\ 0 <= upTo /\ upTo <= upTo' /\ upTo' <= Len(contents)
          /\ upTo' \in Nat
      BY <1>3, <1>5 DEF CopyTypeOK
    <3>6. SubSeq(contents, 0 + 1, upTo) \o SubSeq(contents, upTo + 1, upTo') = SubSeq(contents, 0 + 1, upTo')
      <4>1. \A c \in Nat : upTo <= c /\ c <= Len(contents) =>
              SubSeq(contents, 0 + 1, upTo) \o SubSeq(contents, upTo + 1, c) = SubSeq(contents, 0 + 1, c)
        BY <3>5, <1>5, Joined
      <4> QED BY <3>5, <4>1
    <3> QED BY <3>1, <3>4, <3>5, <3>6
  <2> SUFFICES ASSUME Copier({"cp"}), ~readFailed, NEW s \in Sinks, s \notin cutShort
               PROVE  IF s = sink THEN outs[s] \o pending' = SubSeq(contents, 1, upTo')
                                  ELSE outs[s] = CopyIn(s, nth - 1)
    BY <1>1, <1>4 DEF AllCopied, SameCommand
  <2>2. IF s = sink THEN outs[s] \o << >> = SubSeq(contents, 1, upTo) ELSE outs[s] = CopyIn(s, nth - 1)
    BY <1>1 DEF AllCopied
  <2> QED BY <2>1, <2>2
<1> QED BY <1>6, <1>7, <1>8, <1>9, <1>10, <1>11

LEMMA CloseInputStep == CopyInv /\ CloseInput => CopyInv'
<1> SUFFICES ASSUME CopyInv, CloseInput PROVE CopyInv'
  OBVIOUS
<1> USE DEF CopyInv
<1>1. /\ where = "close" /\ pending = << >> /\ nth' = nth + 1 /\ where' = "open"
      /\ pending' = (IF Copier({"head", "tail"}) /\ nth < Len(Inputs) THEN <<Eol>> ELSE << >>)
      /\ UNCHANGED <<copy, contents, upTo, hold, readFailed, sink, outs, cutShort, counted, lineBegins>>
  BY DEF CloseInput, outVars
<1>2. SameCommand
  BY <1>1, Commands
<1>3. AFile(nth) /\ contents = Inputs[nth] /\ copy \in Transfers
  BY <1>1 DEF FileInHand, CopyTypeOK
<1>4. nth \in 1..Len(Inputs) /\ nth \in 0..Len(Inputs) /\ nth # 0 /\ nth + 1 \in 1..(Len(Inputs) + 1)
      /\ (nth + 1) - 1 = nth /\ nth - 1 \in Nat /\ (nth - 1) + 1 = nth /\ nth - 1 \in 0..Len(Inputs)
  BY <1>3, InputsAre DEF AFile
<1>5. pending' = GapBehind(nth) /\ pending' \in Seq(Mark)
  BY <1>1, Marked DEF GapBehind
<1>6. CopyTypeOK'
  BY <1>1, <1>2, <1>4, <1>5 DEF CopyTypeOK, SameCommand
<1>7. FileInHand'
  BY <1>1 DEF FileInHand
<1>8. SinksInTurn'
  <2>1. Copier({"cp"}) => pending' = << >>
    BY <1>1 DEF Copier
  <2> QED BY <1>1, <1>2, <2>1 DEF SinksInTurn, SameCommand
<1>9. LinesCounted'
  BY <1>1, <1>2, <1>4 DEF LinesCounted, SameCommand
<1>10. AllWritten'
  <2>1. ASSUME ~Copier({"cp"}) PROVE Due' = Due \o pending'
    <3>1. Due' = SharesTo(nth) /\ Due = (SharesTo(nth - 1) \o TitleOf(nth)) \o Shown(nth)
      BY <1>1, <1>2, <1>4 DEF Due, SameCommand
    <3>2. SharesTo(nth) = SharesTo(nth - 1) \o Share(nth) /\ SharesTo(nth - 1) \in Seq(Mark)
      BY <2>1, <1>3, <1>4, SharesNext
    <3>3. Share(nth) = (TitleOf(nth) \o Shown(nth)) \o GapBehind(nth)
      BY <1>3 DEF Share, AFile
    <3> DEFINE A == SharesTo(nth - 1)
               B == TitleOf(nth)
               C == Shown(nth)
               D == GapBehind(nth)
    <3>4. A \in Seq(Mark) /\ B \in Seq(Mark) /\ C \in Seq(Mark) /\ D \in Seq(Mark)
      BY <2>1, <3>2, <1>3, <1>4, ShareTyped, ShownTyped
    <3>5. Due' = A \o ((B \o C) \o D) /\ Due \o pending' = ((A \o B) \o C) \o D
      BY <3>1, <3>2, <3>3, <1>5
    <3> HIDE DEF A, B, C, D
    <3>6. A \o B \in Seq(Mark) /\ B \o C \in Seq(Mark)
      BY <3>4, ConcatProperties
    <3>7. (A \o B) \o C = A \o (B \o C)
      BY <3>4, ConcatAssociative
    <3> DEFINE E == B \o C
    <3>8. E \in Seq(Mark)
      BY <3>6
    <3>9. Due' = A \o (E \o D) /\ Due \o pending' = (A \o E) \o D
      BY <3>5, <3>7
    <3> HIDE DEF E
    <3>10. (A \o E) \o D = A \o (E \o D)
      BY <3>4, <3>8, ConcatAssociative
    <3> QED BY <3>9, <3>10
  <2>2. outs' = outs /\ sink' = sink /\ cutShort' = cutShort /\ readFailed' = readFailed /\ where # "start"
    BY <1>1
  <2> QED BY <2>1, <2>2, <1>1, <1>2, <1>5, MoreIsDue
<1>11. AllCopied'
  <2>1. ASSUME Copier({"cp"}), NEW s \in Sinks, upTo = Len(contents),
               IF s = sink THEN outs[s] \o << >> = SubSeq(contents, 1, upTo) ELSE outs[s] = CopyIn(s, nth - 1)
        PROVE  outs[s] = CopyIn(s, nth)
    <3>1. CopyIn(s, (nth - 1) + 1) = IF Openable((nth - 1) + 1) /\ copy.to[(nth - 1) + 1] = s
                                      THEN Inputs[(nth - 1) + 1] ELSE CopyIn(s, nth - 1)
      BY <1>4, CopyNextFile
    <3>2. sink = copy.to[nth] /\ Openable(nth)
      BY <2>1, <1>1, <1>3 DEF FileInHand, AFile
    <3>3. CopyIn(s, nth) = IF s = sink THEN contents ELSE CopyIn(s, nth - 1)
      BY <3>1, <3>2, <1>3, <1>4
    <3>4. outs[s] \in Seq(Mark) /\ contents \in Seq(Octet)
      BY DEF CopyTypeOK
    <3>5. outs[s] \o << >> = outs[s] /\ SubSeq(contents, 1, Len(contents)) = contents
      BY <3>4, ConcatEmptySeq, SubSeqFull
    <3> QED BY <2>1, <3>3, <3>5
  <2> SUFFICES ASSUME Copier({"cp"}), ~readFailed, NEW s \in Sinks, s \notin cutShort
               PROVE  outs[s] = CopyIn(s, nth)
    BY <1>1, <1>2, <1>4 DEF AllCopied, SameCommand
  <2>2. upTo = Len(contents) /\
          (IF s = sink THEN outs[s] \o << >> = SubSeq(contents, 1, upTo) ELSE outs[s] = CopyIn(s, nth - 1))
    BY <1>1 DEF AllCopied
  <2> QED BY <2>1, <2>2
<1> QED BY <1>6, <1>7, <1>8, <1>9, <1>10, <1>11

LEMMA AllDoneStep == CopyInv /\ AllDone => CopyInv'
<1> SUFFICES ASSUME CopyInv, AllDone PROVE CopyInv'
  OBVIOUS
<1> USE DEF CopyInv
<1>1. /\ where = "open" /\ pending = << >> /\ nth > Len(Inputs) /\ where' = "done"
      /\ UNCHANGED <<copy, nth, contents, upTo, hold, readFailed, pending, sink, outs, cutShort, counted, lineBegins>>
  BY DEF AllDone, inVars, outVars
<1>2. SameCommand
  BY <1>1, Commands
<1>3. nth = Len(Inputs) + 1
  BY <1>1, InputsAre DEF CopyTypeOK
<1>4. CopyTypeOK'
  BY <1>1, <1>2 DEF CopyTypeOK, SameCommand
<1>5. FileInHand'
  BY <1>1 DEF FileInHand
<1>6. SinksInTurn'
  BY <1>1, <1>2, <1>3 DEF SinksInTurn, SameCommand
<1>7. LinesCounted'
  BY <1>1, <1>2 DEF LinesCounted, SameCommand
<1>8. AllWritten'
  <2>1. Due' = Due
    BY <1>1, <1>2 DEF Due, SameCommand
  <2> QED BY <1>1, <1>2, <2>1 DEF AllWritten, SameCommand
<1>9. AllCopied'
  BY <1>1, <1>2 DEF AllCopied, SameCommand
<1> QED BY <1>4, <1>5, <1>6, <1>7, <1>8, <1>9

(* Reading ends at the end of the file, but for head, which has had enough, *)
(* and tail, which holds as much as it can.                                *)
ReadAll == upTo = Len(contents) \/ RoomLeft = 0 \/ ~WantsMore

LEMMA ReadsToTheEnd ==
  ASSUME CopyTypeOK, ReadAll, ~Copier({"head", "tail"}) PROVE upTo = Len(contents)
<1>1. ~Copier({"head"}) /\ ~Copier({"tail"})
  BY DEF Copier
<1>2. RoomLeft # 0 /\ WantsMore
  BY <1>1, LengthsAssumption DEF RoomLeft, WantsMore
<1> QED BY <1>2 DEF ReadAll

LEMMA ShownWhole ==
  ASSUME CopyTypeOK, FileInHand, TailFits, where = "read", ReadAll, ~Copier({"cp"})
  PROVE  Shown(nth) = ShownTo(nth, upTo) \o (IF Copier({"tail"}) THEN LastLines(hold, copy.n) ELSE << >>)
<1> DEFINE s == Inputs[nth]
<1>1. copy \in Transfers /\ AFile(nth) /\ contents = s /\ BeginsAt(s) <= upTo
  BY DEF CopyTypeOK, FileInHand
<1>2. copy.n \in Nat
  BY <1>1, CommandIs
<1>3. /\ s \in Seq(Octet) /\ Len(s) \in Nat /\ BeginsAt(s) \in 0..Len(s)
      /\ (~Copier({"tail"}) => BeginsAt(s) = 0)
      /\ (BeginsAt(s) # 0 => Len(s) - BeginsAt(s) = HoldSize /\ copy.files # << >>)
      /\ (copy.files # << >> => Len(s) - BeginsAt(s) <= HoldSize \/ ~Copier({"tail"}))
  BY <1>1, AFileIs
<1>4. upTo \in 0..Len(s)
  BY <1>1 DEF CopyTypeOK
<1>5. CASE Copier({"tail"})
  <2> DEFINE g == BeginsAt(s)
  <2>1. hold = SubSeq(s, g + 1, upTo) /\ hold \in Seq(Octet) /\ Len(hold) <= HoldSize
    BY <1>1, <1>5 DEF FileInHand, CopyTypeOK
  <2>2. g \in Nat /\ g <= upTo /\ upTo \in Nat /\ upTo <= Len(s)
    BY <1>1, <1>3, <1>4
  <2>3. Len(hold) = upTo - g
    <3> HIDE DEF g, s
    <3> QED BY <1>3, <2>1, <2>2, PartOf
  <2>4. upTo = Len(s) \/ upTo - g = HoldSize
    <3>1. WantsMore
      BY <1>5 DEF WantsMore, Copier
    <3>2. RoomLeft = HoldSize - Len(hold)
      BY <1>5 DEF RoomLeft
    <3>3. HoldSize \in Nat
      BY LengthsAssumption
    <3> QED BY <1>1, <2>2, <2>3, <3>1, <3>2, <3>3 DEF ReadAll
  <2>5. BottomLines(s, copy.n) = BottomLines(hold, copy.n)
    <3>0. FitsHold(nth)
      BY <1>1, <1>5, InputsAre DEF TailFits, AFile, Openable
    <3>1. ASSUME copy.files # << >> PROVE Len(s) - g <= HoldSize /\ Len(BottomLines(s, copy.n)) <= HoldSize
      BY <1>3, <1>5, <3>0, <3>1 DEF FitsHold
    <3>2. upTo = Len(s)
      <4>1. CASE copy.files # << >>
        BY <1>3, <2>2, <2>4, <3>1, <4>1, LengthsAssumption
      <4>2. CASE ~(copy.files # << >>)
        <5>1. g = 0 /\ Len(s) <= HoldSize
          BY <1>3, <3>0, <4>2 DEF FitsHold
        <5> QED BY <1>3, <2>2, <2>4, <5>1, LengthsAssumption
      <4> QED BY <4>1, <4>2
    <3>3. CASE g = 0
      <4>1. hold = SubSeq(s, 1, Len(s))
        BY <2>1, <3>2, <3>3
      <4>2. SubSeq(s, 1, Len(s)) = s
        BY <1>3, SubSeqFull
      <4> QED BY <4>1, <4>2
    <3>4. CASE g # 0
      <4>1. Len(BottomLines(s, copy.n)) <= Len(s) - g
        BY <1>3, <3>1, <3>4
      <4>2. hold = SubSeq(s, g + 1, Len(s)) /\ g \in 0..Len(s)
        BY <1>3, <2>1, <3>2
      <4> HIDE DEF g, s
      <4>3. BottomLines(SubSeq(s, g + 1, Len(s)), copy.n) = BottomLines(s, copy.n)
        BY <1>2, <1>3, <4>1, <4>2, BottomOfEnd
      <4> QED BY <4>2, <4>3
    <3> QED BY <3>3, <3>4
  <2>6. LastLines(hold, copy.n) = BottomLines(hold, copy.n) /\ BottomLines(hold, copy.n) \in Seq(Octet)
    BY <2>1, <1>2, TailIsBottom, BottomTyped
  <2>7. Shown(nth) = LastLines(hold, copy.n) /\ Shown(nth) \in Seq(Mark)
    BY <1>5, <2>5, <2>6, Marked DEF Shown, Copier
  <2>8. ShownTo(nth, upTo) = << >>
    BY <1>5 DEF ShownTo, Copier
  <2>9. << >> \o Shown(nth) = Shown(nth)
    BY <2>7, ConcatEmptySeq
  <2> QED BY <1>5, <2>7, <2>8, <2>9
<1>6. CASE ~Copier({"tail"})
  <2>0. ~Copier({"tail", "cp"})
    BY <1>6 DEF Copier
  <2>1. ShownTo(nth, Len(s)) = Shown(nth)
    BY <2>0, <1>1, ShownAll
  <2>2. ShownTo(nth, upTo) = ShownTo(nth, Len(s))
    <3>1. CASE upTo = Len(s)
      BY <3>1
    <3>2. CASE upTo # Len(s)
      <4>1. Copier({"head"})
        BY <1>1, <1>6, <3>2, ReadsToTheEnd DEF Copier
      <4>2. ~WantsMore
        <5>1. RoomLeft # 0
          BY <1>6, LengthsAssumption DEF RoomLeft
        <5> QED BY <5>1, <3>2, <1>1 DEF ReadAll
      <4>3. ~(counted < copy.n) /\ counted = Lesser(copy.n, Lines(s, 0, upTo)) /\ counted \in Nat
        BY <4>1, <4>2, <1>1 DEF WantsMore, FileInHand, CopyTypeOK
      <4>4. 0 \in Nat /\ upTo \in Nat /\ 0 <= upTo /\ upTo <= Len(s)
        BY <1>3, <1>4
      <4>5. Lines(s, 0, upTo) \in Nat
        BY <1>3, <4>4, CountNext
      <4>6. copy.n <= Lines(s, 0, upTo)
        BY <4>3, <4>5, <1>2 DEF Lesser
      <4>7. TopEnd(s, Len(s), copy.n) = TopEnd(s, upTo, copy.n)
        BY <1>2, <1>3, <4>4, <4>6, TopEnds
      <4>8. \A i : ShownTo(nth, i) = SubSeq(s, 1, TopEnd(s, i, copy.n))
        BY <4>1 DEF ShownTo, Copier
      <4> QED BY <4>7, <4>8
    <3> QED BY <3>1, <3>2
  <2>3. Shown(nth) \in Seq(Mark)
    BY <1>1, ShownTyped
  <2>4. Shown(nth) \o << >> = Shown(nth)
    BY <2>3, ConcatEmptySeq
  <2> QED BY <1>6, <2>1, <2>2, <2>4
<1> QED BY <1>5, <1>6

LEMMA ReadEndsStep == CopyInv /\ ReadEnds => CopyInv'
<1> SUFFICES ASSUME CopyInv, ReadEnds PROVE CopyInv'
  OBVIOUS
<1> USE DEF CopyInv
<1>1. /\ where = "read" /\ pending = << >> /\ where' = "close"
      /\ pending' = (IF Copier({"tail"}) THEN LastLines(hold, copy.n) ELSE << >>)
      /\ UNCHANGED <<copy, nth, contents, upTo, hold, sink, outs, cutShort, counted, lineBegins>>
      /\ readFailed' \in BOOLEAN /\ (readFailed' # TRUE => ReadAll /\ readFailed # TRUE)
  BY DEF ReadEnds, outVars, ReadAll, CopyTypeOK
<1>2. SameCommand
  BY <1>1, Commands
<1>3. AFile(nth) /\ contents = Inputs[nth] /\ copy \in Transfers
  BY <1>1 DEF FileInHand, CopyTypeOK
<1>4. nth \in 1..Len(Inputs) /\ nth - 1 \in 0..Len(Inputs) /\ Inputs[nth] # NotThere
  BY <1>3, InputsAre DEF AFile, Openable
<1>5. pending' \in Seq(Mark)
  <2>1. hold \in Seq(Octet) /\ copy.n \in Nat
    BY <1>3, CommandIs DEF CopyTypeOK
  <2>2. LastLines(hold, copy.n) \in Seq(Octet)
    BY <2>1, TailIsBottom, BottomTyped
  <2> QED BY <1>1, <2>2, Marked
<1>6. CopyTypeOK'
  BY <1>1, <1>2, <1>5 DEF CopyTypeOK, SameCommand
<1>7. FileInHand'
  BY <1>1, <1>2 DEF FileInHand, SameCommand
<1>8. SinksInTurn'
  <2>1. Copier({"cp"}) => pending' = << >>
    BY <1>1 DEF Copier
  <2> QED BY <1>1, <1>2, <2>1 DEF SinksInTurn, SameCommand
<1>9. LinesCounted'
  <2>1. ASSUME Copier({"cat_n"}), ReadAll PROVE LinesOfFiles[nth] = LinesOfFiles[nth - 1] + LinesIn(contents, upTo)
    <3>1. upTo = Len(contents)
      <4>1. ~Copier({"head", "tail"})
        BY <2>1 DEF Copier
      <4> QED BY <4>1, <2>1, ReadsToTheEnd
    <3>2. \A i \in 1..Len(Inputs) : LinesOfFiles[i] = LinesOfFiles[i - 1] +
             (IF Inputs[i] # NotThere THEN LinesIn(Inputs[i], Len(Inputs[i])) ELSE 0)
      BY <1>3, FilesLines, Zenon
    <3> QED BY <3>1, <3>2, <1>3, <1>4, Zenon
  <2>2. Copier({"cat_n"}) /\ readFailed # TRUE => counted = LinesOfFiles[nth - 1] + LinesIn(contents, upTo)
    BY <1>1 DEF LinesCounted, CopyTypeOK
  <2>3. Copier({"cat_n"}) /\ readFailed' # TRUE => counted = LinesOfFiles[nth]
    BY <1>1, <2>1, <2>2
  <2> QED BY <1>1, <1>2, <2>3 DEF LinesCounted, SameCommand
<1>10. AllWritten'
  <2>1. ASSUME ~Copier({"cp"}), TailFits, ReadAll PROVE Due' = Due \o pending'
    <3>1. Shown(nth) = ShownTo(nth, upTo) \o pending'
      BY <1>1, <2>1, ShownWhole
    <3>2. SharesTo(nth - 1) \in Seq(Mark) /\ TitleOf(nth) \in Seq(Mark)
      BY <1>3, <1>4, <2>1, SharesNext, ShareTyped
    <3>3. upTo \in 0..Len(Inputs[nth])
      BY <1>3 DEF CopyTypeOK
    <3> DEFINE A == SharesTo(nth - 1) \o TitleOf(nth)
               B == ShownTo(nth, upTo)
    <3>4. A \in Seq(Mark) /\ B \in Seq(Mark)
      BY <1>3, <3>2, <3>3, ConcatProperties, ShownToIs
    <3>5. Due = A \o B /\ Due' = A \o (B \o pending')
      BY <1>1, <1>2, <3>1 DEF Due, SameCommand
    <3> HIDE DEF A, B
    <3>6. (A \o B) \o pending' = A \o (B \o pending')
      BY <3>4, <1>5, ConcatAssociative
    <3> QED BY <3>5, <3>6
  <2>2. ~Copier({"cp"}) /\ TailFits /\ ~readFailed' => ~readFailed /\ Due' = Due \o pending'
    BY <1>1, <2>1 DEF CopyTypeOK
  <2>3. outs' = outs /\ sink' = sink /\ cutShort' = cutShort /\ where # "start"
    BY <1>1
  <2> QED BY <2>2, <2>3, <1>1, <1>2, <1>5, MoreIsDue
<1>11. AllCopied'
  <2>1. ASSUME Copier({"cp"}), ReadAll PROVE upTo = Len(contents) /\ pending' = << >>
    <3>1. ~Copier({"head", "tail"}) /\ ~Copier({"tail"})
      BY <2>1 DEF Copier
    <3> QED BY <3>1, <1>1, <2>1, ReadsToTheEnd
  <2>2. Copier({"cp"}) /\ ~readFailed' => ~readFailed /\ upTo = Len(contents) /\ pending' = << >>
    BY <1>1, <2>1 DEF CopyTypeOK
  <2> QED BY <1>1, <1>2, <2>2 DEF AllCopied, SameCommand
<1> QED BY <1>6, <1>7, <1>8, <1>9, <1>10, <1>11

-------------------------------------------------------------------------------
LEMMA EarliestIs ==
  ASSUME NEW S \in SUBSET Nat, S # {}
  PROVE  EarliestOf(S) \in S /\ \A t \in S : EarliestOf(S) <= t
<1>1. \E s \in S : \A t \in S : s <= t
  BY Minimum
<1> QED BY <1>1, Zenon DEF EarliestOf

(* While something is pending, a tool is in its loop. *)
LEMMA WritesInTurn ==
  ASSUME CopyTypeOK, FileInHand, SinksInTurn, Unwritten
  PROVE  /\ where \in {"open", "read", "close"} /\ sink \in Sinks
         /\ Len(pending) \in Nat \ {0} /\ (Copier({"cp"}) => where = "read")
<1>1. where \in {"open", "read", "close"} /\ (Copier({"cp"}) => where = "read")
  BY DEF SinksInTurn, Unwritten, CopyTypeOK
<1>2. Len(pending) \in Nat \ {0}
  BY LenProperties, EmptySeq DEF Unwritten, CopyTypeOK
<1>3. sink \in Sinks
  <2>1. CASE Copier({"cp"})
    BY <2>1, <1>1 DEF FileInHand, AFile, Openable
  <2>2. CASE ~Copier({"cp"})
    BY <2>2 DEF SinksInTurn
  <2> QED BY <2>1, <2>2
<1> QED BY <1>1, <1>2, <1>3

LEMMA PiecesOf ==
  ASSUME NEW S, NEW p \in Seq(S), NEW k \in 0..Len(p)
  PROVE  /\ SubSeq(p, 1, k) \in Seq(S) /\ SubSeq(p, k + 1, Len(p)) \in Seq(S)
         /\ SubSeq(p, 1, k) \o SubSeq(p, k + 1, Len(p)) = p
         /\ k = Len(p) => SubSeq(p, 1, k) = p
<1>0. Len(p) \in Nat /\ 0 + 1 = 1 /\ 0 \in Nat /\ k \in Nat /\ 0 <= k /\ k <= Len(p)
  BY LenProperties
<1>1. SubSeq(p, 1, k) \in Seq(S) /\ SubSeq(p, k + 1, Len(p)) \in Seq(S)
  BY <1>0, PrefixIs, PartOf
<1>2. SubSeq(p, 1, Len(p)) = p
  BY SubSeqFull
<1>3. SubSeq(p, 0 + 1, k) \o SubSeq(p, k + 1, Len(p)) = SubSeq(p, 0 + 1, Len(p))
  <2>1. \A c \in Nat : k <= c /\ c <= Len(p) =>
          SubSeq(p, 0 + 1, k) \o SubSeq(p, k + 1, c) = SubSeq(p, 0 + 1, c)
    BY <1>0, Joined
  <2>2. Len(p) <= Len(p)
    BY <1>0
  <2> QED BY <1>0, <2>1, <2>2
<1> QED BY <1>0, <1>1, <1>2, <1>3

LEMMA WriteOnceStep == CopyInv /\ WriteOnce => CopyInv'
<1> SUFFICES ASSUME CopyInv, WriteOnce PROVE CopyInv'
  OBVIOUS
<1> USE DEF CopyInv
<1>1. /\ Unwritten /\ Copier({"cat", "tail", "tee"})
      /\ IF Later = {} THEN sink' = EarliestOf(Sinks) /\ pending' = << >>
                       ELSE sink' = EarliestOf(Later) /\ pending' = pending
      /\ UNCHANGED <<copy, where, nth, contents, upTo, hold, readFailed, counted, lineBegins>>
  BY DEF WriteOnce, inVars
<1>2. PICK k \in 0..Len(pending) :
        /\ Deliver(SubSeq(pending, 1, k))
        /\ cutShort' = IF k < Len(pending) THEN cutShort \cup {sink} ELSE cutShort
  BY DEF WriteOnce
<1>3. SameCommand /\ ~Copier({"cp"})
  BY <1>1, Commands DEF Copier
<1>4. where \in {"open", "read", "close"} /\ sink \in Sinks /\ Len(pending) \in Nat \ {0}
  BY <1>1, WritesInTurn
<1>5. /\ pending \in Seq(Mark) /\ SubSeq(pending, 1, k) \in Seq(Mark)
      /\ (k = Len(pending) => SubSeq(pending, 1, k) = pending) /\ << >> \in Seq(Mark)
  BY PiecesOf, EmptySeq DEF CopyTypeOK
<1>6. /\ outs' \in Seq(Seq(Mark) \cup {NotThere}) /\ Len(outs') = Len(outs)
      /\ \A s \in Sinks : outs'[s] \in Seq(Mark)
                          /\ outs'[s] = IF s = sink THEN outs[s] \o SubSeq(pending, 1, k) ELSE outs[s]
  BY <1>2, <1>4, <1>5, Delivered
<1>7. \A s \in Sinks : s \in 1..Len(copy.old)
  BY DEF Sinks
<1>8. Len(copy.old) \in Nat
  <2>1. copy \in Transfers
    BY DEF CopyTypeOK
  <2> QED BY <2>1, CommandIs
<1>9. /\ sink' \in Sinks
      /\ (pending' = << >> => \A s \in Sinks : sink' <= s)
      /\ (pending' = << >> \/ (pending' = pending /\ \A s \in Sinks : (s >= sink' <=> s > sink)))
      /\ (pending' = << >> => \A s \in Sinks : ~(s > sink))
  <2>1. CASE Later = {}
    <3>1. Sinks \in SUBSET Nat /\ Sinks # {}
      BY <1>4, <1>7, <1>8
    <3>2. sink' \in Sinks /\ \A s \in Sinks : sink' <= s
      BY <1>1, <2>1, <3>1, EarliestIs
    <3>3. \A s \in Sinks : ~(s > sink)
      BY <2>1 DEF Later
    <3>4. pending' = << >>
      BY <1>1, <2>1
    <3> QED BY <3>2, <3>3, <3>4, Zenon
  <2>2. CASE Later # {}
    <3>1. Later \in SUBSET Nat
      BY <1>7, <1>8 DEF Later
    <3>2. sink' \in Later /\ \A s \in Later : sink' <= s
      BY <1>1, <2>2, <3>1, EarliestIs, ZenonT(30)
    <3>3. \A s \in Sinks : (s >= sink' <=> s > sink)
      <4> SUFFICES ASSUME NEW s \in Sinks PROVE s >= sink' <=> s > sink
        OBVIOUS
      <4>1. s \in Nat /\ sink \in Nat /\ sink' \in Nat /\ sink' > sink
        BY <1>4, <1>7, <1>8, <3>2 DEF Later
      <4>2. s > sink => sink' <= s
        BY <3>2 DEF Later
      <4> QED BY <4>1, <4>2
    <3>4. sink' \in Sinks /\ pending' = pending /\ pending # << >>
      BY <1>1, <2>2, <3>2 DEF Later, Unwritten
    <3> QED BY <3>3, <3>4
  <2> QED BY <2>1, <2>2
<1>10. CopyTypeOK'
  <2>1. pending' \in Seq(Mark) /\ sink' \in 1..Len(copy.old)
    BY <1>5, <1>7, <1>9
  <2>2. cutShort' \in SUBSET (1..Len(copy.old))
    BY <1>2, <1>4, <1>7 DEF CopyTypeOK
  <2> QED BY <1>1, <1>3, <1>6, <2>1, <2>2 DEF CopyTypeOK, SameCommand
<1>11. FileInHand'
  <2>1. Copier({"cp"}) = FALSE
    BY <1>3 DEF Copier
  <2> QED BY <1>1, <1>3 DEF FileInHand, SameCommand
<1>12. SinksInTurn'
  BY <1>1, <1>3, <1>4, <1>9 DEF SinksInTurn, SameCommand
<1>13. LinesCounted'
  BY <1>1, <1>3 DEF LinesCounted, SameCommand
<1>14. AllWritten'
  <2>1. Due' = Due
    BY <1>1, <1>3 DEF Due, SameCommand
  <2>2. ASSUME NEW s \in Sinks, s = sink => k = Len(pending),
               outs[s] \o (IF s >= sink THEN pending ELSE << >>) = OldPart(s) \o Due
        PROVE  outs'[s] \o (IF s >= sink' THEN pending' ELSE << >>) = OldPart(s) \o Due
    <3>0. s \in Nat /\ sink \in Nat /\ sink' \in Nat /\ outs[s] \in Seq(Mark)
      BY <1>4, <1>7, <1>8, <1>9 DEF CopyTypeOK
    <3>1. CASE s > sink
      <4>1. pending' = pending /\ s >= sink' /\ s >= sink /\ outs'[s] = outs[s]
        BY <3>0, <3>1, <1>6, <1>9
      <4> QED BY <4>1, <2>2
    <3>2. CASE s = sink
      <4>1. outs'[s] = outs[s] \o pending /\ outs'[s] \in Seq(Mark)
        BY <3>2, <2>2, <1>5, <1>6
      <4>2. ~(s >= sink') \/ pending' = << >>
        BY <3>0, <3>2, <1>9
      <4>3. outs'[s] \o << >> = outs'[s]
        BY <4>1, ConcatEmptySeq
      <4>4. s >= sink
        BY <3>0, <3>2
      <4> QED BY <4>1, <4>2, <4>3, <4>4, <2>2
    <3>3. CASE s < sink
      <4>1. outs'[s] = outs[s] /\ ~(s >= sink)
        BY <3>0, <3>3, <1>6
      <4>2. ~(s >= sink') \/ pending' = << >>
        <5>1. ~(s > sink)
          BY <3>0, <3>3
        <5> QED BY <5>1, <1>9, Zenon
      <4> QED BY <4>1, <4>2, <2>2
    <3>4. s > sink \/ s = sink \/ s < sink
      BY <3>0
    <3> QED BY <3>1, <3>2, <3>3, <3>4, Zenon
  <2>3. ASSUME NEW s \in Sinks \ cutShort' PROVE s \in Sinks \ cutShort /\ (s = sink => k = Len(pending))
    <3>1. k \in Nat /\ k <= Len(pending)
      BY <1>4
    <3> QED BY <1>2, <1>4, <2>3, <3>1
  <2>4. TailFits /\ ~readFailed => \A s \in Sinks \ cutShort :
           outs[s] \o (IF s >= sink THEN pending ELSE << >>) = OldPart(s) \o Due
    BY <1>3, <1>4 DEF AllWritten
  <2>5. TailFits /\ ~readFailed => \A s \in Sinks \ cutShort' :
           outs'[s] \o (IF s >= sink' THEN pending' ELSE << >>) = OldPart(s) \o Due
    BY <2>2, <2>3, <2>4
  <2> QED BY <1>1, <1>3, <2>1, <2>5 DEF AllWritten, SameCommand
<1>15. AllCopied'
  BY <1>3 DEF AllCopied, SameCommand
<1> QED BY <1>10, <1>11, <1>12, <1>13, <1>14, <1>15

LEMMA WriteByteStep == CopyInv /\ WriteByte => CopyInv'
<1> SUFFICES ASSUME CopyInv, WriteByte PROVE CopyInv'
  OBVIOUS
<1> USE DEF CopyInv
<1>1. /\ Unwritten /\ Copier({"head", "cat_n"}) /\ pending' = Tail(pending)
      /\ UNCHANGED <<copy, where, nth, contents, upTo, hold, readFailed, sink, counted, lineBegins>>
  BY DEF WriteByte, inVars
<1>2. \/ Deliver(<<Head(pending)>>) /\ cutShort' = cutShort
      \/ outs' = outs /\ cutShort' = cutShort \cup {sink}
  BY DEF WriteByte
<1>3. SameCommand /\ ~Copier({"cp"}) /\ ~Copier({"cp", "tee"})
  BY <1>1, Commands DEF Copier
<1>4. where \in {"open", "read", "close"} /\ sink \in Sinks
  BY <1>1, WritesInTurn
<1>5. Sinks = {sink}
  <2>1. copy \in Transfers
    BY DEF CopyTypeOK
  <2>2. Sinks = {1}
    BY <2>1, <1>3, CommandIs
  <2> QED BY <2>2, <1>4
<1>6. pending # << >> /\ pending \in Seq(Mark) /\ sink \in 1..Len(copy.old) /\ sink <= sink
  BY <1>1 DEF Unwritten, CopyTypeOK
<1> DEFINE h == <<Head(pending)>>
           t == Tail(pending)
<1>7. h \in Seq(Mark) /\ t \in Seq(Mark) /\ h \o t = pending
  <2>1. Head(pending) \in Mark /\ Tail(pending) \in Seq(Mark)
    BY <1>6, HeadTailProperties
  <2>2. Len(pending) \in Nat /\ Len(pending) # 0
    BY <1>6, LenProperties, EmptySeq
  <2>3. 1 \in 1..Len(pending) /\ Len(pending) \in 1..Len(pending) /\ 1 + 1 = 2
    BY <2>2
  <2>4. SubSeq(pending, 1, Len(pending)) = <<pending[1]>> \o SubSeq(pending, 1 + 1, Len(pending))
    BY <2>3, <1>6, SubSeqRecursiveFirst
  <2>5. SubSeq(pending, 1, Len(pending)) = pending /\ Tail(pending) = SubSeq(pending, 2, Len(pending))
    BY <1>6, SubSeqFull, TailIsSubSeq
  <2>6. Head(pending) = pending[1]
    <3>1. Head(SubSeq(pending, 1, Len(pending))) = pending[1]
      BY <2>3, <1>6, HeadTailOfSubSeq
    <3> QED BY <3>1, <2>5
  <2> QED BY <2>1, <2>3, <2>4, <2>5, <2>6
<1>8. pending' = t
  BY <1>1
<1> HIDE DEF h, t
<1>9. /\ outs' \in Seq(Seq(Mark) \cup {NotThere}) /\ Len(outs') = Len(copy.old)
      /\ outs'[sink] \in Seq(Mark) /\ cutShort' \in SUBSET (1..Len(copy.old))
      /\ (sink \notin cutShort' => sink \notin cutShort /\ outs'[sink] = outs[sink] \o h)
  <2>1. CASE Deliver(h) /\ cutShort' = cutShort
    <3>1. /\ outs' \in Seq(Seq(Mark) \cup {NotThere}) /\ Len(outs') = Len(outs)
          /\ \A s \in Sinks : outs'[s] \in Seq(Mark) /\ outs'[s] = IF s = sink THEN outs[s] \o h ELSE outs[s]
      BY <2>1, <1>4, <1>7, Delivered
    <3> QED BY <3>1, <2>1, <1>4 DEF CopyTypeOK
  <2>2. CASE outs' = outs /\ cutShort' = cutShort \cup {sink}
    BY <2>2, <1>4, <1>6 DEF CopyTypeOK
  <2> QED BY <1>2, <2>1, <2>2 DEF h
<1>10. CopyTypeOK'
  BY <1>1, <1>3, <1>5, <1>7, <1>8, <1>9 DEF CopyTypeOK, SameCommand
<1>11. FileInHand'
  BY <1>1, <1>3 DEF FileInHand, SameCommand
<1>12. SinksInTurn'
  BY <1>1, <1>3, <1>4, <1>5, <1>6 DEF SinksInTurn, SameCommand
<1>13. LinesCounted'
  BY <1>1, <1>3 DEF LinesCounted, SameCommand
<1>14. AllWritten'
  <2>1. Due' = Due
    BY <1>1, <1>3 DEF Due, SameCommand
  <2>2. sink >= sink
    BY <1>6
  <2>3. ASSUME outs[sink] \o pending = OldPart(sink) \o Due PROVE (outs[sink] \o h) \o t = OldPart(sink) \o Due
    <3>1. outs[sink] \in Seq(Mark)
      BY <1>4 DEF CopyTypeOK
    <3> DEFINE o == outs[sink]
    <3>2. o \in Seq(Mark)
      BY <3>1
    <3> HIDE DEF o
    <3>3. (o \o h) \o t = o \o (h \o t)
      <4>1. h \in Seq(Mark) /\ t \in Seq(Mark)
        BY <1>7
      <4> QED BY <3>2, <4>1, ConcatAssociative
    <3> QED BY <3>3, <2>3, <1>7 DEF o
  <2>4. TailFits /\ ~readFailed /\ sink \notin cutShort => outs[sink] \o pending = OldPart(sink) \o Due
    BY <1>3, <1>4, <2>2 DEF AllWritten
  <2>5. TailFits /\ ~readFailed /\ sink \notin cutShort' => outs'[sink] \o pending' = OldPart(sink) \o Due
    BY <1>8, <1>9, <2>3, <2>4
  <2> QED BY <1>1, <1>3, <1>5, <2>1, <2>2, <2>5 DEF AllWritten, SameCommand
<1>15. AllCopied'
  BY <1>3 DEF AllCopied, SameCommand
<1> QED BY <1>10, <1>11, <1>12, <1>13, <1>14, <1>15

LEMMA WriteRestStep == CopyInv /\ WriteRest => CopyInv'
<1> SUFFICES ASSUME CopyInv, WriteRest PROVE CopyInv'
  OBVIOUS
<1> USE DEF CopyInv
<1>1. /\ Unwritten /\ Copier({"cp"})
      /\ UNCHANGED <<copy, where, nth, contents, upTo, hold, readFailed, sink, cutShort, counted, lineBegins>>
  BY DEF WriteRest, inVars
<1>2. PICK k \in 1..Len(pending) :
        Deliver(SubSeq(pending, 1, k)) /\ pending' = SubSeq(pending, k + 1, Len(pending))
  BY DEF WriteRest
<1>3. SameCommand
  BY <1>1, Commands
<1>4. where = "read" /\ sink \in Sinks
  BY <1>1, WritesInTurn
<1> DEFINE h == SubSeq(pending, 1, k)
           t == SubSeq(pending, k + 1, Len(pending))
<1>5. h \in Seq(Mark) /\ t \in Seq(Mark) /\ h \o t = pending
  <2>1. pending \in Seq(Mark) /\ Len(pending) \in Nat
    BY LenProperties DEF CopyTypeOK
  <2>2. k \in 0..Len(pending)
    BY <2>1
  <2> QED BY <2>1, <2>2, PiecesOf
<1>6. Deliver(h) /\ pending' = t
  BY <1>2
<1> HIDE DEF h, t
<1>7. /\ outs' \in Seq(Seq(Mark) \cup {NotThere}) /\ Len(outs') = Len(outs)
      /\ \A s \in Sinks : outs'[s] \in Seq(Mark) /\ outs'[s] = IF s = sink THEN outs[s] \o h ELSE outs[s]
  BY <1>4, <1>5, <1>6, Delivered
<1>8. CopyTypeOK'
  BY <1>1, <1>3, <1>5, <1>6, <1>7 DEF CopyTypeOK, SameCommand
<1>9. FileInHand'
  BY <1>1, <1>3 DEF FileInHand, SameCommand
<1>10. SinksInTurn'
  BY <1>1, <1>3, <1>4 DEF SinksInTurn, SameCommand
<1>11. LinesCounted'
  BY <1>1, <1>3 DEF LinesCounted, SameCommand
<1>12. AllWritten'
  BY <1>1, <1>3 DEF AllWritten, SameCommand
<1>13. AllCopied'
  <2>1. ASSUME NEW s \in Sinks PROVE s = sink => outs'[s] \o pending' = outs[s] \o pending
    <3>1. outs[s] \in Seq(Mark)
      BY DEF CopyTypeOK
    <3> DEFINE o == outs[s]
    <3>2. o \in Seq(Mark)
      BY <3>1
    <3> HIDE DEF o
    <3>3. (o \o h) \o t = o \o (h \o t)
      <4>1. h \in Seq(Mark) /\ t \in Seq(Mark)
        BY <1>5
      <4> QED BY <3>2, <4>1, ConcatAssociative
    <3> QED BY <3>3, <1>5, <1>6, <1>7 DEF o
  <2>2. \A s \in Sinks : s # sink => outs'[s] = outs[s]
    BY <1>7
  <2> QED BY <1>1, <1>3, <1>4, <2>1, <2>2 DEF AllCopied, SameCommand
<1> QED BY <1>8, <1>9, <1>10, <1>11, <1>12, <1>13

LEMMA CopyFailsStep == CopyInv /\ CopyFails => CopyInv'
<1> SUFFICES ASSUME CopyInv, CopyFails PROVE CopyInv'
  OBVIOUS
<1> USE DEF CopyInv
<1>1. /\ Unwritten /\ Copier({"cp"}) /\ cutShort' = cutShort \cup {sink} /\ pending' = << >>
      /\ where' = "open" /\ nth' = nth + 1
      /\ UNCHANGED <<copy, contents, upTo, hold, readFailed, sink, outs, counted, lineBegins>>
  BY DEF CopyFails
<1>2. SameCommand
  BY <1>1, Commands
<1>3. where = "read" /\ sink \in Sinks /\ copy \in Transfers
  BY <1>1, WritesInTurn DEF CopyTypeOK
<1>4. AFile(nth) /\ sink = copy.to[nth]
  BY <1>1, <1>3 DEF FileInHand
<1>5. nth + 1 \in 1..(Len(Inputs) + 1) /\ (nth + 1) - 1 = nth /\ nth - 1 \in Nat /\ (nth - 1) + 1 = nth
  BY <1>3, <1>4, InputsAre DEF AFile
<1>6. CopyTypeOK'
  <2>1. cutShort' \in SUBSET (1..Len(copy.old)) /\ pending' \in Seq(Mark)
    BY <1>1, Marked DEF CopyTypeOK
  <2> QED BY <1>1, <1>2, <1>5, <2>1 DEF CopyTypeOK, SameCommand
<1>7. FileInHand'
  BY <1>1 DEF FileInHand
<1>8. SinksInTurn'
  BY <1>1, <1>2 DEF SinksInTurn, SameCommand
<1>9. LinesCounted'
  <2>1. ~Copier({"cat_n"})
    BY <1>1 DEF Copier
  <2> QED BY <2>1, <1>2 DEF LinesCounted, SameCommand
<1>10. AllWritten'
  BY <1>1, <1>2 DEF AllWritten, SameCommand
<1>11. AllCopied'
  <2>1. ASSUME NEW s \in Sinks, s # sink PROVE CopyIn(s, nth) = CopyIn(s, nth - 1)
    <3>1. CopyIn(s, (nth - 1) + 1) = IF Openable((nth - 1) + 1) /\ copy.to[(nth - 1) + 1] = s
                                      THEN Inputs[(nth - 1) + 1] ELSE CopyIn(s, nth - 1)
      BY <1>5, CopyNextFile
    <3> QED BY <3>1, <2>1, <1>4, <1>5
  <2> QED BY <1>1, <1>2, <1>3, <1>5, <2>1 DEF AllCopied, SameCommand
<1> QED BY <1>6, <1>7, <1>8, <1>9, <1>10, <1>11

LEMMA StutterStep == CopyInv /\ UNCHANGED copyVars => CopyInv'
<1> SUFFICES ASSUME CopyInv, UNCHANGED copyVars PROVE CopyInv'
  OBVIOUS
<1> USE DEF CopyInv
<1>1. UNCHANGED <<copy, where, nth, contents, upTo, hold, readFailed, pending, sink, outs, cutShort, counted, lineBegins>>
  BY DEF copyVars, inVars, outVars
<1>2. SameCommand
  BY <1>1, Commands
<1>3. Due' = Due
  BY <1>1, <1>2 DEF Due, SameCommand
<1>4. CopyTypeOK' /\ FileInHand'
  BY <1>1, <1>2 DEF CopyTypeOK, FileInHand, SameCommand
<1>5. SinksInTurn' /\ LinesCounted'
  BY <1>1, <1>2 DEF SinksInTurn, LinesCounted, SameCommand
<1>6. AllWritten' /\ AllCopied'
  BY <1>1, <1>2, <1>3 DEF AllWritten, AllCopied, SameCommand
<1> QED BY <1>4, <1>5, <1>6

LEMMA InvFaithful == CopyInv => OutputFaithful
<1> SUFFICES ASSUME CopyInv, where = "done", readFailed # TRUE, TailFits, NEW s \in Sinks \ cutShort PROVE outs[s] = Expected(s)
  BY DEF OutputFaithful, CopyInv, CopyTypeOK
<1> USE DEF CopyInv
<1>1. nth - 1 = Len(Inputs) /\ pending = << >> /\ copy \in Transfers /\ outs[s] \in Seq(Mark)
  <2>1. copy \in Transfers /\ nth = Len(Inputs) + 1 /\ pending = << >> /\ outs[s] \in Seq(Mark)
    BY DEF SinksInTurn, CopyTypeOK
  <2>2. Len(Inputs) \in Nat
    BY <2>1, InputsAre
  <2> QED BY <2>1, <2>2
<1>2. ~readFailed
  BY DEF CopyTypeOK
<1>3. CASE Copier({"cp"})
  BY <1>1, <1>2, <1>3 DEF AllCopied, Expected
<1>4. CASE ~Copier({"cp"})
  <2>1. Due = SharesTo(Len(Inputs))
    BY <1>1 DEF Due
  <2>2. outs[s] \o (IF s >= sink THEN << >> ELSE << >>) = OldPart(s) \o Due
    BY <1>1, <1>2, <1>4 DEF AllWritten
  <2>3. outs[s] \o << >> = outs[s]
    BY <1>1, ConcatEmptySeq
  <2> QED BY <1>4, <2>1, <2>2, <2>3 DEF Expected
<1> QED BY <1>3, <1>4

(* Of every command, at every step, what its outputs hold is what was made *)
(* for them of the files before and of the part of this one that was read. *)
THEOREM CopyInvariance == CopySpec => []CopyInv
<1>1. CopyInv /\ [CopyNext]_copyVars => CopyInv'
  BY OpenOutputsStep, OpenInputStep, CannotOpenStep, ReadPieceStep, ReadEndsStep, CloseInputStep, AllDoneStep,
     WriteOnceStep, WriteByteStep, WriteRestStep, CopyFailsStep, StutterStep, Zenon DEF CopyNext
<1> QED BY <1>1, CopyStart, PTL DEF CopySpec

(* Whatever files cat, cat -n, head, tail, tee and cp are given, however   *)
(* reads and writes cut them and whichever fail: an output that took all   *)
(* it was given holds what the tool is for, of tail when what it has to    *)
(* keep fits.                                                              *)
THEOREM StreamsAreFaithful == CopySpec => []OutputFaithful
BY CopyInvariance, InvFaithful, PTL

===============================================================================
