------------------------------ MODULE Text_proofs ------------------------------
(***************************************************************************)
(* The line tools, for every input, buffer size and way the reads may cut  *)
(* it up: the buffered line loop hands out the lines of its input, what    *)
(* grep -v and uniq say of a file is true of those lines, and a loop over  *)
(* read_line goes through its file.                                        *)
(***************************************************************************)
EXTENDS LineTools, ReadLine, SequenceTheorems, Lemmas

Line == [start : Nat, bytes : Seq(Chars)]

(* The buffered bytes that are still to be handed out are the input's, in  *)
(* place, whatever the reads returned and however often they were moved:   *)
(* nothing is lost or read twice (the mem_move of grep.c:120, uniq.c:73).  *)
BufferFaithful ==
  pc # "done" =>
    /\ base + bufLen = pos
    /\ \A i \in Indices : lineStart <= i /\ i < bufLen => buf[i] = text[base + i + 1]

NoNewline == \A i \in Indices : i < bufLen => buf[i] # Newline

(* The last line handed out filled the buffer. *)
Overflowed == out # << >> /\ Len(out[Len(out)].bytes) = Size - 1

(* Where the loop is in the input: what is left to hand out begins where   *)
(* the last line ended; only the last, unterminated line moves lineStart   *)
(* behind the data; a read is tried with an incomplete line at the front.  *)
Position ==
  /\ base + bufLen = pos
  /\ lineStart <= bufLen + 1
  /\ pc # "done" => NextStart = base + lineStart
  /\ pc = "read" => lineStart = 0 /\ NoNewline
  /\ pc = "scan" /\ n > 0 => lineStart <= bufLen
  /\ pc = "done" => NextStart >= pos /\ n <= 0

(* Lines end before the place where the next one is to start. *)
EndsBehind ==
  /\ NextStart \in Nat
  /\ \A k \in 1..Len(out) : EndOf(out[k]) \in Nat /\ EndOf(out[k]) < NextStart

(* Why a read that gave nothing although input is left did so: it failed,  *)
(* or there was no room, and then one line fills the buffer.               *)
Starved ==
  pc # "read" /\ n <= 0 /\ pos # Len(text) =>
    \/ n < 0
    \/ pc = "scan" /\ bufLen = Size - 1 /\ lineStart = 0 /\ NoNewline
    \/ (pc = "done" \/ lineStart > bufLen) /\ Overflowed

IInv == TypeOK /\ BufferFaithful /\ LinesFaithful /\ Position
        /\ EndsBehind /\ Starved

USE SizeAssumption, CharsAssumption, InputsAssumption

(* The empty buffer satisfies the invariant. *)
LEMMA InitInv == Init => IInv
<1> SUFFICES ASSUME Init PROVE IInv
  OBVIOUS
<1>1. TypeOK
  BY DEF Init, TypeOK, Indices
<1>2. BufferFaithful /\ LinesFaithful /\ Position /\ EndsBehind /\ Starved
  BY DEF Init, BufferFaithful, LinesFaithful, Position, EndsBehind, Starved, NextStart,
         NoNewline, Indices
<1> QED BY <1>1, <1>2 DEF IInv

(* What read may return fits in the buffer and in what is left. *)
LEMMA ReadFits ==
  ASSUME TypeOK, NEW k \in ReadResults
  PROVE  /\ k \in Int /\ Received(k) \in Nat
         /\ k <= 0 => Received(k) = 0
         /\ k > 0 => Received(k) = k
         /\ bufLen + Received(k) <= Size - 1
         /\ pos + Received(k) <= Len(text)
         /\ k = 0 => Room = 0 \/ pos = Len(text)
BY DEF TypeOK, ReadResults, Received, Room

(* A read appends the next bytes of the input to what is buffered, or      *)
(* leaves the loop with nothing buffered.                                  *)
LEMMA ReadInv == IInv /\ Read => IInv'
<1> SUFFICES ASSUME IInv, Read PROVE IInv'
  OBVIOUS
<1> USE DEF IInv
<1>1. PICK k \in ReadResults :
        /\ n' = k
        /\ pos' = pos + Received(k)
        /\ bufLen' = bufLen + Received(k)
        /\ buf' = IF k <= 0 /\ bufLen = lineStart THEN buf
                  ELSE [i \in Indices |->
                         IF bufLen <= i /\ i < bufLen' THEN text[pos + i - bufLen + 1]
                         ELSE IF i = bufLen' THEN Nul ELSE buf[i]]
        /\ pc' = IF k <= 0 /\ bufLen = lineStart THEN "done" ELSE "scan"
  BY DEF Read
<1>2. pc = "read" /\ UNCHANGED <<text, lineStart, base, out>>
  BY DEF Read
<1>3. /\ k \in Int /\ Received(k) \in Nat
      /\ k <= 0 => Received(k) = 0
      /\ k > 0 => Received(k) = k
      /\ bufLen + Received(k) <= Size - 1
      /\ pos + Received(k) <= Len(text)
      /\ k = 0 => Room = 0 \/ pos = Len(text)
  BY ReadFits
<1>4. \A i \in Indices : bufLen <= i /\ i < bufLen' =>
        pos + i - bufLen + 1 \in 1..Len(text)
  BY <1>1, <1>3 DEF TypeOK, Indices
<1>5. TypeOK'
  <2>1. buf' \in [Indices -> Chars \cup {Nul}]
    BY <1>1, <1>4 DEF TypeOK
  <2> QED BY <1>1, <1>2, <1>3, <2>1 DEF TypeOK
<1>0. /\ base + bufLen = pos /\ lineStart = 0 /\ NoNewline /\ NextStart = base
      /\ base \in Nat /\ pos \in Nat /\ bufLen \in Nat
  BY <1>2 DEF Position, TypeOK
<1>6. BufferFaithful'
  <2> SUFFICES ASSUME pc' # "done", NEW i \in Indices, lineStart <= i, i < bufLen'
               PROVE  buf'[i] = text[base + i + 1]
    BY <1>0, <1>1, <1>2, <1>3 DEF BufferFaithful
  <2>3. buf'[i] = IF bufLen <= i /\ i < bufLen' THEN text[pos + i - bufLen + 1]
                  ELSE IF i = bufLen' THEN Nul ELSE buf[i]
    BY <1>1
  <2>1. CASE i < bufLen
    <3>1. buf[i] = text[base + i + 1]
      BY <1>0, <1>2, <2>1 DEF BufferFaithful, Indices
    <3> QED BY <1>0, <1>1, <1>3, <2>1, <2>3, <3>1 DEF Indices
  <2>2. CASE ~(i < bufLen)
    <3>1. buf'[i] = text[pos + i - bufLen + 1]
      BY <1>0, <2>2, <2>3 DEF Indices
    <3>2. pos + i - bufLen + 1 = base + i + 1
      BY <1>0 DEF Indices
    <3> QED BY <3>1, <3>2
  <2> QED BY <2>1, <2>2
<1>7. LinesFaithful'
  <2>1. pos <= pos' /\ pos \in Nat /\ pos' \in Nat
    BY <1>1, <1>3 DEF TypeOK
  <2>2. NextStart <= pos
    BY <1>2 DEF Position, TypeOK
  <2>3. \A j \in 1..Len(out) : EndOf(out[j]) \in Nat /\ EndOf(out[j]) < pos
    BY <2>1, <2>2 DEF EndsBehind
  <2> SUFFICES ASSUME NEW j \in 1..Len(out)
               PROVE  /\ out[j].start = IF j = 1 THEN 0 ELSE EndOf(out[j - 1]) + 1
                      /\ EndOf(out[j]) <= pos'
                      /\ \A i \in 1..Len(out[j].bytes) :
                           /\ out[j].bytes[i] = text[out[j].start + i]
                           /\ out[j].bytes[i] # Newline
                      /\ EndOf(out[j]) < pos' => text[EndOf(out[j]) + 1] = Newline
    BY <1>2 DEF LinesFaithful, EndOf
  <2> QED BY <2>1, <2>3 DEF LinesFaithful
<1>8. Position' /\ EndsBehind'
  <2>1. NextStart' = NextStart /\ EndsBehind'
    BY <1>2 DEF NextStart, EndsBehind, EndOf
  <2>2. pc' \in {"scan", "done"} /\ (pc' = "done" => bufLen = 0)
    BY <1>0, <1>1
  <2> QED BY <1>0, <1>1, <1>2, <1>3, <2>1, <2>2 DEF Position
<1>9. Starved'
  <2> SUFFICES ASSUME k = 0, pos # Len(text)
               PROVE  pc' = "scan" /\ bufLen' = Size - 1 /\ NoNewline'
    BY <1>0, <1>1, <1>2, <1>3 DEF Starved
  <2>1. bufLen = Size - 1 /\ bufLen' = bufLen /\ pc' = "scan"
    BY <1>0, <1>1, <1>3 DEF Room
  <2>2. \A i \in Indices : i < bufLen => buf'[i] = buf[i]
    BY <1>0, <1>1, <2>1 DEF Indices
  <2> QED BY <1>0, <2>1, <2>2 DEF NoNewline
<1> QED BY <1>5, <1>6, <1>7, <1>8, <1>9

(* Cutting off a line hands out the next line of the input, and nothing    *)
(* that is still to be handed out is overwritten by the NUL.               *)
LEMMA EmitInv == IInv /\ (\E eol \in Indices : Emit(eol)) => IInv'
<1> SUFFICES ASSUME IInv, NEW eol \in Indices, Emit(eol) PROVE IInv'
  OBVIOUS
<1> USE DEF IInv
<1> DEFINE piece == [start |-> base + lineStart, bytes |-> Taken(eol)]
<1>1. /\ pc = "scan" /\ lineStart < bufLen /\ IsEol(eol)
      /\ eol < bufLen \/ n <= 0
      /\ buf' = [buf EXCEPT ![eol] = Nul]
      /\ out' = Append(out, piece)
      /\ lineStart' = eol + 1
      /\ UNCHANGED <<text, pos, pc, bufLen, n, base>>
  BY DEF Emit
<1>2. /\ lineStart \in Nat /\ bufLen \in Nat /\ eol \in Nat
      /\ lineStart <= eol /\ eol <= bufLen /\ bufLen <= Size - 1
      /\ eol - lineStart \in Nat
      /\ base \in Nat /\ pos \in Nat /\ base + bufLen = pos /\ pos <= Len(text)
      /\ eol < bufLen => buf[eol] = Newline
      /\ \A i \in Indices : lineStart <= i /\ i < eol => buf[i] # Newline
  BY <1>1 DEF TypeOK, Indices, IsEol, Position
<1>3. ASSUME NEW i \in 1..(eol - lineStart)
      PROVE  /\ lineStart + i - 1 \in Indices
             /\ base + lineStart + i \in 1..Len(text)
             /\ Taken(eol)[i] = text[base + lineStart + i]
             /\ Taken(eol)[i] # Newline
             /\ Taken(eol)[i] \in Chars
  <2>1. lineStart + i - 1 \in Indices /\ base + lineStart + i \in 1..Len(text)
    BY <1>2 DEF Indices
  <2>2. buf[lineStart + i - 1] = text[base + (lineStart + i - 1) + 1]
    BY <1>1, <1>2, <2>1 DEF BufferFaithful
  <2>3. Taken(eol)[i] = text[base + lineStart + i]
    BY <1>2, <2>2 DEF Taken
  <2>4. Taken(eol)[i] # Newline
    BY <1>2, <2>1 DEF Taken
  <2> QED BY <2>1, <2>3, <2>4 DEF TypeOK
<1>4. Taken(eol) \in Seq(Chars) /\ Len(Taken(eol)) = eol - lineStart
  <2>1. Taken(eol) \in [1..(eol - lineStart) -> Chars]
    BY <1>3 DEF Taken
  <2> QED BY <2>1, <1>2
<1>5. piece \in Line /\ EndOf(piece) = base + eol
  BY <1>2, <1>4 DEF Line, EndOf
<1>6. out \in Seq(Line) /\ out' \in Seq(Line) /\ Len(out') = Len(out) + 1 /\ out' # << >>
      /\ out'[Len(out')] = piece /\ \A k \in 1..Len(out) : out'[k] = out[k]
  <2>1. out \in Seq(Line)
    BY DEF TypeOK, Line
  <2> QED BY <1>1, <1>5, <2>1, AppendProperties
<1>7. NextStart = base + lineStart /\ NextStart' = base + eol + 1
  BY <1>1, <1>2, <1>5, <1>6 DEF Position, NextStart
<1>8. TypeOK'
  <2>1. buf' \in [Indices -> Chars \cup {Nul}]
    BY <1>1 DEF TypeOK
  <2>2. lineStart' \in 0..Size
    BY <1>1, <1>2
  <2> QED BY <1>1, <1>6, <2>1, <2>2 DEF TypeOK, Line
<1>9. BufferFaithful'
  BY <1>1, <1>2 DEF BufferFaithful, TypeOK, Indices
<1>10. LinesFaithful'
  <2> SUFFICES ASSUME NEW k \in 1..Len(out')
               PROVE  /\ out'[k].start = IF k = 1 THEN 0 ELSE EndOf(out'[k - 1]) + 1
                      /\ EndOf(out'[k]) <= pos
                      /\ \A i \in 1..Len(out'[k].bytes) :
                           /\ out'[k].bytes[i] = text[out'[k].start + i]
                           /\ out'[k].bytes[i] # Newline
                      /\ EndOf(out'[k]) < pos => text[EndOf(out'[k]) + 1] = Newline
    BY <1>1 DEF LinesFaithful, EndOf
  <2>1. CASE k \in 1..Len(out)
    <3>1. out'[k] = out[k] /\ (k # 1 => out'[k - 1] = out[k - 1])
      BY <1>6, <2>1
    <3> QED BY <2>1, <3>1 DEF LinesFaithful
  <2>2. CASE k = Len(out')
    <3>1. out'[k] = piece /\ piece.start = NextStart
      BY <1>6, <1>7, <2>2
    <3>2. piece.start = IF k = 1 THEN 0 ELSE EndOf(out'[k - 1]) + 1
      <4>1. CASE out = << >>
        BY <1>6, <2>2, <3>1, <4>1 DEF NextStart
      <4>2. CASE out # << >>
        BY <1>6, <2>2, <3>1, <4>2, LenProperties DEF NextStart
      <4> QED BY <4>1, <4>2
    <3>3. EndOf(piece) < pos => text[EndOf(piece) + 1] = Newline
      <4> SUFFICES ASSUME EndOf(piece) < pos PROVE text[EndOf(piece) + 1] = Newline
        OBVIOUS
      <4>1. eol < bufLen /\ buf[eol] = Newline
        BY <1>2, <1>5
      <4> QED BY <1>1, <1>2, <1>5, <4>1 DEF BufferFaithful
    <3>4. \A i \in 1..Len(piece.bytes) :
            piece.bytes[i] = text[piece.start + i] /\ piece.bytes[i] # Newline
      BY <1>3, <1>4
    <3> QED BY <1>2, <1>5, <3>1, <3>2, <3>3, <3>4
  <2> QED BY <1>6, <2>1, <2>2
<1>11. Position' /\ EndsBehind'
  <2>1. \A k \in 1..Len(out') : EndOf(out'[k]) \in Nat /\ EndOf(out'[k]) < NextStart'
    <3>1. \A k \in 1..Len(out) : EndOf(out[k]) \in Nat /\ EndOf(out[k]) < base + lineStart
      BY <1>7 DEF EndsBehind
    <3> QED BY <1>2, <1>5, <1>6, <1>7, <3>1
  <2>2. EndsBehind'
    BY <1>2, <1>7, <2>1 DEF EndsBehind, EndOf
  <2>3. /\ lineStart' <= bufLen + 1
        /\ NextStart' = base + lineStart'
        /\ n > 0 => lineStart' <= bufLen
    BY <1>1, <1>2, <1>7 DEF TypeOK
  <2>4. Position'
    BY <1>1, <1>2, <2>3 DEF Position
  <2> QED BY <2>2, <2>4
<1>12. Starved'
  <2> SUFFICES ASSUME n <= 0, pos # Len(text), ~(n < 0)
               PROVE  lineStart' > bufLen /\ Overflowed'
    BY <1>1 DEF Starved
  <2>1. bufLen = Size - 1 /\ lineStart = 0 /\ NoNewline
    BY <1>1, <1>2 DEF Starved, TypeOK
  <2>2. eol = bufLen
    BY <1>2, <2>1 DEF NoNewline
  <2> QED BY <1>1, <1>2, <1>4, <1>6, <2>1, <2>2 DEF Overflowed
<1> QED BY <1>8, <1>9, <1>10, <1>11, <1>12

(* Moving the incomplete line to the front keeps it, and keeps its place   *)
(* in the input.                                                           *)
LEMMA ShiftInv == IInv /\ Shift => IInv'
<1> SUFFICES ASSUME IInv, Shift PROVE IInv'
  OBVIOUS
<1> USE DEF IInv
<1>1. /\ pc = "scan" /\ lineStart' = 0
      /\ pc' = IF n <= 0 THEN "done" ELSE "read"
      /\ UNCHANGED <<text, pos, n, out>>
  BY DEF Shift
<1>2. CASE lineStart < bufLen
  <2>1. /\ buf' = [i \in Indices |-> Moved(i)]
        /\ bufLen' = bufLen - lineStart /\ base' = base + lineStart
        /\ n > 0 /\ IsEol(bufLen)
    BY <1>2 DEF Shift, TypeOK
  <2>2. \A i \in Indices : i < bufLen - lineStart =>
          i + lineStart \in Indices /\ buf'[i] = buf[i + lineStart]
    BY <1>2, <2>1 DEF Moved, TypeOK, Indices
  <2>3. buf' \in [Indices -> Chars \cup {Nul}]
    BY <2>1, <2>2 DEF Moved, TypeOK
  <2>4. TypeOK'
    BY <1>1, <1>2, <2>1, <2>3 DEF TypeOK, Position
  <2>5. BufferFaithful'
    <3> SUFFICES ASSUME NEW i \in Indices, i < bufLen'
                 PROVE  buf'[i] = text[base' + i + 1]
      BY <1>1, <2>1 DEF BufferFaithful, Position, TypeOK
    <3>1. /\ i + lineStart \in Indices /\ i + lineStart < bufLen
          /\ lineStart <= i + lineStart /\ buf'[i] = buf[i + lineStart]
      BY <2>1, <2>2 DEF TypeOK, Indices
    <3>2. buf[i + lineStart] = text[base + (i + lineStart) + 1]
      BY <1>1, <3>1 DEF BufferFaithful
    <3> QED BY <2>1, <3>1, <3>2 DEF TypeOK, Indices
  <2>6. NoNewline'
    BY <1>2, <2>1, <2>2 DEF NoNewline, IsEol, TypeOK, Indices
  <2>7. LinesFaithful' /\ EndsBehind' /\ NextStart' = NextStart
    BY <1>1 DEF LinesFaithful, EndsBehind, NextStart, EndOf
  <2>9. Position'
    BY <1>1, <1>2, <2>1, <2>6, <2>7 DEF Position, TypeOK
  <2>8. Starved'
    BY <1>1, <2>1 DEF Starved, TypeOK
  <2> QED BY <2>4, <2>5, <2>7, <2>8, <2>9
<1>3. CASE ~(lineStart < bufLen)
  <2>1. buf' = buf /\ bufLen' = 0 /\ base' = pos
    BY <1>3 DEF Shift
  <2>2. TypeOK'
    BY <1>1, <2>1 DEF TypeOK
  <2>3. LinesFaithful' /\ EndsBehind' /\ NextStart' = NextStart
    BY <1>1 DEF LinesFaithful, EndsBehind, NextStart, EndOf
  <2>5. BufferFaithful'
    BY <1>1, <2>1 DEF TypeOK, BufferFaithful, Indices
  <2>6. Position'
    BY <1>1, <1>3, <2>1, <2>3 DEF Position, TypeOK, NoNewline, Indices
  <2>4. Starved'
    BY <1>1, <1>3, <2>1 DEF Starved, TypeOK, Overflowed, Position
  <2> QED BY <2>2, <2>3, <2>4, <2>5, <2>6
<1> QED BY <1>2, <1>3

(* The inductive invariant holds throughout, so grep and uniq see their    *)
(* input through an intact window.                                         *)
THEOREM Invariance == Spec => []IInv
<1>1. IInv /\ [Next]_vars => IInv'
  <2>1. IInv /\ UNCHANGED vars => IInv'
    BY DEF IInv, vars, TypeOK, BufferFaithful, LinesFaithful, Position, EndsBehind,
           Starved, NextStart, NoNewline, Overflowed, EndOf
  <2> QED BY <2>1, ReadInv, EmitInv, ShiftInv DEF Next
<1> QED BY <1>1, InitInv, PTL DEF Spec

(* Types: in particular the NUL that ends a line is written inside buf.    *)
THEOREM TypeCorrect == Spec => []TypeOK
BY Invariance, PTL DEF IInv

(* What is buffered is the input's, whatever the reads returned.           *)
THEOREM BufferIsInput == Spec => []BufferFaithful
BY Invariance, PTL DEF IInv

(* The lines handed out are the input's lines, in order, whole.            *)
THEOREM LinesAreInput == Spec => []LinesFaithful
BY Invariance, PTL DEF IInv

(* A loop that ended handed out all it had read. *)
LEMMA LoopEnds == IInv => NothingHeldBack
<1> SUFFICES ASSUME IInv, pc = "done"
             PROVE  /\ NextStart >= pos
                    /\ pos = Len(text) \/ n < 0 \/ Overflowed
  BY DEF NothingHeldBack, Overflowed
<1>1. NextStart >= pos /\ n <= 0
  BY DEF IInv, Position
<1>2. pos = Len(text) \/ n < 0 \/ Overflowed
  BY <1>1 DEF IInv, Starved
<1> QED BY <1>1, <1>2

(* At the end nothing read is held back, and only a failed read or a line  *)
(* that fills the buffer keeps the loop from the end of the input.         *)
THEOREM AllHandedOut == Spec => []NothingHeldBack
BY LoopEnds, Invariance, PTL
-------------------------------------------------------------------------------
(* InOrder lists every element at its rank. *)
LEMMA OrderedByRank ==
  ASSUME NEW N \in Nat, NEW S, \A s \in S : s \in 0..N
  PROVE  /\ Cardinality(S) \in Nat
         /\ \A s \in S : /\ Below(S, s) + 1 \in 1..Cardinality(S)
                         /\ InOrder(S)[Below(S, s) + 1] = s
         /\ \A j \in 1..Cardinality(S) : InOrder(S)[j] \in S /\ Below(S, InOrder(S)[j]) = j - 1
<1>1. IsFiniteSet(S) /\ Cardinality(S) \in Nat /\ \A s \in S : s \in Nat
  <2>1. IsFiniteSet(0..N) /\ S \subseteq 0..N
    BY FS_Interval
  <2>2. IsFiniteSet(S)
    BY <2>1, FS_Subset
  <2> QED BY <2>2, FS_CardinalityType
<1>2. ASSUME NEW j \in 1..Cardinality(S)
      PROVE  /\ InOrder(S)[j] \in S /\ Below(S, InOrder(S)[j]) = j - 1
             /\ \A s \in S : Below(S, s) = j - 1 => s = InOrder(S)[j]
  <2>1. j - 1 \in Nat /\ j - 1 < Cardinality(S)
    BY <1>1
  <2>2. \E s \in S : Below(S, s) = j - 1
    <3> DEFINE k == j - 1
    <3>1. k \in Nat /\ k < Cardinality(S)
      BY <2>1
    <3> HIDE DEF k
    <3>2. \E s \in S : Below(S, s) = k
      BY <3>1, RankExists, Zenon
    <3> QED BY <3>2 DEF k
  <2>3. InOrder(S)[j] = CHOOSE s \in S : Below(S, s) = j - 1
    BY DEF InOrder, Below
  <2>4. InOrder(S)[j] \in S /\ Below(S, InOrder(S)[j]) = j - 1
    BY <2>2, <2>3
  <2>5. ASSUME NEW s \in S, Below(S, s) = j - 1 PROVE s = InOrder(S)[j]
    <3> DEFINE o == InOrder(S)[j]
    <3>1. o \in S /\ Below(S, o) = Below(S, s) /\ o \in Nat /\ s \in Nat
      BY <1>1, <2>4, <2>5
    <3> HIDE DEF o
    <3>2. ~ (s < o)
      <4>1. s < o => Below(S, s) \in Nat /\ Below(S, o) \in Nat /\ Below(S, s) < Below(S, o)
        BY <1>1, <3>1, RankBelow, Zenon
      <4> QED BY <3>1, <4>1
    <3>3. ~ (o < s)
      <4>1. o < s => Below(S, s) \in Nat /\ Below(S, o) \in Nat /\ Below(S, o) < Below(S, s)
        BY <1>1, <3>1, RankBelow, Zenon
      <4> QED BY <3>1, <4>1
    <3> QED BY <3>1, <3>2, <3>3 DEF o
  <2> QED BY <2>4, <2>5
<1>3. ASSUME NEW s \in S
      PROVE  Below(S, s) + 1 \in 1..Cardinality(S) /\ InOrder(S)[Below(S, s) + 1] = s
  <2>1. Below(S, N + 1) = Cardinality(S)
    BY BelowAll
  <2>2. N + 1 \in Nat /\ s < N + 1
    OBVIOUS
  <2>3. Below(S, s) \in Nat /\ Below(S, s) < Cardinality(S)
    BY <1>1, <2>1, <2>2, RankBelow
  <2> DEFINE j == Below(S, s) + 1
  <2>4. j \in 1..Cardinality(S) /\ Below(S, s) = j - 1
    BY <1>1, <2>3
  <2> HIDE DEF j
  <2>5. s = InOrder(S)[j]
    BY <1>2, <2>4
  <2> QED BY <2>4, <2>5 DEF j
<1> QED BY <1>1, <1>2, <1>3
(* A run of c equal elements that ends where it cannot go on is RunAt. *)
LEMMA RunIs ==
  ASSUME NEW X, NEW s \in Seq(X), NEW o \in 1..Len(s), NEW c \in 1..(Len(s) - o + 1),
         \A i \in 0..(c - 1) : s[o + i] = s[o], o + c <= Len(s) => s[o + c] # s[o]
  PROVE  RunAt(s, o) = c
<1> DEFINE Run(m) == /\ \A i \in 0..(m - 1) : s[o + i] = s[o]
                     /\ o + m <= Len(s) => s[o + m] # s[o]
<1>0. Len(s) \in Nat
  OBVIOUS
<1>1. ASSUME NEW m \in 1..(Len(s) - o + 1), Run(m) PROVE m = c
  <2>1. ~ (m < c)
    <3>1. m < c => m \in 0..(c - 1) /\ o + m <= Len(s)
      BY <1>0
    <3> QED BY <1>1, <3>1
  <2>2. ~ (c < m)
    <3>1. c < m => c \in 0..(m - 1) /\ o + c <= Len(s)
      BY <1>0
    <3> QED BY <1>1, <3>1
  <2> QED BY <1>0, <2>1, <2>2
<1>2. Run(c)
  OBVIOUS
<1>3. RunAt(s, o) = CHOOSE m \in 1..(Len(s) - o + 1) : Run(m)
  BY DEF RunAt
<1> HIDE DEF Run
<1> QED BY <1>1, <1>2, <1>3

(* printed is what is shown of the groups of s that start before o. *)
Listed(p, s, o) ==
  /\ Len(p) = Below(Shows(s), o)
  /\ \A k \in Shows(s) : k < o => p[Below(Shows(s), k) + 1] = <<RunAt(s, k), s[k]>>

(* Printing the group that starts at o, if it is to be shown, carries the  *)
(* list on to the start of the next group.                                 *)
LEMMA ListingStep ==
  ASSUME NEW X, NEW s \in Seq(X), NEW o \in Starts(s), NEW c \in 1..(Len(s) - o + 1),
         \A i \in 0..(c - 1) : s[o + i] = s[o], o + c <= Len(s) => s[o + c] # s[o],
         NEW p \in Seq(Nat \X X), Listed(p, s, o)
  PROVE  Listed(IF ~flag \/ c > 1 THEN Append(p, <<c, s[o]>>) ELSE p, s, o + c)
<1> DEFINE K == Shows(s)
           e == <<c, s[o]>>
           q == IF ~flag \/ c > 1 THEN Append(p, e) ELSE p
<1>0. Len(s) \in Nat /\ o \in 1..Len(s) /\ o \in Nat /\ c \in Nat /\ o + c \in Nat
  BY DEF Starts
<1>1. RunAt(s, o) = c
  BY <1>0, RunIs
<1>2. o \in K <=> ~flag \/ c > 1
  BY <1>1 DEF Shows
<1>3. IsFiniteSet(K) /\ (\A k \in K : k \in Nat /\ k \in Starts(s))
  <2>1. IsFiniteSet(1..Len(s)) /\ K \subseteq 1..Len(s)
    BY <1>0, FS_Interval DEF Shows, Starts
  <2>2. IsFiniteSet(K)
    BY <2>1, FS_Subset
  <2> QED BY <2>2 DEF Shows, Starts
<1>4. \A k \in K : k < o + c <=> k < o + 1
  <2> SUFFICES ASSUME NEW k \in K, k < o + c, ~ (k < o + 1) PROVE FALSE
    BY <1>0, <1>3
  <2>1. k \in Starts(s) /\ k \in Nat /\ k - o \in 0..(c - 1) /\ k - 1 - o \in 0..(c - 1)
    BY <1>0, <1>3
  <2>2. k = o + (k - o) /\ k - 1 = o + (k - 1 - o) /\ k # 1
    BY <1>0, <1>3
  <2>3. s[o + (k - o)] = s[o] /\ s[o + (k - 1 - o)] = s[o]
    BY <2>1, Zenon
  <2>4. s[k] = s[k - 1]
    BY <2>2, <2>3
  <2> QED BY <2>1, <2>2, <2>4 DEF Starts
<1>5. Below(K, o + c) = Below(K, o + 1)
  <2>1. {k \in K : k < o + c} = {k \in K : k < o + 1}
    BY <1>4
  <2> QED BY <2>1 DEF Below
<1>6. Below(K, o) \in Nat /\ Below(K, o + 1) = Below(K, o) + (IF o \in K THEN 1 ELSE 0)
  BY <1>0, <1>3, BelowStep
<1>7. Len(p) = Below(K, o) /\ \A k \in K : k < o => p[Below(K, k) + 1] = <<RunAt(s, k), s[k]>>
  BY DEF Listed
<1>8. \A k \in K : k < o => Below(K, k) + 1 \in 1..Len(p)
  <2> SUFFICES ASSUME NEW k \in K, k < o PROVE Below(K, k) + 1 \in 1..Len(p)
    OBVIOUS
  <2>1. Below(K, k) \in Nat /\ Below(K, k) < Below(K, o)
    BY <1>0, <1>3, RankBelow
  <2> QED BY <1>6, <1>7, <2>1
<1>9. /\ Len(q) = Len(p) + (IF o \in K THEN 1 ELSE 0)
      /\ \A i \in 1..Len(p) : q[i] = p[i]
      /\ o \in K => q[Len(p) + 1] = e
  <2>1. e \in Nat \X X
    BY <1>0
  <2> HIDE DEF K, e
  <2>2. /\ Len(Append(p, e)) = Len(p) + 1
        /\ \A i \in 1..Len(p) : Append(p, e)[i] = p[i]
        /\ Append(p, e)[Len(p) + 1] = e
    BY <2>1, AppendProperties
  <2>3. Len(p) \in Nat
    OBVIOUS
  <2> QED BY <1>2, <2>2, <2>3
<1> HIDE DEF q, K
<1>10. Len(q) = Below(K, o + c)
  BY <1>5, <1>6, <1>7, <1>9
<1>11. ASSUME NEW k \in K, k < o + c PROVE q[Below(K, k) + 1] = <<RunAt(s, k), s[k]>>
  <2>1. k < o \/ k = o
    BY <1>0, <1>3, <1>4, <1>11
  <2>2. CASE k < o
    BY <1>7, <1>8, <1>9, <2>2
  <2>3. CASE k = o
    BY <1>1, <1>7, <1>9, <2>3, <1>11 DEF e
  <2> QED BY <2>1, <2>2, <2>3
<1> QED BY <1>10, <1>11 DEF Listed, K, q

(* A list of all the groups is what Groups says. *)
LEMMA ListedAll ==
  ASSUME NEW X, NEW s \in Seq(X), NEW p \in Seq(Nat \X X), Listed(p, s, Len(s) + 1)
  PROVE  p = Groups(s)
<1> DEFINE K == Shows(s)
<1>0. Len(s) \in Nat /\ \A k \in K : k \in 0..Len(s) /\ k < Len(s) + 1 /\ k \in 1..Len(s)
  BY DEF Shows, Starts
<1>1. /\ Cardinality(K) \in Nat
      /\ \A j \in 1..Cardinality(K) : InOrder(K)[j] \in K /\ Below(K, InOrder(K)[j]) = j - 1
  BY <1>0, OrderedByRank
<1>2. Len(p) = Cardinality(K)
  BY <1>0, BelowAll DEF Listed
<1>3. ASSUME NEW j \in 1..Cardinality(K) PROVE p[j] = Groups(s)[j]
  <2> DEFINE k == InOrder(K)[j]
  <2>1. k \in K /\ Below(K, k) + 1 = j /\ k < Len(s) + 1
    BY <1>0, <1>1
  <2>2. Groups(s)[j] = <<RunAt(s, k), s[k]>>
    BY DEF Groups
  <2> HIDE DEF k, K
  <2>3. p[Below(K, k) + 1] = <<RunAt(s, k), s[k]>>
    BY <2>1 DEF Listed, K
  <2> QED BY <2>1, <2>2, <2>3
<1>4. Groups(s) = [j \in 1..Cardinality(K) |-> Groups(s)[j]]
  BY DEF Groups
<1>5. p = [j \in 1..Len(p) |-> p[j]]
  OBVIOUS
<1> HIDE DEF K
<1> QED BY <1>2, <1>3, <1>4, <1>5
(* No read failed so far, no line fills the buffer, and none is too long   *)
(* for uniq.                                                               *)
WellRead == n >= 0 /\ FitsIn(text, Size - 1)
Sound == WellRead /\ FitsIn(text, PrevSize)

(* Only an unterminated last line reaches what was read, and it has bytes. *)
Whole == \A k \in 1..Len(out) : EndOf(out[k]) < pos \/ out[k].bytes # << >>

(* What was handed out are the first lines of the input, and at the end    *)
(* all of them.                                                            *)
HandsOutLines ==
  /\ LinesOf(text) \in Seq(Seq(Chars))
  /\ Len(out) <= Len(LinesOf(text))
  /\ \A k \in 1..Len(out) : out[k].bytes = LinesOf(text)[k]
  /\ pc = "done" => Len(out) = Len(LinesOf(text))

Short == \A k \in 1..Len(out) : Len(out[k].bytes) < PrevSize

(* What LinesOf says of a sequence: it cuts it at its ends. *)
LEMMA LinesType ==
  ASSUME NEW t \in Seq(Chars)
  PROVE  /\ \A i \in Ends(t) : i \in 0..(Len(t) + 1) /\ i # 0
         /\ Cardinality(Ends(t)) \in Nat
         /\ LinesOf(t) \in Seq(Seq(Chars)) /\ Len(LinesOf(t)) = Cardinality(Ends(t))
<1> DEFINE E == Ends(t)
           c == Cardinality(E)
           from(k) == IF k = 1 THEN 1 ELSE InOrder(E)[k - 1] + 1
           to(k) == InOrder(E)[k] - 1
<1>0. Len(t) \in Nat /\ Len(t) + 1 \in Nat
  OBVIOUS
<1>1. \A i \in E : i \in 0..(Len(t) + 1) /\ i # 0
  BY <1>0 DEF Ends
<1>2. /\ c \in Nat
      /\ \A j \in 1..c : InOrder(E)[j] \in E
  BY <1>0, <1>1, OrderedByRank
<1>3. ASSUME NEW k \in 1..c PROVE SubSeq(t, from(k), to(k)) \in Seq(Chars)
  <2>1. k = 1 \/ k - 1 \in 1..c
    BY <1>2
  <2>2. InOrder(E)[k] \in E /\ (k # 1 => InOrder(E)[k - 1] \in E)
    BY <1>2, <2>1
  <2> HIDE DEF E
  <2>3. from(k) \in Nat \ {0} /\ to(k) \in 0..Len(t)
    BY <1>0, <1>1, <2>2
  <2>4. \A i \in from(k)..to(k) : i \in 1..Len(t)
    BY <1>0, <2>3
  <2> HIDE DEF from, to
  <2>5. \A i \in from(k)..to(k) : t[i] \in Chars
    BY <2>4, ElementOfSeq
  <2> QED BY <2>3, <2>5, SubSeqProperties
<1>4. LinesOf(t) = [k \in 1..c |-> SubSeq(t, from(k), to(k))]
  BY DEF LinesOf
<1> HIDE DEF c, from, to
<1>5. LinesOf(t) \in [1..c -> Seq(Chars)]
  BY <1>3, <1>4
<1>6. LinesOf(t) \in Seq(Seq(Chars)) /\ Len(LinesOf(t)) = c
  BY <1>2, <1>5
<1> QED BY <1>1, <1>2, <1>6 DEF c

(* What is handed out is no longer than the longest line. *)
LEMMA LinesShort ==
  ASSUME IInv, NEW k \in 1..Len(out), NEW limit \in Nat, FitsIn(text, limit)
  PROVE  Len(out[k].bytes) < limit
<1>1. /\ out[k].start \in Nat /\ out[k].bytes \in Seq(Chars) /\ Len(out[k].bytes) \in Nat
      /\ out[k].start + Len(out[k].bytes) <= pos /\ pos <= Len(text) /\ Len(text) \in Nat /\ pos \in Nat
      /\ \A i \in 1..Len(out[k].bytes) :
           out[k].bytes[i] = text[out[k].start + i] /\ out[k].bytes[i] # Newline
  <2>1. out[k] \in Line
    BY ElementOfSeq DEF IInv, TypeOK, Line
  <2>2. out[k].start \in Nat /\ out[k].bytes \in Seq(Chars) /\ Len(out[k].bytes) \in Nat
    BY <2>1 DEF Line
  <2> QED BY <2>2 DEF IInv, TypeOK, LinesFaithful, EndOf
<1> SUFFICES ASSUME Len(out[k].bytes) >= limit PROVE FALSE
  BY <1>1
<1> DEFINE i == out[k].start
<1>2. i \in 0..(Len(text) - limit)
  BY <1>1
<1>3. PICK j \in 1..limit : text[i + j] = Newline
  BY <1>2 DEF FitsIn
<1>4. j \in 1..Len(out[k].bytes)
  BY <1>1
<1> QED BY <1>1, <1>3, <1>4

(* The lines handed out are lines of the input, one after the other. *)
LEMMA LinesOut ==
  IInv /\ Whole /\ WellRead => HandsOutLines
<1> SUFFICES ASSUME IInv, Whole, WellRead PROVE HandsOutLines
  OBVIOUS
<1> DEFINE E == Ends(text)
           m == Len(out)
           end(k) == EndOf(out[k]) + 1
<1>0. /\ text \in Seq(Chars) /\ Len(text) \in Nat /\ pos \in 0..Len(text) /\ m \in Nat
      /\ out \in Seq(Line)
  BY DEF IInv, TypeOK, Line
<1>1. ASSUME NEW k \in 1..m
      PROVE  /\ out[k].start \in Nat /\ out[k].bytes \in Seq(Chars) /\ Len(out[k].bytes) \in Nat
             /\ EndOf(out[k]) = out[k].start + Len(out[k].bytes) /\ EndOf(out[k]) \in Nat
             /\ EndOf(out[k]) <= pos
             /\ out[k].start = IF k = 1 THEN 0 ELSE EndOf(out[k - 1]) + 1
             /\ \A i \in 1..Len(out[k].bytes) :
                  out[k].bytes[i] = text[out[k].start + i] /\ out[k].bytes[i] # Newline
             /\ EndOf(out[k]) < pos => text[EndOf(out[k]) + 1] = Newline
  <2>1. out[k] \in Line
    BY <1>0, ElementOfSeq
  <2>2. out[k].start \in Nat /\ out[k].bytes \in Seq(Chars) /\ Len(out[k].bytes) \in Nat
    BY <2>1 DEF Line
  <2> QED BY <2>2 DEF IInv, LinesFaithful, EndOf
<1>2. ASSUME NEW k \in 1..m, NEW limit \in Nat, FitsIn(text, limit) PROVE Len(out[k].bytes) < limit
  BY <1>2, LinesShort
<1>3. ~Overflowed
  <2>1. Size - 1 \in Nat
    BY SizeAssumption
  <2>2. out # << >> => m \in 1..m
    BY <1>0, EmptySeq
  <2>3. out # << >> => Len(out[m].bytes) < Size - 1
    BY <1>2, <2>1, <2>2 DEF WellRead
  <2>4. out # << >> => Len(out[m].bytes) \in Nat
    BY <1>1, <2>2
  <2> QED BY <2>3, <2>4 DEF Overflowed
<1>4. ASSUME NEW k \in 1..m, EndOf(out[k]) = pos
      PROVE  pos = Len(text) /\ text # << >> /\ text[Len(text)] # Newline
  <2>1. NextStart > pos
    BY <1>1, <1>4 DEF IInv, EndsBehind
  <2>2. /\ lineStart \in Nat /\ bufLen \in Nat /\ base \in Nat /\ base + bufLen = pos
        /\ n \in Int /\ pc \in {"read", "scan", "done"}
    BY DEF IInv, TypeOK, Position
  <2>3. pc # "read"
    BY <2>1, <2>2 DEF IInv, Position
  <2>4. n <= 0
    BY <2>1, <2>2, <2>3 DEF IInv, Position
  <2>5. pc = "scan" => lineStart # 0
    BY <2>1, <2>2 DEF IInv, Position
  <2>6. pos = Len(text)
    BY <1>3, <2>2, <2>3, <2>4, <2>5 DEF IInv, Starved, WellRead
  <2>7. Len(out[k].bytes) \in 1..Len(out[k].bytes)
    <3>1. out[k].bytes # << >>
      BY <1>0, <1>4 DEF Whole
    <3> QED BY <1>1, <3>1, EmptySeq
  <2>8. text[Len(text)] # Newline
    <3> DEFINE j == Len(out[k].bytes)
    <3>1. out[k].start + j = Len(text)
      BY <1>1, <1>4, <2>6
    <3>2. out[k].bytes[j] = text[out[k].start + j] /\ out[k].bytes[j] # Newline
      BY <1>1, <2>7, Zenon
    <3> QED BY <3>1, <3>2
  <2>9. Len(text) # 0
    BY <1>1, <1>4, <2>6, <2>7
  <2> QED BY <1>0, <2>6, <2>8, <2>9, EmptySeq
<1>5. ASSUME NEW k \in 1..m PROVE end(k) \in E /\ end(k) \in Nat
  <2>1. CASE EndOf(out[k]) < pos
    <3>1. EndOf(out[k]) + 1 \in 1..Len(text) /\ text[EndOf(out[k]) + 1] = Newline
      BY <1>0, <1>1, <2>1
    <3> QED BY <3>1 DEF Ends
  <2>2. CASE EndOf(out[k]) = pos
    BY <1>0, <1>4, <2>2 DEF Ends
  <2> QED BY <1>0, <1>1, <2>1, <2>2
<1>6. ASSUME NEW k \in 1..m, NEW i \in E, i < end(k) PROVE i <= out[k].start
  <2> SUFFICES ASSUME i > out[k].start PROVE FALSE
    BY <1>0, <1>1, LinesType
  <2>1. i \in Nat /\ i <= Len(text)
    BY <1>0, <1>1, <1>6, LinesType
  <2>2. i \in 1..Len(text) /\ text[i] = Newline
    BY <1>0, <2>1 DEF Ends
  <2>3. i - out[k].start \in 1..Len(out[k].bytes) /\ out[k].start + (i - out[k].start) = i
    BY <1>1, <1>6, <2>1
  <2>4. /\ out[k].bytes[i - out[k].start] = text[out[k].start + (i - out[k].start)]
        /\ out[k].bytes[i - out[k].start] # Newline
    BY <1>1, <2>3, Zenon
  <2> QED BY <2>2, <2>3, <2>4
<1>7. /\ Cardinality(E) \in Nat /\ \A i \in E : i \in 0..(Len(text) + 1) /\ i # 0 /\ i \in Nat
      /\ Len(LinesOf(text)) = Cardinality(E) /\ LinesOf(text) \in Seq(Seq(Chars))
      /\ IsFiniteSet(E)
  <2>1. IsFiniteSet(1..Len(text)) /\ IsFiniteSet(0..(Len(text) + 1)) /\ E \subseteq 0..(Len(text) + 1)
    BY <1>0, LinesType, FS_Interval
  <2> QED BY <1>0, LinesType, <2>1, FS_Subset
<1> HIDE DEF E, end
<1>8. \A k \in 1..m : Below(E, end(k)) = k - 1
  <2> DEFINE T == {k \in 0..m : k # 0 => Below(E, end(k)) = k - 1}
  <2>1. 0 \in T
    BY <1>0
  <2>2. ASSUME NEW k \in 1..m, k - 1 \in T PROVE k \in T
    <3>1. CASE k = 1
      <4>1. \A i \in E : ~ (i < end(k))
        BY <1>1, <1>6, <1>7, <3>1
      <4>2. {i \in E : i < end(k)} = {}
        BY <4>1
      <4>3. Below(E, end(k)) = 0
        BY <4>2, FS_EmptySet DEF Below
      <4> QED BY <3>1, <4>3
    <3>2. CASE k # 1
      <4>0. k - 1 \in 1..m /\ k - 1 # 0
        BY <3>2, <1>0
      <4>1. out[k].start = end(k - 1) /\ end(k - 1) \in E /\ end(k - 1) \in Nat /\ end(k) \in Nat
        <5>1. out[k].start = EndOf(out[k - 1]) + 1
          BY <1>1, <3>2
        <5> QED BY <1>5, <4>0, <5>1 DEF end
      <4>2. Below(E, end(k - 1)) = (k - 1) - 1
        BY <2>2, <4>0
      <4>3. end(k - 1) < end(k)
        BY <1>1, <4>1 DEF end
      <4>4. \A i \in E : i < end(k) <=> i < end(k - 1) + 1
        BY <1>6, <1>7, <4>1, <4>3
      <4>5. Below(E, end(k)) = Below(E, end(k - 1) + 1)
        <5>1. {i \in E : i < end(k)} = {i \in E : i < end(k - 1) + 1}
          BY <4>4
        <5> QED BY <5>1 DEF Below
      <4>6. Below(E, end(k - 1) + 1) = Below(E, end(k - 1)) + 1
        <5> HIDE DEF E, end
        <5>1. Below(E, end(k - 1) + 1)
                = Below(E, end(k - 1)) + (IF end(k - 1) \in E THEN 1 ELSE 0)
          BY <1>7, <4>1, BelowStep, Zenon
        <5> QED BY <4>1, <5>1
      <4>7. Below(E, end(k)) = k - 1
        BY <4>2, <4>5, <4>6
      <4> QED BY <4>7
    <3> QED BY <3>1, <3>2
  <2> HIDE DEF T
  <2>3. \A k \in 0..m : k \in T
    BY <1>0, <2>1, <2>2, Reaches
  <2>4. \A k \in 1..m : k \in T /\ k # 0
    BY <1>0, <2>3
  <2> QED BY <2>4 DEF T
<1>9. ASSUME NEW k \in 1..m PROVE k \in 1..Cardinality(E) /\ InOrder(E)[k] = end(k)
  <2>1. Below(E, end(k)) + 1 \in 1..Cardinality(E) /\ InOrder(E)[Below(E, end(k)) + 1] = end(k)
    <3>1. Len(text) + 1 \in Nat /\ \A i \in E : i \in 0..(Len(text) + 1)
      BY <1>0, <1>7
    <3>2. \A i \in E : Below(E, i) + 1 \in 1..Cardinality(E) /\ InOrder(E)[Below(E, i) + 1] = i
      BY <3>1, OrderedByRank, Zenon
    <3> QED BY <1>5, <3>2, Zenon
  <2>2. Below(E, end(k)) + 1 = k
    BY <1>8
  <2> QED BY <2>1, <2>2
<1>10. ASSUME NEW k \in 1..m PROVE out[k].bytes = LinesOf(text)[k]
  <2> DEFINE a == out[k].start
             z == EndOf(out[k])
             cut == SubSeq(text, a + 1, z)
  <2>1. LinesOf(text)[k] =
          SubSeq(text, IF k = 1 THEN 1 ELSE InOrder(E)[k - 1] + 1, InOrder(E)[k] - 1)
    BY <1>9 DEF LinesOf, E
  <2>2. (IF k = 1 THEN 1 ELSE InOrder(E)[k - 1] + 1) = a + 1
    <3>1. CASE k = 1
      BY <1>1, <3>1
    <3>2. CASE k # 1
      <4>1. k - 1 \in 1..m
        BY <1>0, <3>2
      <4> QED BY <1>1, <1>9, <3>2, <4>1 DEF end
    <3> QED BY <3>1, <3>2
  <2>3. InOrder(E)[k] - 1 = z
    BY <1>1, <1>9 DEF end
  <2>4. LinesOf(text)[k] = cut
    BY <2>1, <2>2, <2>3
  <2>5. /\ a \in Nat /\ z \in Nat /\ Len(out[k].bytes) = z - a /\ z <= Len(text) /\ a <= z
        /\ out[k].bytes \in Seq(Chars)
    BY <1>0, <1>1
  <2>6. \A i \in 1..(z - a) : out[k].bytes[i] = text[a + i]
    BY <1>1, <2>5
  <2> HIDE DEF a, z
  <2>7. \A i \in (a + 1)..z : text[i] \in Chars
    <3>1. \A i \in (a + 1)..z : i \in 1..Len(text)
      BY <1>0, <2>5
    <3> QED BY <1>0, <3>1, ElementOfSeq
  <2>8. /\ cut \in Seq(Chars)
        /\ Len(cut) = IF a + 1 <= z THEN z - (a + 1) + 1 ELSE 0
        /\ \A i \in 1..(z - (a + 1) + 1) : cut[i] = text[(a + 1) + i - 1]
    BY <1>0, <2>5, <2>7, SubSeqProperties
  <2> HIDE DEF cut
  <2>9. Len(cut) = z - a /\ \A i \in 1..(z - a) : cut[i] = text[a + i]
    <3>1. \A i \in 1..(z - a) : i \in 1..(z - (a + 1) + 1) /\ (a + 1) + i - 1 = a + i
      BY <2>5
    <3> QED BY <2>5, <2>8, <3>1
  <2>10. out[k].bytes = cut
    BY <2>5, <2>6, <2>8, <2>9, SeqEqual
  <2> QED BY <2>4, <2>10
<1>11. m <= Cardinality(E)
  <2>1. m # 0 => m \in 1..m
    BY <1>0
  <2> QED BY <1>0, <1>7, <1>9, <2>1
<1>12. ASSUME pc = "done" PROVE m = Cardinality(E)
  <2>1. n = 0 /\ NextStart >= pos /\ NextStart \in Nat
    BY <1>12 DEF IInv, Position, WellRead, EndsBehind, TypeOK
  <2>2. pos = Len(text)
    BY <1>3, <1>12, <2>1 DEF IInv, Starved
  <2>3. CASE m = 0
    <3>1. text = << >>
      BY <1>0, <2>1, <2>2, <2>3, EmptySeq DEF NextStart
    <3>2. E = {}
      BY <3>1 DEF E, Ends
    <3> QED BY <2>3, <3>2, FS_EmptySet
  <2>4. CASE m # 0
    <3>1. m \in 1..m /\ out # << >>
      BY <1>0, <2>4, EmptySeq
    <3>2. end(m) = NextStart /\ end(m) \in E /\ end(m) \in Nat
      BY <1>5, <3>1 DEF NextStart, end
    <3>3. \A i \in E : i < end(m) + 1
      <4> SUFFICES ASSUME NEW i \in E, ~ (i < end(m) + 1) PROVE FALSE
        OBVIOUS
      <4>1. end(m) = Len(text) /\ i = Len(text) + 1 /\ Len(text) # 0
        BY <1>0, <1>7, <2>1, <2>2, <3>2
      <4>2. text[Len(text)] = Newline
        BY <1>0, <3>2, <4>1 DEF E, Ends
      <4>3. text[Len(text)] # Newline
        BY <1>0, <4>1 DEF E, Ends
      <4> QED BY <4>2, <4>3
    <3>4. Below(E, end(m) + 1) = Cardinality(E)
      BY <3>2, <3>3, BelowAll
    <3>5. Below(E, end(m) + 1) = Below(E, end(m)) + 1
      BY <1>7, <3>2, BelowStep
    <3>6. Below(E, end(m)) = m - 1
      BY <1>8, <3>1
    <3> QED BY <1>0, <3>4, <3>5, <3>6
  <2> QED BY <2>3, <2>4
<1> QED BY <1>7, <1>10, <1>11, <1>12 DEF HandsOutLines
Answer == Nat \X Nat \X Seq(Chars)

ToolType ==
  /\ tool \in {"grep", "uniq"} /\ flag \in BOOLEAN /\ countOnly \in BOOLEAN /\ files \in FileLists
  /\ tool = "uniq" => Len(files) = 1
  /\ next \in 1..(Len(files) + 1) /\ lineNum \in Nat /\ ret \in {0, 1}
  /\ prev \in Seq(Chars) /\ havePrev \in BOOLEAN /\ count \in Nat
  /\ printed \in Seq(Nat \X Seq(Chars)) /\ ended \in BOOLEAN
  /\ streaming \in BOOLEAN /\ matchCount \in Nat /\ fileRet \in {0, 1}
  /\ answers \in Seq(Answer) /\ unread \in SUBSET Nat
  /\ tool = "uniq" => ~streaming

(* The loop on the file in hand; a read that failed is the last one. *)
LoopInv == IInv /\ Whole /\ (pc = "read" => n >= 0)

(* The group that is still open has count lines, the last ones so far; the *)
(* groups in front of it were printed.                                     *)
OpenGroup ==
  LET s == LinesOf(text)
      o == Len(out) - count + 1
  IN  IF havePrev
      THEN /\ count \in 1..Len(out) /\ o \in Starts(s) /\ prev = s[o]
           /\ \A i \in 0..(count - 1) : s[o + i] = s[o]
           /\ Listed(printed, s, o)
      ELSE out = << >> /\ printed = << >>

UniqInv ==
  tool = "uniq" =>
    /\ pc # "done" => ~ended /\ next # 1
    /\ next = 1 => out = << >> /\ ~havePrev /\ printed = << >>
    /\ Sound /\ ret = 0 =>
         IF ended THEN Listed(printed, LinesOf(text), Len(LinesOf(text)) + 1) ELSE OpenGroup

(* grep is done with its first files, up to Top, and has selected those of *)
(* the lines that were handed out of the one in hand.                      *)
Top == IF streaming THEN next - 2 ELSE next - 1
Selected == {k \in 1..Len(out) : Matches(out[k].bytes)}

InHand ==
  /\ IF streaming
     THEN next # 1 /\ ~ended /\ files[next - 1] # Missing /\ text = files[next - 1]
     ELSE pc = "done"
  /\ lineNum = Len(out) /\ matchCount = Cardinality(Selected) /\ (fileRet = 0 <=> Selected # {})
  /\ unread \subseteq 1..Top /\ (ended => next > Len(files))

InOrderSoFar ==
  \A j, k \in 1..Len(answers) : j < k =>
    \/ answers[j][1] < answers[k][1]
    \/ answers[j][1] = answers[k][1] /\ answers[j][2] < answers[k][2]

AnsweredSoFar ==
  /\ \A a \in Answers : a[1] \in Readable /\ a[1] < next
  /\ \A i \in 1..Top : i \in Intact => About(i) = Expected(i)
  /\ streaming => About(next - 1) = IF countOnly THEN {}
                                    ELSE {<<next - 1, k, out[k].bytes>> : k \in Selected}

Verdict ==
  /\ (\E i \in 1..Top : i \in Intact /\ Hits(i) # {}) => ret = 0
  /\ ret = 0 => \E i \in 1..Top : i \in Readable /\ (i \notin Intact \/ Hits(i) # {})

GrepInv == tool = "grep" => InHand /\ InOrderSoFar /\ AnsweredSoFar /\ Verdict

JInv == ToolType /\ LoopInv /\ GrepInv /\ UniqInv

(* The loop's steps keep its invariants. *)
LEMMA LoopStep ==
  ASSUME LoopInv, Read \/ (\E eol \in Indices : Emit(eol)) \/ Shift
  PROVE  LoopInv'
<1>1. IInv'
  BY ReadInv, EmitInv, ShiftInv DEF LoopInv
<1>2. CASE Read
  <2>1. PICK k \in ReadResults : n' = k /\ pos' = pos + Received(k)
    BY <1>2 DEF Read
  <2>2. /\ pc' # "read" /\ out' = out /\ pos \in Nat /\ pos' \in Nat /\ pos <= pos'
    <3>1. Received(k) \in Nat
      BY ReadFits DEF LoopInv, IInv
    <3> QED BY <1>2, <2>1, <3>1 DEF Read, LoopInv, IInv, TypeOK
  <2>3. \A j \in 1..Len(out) : EndOf(out[j]) \in Nat
    BY DEF LoopInv, IInv, EndsBehind
  <2> QED BY <1>1, <2>2, <2>3 DEF LoopInv, Whole, EndOf
<1>3. ASSUME NEW eol \in Indices, Emit(eol) PROVE LoopInv'
  <2> DEFINE piece == [start |-> base + lineStart, bytes |-> Taken(eol)]
  <2>1. /\ out' = Append(out, piece) /\ UNCHANGED <<pos, pc, n>>
        /\ lineStart < bufLen /\ lineStart <= eol /\ eol <= bufLen
    BY <1>3 DEF Emit, IsEol
  <2>2. /\ lineStart \in Nat /\ bufLen \in Nat /\ eol \in Nat /\ base \in Nat /\ base + bufLen = pos
        /\ out \in Seq(Line) /\ bufLen <= Size - 1 /\ Size \in Nat
    BY SizeAssumption DEF LoopInv, IInv, TypeOK, Position, Indices, Line
  <2>3. Taken(eol) \in Seq(Chars) /\ Len(Taken(eol)) = eol - lineStart
    <3>1. \A i \in 1..(eol - lineStart) : buf[lineStart + i - 1] \in Chars
      <4> SUFFICES ASSUME NEW i \in 1..(eol - lineStart) PROVE buf[lineStart + i - 1] \in Chars
        OBVIOUS
      <4>1. lineStart + i - 1 \in Indices /\ lineStart <= lineStart + i - 1 /\ lineStart + i - 1 < bufLen
        BY <2>1, <2>2 DEF Indices
      <4>2. buf[lineStart + i - 1] = text[base + (lineStart + i - 1) + 1]
        BY <1>3, <4>1 DEF Emit, LoopInv, IInv, BufferFaithful
      <4>3. base + (lineStart + i - 1) + 1 \in 1..Len(text)
        BY <2>2, <4>1 DEF LoopInv, IInv, TypeOK
      <4>4. text[base + (lineStart + i - 1) + 1] \in Chars
        BY <4>3 DEF LoopInv, IInv, TypeOK
      <4> QED BY <4>2, <4>4
    <3>2. eol - lineStart \in Nat
      BY <2>1, <2>2
    <3>3. Taken(eol) \in [1..(eol - lineStart) -> Chars]
      BY <3>1 DEF Taken
    <3> QED BY <3>2, <3>3
  <2>4. piece \in Line /\ EndOf(piece) = base + eol /\ piece.bytes = Taken(eol)
    <3>1. piece.start = base + lineStart /\ piece.bytes = Taken(eol)
      OBVIOUS
    <3>2. base + lineStart \in Nat /\ (base + lineStart) + (eol - lineStart) = base + eol
      BY <2>1, <2>2
    <3> QED BY <2>3, <3>1, <3>2 DEF Line, EndOf
  <2>5. EndOf(piece) < pos \/ piece.bytes # << >>
    <3>1. CASE eol < bufLen
      BY <2>2, <2>4, <3>1
    <3>2. CASE ~ (eol < bufLen)
      <4>1. Len(piece.bytes) # 0
        BY <2>1, <2>2, <2>3, <2>4, <3>2
      <4> QED BY <4>1, EmptySeq
    <3> QED BY <3>1, <3>2
  <2> HIDE DEF piece
  <2>6. /\ Len(out') = Len(out) + 1 /\ out'[Len(out) + 1] = piece
        /\ \A k \in 1..Len(out) : out'[k] = out[k]
    BY <2>1, <2>2, <2>4, AppendProperties
  <2>7. \A k \in 1..Len(out') : k \in 1..Len(out) \/ k = Len(out) + 1
    BY <2>2, <2>6
  <2>8. Whole'
    BY <2>1, <2>5, <2>6, <2>7 DEF LoopInv, Whole, EndOf
  <2> QED BY <1>1, <2>1, <2>8 DEF LoopInv
<1>4. CASE Shift
  <2>1. n \in Int
    BY DEF LoopInv, IInv, TypeOK
  <2>2. UNCHANGED <<pos, n, out>> /\ (pc' = "read" => n >= 0)
    BY <1>4, <2>1 DEF Shift
  <2> QED BY <1>1, <2>2 DEF LoopInv, Whole, EndOf
<1> QED BY <1>2, <1>3, <1>4

(* A tool that has no file open, or opens one. *)
LEMMA LoopStarts ==
  ASSUME text \in Seq(Chars), pos = 0, base = 0, out = << >>, pc \in {"read", "done"},
         pc = "done" => text = << >>,
         buf = [i \in Indices |-> Nul], bufLen = 0, lineStart = 0, n = 0
  PROVE  LoopInv
<1> USE SizeAssumption, CharsAssumption
<1>1. TypeOK
  BY DEF TypeOK, Indices
<1>2. BufferFaithful /\ LinesFaithful /\ Position /\ EndsBehind /\ Starved
  BY DEF BufferFaithful, LinesFaithful, Position, EndsBehind, Starved, NextStart,
         NoNewline, Indices
<1>3. Whole
  BY DEF Whole
<1> QED BY <1>1, <1>2, <1>3 DEF LoopInv, IInv

(* No file was read yet. *)
Starting ==
  /\ text \in Seq(Chars) /\ pos = 0 /\ base = 0 /\ out = << >> /\ pc \in {"read", "done"}
  /\ pc = "done" => text = << >>
  /\ buf = [i \in Indices |-> Nul] /\ bufLen = 0 /\ lineStart = 0 /\ n = 0

(* The lines handed out, now and after a step. *)
LEMMA LinesNow == LoopInv /\ Sound => HandsOutLines /\ Short
<1>1. LoopInv /\ Sound => HandsOutLines
  BY LinesOut DEF LoopInv, Sound
<1>2. LoopInv /\ Sound => Short
  BY LinesShort, PrevAssumption DEF LoopInv, Sound, Short
<1> QED BY <1>1, <1>2
LEMMA LinesNext == LoopInv' /\ Sound' => HandsOutLines' /\ Short'
BY LinesNow, PTL

LEMMA LoopStartsNow == Starting => LoopInv
BY LoopStarts DEF Starting
LEMMA LoopStartsNext == Starting' => LoopInv'
BY LoopStartsNow, PTL

(* What a line handed out looks like. *)
LEMMA EmittedLine ==
  ASSUME IInv, NEW eol \in Indices, Emit(eol), IInv'
  PROVE  /\ Len(out) \in Nat /\ Len(out') = Len(out) + 1
         /\ out'[Len(out')].bytes \in Seq(Chars)
         /\ UNCHANGED <<text, n, pc>> /\ pc = "scan"
<1>1. /\ out' = Append(out, [start |-> base + lineStart, bytes |-> Taken(eol)])
      /\ UNCHANGED <<text, n, pc>> /\ pc = "scan"
  BY DEF Emit
<1>2. out \in Seq(Line) /\ out' \in Seq(Line)
  BY DEF IInv, TypeOK, Line
<1>3. Len(out) \in Nat /\ Len(out') = Len(out) + 1 /\ Len(out') \in 1..Len(out')
  BY <1>1, <1>2
<1>4. out'[Len(out')] \in Line
  BY <1>2, <1>3, ElementOfSeq
<1> QED BY <1>1, <1>3, <1>4 DEF Line

-------------------------------------------------------------------------------
(* grep.  What is to be selected depends on the command alone, and which   *)
(* files count on what failed.                                             *)
LEMMA SameFiles ==
  ASSUME UNCHANGED command
  PROVE  /\ Readable' = Readable /\ \A l : Matches(l)' = Matches(l)
         /\ \A i : Hits(i)' = Hits(i) /\ Expected(i)' = Expected(i)
<1>1. /\ tool' = tool /\ flag' = flag /\ countOnly' = countOnly /\ files' = files
  BY DEF command
<1>2. Readable' = Readable /\ \A l : Matches(l)' = Matches(l)
  BY <1>1 DEF Readable, Matches
<1>3. \A i : LinesOf(files[i])' = LinesOf(files[i])
  BY <1>1
<1>4. ASSUME NEW i PROVE Hits(i)' = Hits(i)
  BY <1>1, <1>2, <1>3 DEF Hits
<1>5. ASSUME NEW i PROVE Expected(i)' = Expected(i)
  BY <1>1, <1>3, <1>4 DEF Expected
<1> QED BY <1>2, <1>4, <1>5

LEMMA SameIntact ==
  ASSUME UNCHANGED command, NEW i, i \in unread' <=> i \in unread
  PROVE  (i \in Intact)' <=> i \in Intact
<1>1. Readable' = Readable /\ files' = files
  BY SameFiles DEF command
<1> QED BY <1>1 DEF Intact, FitsIn

(* One more answer. *)
LEMMA AnswerMore ==
  ASSUME answers \in Seq(Answer), NEW a \in Answer, answers' = Append(answers, a)
  PROVE  /\ answers' \in Seq(Answer) /\ Answers' = Answers \cup {a}
         /\ \A i : About(i)' = About(i) \cup {b \in {a} : b[1] = i}
         /\ (InOrderSoFar /\ \A b \in Answers : b[1] < a[1] \/ (b[1] = a[1] /\ b[2] < a[2]))
            => InOrderSoFar'
<1> DEFINE N == Len(answers)
<1>1. /\ answers' \in Seq(Answer) /\ N \in Nat /\ Len(answers') = N + 1
      /\ answers'[N + 1] = a /\ \A j \in 1..N : answers'[j] = answers[j]
  BY AppendProperties
<1>2. Answers' = Answers \cup {a}
  <2>1. \A j \in 1..(N + 1) : j \in 1..N \/ j = N + 1
    BY <1>1
  <2>2. \A j \in 1..N : j \in 1..(N + 1)
    BY <1>1
  <2>3. N + 1 \in 1..(N + 1)
    BY <1>1
  <2> HIDE DEF N
  <2>4. Answers' = {answers'[j] : j \in 1..(N + 1)} /\ Answers = {answers[j] : j \in 1..N}
    BY <1>1 DEF Answers, N
  <2> QED BY <1>1, <2>1, <2>2, <2>3, <2>4
<1>3. \A i : About(i)' = About(i) \cup {b \in {a} : b[1] = i}
  BY <1>2 DEF About
<1>4. ASSUME InOrderSoFar, \A b \in Answers : b[1] < a[1] \/ (b[1] = a[1] /\ b[2] < a[2])
      PROVE  InOrderSoFar'
  <2> SUFFICES ASSUME NEW j \in 1..(N + 1), NEW k \in 1..(N + 1), j < k
               PROVE  \/ answers'[j][1] < answers'[k][1]
                      \/ answers'[j][1] = answers'[k][1] /\ answers'[j][2] < answers'[k][2]
    BY <1>1 DEF InOrderSoFar
  <2>1. j \in 1..N /\ answers'[j] = answers[j] /\ answers[j] \in Answers
    BY <1>1 DEF Answers
  <2>2. CASE k = N + 1
    BY <1>1, <1>4, <2>1, <2>2
  <2>3. CASE k # N + 1
    <3>1. k \in 1..N /\ answers'[k] = answers[k]
      BY <1>1, <2>3
    <3> QED BY <1>4, <2>1, <3>1 DEF InOrderSoFar
  <2> QED BY <2>2, <2>3
<1> QED BY <1>1, <1>2, <1>3, <1>4

(* A step that answers nothing, fails nothing and stays at its file.       *)
LEMMA GrepWaits ==
  ASSUME JInv, tool = "grep", UNCHANGED <<command, next, grepVars, ret, text, out>>,
         ended' = ended, streaming \/ pc' = "done"
  PROVE  GrepInv'
<1>1. /\ InHand /\ InOrderSoFar /\ AnsweredSoFar /\ Verdict /\ tool' = tool /\ countOnly' = countOnly
      /\ files' = files /\ streaming' = streaming /\ lineNum' = lineNum /\ matchCount' = matchCount
      /\ fileRet' = fileRet /\ answers' = answers /\ unread' = unread
  BY DEF JInv, GrepInv, command, grepVars, streamVars
<1>2. /\ Readable' = Readable /\ Selected' = Selected /\ Top' = Top /\ Answers' = Answers
      /\ \A i : Hits(i)' = Hits(i) /\ Expected(i)' = Expected(i) /\ About(i)' = About(i)
      /\ \A i : (i \in Intact)' <=> i \in Intact
  BY <1>1, SameFiles, SameIntact DEF Selected, Top, Answers, About
<1>3. InHand'
  BY <1>1, <1>2 DEF InHand
<1>4. InOrderSoFar'
  BY <1>1 DEF InOrderSoFar
<1>5. AnsweredSoFar'
  BY <1>1, <1>2 DEF AnsweredSoFar
<1>6. Verdict'
  BY <1>1, <1>2 DEF Verdict
<1> QED BY <1>3, <1>4, <1>5, <1>6 DEF GrepInv

(* The next file is opened, or cannot be. *)
LEMMA GrepOpens ==
  ASSUME JInv, tool = "grep", OpenFile \/ OpenFails PROVE GrepInv'
<1>0. files \in Seq(Inputs \cup {Missing}) /\ Len(files) \in Nat
  BY FilesAssumption DEF JInv, ToolType
<1>1. /\ InHand /\ InOrderSoFar /\ AnsweredSoFar /\ Verdict /\ ~streaming /\ ~ended
      /\ next \in 1..Len(files) /\ next' = next + 1
      /\ UNCHANGED <<command, answers, unread, ret, ended>>
  BY DEF JInv, GrepInv, ToolType, OpenFile, OpenFails, Closed, grepVars
<1>2. tool' = tool /\ countOnly' = countOnly /\ files' = files
  BY <1>1 DEF command
<1>3. /\ Readable' = Readable /\ Answers' = Answers
      /\ \A i : Hits(i)' = Hits(i) /\ Expected(i)' = Expected(i) /\ About(i)' = About(i)
      /\ \A i : (i \in Intact)' <=> i \in Intact
  BY <1>1, SameFiles, SameIntact DEF Answers, About
<1>4. Top = next - 1 /\ unread \subseteq 1..Top
  BY <1>1 DEF Top, InHand
<1>5. InOrderSoFar'
  BY <1>1 DEF InOrderSoFar
<1>6. \A a \in Answers : a[1] \in Readable /\ a[1] < next /\ a[1] < next'
  <2>1. \A a \in Answers : a[1] \in 1..Len(files)
    BY <1>1 DEF AnsweredSoFar, Readable
  <2> QED BY <1>0, <1>1, <2>1 DEF AnsweredSoFar
<1>7. CASE OpenFile
  <2>1. /\ streaming' = TRUE /\ lineNum' = 0 /\ matchCount' = 0 /\ fileRet' = 1 /\ out' = << >>
        /\ text' = files[next] /\ files[next] # Missing
    BY <1>7 DEF OpenFile
  <2>2. Top' = Top /\ next' - 1 = next
    BY <1>1, <1>4, <2>1 DEF Top
  <2>3. Selected' = {} /\ Cardinality({}) = 0
    BY <2>1, FS_EmptySet DEF Selected
  <2>4. InHand'
    BY <1>0, <1>1, <1>2, <1>4, <2>1, <2>2, <2>3 DEF InHand
  <2>5. About(next) = {}
    BY <1>1, <1>6 DEF About
  <2>6. AnsweredSoFar'
    BY <1>1, <1>2, <1>3, <1>6, <2>1, <2>2, <2>3, <2>5 DEF AnsweredSoFar
  <2>7. Verdict'
    BY <1>1, <1>3, <2>2 DEF Verdict
  <2> QED BY <1>5, <2>4, <2>6, <2>7 DEF GrepInv
<1>8. CASE OpenFails
  <2>1. /\ files[next] = Missing /\ UNCHANGED <<grepVars, out, text, pc>>
    BY <1>8 DEF OpenFails, vars
  <2>2. /\ streaming' = FALSE /\ lineNum' = lineNum /\ matchCount' = matchCount /\ fileRet' = fileRet
    BY <1>1, <2>1 DEF grepVars, streamVars
  <2>3. Top' = next /\ next \notin Readable /\ next \notin Intact
    BY <1>1, <2>1, <2>2 DEF Top, Readable, Intact
  <2>4. \A i \in 1..next : i \in 1..Top \/ i = next
    BY <1>1, <1>4
  <2>5. \A i \in 1..Top : i \in 1..next
    BY <1>1, <1>4
  <2>6. Selected' = Selected
    BY <1>1, <2>1, SameFiles DEF Selected
  <2>7. InHand'
    BY <1>1, <1>2, <1>4, <2>1, <2>2, <2>3, <2>5, <2>6 DEF InHand
  <2>8. AnsweredSoFar'
    BY <1>1, <1>2, <1>3, <1>6, <2>2, <2>3, <2>4 DEF AnsweredSoFar
  <2>9. Verdict'
    BY <1>1, <1>3, <2>3, <2>4, <2>5 DEF Verdict
  <2> QED BY <1>2, <1>5, <2>7, <2>8, <2>9 DEF GrepInv
<1> QED BY <1>7, <1>8

(* A line handed out is selected or not. *)
LEMMA GrepTakesLine ==
  ASSUME JInv, tool = "grep", NEW eol \in Indices, Emit(eol), LoopInv',
         GrepLine(out'[Len(out')].bytes), UNCHANGED <<command, next, ended>>
  PROVE  GrepInv' /\ answers' \in Seq(Answer)
<1> DEFINE piece == out'[Len(out')].bytes
           m == Len(out)
           f == next - 1
           new == <<f, m + 1, piece>>
<1>0. files \in Seq(Inputs \cup {Missing}) /\ Len(files) \in Nat
  BY FilesAssumption DEF JInv, ToolType
<1>1. /\ InHand /\ InOrderSoFar /\ AnsweredSoFar /\ Verdict
      /\ UNCHANGED <<command, next, ended, streaming, unread, ret>>
  BY DEF JInv, GrepInv, GrepLine
<1>2. /\ m \in Nat /\ Len(out') = m + 1 /\ piece \in Seq(Chars) /\ UNCHANGED <<text, n, pc>>
      /\ pc = "scan" /\ out' = Append(out, out'[Len(out')])
  <2>1. out \in Seq(Line) /\ out' \in Seq(Line)
    BY DEF JInv, LoopInv, IInv, TypeOK, Line
  <2>2. m \in Nat /\ Len(out') = m + 1 /\ piece \in Seq(Chars) /\ UNCHANGED <<text, n, pc>> /\ pc = "scan"
    BY EmittedLine DEF JInv, LoopInv
  <2>3. out' = Append(out, out'[Len(out')])
    BY <2>1, <2>2 DEF Emit
  <2> QED BY <2>2, <2>3
<1>3. streaming /\ next \in 2..(Len(files) + 1) /\ f \in 1..Len(files) /\ f \in Readable
      /\ Top = f - 1 /\ Top' = f - 1 /\ lineNum = m /\ text = files[f] /\ files[f] # Missing /\ ~ended
  BY <1>0, <1>1, <1>2 DEF InHand, JInv, ToolType, Top, Readable
<1>4. \A k \in 1..m : out'[k] = out[k]
  <2>1. out \in Seq(Line) /\ out' \in Seq(Line)
    BY DEF JInv, LoopInv, IInv, TypeOK, Line
  <2>2. out'[Len(out')] \in Line
    BY <1>2, <2>1, ElementOfSeq
  <2> HIDE DEF m
  <2> QED BY <1>2, <2>1, <2>2, AppendProperties DEF m
<1>5. /\ Readable' = Readable /\ \A l : Matches(l)' = Matches(l)
      /\ \A i : Hits(i)' = Hits(i) /\ Expected(i)' = Expected(i)
      /\ \A i : (i \in Intact)' <=> i \in Intact
      /\ tool' = tool /\ countOnly' = countOnly /\ files' = files
  BY <1>1, SameFiles, SameIntact DEF command
<1>6. Selected' = IF Matches(piece) THEN Selected \cup {m + 1} ELSE Selected
  <2>1. \A k \in 1..(m + 1) : k \in 1..m \/ k = m + 1
    BY <1>2
  <2>2. \A k \in 1..m : k \in 1..(m + 1) /\ k # m + 1
    BY <1>2
  <2>3. m + 1 \in 1..(m + 1) /\ out'[m + 1].bytes = piece
    BY <1>2
  <2>4. Selected' = {k \in 1..(m + 1) : Matches(out'[k].bytes)}
    BY <1>2, <1>5 DEF Selected
  <2> HIDE DEF m, piece
  <2>5. Selected = {k \in 1..m : Matches(out[k].bytes)}
    BY DEF Selected, m
  <2> QED BY <1>4, <2>1, <2>2, <2>3, <2>4, <2>5
<1>7. IsFiniteSet(Selected) /\ m + 1 \notin Selected /\ Cardinality(Selected) \in Nat
  <2>1. Selected \subseteq 1..m
    BY DEF Selected
  <2> HIDE DEF m
  <2>2. IsFiniteSet(1..m)
    BY <1>2, FS_Interval
  <2>3. m + 1 \notin 1..m
    BY <1>2
  <2> QED BY <2>1, <2>2, <2>3, FS_Subset, FS_CardinalityType
<1>8. Verdict'
  BY <1>1, <1>3, <1>5 DEF Verdict
<1>9. InHand' <=> /\ matchCount' = Cardinality(Selected') /\ (fileRet' = 0 <=> Selected' # {})
  <2>1. lineNum' = m + 1
    BY <1>3 DEF GrepLine
  <2> QED BY <1>1, <1>2, <1>3, <1>5, <2>1 DEF InHand
<1>10. answers \in Seq(Answer) /\ new \in Answer
  <2>1. f \in Nat /\ m + 1 \in Nat
    BY <1>2, <1>3
  <2> HIDE DEF f, piece
  <2> QED BY <1>2, <2>1 DEF JInv, ToolType, Answer
<1>11. CASE ~Matches(piece)
  <2>1. UNCHANGED <<fileRet, matchCount, answers>> /\ Selected' = Selected
    BY <1>6, <1>11 DEF GrepLine
  <2>2. Answers' = Answers /\ \A i : About(i)' = About(i)
    BY <2>1 DEF Answers, About
  <2>3. InHand' /\ InOrderSoFar'
    BY <1>1, <1>9, <2>1 DEF InHand, InOrderSoFar
  <2>4. \A k \in Selected : out'[k] = out[k]
    BY <1>4 DEF Selected
  <2>5. {<<next - 1, k, out'[k].bytes>> : k \in Selected} = {<<next - 1, k, out[k].bytes>> : k \in Selected}
    BY <2>4
  <2>6. AnsweredSoFar'
    BY <1>1, <1>3, <1>5, <2>1, <2>2, <2>5 DEF AnsweredSoFar
  <2> QED BY <1>8, <1>10, <2>1, <2>3, <2>6 DEF GrepInv
<1>12. CASE Matches(piece)
  <2>1. /\ fileRet' = 0 /\ matchCount' = matchCount + 1 /\ Selected' = Selected \cup {m + 1}
        /\ answers' = IF countOnly THEN answers ELSE Append(answers, <<next - 1, lineNum', piece>>)
        /\ lineNum' = m + 1
    BY <1>3, <1>6, <1>12 DEF GrepLine
  <2>2. InHand'
    <3>1. Cardinality(Selected') = Cardinality(Selected) + 1
      BY <1>7, <2>1, FS_AddElement
    <3> QED BY <1>1, <1>9, <2>1, <3>1 DEF InHand
  <2>3. CASE countOnly
    <3>1. answers' = answers
      BY <2>1, <2>3
    <3>2. Answers' = Answers /\ \A i : About(i)' = About(i)
      BY <3>1 DEF Answers, About
    <3>3. InOrderSoFar'
      BY <1>1, <3>1 DEF InOrderSoFar
    <3>4. AnsweredSoFar'
      BY <1>1, <1>3, <1>5, <2>3, <3>2 DEF AnsweredSoFar
    <3> QED BY <1>8, <1>10, <2>2, <3>1, <3>3, <3>4 DEF GrepInv
  <2>4. CASE ~countOnly
    <3>1. answers' = Append(answers, new)
      BY <2>1, <2>4
    <3>2. About(f) = {<<f, k, out[k].bytes>> : k \in Selected}
      BY <1>1, <1>3, <2>4 DEF AnsweredSoFar
    <3>3. \A b \in Answers : b[1] < f \/ (b[1] = f /\ b[2] < m + 1)
      <4> SUFFICES ASSUME NEW b \in Answers PROVE b[1] < f \/ (b[1] = f /\ b[2] < m + 1)
        OBVIOUS
      <4>1. b[1] \in 1..Len(files) /\ b[1] < next
        BY <1>1 DEF AnsweredSoFar, Readable
      <4>2. b[1] < f \/ b[1] = f
        BY <1>3, <4>1
      <4>3. ASSUME b[1] = f PROVE b[2] < m + 1
        <5>1. PICK k \in Selected : b = <<f, k, out[k].bytes>>
          BY <3>2, <4>3 DEF About
        <5>2. b[2] = k
          BY <5>1
        <5> QED BY <1>2, <5>2 DEF Selected
      <4> QED BY <4>2, <4>3
    <3>4. new[1] = f /\ new[2] = m + 1
      OBVIOUS
    <3> HIDE DEF new
    <3>5. /\ answers' \in Seq(Answer) /\ Answers' = Answers \cup {new} /\ InOrderSoFar'
          /\ \A i : About(i)' = About(i) \cup {b \in {new} : b[1] = i}
      BY <1>1, <1>10, <3>1, <3>3, <3>4, AnswerMore
    <3>6. \A i \in 1..Top : About(i)' = About(i)
      <4>1. \A i \in 1..Top : i # f
        BY <1>3
      <4> QED BY <3>4, <3>5, <4>1
    <3>7. About(f)' = {<<f, k, out'[k].bytes>> : k \in Selected'}
      <4>1. About(f)' = About(f) \cup {new}
        BY <3>4, <3>5
      <4>2. new = <<f, m + 1, out'[m + 1].bytes>>
        BY <1>2 DEF new
      <4>3. \A k \in Selected : out'[k] = out[k]
        BY <1>4 DEF Selected
      <4> HIDE DEF f, m
      <4> QED BY <2>1, <3>2, <4>1, <4>2, <4>3
    <3>8. \A a \in Answers' : a[1] \in Readable /\ a[1] < next
      BY <1>1, <1>3, <3>4, <3>5 DEF AnsweredSoFar
    <3>9. AnsweredSoFar'
      BY <1>1, <1>3, <1>5, <2>4, <3>6, <3>7, <3>8 DEF AnsweredSoFar
    <3> QED BY <1>8, <2>2, <3>5, <3>9 DEF GrepInv
  <2> QED BY <2>3, <2>4
<1> QED BY <1>11, <1>12

(* grep_stream returns: what it selected of its file is what is to be      *)
(* selected, unless a read failed or a line filled the buffer.             *)
LEMMA GrepReturns ==
  ASSUME JInv, tool = "grep", StreamReturns PROVE GrepInv' /\ answers' \in Seq(Answer)
<1>0. /\ files \in Seq(Inputs \cup {Missing}) /\ Len(files) \in Nat
      /\ next \in 1..(Len(files) + 1) /\ next - 1 \in Nat
  BY FilesAssumption DEF JInv, ToolType
<1> PICK f \in Nat : f = next - 1
  BY <1>0
<1> DEFINE new == <<f, matchCount, << >>>>
<1>1. /\ InHand /\ InOrderSoFar /\ AnsweredSoFar /\ Verdict /\ streaming /\ pc = "done"
      /\ UNCHANGED <<command, next, ended, lineNum, matchCount, fileRet, text, pc, out, n>>
      /\ streaming' = FALSE /\ ret' = (IF fileRet = 0 THEN 0 ELSE ret)
      /\ answers' = IF countOnly THEN Append(answers, new) ELSE answers
      /\ unread' = IF n < 0 THEN unread \cup {f} ELSE unread
  BY DEF JInv, GrepInv, StreamReturns, vars
<1>2. /\ next \in 2..(Len(files) + 1) /\ f \in 1..Len(files) /\ f \in Readable
      /\ Top = f - 1 /\ Top' = f /\ text = files[f] /\ files[f] # Missing /\ ~ended
  BY <1>0, <1>1 DEF InHand, JInv, ToolType, Top, Readable
<1>3. /\ Readable' = Readable /\ Selected' = Selected
      /\ \A i : Hits(i)' = Hits(i) /\ Expected(i)' = Expected(i)
      /\ tool' = tool /\ countOnly' = countOnly /\ files' = files
  BY <1>1, SameFiles DEF command, Selected
<1>4. \A i \in 1..f : i \in 1..Top \/ i = f
  BY <1>2
<1>5. \A i \in 1..Top : i \in 1..f /\ i # f
  BY <1>2
<1>6. \A i \in 1..Top : (i \in Intact)' <=> i \in Intact
  <2>1. \A i \in 1..Top : i \in unread' <=> i \in unread
    BY <1>1, <1>5
  <2> QED BY <1>1, <2>1, SameIntact
<1>7. unread' \subseteq 1..Top'
  <2>1. unread \subseteq 1..Top /\ f \in 1..f
    BY <1>1, <1>2 DEF InHand
  <2> QED BY <1>1, <1>2, <1>5, <2>1
<1>8. (f \in Intact)' => /\ Selected = Hits(f) /\ \A k \in Selected : out[k].bytes = LinesOf(files[f])[k]
  <2> SUFFICES ASSUME (f \in Intact)'
               PROVE  Selected = Hits(f) /\ \A k \in Selected : out[k].bytes = LinesOf(files[f])[k]
    OBVIOUS
  <2>1. f \notin unread' /\ FitsIn(text, Size - 1)
    BY <1>1, <1>2, <1>3 DEF Intact, FitsIn
  <2>2. n >= 0
    <3>1. n \in Int
      BY DEF JInv, LoopInv, IInv, TypeOK
    <3> QED BY <1>1, <2>1, <3>1
  <2>3. HandsOutLines
    BY <2>1, <2>2, LinesOut DEF WellRead, JInv, LoopInv
  <2>4. Len(out) = Len(LinesOf(text)) /\ \A k \in 1..Len(out) : out[k].bytes = LinesOf(text)[k]
    BY <1>1, <2>3 DEF HandsOutLines
  <2>5. LinesOf(text) = LinesOf(files[f])
    BY <1>2
  <2>6. Selected = {k \in 1..Len(LinesOf(files[f])) : Matches(LinesOf(files[f])[k])}
    BY <2>4, <2>5 DEF Selected
  <2> QED BY <2>4, <2>5, <2>6 DEF Hits, Selected
<1>9. InHand'
  BY <1>1, <1>2, <1>3, <1>7 DEF InHand
<1>10. Verdict'
  <2>1. fileRet = 0 <=> Selected # {}
    BY <1>1 DEF InHand
  <2>2. ASSUME NEW i \in 1..f, (i \in Intact)', Hits(i) # {} PROVE ret' = 0
    <3>1. CASE i = f
      BY <1>1, <1>8, <2>1, <2>2, <3>1
    <3>2. CASE i \in 1..Top
      BY <1>1, <1>6, <2>2, <3>2 DEF Verdict
    <3> QED BY <1>4, <3>1, <3>2
  <2>3. ASSUME ret' = 0
        PROVE  \E i \in 1..f : i \in Readable /\ ((i \notin Intact)' \/ Hits(i) # {})
    <3>1. CASE fileRet = 0
      <4>1. f \in 1..f /\ f \in Readable /\ Selected # {}
        BY <1>2, <2>1, <3>1
      <4>2. (f \in Intact)' => Hits(f) # {}
        BY <1>8, <4>1
      <4> QED BY <4>1, <4>2
    <3>2. CASE fileRet # 0
      <4>1. ret = 0
        BY <1>1, <2>3, <3>2
      <4> QED BY <1>1, <1>5, <1>6, <4>1 DEF Verdict
    <3> QED BY <3>1, <3>2
  <2> QED BY <1>2, <1>3, <2>2, <2>3 DEF Verdict
<1>11. answers \in Seq(Answer) /\ new \in Answer
  <2>1. matchCount \in Nat /\ << >> \in Seq(Chars)
    BY DEF JInv, ToolType
  <2> QED BY <2>1 DEF JInv, ToolType, Answer
<1>12. \A b \in Answers : b[1] \in 1..Len(files) /\ b[1] < next
  BY <1>1 DEF AnsweredSoFar, Readable
<1>13. CASE countOnly
  <2>1. answers' = Append(answers, new) /\ new[1] = f
    BY <1>1, <1>13
  <2>2. About(f) = {}
    BY <1>1, <1>13 DEF AnsweredSoFar
  <2>3. \A b \in Answers : b[1] < f
    <3>1. \A b \in Answers : b[1] # f
      BY <2>2 DEF About
    <3> QED BY <1>2, <1>12, <3>1
  <2>4. new = <<f, Cardinality(Selected), << >>>>
    BY <1>1 DEF InHand
  <2> HIDE DEF new
  <2>5. /\ answers' \in Seq(Answer) /\ Answers' = Answers \cup {new} /\ InOrderSoFar'
        /\ \A i : About(i)' = About(i) \cup {b \in {new} : b[1] = i}
    BY <1>1, <1>11, <2>1, <2>3, AnswerMore
  <2>6. \A i \in 1..Top : About(i)' = About(i)
    BY <1>5, <2>1, <2>5
  <2>7. About(f)' = {new}
    <3>1. \A i : About(i)' = About(i) \cup {b \in {new} : b[1] = i}
      BY <2>5
    <3> QED BY <2>1, <2>2, <3>1, Zenon
  <2>8. (f \in Intact)' => About(f)' = Expected(f)
    BY <1>8, <1>13, <2>4, <2>7 DEF Expected
  <2>9. \A a \in Answers' : a[1] \in Readable /\ a[1] < next
    BY <1>1, <1>2, <2>1, <2>5 DEF AnsweredSoFar
  <2>10. AnsweredSoFar'
    BY <1>1, <1>2, <1>3, <1>4, <1>6, <2>6, <2>8, <2>9 DEF AnsweredSoFar
  <2> QED BY <1>9, <1>10, <2>5, <2>10 DEF GrepInv
<1>14. CASE ~countOnly
  <2>1. answers' = answers
    BY <1>1, <1>14
  <2>2. Answers' = Answers /\ \A i : About(i)' = About(i)
    BY <2>1 DEF Answers, About
  <2>3. InOrderSoFar'
    BY <1>1, <2>1 DEF InOrderSoFar
  <2>4. (f \in Intact)' => About(f) = Expected(f)
    <3>1. About(f) = {<<f, k, out[k].bytes>> : k \in Selected}
      BY <1>1, <1>14 DEF AnsweredSoFar
    <3>2. ASSUME (f \in Intact)' PROVE About(f) = {<<f, k, LinesOf(files[f])[k]>> : k \in Hits(f)}
      <4> QED BY <1>8, <3>1, <3>2
    <3> QED BY <1>14, <3>2 DEF Expected
  <2>5. AnsweredSoFar'
    BY <1>1, <1>2, <1>3, <1>4, <1>6, <2>2, <2>4 DEF AnsweredSoFar
  <2> QED BY <1>9, <1>10, <1>11, <2>1, <2>3, <2>5 DEF GrepInv
<1> QED BY <1>13, <1>14

(* When the last file is done, all are. *)
LEMMA GrepEnds ==
  ASSUME JInv, ended, tool = "grep" PROVE GrepAnswers
<1>0. files \in Seq(Inputs \cup {Missing}) /\ Len(files) \in Nat
  BY FilesAssumption DEF JInv, ToolType
<1>1. InHand /\ InOrderSoFar /\ AnsweredSoFar /\ Verdict
  BY DEF JInv, GrepInv
<1>2. ~streaming /\ next = Len(files) + 1 /\ Top = Len(files)
  <2>1. ~streaming /\ next > Len(files)
    BY <1>1 DEF InHand
  <2>2. next \in 1..(Len(files) + 1)
    BY DEF JInv, ToolType
  <2> QED BY <1>0, <2>1, <2>2 DEF Top
<1>3. \A i \in Readable : i \in 1..Top
  BY <1>2 DEF Readable
<1>4. \A i \in Intact : i \in Readable
  BY DEF Intact
<1> QED BY <1>1, <1>2, <1>3, <1>4 DEF InOrderSoFar, AnsweredSoFar, Verdict, GrepAnswers
-------------------------------------------------------------------------------
(* Before a file is opened nothing was handed out or printed. *)
LEMMA ToolInitInv == ToolInit => JInv
<1> SUFFICES ASSUME ToolInit PROVE JInv
  OBVIOUS
<1>1. ToolType
  <2>1. files \in Seq(Inputs \cup {Missing})
    BY FilesAssumption DEF ToolInit
  <2>2. next \in 1..(Len(files) + 1)
    BY <2>1 DEF ToolInit
  <2>3. tool = "uniq" => Len(files) = 1
    BY DEF ToolInit
  <2>4. ret \in {0, 1} /\ count \in Nat /\ lineNum \in Nat
    BY DEF ToolInit
  <2>5. prev \in Seq(Chars) /\ printed \in Seq(Nat \X Seq(Chars)) /\ answers \in Seq(Answer)
    BY DEF ToolInit
  <2>6. streaming = FALSE /\ matchCount \in Nat /\ fileRet \in {0, 1} /\ unread \in SUBSET Nat
    BY DEF ToolInit
  <2> QED BY <2>2, <2>3, <2>4, <2>5, <2>6, Zenon DEF ToolInit, ToolType
<1>2. LoopInv
  BY LoopStarts DEF ToolInit
<1>3. GrepInv
  <2> SUFFICES ASSUME tool = "grep" PROVE GrepInv
    BY DEF GrepInv
  <2>1. /\ pc = "done" /\ streaming = FALSE /\ lineNum = 0 /\ matchCount = 0 /\ fileRet = 1 /\ out = << >>
        /\ answers = << >> /\ unread = {} /\ ret = 1 /\ ended = FALSE /\ next = 1
    BY DEF ToolInit
  <2>2. Selected = {} /\ Cardinality({}) = 0 /\ Top = 0 /\ Answers = {}
    BY <2>1, FS_EmptySet DEF Selected, Top, Answers
  <2> QED BY <2>1, <2>2 DEF GrepInv, InHand, InOrderSoFar, AnsweredSoFar, Verdict
<1>4. UniqInv
  BY DEF ToolInit, UniqInv, OpenGroup
<1> QED BY <1>1, <1>2, <1>3, <1>4 DEF JInv

(* Opening a file, or failing to, begins with nothing handed out.          *)
LEMMA OpenInv == JInv /\ (OpenFile \/ OpenFails) => JInv'
<1>0. ASSUME JInv PROVE files \in Seq(Inputs \cup {Missing})
  BY <1>0, FilesAssumption DEF JInv, ToolType
<1>1. ASSUME JInv, OpenFile PROVE JInv'
  <2>1. /\ next \in 1..Len(files) /\ files[next] # Missing /\ next' = next + 1 /\ next' # 1
        /\ text' = files[next] /\ pos' = 0 /\ base' = 0 /\ out' = << >> /\ pc' = "read"
        /\ buf' = [i \in Indices |-> Nul] /\ bufLen' = 0 /\ lineStart' = 0 /\ n' = 0 /\ lineNum' = 0
        /\ streaming' = (tool = "grep") /\ matchCount' = 0 /\ fileRet' = 1
        /\ UNCHANGED <<tool, flag, countOnly, files, ret, answers, unread, prev, havePrev, count, printed, ended>>
        /\ ~ended
    BY <1>1 DEF OpenFile, Closed, JInv, ToolType, command, uniqVars
  <2>2. text' \in Seq(Chars)
    BY <1>0, <1>1, <2>1, ElementOfSeq, InputsAssumption
  <2>3. LoopInv'
    <3>1. Starting'
      BY <2>1, <2>2 DEF Starting, Indices
    <3> QED BY <3>1, LoopStartsNext
  <2>4. ToolType'
    BY <1>1, <2>1 DEF JInv, ToolType
  <2>5. GrepInv'
    BY <1>1, <2>1, GrepOpens DEF JInv, ToolType, GrepInv
  <2>6. tool = "uniq" => next = 1
    <3>1. tool = "uniq" => Len(files) = 1
      BY <1>1, Zenon DEF JInv, ToolType
    <3>2. next \in 1..Len(files)
      BY <2>1
    <3>3. Len(files) = 1 => next = 1
      BY <3>2
    <3> QED BY <3>1, <3>3
  <2>7. UniqInv'
    BY <1>1, <2>1, <2>6 DEF JInv, UniqInv, OpenGroup
  <2> QED BY <2>3, <2>4, <2>5, <2>7 DEF JInv
<1>2. ASSUME JInv, OpenFails PROVE JInv'
  <2>1. /\ pc = "done" /\ ~ended /\ next \in 1..Len(files) /\ next' = next + 1
        /\ IF tool = "uniq" THEN ret' = 1 /\ ended' = TRUE ELSE UNCHANGED <<ret, ended>>
        /\ UNCHANGED <<vars, tool, flag, countOnly, files, streaming, lineNum, matchCount, fileRet, answers, unread,
                       prev, havePrev, count, printed>>
    BY <1>2 DEF OpenFails, Closed, JInv, ToolType, command, grepVars, streamVars, uniqVars
  <2>2. ToolType'
    <3>1. next' \in 1..(Len(files') + 1)
      <4>1. Len(files) \in Nat
        BY <1>0, <1>2
      <4> QED BY <2>1, <4>1
    <3>2. ret' \in {0, 1} /\ ended' \in BOOLEAN
      BY <1>2, <2>1 DEF JInv, ToolType
    <3> QED BY <1>2, <2>1, <3>1, <3>2, Zenon DEF JInv, ToolType
  <2>3. LoopInv'
    BY <1>2, <2>1 DEF JInv, LoopInv, IInv, vars, TypeOK, BufferFaithful, LinesFaithful, Position,
                      EndsBehind, Starved, NextStart, NoNewline, Overflowed, EndOf, Whole
  <2>4. GrepInv'
    BY <1>2, <2>1, GrepOpens DEF JInv, ToolType, GrepInv
  <2>5. UniqInv'
    BY <1>2, <2>1 DEF JInv, UniqInv, vars, ToolType
  <2> QED BY <2>2, <2>3, <2>4, <2>5 DEF JInv
<1> QED BY <1>1, <1>2

(* The reference lines and groups only depend on the text and on -d. *)
LEMMA SameText ==
  ASSUME UNCHANGED <<text, flag>>
  PROVE  /\ LinesOf(text)' = LinesOf(text)
         /\ \A p, s, o : Listed(p, s, o)' <=> Listed(p, s, o)
BY DEF LinesOf, Listed, Shows, Below

(* Reading and moving the rest to the front print nothing. *)
LEMMA SilentInv ==
  ASSUME JInv, Read \/ Shift, UNCHANGED toolVars PROVE JInv'
<1>1. LoopInv'
  BY LoopStep DEF JInv
<1>2. UNCHANGED <<text, out>> /\ (pc' = "done" => n' <= 0) /\ pc # "done"
  <2>1. n \in Int
    BY DEF JInv, LoopInv, IInv, TypeOK
  <2> QED BY <2>1 DEF Read, Shift
<1>3. ToolType' /\ GrepInv'
  <2>1. UNCHANGED <<command, next, grepVars, uniqVars, ret, ended>>
    BY DEF toolVars
  <2>2. ToolType'
    BY <2>1 DEF JInv, ToolType, command, grepVars, streamVars, uniqVars
  <2>3. tool = "grep" => streaming
    BY <1>2 DEF JInv, GrepInv, InHand
  <2>4. tool = "grep" => GrepInv'
    BY <1>2, <2>1, <2>3, GrepWaits
  <2>5. tool' = tool
    BY <2>1 DEF command
  <2> QED BY <2>2, <2>4, <2>5 DEF GrepInv
<1>4. Sound' => Sound
  <2> SUFFICES ASSUME Sound' PROVE n >= 0
    BY <1>2 DEF Sound, WellRead, FitsIn
  <2>1. CASE Read
    BY <2>1 DEF Read, JInv, LoopInv
  <2>2. CASE Shift
    BY <2>2 DEF Shift, Sound, WellRead
  <2> QED BY <2>1, <2>2
<1>5. UniqInv'
  <2> SUFFICES ASSUME tool = "uniq" PROVE UniqInv'
    BY DEF UniqInv, toolVars, command
  <2>1. ~ended /\ next # 1 /\ (Sound /\ ret = 0 => OpenGroup)
    BY <1>2 DEF JInv, UniqInv
  <2>2. OpenGroup => OpenGroup'
    BY <1>2, SameText DEF OpenGroup, toolVars, uniqVars, command
  <2> QED BY <1>2, <1>4, <2>1, <2>2 DEF UniqInv, toolVars
<1> QED BY <1>1, <1>3, <1>5 DEF JInv

(* A line that fits in prev is kept as it is. *)
LEMMA KeptWhole ==
  ASSUME NEW piece \in Seq(Chars), Len(piece) < PrevSize
  PROVE  Kept(piece) = piece
<1>1. Len(piece) \in Nat
  OBVIOUS
<1>2. \A i \in 1..Len(piece) : piece[i] \in Chars
  OBVIOUS
<1>3. SubSeq(piece, 1, Len(piece)) = piece
  <2>1. /\ SubSeq(piece, 1, Len(piece)) \in Seq(Chars)
        /\ Len(SubSeq(piece, 1, Len(piece))) = IF 1 <= Len(piece) THEN Len(piece) - 1 + 1 ELSE 0
        /\ \A i \in 1..(Len(piece) - 1 + 1) : SubSeq(piece, 1, Len(piece))[i] = piece[1 + i - 1]
    BY <1>1, <1>2, SubSeqProperties
  <2> QED BY <1>1, <2>1, SeqEqual
<1> QED BY <1>3 DEF Kept

(* prev never has more than PrevSize - 1 bytes. *)
LEMMA KeptType ==
  ASSUME NEW piece \in Seq(Chars) PROVE Kept(piece) \in Seq(Chars)
<1> DEFINE k == IF Len(piece) < PrevSize THEN Len(piece) ELSE PrevSize - 1
<1>1. k \in Nat /\ k <= Len(piece) /\ Len(piece) \in Nat
  BY PrevAssumption
<1>2. \A i \in 1..k : piece[i] \in Chars
  BY <1>1
<1> HIDE DEF k
<1>3. SubSeq(piece, 1, k) \in Seq(Chars)
  BY <1>1, <1>2, SubSeqProperties
<1> QED BY <1>3 DEF Kept, k
(* What is printed is only appended to. *)
LEMMA PrintedMore ==
  ASSUME NEW p \in Seq(Nat \X Seq(Chars)), NEW c \in Nat, NEW piece \in Seq(Chars)
  PROVE  Append(p, <<c, piece>>) \in Seq(Nat \X Seq(Chars)) /\ Append(p, <<c, piece>>) # << >>
<1> DEFINE e == <<c, piece>>
           P == Nat \X Seq(Chars)
<1>1. e \in P /\ p \in Seq(P)
  OBVIOUS
<1> HIDE DEF e, P
<1>2. Append(p, e) \in Seq(P) /\ Append(p, e) # << >>
  BY <1>1, AppendProperties
<1> QED BY <1>2 DEF e, P

(* uniq's step on a line: the group goes on, or it is printed and another  *)
(* one begins.                                                             *)
LEMMA UniqGroupStep ==
  ASSUME JInv, tool = "uniq", NEW eol \in Indices, Emit(eol), LoopInv',
         UniqLine(out'[Len(out')].bytes), UNCHANGED <<command, next, ended>>,
         Sound', ret' = 0
  PROVE  OpenGroup'
<1> DEFINE s == LinesOf(text)
           m == Len(out)
           piece == out'[Len(out')].bytes
           o == m - count + 1
<1>1. /\ m \in Nat /\ Len(out') = m + 1 /\ piece \in Seq(Chars)
      /\ UNCHANGED <<text, n, pc>> /\ pc = "scan"
  BY EmittedLine DEF JInv, LoopInv
<1>2. Sound /\ ~ended /\ ret = 0
  BY <1>1 DEF Sound, WellRead, FitsIn, JInv, UniqInv, UniqLine
<1>3. OpenGroup
  BY <1>2 DEF JInv, UniqInv
<1>4. HandsOutLines /\ HandsOutLines' /\ Short'
  BY <1>2, LinesNow, LinesNext DEF JInv
<1>5. /\ s \in Seq(Seq(Chars)) /\ m + 1 <= Len(s) /\ piece = s[m + 1] /\ Len(piece) < PrevSize
      /\ s' = s /\ Len(s) \in Nat
  <2>1. s' = s
    BY <1>1, SameText DEF command
  <2>2. m + 1 \in 1..Len(out')
    BY <1>1
  <2>3. Len(out') <= Len(s') /\ out'[m + 1].bytes = s'[m + 1] /\ Len(out'[m + 1].bytes) < PrevSize
    BY <1>4, <2>2 DEF HandsOutLines, Short
  <2>4. s \in Seq(Seq(Chars))
    BY <1>4 DEF HandsOutLines
  <2> QED BY <1>1, <2>1, <2>3, <2>4
<1>6. Kept(piece) = piece
  BY <1>1, <1>5, KeptWhole
<1>7. /\ havePrev \in BOOLEAN /\ count \in Nat /\ printed \in Seq(Nat \X Seq(Chars))
      /\ flag \in BOOLEAN
  BY DEF JInv, ToolType
<1> DEFINE Open(h, c, p, q, k) ==
             IF h THEN /\ c \in 1..k /\ (k - c + 1) \in Starts(s) /\ p = s[k - c + 1]
                       /\ \A i \in 0..(c - 1) : s[(k - c + 1) + i] = s[k - c + 1]
                       /\ Listed(q, s, k - c + 1)
             ELSE k = 0 /\ q = << >>
<1>8. OpenGroup => Open(havePrev, count, prev, printed, m)
  <2>1. out = << >> => m = 0
    OBVIOUS
  <2> QED BY <2>1 DEF OpenGroup
<1>9. havePrev' /\ Open(TRUE, count', prev', printed', m + 1) => OpenGroup'
  BY <1>1, <1>5, SameText DEF OpenGroup, command
<1> SUFFICES havePrev' /\ Open(TRUE, count', prev', printed', m + 1)
  BY <1>9
<1>10. Open(havePrev, count, prev, printed, m)
  BY <1>3, <1>8
<1>11. /\ IF ~havePrev \/ piece # prev
          THEN /\ printed' = IF Shown THEN Append(printed, <<count, prev>>) ELSE printed
               /\ prev' = piece /\ havePrev' = TRUE /\ count' = 1
          ELSE count' = count + 1 /\ UNCHANGED <<printed, prev, havePrev>>
  BY <1>6 DEF UniqLine
<1> HIDE DEF s, m, piece
<1>12. CASE ~havePrev
  <2>1. m = 0 /\ printed' = << >> /\ prev' = piece /\ havePrev' /\ count' = 1
    BY <1>10, <1>11, <1>12 DEF Shown
  <2>2. 1 \in Starts(s)
    BY <1>5, <2>1 DEF Starts
  <2>3. Listed(<< >>, s, 1)
    <3>1. \A k \in Shows(s) : ~ (k < 1)
      BY <1>5 DEF Shows, Starts
    <3>2. {k \in Shows(s) : k < 1} = {}
      BY <3>1
    <3>3. Below(Shows(s), 1) = 0
      BY <3>2, FS_EmptySet DEF Below
    <3> QED BY <3>1, <3>3 DEF Listed
  <2>4. (m + 1) - 1 + 1 = 1 /\ 1 \in 1..(m + 1) /\ \A i \in 0..(1 - 1) : 1 + i = 1
    BY <2>1
  <2>5. prev' = s[1]
    BY <1>5, <2>1
  <2> QED BY <2>1, <2>2, <2>3, <2>4, <2>5
<1>13. CASE havePrev /\ piece # prev
  <2>1. /\ count \in 1..m /\ o \in Starts(s) /\ prev = s[o]
        /\ \A i \in 0..(count - 1) : s[o + i] = s[o]
        /\ Listed(printed, s, o)
    BY <1>10, <1>13
  <2>2. /\ printed' = (IF ~flag \/ count > 1 THEN Append(printed, <<count, s[o]>>) ELSE printed)
        /\ prev' = piece /\ havePrev' /\ count' = 1
    BY <1>11, <1>13, <2>1 DEF Shown
  <2>3. o \in Nat /\ o + count = m + 1 /\ count \in 1..(Len(s) - o + 1) /\ m \in Nat /\ count \in Nat
    BY <1>1, <1>5, <2>1 DEF m
  <2>4. s[o + count] # s[o]
    BY <1>5, <1>13, <2>1, <2>3
  <2> HIDE DEF o
  <2>5. Listed(IF ~flag \/ count > 1 THEN Append(printed, <<count, s[o]>>) ELSE printed, s, o + count)
    BY <1>5, <1>7, <2>1, <2>3, <2>4, ListingStep
  <2>6. m + 1 \in Starts(s)
    <3>1. count - 1 \in 0..(count - 1) /\ o + (count - 1) = m /\ (m + 1) - 1 = m /\ m + 1 \in 1..Len(s)
      BY <1>5, <2>1, <2>3
    <3>2. s[o + (count - 1)] = s[o]
      BY <2>1, <3>1, Zenon
    <3>3. s[m + 1] # s[(m + 1) - 1]
      BY <2>3, <2>4, <3>1, <3>2
    <3> QED BY <3>1, <3>3 DEF Starts
  <2>7. /\ (m + 1) - 1 + 1 = m + 1 /\ 1 \in 1..(m + 1)
        /\ \A i \in 0..(1 - 1) : (m + 1) + i = m + 1
    BY <2>3
  <2> QED BY <1>5, <2>2, <2>3, <2>5, <2>6, <2>7
<1>14. CASE havePrev /\ piece = prev
  <2>1. /\ count \in 1..m /\ o \in Starts(s) /\ prev = s[o]
        /\ \A i \in 0..(count - 1) : s[o + i] = s[o]
        /\ Listed(printed, s, o)
    BY <1>10, <1>14
  <2>2. count' = count + 1 /\ printed' = printed /\ prev' = prev /\ havePrev'
    BY <1>11, <1>14
  <2>3. m \in Nat /\ (m + 1) - (count + 1) + 1 = o /\ count + 1 \in 1..(m + 1) /\ o + count = m + 1
    BY <1>1, <2>1 DEF m
  <2>4. s[o + count] = s[o]
    BY <1>5, <1>14, <2>1, <2>3
  <2>5. \A i \in 0..((count + 1) - 1) : i \in 0..(count - 1) \/ i = count
    BY <2>1, <2>3
  <2> HIDE DEF o
  <2> QED BY <2>1, <2>2, <2>3, <2>4, <2>5
<1> QED BY <1>7, <1>12, <1>13, <1>14

(* A line handed to the tool.                                              *)
LEMMA EmitToToolInv == JInv /\ EmitToTool => JInv'
<1> SUFFICES ASSUME JInv, NEW eol \in Indices, Emit(eol),
                    IF tool = "grep" THEN GrepLine(out'[Len(out')].bytes)
                    ELSE UniqLine(out'[Len(out')].bytes),
                    UNCHANGED <<command, next, ended>>
             PROVE  JInv'
  BY DEF EmitToTool
<1> DEFINE piece == out'[Len(out')].bytes
<1>1. LoopInv'
  BY LoopStep DEF JInv
<1>2. /\ Len(out) \in Nat /\ Len(out') = Len(out) + 1 /\ piece \in Seq(Chars)
      /\ UNCHANGED <<text, n, pc>> /\ pc = "scan"
  BY <1>1, EmittedLine DEF JInv, LoopInv
<1>3. tool \in {"grep", "uniq"} /\ printed \in Seq(Nat \X Seq(Chars)) /\ prev \in Seq(Chars)
      /\ count \in Nat /\ lineNum \in Nat /\ ret \in {0, 1} /\ havePrev \in BOOLEAN
  BY DEF JInv, ToolType
<1> HIDE DEF piece
<1>4. CASE tool = "grep"
  <2>1. /\ lineNum' = lineNum + 1 /\ matchCount' \in {matchCount, matchCount + 1}
        /\ fileRet' \in {0, fileRet}
        /\ UNCHANGED <<command, next, ended, streaming, unread, prev, havePrev, count, printed, ret>>
    BY <1>4 DEF GrepLine, uniqVars
  <2>2. GrepInv' /\ answers' \in Seq(Answer)
    BY <1>1, <1>4, GrepTakesLine
  <2>3. ToolType'
    BY <2>1, <2>2 DEF JInv, ToolType, command
  <2>4. UniqInv'
    BY <1>4, <2>1 DEF UniqInv, command
  <2> QED BY <1>1, <2>2, <2>3, <2>4 DEF JInv
<1>5. CASE tool = "uniq"
  <2>1. UniqLine(piece)
    BY <1>5 DEF piece
  <2>2. /\ UNCHANGED <<command, next, ended, streaming, lineNum, matchCount, fileRet, answers, unread, ret>>
        /\ printed' \in {printed, Append(printed, <<count, prev>>)}
        /\ prev' \in {prev, Kept(piece)} /\ count' \in {1, count + 1, count} /\ havePrev' \in BOOLEAN
    BY <1>3, <2>1 DEF UniqLine, grepVars, streamVars
  <2>3. printed' \in Seq(Nat \X Seq(Chars)) /\ prev' \in Seq(Chars) /\ count' \in Nat
    <3>1. Append(printed, <<count, prev>>) \in Seq(Nat \X Seq(Chars)) /\ Kept(piece) \in Seq(Chars)
      BY <1>2, <1>3, PrintedMore, KeptType
    <3>2. count' \in Nat
      BY <1>3, <2>2
    <3> QED BY <1>3, <2>2, <3>1, <3>2, Zenon
  <2>4. ToolType'
    BY <2>2, <2>3 DEF JInv, ToolType, command
  <2>5. UniqInv'
    <3>1. ~ended /\ next # 1
      BY <1>2, <1>5 DEF JInv, UniqInv
    <3>2. Sound' /\ ret' = 0 => OpenGroup'
      BY <1>1, <1>5, <2>1, UniqGroupStep DEF piece
    <3> QED BY <1>2, <3>1, <3>2 DEF UniqInv
  <2>6. GrepInv'
    BY <1>5, <2>2 DEF GrepInv, command
  <2> QED BY <1>1, <2>4, <2>5, <2>6 DEF JInv
<1> QED BY <1>3, <1>4, <1>5

(* grep_stream returns, and uniq has none. *)
LEMMA StreamReturnsInv == JInv /\ StreamReturns => JInv'
<1> SUFFICES ASSUME JInv, StreamReturns PROVE JInv'
  OBVIOUS
<1>1. tool = "grep"
  BY DEF StreamReturns, JInv, ToolType
<1>2. GrepInv' /\ answers' \in Seq(Answer)
  BY <1>1, GrepReturns
<1>3. /\ UNCHANGED <<vars, command, next, lineNum, matchCount, fileRet, prev, havePrev, count, printed, ended>>
      /\ streaming' = FALSE /\ ret' \in {0, ret} /\ unread' \in {unread, unread \cup {next - 1}}
  BY DEF StreamReturns, uniqVars
<1>4. ToolType'
  <2>1. next - 1 \in Nat
    BY DEF JInv, ToolType
  <2> QED BY <1>2, <1>3, <2>1 DEF JInv, ToolType, command
<1>5. LoopInv'
  BY <1>3 DEF JInv, LoopInv, IInv, vars, TypeOK, BufferFaithful, LinesFaithful, Position,
              EndsBehind, Starved, NextStart, NoNewline, Overflowed, EndOf, Whole
<1>6. UniqInv'
  BY <1>1, <1>3 DEF UniqInv, command
<1> QED BY <1>2, <1>4, <1>5, <1>6 DEF JInv

(* After the last file uniq prints the group that is still open. *)
LEMMA FinishInv == JInv /\ Finish => JInv'
<1> SUFFICES ASSUME JInv, Finish PROVE JInv'
  OBVIOUS
<1>1. /\ pc = "done" /\ ~ended /\ next > Len(files) /\ ended' = TRUE
      /\ printed' = IF tool = "uniq" /\ Shown THEN Append(printed, <<count, prev>>) ELSE printed
      /\ UNCHANGED <<vars, command, next, grepVars, ret, prev, havePrev, count>>
  BY DEF Finish, Closed
<1>a. UNCHANGED <<tool, flag, countOnly, files, streaming, lineNum, matchCount, fileRet, answers, unread>>
  BY <1>1 DEF command, grepVars, streamVars
<1>2. /\ printed \in Seq(Nat \X Seq(Chars)) /\ prev \in Seq(Chars) /\ count \in Nat
      /\ havePrev \in BOOLEAN /\ flag \in BOOLEAN
  BY DEF JInv, ToolType
<1>3. LoopInv'
  BY <1>1 DEF JInv, LoopInv, IInv, vars, TypeOK, BufferFaithful, LinesFaithful, Position,
              EndsBehind, Starved, NextStart, NoNewline, Overflowed, EndOf, Whole
<1>4. ToolType'
  <2>1. printed' \in Seq(Nat \X Seq(Chars))
    BY <1>1, <1>2, PrintedMore
  <2> QED BY <1>1, <1>a, <2>1, Zenon DEF JInv, ToolType
<1>5. GrepInv'
  <2> SUFFICES ASSUME tool = "grep" PROVE GrepInv'
    BY <1>a DEF GrepInv
  <2>1. InHand /\ InOrderSoFar /\ AnsweredSoFar /\ Verdict
    BY DEF JInv, GrepInv
  <2>2. /\ Readable' = Readable /\ Selected' = Selected /\ Top' = Top /\ Answers' = Answers
        /\ \A i : Hits(i)' = Hits(i) /\ Expected(i)' = Expected(i) /\ About(i)' = About(i)
        /\ \A i : (i \in Intact)' <=> i \in Intact
    BY <1>1, <1>a, SameFiles, SameIntact DEF Selected, Top, Answers, About, vars
  <2>3. ~streaming
    BY DEF Finish, Closed
  <2>4. InHand'
    BY <1>1, <1>a, <2>1, <2>2, <2>3 DEF InHand, vars
  <2>5. InOrderSoFar'
    BY <1>a, <2>1 DEF InOrderSoFar
  <2>6. AnsweredSoFar'
    BY <1>1, <1>a, <2>1, <2>2, <2>3 DEF AnsweredSoFar
  <2>7. Verdict'
    BY <1>1, <2>1, <2>2 DEF Verdict
  <2> QED BY <2>4, <2>5, <2>6, <2>7 DEF GrepInv
<1>6. ASSUME tool = "uniq" PROVE next # 1
  <2>1. Len(files) = 1
    BY <1>6, Zenon DEF JInv, ToolType
  <2> QED BY <1>1, <2>1
<1>7. ASSUME tool = "uniq", Sound, ret = 0
      PROVE  Listed(printed', LinesOf(text), Len(LinesOf(text)) + 1)
  <2> DEFINE s == LinesOf(text)
             m == Len(out)
             o == m - count + 1
  <2>1. OpenGroup
    BY <1>1, <1>7 DEF JInv, UniqInv
  <2>2. s \in Seq(Seq(Chars)) /\ Len(s) = m /\ m \in Nat
    <3>1. HandsOutLines
      BY <1>7, LinesNow DEF JInv
    <3> QED BY <1>1, <3>1 DEF HandsOutLines
  <2>3. CASE ~havePrev
    <3>1. out = << >> /\ printed = << >> /\ printed' = << >>
      BY <1>1, <2>1, <2>3 DEF OpenGroup, Shown
    <3>2. m = 0
      BY <3>1, EmptySeq
    <3>3. Shows(s) = {}
      BY <2>2, <3>2 DEF Shows, Starts
    <3>4. Below(Shows(s), Len(s) + 1) = 0
      <4>1. {k \in Shows(s) : k < Len(s) + 1} = {}
        BY <3>3
      <4> QED BY <4>1, FS_EmptySet DEF Below
    <3> QED BY <3>1, <3>3, <3>4 DEF Listed
  <2>4. CASE havePrev
    <3>1. /\ count \in 1..m /\ o \in Starts(s) /\ prev = s[o]
          /\ \A i \in 0..(count - 1) : s[o + i] = s[o]
          /\ Listed(printed, s, o)
      BY <2>1, <2>4 DEF OpenGroup
    <3>2. printed' = IF ~flag \/ count > 1 THEN Append(printed, <<count, s[o]>>) ELSE printed
      BY <1>1, <1>7, <2>4, <3>1 DEF Shown
    <3> HIDE DEF s, m
    <3>3. /\ o \in Nat /\ o + count = m + 1 /\ count \in 1..(Len(s) - o + 1) /\ o + count = Len(s) + 1
          /\ ~ (o + count <= Len(s))
      BY <2>2, <3>1
    <3> HIDE DEF o
    <3>4. Listed(IF ~flag \/ count > 1 THEN Append(printed, <<count, s[o]>>) ELSE printed, s, o + count)
      BY <1>2, <2>2, <3>1, <3>3, ListingStep
    <3> QED BY <3>2, <3>3, <3>4 DEF s
  <2> QED BY <1>2, <2>3, <2>4
<1>8. UniqInv'
  <2> SUFFICES ASSUME tool' = "uniq", Sound', ret' = 0
               PROVE  Listed(printed, LinesOf(text), Len(LinesOf(text)) + 1)'
    <3>1. tool' = "uniq" => pc' = "done" /\ next' # 1 /\ ended'
      BY <1>1, <1>a, <1>6 DEF vars
    <3> QED BY <3>1 DEF UniqInv
  <2>1. tool = "uniq" /\ Sound /\ ret = 0
    BY <1>1, <1>a DEF Sound, WellRead, FitsIn, vars
  <2>2. Listed(printed', LinesOf(text), Len(LinesOf(text)) + 1)
    BY <1>7, <2>1
  <2>3. UNCHANGED <<text, flag>>
    BY <1>1, <1>a DEF vars
  <2>4. LinesOf(text)' = LinesOf(text)
    BY <2>3, SameText
  <2> QED BY <2>2, <2>3, <2>4 DEF Listed, Shows, Below
<1> QED BY <1>3, <1>4, <1>5, <1>8 DEF JInv
(* A step that changes nothing keeps the invariant. *)
LEMMA ToolStutters ==
  ASSUME JInv, UNCHANGED allVars PROVE JInv'
<1>1. LoopInv'
  BY DEF JInv, LoopInv, IInv, allVars, vars, TypeOK, BufferFaithful, LinesFaithful, Position,
         EndsBehind, Starved, NextStart, NoNewline, Overflowed, EndOf, Whole
<1>2. UNCHANGED <<command, next, grepVars, uniqVars, ret, ended, text, pc, out, n>>
  BY DEF allVars, vars, toolVars
<1>4. ToolType'
  BY <1>2 DEF JInv, ToolType, command, grepVars, streamVars, uniqVars
<1>5. GrepInv'
  <2>1. tool = "grep" => streaming \/ pc' = "done"
    BY <1>2 DEF JInv, GrepInv, InHand
  <2>2. tool = "grep" => GrepInv'
    BY <1>2, <2>1, GrepWaits
  <2>3. tool' = tool
    BY <1>2 DEF command
  <2> QED BY <2>2, <2>3 DEF GrepInv
<1>3. UniqInv'
  <2>1. UNCHANGED <<text, flag, pc, tool, ended, next, out, havePrev, printed, ret, n, count, prev>>
    BY <1>2 DEF command, uniqVars
  <2>2. LinesOf(text)' = LinesOf(text) /\ \A p, s, o : Listed(p, s, o)' <=> Listed(p, s, o)
    BY <2>1, SameText
  <2> QED BY <2>1, <2>2 DEF JInv, UniqInv, OpenGroup, Sound, WellRead, FitsIn
<1> QED BY <1>1, <1>3, <1>4, <1>5 DEF JInv

(* The inductive invariant of grep and uniq: the loop's, what grep has     *)
(* found, and the groups uniq has printed.                                 *)
THEOREM ToolInvariance == ToolSpec => []JInv
<1>1. JInv /\ [ToolNext]_allVars => JInv'
  <2> SUFFICES ASSUME JInv, [ToolNext]_allVars PROVE JInv'
    OBVIOUS
  <2>1. CASE OpenFile \/ OpenFails
    BY <2>1, OpenInv
  <2>2. CASE Finish
    BY <2>2, FinishInv
  <2>3. CASE EmitToTool
    BY <2>3, EmitToToolInv
  <2>4. CASE (Read \/ Shift) /\ UNCHANGED toolVars
    BY <2>4, SilentInv
  <2>6. CASE StreamReturns
    BY <2>6, StreamReturnsInv
  <2>5. CASE UNCHANGED allVars
    BY <2>5, ToolStutters
  <2> QED BY <2>1, <2>2, <2>3, <2>4, <2>5, <2>6 DEF ToolNext
<1> QED BY <1>1, ToolInitInv, PTL DEF ToolSpec

(* grep and uniq, which run the loop on one file after the other, see each *)
(* of them through an intact window.                                       *)
THEOREM ToolsSeeLines ==
  ToolSpec => [](TypeOK /\ BufferFaithful /\ LinesFaithful /\ NothingHeldBack)
<1>1. JInv => TypeOK /\ BufferFaithful /\ LinesFaithful /\ NothingHeldBack
  BY LoopEnds DEF JInv, LoopInv, IInv
<1> QED BY <1>1, ToolInvariance, PTL

(* grep answers every file it could read to its end with the lines or the  *)
(* number of lines that are selected there, and its status is that of all  *)
(* files together.                                                         *)
THEOREM GrepTells == ToolSpec => []GrepAnswers
<1>1. JInv => GrepAnswers
  BY GrepEnds DEF GrepAnswers
<1> QED BY <1>1, ToolInvariance, PTL

(* uniq prints the groups of its input, for every input, every size of its *)
(* two buffers and every cut of the reads.                                 *)
THEOREM UniqCounts == ToolSpec => []UniqGroups
<1>1. JInv => UniqGroups
  <2> SUFFICES ASSUME JInv, ended, tool = "uniq", ret = 0, Sound PROVE printed = Groups(LinesOf(text))
    BY DEF UniqGroups, Sound, WellRead
  <2>1. Listed(printed, LinesOf(text), Len(LinesOf(text)) + 1)
    BY DEF JInv, UniqInv
  <2>2. printed \in Seq(Nat \X Seq(Chars)) /\ LinesOf(text) \in Seq(Seq(Chars))
    BY LinesType DEF JInv, ToolType, LoopInv, IInv, TypeOK
  <2> QED BY <2>1, <2>2, ListedAll
<1> QED BY <1>1, ToolInvariance, PTL

(***************************************************************************)
(* read_line and the loop over it.                                         *)
(***************************************************************************)
(* What read_line takes from a line that does not end in its buffer.       *)
Width == LineMax - 1

RLType ==
  /\ input \in Seq(TextChar) /\ at \in 0..Len(input)
  /\ line \in Seq(TextChar) /\ Len(line) <= Width
  /\ phase \in {"reading", "returned", "ended"} /\ result \in Int
  /\ got \in Seq(Seq(TextChar)) /\ failed \in BOOLEAN

(* The result is the length of the line, or a failed read's. *)
Answered ==
  /\ phase = "returned" => result = Len(line) \/ (line = << >> /\ result = -1 /\ failed)
  /\ phase = "ended" => line = << >>

(* From the start of its line to z there are whole buffers and then line. *)
Tiled(z) ==
  \E s \in 0..z, q \in Nat :
    /\ s = 0 \/ input[s] = NewlineChar
    /\ \A i \in (s + 1)..z : input[i] # NewlineChar
    /\ z - s = q * Width + Len(line)

(* Short of the end of the file the loop is within a line, or at its end.  *)
WithinLine ==
  ~failed /\ at # Len(input) =>
    /\ phase = "reading" => Tiled(at)
    /\ phase = "returned" =>
         \/ Len(line) = Width /\ Tiled(at)
         \/ at # 0 /\ input[at] = NewlineChar /\ Tiled(at - 1)
    /\ phase = "ended" => at # 0 /\ input[at] = NewlineChar /\ Tiled(at - 1)

Passed == Joined[Len(got)] \o line = BytesTo[at]

RLInv == RLType /\ Answered /\ WithinLine /\ Passed

USE MaxAssumption, TextsAssumption

(* The two recursive definitions are the functions they describe. *)
LEMMA BytesToIs ==
  ASSUME input \in Seq(TextChar)
  PROVE  /\ BytesTo \in [0..Len(input) -> Seq(TextChar)] /\ BytesTo[0] = << >>
         /\ \A i \in 1..Len(input) :
              BytesTo[i] = IF input[i] = NewlineChar THEN BytesTo[i - 1]
                           ELSE Append(BytesTo[i - 1], input[i])
<1> DEFINE N == Len(input)
           Q == Seq(TextChar)
           add(x, i) == IF input[i] = NewlineChar THEN x ELSE Append(x, input[i])
           step == [p \in (1..N) \X Q |-> add(p[2], p[1])]
<1>0. N \in Nat /\ \A i \in 1..N : input[i] \in TextChar
  OBVIOUS
<1>1. \A x \in Q : \A i \in 1..N : add(x, i) \in Q
  BY <1>0
<1>6. << >> \in Q
  OBVIOUS
<1> HIDE DEF add, Q
<1>2. step \in [(1..N) \X Q -> Q]
  BY <1>1
<1> HIDE DEF step
<1>3. PICK f \in [0..N -> Q] : Follows(f, N, << >>, step)
  BY <1>0, <1>2, <1>6, RecursionExists, Zenon
<1>4. ASSUME NEW i \in 1..N PROVE f[i] = add(f[i - 1], i)
  <2>1. f[i - 1] \in Q
    BY <1>0, <1>3
  <2>2. f[i] = step[<<i, f[i - 1]>>]
    BY <1>3 DEF Follows
  <2> QED BY <2>1, <2>2 DEF step
<1>5. f = [i \in 0..N |-> IF i = 0 THEN << >> ELSE add(f[i - 1], i)]
  BY <1>0, <1>3, <1>4 DEF Follows
<1>7. BytesTo = [i \in 0..N |-> IF i = 0 THEN << >> ELSE add(BytesTo[i - 1], i)]
  BY <1>5, Zenon DEF BytesTo, add
<1>8. /\ BytesTo[0] = << >>
      /\ \A i \in 1..N : BytesTo[i] = add(BytesTo[i - 1], i)
  BY <1>0, <1>7
<1>9. BytesTo \in [0..N -> Q]
  <2> DEFINE R == {i \in 0..N : BytesTo[i] \in Q}
  <2>1. 0 \in R
    BY <1>0, <1>6, <1>8
  <2>2. \A i \in 1..N : i - 1 \in R => i \in R
    BY <1>0, <1>1, <1>8
  <2> HIDE DEF R
  <2>3. \A i \in 0..N : i \in R
    BY <1>0, <2>1, <2>2, Reaches
  <2>4. \A i \in 0..N : BytesTo[i] \in Q
    BY <2>3 DEF R
  <2> QED BY <1>7, <2>4
<1> QED BY <1>8, <1>9 DEF add, Q

LEMMA JoinedIs ==
  ASSUME got \in Seq(Seq(TextChar))
  PROVE  /\ Joined \in [0..Len(got) -> Seq(TextChar)] /\ Joined[0] = << >>
         /\ \A k \in 1..Len(got) : Joined[k] = Joined[k - 1] \o got[k]
<1> DEFINE N == Len(got)
           Q == Seq(TextChar)
           add(x, k) == x \o got[k]
           step == [p \in (1..N) \X Q |-> add(p[2], p[1])]
<1>0. N \in Nat
  OBVIOUS
<1>10. \A k \in 1..N : got[k] \in Q
  OBVIOUS
<1>1. \A x \in Q : \A k \in 1..N : add(x, k) \in Q
  BY <1>10, ConcatProperties
<1>6. << >> \in Q
  OBVIOUS
<1> HIDE DEF add, Q
<1>2. step \in [(1..N) \X Q -> Q]
  BY <1>1
<1> HIDE DEF step
<1>3. PICK f \in [0..N -> Q] : Follows(f, N, << >>, step)
  BY <1>0, <1>2, <1>6, RecursionExists, Zenon
<1>4. ASSUME NEW k \in 1..N PROVE f[k] = add(f[k - 1], k)
  <2>1. f[k - 1] \in Q
    BY <1>0, <1>3
  <2>2. f[k] = step[<<k, f[k - 1]>>]
    BY <1>3 DEF Follows
  <2> QED BY <2>1, <2>2 DEF step
<1>5. f = [k \in 0..N |-> IF k = 0 THEN << >> ELSE add(f[k - 1], k)]
  BY <1>0, <1>3, <1>4 DEF Follows
<1>7. Joined = [k \in 0..N |-> IF k = 0 THEN << >> ELSE add(Joined[k - 1], k)]
  <2>1. \E g : g = [k \in 0..Len(got) |-> IF k = 0 THEN << >> ELSE g[k - 1] \o got[k]]
    BY <1>5 DEF add
  <2> QED BY <2>1, Zenon DEF Joined, add
<1>8. /\ Joined[0] = << >>
      /\ \A k \in 1..N : Joined[k] = add(Joined[k - 1], k)
  <2>1. ASSUME NEW k \in 0..N PROVE Joined[k] = IF k = 0 THEN << >> ELSE add(Joined[k - 1], k)
    BY <1>7, Zenon
  <2>2. \A k \in 1..N : k \in 0..N /\ k # 0
    OBVIOUS
  <2>3. 0 \in 0..N
    BY <1>0
  <2> HIDE DEF N
  <2> QED BY <2>1, <2>2, <2>3, Zenon
<1>9. Joined \in [0..N -> Q]
  <2> DEFINE R == {k \in 0..N : Joined[k] \in Q}
  <2>1. 0 \in R
    BY <1>0, <1>6, <1>8
  <2>2. \A k \in 1..N : k - 1 \in R => k \in R
    BY <1>0, <1>1, <1>8
  <2> HIDE DEF R
  <2>3. \A k \in 0..N : k \in R
    BY <1>0, <2>1, <2>2, Reaches
  <2>4. \A k \in 0..N : Joined[k] \in Q
    BY <2>3 DEF R
  <2> QED BY <1>7, <2>4
<1> QED BY <1>8, <1>9 DEF add, Q

(* So they are after a step. *)
JoinedAs ==
  /\ Joined \in [0..Len(got) -> Seq(TextChar)] /\ Joined[0] = << >>
  /\ \A k \in 1..Len(got) : Joined[k] = Joined[k - 1] \o got[k]

LEMMA JoinedNow == got \in Seq(Seq(TextChar)) => JoinedAs
BY JoinedIs DEF JoinedAs
LEMMA JoinedNext == (got \in Seq(Seq(TextChar)))' => JoinedAs'
BY JoinedNow, PTL

(* One more line is joined behind the others. *)
LEMMA JoinOne ==
  ASSUME got \in Seq(Seq(TextChar)), line \in Seq(TextChar), got' = Append(got, line)
  PROVE  Joined'[Len(got')] = Joined[Len(got)] \o line
<1>1. /\ got' \in Seq(Seq(TextChar)) /\ Len(got') = Len(got) + 1 /\ Len(got) \in Nat
      /\ \A k \in 1..Len(got) : got'[k] = got[k]
      /\ got'[Len(got) + 1] = line
  BY AppendProperties
<1> DEFINE R == {k \in 0..Len(got) : Joined'[k] = Joined[k]}
<1>2. 0 \in R
  BY <1>1, JoinedNow, JoinedNext DEF JoinedAs
<1>3. ASSUME NEW k \in 1..Len(got), k - 1 \in R PROVE k \in R
  <2>1. k \in 1..Len(got') /\ Joined'[k - 1] = Joined[k - 1] /\ got'[k] = got[k]
    BY <1>1, <1>3
  <2>2. Joined'[k] = Joined'[k - 1] \o got'[k]
    BY <1>1, <2>1, JoinedNext DEF JoinedAs
  <2>3. Joined[k] = Joined[k - 1] \o got[k]
    BY JoinedNow DEF JoinedAs
  <2>4. k \in 0..Len(got)
    OBVIOUS
  <2>5. Joined'[k] = Joined[k]
    BY <2>1, <2>2, <2>3, Zenon
  <2> QED BY <2>4, <2>5
<1> HIDE DEF R
<1>4. \A k \in 0..Len(got) : k \in R
  BY <1>1, <1>2, <1>3, Reaches
<1>5. Joined'[Len(got)] = Joined[Len(got)]
  BY <1>1, <1>4 DEF R
<1>6. Joined'[Len(got) + 1] = Joined'[(Len(got) + 1) - 1] \o got'[Len(got) + 1]
  <2>1. Len(got) + 1 \in 1..Len(got')
    BY <1>1
  <2> QED BY <1>1, <2>1, JoinedNext DEF JoinedAs
<1>7. (Len(got) + 1) - 1 = Len(got)
  BY <1>1
<1> QED BY <1>1, <1>5, <1>6, <1>7

LEMMA Steady ==
  /\ input' = input => BytesTo' = BytesTo
  /\ got' = got => Joined' = Joined
BY Zenon DEF BytesTo, Joined

LEMMA WidthType == Width \in Nat \ {0} /\ LineMax - 1 = Width
BY MaxAssumption DEF Width

(* At the start nothing was read. *)
LEMMA RLStart == RLInit => RLInv
<1> SUFFICES ASSUME RLInit PROVE RLInv
  OBVIOUS
<1> USE DEF RLInit
<1>1. RLType
  <2>1. input \in Seq(TextChar) /\ Len(input) \in Nat
    BY TextsAssumption
  <2>2. line \in Seq(TextChar) /\ Len(line) = 0 /\ got \in Seq(Seq(TextChar))
    OBVIOUS
  <2>3. at \in 0..Len(input) /\ Len(line) <= Width /\ result \in Int
    BY <2>1, <2>2, WidthType
  <2>4. phase = "reading" /\ failed = FALSE
    OBVIOUS
  <2> HIDE DEF RLInit
  <2> QED BY <2>1, <2>2, <2>3, <2>4 DEF RLType
<1>2. Answered
  BY DEF Answered
<1>3. WithinLine
  <2>1. 0 = 0 * Width + Len(line)
    BY WidthType
  <2>2. Tiled(0)
    BY <2>1 DEF Tiled
  <2> QED BY <2>2 DEF WithinLine
<1>4. Passed
  <2>1. BytesTo[0] = << >> /\ Joined[0] = << >> /\ Len(got) = 0
    BY <1>1, BytesToIs, JoinedIs DEF RLType
  <2>2. << >> \o << >> = << >>
    OBVIOUS
  <2> QED BY <2>1, <2>2 DEF Passed
<1> QED BY <1>1, <1>2, <1>3, <1>4 DEF RLInv

(* A newline ends the line, another byte makes it one longer. *)
LEMMA ByteKeeps == RLInv /\ ReadByte => RLInv'
<1> SUFFICES ASSUME RLInv, ReadByte PROVE RLInv'
  OBVIOUS
<1>0. RLType /\ Answered /\ WithinLine /\ Passed
  BY DEF RLInv
<1>1. /\ input' = input /\ got' = got /\ failed' = failed /\ at' = at + 1
      /\ at \in Nat /\ at' \in 1..Len(input) /\ phase = "reading" /\ Len(line) < Width
      /\ input[at'] \in TextChar /\ Len(line) \in Nat /\ line \in Seq(TextChar)
  BY <1>0, WidthType DEF ReadByte, RLType
<1>2. BytesTo' = BytesTo /\ Joined' = Joined
  BY <1>1, Steady
<1>3. BytesTo[at'] = IF input[at'] = NewlineChar THEN BytesTo[at] ELSE Append(BytesTo[at], input[at'])
  <2>1. at' - 1 = at
    BY <1>1
  <2> QED BY <1>0, <1>1, <2>1, BytesToIs DEF RLType
<1>4. ~failed /\ at # Len(input) => Tiled(at)
  BY <1>0, <1>1 DEF WithinLine
<1>5. CASE input[at'] = NewlineChar
  <2>1. line' = line /\ phase' = "returned" /\ result' = Len(line)
    BY <1>5 DEF ReadByte, Return
  <2>2. RLType'
    BY <1>0, <1>1, <2>1 DEF RLType
  <2>3. Answered'
    BY <2>1 DEF Answered
  <2>4. WithinLine'
    <3>1. at # Len(input)
      BY <1>0, <1>1 DEF RLType
    <3>2. at' - 1 = at
      BY <1>1
    <3>3. Tiled(at) => Tiled(at - 1)'
      BY <1>1, <2>1, <3>2 DEF Tiled, Width
    <3> QED BY <1>1, <1>4, <1>5, <2>1, <3>1, <3>3 DEF WithinLine
  <2>5. Passed'
    BY <1>0, <1>1, <1>2, <1>3, <1>5, <2>1 DEF Passed
  <2> QED BY <2>2, <2>3, <2>4, <2>5 DEF RLInv
<1>6. CASE input[at'] # NewlineChar
  <2>1. line' = Append(line, input[at']) /\ phase' = phase /\ result' = result
    BY <1>6 DEF ReadByte
  <2>2. line' \in Seq(TextChar) /\ Len(line') = Len(line) + 1
    BY <1>1, <2>1, AppendProperties
  <2>3. RLType'
    BY <1>0, <1>1, <2>1, <2>2, WidthType DEF RLType, Width
  <2>4. Answered'
    BY <1>1, <2>1 DEF Answered
  <2>5. WithinLine'
    <3>1. at # Len(input)
      BY <1>0, <1>1 DEF RLType
    <3>2. ASSUME Tiled(at) PROVE Tiled(at)'
      <4>1. PICK s \in 0..at, q \in Nat :
              /\ s = 0 \/ input[s] = NewlineChar
              /\ \A i \in (s + 1)..at : input[i] # NewlineChar
              /\ at - s = q * Width + Len(line)
        BY <3>2 DEF Tiled
      <4>2. \A i \in (s + 1)..at' : input[i] # NewlineChar
        BY <1>1, <1>6, <4>1
      <4>3. at' - s = q * Width + Len(line')
        BY <1>1, <2>2, <4>1, WidthType
      <4>4. s \in 0..at'
        BY <1>1
      <4> QED BY <1>1, <4>1, <4>2, <4>3, <4>4 DEF Tiled, Width
    <3> QED BY <1>1, <1>4, <2>1, <3>1, <3>2 DEF WithinLine
  <2>6. Passed'
    <3> DEFINE j == Joined[Len(got)]
    <3>1. j \in Seq(TextChar)
      <4>1. got \in Seq(Seq(TextChar)) /\ Len(got) \in 0..Len(got)
        BY <1>0 DEF RLType
      <4> QED BY <4>1, JoinedIs
    <3>2. j \o line' = Append(j \o line, input[at'])
      <4> HIDE DEF j
      <4> QED BY <1>1, <2>1, <3>1
    <3> QED BY <1>0, <1>1, <1>2, <1>3, <1>6, <3>2 DEF Passed
  <2> QED BY <2>3, <2>4, <2>5, <2>6 DEF RLInv
<1> QED BY <1>5, <1>6

(* A read that gives nothing ends the call, and full line ends it. *)
LEMMA StopsKeep == RLInv /\ (ReadStops \/ BufferFull) => RLInv'
<1> SUFFICES ASSUME RLInv, ReadStops \/ BufferFull PROVE RLInv'
  OBVIOUS
<1>0. RLType /\ Answered /\ WithinLine /\ Passed
  BY DEF RLInv
<1>1. /\ input' = input /\ at' = at /\ got' = got /\ line' = line
      /\ phase = "reading" /\ phase' = "returned" /\ Len(line) \in Nat
  BY <1>0 DEF ReadStops, BufferFull, Return, RLType
<1>2. BytesTo' = BytesTo /\ Joined' = Joined
  BY <1>1, Steady
<1>3. RLType' /\ Answered'
  <2>1. CASE ReadStops
    <3>1. PICK r \in {-1} \cup (IF at = Len(input) THEN {0} ELSE {}) :
            /\ result' = (IF line = << >> THEN r ELSE Len(line))
            /\ failed' = (failed \/ r < 0)
      BY <2>1 DEF ReadStops, Return
    <3>2. r = 0 \/ r = -1
      BY <3>1
    <3>3. line = << >> => Len(line) = 0
      OBVIOUS
    <3>4. result' \in Int
      BY <1>1, <3>1, <3>2
    <3>5. failed' \in BOOLEAN /\ (r = -1 => failed')
      <4>1. (r < 0) = (r = -1)
        BY <3>2
      <4>2. failed' = (failed \/ r = -1)
        BY <3>1, <4>1, Zenon
      <4> QED BY <1>0, <4>2, Zenon DEF RLType
    <3>6. RLType'
      BY <1>0, <1>1, <3>4, <3>5 DEF RLType, Width
    <3>7. Answered'
      BY <1>1, <3>1, <3>2, <3>3, <3>5 DEF Answered
    <3> QED BY <3>6, <3>7
  <2>2. CASE BufferFull
    <3>1. result' = Len(line) /\ failed' = failed
      BY <2>2 DEF BufferFull, Return
    <3> QED BY <1>0, <1>1, <3>1 DEF RLType, Answered, Width
  <2> QED BY <2>1, <2>2
<1>4. WithinLine'
  <2>1. CASE ReadStops
    <3>1. failed' \/ at = Len(input)
      <4>1. PICK r \in {-1} \cup (IF at = Len(input) THEN {0} ELSE {}) :
              failed' = (failed \/ r < 0)
        BY <2>1 DEF ReadStops
      <4>2. CASE r < 0
        BY <4>1, <4>2, Zenon
      <4>3. CASE ~ (r < 0)
        BY <4>1, <4>3
      <4> QED BY <4>2, <4>3
    <3> QED BY <1>1, <3>1 DEF WithinLine
  <2>2. CASE BufferFull
    <3>1. failed' = failed /\ Len(line) = Width
      BY <2>2, WidthType DEF BufferFull
    <3>2. Tiled(at) => Tiled(at)'
      BY <1>1 DEF Tiled, Width
    <3> QED BY <1>0, <1>1, <3>1, <3>2 DEF WithinLine, Width
  <2> QED BY <2>1, <2>2
<1>5. Passed'
  BY <1>0, <1>1, <1>2 DEF Passed
<1> QED BY <1>3, <1>4, <1>5 DEF RLInv

(* The loop's body takes the line; without one the loop is over. *)
LEMMA TurnKeeps == RLInv /\ LoopTurn => RLInv'
<1> SUFFICES ASSUME RLInv, LoopTurn PROVE RLInv'
  OBVIOUS
<1>0. RLType /\ Answered /\ WithinLine /\ Passed
  BY DEF RLInv
<1>1. /\ input' = input /\ at' = at /\ result' = result /\ failed' = failed
      /\ phase = "returned" /\ Len(line) \in Nat /\ line \in Seq(TextChar) /\ at \in Nat
  BY <1>0 DEF LoopTurn, RLType
<1>2. BytesTo' = BytesTo
  BY <1>1, Steady
<1>3. result = Len(line) \/ (line = << >> /\ result = -1 /\ failed)
  BY <1>0, <1>1 DEF Answered
<1>4. ~failed /\ at # Len(input) =>
        \/ Len(line) = Width /\ Tiled(at)
        \/ at # 0 /\ input[at] = NewlineChar /\ Tiled(at - 1)
  BY <1>0, <1>1 DEF WithinLine
<1>5. CASE result > 0
  <2>1. /\ got' = Append(got, line) /\ line' = << >> /\ phase' = "reading"
        /\ Len(line') = 0 /\ line' \in Seq(TextChar)
    BY <1>5 DEF LoopTurn
  <2>2. got' \in Seq(Seq(TextChar))
    <3> DEFINE Q == Seq(TextChar)
    <3>1. got \in Seq(Q) /\ line \in Q
      BY <1>0 DEF RLType
    <3> HIDE DEF Q
    <3>2. got' \in Seq(Q)
      BY <2>1, <3>1, AppendProperties
    <3> QED BY <3>2 DEF Q
  <2>3. RLType' /\ Answered'
    BY <1>0, <1>1, <2>1, <2>2, WidthType DEF RLType, Answered, Width
  <2>4. WithinLine'
    <3> SUFFICES ASSUME ~failed, at # Len(input) PROVE Tiled(at)'
      BY <1>1, <2>1 DEF WithinLine
    <3>1. CASE Len(line) = Width /\ Tiled(at)
      <4>1. PICK s \in 0..at, q \in Nat :
              /\ s = 0 \/ input[s] = NewlineChar
              /\ \A i \in (s + 1)..at : input[i] # NewlineChar
              /\ at - s = q * Width + Len(line)
        BY <3>1 DEF Tiled
      <4>2. (q + 1) * Width = q * Width + Width
        BY WidthType
      <4>3. at - s = (q + 1) * Width + 0
        BY <3>1, <4>1, <4>2, WidthType
      <4>4. q + 1 \in Nat
        OBVIOUS
      <4> QED BY <1>1, <2>1, <4>1, <4>3, <4>4 DEF Tiled, Width
    <3>2. CASE at # 0 /\ input[at] = NewlineChar
      <4>1. at - at = 0 * Width + 0 /\ at \in 0..at /\ (at + 1)..at = {}
        BY <1>1, WidthType
      <4> QED BY <1>1, <2>1, <3>2, <4>1 DEF Tiled, Width
    <3> QED BY <1>4, <3>1, <3>2
  <2>5. Passed'
    <3>1. Joined'[Len(got')] = Joined[Len(got)] \o line
      BY <1>0, <2>1, JoinOne DEF RLType
    <3>2. (Joined[Len(got)] \o line) \o << >> = Joined[Len(got)] \o line
      <4>1. Joined[Len(got)] \in Seq(TextChar)
        <5>1. got \in Seq(Seq(TextChar)) /\ Len(got) \in 0..Len(got)
          BY <1>0 DEF RLType
        <5> QED BY <5>1, JoinedIs
      <4> QED BY <1>1, <4>1
    <3> QED BY <1>0, <1>1, <1>2, <2>1, <3>1, <3>2 DEF Passed
  <2> QED BY <2>3, <2>4, <2>5 DEF RLInv
<1>6. CASE ~ (result > 0)
  <2>1. phase' = "ended" /\ line' = line /\ got' = got
    BY <1>6 DEF LoopTurn
  <2>2. Joined' = Joined
    BY <2>1, Steady
  <2>3. line = << >>
    BY <1>1, <1>3, <1>6
  <2>4. RLType' /\ Answered'
    BY <1>0, <1>1, <2>1, <2>3 DEF RLType, Answered, Width
  <2>5. WithinLine'
    <3>1. Len(line) # Width
      BY <2>3, WidthType
    <3>2. Tiled(at - 1) => Tiled(at - 1)'
      BY <1>1, <2>1 DEF Tiled, Width
    <3> QED BY <1>1, <1>4, <2>1, <3>1, <3>2 DEF WithinLine
  <2>6. Passed'
    BY <1>0, <1>1, <1>2, <2>1, <2>2 DEF Passed
  <2> QED BY <2>4, <2>5, <2>6 DEF RLInv
<1> QED BY <1>5, <1>6

LEMMA StutterKeeps == RLInv /\ UNCHANGED rlVars => RLInv'
<1> SUFFICES ASSUME RLInv, UNCHANGED rlVars PROVE RLInv'
  OBVIOUS
<1>1. BytesTo' = BytesTo /\ Joined' = Joined
  BY Steady DEF rlVars
<1>2. \A z : Tiled(z)' = Tiled(z)
  BY DEF Tiled, Width, rlVars
<1>3. RLType' /\ Answered'
  BY DEF RLInv, RLType, Answered, Width, rlVars
<1>4. WithinLine'
  BY <1>2 DEF RLInv, WithinLine, Width, rlVars
<1>5. Passed'
  BY <1>1 DEF RLInv, Passed, rlVars
<1> QED BY <1>3, <1>4, <1>5 DEF RLInv

(* What the loop was given is what was read of the file, and a line in    *)
(* hand is tiled by whole buffers and what was read of it (io.h:73-91).    *)
THEOREM LoopInvariance == RLSpec => []RLInv
<1>1. RLInv /\ [RLNext]_rlVars => RLInv'
  BY ByteKeeps, StopsKeep, TurnKeeps, StutterKeeps DEF RLNext
<1> QED BY <1>1, RLStart, PTL DEF RLSpec

(* The line whose newline is at e begins behind the last newline before it. *)
LEMMA LengthIs ==
  ASSUME NEW s \in 0..Len(input), NEW e \in 1..Len(input), s < e, input \in Seq(TextChar),
         s = 0 \/ input[s] = NewlineChar, \A i \in (s + 1)..(e - 1) : input[i] # NewlineChar
  PROVE  LineLength(e) = e - 1 - s
<1> DEFINE Last(t) == t < e /\ \A u \in LineEnds : u < e => u <= t
           S == {0} \cup LineEnds
<1>0. Len(input) \in Nat
  OBVIOUS
<1>1. \A u \in LineEnds : u \in Nat /\ u # 0 /\ (u < e => u <= s)
  BY <1>0 DEF LineEnds
<1>2. s \in S /\ Last(s)
  <2>1. s # 0 => s \in LineEnds
    BY <1>0 DEF LineEnds
  <2> QED BY <1>1, <2>1
<1>3. ASSUME NEW t \in S, Last(t) PROVE t = s
  <2>1. t \in Nat /\ t <= s
    BY <1>1, <1>3
  <2>2. CASE s = 0
    BY <2>1, <2>2
  <2>3. CASE s # 0
    <3>1. s \in LineEnds
      BY <1>2, <2>3
    <3>2. s <= t
      BY <1>3, <3>1
    <3> QED BY <2>1, <3>2
  <2> QED BY <2>2, <2>3
<1> HIDE DEF Last, S
<1>4. (CHOOSE t \in S : Last(t)) = s
  BY <1>2, <1>3, Zenon
<1> QED BY <1>4 DEF LineLength, Last, S

(* A loop over read_line is given the file in pieces, and if no line of it *)
(* is a multiple of the buffer it ends at the end of the file (io.h:73-91).*)
THEOREM ReadsAll == RLSpec => []ReadsWholeFile
<1>1. RLInv => ReadsWholeFile
  <2> SUFFICES ASSUME RLInv PROVE ReadsWholeFile
    OBVIOUS
  <2>0. RLType /\ Answered /\ WithinLine /\ Passed
    BY DEF RLInv
  <2>1. ASSUME phase = "ended", ~failed, at # Len(input),
               \A e \in LineEnds \ {Len(input) + 1} : LineLength(e) % (LineMax - 1) # 0
        PROVE  FALSE
    <3>1. /\ at # 0 /\ input[at] = NewlineChar /\ Tiled(at - 1) /\ line = << >>
          /\ at \in 1..Len(input) /\ Len(input) \in Nat /\ input \in Seq(TextChar)
      BY <2>0, <2>1 DEF RLType, Answered, WithinLine
    <3>2. PICK s \in 0..(at - 1), q \in Nat :
            /\ s = 0 \/ input[s] = NewlineChar
            /\ \A i \in (s + 1)..(at - 1) : input[i] # NewlineChar
            /\ at - 1 - s = q * Width + Len(line)
      BY <3>1 DEF Tiled
    <3>3. at \in LineEnds \ {Len(input) + 1}
      BY <3>1 DEF LineEnds
    <3>4. LineLength(at) = at - 1 - s
      BY <3>1, <3>2, LengthIs
    <3>5. Len(line) = 0 /\ at - 1 - s \in Int /\ q \in Int /\ 0 \in 0..(Width - 1)
      BY <3>1, WidthType
    <3>6. at - 1 - s = Width * q + 0
      BY <3>2, <3>5, WidthType
    <3>7. (at - 1 - s) % Width = 0
      BY <3>5, <3>6, ModUnique, WidthType
    <3> QED BY <2>1, <3>3, <3>4, <3>7, WidthType
  <2> QED BY <2>0, <2>1 DEF ReadsWholeFile, Passed
<1> QED BY <1>1, LoopInvariance, PTL

===============================================================================
