----------------------------- MODULE Deflate_proofs -----------------------------
(***************************************************************************)
(* The decoder of DEFLATE: its blocks (module Inflate) and the codes that  *)
(* its symbols are written in (module Huffman).                            *)
(*                                                                         *)
(* Whatever the stream, the size of the window and of the output buffer    *)
(* and the way the writes are cut: a copy finds the bytes it asks for, and *)
(* the file receives what was decoded.                                     *)
(*                                                                         *)
(* inf_huff_decode stays inside its tables, for every table of code        *)
(* lengths, also one that declares more codes than there can be, and for   *)
(* every input.                                                            *)
(***************************************************************************)
EXTENDS Inflate, Huffman, SequenceTheorems, Lemmas

USE SizesAssumption, ByteAssumption

(* A copy in progress has something left, so that the shorter rest that    *)
(* follows is not negative; after a full buffer there is one flush and     *)
(* then the loop goes on; there is room in the buffer outside a flush.     *)
Control ==
  /\ pc \in {"header", "body", "copy"} => outpos < OutSize /\ flushed = 0
  /\ pc = "copy" \/ (pc = "flush" /\ back = "copy") => left > 0
  /\ pc \in {"body", "copy"} \/ (pc = "flush" /\ back \in {"body", "copy"}) =>
       blk <= Len(stream)
  /\ pc = "flush" => back # "header"
  /\ pc = "done" /\ result # -1 => outpos = 0 /\ flushed = 0 /\ result = Len(emitted)
  /\ pc # "done" => ~refused
  /\ refused => result = -1

IInv == TypeOK /\ WindowIsPast /\ OutputInOrder /\ Control

(* winpos and a position less than W behind it are different indices       *)
(* of the window: writing one byte leaves the W - 1 before it alone.       *)
LEMMA RingPositions ==
  ASSUME NEW x \in Int, NEW e \in 1..(W - 1) PROVE (x - e) % W # x % W
<1> SUFFICES ASSUME (x - e) % W = x % W PROVE FALSE
  OBVIOUS
<1> DEFINE q == x \div W
           r == (x - e) \div W
           m == x % W
<1>1. q \in Int /\ m \in Int /\ x = W * q + m
  BY ModRange
<1>2. r \in Int /\ x - e = W * r + m
  BY ModRange
<1> HIDE DEF q, r, m
<1>3. W * (q - r) = W * q - W * r /\ q - r \in Int /\ W * q \in Int /\ W * r \in Int
  BY <1>1, <1>2
<1>4. e = W * (q - r)
  BY <1>1, <1>2, <1>3
<1> QED BY <1>3, <1>4, NoMultiple

(* The empty window and buffers satisfy the invariant. *)
LEMMA InitInv == Init => IInv
<1> SUFFICES ASSUME Init PROVE IInv
  OBVIOUS
<1>1. TypeOK
  BY DEF Init, TypeOK
<1>2. WindowIsPast
  <2>1. \A d \in 1..W : (0 - d) % W \in 0..(W - 1)
    BY ModRange
  <2> QED BY <2>1 DEF Init, WindowIsPast, Earlier
<1>3. OutputInOrder /\ Control
  BY DEF Init, OutputInOrder, Control
<1> QED BY <1>1, <1>2, <1>3 DEF IInv

(* inf_emit keeps the window and the buffer in step with the output. *)
LEMMA EmitInv ==
  ASSUME IInv, NEW b \in Byte, NEW then \in {"body", "copy"}, Emit(b, then),
         pc \in {"body", "copy"}
  PROVE  /\ WindowIsPast' /\ OutputInOrder'
         /\ window' \in [0..(W - 1) -> Byte] /\ winpos' \in Nat
         /\ outbuf' \in [0..(OutSize - 1) -> Byte]
         /\ emitted' \in Seq(Byte) /\ written' = written
         /\ outpos' = outpos + 1 /\ outpos' \in 1..OutSize /\ flushed' = 0
         /\ IF outpos' = OutSize THEN pc' = "flush" /\ back' = then
                                 ELSE pc' = then /\ back' = back
         /\ result' = result /\ refused' = refused
<1>1. /\ window' = [window EXCEPT ![winpos % W] = b] /\ winpos' = winpos + 1
      /\ emitted' = Append(emitted, b)
      /\ outbuf' = [outbuf EXCEPT ![outpos] = b] /\ outpos' = outpos + 1
      /\ IF outpos' >= OutSize THEN pc' = "flush" /\ back' = then
                               ELSE pc' = then /\ UNCHANGED back
      /\ UNCHANGED <<flushed, written, result, refused>>
  BY DEF Emit
<1>2. /\ emitted \in Seq(Byte) /\ written \in Seq(Byte) /\ winpos \in Nat
      /\ outpos \in 0..(OutSize - 1) /\ flushed = 0 /\ ~refused
      /\ winpos = Len(emitted) /\ Len(emitted) \in Nat
      /\ Len(written) \in Nat /\ Len(written) + outpos = Len(emitted)
  BY DEF IInv, TypeOK, Control, WindowIsPast, OutputInOrder
<1>3. /\ emitted' \in Seq(Byte) /\ Len(emitted') = Len(emitted) + 1
      /\ emitted'[Len(emitted) + 1] = b
      /\ \A i \in 1..Len(emitted) : emitted'[i] = emitted[i]
  BY <1>1, <1>2, AppendProperties
<1>4. winpos % W \in 0..(W - 1) /\ window \in [0..(W - 1) -> Byte]
  <2>1. winpos \in Int
    BY <1>2
  <2>2. winpos % W \in 0..(W - 1)
    BY <2>1, ModRange
  <2> QED BY <2>2 DEF IInv, TypeOK
<1>5. WindowIsPast'
  <2> SUFFICES ASSUME NEW d \in 1..W PROVE window'[(winpos' - d) % W] = Earlier(d)'
    BY <1>1, <1>2, <1>3 DEF WindowIsPast
  <2>1. CASE d = 1
    <3>1. winpos' - d = winpos
      BY <1>1, <1>2, <2>1
    <3>2. window'[winpos % W] = b
      BY <1>1, <1>4
    <3>3. Earlier(d)' = b
      BY <1>2, <1>3, <2>1 DEF Earlier
    <3> QED BY <3>1, <3>2, <3>3
  <2>2. CASE d # 1
    <3> DEFINE e == d - 1
    <3>1. e \in 1..(W - 1) /\ winpos' - d = winpos - e /\ winpos - e \in Int
      BY <1>1, <1>2, <2>2
    <3>2. (winpos - e) % W # winpos % W /\ (winpos - e) % W \in 0..(W - 1)
      <4>1. winpos \in Int
        BY <1>2
      <4> QED BY <3>1, <4>1, RingPositions, ModRange
    <3>3. window'[(winpos - e) % W] = window[(winpos - e) % W]
      BY <1>1, <1>4, <3>2
    <3>4. window[(winpos - e) % W] = Earlier(e)
      BY <3>1 DEF IInv, WindowIsPast
    <3>5. Earlier(d)' = Earlier(e)
      BY <1>2, <1>3, <3>1 DEF Earlier
    <3> QED BY <3>1, <3>3, <3>4, <3>5
  <2> QED BY <2>1, <2>2
<1>6. OutputInOrder'
  <2>1. \A i \in 1..Len(written) : i \in 1..Len(emitted) /\ emitted'[i] = written[i]
    BY <1>2, <1>3 DEF IInv, OutputInOrder
  <2>2. ASSUME NEW i \in 0..outpos
        PROVE  outbuf'[i] = emitted'[Len(written) + i + 1]
    <3>1. CASE i = outpos
      BY <1>1, <1>2, <1>3, <3>1 DEF IInv, TypeOK
    <3>2. CASE i # outpos
      <4>1. outbuf'[i] = outbuf[i] /\ i \in 0..(outpos - 1)
        BY <1>1, <1>2, <3>2 DEF IInv, TypeOK
      <4>2. outbuf[i] = emitted[Len(written) + (i - 0) + 1]
        BY <1>2, <4>1 DEF IInv, OutputInOrder
      <4>3. Len(written) + i + 1 \in 1..Len(emitted)
        BY <1>2, <4>1
      <4> QED BY <1>3, <4>1, <4>2, <4>3
    <3> QED BY <3>1, <3>2
  <2> QED BY <1>1, <1>2, <1>3, <2>1, <2>2 DEF OutputInOrder
<1>7. outpos' \in 1..OutSize /\ outbuf' \in [0..(OutSize - 1) -> Byte]
  BY <1>1, <1>2 DEF IInv, TypeOK
<1>8. window' \in [0..(W - 1) -> Byte]
  BY <1>1, <1>4
<1> QED BY <1>1, <1>2, <1>3, <1>5, <1>6, <1>7, <1>8

(* What a block that was entered yields next is a symbol. *)
LEMMA NextSymbolType ==
  ASSUME IInv, pc = "body"
  PROVE  NextSymbol \in Symbol
<1>1. stream \in Seq(Block) /\ blk \in 1..Len(stream)
  BY StreamsAssumption DEF IInv, TypeOK, Control
<1>2. Current \in Block
  BY <1>1, ElementOfSeq DEF Current
<1>3. Current.symbols \in Seq(Symbol) /\ Current.zero \in Symbol
  BY <1>2 DEF Block
<1>4. EndOfBlock \in Symbol
  BY DEF Symbol
<1>5. sym < Len(Current.symbols) => Current.symbols[sym + 1] \in Symbol
  BY <1>3, ElementOfSeq DEF IInv, TypeOK
<1> QED BY <1>3, <1>4, <1>5 DEF NextSymbol

(* What the parts of a symbol are. *)
LEMMA SymbolParts ==
  ASSUME NEW y \in Symbol
  PROVE  /\ y.kind \in {"literal", "copy", "end", "bad"}
         /\ y.byte \in Byte
         /\ y.kind = "copy" => y.length \in 1..MaxCopy /\ y.distance \in 1..W
BY DEF Symbol, Literal, Copy, EndOfBlock, BadSymbol

(* Everything but a byte emitted and a flush leaves the output alone. *)
LEMMA QuietStep ==
  ASSUME IInv, UNCHANGED <<window, winpos, outVars, emitted>>
  PROVE  WindowIsPast' /\ OutputInOrder'
BY DEF IInv, WindowIsPast, OutputInOrder, Earlier, outVars

(* Reading a block header. *)
LEMMA HeaderInv == IInv /\ Header => IInv'
<1> SUFFICES ASSUME IInv, Header PROVE IInv'
  OBVIOUS
<1>1. TypeOK'
  BY DEF IInv, TypeOK, Header, Return, outVars
<1>2. Control'
  BY DEF IInv, TypeOK, Control, Header, Return, outVars, BlockRefused, Truncated
<1> QED BY <1>1, <1>2, QuietStep DEF IInv, Header, outVars

(* A literal byte. *)
LEMMA LiteralInv == IInv /\ EmitLiteral => IInv'
<1> SUFFICES ASSUME IInv, EmitLiteral PROVE IInv'
  OBVIOUS
<1> DEFINE b == NextSymbol.byte
<1>1. /\ pc = "body" /\ Emit(b, "body") /\ UNCHANGED <<stream, blk, left, distance>>
      /\ sym' = sym + (IF sym < Len(Current.symbols) THEN 1 ELSE 0)
  BY DEF EmitLiteral
<1>2. b \in Byte
  BY <1>1, NextSymbolType, SymbolParts
<1> HIDE DEF b
<1>3. /\ WindowIsPast' /\ OutputInOrder'
      /\ window' \in [0..(W - 1) -> Byte] /\ winpos' \in Nat
      /\ outbuf' \in [0..(OutSize - 1) -> Byte]
      /\ emitted' \in Seq(Byte) /\ written' = written
      /\ outpos' = outpos + 1 /\ outpos' \in 1..OutSize /\ flushed' = 0
      /\ IF outpos' = OutSize THEN pc' = "flush" /\ back' = "body"
                              ELSE pc' = "body" /\ back' = back
      /\ result' = result /\ refused' = refused
  BY <1>1, <1>2, EmitInv
<1>4. TypeOK'
  <2>1. sym' \in Nat /\ back' \in {"header", "body", "copy", "done"}
        /\ pc' \in {"header", "body", "copy", "flush", "done"}
    BY <1>1, <1>3 DEF IInv, TypeOK
  <2>2. outpos' \in 0..OutSize /\ flushed' \in 0..outpos'
    BY <1>3
  <2> QED BY <1>1, <1>3, <2>1, <2>2 DEF IInv, TypeOK
<1>5. Control'
  BY <1>1, <1>3 DEF IInv, TypeOK, Control
<1> QED BY <1>3, <1>4, <1>5 DEF IInv

(* The start of a copy. *)
LEMMA BeginCopyInv == IInv /\ BeginCopy => IInv'
<1> SUFFICES ASSUME IInv, BeginCopy PROVE IInv'
  OBVIOUS
<1>1. NextSymbol.length \in 1..MaxCopy /\ NextSymbol.distance \in 1..W
  BY NextSymbolType, SymbolParts DEF BeginCopy
<1>2. TypeOK'
  BY <1>1 DEF IInv, TypeOK, BeginCopy, outVars
<1>3. Control'
  BY <1>1 DEF IInv, TypeOK, Control, BeginCopy, outVars
<1> QED BY <1>2, <1>3, QuietStep DEF IInv, BeginCopy

(* A byte of a copy: it is taken from within the window. *)
LEMMA CopyByteInv == IInv /\ CopyByte => IInv'
<1> SUFFICES ASSUME IInv, CopyByte PROVE IInv'
  OBVIOUS
<1> DEFINE b == window[(winpos - distance) % W]
           then == IF left' = 0 THEN "body" ELSE "copy"
<1>1. /\ pc = "copy" /\ left > 0 /\ left' = left - 1
      /\ Emit(b, then) /\ UNCHANGED <<stream, blk, sym, distance>>
  BY DEF CopyByte
<1>2. b \in Byte
  <2>1. winpos - distance \in Int
    BY DEF IInv, TypeOK
  <2>2. (winpos - distance) % W \in 0..(W - 1)
    BY <2>1, ModRange
  <2> QED BY <2>2 DEF IInv, TypeOK
<1>3. then \in {"body", "copy"} /\ (then = "copy" => left' > 0) /\ left' \in 0..MaxCopy
  BY <1>1 DEF IInv, TypeOK
<1> HIDE DEF b, then
<1>4. /\ WindowIsPast' /\ OutputInOrder'
      /\ window' \in [0..(W - 1) -> Byte] /\ winpos' \in Nat
      /\ outbuf' \in [0..(OutSize - 1) -> Byte]
      /\ emitted' \in Seq(Byte) /\ written' = written
      /\ outpos' = outpos + 1 /\ outpos' \in 1..OutSize /\ flushed' = 0
      /\ IF outpos' = OutSize THEN pc' = "flush" /\ back' = then
                              ELSE pc' = then /\ back' = back
      /\ result' = result /\ refused' = refused
  BY <1>1, <1>2, <1>3, EmitInv
<1>5. TypeOK'
  <2>1. back' \in {"header", "body", "copy", "done"}
        /\ pc' \in {"header", "body", "copy", "flush", "done"}
    BY <1>3, <1>4 DEF IInv, TypeOK
  <2>2. outpos' \in 0..OutSize /\ flushed' \in 0..outpos'
    BY <1>4
  <2> QED BY <1>1, <1>3, <1>4, <2>1, <2>2 DEF IInv, TypeOK
<1>6. Control'
  BY <1>1, <1>3, <1>4 DEF IInv, TypeOK, Control
<1> QED BY <1>4, <1>5, <1>6 DEF IInv

(* The end of a block, and a code that stands for nothing. *)
LEMMA BlockEndsInv == IInv /\ (BlockEnds \/ BadCode) => IInv'
<1>1. ASSUME IInv, BlockEnds PROVE IInv'
  <2>1. TypeOK'
    BY <1>1 DEF IInv, TypeOK, BlockEnds, outVars
  <2>2. Control'
    BY <1>1 DEF IInv, TypeOK, Control, BlockEnds, outVars
  <2> QED BY <1>1, <2>1, <2>2, QuietStep DEF IInv, BlockEnds
<1>2. ASSUME IInv, BadCode PROVE IInv'
  <2>1. TypeOK' /\ Control'
    BY <1>2 DEF IInv, TypeOK, Control, BadCode, Return, inVars, outVars
  <2> QED BY <1>2, <2>1, QuietStep DEF IInv, BadCode
<1> QED BY <1>1, <1>2

(* A write takes over what is at the front of the unwritten part.          *)
LEMMA FlushWriteInv == IInv /\ FlushWrite => IInv'
<1> SUFFICES ASSUME IInv, FlushWrite PROVE IInv'
  OBVIOUS
<1>1. PICK w \in 1..(outpos - flushed) :
        /\ written' = written \o [i \in 1..w |-> outbuf[flushed + i - 1]]
        /\ flushed' = flushed + w
  BY DEF FlushWrite
<1>2. /\ pc = "flush"
      /\ UNCHANGED <<inVars, pc, back, window, winpos, outbuf, outpos, result, emitted, refused>>
  BY DEF FlushWrite
<1> DEFINE chunk == [i \in 1..w |-> outbuf[flushed + i - 1]]
<1>3. /\ outpos \in 0..OutSize /\ flushed \in Nat /\ w \in Nat /\ flushed + w <= outpos
      /\ written \in Seq(Byte) /\ Len(written) \in Nat
      /\ outbuf \in [0..(OutSize - 1) -> Byte]
      /\ Len(written) + (outpos - flushed) = Len(emitted)
  BY <1>1 DEF IInv, TypeOK, OutputInOrder
<1>4. /\ chunk \in Seq(Byte) /\ Len(chunk) = w /\ written' = written \o chunk
      /\ \A j \in 1..w : chunk[j] = outbuf[flushed + j - 1]
  <2>1. chunk \in [1..w -> Byte]
    BY <1>1, <1>3
  <2> QED BY <1>1, <1>3, <2>1
<1> HIDE DEF chunk
<1>5. written' \in Seq(Byte) /\ Len(written') = Len(written) + w
  BY <1>3, <1>4, ConcatProperties
<1>9. /\ \A i \in 1..Len(written) : written'[i] = written[i]
      /\ \A j \in 1..w : written'[Len(written) + j] = outbuf[flushed + j - 1]
  BY <1>3, <1>4, ConcatProperties
<1>6. TypeOK'
  BY <1>1, <1>2, <1>3, <1>5 DEF IInv, TypeOK, inVars
<1>7. OutputInOrder'
  <2>1. ASSUME NEW i \in 1..Len(written') PROVE written'[i] = emitted[i]
    <3>1. CASE i <= Len(written)
      <4>1. i \in 1..Len(written)
        BY <1>3, <3>1
      <4> QED BY <1>9, <4>1 DEF IInv, OutputInOrder
    <3>2. CASE ~(i <= Len(written))
      <4> DEFINE j == i - Len(written)
                 k == flushed + j - 1
      <4>1. j \in 1..w /\ i = Len(written) + j
        BY <1>3, <1>5, <3>2
      <4>2. k \in flushed..(outpos - 1) /\ Len(written) + (k - flushed) + 1 = i
        BY <1>3, <4>1
      <4>3. written'[i] = outbuf[k]
        BY <1>9, <4>1
      <4>4. outbuf[k] = emitted[Len(written) + (k - flushed) + 1]
        BY <4>2 DEF IInv, OutputInOrder
      <4> QED BY <4>2, <4>3, <4>4
    <3> QED BY <3>1, <3>2
  <2>2. ASSUME NEW i \in (flushed + w)..(outpos - 1)
        PROVE  outbuf[i] = emitted[Len(written') + (i - (flushed + w)) + 1]
    <3>1. i \in flushed..(outpos - 1)
      BY <1>3
    <3>2. outbuf[i] = emitted[Len(written) + (i - flushed) + 1]
      BY <3>1 DEF IInv, OutputInOrder
    <3>3. Len(written') + (i - (flushed + w)) + 1 = Len(written) + (i - flushed) + 1
      BY <1>3, <1>5
    <3> QED BY <3>2, <3>3
  <2>3. flushed' = flushed + w /\ outpos' = outpos /\ outbuf' = outbuf /\ emitted' = emitted
    BY <1>1, <1>2
  <2>4. Len(written') + (outpos' - flushed') = Len(emitted')
    BY <1>3, <1>5, <2>3
  <2> QED BY <2>1, <2>2, <2>3, <2>4 DEF OutputInOrder
<1>8. WindowIsPast' /\ Control'
  BY <1>2, <1>3 DEF IInv, WindowIsPast, Earlier, Control, inVars
<1> QED BY <1>6, <1>7, <1>8 DEF IInv

(* The end of a flush, successful or not. *)
LEMMA FlushEndsInv == IInv /\ (FlushFails \/ Flushed) => IInv'
<1>1. ASSUME IInv, FlushFails PROVE IInv'
  <2>1. TypeOK' /\ Control'
    BY <1>1 DEF IInv, TypeOK, Control, FlushFails, Return, inVars, outVars
  <2> QED BY <1>1, <2>1, QuietStep DEF IInv, FlushFails
<1>2. ASSUME IInv, Flushed PROVE IInv'
  <2>1. TypeOK' /\ Control'
    BY <1>2 DEF IInv, TypeOK, Control, Flushed, inVars
  <2>2. WindowIsPast' /\ OutputInOrder'
    BY <1>2 DEF IInv, TypeOK, WindowIsPast, OutputInOrder, Earlier, Flushed
  <2> QED BY <2>1, <2>2 DEF IInv
<1> QED BY <1>1, <1>2

(* The inductive invariant holds throughout.                               *)
THEOREM Invariance == Spec => []IInv
<1>1. IInv /\ [Next]_vars => IInv'
  <2>1. IInv /\ UNCHANGED vars => IInv'
    BY DEF IInv, vars, inVars, outVars, TypeOK, WindowIsPast, OutputInOrder, Earlier, Control
  <2> QED BY <2>1, HeaderInv, LiteralInv, BeginCopyInv, CopyByteInv, BlockEndsInv,
             FlushWriteInv, FlushEndsInv DEF Next
<1> QED BY <1>1, InitInv, PTL DEF Spec

(* Types: no index of the window or the output buffer is out of bounds.    *)
THEOREM TypeCorrect == Spec => []TypeOK
BY Invariance, PTL DEF IInv

(* Copies find the last W bytes of the output in the ring, and zeros       *)
(* before its beginning, for windows of every size.                        *)
THEOREM WindowHoldsThePast == Spec => []WindowIsPast
BY Invariance, PTL DEF IInv

(* Short writes neither lose nor repeat a byte.                            *)
THEOREM OutputArrivesInOrder == Spec => []OutputInOrder
BY Invariance, PTL DEF IInv

(* The number of bytes is returned only when every one of them was written. *)
THEOREM SuccessIsWritten == Spec => []ResultIsLength
<1>1. IInv => ResultIsLength
  <2> SUFFICES ASSUME IInv, pc = "done", result # -1
               PROVE  result = Len(written) /\ written = emitted /\ ~refused
    BY DEF ResultIsLength
  <2>1. outpos = 0 /\ flushed = 0 /\ result = Len(emitted) /\ ~refused
    BY DEF IInv, Control
  <2>2. written \in Seq(Byte) /\ emitted \in Seq(Byte)
        /\ Len(written) = Len(emitted) /\ \A i \in 1..Len(written) : written[i] = emitted[i]
    BY <2>1 DEF IInv, TypeOK, OutputInOrder
  <2>3. written = emitted
    BY <2>2, SeqEqual
  <2> QED BY <2>1, <2>2, <2>3
<1> QED BY <1>1, Invariance, PTL
-------------------------------------------------------------------------------
(* What Repeat appends: a byte for each number, taken from within out.     *)
LEMMA RepeatType ==
  ASSUME NEW out \in Seq(Byte), NEW d \in 1..W, NEW n \in Nat
  PROVE  /\ Repeat(out, d, n) \in Seq(Byte) /\ Len(Repeat(out, d, n)) = Len(out) + n
         /\ \A i \in 1..Len(out) : Repeat(out, d, n)[i] = out[i]
         /\ \A i \in 1..n : Repeat(out, d, n)[Len(out) + i] = Repeated(out, d, i)
<1>1. ASSUME NEW i \in 1..n PROVE Repeated(out, d, i) \in Byte
  <2> DEFINE r == (i - 1) % d
             source == Len(out) - d + r + 1
  <2>1. r \in 0..(d - 1)
    <3>1. d \in Nat \ {0} /\ i - 1 \in Int
      OBVIOUS
    <3> QED BY <3>1, ModRange
  <2> HIDE DEF r
  <2>2. Len(out) \in Nat
    OBVIOUS
  <2>3. source > 0 => source \in 1..Len(out)
    BY <2>1, <2>2
  <2>4. source > 0 => out[source] \in Byte
    BY <2>3, ElementOfSeq
  <2> QED BY <2>4 DEF Repeated, r
<1> DEFINE more == [i \in 1..n |-> Repeated(out, d, i)]
<1>2. more \in [1..n -> Byte]
  BY <1>1
<1>3. more \in Seq(Byte) /\ Len(more) = n /\ \A i \in 1..n : more[i] = Repeated(out, d, i)
  BY <1>2
<1> HIDE DEF more
<1>4. Repeat(out, d, n) = out \o more
  BY DEF Repeat, more
<1> DEFINE all == Repeat(out, d, n)
<1>5. all = out \o more
  BY <1>4
<1> HIDE DEF all
<1>6. /\ all \in Seq(Byte) /\ Len(all) = Len(out) + Len(more)
      /\ \A i \in 1..Len(out) + Len(more) :
           all[i] = IF i <= Len(out) THEN out[i] ELSE more[i - Len(out)]
  BY <1>3, <1>5, ConcatProperties, Zenon
<1>7. /\ Len(all) = Len(out) + n
      /\ \A i \in 1..Len(out) : all[i] = out[i]
      /\ \A i \in 1..n : all[Len(out) + i] = more[i]
  <2>1. Len(out) \in Nat
    OBVIOUS
  <2>2. \A i \in 1..Len(out) : i \in 1..Len(out) + n /\ i <= Len(out)
    BY <2>1
  <2>3. \A i \in 1..n : /\ Len(out) + i \in 1..Len(out) + n /\ ~(Len(out) + i <= Len(out))
                       /\ (Len(out) + i) - Len(out) = i
    BY <2>1
  <2> QED BY <1>3, <1>6, <2>2, <2>3, Zenon
<1> QED BY <1>3, <1>6, <1>7 DEF all

(* Taking bytes one by one from d back in what has become of the output is *)
(* taking them from the last d bytes before the copy, round and round.     *)
LEMMA RepeatStep ==
  ASSUME NEW out \in Seq(Byte), NEW d \in 1..W, NEW k \in Nat, NEW now \in Seq(Byte),
         now = Repeat(out, d, k)
  PROVE  Repeat(out, d, k + 1) =
           Append(now, IF d <= Len(now) THEN now[Len(now) - d + 1] ELSE Zero)
<1> DEFINE b == IF d <= Len(now) THEN now[Len(now) - d + 1] ELSE Zero
           after == Repeat(out, d, k + 1)
           n == Len(out)
<1>1. /\ Len(now) = n + k /\ n \in Nat
      /\ \A i \in 1..n : now[i] = out[i]
      /\ \A i \in 1..k : now[n + i] = Repeated(out, d, i)
  <2>1. Len(out) \in Nat
    OBVIOUS
  <2>2. /\ Len(Repeat(out, d, k)) = Len(out) + k
        /\ \A i \in 1..Len(out) : Repeat(out, d, k)[i] = out[i]
        /\ \A i \in 1..k : Repeat(out, d, k)[Len(out) + i] = Repeated(out, d, i)
    BY RepeatType, Zenon
  <2> QED BY <2>1, <2>2, Zenon
<1>2. /\ after \in Seq(Byte) /\ Len(after) = n + k + 1
      /\ \A i \in 1..n : after[i] = out[i]
      /\ \A i \in 1..(k + 1) : after[n + i] = Repeated(out, d, i)
  <2>1. k + 1 \in Nat /\ n + k + 1 = n + (k + 1)
    BY <1>1
  <2>2. /\ after \in Seq(Byte) /\ Len(after) = n + (k + 1)
        /\ \A i \in 1..n : after[i] = out[i]
        /\ \A i \in 1..(k + 1) : after[n + i] = Repeated(out, d, i)
    BY <2>1, RepeatType, Zenon
  <2> QED BY <2>1, <2>2, Zenon
<1>3. Repeated(out, d, k + 1) = b
  <2>1. Repeated(out, d, k + 1) = IF n - d + (k % d) + 1 > 0 THEN out[n - d + (k % d) + 1] ELSE Zero
    <3>1. (k + 1) - 1 = k
      OBVIOUS
    <3> QED BY <3>1 DEF Repeated
  <2>2. CASE k < d
    <3>1. k % d = k
      BY <2>2, ModSmall
    <3>2. Repeated(out, d, k + 1) = IF n - d + k + 1 > 0 THEN out[n - d + k + 1] ELSE Zero
      BY <2>1, <3>1
    <3>3. n - d + k + 1 = Len(now) - d + 1 /\ (n - d + k + 1 > 0 <=> d <= Len(now))
      BY <1>1
    <3>4. d <= Len(now) => n - d + k + 1 \in 1..n
      BY <1>1, <2>2
    <3> QED BY <1>1, <3>2, <3>3, <3>4
  <2>3. CASE ~ (k < d)
    <3> DEFINE i == k - d + 1
    <3>1. i \in 1..k /\ d <= Len(now) /\ Len(now) - d + 1 = n + i
      BY <1>1, <2>3
    <3>2. (i - 1) % d = k % d
      <4>1. i - 1 = k - d
        OBVIOUS
      <4>2. (k - d) % d = k % d
        BY ModShift
      <4> QED BY <4>1, <4>2
    <3>3. Repeated(out, d, i) = IF n - d + (k % d) + 1 > 0 THEN out[n - d + (k % d) + 1] ELSE Zero
      BY <3>2 DEF Repeated
    <3>4. now[n + i] = Repeated(out, d, i)
      BY <1>1, <3>1
    <3> QED BY <2>1, <3>1, <3>3, <3>4
  <2> QED BY <2>2, <2>3
<1>4. b \in Byte
  BY <1>1, ElementOfSeq
<1> DEFINE longer == Append(now, b)
<1> HIDE DEF b, after, n
<1>5. /\ longer \in Seq(Byte) /\ Len(longer) = n + k + 1
      /\ \A i \in 1..(n + k) : longer[i] = now[i]
      /\ longer[n + k + 1] = b
  BY <1>1, <1>4, AppendProperties
<1> HIDE DEF longer
<1>6. ASSUME NEW i \in 1..(n + k + 1) PROVE after[i] = longer[i]
  <2>1. CASE i \in 1..n
    BY <1>1, <1>2, <1>5, <2>1
  <2>2. CASE i \in (n + 1)..(n + k)
    <3>1. i - n \in 1..k /\ i = n + (i - n) /\ i \in 1..(n + k) /\ i - n \in 1..(k + 1)
      BY <1>1, <2>2
    <3>2. after[n + (i - n)] = Repeated(out, d, i - n)
      BY <1>2, <3>1
    <3>3. now[n + (i - n)] = Repeated(out, d, i - n)
      BY <1>1, <3>1
    <3> QED BY <1>5, <3>1, <3>2, <3>3
  <2>3. CASE i = n + k + 1
    <3>1. k + 1 \in 1..(k + 1) /\ n + (k + 1) = n + k + 1
      BY <1>1
    <3>2. after[n + k + 1] = b
      BY <1>2, <1>3, <3>1
    <3> QED BY <1>5, <2>3, <3>2
  <2> QED BY <1>1, <2>1, <2>2, <2>3
<1>7. after = longer
  BY <1>1, <1>2, <1>5, <1>6, SeqEqual
<1> QED BY <1>7 DEF after, b, longer

(* Expanding a symbol gives a sequence of bytes. *)
LEMMA ExpandType ==
  ASSUME NEW out \in Seq(Byte), NEW y \in Symbol
  PROVE  Expand(out, y) \in Seq(Byte)
<1>1. y.kind = "literal" => Expand(out, y) = Append(out, y.byte)
  BY DEF Expand
<1>2. y.kind = "copy" => Expand(out, y) \in Seq(Byte)
  BY SymbolParts, RepeatType DEF Expand
<1>3. y.kind \in {"end", "bad"} => Expand(out, y) = out
  BY DEF Expand
<1> QED BY <1>1, <1>2, <1>3, SymbolParts, AppendProperties

(* The two recursive definitions are the functions they describe.          *)
LEMMA AfterSymbolsIs ==
  ASSUME NEW out \in Seq(Byte), NEW symbols \in Seq(Symbol)
  PROVE  LET f == AfterSymbols(out, symbols) IN
         /\ f[0] = out
         /\ \A j \in 1..Len(symbols) : f[j] = Expand(f[j - 1], symbols[j])
         /\ \A j \in 0..Len(symbols) : f[j] \in Seq(Byte)
<1> DEFINE n == Len(symbols)
           next(o, j) == Expand(o, symbols[j])
           step == [p \in (1..n) \X Seq(Byte) |-> next(p[2], p[1])]
           f == AfterSymbols(out, symbols)
<1>1. \A o \in Seq(Byte), j \in 1..n : next(o, j) \in Seq(Byte)
  BY ElementOfSeq, ExpandType
<1>2. n \in Nat
  OBVIOUS
<1> HIDE DEF next
<1>3. step \in [(1..n) \X Seq(Byte) -> Seq(Byte)]
  BY <1>1
<1> HIDE DEF step, n
<1>4. PICK g \in [0..n -> Seq(Byte)] : Follows(g, n, out, step)
  BY <1>2, <1>3, RecursionExists, Zenon
<1>5. ASSUME NEW j \in 1..n PROVE g[j] = next(g[j - 1], j)
  <2>1. g[j - 1] \in Seq(Byte)
    BY <1>2, <1>4
  <2>2. g[j] = step[<<j, g[j - 1]>>]
    BY <1>4 DEF Follows
  <2> QED BY <2>1, <2>2 DEF step
<1>6. g = [j \in 0..n |-> IF j = 0 THEN out ELSE next(g[j - 1], j)]
  BY <1>2, <1>4, <1>5 DEF Follows
<1>7. f = [j \in 0..n |-> IF j = 0 THEN out ELSE next(f[j - 1], j)]
  BY <1>6 DEF AfterSymbols, next, n
<1> HIDE DEF f
<1>8. f[0] = out /\ \A j \in 1..n : f[j] = next(f[j - 1], j)
  BY <1>2, <1>7
<1>9. \A j \in 0..n : f[j] \in Seq(Byte)
  <2> DEFINE T == {j \in 0..n : f[j] \in Seq(Byte)}
  <2>1. 0 \in T
    BY <1>2, <1>8
  <2>2. ASSUME NEW j \in 1..n, j - 1 \in T PROVE j \in T
    BY <1>1, <1>8, <2>2
  <2>3. \A j \in 0..n : j \in T
    <3> HIDE DEF T
    <3> QED BY <1>2, <2>1, <2>2, Reaches
  <2> QED BY <2>3
<1> QED BY <1>8, <1>9 DEF f, next, n

(* The same for the blocks of a stream. *)
LEMMA AfterBlocksIs ==
  ASSUME NEW s \in Seq(Block)
  PROVE  LET f == AfterBlocks(s) IN
         /\ f[0] = << >>
         /\ \A i \in 1..Len(s) :
              f[i] = AfterSymbols(f[i - 1], s[i].symbols)[Len(s[i].symbols)]
         /\ \A i \in 0..Len(s) : f[i] \in Seq(Byte)
<1> DEFINE n == Len(s)
           next(o, i) == AfterSymbols(o, s[i].symbols)[Len(s[i].symbols)]
           step == [p \in (1..n) \X Seq(Byte) |-> next(p[2], p[1])]
           f == AfterBlocks(s)
<1>1. ASSUME NEW o \in Seq(Byte), NEW i \in 1..n PROVE next(o, i) \in Seq(Byte)
  <2>1. s[i] \in Block
    BY ElementOfSeq
  <2>2. s[i].symbols \in Seq(Symbol) /\ Len(s[i].symbols) \in 0..Len(s[i].symbols)
    BY <2>1 DEF Block
  <2> QED BY <2>2, AfterSymbolsIs
<1>2. n \in Nat
  OBVIOUS
<1>3. << >> \in Seq(Byte)
  OBVIOUS
<1> HIDE DEF next
<1>4. step \in [(1..n) \X Seq(Byte) -> Seq(Byte)]
  BY <1>1
<1> HIDE DEF step, n
<1>5. PICK g \in [0..n -> Seq(Byte)] : Follows(g, n, << >>, step)
  BY <1>2, <1>4, <1>3, RecursionExists, Zenon
<1>6. ASSUME NEW i \in 1..n PROVE g[i] = next(g[i - 1], i)
  <2>1. g[i - 1] \in Seq(Byte)
    BY <1>2, <1>5
  <2>2. g[i] = step[<<i, g[i - 1]>>]
    BY <1>5 DEF Follows
  <2> QED BY <2>1, <2>2 DEF step
<1>7. g = [i \in 0..n |-> IF i = 0 THEN << >> ELSE next(g[i - 1], i)]
  BY <1>2, <1>5, <1>6 DEF Follows
<1>8. f = [i \in 0..n |-> IF i = 0 THEN << >> ELSE next(f[i - 1], i)]
  BY <1>7 DEF AfterBlocks, next, n
<1> HIDE DEF f
<1>9. f[0] = << >> /\ \A i \in 1..n : f[i] = next(f[i - 1], i)
  BY <1>2, <1>8
<1>10. \A i \in 0..n : f[i] \in Seq(Byte)
  <2> DEFINE T == {i \in 0..n : f[i] \in Seq(Byte)}
  <2>1. 0 \in T
    <3>1. f[0] \in Seq(Byte)
      BY <1>3, <1>9, Zenon
    <3> QED BY <1>2, <3>1
  <2>2. ASSUME NEW i \in 1..n, i - 1 \in T PROVE i \in T
    BY <1>1, <1>9, <2>2
  <2>3. \A i \in 0..n : i \in T
    <3> HIDE DEF T
    <3> QED BY <1>2, <2>1, <2>2, Reaches
  <2> QED BY <2>3
<1> QED BY <1>9, <1>10 DEF f, next, n
-------------------------------------------------------------------------------
(* How far an intact stream is decoded, at each point of the loops: before *)
(* a block, between two symbols, within a copy, after the last block; the  *)
(* same while a full buffer is flushed there.                              *)
Going(p) == pc = p \/ (pc = "flush" /\ back = p)
Before == AfterBlocks(stream)[blk - 1]
Now(j) == AfterSymbols(Before, Current.symbols)[j]

HeaderPoint == pc = "header" => blk <= Len(stream) /\ emitted = Before
BodyPoint ==
  Going("body") =>
    /\ sym <= Len(Current.symbols)
    /\ Current.type # "stored" => sym < Len(Current.symbols)
    /\ emitted = Now(sym)
CopyPoint ==
  Going("copy") =>
    /\ sym \in 1..Len(Current.symbols)
    /\ Current.type # "stored" => sym < Len(Current.symbols)
    /\ Current.symbols[sym].kind = "copy"
    /\ distance = Current.symbols[sym].distance
    /\ left <= Current.symbols[sym].length
    /\ emitted = Repeat(Now(sym - 1), distance, Current.symbols[sym].length - left)
EndPoint ==
  /\ Going("done") /\ ~refused => emitted = Contents(stream)
  /\ pc = "done" /\ ~refused => result # -1

Points == HeaderPoint /\ BodyPoint /\ CopyPoint /\ EndPoint
JInv == Intact(stream) => Points

(* Where the block in hand is one of the stream's. *)
LEMMA BlockInHand ==
  ASSUME IInv, Intact(stream), blk <= Len(stream)
  PROVE  /\ stream \in Seq(Block) /\ blk \in 1..Len(stream) /\ Current \in Block
         /\ Current.symbols \in Seq(Symbol) /\ Len(Current.symbols) \in Nat
         /\ Before \in Seq(Byte) /\ Current.final = (blk = Len(stream))
         /\ Current.type # "bad"
         /\ IF Current.type = "stored" THEN Len(Current.symbols) = Current.size
            ELSE /\ Len(Current.symbols) > 0
                 /\ Current.symbols[Len(Current.symbols)] = EndOfBlock
         /\ \A j \in 1..Len(Current.symbols) :
              \/ Current.symbols[j].kind \in {"literal", "copy"}
              \/ j = Len(Current.symbols) /\ Current.type # "stored"
<1>1. stream \in Seq(Block) /\ blk \in 1..Len(stream)
  BY StreamsAssumption DEF IInv, TypeOK
<1>2. Current \in Block
  BY <1>1, ElementOfSeq DEF Current
<1>3. Current.symbols \in Seq(Symbol) /\ Len(Current.symbols) \in Nat
  BY <1>2 DEF Block
<1>4. Before \in Seq(Byte)
  <2>1. blk - 1 \in 0..Len(stream)
    BY <1>1
  <2> QED BY <1>1, <2>1, AfterBlocksIs DEF Before
<1>5. /\ Current.type # "bad" /\ Current.final = (blk = Len(stream))
      /\ IF Current.type = "stored" THEN Len(Current.symbols) = Current.size
         ELSE /\ Len(Current.symbols) > 0
              /\ Current.symbols[Len(Current.symbols)] = EndOfBlock
      /\ \A j \in 1..Len(Current.symbols) :
           \/ Current.symbols[j].kind \in {"literal", "copy"}
           \/ j = Len(Current.symbols) /\ Current.type # "stored"
  BY <1>1 DEF Intact, Current
<1> QED BY <1>1, <1>2, <1>3, <1>4, <1>5

(* What the output becomes with the next symbol, and with the last one.    *)
LEMMA NowSteps ==
  ASSUME IInv, Intact(stream), blk <= Len(stream)
  PROVE  /\ Now(0) = Before
         /\ \A j \in 1..Len(Current.symbols) : Now(j) = Expand(Now(j - 1), Current.symbols[j])
         /\ \A j \in 0..Len(Current.symbols) : Now(j) \in Seq(Byte)
         /\ AfterBlocks(stream)[blk] = Now(Len(Current.symbols))
<1>1. /\ stream \in Seq(Block) /\ blk \in 1..Len(stream)
      /\ Before \in Seq(Byte) /\ Current.symbols \in Seq(Symbol)
  BY BlockInHand
<1>2. /\ Now(0) = Before
      /\ \A j \in 1..Len(Current.symbols) : Now(j) = Expand(Now(j - 1), Current.symbols[j])
      /\ \A j \in 0..Len(Current.symbols) : Now(j) \in Seq(Byte)
  BY <1>1, AfterSymbolsIs DEF Now
<1>3. AfterBlocks(stream)[blk] = Now(Len(Current.symbols))
  BY <1>1, AfterBlocksIs DEF Now, Before, Current
<1> QED BY <1>2, <1>3

(* The points within a block, as long as it is the same one.               *)
LEMMA SameBlock ==
  ASSUME UNCHANGED <<stream, blk>>
  PROVE  /\ Intact(stream)' = Intact(stream)
         /\ BodyPoint' <=>
              (Going("body")' =>
                 /\ sym' <= Len(Current.symbols)
                 /\ Current.type # "stored" => sym' < Len(Current.symbols)
                 /\ emitted' = Now(sym'))
         /\ CopyPoint' <=>
              (Going("copy")' =>
                 /\ sym' \in 1..Len(Current.symbols)
                 /\ Current.type # "stored" => sym' < Len(Current.symbols)
                 /\ Current.symbols[sym'].kind = "copy"
                 /\ distance' = Current.symbols[sym'].distance
                 /\ left' <= Current.symbols[sym'].length
                 /\ emitted' = Repeat(Now(sym' - 1), distance',
                                      Current.symbols[sym'].length - left'))
BY DEF BodyPoint, CopyPoint, Intact, Current, Now, Before

(* Before the first block nothing is decoded. *)
LEMMA InitPoints == Init => JInv
<1> SUFFICES ASSUME Init, Intact(stream) PROVE Points
  BY DEF JInv
<1>1. stream \in Seq(Block) /\ stream # << >> /\ pc = "header" /\ blk = 1 /\ emitted = << >>
  BY StreamsAssumption DEF Init, Intact
<1>2. Len(stream) \in Nat /\ Len(stream) # 0
  BY <1>1, EmptySeq
<1>3. Before = << >>
  <2>1. blk - 1 = 0
    BY <1>1
  <2> QED BY <1>1, <2>1, AfterBlocksIs DEF Before
<1> QED BY <1>1, <1>2, <1>3
        DEF Points, HeaderPoint, BodyPoint, CopyPoint, EndPoint, Going

(* An intact block is not refused; nothing of it is decoded yet.           *)
LEMMA HeaderPoints == IInv /\ JInv /\ Header => JInv'
<1> SUFFICES ASSUME IInv, JInv, Header, Intact(stream) PROVE Points'
  BY SameBlock DEF JInv, Header
<1>1. blk <= Len(stream) /\ emitted = Before /\ pc = "header"
  BY DEF JInv, Points, HeaderPoint, Header
<1>2. ~ BlockRefused
  <2>1. ~ (Current.type = "stored" /\ Len(Current.symbols) < Current.size)
    BY <1>1, BlockInHand
  <2>2. ~ Truncated
    BY <1>1, BlockInHand DEF Truncated
  <2> QED BY <1>1, <2>1, <2>2, BlockInHand DEF BlockRefused
<1>3. pc' = "body" /\ sym' = 0 /\ UNCHANGED <<stream, blk, emitted>>
  BY <1>2 DEF Header
<1>4. BodyPoint'
  <2>1. 0 <= Len(Current.symbols) /\ (Current.type # "stored" => 0 < Len(Current.symbols))
    BY <1>1, BlockInHand
  <2>2. Now(0) = Before
    BY <1>1, NowSteps
  <2> QED BY <1>1, <1>3, <2>1, <2>2, SameBlock
<1> QED BY <1>3, <1>4 DEF Points, HeaderPoint, CopyPoint, EndPoint, Going

(* The next symbol of an intact block is the next in its list, or the end  *)
(* when it has no more.                                                    *)
LEMMA NextIs ==
  ASSUME IInv, Intact(stream), Points, pc = "body"
  PROVE  /\ blk <= Len(stream) /\ blk \in Nat
         /\ sym \in 0..Len(Current.symbols) /\ Len(Current.symbols) \in Nat
         /\ emitted = Now(sym)
         /\ sym < Len(Current.symbols) => NextSymbol = Current.symbols[sym + 1]
         /\ sym = Len(Current.symbols) => NextSymbol.kind = "end" /\ Current.type = "stored"
         /\ NextSymbol.kind # "bad"
         /\ NextSymbol.kind = "end" => Now(Len(Current.symbols)) = emitted
         /\ NextSymbol.kind \in {"literal", "copy"} =>
              /\ sym < Len(Current.symbols)
              /\ Current.type # "stored" => sym + 1 < Len(Current.symbols)
              /\ Now(sym + 1) = Expand(emitted, NextSymbol)
<1> DEFINE n == Len(Current.symbols)
           kind(j) == Current.symbols[j].kind
<1>1. /\ blk <= Len(stream) /\ blk \in Nat
      /\ sym \in Nat /\ sym <= n /\ (Current.type # "stored" => sym < n)
      /\ emitted = Now(sym)
  BY DEF Points, BodyPoint, Going, IInv, TypeOK, Control
<1>2. /\ n \in Nat
      /\ Current.type # "stored" => kind(n) = "end"
      /\ \A j \in 1..n : kind(j) \in {"literal", "copy"}
                         \/ (j = n /\ Current.type # "stored")
  BY <1>1, BlockInHand DEF EndOfBlock
<1>3. sym < n => NextSymbol = Current.symbols[sym + 1] /\ NextSymbol.kind = kind(sym + 1)
  BY DEF NextSymbol
<1>4. sym = n => NextSymbol = EndOfBlock /\ NextSymbol.kind = "end" /\ Current.type = "stored"
  BY <1>1, <1>2 DEF NextSymbol, EndOfBlock
<1> HIDE DEF n, kind
<1>5. CASE sym = n
  BY <1>1, <1>2, <1>4, <1>5 DEF n
<1>6. CASE sym < n
  <2>1. sym + 1 \in 1..n /\ (sym + 1) - 1 = sym
    BY <1>1, <1>2, <1>6
  <2>2. Now(sym + 1) = Expand(emitted, NextSymbol)
    <3>1. Now(sym + 1) = Expand(Now((sym + 1) - 1), Current.symbols[sym + 1])
      BY <1>1, <2>1, NowSteps DEF n
    <3> QED BY <1>1, <1>3, <1>6, <2>1, <3>1
  <2>3. CASE sym + 1 = n /\ Current.type # "stored"
    <3>1. NextSymbol.kind = "end"
      BY <1>2, <1>3, <1>6, <2>3
    <3>2. Expand(emitted, NextSymbol) = emitted
      BY <3>1 DEF Expand
    <3> QED BY <1>1, <1>2, <1>3, <1>6, <2>2, <2>3, <3>1, <3>2 DEF n
  <2>4. CASE ~ (sym + 1 = n /\ Current.type # "stored")
    <3>1. NextSymbol.kind \in {"literal", "copy"}
      BY <1>2, <1>3, <1>6, <2>1, <2>4
    <3>2. Current.type # "stored" => sym + 1 < n
      BY <2>1, <2>4, <1>2
    <3> QED BY <1>1, <1>2, <1>3, <1>6, <2>2, <3>1, <3>2 DEF n
  <2> QED BY <2>3, <2>4
<1> QED BY <1>1, <1>2, <1>5, <1>6 DEF n

(* A literal is the next symbol, expanded.                                 *)
LEMMA LiteralPoints == IInv /\ JInv /\ EmitLiteral => JInv'
<1> SUFFICES ASSUME IInv, JInv, EmitLiteral, Intact(stream) PROVE Points'
  BY SameBlock DEF JInv, EmitLiteral
<1>1. /\ pc = "body" /\ NextSymbol.kind = "literal" /\ UNCHANGED <<stream, blk>>
      /\ sym' = sym + (IF sym < Len(Current.symbols) THEN 1 ELSE 0)
      /\ emitted' = Append(emitted, NextSymbol.byte) /\ UNCHANGED refused
      /\ (pc' = "flush" /\ back' = "body") \/ pc' = "body"
  BY DEF EmitLiteral, Emit
<1>2. /\ sym < Len(Current.symbols) /\ sym + 1 <= Len(Current.symbols)
      /\ Current.type # "stored" => sym + 1 < Len(Current.symbols)
      /\ Now(sym + 1) = Expand(emitted, NextSymbol)
  BY <1>1, NextIs DEF JInv
<1>3. Expand(emitted, NextSymbol) = Append(emitted, NextSymbol.byte)
  BY <1>1 DEF Expand
<1>4. BodyPoint'
  BY <1>1, <1>2, <1>3, SameBlock
<1> QED BY <1>1, <1>4 DEF Points, HeaderPoint, CopyPoint, EndPoint, Going

(* Nothing of the copy is there when it begins. *)
LEMMA BeginCopyPoints == IInv /\ JInv /\ BeginCopy => JInv'
<1> SUFFICES ASSUME IInv, JInv, BeginCopy, Intact(stream) PROVE Points'
  BY SameBlock DEF JInv, BeginCopy
<1>1. /\ pc = "body" /\ NextSymbol.kind = "copy" /\ UNCHANGED <<stream, blk, emitted, refused>>
      /\ sym' = sym + (IF sym < Len(Current.symbols) THEN 1 ELSE 0)
      /\ left' = NextSymbol.length /\ distance' = NextSymbol.distance
      /\ pc' = "copy"
  BY DEF BeginCopy
<1>2. /\ sym < Len(Current.symbols) /\ sym \in Nat /\ Len(Current.symbols) \in Nat
      /\ sym + 1 \in 1..Len(Current.symbols)
      /\ Current.type # "stored" => sym + 1 < Len(Current.symbols)
      /\ emitted = Now(sym) /\ NextSymbol = Current.symbols[sym + 1]
  BY <1>1, NextIs DEF JInv
<1>3. NextSymbol.length \in 1..MaxCopy /\ NextSymbol.distance \in 1..W
  BY <1>1, NextSymbolType, SymbolParts
<1>4. Repeat(emitted, NextSymbol.distance, 0) = emitted
  <2> DEFINE d == NextSymbol.distance
  <2>1. emitted \in Seq(Byte) /\ d \in 1..W /\ 0 \in Nat
    BY <1>3 DEF IInv, TypeOK
  <2> HIDE DEF d
  <2>2. /\ Repeat(emitted, d, 0) \in Seq(Byte)
        /\ Len(Repeat(emitted, d, 0)) = Len(emitted) + 0
        /\ \A i \in 1..Len(emitted) : Repeat(emitted, d, 0)[i] = emitted[i]
    BY <2>1, RepeatType, Zenon
  <2>3. Len(emitted) + 0 = Len(emitted)
    BY <2>1
  <2>4. Repeat(emitted, d, 0) = emitted
    BY <2>1, <2>2, <2>3, SeqEqual
  <2> QED BY <2>4 DEF d
<1>5. CopyPoint'
  <2>1. sym' = sym + 1 /\ sym' - 1 = sym
    BY <1>1, <1>2
  <2>2. NextSymbol.length <= NextSymbol.length /\ NextSymbol.length - NextSymbol.length = 0
    BY <1>3
  <2> QED BY <1>1, <1>2, <1>4, <2>1, <2>2, SameBlock
<1> QED BY <1>1, <1>5 DEF Points, HeaderPoint, BodyPoint, EndPoint, Going

(* A byte of a copy is the one the copy stands for, also where the copy    *)
(* reads what it wrote itself, and the last one completes it.              *)
LEMMA CopyBytePoints == IInv /\ JInv /\ CopyByte => JInv'
<1> SUFFICES ASSUME IInv, JInv, CopyByte, Intact(stream) PROVE Points'
  BY SameBlock DEF JInv, CopyByte
<1> DEFINE b == window[(winpos - distance) % W]
           y == Current.symbols[sym]
           before == Now(sym - 1)
           k == y.length - left
<1>1. /\ pc = "copy" /\ left > 0 /\ left' = left - 1
      /\ emitted' = Append(emitted, b)
      /\ IF left' = 0 THEN pc' = "body" \/ (pc' = "flush" /\ back' = "body")
         ELSE pc' = "copy" \/ (pc' = "flush" /\ back' = "copy")
      /\ UNCHANGED <<stream, blk, sym, distance, refused>>
  BY DEF CopyByte, Emit
<1>2. /\ blk <= Len(stream) /\ left \in Nat /\ emitted \in Seq(Byte) /\ Len(emitted) \in Nat
      /\ b = Earlier(distance)
  BY <1>1 DEF IInv, TypeOK, Control, WindowIsPast
<1>3. /\ sym \in 1..Len(Current.symbols)
      /\ Current.type # "stored" => sym < Len(Current.symbols)
      /\ y.kind = "copy" /\ distance = y.distance /\ left <= y.length
      /\ emitted = Repeat(before, distance, k)
  BY <1>1 DEF JInv, Points, CopyPoint, Going
<1>4. y \in Symbol /\ y.length \in Nat /\ distance \in 1..W
  <2>1. y \in Symbol
    BY <1>2, <1>3, BlockInHand, ElementOfSeq
  <2> QED BY <1>3, <2>1, SymbolParts
<1>5. before \in Seq(Byte) /\ Now(sym) = Expand(before, y)
  <2>1. Len(Current.symbols) \in Nat
    BY <1>2, BlockInHand
  <2>2. sym - 1 \in 0..Len(Current.symbols)
    BY <1>3, <2>1
  <2> QED BY <1>2, <1>3, <2>2, NowSteps
<1>6. k \in Nat /\ y.length - left' = k + 1 /\ left' <= y.length
  <2> DEFINE length == y.length
  <2>1. length \in Nat /\ left \in Nat /\ left > 0 /\ left' = left - 1 /\ left <= length
    BY <1>1, <1>2, <1>3, <1>4
  <2> HIDE DEF length
  <2>2. length - left \in Nat /\ length - left' = (length - left) + 1 /\ left' <= length
    BY <2>1
  <2> QED BY <2>2 DEF length
<1> HIDE DEF b, y, before, k
<1>7. emitted' = Repeat(before, distance, k + 1)
  <2>1. Repeat(before, distance, k + 1) =
          Append(emitted, IF distance <= Len(emitted)
                          THEN emitted[Len(emitted) - distance + 1] ELSE Zero)
    BY <1>2, <1>3, <1>4, <1>5, <1>6, RepeatStep, SMTT(30)
  <2> QED BY <1>1, <1>2, <2>1 DEF Earlier
<1>8. CASE left' = 0
  <2>1. y.length = k + 1
    BY <1>4, <1>6, <1>8
  <2>2. emitted' = Now(sym)
    BY <1>3, <1>5, <1>7, <2>1 DEF Expand
  <2>3. sym <= Len(Current.symbols)
    BY <1>3
  <2>4. BodyPoint'
    BY <1>1, <1>3, <2>2, <2>3, SameBlock
  <2> QED BY <1>1, <1>8, <2>4 DEF Points, HeaderPoint, CopyPoint, EndPoint, Going
<1>9. CASE left' # 0
  <2>1. CopyPoint'
    BY <1>1, <1>3, <1>6, <1>7, SameBlock DEF y, before
  <2> QED BY <1>1, <1>9, <2>1 DEF Points, HeaderPoint, BodyPoint, EndPoint, Going
<1> QED BY <1>8, <1>9

(* After the last symbol of a block the output is that of the block; after *)
(* the last block, that of the stream.                                     *)
LEMMA BlockEndsPoints == IInv /\ JInv /\ BlockEnds => JInv'
<1> SUFFICES ASSUME IInv, JInv, BlockEnds, Intact(stream) PROVE Points'
  BY DEF JInv, BlockEnds, Intact
<1>1. /\ pc = "body" /\ NextSymbol.kind = "end" /\ blk' = blk + 1
      /\ IF Current.final THEN pc' = "flush" /\ back' = "done"
                          ELSE pc' = "header" /\ UNCHANGED back
      /\ UNCHANGED <<stream, emitted, refused>>
  BY DEF BlockEnds
<1>2. blk <= Len(stream) /\ blk \in Nat /\ Now(Len(Current.symbols)) = emitted
  BY <1>1, NextIs DEF JInv
<1>3. AfterBlocks(stream)[blk] = emitted /\ Current.final = (blk = Len(stream))
      /\ Len(stream) \in Nat
  <2>1. stream \in Seq(Block)
    BY <1>2, BlockInHand
  <2>2. Len(stream) \in Nat
    BY <2>1
  <2> QED BY <1>2, <2>2, BlockInHand, NowSteps
<1>4. CASE blk = Len(stream)
  <2>1. pc' = "flush" /\ back' = "done" /\ emitted' = Contents(stream')
    BY <1>1, <1>3, <1>4 DEF Contents
  <2> QED BY <2>1 DEF Points, HeaderPoint, BodyPoint, CopyPoint, EndPoint, Going
<1>5. CASE blk # Len(stream)
  <2>1. pc' = "header"
    <3>1. ~ Current.final
      BY <1>3, <1>5, Zenon
    <3> QED BY <1>1, <3>1
  <2>2. blk' <= Len(stream') /\ blk' - 1 = blk
    BY <1>1, <1>2, <1>3, <1>5
  <2>3. emitted' = Before'
    BY <1>1, <1>3, <2>2 DEF Before
  <2> QED BY <2>1, <2>2, <2>3 DEF Points, HeaderPoint, BodyPoint, CopyPoint, EndPoint, Going
<1> QED BY <1>4, <1>5

(* An intact stream has no code that stands for nothing. *)
LEMMA BadCodePoints == IInv /\ JInv /\ BadCode => JInv'
<1> SUFFICES ASSUME IInv, JInv, BadCode, Intact(stream) PROVE FALSE
  BY DEF JInv, BadCode, inVars, Intact
<1> QED BY NextIs DEF JInv, BadCode

(* Writing out the buffer changes nothing of what was decoded.             *)
LEMMA FlushPoints == IInv /\ JInv /\ (FlushWrite \/ FlushFails \/ Flushed) => JInv'
<1> SUFFICES ASSUME IInv, JInv, FlushWrite \/ FlushFails \/ Flushed, Intact(stream) PROVE Points'
  <2>1. FlushWrite \/ FlushFails \/ Flushed => UNCHANGED <<stream, blk>>
    BY DEF FlushWrite, FlushFails, Flushed, inVars
  <2> QED BY <2>1, SameBlock DEF JInv
<1>1. /\ pc = "flush" /\ UNCHANGED <<stream, blk, sym, left, distance, emitted, back>>
  BY DEF FlushWrite, FlushFails, Flushed, inVars
<1>2. back # "header" /\ ~ refused
  BY <1>1 DEF IInv, Control
<1>3. /\ Now(sym)' = Now(sym) /\ Now(sym - 1)' = Now(sym - 1)
      /\ Contents(stream)' = Contents(stream) /\ Current' = Current
  BY <1>1 DEF Now, Before, Contents, Current
<1>4. CASE FlushWrite
  <2>1. pc' = pc /\ UNCHANGED <<result, refused>>
    BY <1>4 DEF FlushWrite
  <2> QED BY <1>1, <1>2, <1>3, <2>1, SameBlock
          DEF JInv, Points, HeaderPoint, BodyPoint, CopyPoint, EndPoint, Going
<1>5. CASE FlushFails
  <2>1. pc' = "done" /\ refused'
    BY <1>5 DEF FlushFails, Return
  <2> QED BY <2>1 DEF Points, HeaderPoint, BodyPoint, CopyPoint, EndPoint, Going
<1>6. CASE Flushed
  <2>1. pc' = back /\ refused' = refused /\ (back = "done" => result' = Len(emitted))
    BY <1>6 DEF Flushed
  <2>2. Len(emitted) \in Nat
    BY DEF IInv, TypeOK
  <2>3. BodyPoint' /\ CopyPoint'
    BY <1>1, <2>1, SameBlock DEF JInv, Points, BodyPoint, CopyPoint, Going
  <2>4. EndPoint' /\ HeaderPoint'
    BY <1>1, <1>2, <1>3, <2>1, <2>2 DEF JInv, Points, EndPoint, HeaderPoint, Going
  <2> QED BY <2>3, <2>4 DEF Points
<1> QED BY <1>4, <1>5, <1>6

(* At every point the output is what the symbols decoded so far stand for. *)
THEOREM Progress == Spec => []JInv
<1>1. IInv /\ JInv /\ [Next]_vars => JInv'
  <2>1. IInv /\ JInv /\ UNCHANGED vars => JInv'
    <3> SUFFICES ASSUME IInv, JInv, UNCHANGED vars, Intact(stream) PROVE Points'
      BY DEF JInv, vars, inVars, Intact
    <3>1. UNCHANGED <<stream, blk, sym, pc, back, left, distance, emitted, refused, result>>
      BY DEF vars, inVars
    <3>2. BodyPoint' /\ CopyPoint'
      BY <3>1, SameBlock DEF JInv, Points, BodyPoint, CopyPoint, Going
    <3>3. EndPoint' /\ HeaderPoint'
      BY <3>1 DEF JInv, Points, EndPoint, HeaderPoint, Going, Before, Contents
    <3> QED BY <3>2, <3>3 DEF Points
  <2> QED BY <2>1, HeaderPoints, LiteralPoints, BeginCopyPoints, CopyBytePoints,
             BlockEndsPoints, BadCodePoints, FlushPoints DEF Next
<1> QED BY <1>1, InitPoints, Invariance, PTL DEF Spec

(* An intact stream is inflated to its contents, for every size of window, *)
(* buffer, copy and write, unless a write fails; then -1 is returned.      *)
THEOREM InflatesIntact == Spec => []IntactIsInflated
<1>1. IInv /\ JInv /\ ResultIsLength => IntactIsInflated
  <2> SUFFICES ASSUME IInv, JInv, ResultIsLength, pc = "done", Intact(stream)
               PROVE  IF refused THEN result = -1 ELSE result # -1 /\ written = Contents(stream)
    BY DEF IntactIsInflated
  <2>1. refused => result = -1
    BY DEF IInv, Control
  <2>2. ~ refused => result # -1 /\ emitted = Contents(stream)
    BY DEF JInv, Points, EndPoint, Going
  <2>3. result # -1 => written = emitted
    BY DEF ResultIsLength
  <2> QED BY <2>1, <2>2, <2>3 DEF IInv, TypeOK
<1> QED BY <1>1, Invariance, Progress, SuccessIsWritten, PTL

-------------------------------------------------------------------------------
(* The codes of symbols. *)

USE BoundsAssumption

Shorter(l) == {s \in Symbols : 0 < lengths[s] /\ lengths[s] < l}

(* What decoding relies on: the counts are those of the lengths; index is  *)
(* the number of codes shorter than len; the bits read so far are never    *)
(* less than the first code of their length.                               *)
Walk ==
  /\ lengths \in LengthTables /\ bits \in Seq({0, 1})
  /\ phase = "build" => code = 0 /\ first = 0 /\ index = 0 /\ at = 0
  /\ phase = "decode" =>
       /\ \A l \in 0..MaxBits : count[l] = Cardinality(OfLength(l))
       /\ len \in 1..(MaxBits + 1) /\ at = len - 1
       /\ first <= code /\ index = Cardinality(Shorter(len))

TableInv == HuffmanTypeOK /\ Walk

(* There are finitely many symbols, numbered from 0. *)
LEMMA SymbolsFinite ==
  ASSUME Walk
  PROVE  /\ Nsyms \in Nat /\ Nsyms > 0 /\ Symbols = 0..(Nsyms - 1)
         /\ lengths \in [Symbols -> 0..MaxBits] /\ IsFiniteSet(Symbols)
<1>1. /\ Nsyms \in Nat /\ Nsyms > 0 /\ lengths \in [0..(Nsyms - 1) -> 0..MaxBits]
  BY TablesAssumption DEF Walk, Nsyms, Symbols
<1>2. Symbols = 0..(Nsyms - 1)
  BY <1>1 DEF Symbols
<1>3. IsFiniteSet(0..(Nsyms - 1))
  BY <1>1, FS_Interval
<1> QED BY <1>1, <1>2, <1>3

(* Any set of symbols has at most Nsyms elements. *)
LEMMA AtMostAll ==
  ASSUME Walk, NEW S, S \subseteq Symbols
  PROVE  IsFiniteSet(S) /\ Cardinality(S) \in 0..Nsyms
<1>1. IsFiniteSet(Symbols)
  BY SymbolsFinite
<1>2. IsFiniteSet(S) /\ Cardinality(S) <= Cardinality(Symbols)
  BY <1>1, FS_Subset
<1>3. Cardinality(S) \in Nat
  BY <1>2, FS_CardinalityType
<1> QED BY <1>2, <1>3, SymbolsFinite DEF Nsyms

(* The codes of up to l bits are those of fewer, and those of l. *)
LEMMA ShorterStep ==
  ASSUME Walk, NEW l \in 1..MaxBits
  PROVE  Cardinality(Shorter(l + 1)) = Cardinality(Shorter(l)) + Cardinality(OfLength(l))
<1>1. Shorter(l) \subseteq Symbols /\ OfLength(l) \subseteq Symbols
  BY DEF Shorter, OfLength
<1>2. IsFiniteSet(Shorter(l)) /\ IsFiniteSet(OfLength(l))
  BY <1>1, AtMostAll
<1>3. Shorter(l + 1) = Shorter(l) \cup OfLength(l)
  BY SymbolsFinite DEF Shorter, OfLength
<1>4. Shorter(l) \cap OfLength(l) = {}
  BY SymbolsFinite DEF Shorter, OfLength
<1>5. Cardinality(Shorter(l) \cup OfLength(l)) =
        Cardinality(Shorter(l)) + Cardinality(OfLength(l))
        - Cardinality(Shorter(l) \cap OfLength(l))
  BY <1>2, FS_Union
<1>6. Cardinality(Shorter(l) \cap OfLength(l)) = 0
  BY <1>4, FS_EmptySet
<1>7. Cardinality(Shorter(l)) \in Nat /\ Cardinality(OfLength(l)) \in Nat
  BY <1>2, FS_CardinalityType
<1> DEFINE all == Cardinality(Shorter(l + 1))
           less == Cardinality(Shorter(l))
           equal == Cardinality(OfLength(l))
           both == Cardinality(Shorter(l) \cap OfLength(l))
<1>8. all = less + equal - both /\ both = 0 /\ less \in Nat /\ equal \in Nat
  BY <1>3, <1>5, <1>6, <1>7
<1> HIDE DEF all, less, equal, both
<1>9. all = less + equal
  BY <1>8
<1> QED BY <1>9 DEF all, less, equal

(* The invariant gives the bound. *)
LEMMA WalkBounds == TableInv => IndexInTable
<1> SUFFICES ASSUME TableInv, phase = "decode", len <= MaxBits, NEW b \in {0, 1},
                    code + b < first + count[len]
             PROVE  index + (code + b - first) \in Symbols
  BY DEF IndexInTable
<1>1. len \in 1..MaxBits /\ first <= code
      /\ index = Cardinality(Shorter(len)) /\ count[len] = Cardinality(OfLength(len))
  BY DEF TableInv, Walk
<1>2. index + count[len] = Cardinality(Shorter(len + 1))
  BY <1>1, ShorterStep DEF TableInv
<1>3. Shorter(len + 1) \subseteq Symbols
  BY DEF Shorter
<1>4. Cardinality(Shorter(len + 1)) \in 0..Nsyms
  BY <1>3, AtMostAll DEF TableInv
<1>5. code \in Nat /\ first \in Nat /\ index \in 0..Nsyms /\ count[len] \in 0..Nsyms
  BY <1>1 DEF TableInv, HuffmanTypeOK
<1>6. Nsyms \in Nat /\ Symbols = 0..(Nsyms - 1)
  BY SymbolsFinite DEF TableInv
<1> QED BY <1>1, <1>2, <1>4, <1>5, <1>6

(* Before the table is built. *)
LEMMA TableInitInv == HuffmanInit => TableInv
<1> SUFFICES ASSUME HuffmanInit PROVE TableInv
  OBVIOUS
<1>1. Walk
  BY DEF HuffmanInit, Walk
<1>2. HuffmanTypeOK
  BY <1>1, SymbolsFinite DEF HuffmanInit, HuffmanTypeOK
<1> QED BY <1>1, <1>2 DEF TableInv

(* Building the table. *)
LEMMA BuildInv == TableInv /\ Build => TableInv'
<1> SUFFICES ASSUME TableInv, Build PROVE TableInv'
  OBVIOUS
<1>1. /\ phase = "build" /\ phase' = "decode" /\ len' = 1
      /\ count' = [l \in 0..MaxBits |-> Cardinality(OfLength(l))]
      /\ UNCHANGED <<lengths, bits, at, code, first, index, decoded>>
  BY DEF Build
<1>2. \A l \in 0..MaxBits : Cardinality(OfLength(l)) \in 0..Nsyms
  <2>1. \A l \in 0..MaxBits : OfLength(l) \subseteq Symbols
    BY DEF OfLength
  <2> QED BY <2>1, AtMostAll DEF TableInv
<1>3. symbol' \in [Symbols -> Symbols \cup {Garbage}]
  BY DEF Build, Used
<1>4. Shorter(1) = {}
  BY SymbolsFinite DEF TableInv, Shorter
<1>5. Cardinality(Shorter(1)) = 0
  BY <1>4, FS_EmptySet
<1>6. Symbols' = Symbols /\ Nsyms' = Nsyms /\ \A l : OfLength(l)' = OfLength(l)
  BY <1>1 DEF Symbols, Nsyms, OfLength
<1>7. HuffmanTypeOK'
  BY <1>1, <1>2, <1>3, <1>6 DEF TableInv, HuffmanTypeOK
<1>8. Shorter(1)' = Shorter(1)
  BY <1>1, <1>6 DEF Shorter
<1>9. Walk'
  BY <1>1, <1>5, <1>6, <1>8 DEF TableInv, Walk, HuffmanTypeOK
<1> QED BY <1>7, <1>9 DEF TableInv

(* One bit. *)
LEMMA DecodeInv == TableInv /\ Decode => TableInv'
<1> SUFFICES ASSUME TableInv, Decode PROVE TableInv'
  OBVIOUS
<1> DEFINE c == code + NextBit
           n == count[len]
<1>1. /\ phase = "decode" /\ len <= MaxBits /\ at' = at + 1
      /\ IF c < first + n
         THEN /\ decoded' = symbol[index + (c - first)] /\ phase' = "done"
              /\ UNCHANGED <<len, code, first, index>>
         ELSE /\ index' = index + n /\ first' = (first + n) * 2
              /\ code' = c * 2 /\ len' = len + 1
              /\ UNCHANGED <<phase, decoded>>
      /\ UNCHANGED <<lengths, count, symbol, bits>>
  BY DEF Decode
<1>2. NextBit \in {0, 1}
  BY DEF TableInv, HuffmanTypeOK, Walk, NextBit
<1>3. /\ len \in 1..MaxBits /\ at = len - 1 /\ first <= code
      /\ index = Cardinality(Shorter(len)) /\ n = Cardinality(OfLength(len))
      /\ code \in Nat /\ first \in Nat /\ n \in 0..Nsyms /\ index \in 0..Nsyms
  BY <1>1 DEF TableInv, HuffmanTypeOK, Walk
<1>4. Symbols' = Symbols /\ Nsyms' = Nsyms /\ Nsyms \in Nat
      /\ (\A l : OfLength(l)' = OfLength(l)) /\ (\A l : Shorter(l)' = Shorter(l))
  BY <1>1, SymbolsFinite DEF TableInv, Symbols, Nsyms, OfLength, Shorter
<1>5. CASE c < first + n
  <2>1. index + (c - first) \in Symbols
    <3>1. \A b \in {0, 1} : code + b < first + count[len] =>
            index + (code + b - first) \in Symbols
      BY <1>1, WalkBounds DEF IndexInTable
    <3>2. PICK b \in {0, 1} : b = NextBit
      BY <1>2
    <3>3. code + b < first + count[len]
      BY <1>5, <3>2
    <3>4. index + (code + b - first) \in Symbols
      BY <3>1, <3>3
    <3>5. code + b - first = c - first
      BY <1>2, <1>3, <3>2
    <3> QED BY <3>4, <3>5
  <2>2. decoded' \in Symbols \cup {Garbage}
    BY <1>1, <1>5, <2>1 DEF TableInv, HuffmanTypeOK
  <2>3. phase' = "done" /\ UNCHANGED <<len, code, first, index>> /\ at' \in 0..MaxBits
    BY <1>1, <1>3, <1>5
  <2>4. HuffmanTypeOK'
    BY <1>1, <1>4, <2>2, <2>3 DEF TableInv, HuffmanTypeOK
  <2>5. Walk'
    BY <1>1, <2>3 DEF TableInv, Walk
  <2> QED BY <2>4, <2>5 DEF TableInv
<1>6. CASE ~(c < first + n)
  <2>1. /\ index' = index + n /\ first' = (first + n) * 2 /\ code' = c * 2
        /\ len' = len + 1 /\ phase' = phase /\ decoded' = decoded
    BY <1>1, <1>6
  <2>2. index' = Cardinality(Shorter(len + 1))
    BY <1>3, <2>1, ShorterStep DEF TableInv
  <2>3. index' \in 0..Nsyms
    <3>1. Shorter(len + 1) \subseteq Symbols
      BY DEF Shorter
    <3> QED BY <2>2, <3>1, AtMostAll DEF TableInv
  <2>4. first' \in Nat /\ code' \in Nat /\ first' <= code'
    BY <1>2, <1>3, <1>6, <2>1
  <2>5. HuffmanTypeOK'
    BY <1>1, <1>3, <1>4, <2>1, <2>3, <2>4 DEF TableInv, HuffmanTypeOK
  <2>6. Walk'
    BY <1>1, <1>3, <1>4, <2>1, <2>2, <2>4 DEF TableInv, Walk
  <2> QED BY <2>5, <2>6 DEF TableInv
<1> QED BY <1>5, <1>6

(* No symbol after MaxBits bits. *)
LEMMA GiveUpInv == TableInv /\ GiveUp => TableInv'
<1> SUFFICES ASSUME TableInv, GiveUp PROVE TableInv'
  OBVIOUS
<1>1. HuffmanTypeOK'
  BY DEF TableInv, HuffmanTypeOK, GiveUp, Symbols, Nsyms
<1>2. Walk'
  BY DEF TableInv, Walk, GiveUp
<1> QED BY <1>1, <1>2 DEF TableInv

(* The inductive invariant holds throughout.                               *)
THEOREM TableInvariance == HuffmanSpec => []TableInv
<1>1. TableInv /\ [HuffmanNext]_huffmanVars => TableInv'
  <2>1. TableInv /\ UNCHANGED huffmanVars => TableInv'
    BY DEF TableInv, huffmanVars, HuffmanTypeOK, Walk, Symbols, Nsyms, OfLength, Shorter
  <2> QED BY <2>1, BuildInv, DecodeInv, GiveUpInv DEF HuffmanNext
<1> QED BY <1>1, TableInitInv, PTL DEF HuffmanSpec

(* Types: no more than MaxBits bits are read for a symbol.                 *)
THEOREM HuffmanTypeCorrect == HuffmanSpec => []HuffmanTypeOK
BY TableInvariance, PTL DEF TableInv

(* The symbol array is never read outside its nsyms entries, for whatever  *)
(* lengths a dynamic block declares.                                       *)
THEOREM DecodeInBounds == HuffmanSpec => []IndexInTable
BY TableInvariance, WalkBounds, PTL
-------------------------------------------------------------------------------
(* What is said of the table and the input stays true while they do. *)
LEMMA Fixed ==
  ASSUME UNCHANGED <<lengths, bits>>
  PROVE  /\ FirstCode' = FirstCode /\ Value' = Value /\ Left' = Left
         /\ Symbols' = Symbols /\ Used' = Used
         /\ \A s : Slot(s)' = Slot(s) /\ CodeOf(s)' = CodeOf(s)
<1>1. Symbols' = Symbols /\ Used' = Used /\ (\A l : OfLength(l)' = OfLength(l))
  BY DEF Symbols, Used, OfLength
<1>2. FirstCode' = FirstCode
  BY <1>1 DEF FirstCode
<1>3. Value' = Value
  BY DEF Value
<1>4. Left' = Left
  BY <1>1 DEF Left
<1>5. \A s : Slot(s)' = Slot(s)
  BY <1>1 DEF Slot, Offset
<1>6. \A s : CodeOf(s)' = CodeOf(s)
  BY <1>1, <1>2 DEF CodeOf
<1> QED BY <1>1, <1>2, <1>3, <1>4, <1>5, <1>6

(* How many symbols have codes of a length. *)
LEMMA CountIsInt ==
  ASSUME Walk, NEW l
  PROVE  Cardinality(OfLength(l)) \in 0..Nsyms
<1>1. OfLength(l) \subseteq Symbols
  BY DEF OfLength
<1> QED BY <1>1, AtMostAll

(* Each of the three recursive definitions is the function it describes. *)
LEMMA FirstCodeIs ==
  ASSUME Walk
  PROVE  /\ FirstCode[0] = 0
         /\ \A l \in 1..MaxBits :
              FirstCode[l] = 2 * (FirstCode[l - 1] +
                               IF l = 1 THEN 0 ELSE Cardinality(OfLength(l - 1)))
<1> DEFINE add(l) == IF l = 1 THEN 0 ELSE Cardinality(OfLength(l - 1))
           step == [p \in (1..MaxBits) \X Int |-> 2 * (p[2] + add(p[1]))]
<1>1. \A l \in 1..MaxBits : add(l) \in Int
  BY CountIsInt, SymbolsFinite
<1> HIDE DEF add
<1>2. step \in [(1..MaxBits) \X Int -> Int]
  BY <1>1
<1> HIDE DEF step
<1>3. PICK f \in [0..MaxBits -> Int] : Follows(f, MaxBits, 0, step)
  <2>1. MaxBits \in Nat /\ 0 \in Int
    OBVIOUS
  <2> QED BY <1>2, <2>1, RecursionExists, Zenon
<1>4. ASSUME NEW l \in 1..MaxBits PROVE f[l] = 2 * (f[l - 1] + add(l))
  <2>1. f[l - 1] \in Int
    BY <1>3
  <2>2. f[l] = step[<<l, f[l - 1]>>]
    BY <1>3 DEF Follows
  <2> QED BY <2>1, <2>2 DEF step
<1>5. f = [l \in 0..MaxBits |-> IF l = 0 THEN 0 ELSE 2 * (f[l - 1] + add(l))]
  BY <1>3, <1>4 DEF Follows
<1>6. FirstCode = [l \in 0..MaxBits |-> IF l = 0 THEN 0 ELSE 2 * (FirstCode[l - 1] + add(l))]
  BY <1>5 DEF FirstCode, add
<1> QED BY <1>6 DEF add

(* The value of the bits read. *)
LEMMA ValueIs ==
  ASSUME Walk
  PROVE  /\ Value[0] = 0
         /\ \A l \in 1..MaxBits :
              Value[l] = 2 * Value[l - 1] + IF l <= Len(bits) THEN bits[l] ELSE 0
<1> DEFINE bit(l) == IF l <= Len(bits) THEN bits[l] ELSE 0
           step == [p \in (1..MaxBits) \X Int |-> 2 * p[2] + bit(p[1])]
<1>1. \A l \in 1..MaxBits : bit(l) \in Int
  BY DEF Walk
<1> HIDE DEF bit
<1>2. step \in [(1..MaxBits) \X Int -> Int]
  BY <1>1
<1> HIDE DEF step
<1>3. PICK f \in [0..MaxBits -> Int] : Follows(f, MaxBits, 0, step)
  <2>1. MaxBits \in Nat /\ 0 \in Int
    OBVIOUS
  <2> QED BY <1>2, <2>1, RecursionExists, Zenon
<1>4. ASSUME NEW l \in 1..MaxBits PROVE f[l] = 2 * f[l - 1] + bit(l)
  <2>1. f[l - 1] \in Int
    BY <1>3
  <2>2. f[l] = step[<<l, f[l - 1]>>]
    BY <1>3 DEF Follows
  <2> QED BY <2>1, <2>2 DEF step
<1>5. f = [l \in 0..MaxBits |-> IF l = 0 THEN 0 ELSE 2 * f[l - 1] + bit(l)]
  BY <1>3, <1>4 DEF Follows
<1>6. Value = [l \in 0..MaxBits |-> IF l = 0 THEN 0 ELSE 2 * Value[l - 1] + bit(l)]
  BY <1>5 DEF Value, bit
<1> QED BY <1>6 DEF bit

(* What the shorter codes leave over. *)
LEMMA LeftIs ==
  ASSUME Walk
  PROVE  /\ Left[0] = 1
         /\ \A l \in 1..MaxBits : Left[l] = 2 * Left[l - 1] - Cardinality(OfLength(l))
<1> DEFINE codes(l) == Cardinality(OfLength(l))
           step == [p \in (1..MaxBits) \X Int |-> 2 * p[2] - codes(p[1])]
<1>1. \A l \in 1..MaxBits : codes(l) \in Int
  BY CountIsInt, SymbolsFinite
<1> HIDE DEF codes
<1>2. step \in [(1..MaxBits) \X Int -> Int]
  BY <1>1
<1> HIDE DEF step
<1>3. PICK f \in [0..MaxBits -> Int] : Follows(f, MaxBits, 1, step)
  <2>1. MaxBits \in Nat /\ 1 \in Int
    OBVIOUS
  <2> QED BY <1>2, <2>1, RecursionExists, Zenon
<1>4. ASSUME NEW l \in 1..MaxBits PROVE f[l] = 2 * f[l - 1] - codes(l)
  <2>1. f[l - 1] \in Int
    BY <1>3
  <2>2. f[l] = step[<<l, f[l - 1]>>]
    BY <1>3 DEF Follows
  <2> QED BY <2>1, <2>2 DEF step
<1>5. f = [l \in 0..MaxBits |-> IF l = 0 THEN 1 ELSE 2 * f[l - 1] - codes(l)]
  BY <1>3, <1>4 DEF Follows
<1>6. Left = [l \in 0..MaxBits |-> IF l = 0 THEN 1 ELSE 2 * Left[l - 1] - codes(l)]
  BY <1>5 DEF Left, codes
<1> QED BY <1>6 DEF codes

(* Which of the symbols of its length s is. *)
Rank(s) == Cardinality({r \in OfLength(lengths[s]) : r < s})

(* The symbols of one length take consecutive places, in their order,      *)
(* behind those of all shorter ones and before those of any longer one.    *)
LEMMA Places ==
  ASSUME Walk, NEW s \in Symbols
  PROVE  LET l == lengths[s] IN
         /\ l \in 0..MaxBits /\ s \in OfLength(l)
         /\ Rank(s) \in Nat /\ Rank(s) < Cardinality(OfLength(l))
         /\ Offset(l) \in Nat /\ Slot(s) = Offset(l) + Rank(s)
         /\ Offset(l) + Cardinality(OfLength(l)) <= Nsyms
         /\ \A m \in Int : l < m => Offset(l) + Cardinality(OfLength(l)) <= Offset(m)
<1> DEFINE l == lengths[s]
           L == OfLength(l)
           A == {r \in L : r < s}
           S(m) == {r \in Symbols : lengths[r] < m}
<1>1. l \in 0..MaxBits /\ s \in L /\ Nsyms \in Nat
  BY SymbolsFinite DEF OfLength
<1>2. L \subseteq Symbols /\ A \subseteq L /\ (\A m : S(m) \subseteq Symbols) /\ A \subseteq Symbols
  BY DEF OfLength
<1>3. IsFiniteSet(L) /\ Cardinality(L) \in 0..Nsyms
  BY <1>2, AtMostAll
<1>4. IsFiniteSet(A) /\ Cardinality(A) \in 0..Nsyms
  BY <1>2, AtMostAll
<1>5. \A m : IsFiniteSet(S(m)) /\ Cardinality(S(m)) \in 0..Nsyms
  BY <1>2, AtMostAll
<1>6. Cardinality(A) < Cardinality(L)
  <2>1. s \notin A /\ A \cup {s} \subseteq L
    <3>1. s \in Int
      BY SymbolsFinite
    <3> QED BY <1>1, <3>1
  <2>2. Cardinality(A \cup {s}) = Cardinality(A) + 1
    BY <1>4, <2>1, FS_AddElement
  <2>3. Cardinality(A \cup {s}) <= Cardinality(L)
    BY <1>3, <2>1, FS_Subset
  <2> HIDE DEF A, L
  <2> QED BY <1>3, <1>4, <2>2, <2>3
<1>7. Cardinality(S(l) \cup L) = Cardinality(S(l)) + Cardinality(L)
  <2>1. S(l) \cap L = {}
    BY SymbolsFinite DEF OfLength
  <2>2. Cardinality(S(l) \cup L) =
          Cardinality(S(l)) + Cardinality(L) - Cardinality(S(l) \cap L)
    BY <1>3, <1>5, FS_Union
  <2>3. Cardinality(S(l) \cap L) = 0
    BY <2>1, FS_EmptySet
  <2>4. Cardinality(S(l)) \in Nat /\ Cardinality(L) \in Nat
    BY <1>3, <1>5
  <2> HIDE DEF S, L
  <2> QED BY <2>2, <2>3, <2>4
<1>8. S(l) \cup L \subseteq Symbols
  BY <1>2
<1>9. Cardinality(S(l) \cup L) <= Nsyms
  BY <1>8, AtMostAll, SymbolsFinite
<1>10. ASSUME NEW m \in Int, l < m
       PROVE  Cardinality(S(l)) + Cardinality(L) <= Cardinality(S(m))
  <2>1. S(l) \cup L \subseteq S(m)
    BY <1>1, <1>10, SymbolsFinite DEF OfLength
  <2>2. Cardinality(S(l) \cup L) <= Cardinality(S(m))
    BY <1>5, <2>1, FS_Subset
  <2> HIDE DEF S, L
  <2> QED BY <1>7, <2>2
<1>11. Offset(l) = Cardinality(S(l)) /\ Rank(s) = Cardinality(A) /\ (\A m : Offset(m) = Cardinality(S(m)))
  BY DEF Offset, Rank
<1>12. Slot(s) = Offset(l) + Rank(s)
  BY DEF Slot, Rank
<1> HIDE DEF A, S
<1>13. Cardinality(S(l)) \in Nat /\ Cardinality(A) \in Nat /\ Cardinality(S(l)) + Cardinality(L) <= Nsyms
  BY <1>4, <1>5, <1>7, <1>9
<1> QED BY <1>1, <1>6, <1>10, <1>11, <1>12, <1>13

(* No two symbols take the same place, and each place is in the table. *)
LEMMA SlotsDiffer ==
  ASSUME Walk, NEW s \in Symbols, NEW t \in Symbols, Slot(s) = Slot(t)
  PROVE  s = t
<1> DEFINE l == lengths[s]
           m == lengths[t]
           n(k) == Cardinality(OfLength(k))
           offs == Offset(l)
           offt == Offset(m)
           ranks == Rank(s)
           rankt == Rank(t)
<1>1. /\ l \in Int /\ m \in Int /\ s \in Int /\ t \in Int
      /\ s \in OfLength(l) /\ t \in OfLength(m)
      /\ n(l) \in Nat /\ n(m) \in Nat
  BY Places, CountIsInt, SymbolsFinite
<1>2. /\ ranks \in Nat /\ ranks < n(l) /\ offs \in Nat /\ Slot(s) = offs + ranks
      /\ l < m => offs + n(l) <= offt
  BY <1>1, Places
<1>3. /\ rankt \in Nat /\ rankt < n(m) /\ offt \in Nat /\ Slot(t) = offt + rankt
      /\ m < l => offt + n(m) <= offs
  BY <1>1, Places
<1>4. l = m => offs = offt
  OBVIOUS
<1>5. l = m /\ ranks = rankt
  <2> DEFINE place == Slot(s)
             ns == n(l)
             nt == n(m)
  <2>1. place = offs + ranks /\ place = offt + rankt /\ ns \in Nat /\ nt \in Nat
        /\ ranks < ns /\ rankt < nt /\ (l < m => offs + ns <= offt) /\ (m < l => offt + nt <= offs)
    BY <1>1, <1>2, <1>3
  <2>2. /\ l \in Int /\ m \in Int /\ offs \in Nat /\ offt \in Nat /\ ranks \in Nat /\ rankt \in Nat
    BY <1>1, <1>2, <1>3
  <2> HIDE DEF place, ns, nt, l, m, offs, offt, ranks, rankt
  <2> QED BY <1>4, <2>1, <2>2
<1>6. IsFiniteSet(OfLength(l)) /\ \A r \in OfLength(l) : r \in Nat
  <2>1. OfLength(l) \subseteq Symbols
    BY DEF OfLength
  <2>2. IsFiniteSet(OfLength(l))
    BY <2>1, AtMostAll
  <2>3. \A r \in Symbols : r \in Nat
    BY SymbolsFinite
  <2> QED BY <2>1, <2>2, <2>3
<1>7. ranks = Below(OfLength(l), s) /\ rankt = Below(OfLength(l), t)
  BY <1>5 DEF Rank, Below
<1> DEFINE S == OfLength(l)
<1>8. /\ IsFiniteSet(S) /\ (\A r \in S : r \in Nat) /\ s \in S /\ t \in S
      /\ Below(S, s) = Below(S, t) /\ Below(S, s) \in Nat
  BY <1>1, <1>2, <1>5, <1>6, <1>7
<1> HIDE DEF S
<1>9. ~ (s < t) /\ ~ (t < s)
  <2>1. s < t => Below(S, s) < Below(S, t)
    BY <1>8, RankBelow
  <2>2. t < s => Below(S, t) < Below(S, s)
    BY <1>8, RankBelow
  <2> QED BY <1>8, <2>1, <2>2
<1> QED BY <1>1, <1>9
-------------------------------------------------------------------------------
(* What makes the decoded symbol the right one: symbol[] has each symbol   *)
(* with a code in its place; first is the first code of len bits and code  *)
(* the bits read; and what is left of the codes bounds how far code can be *)
(* from first.                                                             *)
Path ==
  phase = "decode" =>
    /\ \A s \in Used : symbol[Slot(s)] = s
    /\ len <= MaxBits => first = FirstCode[len]
    /\ Value[len - 1] \in Nat /\ code = 2 * Value[len - 1]
    /\ Left[len - 1] \in Int /\ code + 2 <= first + 2 * Left[len - 1]

PathInv == Path /\ DecodesWhenAllUsed

(* The table as built has each symbol with a code in its place. *)
LEMMA BuildPath == TableInv /\ Build => PathInv'
<1> SUFFICES ASSUME TableInv, Build PROVE PathInv'
  OBVIOUS
<1>1. /\ phase' = "decode" /\ len' = 1 /\ code' = 0 /\ first' = 0
      /\ UNCHANGED <<lengths, bits>>
      /\ symbol' = [i \in Symbols |->
                      IF \E s \in Used : Slot(s) = i
                      THEN CHOOSE s \in Used : Slot(s) = i ELSE Garbage]
  BY DEF Build, TableInv, Walk
<1>2. ASSUME NEW s \in Used PROVE symbol'[Slot(s)] = s
  <2>1. s \in Symbols /\ Used \subseteq Symbols
    BY DEF Used
  <2>2. Slot(s) \in Symbols
    <3>1. /\ Rank(s) \in Nat /\ Rank(s) < Cardinality(OfLength(lengths[s]))
          /\ Offset(lengths[s]) \in Nat /\ Slot(s) = Offset(lengths[s]) + Rank(s)
          /\ Offset(lengths[s]) + Cardinality(OfLength(lengths[s])) <= Nsyms
      BY <2>1, Places DEF TableInv
    <3>2. Cardinality(OfLength(lengths[s])) \in Nat /\ Nsyms \in Nat /\ Symbols = 0..(Nsyms - 1)
      BY CountIsInt, SymbolsFinite DEF TableInv
    <3> QED BY <3>1, <3>2
  <2>3. symbol'[Slot(s)] = CHOOSE t \in Used : Slot(t) = Slot(s)
    BY <1>1, <2>2
  <2>4. \A t \in Used : Slot(t) = Slot(s) => t = s
    BY <2>1, SlotsDiffer DEF TableInv
  <2> QED BY <2>3, <2>4
<1>3. FirstCode[1] = 0 /\ Value[0] = 0 /\ Left[0] = 1
  <2>1. FirstCode[0] = 0 /\ FirstCode[1] = 2 * (FirstCode[1 - 1] + 0)
    BY FirstCodeIs DEF TableInv
  <2> QED BY <2>1, ValueIs, LeftIs DEF TableInv
<1>4. Path'
  BY <1>1, <1>2, <1>3, Fixed DEF Path
<1>5. DecodesWhenAllUsed'
  BY <1>1 DEF DecodesWhenAllUsed, DecodesCanonical
<1> QED BY <1>4, <1>5 DEF PathInv

(* One more bit: the symbol is found, or the path goes on as the codes of  *)
(* the next length do.                                                     *)
LEMMA DecodePath == TableInv /\ PathInv /\ Decode => PathInv'
<1> SUFFICES ASSUME TableInv, PathInv, Decode PROVE PathInv'
  OBVIOUS
<1> DEFINE c == code + NextBit
           n == count[len]
<1>1. /\ phase = "decode" /\ len <= MaxBits /\ at' = at + 1
      /\ IF c < first + n
         THEN /\ decoded' = symbol[index + (c - first)] /\ phase' = "done"
              /\ UNCHANGED <<len, code, first, index>>
         ELSE /\ index' = index + n /\ first' = (first + n) * 2
              /\ code' = c * 2 /\ len' = len + 1
              /\ UNCHANGED <<phase, decoded>>
      /\ UNCHANGED <<lengths, count, symbol, bits>>
  BY DEF Decode
<1>2. NextBit \in {0, 1}
  BY DEF TableInv, HuffmanTypeOK, Walk, NextBit
<1>3. /\ len \in 1..MaxBits /\ at = len - 1 /\ first <= code
      /\ index = Cardinality(Shorter(len)) /\ n = Cardinality(OfLength(len))
      /\ code \in Nat /\ first \in Nat /\ n \in Nat
  BY <1>1, CountIsInt DEF TableInv, HuffmanTypeOK, Walk
<1>4. /\ \A s \in Used : symbol[Slot(s)] = s
      /\ first = FirstCode[len]
      /\ Value[len - 1] \in Nat /\ code = 2 * Value[len - 1]
      /\ Left[len - 1] \in Int /\ code + 2 <= first + 2 * Left[len - 1]
  BY <1>1, <1>3 DEF PathInv, Path
<1>5. Value[len] = c
  <2>1. NextBit = IF len <= Len(bits) THEN bits[len] ELSE 0
    BY <1>3 DEF NextBit, TableInv, Walk
  <2>2. Value[len] = 2 * Value[len - 1] + NextBit
    BY <1>3, <2>1, ValueIs DEF TableInv
  <2> QED BY <1>4, <2>2
<1>6. CASE c < first + n
  <2>1. phase' = "done" /\ decoded' = symbol[index + (c - first)] /\ at' = len
    BY <1>1, <1>3, <1>6
  <2>2. ASSUME Used = Symbols
        PROVE  decoded' \in Used /\ lengths[decoded'] = len /\ Value[len] = CodeOf(decoded')
    <3>1. OfLength(len) \subseteq Symbols /\ \A r \in OfLength(len) : r \in 0..(Nsyms - 1)
      BY SymbolsFinite DEF OfLength, TableInv
    <3>2. c - first \in Nat /\ c - first < n
      BY <1>2, <1>3, <1>6
    <3>3. PICK s \in OfLength(len) : Below(OfLength(len), s) = c - first
      <4>1. Nsyms - 1 \in Nat
        BY SymbolsFinite DEF TableInv
      <4> HIDE DEF c, n
      <4> QED BY <1>3, <3>1, <3>2, <4>1, RankExists
    <3>4. s \in Used /\ lengths[s] = len
      BY <2>2 DEF OfLength
    <3>5. Rank(s) = c - first
      BY <3>3, <3>4 DEF Rank, Below
    <3>6. index = Offset(len)
      <4>1. Shorter(len) = {t \in Symbols : lengths[t] < len}
        BY <2>2, SymbolsFinite DEF Shorter, Used, TableInv
      <4> QED BY <1>3, <4>1 DEF Offset
    <3>7. Slot(s) = index + (c - first)
      BY <3>4, <3>5, <3>6 DEF Slot, Rank
    <3>8. decoded' = s
      BY <1>4, <2>1, <3>4, <3>7
    <3>9. CodeOf(s) = first + (c - first)
      BY <1>4, <3>4, <3>5 DEF CodeOf, Rank
    <3>10. CodeOf(s) = c
      BY <1>2, <1>3, <3>9
    <3> QED BY <1>5, <3>4, <3>8, <3>10
  <2>3. DecodesWhenAllUsed'
    <3> SUFFICES ASSUME Used = Symbols
                 PROVE  decoded' \in Used' /\ lengths'[decoded'] = at'
                        /\ Value'[at'] = CodeOf(decoded)'
      BY <1>1, Fixed DEF DecodesWhenAllUsed, DecodesCanonical
    <3>1. CodeOf(decoded)' = CodeOf(decoded')
      BY <1>1, Fixed DEF CodeOf, OfLength, Symbols
    <3> QED BY <1>1, <2>1, <2>2, <3>1, Fixed
  <2>4. Path'
    BY <2>1 DEF Path
  <2> QED BY <2>3, <2>4 DEF PathInv
<1>7. CASE ~ (c < first + n)
  <2>1. /\ first' = (first + n) * 2 /\ code' = c * 2 /\ len' = len + 1
        /\ phase' = "decode" /\ UNCHANGED <<lengths, bits, symbol>>
    BY <1>1, <1>7
  <2>2. len' <= MaxBits => first' = FirstCode[len']
    <3> SUFFICES ASSUME len + 1 <= MaxBits PROVE first' = FirstCode[len + 1]
      BY <2>1
    <3>1. FirstCode[len + 1] =
            2 * (FirstCode[(len + 1) - 1] +
              IF len + 1 = 1 THEN 0 ELSE Cardinality(OfLength((len + 1) - 1)))
      <4>1. len + 1 \in 1..MaxBits
        BY <1>3
      <4> QED BY <4>1, FirstCodeIs DEF TableInv
    <3>2. (len + 1) - 1 = len /\ len + 1 # 1
      BY <1>3
    <3>3. FirstCode[len + 1] = 2 * (first + n)
      BY <1>3, <1>4, <3>1, <3>2
    <3> QED BY <1>3, <2>1, <3>3
  <2>3. len' - 1 = len
    BY <1>3, <2>1
  <2>4. Value[len] \in Nat /\ code' = 2 * Value[len]
    BY <1>2, <1>3, <1>5, <2>1
  <2>5. Left[len] \in Int /\ code' + 2 <= first' + 2 * Left[len]
    <3>1. Left[len] = 2 * Left[len - 1] - n
      BY <1>3, LeftIs DEF TableInv
    <3> DEFINE z == Left[len - 1]
    <3>2. z \in Int /\ code + 2 <= first + 2 * z /\ Left[len] = 2 * z - n
      BY <1>4, <3>1
    <3> HIDE DEF z
    <3> QED BY <1>2, <1>3, <2>1, <3>2
  <2>6. Path'
    BY <1>4, <2>1, <2>2, <2>3, <2>4, <2>5, Fixed DEF Path
  <2>7. DecodesWhenAllUsed'
    BY <2>1 DEF DecodesWhenAllUsed, DecodesCanonical
  <2> QED BY <2>6, <2>7 DEF PathInv
<1> QED BY <1>6, <1>7

(* A complete code leaves nothing to give up on. *)
LEMMA GiveUpPath == TableInv /\ PathInv /\ GiveUp => PathInv'
<1> SUFFICES ASSUME TableInv, PathInv, GiveUp PROVE PathInv'
  OBVIOUS
<1>1. /\ phase = "decode" /\ len > MaxBits /\ phase' = "done"
      /\ UNCHANGED <<lengths, bits>>
  BY DEF GiveUp
<1>2. len - 1 = MaxBits /\ first <= code /\ first \in Nat /\ code \in Nat
  BY <1>1 DEF TableInv, Walk, HuffmanTypeOK
<1>3. code + 2 <= first + 2 * Left[MaxBits] /\ Left[MaxBits] \in Int
  BY <1>1, <1>2 DEF PathInv, Path
<1>4. ~ Complete
  BY <1>2, <1>3 DEF Complete
<1>5. ~ Complete'
  BY <1>1, <1>4, Fixed DEF Complete
<1> QED BY <1>1, <1>5 DEF PathInv, Path, DecodesWhenAllUsed, DecodesCanonical

(* What decoding relies on, and what it gives, hold throughout.            *)
THEOREM DecodesRight == HuffmanSpec => []PathInv
<1>1. HuffmanInit => PathInv
  BY DEF HuffmanInit, PathInv, Path, DecodesWhenAllUsed, DecodesCanonical
<1>2. TableInv /\ PathInv /\ [HuffmanNext]_huffmanVars => PathInv'
  <2>1. TableInv /\ PathInv /\ UNCHANGED huffmanVars => PathInv'
    <3> SUFFICES ASSUME TableInv, PathInv, UNCHANGED huffmanVars PROVE PathInv'
      OBVIOUS
    <3>1. UNCHANGED <<lengths, bits, symbol, at, len, code, first, phase, decoded>>
      BY DEF huffmanVars
    <3>2. Path'
      BY <3>1, Fixed DEF PathInv, Path
    <3>3. CodeOf(decoded)' = CodeOf(decoded) /\ Complete' = Complete
      BY <3>1, Fixed DEF CodeOf, OfLength, Symbols, Complete
    <3>4. DecodesWhenAllUsed'
      BY <3>1, <3>3, Fixed DEF PathInv, DecodesWhenAllUsed, DecodesCanonical
    <3> QED BY <3>2, <3>4 DEF PathInv
  <2> QED BY <2>1, BuildPath, DecodePath, GiveUpPath DEF HuffmanNext
<1> QED BY <1>1, <1>2, TableInvariance, PTL DEF HuffmanSpec

(* A complete table in which every symbol has a code is decoded as RFC     *)
(* 1951 says: by the symbol whose canonical code the bits are.             *)
THEOREM DecodesTheRfc == HuffmanSpec => []DecodesWhenAllUsed
BY DecodesRight, PTL DEF PathInv
===============================================================================
