------------------------------- MODULE Inflate -------------------------------
(***************************************************************************)
(* inflate_to_fd of include/deflate.h: the loop over the blocks of a       *)
(* DEFLATE stream, the sliding window that copies are taken from, and the  *)
(* output buffer that is flushed to a file descriptor by writes that may   *)
(* be short or fail.                                                       *)
(*                                                                         *)
(* The input is the sequence of blocks and symbols that its bits decode to *)
(* (module Huffman has the decoding).  Behind the end of the input         *)
(* inf_bits_read returns zeros, without an error: that is the symbol       *)
(* "zero" of a block, the one whose code is all zeros: end of block for    *)
(* the fixed codes, any symbol for the codes a dynamic block declares.     *)
(***************************************************************************)
EXTENDS Integers, Sequences

CONSTANTS Streams,    \* the compressed inputs
          Byte,       \* bytes, with the zero the window starts with
          Zero,
          W,          \* INFLATE_WINDOW
          OutSize,    \* INFLATE_OUTBUF
          MaxCopy,    \* longest match
          MaxTotal,   \* bytes that may be emitted: bounds the behaviour
          MayFail     \* whether write may return an error

Literal(b)   == [kind |-> "literal", byte |-> b, length |-> 0, distance |-> 0]
Copy(l, d)   == [kind |-> "copy", byte |-> Zero, length |-> l, distance |-> d]
EndOfBlock   == [kind |-> "end", byte |-> Zero, length |-> 0, distance |-> 0]
BadSymbol    == [kind |-> "bad", byte |-> Zero, length |-> 0, distance |-> 0]

Symbol == {Literal(b) : b \in Byte} \cup {EndOfBlock, BadSymbol}
          \cup {Copy(l, d) : l \in 1..MaxCopy, d \in 1..W}
Block  == [final : BOOLEAN, type : {"stored", "fixed", "dynamic", "bad"},
           size : Nat, symbols : Seq(Symbol), zero : Symbol]

ASSUME SizesAssumption ==
         /\ W \in Nat \ {0} /\ OutSize \in Nat \ {0}
         /\ MaxCopy \in Nat \ {0} /\ MaxTotal \in Nat /\ MayFail \in BOOLEAN
ASSUME ByteAssumption == Zero \in Byte
ASSUME StreamsAssumption ==
         /\ Streams \subseteq Seq(Block)
         /\ \A s \in Streams : \A i \in 1..Len(s) :
              s[i].type = "fixed" => s[i].zero = EndOfBlock

VARIABLES
  stream,   \* the input
  blk,      \* block being decoded
  sym,      \* symbols of it that were decoded
  pc,       \* "header", "body", "copy", "flush", "done"
  back,     \* where to go on after a flush
  left, distance,     \* rest of the copy, and how far back it is taken from
  window, winpos,     \* window[INFLATE_WINDOW] and its write position
  outbuf, outpos,     \* outbuf[INFLATE_OUTBUF] and how much of it is filled
  flushed,            \* p - outbuf: how much of it was written
  written,  \* what the file descriptor received
  result,   \* the value returned: -1, or the number of bytes
  emitted,  \* history: every byte given to inf_emit
  refused   \* history: a write failed

inVars   == <<stream, blk, sym, left, distance>>
outVars  == <<outbuf, outpos, flushed, written>>
vars == <<inVars, pc, back, window, winpos, outVars, result, emitted, refused>>

Init ==
  /\ stream \in Streams /\ blk = 1 /\ sym = 0
  /\ pc = "header" /\ back = "header" /\ left = 0 /\ distance = 1
  /\ window = [i \in 0..(W - 1) |-> Zero] /\ winpos = 0
  /\ outbuf = [i \in 0..(OutSize - 1) |-> Zero] /\ outpos = 0 /\ flushed = 0
  /\ written = << >> /\ result = 0 /\ emitted = << >> /\ refused = FALSE

Return(r) == pc' = "done" /\ result' = r

Current == stream[blk]
Truncated == blk > Len(stream)

(* bfinal and btype.  Behind the end of the input they read as zero, a     *)
(* stored block, whose length is not there either.  A stored block is      *)
(* refused before any byte of it is emitted when its size is not there.    *)
BlockRefused ==
  \/ Truncated
  \/ Current.type = "bad"
  \/ Current.type = "stored" /\ Len(Current.symbols) < Current.size

Header ==
  /\ pc = "header"
  /\ sym' = 0
  /\ IF BlockRefused THEN Return(-1) ELSE pc' = "body" /\ UNCHANGED result
  /\ UNCHANGED <<stream, blk, left, distance, back, window, winpos, outVars, emitted, refused>>

(* The next symbol of the block: past its end, a stored block is over,     *)
(* and a compressed one reads zeros.                                       *)
NextSymbol ==
  IF sym < Len(Current.symbols) THEN Current.symbols[sym + 1]
  ELSE IF Current.type = "stored" THEN EndOfBlock ELSE Current.zero

EmitOneEarly(b, then) ==
  /\ Len(emitted) < MaxTotal
  /\ window' = [window EXCEPT ![(winpos + 1) % W] = b] /\ winpos' = winpos + 1
  /\ emitted' = Append(emitted, b)
  /\ outbuf' = [outbuf EXCEPT ![outpos] = b] /\ outpos' = outpos + 1
  /\ IF outpos' >= OutSize THEN pc' = "flush" /\ back' = then
                           ELSE pc' = then /\ UNCHANGED back
  /\ UNCHANGED <<flushed, written, result, refused>>

(* inf_emit: into the window and the output buffer, a full one is flushed. *)
Emit(b, then) ==
  /\ Len(emitted) < MaxTotal
  /\ window' = [window EXCEPT ![winpos % W] = b] /\ winpos' = winpos + 1
  /\ emitted' = Append(emitted, b)
  /\ outbuf' = [outbuf EXCEPT ![outpos] = b] /\ outpos' = outpos + 1
  /\ IF outpos' >= OutSize THEN pc' = "flush" /\ back' = then
                           ELSE pc' = then /\ UNCHANGED back
  /\ UNCHANGED <<flushed, written, result, refused>>

EmitLiteral ==
  /\ pc = "body" /\ NextSymbol.kind = "literal"
  /\ sym' = sym + (IF sym < Len(Current.symbols) THEN 1 ELSE 0)
  /\ Emit(NextSymbol.byte, "body")
  /\ UNCHANGED <<stream, blk, left, distance>>

(* A length and distance pair.  The distance is not compared with what has *)
(* been emitted so far.                                                    *)
BeginCopy ==
  /\ pc = "body" /\ NextSymbol.kind = "copy"
  /\ sym' = sym + (IF sym < Len(Current.symbols) THEN 1 ELSE 0)
  /\ left' = NextSymbol.length /\ distance' = NextSymbol.distance
  /\ pc' = "copy"
  /\ UNCHANGED <<stream, blk, back, window, winpos, outVars, result, emitted, refused>>

CopyByteOneLate ==
  /\ pc = "copy" /\ left > 0
  /\ left' = left - 1
  /\ Emit(window[(winpos + 1 - distance) % W], IF left' = 0 THEN "body" ELSE "copy")
  /\ UNCHANGED <<stream, blk, sym, distance>>

(* One byte of a copy, which may overlap what it writes. *)
CopyByte ==
  /\ pc = "copy" /\ left > 0
  /\ left' = left - 1
  /\ Emit(window[(winpos - distance) % W], IF left' = 0 THEN "body" ELSE "copy")
  /\ UNCHANGED <<stream, blk, sym, distance>>

BlockEnds ==
  /\ pc = "body" /\ NextSymbol.kind = "end"
  /\ blk' = blk + 1
  /\ IF Current.final THEN pc' = "flush" /\ back' = "done"
                      ELSE pc' = "header" /\ UNCHANGED back
  /\ UNCHANGED <<stream, sym, left, distance, window, winpos, outVars, result, emitted, refused>>

BadCodeSkipped ==
  /\ pc = "body" /\ NextSymbol.kind = "bad"
  /\ sym' = sym + (IF sym < Len(Current.symbols) THEN 1 ELSE 0)
  /\ UNCHANGED <<stream, blk, left, distance, pc, back, window, winpos, outVars, result,
                 emitted, refused>>

(* A code no symbol has, or one of the symbols that stand for nothing. *)
BadCode ==
  /\ pc = "body" /\ NextSymbol.kind = "bad"
  /\ Return(-1)
  /\ UNCHANGED <<inVars, back, window, winpos, outVars, emitted, refused>>

FlushOnce ==
  /\ pc = "flush" /\ flushed < outpos
  /\ \E w \in 1..(outpos - flushed) :
       written' = written \o [i \in 1..w |-> outbuf[flushed + i - 1]]
  /\ flushed' = outpos
  /\ UNCHANGED <<inVars, pc, back, window, winpos, outbuf, outpos, result, emitted, refused>>

(* inf_flush: one write, which takes at least one byte unless it fails. *)
FlushWrite ==
  /\ pc = "flush" /\ flushed < outpos
  /\ \E w \in 1..(outpos - flushed) :
       /\ written' = written \o [i \in 1..w |-> outbuf[flushed + i - 1]]
       /\ flushed' = flushed + w
  /\ UNCHANGED <<inVars, pc, back, window, winpos, outbuf, outpos, result, emitted, refused>>

(* A write that takes nothing or fails ends it all with -1. *)
FlushFails ==
  /\ MayFail /\ pc = "flush" /\ flushed < outpos
  /\ Return(-1) /\ refused' = TRUE
  /\ UNCHANGED <<inVars, back, window, winpos, outVars, emitted>>

(* The buffer is written out: go on, or return the number of bytes. *)
Flushed ==
  /\ pc = "flush" /\ flushed = outpos
  /\ outpos' = 0 /\ flushed' = 0
  /\ pc' = back /\ result' = IF back = "done" THEN Len(emitted) ELSE result
  /\ UNCHANGED <<inVars, back, window, winpos, outbuf, written, emitted, refused>>

Next == \/ Header \/ EmitLiteral \/ BeginCopy \/ CopyByte \/ BlockEnds \/ BadCode
        \/ FlushWrite \/ FlushFails \/ Flushed

Spec == Init /\ [][Next]_vars /\ WF_vars(Next)
-------------------------------------------------------------------------------
TypeOK ==
  /\ stream \in Streams /\ blk \in Nat \ {0} /\ sym \in Nat
  /\ pc \in {"header", "body", "copy", "flush", "done"}
  /\ back \in {"header", "body", "copy", "done"}
  /\ left \in 0..MaxCopy /\ distance \in 1..W
  /\ window \in [0..(W - 1) -> Byte] /\ winpos \in Nat
  /\ outbuf \in [0..(OutSize - 1) -> Byte]
  /\ outpos \in 0..OutSize /\ flushed \in 0..outpos
  /\ written \in Seq(Byte) /\ emitted \in Seq(Byte)
  /\ result \in Int /\ refused \in BOOLEAN

(* d bytes back in the output, or zero before its beginning *)
Earlier(d) == IF d <= Len(emitted) THEN emitted[Len(emitted) - d + 1] ELSE Zero

(* The window holds the last W bytes of the output, each at the index that *)
(* a copy from that far back will look at: also when the position has gone *)
(* round the ring, and when the distance reaches before the first byte.    *)
WindowIsPast ==
  winpos = Len(emitted) /\ \A d \in 1..W : window[(winpos - d) % W] = Earlier(d)

(* The file descriptor has received the output in order and without gaps,  *)
(* and the rest of it waits in the buffer, however the writes were cut.    *)
OutputInOrder ==
  /\ Len(written) + (outpos - flushed) = Len(emitted)
  /\ \A i \in 1..Len(written) : written[i] = emitted[i]
  /\ \A i \in flushed..(outpos - 1) :
       outbuf[i] = emitted[Len(written) + (i - flushed) + 1]

(* The number of bytes is returned only when all of them were written, and *)
(* after a write that failed never.                                        *)
ResultIsLength ==
  pc = "done" /\ result # -1 => result = Len(written) /\ written = emitted /\ ~refused

(* What a well-formed stream stands for, read off its symbols: a copy      *)
(* repeats the last "distance" bytes as often as it takes.                 *)
Intact(s) ==
  /\ s # << >>
  /\ \A i \in 1..Len(s) :
       LET n == Len(s[i].symbols) IN
       /\ s[i].type # "bad" /\ s[i].final = (i = Len(s))
       /\ IF s[i].type = "stored" THEN n = s[i].size
          ELSE n > 0 /\ s[i].symbols[n] = EndOfBlock
       /\ \A j \in 1..n : s[i].symbols[j].kind \in {"literal", "copy"}
                          \/ (j = n /\ s[i].type # "stored")

(* The i-th byte that a copy from d back appends to out. *)
Repeated(out, d, i) ==
  LET source == Len(out) - d + ((i - 1) % d) + 1
  IN  IF source > 0 THEN out[source] ELSE Zero

Repeat(out, d, n) == out \o [i \in 1..n |-> Repeated(out, d, i)]

Expand(out, y) ==
  CASE y.kind = "literal" -> Append(out, y.byte)
    [] y.kind = "copy" -> Repeat(out, y.distance, y.length)
    [] OTHER -> out

(* What out has become after each of the symbols, and the empty output     *)
(* after each of the blocks.                                               *)
AfterSymbols(out, symbols) ==
  LET f[j \in 0..Len(symbols)] == IF j = 0 THEN out ELSE Expand(f[j - 1], symbols[j])
  IN  f
AfterBlocks(s) ==
  LET f[i \in 0..Len(s)] ==
        IF i = 0 THEN << >>
        ELSE AfterSymbols(f[i - 1], s[i].symbols)[Len(s[i].symbols)]
  IN  f
Contents(s) == AfterBlocks(s)[Len(s)]

(* An intact stream is inflated to its contents unless a write fails: no   *)
(* byte of a copy is lost or taken from the wrong place where a buffer is  *)
(* flushed or the window wraps in the middle of it.                        *)
IntactIsInflated ==
  pc = "done" /\ Intact(stream) =>
    IF refused THEN result = -1 ELSE result # -1 /\ written = Contents(stream)

(* A block the data leaves open whose all-zero code is not its end. *)
EndlessBlock(b) ==
  /\ b.type \notin {"stored", "bad"}
  /\ b.zero.kind \notin {"end", "bad"}
  /\ \A j \in 1..Len(b.symbols) : b.symbols[j].kind \notin {"end", "bad"}

(* Inflating ends for every other input, cut off anywhere. *)
InflateEnds == (\A i \in 1..Len(stream) : ~EndlessBlock(stream[i])) => <>(pc = "done")
===============================================================================
