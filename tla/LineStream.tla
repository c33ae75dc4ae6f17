------------------------------ MODULE LineStream ------------------------------
(***************************************************************************)
(* The buffered line loop that grep_stream (tools/grep.c) and uniq_main    *)
(* (tools/uniq.c) share: read as much as fits behind what is buffered,     *)
(* hand out the complete lines, move the incomplete one to the front, read *)
(* again.  read() returns any part of what is left, and may fail.          *)
(*                                                                         *)
(* The array buf and its two indices are the code's (counted from 0).      *)
(* "base", "pos" and "out" are history: how much of the input was shifted  *)
(* out of the buffer and read into it, and the lines handed out.           *)
(***************************************************************************)
EXTENDS Integers, Sequences

CONSTANTS Inputs,    \* the inputs to read, sequences of characters
          Char,      \* characters other than newline
          Newline, Nul,
          Size       \* sizeof(buf)

Chars == Char \cup {Newline}

ASSUME CharsAssumption == Newline \notin Char /\ Nul \notin Chars
ASSUME InputsAssumption == Inputs \subseteq Seq(Chars)
ASSUME SizeAssumption == Size \in Nat /\ Size > 1

VARIABLES
  text,       \* the input
  pos,        \* bytes of it that were read
  pc,         \* "read", "scan" (inside the inner loop) or "done"
  buf,        \* buf[Size]
  bufLen,     \* buf_len
  lineStart,  \* line_start
  n,          \* result of the last read
  base,       \* input offset of buf[0]
  out         \* lines handed out: where each starts, and its bytes

vars == <<text, pos, pc, buf, bufLen, lineStart, n, base, out>>

Indices == 0..(Size - 1)
RoomNoNul == Size - bufLen
(* What fits behind the buffered bytes and before the closing NUL. *)
Room == Size - bufLen - 1

Init ==
  /\ text \in Inputs
  /\ pos = 0 /\ base = 0 /\ out = << >>
  /\ pc = "read"
  /\ buf = [i \in Indices |-> Nul]
  /\ bufLen = 0 /\ lineStart = 0 /\ n = 0

(* read(fd, buf + bufLen, room): what it may return. *)
ReadResults ==
  IF Room = 0 \/ pos = Len(text) THEN {0, -1}
  ELSE {-1} \cup {k \in 1..Room : k <= Len(text) - pos}

Received(k) == IF k > 0 THEN k ELSE 0

(* One read.  Nothing more and nothing buffered: leave the loop. *)
Read ==
  /\ pc = "read"
  /\ \E k \in ReadResults :
       /\ n' = k
       /\ pos' = pos + Received(k)
       /\ bufLen' = bufLen + Received(k)
       /\ buf' = IF k <= 0 /\ bufLen = lineStart THEN buf
                 ELSE [i \in Indices |->
                        IF bufLen <= i /\ i < bufLen' THEN text[pos + i - bufLen + 1]
                        ELSE IF i = bufLen' THEN Nul ELSE buf[i]]
       /\ pc' = IF k <= 0 /\ bufLen = lineStart THEN "done" ELSE "scan"
  /\ UNCHANGED <<text, lineStart, base, out>>

(* eol is the first newline at or behind lineStart, or bufLen. *)
IsEol(eol) ==
  /\ lineStart <= eol /\ eol <= bufLen
  /\ \A i \in Indices : lineStart <= i /\ i < eol => buf[i] # Newline
  /\ eol < bufLen => buf[eol] = Newline

Taken(eol) == [i \in 1..(eol - lineStart) |-> buf[lineStart + i - 1]]

EmitIgnoresRest(eol) ==
  /\ pc = "scan" /\ lineStart < bufLen /\ IsEol(eol)
  /\ buf' = [buf EXCEPT ![eol] = Nul]
  /\ out' = Append(out, [start |-> base + lineStart, bytes |-> Taken(eol)])
  /\ lineStart' = eol + 1
  /\ UNCHANGED <<text, pos, pc, bufLen, n, base>>

(* A complete line, or whatever is left when the read gave nothing: cut it *)
(* off with a NUL and hand it to the tool.                                 *)
Emit(eol) ==
  /\ pc = "scan" /\ lineStart < bufLen /\ IsEol(eol)
  /\ eol < bufLen \/ n <= 0
  /\ buf' = [buf EXCEPT ![eol] = Nul]
  /\ out' = Append(out, [start |-> base + lineStart, bytes |-> Taken(eol)])
  /\ lineStart' = eol + 1
  /\ UNCHANGED <<text, pos, pc, bufLen, n, base>>

(* mem_move(buf, buf + lineStart, bufLen - lineStart), byte by byte *)
Moved(i) == IF i < bufLen - lineStart THEN buf[i + lineStart] ELSE buf[i]

ShiftForgetsRest ==
  /\ pc = "scan"
  /\ lineStart >= bufLen \/ (n > 0 /\ IsEol(bufLen))
  /\ bufLen' = 0 /\ lineStart' = 0 /\ base' = pos
  /\ pc' = IF n <= 0 THEN "done" ELSE "read"
  /\ UNCHANGED <<text, pos, buf, n, out>>

(* No complete line is left: move the incomplete one to the front (the     *)
(* source is then overwritten by the next read), or empty the buffer.      *)
Shift ==
  /\ pc = "scan"
  /\ lineStart >= bufLen \/ (n > 0 /\ IsEol(bufLen))
  /\ IF lineStart < bufLen
     THEN /\ buf' = [i \in Indices |-> Moved(i)]
          /\ bufLen' = bufLen - lineStart
          /\ base' = base + lineStart
     ELSE buf' = buf /\ bufLen' = 0 /\ base' = pos
  /\ lineStart' = 0
  /\ pc' = IF n <= 0 THEN "done" ELSE "read"
  /\ UNCHANGED <<text, pos, n, out>>

Next == Read \/ (\E eol \in Indices : Emit(eol)) \/ Shift

(* A reader whose input keeps coming is never blocked for ever. *)
Spec == Init /\ [][Next]_vars /\ WF_vars(Next)
-------------------------------------------------------------------------------
TypeOK ==
  /\ text \in Seq(Chars)
  /\ pos \in 0..Len(text) /\ base \in 0..Len(text)
  /\ pc \in {"read", "scan", "done"}
  /\ buf \in [Indices -> Chars \cup {Nul}]
  /\ bufLen \in 0..(Size - 1) /\ lineStart \in 0..Size
  /\ n \in Int
  /\ out \in Seq([start : Nat, bytes : Seq(Chars)])

EndOf(line) == line.start + Len(line.bytes)

(* Every line handed out is a run of the input without a newline, starting *)
(* where the one before it ended: no line is split where a read ended, no  *)
(* two are joined, none is skipped.                                        *)
LinesFaithful ==
  \A k \in 1..Len(out) :
    /\ out[k].start = IF k = 1 THEN 0 ELSE EndOf(out[k - 1]) + 1
    /\ EndOf(out[k]) <= pos
    /\ \A i \in 1..Len(out[k].bytes) :
         out[k].bytes[i] = text[out[k].start + i] /\ out[k].bytes[i] # Newline
    /\ EndOf(out[k]) < pos => text[EndOf(out[k]) + 1] = Newline

NextStart == IF out = << >> THEN 0 ELSE EndOf(out[Len(out)]) + 1

(* When the loop ends, everything that was read has been handed out, and   *)
(* the loop stops short of the input only on a failed read or a line that  *)
(* fills the whole buffer, whose rest (and everything behind it) is lost.  *)
NothingHeldBack ==
  pc = "done" =>
    /\ NextStart >= pos
    /\ pos = Len(text) \/ n < 0
       \/ (out # << >> /\ Len(out[Len(out)].bytes) = Size - 1)
===============================================================================
