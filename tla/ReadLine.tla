------------------------------- MODULE ReadLine -------------------------------
(***************************************************************************)
(* read_line of include/io.h, which reads one byte at a time, and the loop *)
(*     while (read_line(fd, buf, max) > 0) ...                             *)
(* that cut, sed, xargs, diff, the passwd and group lookups and the shell  *)
(* run it in.  The result tells neither a blank line nor the rest of a     *)
(* line of exactly max - 1 bytes from the end of the file.                 *)
(***************************************************************************)
EXTENDS Integers, Sequences

CONSTANTS Texts,         \* inputs
          TextChar,      \* what they are sequences of
          NewlineChar,
          LineMax        \* the size handed to read_line

ASSUME TextsAssumption == Texts \subseteq Seq(TextChar)
ASSUME MaxAssumption == LineMax \in Nat /\ LineMax > 1

VARIABLES
  input,  \* the file
  at,     \* bytes of it that were read
  line,   \* buf[0..i-1]
  phase,  \* "reading" inside read_line, "returned" from it, "ended": loop left
  result, \* what read_line returned
  got,    \* the lines the loop's body was given
  failed  \* history: a read failed

rlVars == <<input, at, line, phase, result, got, failed>>

RLInit ==
  /\ input \in Texts /\ at = 0 /\ line = << >>
  /\ phase = "reading" /\ result = 0 /\ got = << >> /\ failed = FALSE

Return(r) == phase' = "returned" /\ result' = r

(* while (i < max - 1): one byte; a newline ends the line and is dropped. *)
ReadByte ==
  /\ phase = "reading" /\ Len(line) < LineMax - 1 /\ at < Len(input)
  /\ at' = at + 1
  /\ IF input[at'] = NewlineChar
     THEN Return(Len(line)) /\ UNCHANGED line
     ELSE line' = Append(line, input[at']) /\ UNCHANGED <<phase, result>>
  /\ UNCHANGED <<input, got, failed>>

(* read returned r <= 0: that is the result only if nothing came before,   *)
(* so an error behind the start of a line goes unnoticed.                  *)
ReadStops ==
  /\ phase = "reading" /\ Len(line) < LineMax - 1
  /\ \E r \in {-1} \cup (IF at = Len(input) THEN {0} ELSE {}) :
       /\ Return(IF line = << >> THEN r ELSE Len(line))
       /\ failed' = (failed \/ r < 0)
  /\ UNCHANGED <<input, at, line, got>>

BufferFullIsError ==
  /\ phase = "reading" /\ Len(line) = LineMax - 1
  /\ Return(-1)
  /\ UNCHANGED <<input, at, line, got, failed>>

(* No room for another byte: the caller gets what fits. *)
BufferFull ==
  /\ phase = "reading" /\ Len(line) = LineMax - 1
  /\ Return(Len(line))
  /\ UNCHANGED <<input, at, line, got, failed>>

(* The caller: the body for a positive result, otherwise out of the loop. *)
LoopTurn ==
  /\ phase = "returned"
  /\ IF result > 0
     THEN got' = Append(got, line) /\ line' = << >> /\ phase' = "reading"
     ELSE phase' = "ended" /\ UNCHANGED <<line, got>>
  /\ UNCHANGED <<input, at, result, failed>>

RLNext == ReadByte \/ ReadStops \/ BufferFull \/ LoopTurn
RLSpec == RLInit /\ [][RLNext]_rlVars /\ WF_rlVars(RLNext)
-------------------------------------------------------------------------------
LineEnds == {i \in 1..Len(input) : input[i] = NewlineChar} \cup {Len(input) + 1}
LineLength(e) ==
  e - 1 - (CHOOSE s \in {0} \cup LineEnds : /\ s < e
                                            /\ \A t \in LineEnds : t < e => t <= s)

(* The bytes of the file up to a place, without its newlines, and what the *)
(* loop was given, put together.                                           *)
BytesTo[i \in 0..Len(input)] ==
  IF i = 0 THEN << >>
  ELSE IF input[i] = NewlineChar THEN BytesTo[i - 1] ELSE Append(BytesTo[i - 1], input[i])
Joined[k \in 0..Len(got)] == IF k = 0 THEN << >> ELSE Joined[k - 1] \o got[k]

(* What a loop over read_line is given is the file up to where it stops,   *)
(* newlines left out: long lines come in pieces, but nothing is skipped or *)
(* doubled.  A loop that met no read error has gone through the whole file,*)
(* provided no line of it is a multiple of max - 1 bytes long (a blank     *)
(* line is one of zero bytes): what is left of such a line is an empty     *)
(* line, which reads as the end of the file.                               *)
ReadsWholeFile ==
  /\ Joined[Len(got)] \o line = BytesTo[at]
  /\ phase = "ended" /\ ~failed
       /\ (\A e \in LineEnds \ {Len(input) + 1} : LineLength(e) % (LineMax - 1) # 0)
     => at = Len(input)

(* io.h:73, "Returns bytes read, 0 on EOF, -1 on error": a caller that     *)
(* sees 0 is at the end of the file.                                       *)
ZeroMeansEof == phase = "returned" /\ result = 0 => at = Len(input)
===============================================================================
