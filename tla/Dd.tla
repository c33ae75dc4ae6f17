----------------------------------- MODULE Dd -----------------------------------
(***************************************************************************)
(* tools/dd.c.  read gives any part of a block, write takes any part of    *)
(* what is left of it, and both may fail, as the mapping of a large buffer *)
(* may.                                                                    *)
(*                                                                         *)
(* An order is a record: bs, count (-1: not given), skip, seek, input (the *)
(* contents of the input, or Missing if it cannot be opened), old (what is *)
(* in the output before, or Missing), canSkip and canSeek (whether lseek  *)
(* works there).                                                           *)
(***************************************************************************)
EXTENDS Integers, Sequences

CONSTANTS Orders, Datum, Null,  \* the bytes of a file, and the one a hole reads as
          Missing,              \* what cannot be opened
          MaxBlock,             \* 64 MB
          StackBuf,             \* sizeof(stack_buf)
          Offsets               \* 2^64, as many as an unsigned long tells apart

ASSUME OrdersAssumption ==
  \A o \in Orders :
    /\ o.bs \in Nat /\ o.count \in Nat \cup {-1} /\ o.skip \in Nat /\ o.seek \in Nat
    /\ o.input \in Seq(Datum) \cup {Missing} /\ o.old \in Seq(Datum) \cup {Missing}
    /\ o.canSkip \in BOOLEAN /\ o.canSeek \in BOOLEAN
ASSUME MissingAssumption == Missing \notin Seq(Datum) /\ Null \in Datum
ASSUME OffsetsAssumption == Offsets \in Nat \ {0} /\ MaxBlock \in Nat /\ StackBuf \in Nat

VARIABLES
  order,
  turn,     \* "options", "input", "output", "buffer", "read", "write", "done"
  got,      \* bytes read
  block,    \* the block that was read last
  left,     \* what of it is still to be written
  output,
  records,  \* blocks_in, partial_in, blocks_out, partial_out, total_bytes
  ddCode,   \* what dd returns
  broken    \* history: which calls failed

transfer == <<got, block, left, records>>
ddVars == <<order, turn, transfer, output, ddCode, broken>>

DdInit ==
  /\ order \in Orders /\ turn = "options" /\ got = 0 /\ block = << >> /\ left = << >>
  /\ output = order.old /\ ddCode = 0 /\ broken = {}
  /\ records = [blocksIn |-> 0, partialIn |-> 0, blocksOut |-> 0, partialOut |-> 0, bytes |-> 0]

Refuse == turn' = "done" /\ ddCode' = 1
Proceed(next) == turn' = next /\ ddCode' = ddCode

CheckSize ==
  /\ turn = "options"
  /\ IF order.bs \in 1..MaxBlock THEN Proceed("input") ELSE Refuse
  /\ UNCHANGED <<order, transfer, output, broken>>
OpenIn ==
  /\ turn = "input"
  /\ IF order.input = Missing THEN Refuse ELSE Proceed("output")
  /\ UNCHANGED <<order, transfer, output, broken>>
OpenOut ==
  /\ turn = "output"
  /\ IF order.old = Missing THEN Refuse /\ UNCHANGED output
     ELSE Proceed("buffer") /\ output' = << >>
  /\ UNCHANGED <<order, transfer, broken>>

(* A large block gets a mapping of its own.  Where mmap fails it returns    *)
(* -errno, which is not MAP_FAILED: dd goes on with that address, into     *)
(* which no read succeeds, and returns 0.                                  *)
Allocate ==
  /\ turn = "buffer"
  /\ \/ Proceed("read") /\ broken' = broken
     \/ order.bs > StackBuf /\ Proceed("done") /\ broken' = broken \cup {"read"}
  /\ UNCHANGED <<order, transfer, output>>
-------------------------------------------------------------------------------
Smaller(m, n) == IF m <= n THEN m ELSE n

(* Where n blocks on is: the product is unsigned, lseek takes it for signed *)
(* and does nothing about a negative one; nobody looks at what it returns. *)
Position(n, seekable) ==
  LET offset == (n * order.bs) % Offsets IN
  IF seekable /\ offset < Offsets \div 2 THEN offset ELSE 0
Skipped == Smaller(Position(order.skip, order.canSkip), Len(order.input))
Hole == [i \in 1..Position(order.seek, order.canSeek) |-> Null]

Ahead == Len(order.input) - Skipped - got
GoesOn == order.count >= 0 => records.blocksIn + records.partialIn < order.count

ReadBlock ==
  /\ turn = "read" /\ GoesOn
  /\ \E k \in 1..Smaller(order.bs, Ahead) :
       /\ block' = SubSeq(order.input, Skipped + got + 1, Skipped + got + k)
       /\ got' = got + k
       /\ records' = IF k = order.bs THEN [records EXCEPT !.blocksIn = @ + 1]
                                     ELSE [records EXCEPT !.partialIn = @ + 1]
  /\ left' = block' /\ turn' = "write"
  /\ UNCHANGED <<order, output, ddCode, broken>>

(* Enough blocks, the end of the input, or a read that fails. *)
ReadsNoMore ==
  /\ turn = "read"
  /\ \/ (~GoesOn \/ Ahead = 0) /\ broken' = broken
     \/ GoesOn /\ broken' = broken \cup {"read"}
  /\ turn' = "done"
  /\ UNCHANGED <<order, transfer, output, ddCode>>

(* What is written goes behind what is there, the first of it behind the   *)
(* hole.                                                                   *)
Grow(bytes) == output' = (IF output = << >> THEN Hole ELSE output) \o bytes
Counted(size) ==
  IF size = order.bs THEN [records EXCEPT !.blocksOut = @ + 1, !.bytes = @ + size]
                     ELSE [records EXCEPT !.partialOut = @ + 1, !.bytes = @ + size]

WriteForgetsRest ==
  /\ turn = "write"
  /\ \E k \in 1..Len(left) :
       Grow(SubSeq(left, 1, k)) /\ left' = << >> /\ turn' = "read" /\ records' = Counted(Len(block))
  /\ UNCHANGED <<order, got, block, ddCode, broken>>

(* The block counts once all of it is written. *)
Write ==
  /\ turn = "write"
  /\ \E k \in 1..Len(left) :
       /\ Grow(SubSeq(left, 1, k)) /\ left' = SubSeq(left, k + 1, Len(left))
       /\ IF k = Len(left) THEN turn' = "read" /\ records' = Counted(Len(block))
                           ELSE UNCHANGED <<turn, records>>
  /\ UNCHANGED <<order, got, block, ddCode, broken>>

WriteFails ==
  /\ turn = "write" /\ turn' = "done" /\ broken' = broken \cup {"write"}
  /\ UNCHANGED <<order, transfer, output, ddCode>>

DdNext == \/ CheckSize \/ OpenIn \/ OpenOut \/ Allocate
          \/ ReadBlock \/ ReadsNoMore \/ Write \/ WriteFails
DdSpec == DdInit /\ [][DdNext]_ddVars
-------------------------------------------------------------------------------
(* What was asked for: the input behind the skipped blocks, behind a hole  *)
(* of the sought ones.  A number of bytes that lseek would take for a      *)
(* negative one, or that wraps, is not promised anything.                  *)
Representable(n) == n * order.bs < Offsets \div 2
Asked == SubSeq(order.input,
                1 + IF order.canSkip THEN Smaller(order.skip * order.bs, Len(order.input)) ELSE 0,
                Len(order.input))
Before == IF order.canSeek THEN order.seek * order.bs ELSE 0
Blocks == IF order.count = -1 THEN Len(Asked) ELSE Smaller(order.count * order.bs, Len(Asked))

(* At every moment and whatever fails: the output is a beginning of what   *)
(* was asked for, in its place, the bytes and blocks dd reports are in the *)
(* output, and it reads no more than count blocks.  At the end nothing     *)
(* read is left unwritten unless a write failed, and if no read was cut    *)
(* short or failed either, the output is all that was asked for.  A        *)
(* refusal before the output was opened leaves it alone.                   *)
DdAccounts ==
  /\ (turn \in {"options", "input", "output"} \/ order.input = Missing \/ order.bs = 0) =>
       output = order.old
  /\ /\ turn \in {"read", "write"} \/ (turn = "done" /\ ddCode = 0)
     /\ Representable(order.skip) /\ Representable(order.seek)
     =>
       LET size == IF output = << >> THEN 0 ELSE Len(output) - Before IN
       /\ output # << >> =>
            output = [i \in 1..Before |-> Null] \o SubSeq(Asked, 1, size)
       /\ records.blocksOut * order.bs + records.partialOut <= records.bytes
       /\ records.bytes <= size
       /\ order.count >= 0 => records.blocksIn + records.partialIn <= order.count
       /\ turn = "done" /\ "write" \notin broken =>
            /\ records.bytes = size
            /\ records.blocksIn = records.blocksOut /\ records.partialIn = records.partialOut
       /\ turn = "done" /\ broken = {} /\ (order.count >= 0 => records.partialIn = 0) =>
            size = Blocks
===============================================================================
