------------------------------- MODULE MCDeflate -------------------------------
(* Streams of up to two blocks, with every kind of block and every way a   *)
(* stream can be cut off, over a window of three bytes and an output       *)
(* buffer of two: copies wrap the window and fill the buffer halfway.      *)
(* Beside it, on its own, the decoding of one symbol of every small table. *)
EXTENDS Inflate, MCHuffman

VARIABLE model

Make(type, final, symbols, zero) ==
  [type |-> type, final |-> final, size |-> Len(symbols), symbols |-> symbols, zero |-> zero]

SomeSymbols == {Literal(1), Literal(2), Copy(3, 1), Copy(2, 2), Copy(3, 3)}
Runs == UNION {[1..k -> SomeSymbols] : k \in 0..3}
ShortRuns == {<< >>, <<Literal(1)>>, <<Literal(1), Copy(3, 2)>>}

Ended(type, final, run) == Make(type, final, Append(run, EndOfBlock), EndOfBlock)

Compressed == {<<Ended("fixed", TRUE, run)>> : run \in Runs}
CutOff == {<<Make("fixed", TRUE, run, EndOfBlock)>> : run \in ShortRuns}
          \cup {<<Make("dynamic", f, run, z)>> :
                 f \in BOOLEAN, run \in ShortRuns, z \in {Literal(1), Copy(1, 1), EndOfBlock, BadSymbol}}
Stored(bytes) == {<<Make("stored", FALSE, bytes, EndOfBlock), Ended("dynamic", TRUE, run)>> : run \in ShortRuns}
Rest == {<<Make("stored", TRUE, <<Literal(1), Literal(2), Literal(1)>>, EndOfBlock)>>,
         <<[Make("stored", TRUE, <<Literal(1)>>, EndOfBlock) EXCEPT !.size = 2]>>,
         <<Ended("fixed", FALSE, <<Literal(2)>>), Make("bad", TRUE, << >>, EndOfBlock)>>,
         <<Ended("fixed", FALSE, <<Literal(2)>>)>>,
         <<Ended("fixed", FALSE, <<Literal(2), Copy(3, 1)>>), Ended("fixed", TRUE, <<Copy(3, 2)>>)>>,
         << >>}

MCStreams == Compressed \cup CutOff \cup Rest
             \cup UNION {Stored(bytes) : bytes \in {<< >>, <<Literal(2)>>, <<Literal(1), Literal(2)>>}}
-------------------------------------------------------------------------------
(* What does not run has come to its end: an empty stream was refused, no  *)
(* symbol of a table without a used one was decoded.                       *)
InflateRests ==
  /\ stream = << >> /\ blk = 1 /\ sym = 0 /\ pc = "done" /\ back = "header" /\ left = 0
  /\ distance = 1 /\ window = [i \in 0..(W - 1) |-> Zero] /\ winpos = 0
  /\ outbuf = [i \in 0..(OutSize - 1) |-> Zero] /\ outpos = 0 /\ flushed = 0
  /\ written = << >> /\ result = -1 /\ emitted = << >> /\ refused = FALSE
HuffmanRests ==
  /\ lengths = [s \in {0} |-> 0] /\ bits = << >> /\ at = MaxBits /\ phase = "done" /\ decoded = -1
  /\ count = [l \in 0..MaxBits |-> IF l = 0 THEN 1 ELSE 0] /\ symbol = [i \in {0} |-> Garbage]
  /\ len = MaxBits + 1 /\ code = 0 /\ first = 0 /\ index = 0

DeflateInit == \/ model = "inflate" /\ Init /\ HuffmanRests
               \/ model = "huffman" /\ HuffmanInit /\ InflateRests
Inflates == model = "inflate" /\ Next /\ UNCHANGED <<model, huffmanVars>>
Decodes == model = "huffman" /\ HuffmanNext /\ UNCHANGED <<model, vars>>
DeflateSpec == /\ DeflateInit /\ [][Inflates \/ Decodes]_<<model, vars, huffmanVars>>
               /\ WF_<<model, vars, huffmanVars>>(Inflates)
===============================================================================
