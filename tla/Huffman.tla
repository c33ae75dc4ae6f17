------------------------------- MODULE Huffman -------------------------------
(***************************************************************************)
(* The Huffman codes of include/deflate.h: inf_huff_build makes a table    *)
(* from the code lengths of the symbols, inf_huff_decode follows the bits  *)
(* of the input through it.                                                *)
(***************************************************************************)
EXTENDS Integers, Sequences, FiniteSets

CONSTANTS LengthTables,  \* tables of code lengths: functions 0..n-1 -> 0..MaxBits
          MaxBits,       \* INFLATE_MAX_BITS
          MaxInput       \* longest input considered

(* What a symbol[] entry that was never written holds: whatever the stack  *)
(* or the previous block left there.  No symbol is told from it.           *)
Garbage == -2

ASSUME BoundsAssumption == MaxBits \in Nat \ {0} /\ MaxInput \in Nat
ASSUME TablesAssumption ==
         \A t \in LengthTables :
           LET n == Cardinality(DOMAIN t)
           IN  n \in Nat /\ n > 0 /\ t \in [0..(n - 1) -> 0..MaxBits]

VARIABLES
  lengths,        \* the lengths handed to inf_huff_build
  count, symbol,  \* the inflate_huff_t it fills in
  bits,           \* the input behind the current position, zeros follow its end
  at,             \* bits of it that were read
  len, code, first, index,  \* locals of inf_huff_decode
  phase,          \* "build", "decode", "done"
  decoded          \* symbol, or -1

huffmanVars == <<lengths, count, symbol, bits, at, len, code, first, index, phase, decoded>>

Symbols == DOMAIN lengths
Nsyms == Cardinality(Symbols)
OfLength(l) == {s \in Symbols : lengths[s] = l}

(* offsets[l]: the counts of all shorter lengths, 0 included *)
Offset(l) == Cardinality({s \in Symbols : lengths[s] < l})

SlotFromEnd(s) == Offset(lengths[s]) + Cardinality({r \in OfLength(lengths[s]) : r > s})

(* Where the loop over the symbols puts s: behind those of its length that *)
(* came earlier.                                                           *)
Slot(s) == Offset(lengths[s]) + Cardinality({r \in OfLength(lengths[s]) : r < s})

Used == {s \in Symbols : lengths[s] # 0}

HuffmanInit ==
  /\ lengths \in LengthTables
  /\ bits \in UNION {[1..n -> {0, 1}] : n \in 0..MaxInput}
  /\ at = 0 /\ phase = "build" /\ decoded = -1
  /\ count = [l \in 0..MaxBits |-> 0]
  /\ symbol = [i \in Symbols |-> Garbage]
  /\ len = 0 /\ code = 0 /\ first = 0 /\ index = 0

(* inf_huff_build.  A table without a used symbol gets its counts only. *)
Build ==
  /\ phase = "build"
  /\ count' = [l \in 0..MaxBits |-> Cardinality(OfLength(l))]
  /\ symbol' = [i \in Symbols |->
                  IF \E s \in Used : Slot(s) = i
                  THEN CHOOSE s \in Used : Slot(s) = i ELSE Garbage]
  /\ phase' = "decode" /\ len' = 1
  /\ UNCHANGED <<lengths, bits, at, code, first, index, decoded>>

(* inf_bits_read(b, 1): 0 behind the end of the input *)
NextBit == IF at < Len(bits) THEN bits[at + 1] ELSE 0

DecodeNoShift ==
  /\ phase = "decode" /\ len <= MaxBits
  /\ at' = at + 1
  /\ LET c == code + NextBit
         n == count[len]
     IN  IF c < first + n
         THEN /\ decoded' = symbol[index + (c - first)] /\ phase' = "done"
              /\ UNCHANGED <<len, code, first, index>>
         ELSE /\ index' = index + n /\ first' = (first + n) * 2
              /\ code' = c /\ len' = len + 1
              /\ UNCHANGED <<phase, decoded>>
  /\ UNCHANGED <<lengths, count, symbol, bits>>

(* One turn of the loop of inf_huff_decode. *)
Decode ==
  /\ phase = "decode" /\ len <= MaxBits
  /\ at' = at + 1
  /\ LET c == code + NextBit
         n == count[len]
     IN  IF c < first + n
         THEN /\ decoded' = symbol[index + (c - first)] /\ phase' = "done"
              /\ UNCHANGED <<len, code, first, index>>
         ELSE /\ index' = index + n /\ first' = (first + n) * 2
              /\ code' = c * 2 /\ len' = len + 1
              /\ UNCHANGED <<phase, decoded>>
  /\ UNCHANGED <<lengths, count, symbol, bits>>

GiveUp ==
  /\ phase = "decode" /\ len > MaxBits
  /\ phase' = "done" /\ decoded' = -1
  /\ UNCHANGED <<lengths, count, symbol, bits, at, len, code, first, index>>

HuffmanNext == Build \/ Decode \/ GiveUp
HuffmanSpec == HuffmanInit /\ [][HuffmanNext]_huffmanVars
-------------------------------------------------------------------------------
(* Types; no more than MaxBits bits are read for a symbol. *)
HuffmanTypeOK ==
  /\ count \in [0..MaxBits -> 0..Nsyms]
  /\ symbol \in [Symbols -> Symbols \cup {Garbage}]
  /\ at \in 0..MaxBits /\ len \in 0..(MaxBits + 1)
  /\ phase \in {"build", "decode", "done"}
  /\ code \in Nat /\ first \in Nat /\ index \in 0..Nsyms
  /\ decoded \in Symbols \cup {Garbage, -1}

(* The decoder never reads outside symbol[] whatever the lengths are, even *)
(* when they claim more codes than bits can tell apart: the index it is    *)
(* about to use for any next bit is one of the table's.                    *)
IndexInTable ==
  phase = "decode" /\ len <= MaxBits =>
    \A b \in {0, 1} : code + b < first + count[len] =>
      index + (code + b - first) \in Symbols

(* RFC 1951, 3.2.2: the codes of one length are consecutive and follow     *)
(* those of the next shorter one, doubled; code 0 has length 0.            *)
FirstCode[l \in 0..MaxBits] ==
  IF l = 0 THEN 0
  ELSE 2 * (FirstCode[l - 1] + IF l = 1 THEN 0 ELSE Cardinality(OfLength(l - 1)))
CodeOf(s) == FirstCode[lengths[s]] + Cardinality({r \in OfLength(lengths[s]) : r < s})

(* The l bits that were read, most significant first. *)
Value[l \in 0..MaxBits] ==
  IF l = 0 THEN 0 ELSE 2 * Value[l - 1] + (IF l <= Len(bits) THEN bits[l] ELSE 0)

(* How many codes of l bits the symbols with shorter codes, and those of   *)
(* l bits, leave over; complete lengths leave none, and none is negative.  *)
Left[l \in 0..MaxBits] ==
  IF l = 0 THEN 1 ELSE 2 * Left[l - 1] - Cardinality(OfLength(l))
Complete == Left[MaxBits] = 0

(* The symbol decoded from the bits is the one whose canonical code they   *)
(* are (deflate.h:2, "inflate (decompression) implementation (RFC 1951)"). *)
DecodesCanonical ==
  phase = "done" /\ Complete =>
    decoded \in Used /\ lengths[decoded] = at /\ Value[at] = CodeOf(decoded)

(* The same where every symbol has a code, as in the two fixed tables.     *)
DecodesWhenAllUsed == Used = Symbols => DecodesCanonical
===============================================================================
