------------------------------ MODULE MCHuffman ------------------------------
(* Every table of up to four symbols with codes of up to three bits, and   *)
(* every input of up to three bits.                                        *)
EXTENDS Huffman
MCTables == UNION {[0..(n - 1) -> 0..MaxBits] : n \in 1..4}
===============================================================================
