------------------------------ MODULE MCLineTools ------------------------------
(* Every input of up to five characters as a single file, and every pair   *)
(* of short files, either of which may be missing or be a line that fills  *)
(* the buffer, which takes four characters of input; uniq remembers three  *)
(* of a line.                                                              *)
EXTENDS LineTools

TextsUpTo(k) == UNION {[1..m -> Chars] : m \in 0..k}
MCInputs == TextsUpTo(5)
MCFilling == [1..4 -> {Wanted}]
MCFileLists == {<<t>> : t \in MCInputs \cup {Missing}} \cup
               {<<a, b>> : a, b \in TextsUpTo(2) \cup {Missing}} \cup
               {<<t, b>> : t \in MCFilling, b \in TextsUpTo(1) \cup {Missing}} \cup
               {<<b, t>> : t \in MCFilling, b \in TextsUpTo(1) \cup {Missing}}
===============================================================================
