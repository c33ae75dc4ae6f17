------------------------------ MODULE MCReadLine ------------------------------
(* The loop over read_line on every input of up to four characters. *)
EXTENDS ReadLine
MCTexts == UNION {[1..k -> {"x", "nl"}] : k \in 0..4}
===============================================================================
