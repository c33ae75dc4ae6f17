--------------------------------- MODULE MCSh ---------------------------------
(* Bounds of the shell's job control: two lines in a row, so that the      *)
(* second meets what the first left behind, of up to three segments.       *)
EXTENDS Sh

Pipeline(s) == [segs |-> s, redirect |-> FALSE]

MCLines == { Pipeline(<<"quick">>), Pipeline(<<"cd">>), Pipeline(<<"exit">>),
             Pipeline(<<"missing">>),
             [segs |-> <<"quick">>, redirect |-> TRUE],
             [segs |-> <<"cd">>, redirect |-> TRUE],
             Pipeline(<<"filter", "filter">>),
             Pipeline(<<"source", "filter", "quick">>),
             Pipeline(<<"source", "missing">>) }
===============================================================================
