-------------------------------- MODULE MCText --------------------------------
(* The line-oriented tools, run side by side: grep and uniq with their     *)
(* buffered loop (MCLineTools), and the loop over read_line.  A behaviour  *)
(* exercises one of the two and leaves the other at rest.                  *)
EXTENDS MCLineTools, ReadLine

MCTexts == TextsUpTo(6)

AtRest == /\ input = << >> /\ at = 0 /\ line = << >>
          /\ phase = "ended" /\ result = 0 /\ got = << >> /\ failed = FALSE

ToolsAtRest ==
  /\ tool = "uniq" /\ flag = FALSE /\ files = << >> /\ next = 1
  /\ text = << >> /\ pos = 0 /\ base = 0 /\ out = << >>
  /\ pc = "done" /\ buf = [i \in Indices |-> Nul] /\ bufLen = 0 /\ lineStart = 0 /\ n = 0
  /\ countOnly = FALSE /\ streaming = FALSE /\ lineNum = 0 /\ matchCount = 0 /\ fileRet = 1
  /\ answers = << >> /\ unread = {} /\ ret = 0 /\ prev = << >> /\ havePrev = FALSE /\ count = 0
  /\ printed = << >> /\ ended = TRUE

MCInit == (ToolInit /\ AtRest) \/ (RLInit /\ ToolsAtRest)
MCNext == \/ ToolNext /\ UNCHANGED rlVars
          \/ RLNext /\ UNCHANGED allVars
MCSpec == MCInit /\ [][MCNext]_<<allVars, rlVars>> /\ WF_<<allVars, rlVars>>(MCNext)
===============================================================================
