------------------------------- MODULE LineTools -------------------------------
(***************************************************************************)
(* The two tools built on the line loop of module LineStream: grep_main    *)
(* with its loop over files, and uniq_main.  A pattern is abstracted to    *)
(* one character a matching line holds.  Standard input, which grep reads  *)
(* when no file is named (174), is a list of one file.                     *)
(***************************************************************************)
EXTENDS LineStream, FiniteSets

CONSTANTS FileLists,  \* lists of files to run a tool on: inputs, or Missing
          Missing,    \* a file that cannot be opened
          Wanted,     \* the character grep looks for
          PrevSize    \* sizeof(prev) in uniq_main

ASSUME PrevAssumption == PrevSize \in Nat /\ PrevSize > 1
ASSUME FilesAssumption ==
  \A list \in FileLists : list \in Seq(Inputs \cup {Missing})

VARIABLES
  tool,      \* "grep" or "uniq"
  flag,      \* grep -v, uniq -d
  countOnly, \* grep -c
  files,     \* the files named on the command line
  next,      \* index of the next file to open
  streaming, \* grep: grep_stream was called and has not returned
  lineNum, matchCount, \* grep_stream: line_num, match_count
  fileRet,   \* grep_stream: its ret
  ret,       \* ret of grep_main; uniq: its exit status
  answers,   \* what grep printed: index of the file, a number and a line,
             \* or a count and no line
  unread,    \* history: files of which a read failed, by index
  prev,      \* uniq: prev, with have_prev and count
  havePrev, count,
  printed,   \* what uniq printed: a number and a line
  ended      \* the tool has returned

command == <<tool, flag, countOnly, files>>
streamVars == <<streaming, lineNum, matchCount, fileRet>>
grepVars == <<streamVars, answers, unread>>
uniqVars == <<prev, havePrev, count, printed>>
toolVars == <<command, next, grepVars, uniqVars, ret, ended>>
allVars == <<vars, toolVars>>

Bytes == out[Len(out)].bytes
Kept(line) == SubSeq(line, 1, IF Len(line) < PrevSize THEN Len(line) ELSE PrevSize - 1)

ToolInit ==
  /\ tool \in {"grep", "uniq"} /\ flag \in BOOLEAN
  /\ countOnly \in BOOLEAN /\ (countOnly => tool = "grep")
  /\ files \in FileLists /\ (tool = "uniq" => Len(files) = 1)
  /\ next = 1
  /\ text = << >> /\ pos = 0 /\ base = 0 /\ out = << >>
  /\ pc = "done" /\ buf = [i \in Indices |-> Nul] /\ bufLen = 0 /\ lineStart = 0 /\ n = 0
  /\ streaming = FALSE /\ lineNum = 0 /\ matchCount = 0 /\ fileRet = 1
  /\ answers = << >> /\ unread = {}
  /\ ret = (IF tool = "grep" THEN 1 ELSE 0)
  /\ prev = << >> /\ havePrev = FALSE /\ count = 0
  /\ printed = << >> /\ ended = FALSE

Closed == pc = "done" /\ ~streaming /\ ~ended

(* Open the next file and start the loop on it with fresh locals. *)
OpenFile ==
  /\ Closed /\ next <= Len(files) /\ files[next] # Missing
  /\ next' = next + 1
  /\ text' = files[next] /\ pos' = 0 /\ base' = 0 /\ out' = << >>
  /\ pc' = "read" /\ buf' = [i \in Indices |-> Nul]
  /\ bufLen' = 0 /\ lineStart' = 0 /\ n' = 0
  /\ streaming' = (tool = "grep") /\ lineNum' = 0 /\ matchCount' = 0 /\ fileRet' = 1
  /\ UNCHANGED <<command, answers, unread, uniqVars, ret, ended>>

OpenFailsRetries ==
  /\ Closed /\ next <= Len(files) /\ files[next] = Missing
  /\ IF tool = "uniq" THEN ret' = 1 /\ ended' = TRUE ELSE UNCHANGED <<ret, ended>>
  /\ UNCHANGED <<vars, command, next, grepVars, uniqVars>>

(* grep goes on to the next file and forgets about it; uniq returns 1. *)
OpenFails ==
  /\ Closed /\ next <= Len(files) /\ files[next] = Missing
  /\ next' = next + 1
  /\ IF tool = "uniq" THEN ret' = 1 /\ ended' = TRUE ELSE UNCHANGED <<ret, ended>>
  /\ UNCHANGED <<vars, command, grepVars, uniqVars>>

Matches(line) == (\E i \in 1..Len(line) : line[i] = Wanted) # flag

GrepLine(line) ==
  /\ lineNum' = lineNum + 1
  /\ IF Matches(line)
     THEN /\ fileRet' = 0 /\ matchCount' = matchCount + 1
          /\ answers' = IF countOnly THEN answers
                        ELSE Append(answers, <<next - 1, lineNum', line>>)
     ELSE UNCHANGED <<fileRet, matchCount, answers>>
  /\ UNCHANGED <<streaming, unread, uniqVars, ret>>

StreamReturnsOverwrites ==
  /\ pc = "done" /\ streaming
  /\ streaming' = FALSE /\ ret' = fileRet
  /\ answers' = IF countOnly THEN Append(answers, <<next - 1, matchCount, << >>>>) ELSE answers
  /\ unread' = IF n < 0 THEN unread \cup {next - 1} ELSE unread
  /\ UNCHANGED <<vars, command, next, lineNum, matchCount, fileRet, uniqVars, ended>>

(* grep_stream comes to its end: -c prints the count, and grep_main takes  *)
(* over that something was found.                                          *)
StreamReturns ==
  /\ pc = "done" /\ streaming
  /\ streaming' = FALSE /\ ret' = (IF fileRet = 0 THEN 0 ELSE ret)
  /\ answers' = IF countOnly THEN Append(answers, <<next - 1, matchCount, << >>>>) ELSE answers
  /\ unread' = IF n < 0 THEN unread \cup {next - 1} ELSE unread
  /\ UNCHANGED <<vars, command, next, lineNum, matchCount, fileRet, uniqVars, ended>>

Shown == havePrev /\ (~flag \/ count > 1)

(* A line equal to prev is counted, any other replaces it once prev's      *)
(* group was printed.  prev keeps at most PrevSize - 1 bytes.              *)
UniqLine(line) ==
  /\ IF ~havePrev \/ line # prev
     THEN /\ printed' = IF Shown THEN Append(printed, <<count, prev>>) ELSE printed
          /\ prev' = Kept(line) /\ havePrev' = TRUE /\ count' = 1
     ELSE count' = count + 1 /\ UNCHANGED <<printed, prev, havePrev>>
  /\ UNCHANGED <<grepVars, ret>>

EmitToTool ==
  /\ \E eol \in Indices : Emit(eol)
  /\ LET line == out'[Len(out')].bytes IN
       IF tool = "grep" THEN GrepLine(line) ELSE UniqLine(line)
  /\ UNCHANGED <<command, next, ended>>

FinishDropsLast ==
  /\ Closed /\ next > Len(files)
  /\ ended' = TRUE
  /\ UNCHANGED <<vars, command, next, grepVars, uniqVars, ret>>

(* After the last file: uniq still has to print its last group. *)
Finish ==
  /\ Closed /\ next > Len(files)
  /\ ended' = TRUE
  /\ printed' = IF tool = "uniq" /\ Shown THEN Append(printed, <<count, prev>>) ELSE printed
  /\ UNCHANGED <<vars, command, next, grepVars, prev, havePrev, count, ret>>

ToolNext ==
  \/ OpenFile \/ OpenFails \/ EmitToTool \/ StreamReturns \/ Finish
  \/ (Read \/ Shift) /\ UNCHANGED toolVars

ToolSpec == ToolInit /\ [][ToolNext]_allVars /\ WF_allVars(ToolNext)
-------------------------------------------------------------------------------
(* A finite set of numbers, from the smallest to the greatest. *)
InOrder(S) ==
  [j \in 1..Cardinality(S) |-> CHOOSE s \in S : Cardinality({r \in S : r < s}) = j - 1]

(* Lines of a file, the last one with or without its newline. *)
Ends(t) == {i \in 1..Len(t) : t[i] = Newline} \cup
           (IF t # << >> /\ t[Len(t)] # Newline THEN {Len(t) + 1} ELSE {})
LinesOf(t) ==
  LET ends == InOrder(Ends(t))
  IN  [k \in 1..Cardinality(Ends(t)) |->
         SubSeq(t, IF k = 1 THEN 1 ELSE ends[k - 1] + 1, ends[k] - 1)]

(* Every line has fewer than limit bytes. *)
FitsIn(t, limit) ==
  \A i \in 0..(Len(t) - limit) : \E j \in 1..limit : t[i + j] = Newline

(* Groups of equal neighbours: where each starts and how long it is. *)
RunAt(s, k) == CHOOSE m \in 1..(Len(s) - k + 1) :
                 /\ \A i \in 0..(m - 1) : s[k + i] = s[k]
                 /\ k + m <= Len(s) => s[k + m] # s[k]
Starts(s) == {k \in 1..Len(s) : k = 1 \/ s[k] # s[k - 1]}
Shows(s) == {k \in Starts(s) : ~flag \/ RunAt(s, k) > 1}
Groups(s) == [j \in 1..Cardinality(Shows(s)) |->
                LET k == InOrder(Shows(s))[j] IN <<RunAt(s, k), s[k]>>]

(* uniq prints its input run-length encoded, the first and the last group  *)
(* included, when reads do not fail and no line is longer than prev; the   *)
(* chunks that read returns make no difference.                            *)
UniqGroups ==
  ended /\ tool = "uniq" /\ ret = 0 /\ n >= 0
    /\ FitsIn(text, PrevSize) /\ FitsIn(text, Size - 1)
  => printed = Groups(LinesOf(text))

(* Files that can be opened; of them those whose reads did not fail and of *)
(* which no line fills the buffer; and the lines to be selected.           *)
Readable == {i \in 1..Len(files) : files[i] # Missing}
Intact   == {i \in Readable \ unread : FitsIn(files[i], Size - 1)}
Hits(i)  == {k \in 1..Len(LinesOf(files[i])) : Matches(LinesOf(files[i])[k])}

(* What grep has to print of a file: its selected lines with their         *)
(* numbers, or how many there are; and what it printed of it.              *)
Expected(i) == IF countOnly THEN {<<i, Cardinality(Hits(i)), << >>>>}
               ELSE {<<i, k, LinesOf(files[i])[k]>> : k \in Hits(i)}
Answers == {answers[j] : j \in 1..Len(answers)}
About(i) == {a \in Answers : a[1] = i}

(* grep prints of every file exactly what is selected there, in order,     *)
(* whatever becomes of the other files: read cuts lines anywhere, files    *)
(* are missing, cannot be read on, or have lines that fill the buffer.     *)
(* Its status is 0 when one of the files has a selected line, and 1 when   *)
(* none has.                                                               *)
GrepAnswers ==
  ended /\ tool = "grep" =>
    /\ \A i \in Intact : About(i) = Expected(i)
    /\ \A a \in Answers : a[1] \in Readable
    /\ \A j, k \in 1..Len(answers) : j < k =>
         \/ answers[j][1] < answers[k][1]
         \/ answers[j][1] = answers[k][1] /\ answers[j][2] < answers[k][2]
    /\ (\E i \in Intact : Hits(i) # {}) => ret = 0
    /\ ret = 0 => \E i \in Readable : i \notin Intact \/ Hits(i) # {}

(* The tools come to an end whatever the input, the full buffer included   *)
(* (where read is asked for zero bytes and answers zero).                  *)
ToolEnds == <>ended
===============================================================================
