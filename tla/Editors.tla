--------------------------------- MODULE Editors ---------------------------------
(***************************************************************************)
(* The tools that work line by line: sort, sed, cut and paste.  sed and cut *)
(* loop over read_line, which is taken as a whole here (module ReadLine);  *)
(* sort reads all of its files into one buffer, paste -s cuts lines from    *)
(* what read gives.  Characters are numbers, ordered as their bytes are.   *)
(*                                                                         *)
(* A command is a record: tool, files (contents, or Missing), reverse,      *)
(* numeric and unique (sort), suppress and script (sed), ranges, fields    *)
(* (cut), serial (paste), delims (cut: its one delimiter).                 *)
(***************************************************************************)
EXTENDS Integers, Sequences, FiniteSets, SequencesExt

CONSTANTS Commands, Missing, Newline,
          LineSize,   \* LINE_MAX
          BufSize,    \* of the text sort holds
          MaxLines,   \* of the lines it sorts
          PieceSize,  \* of what paste reads at once
          Value(_)    \* str_to_long

VARIABLES cmd, pc,
          next, at,  \* the file in hand, and how much of it was read
          st,        \* lineno; sort: text and lines; paste: line, first, and what each file has left
          shown,     \* what was printed
          failed     \* history: a read failed

vars == <<cmd, pc, next, at, st, shown, failed>>

Tool(names) == cmd.tool \in names
Files == cmd.files
Least(x, y) == IF x <= y THEN x ELSE y

Init ==
  /\ cmd \in Commands /\ pc = "open" /\ next = 1 /\ at = 0 /\ shown = << >> /\ failed = FALSE
  /\ st = [no |-> 0, text |-> << >>, lines |-> << >>, line |-> << >>, first |-> 1,
           done |-> [f \in 1..Len(cmd.files) |-> FALSE], pos |-> [f \in 1..Len(cmd.files) |-> 0]]

NoneMissing == \A i \in 1..Len(Files) : Files[i] # Missing

(* paste opens all of its files before it reads the first. *)
OpenFile ==
  /\ pc = "open" /\ next <= Len(Files) /\ Files[next] # Missing
  /\ Tool({"paste"}) => NoneMissing
  /\ pc' = "read" /\ at' = 0 /\ st' = [st EXCEPT !.line = << >>, !.first = 1]
  /\ UNCHANGED <<cmd, next, shown, failed>>

(* A message; sed and paste return, the others go on. *)
CannotOpenFile ==
  /\ pc = "open" /\ next <= Len(Files)
  /\ \/ Files[next] = Missing /\ ~Tool({"paste"})
     \/ ~NoneMissing /\ Tool({"paste"})
  /\ next' = next + 1 /\ pc' = IF Tool({"sed", "paste"}) THEN "done" ELSE "open"
  /\ UNCHANGED <<cmd, at, st, shown, failed>>
-------------------------------------------------------------------------------
(* sed and cut: what read_line gives, and how far it has read. *)
LineEnd(t, from) ==
  CHOOSE i \in (from + 1)..(Len(t) + 1) :
    /\ i <= Len(t) => t[i] = Newline
    /\ \A j \in (from + 1)..(i - 1) : t[j] # Newline
NextLine(t, from) == SubSeq(t, from + 1, Least(LineEnd(t, from) - 1, from + LineSize - 1))
ReadTo(t, from) ==
  LET len == Len(NextLine(t, from)) IN
  IF len < LineSize - 1 /\ from + len < Len(t) THEN from + len + 1 ELSE from + len

(* matches_addr; is_last is always 0.  A command of sed is a record: from  *)
(* and to (0: none, -1: $), type, find, replace, global.                   *)
MatchesAddr(c, no) ==
  \/ c.from = 0
  \/ c.from > 0 /\ c.to = 0 /\ no = c.from
  \/ c.from > 0 /\ c.to # 0 /\ no >= c.from /\ (c.to > 0 => no <= c.to)

Occurs(find, line, k) == k + Len(find) - 1 <= Len(line)
                         /\ SubSeq(line, k, k + Len(find) - 1) = find

(* sed_substitute from the k-th character on; the buffer it fills holds a *)
(* line, and what is behind is dropped.                                    *)
RECURSIVE SubstituteFrom(_, _, _, _)
SubstituteFrom(line, k, c, did) ==
  IF k > Len(line) THEN << >>
  ELSE IF Occurs(c.find, line, k) /\ (~did \/ c.global)
  THEN c.replace \o SubstituteFrom(line, k + Len(c.find), c, TRUE)
  ELSE <<line[k]>> \o SubstituteFrom(line, k + 1, c, did)
Substitute(line, c) ==
  IF c.find = << >> THEN line
  ELSE LET all == SubstituteFrom(line, 1, c, FALSE)
       IN  SubSeq(all, 1, Least(Len(all), LineSize - 1))

(* A command's turn at a line.  s prints the line at once, and does not    *)
(* change it for the commands behind it.                                   *)
Apply(acc, c, line, no) ==
  LET Prints(text) == [acc EXCEPT !.out = Append(@, text), !.printed = TRUE] IN
  CASE acc.over \/ ~MatchesAddr(c, no) -> acc
    [] c.type = "d" -> [acc EXCEPT !.printed = TRUE, !.over = TRUE]
    [] c.type = "p" -> Prints(line)
    [] c.type = "s" -> Prints(Substitute(line, c))
    [] c.type = "q" -> [acc EXCEPT !.out = IF cmd.suppress THEN @ ELSE Append(@, line),
                                   !.printed = TRUE, !.over = TRUE, !.quit = TRUE]
SedLine(line, no) ==
  LET acc == FoldLeft(LAMBDA r, c : Apply(r, c, line, no),
                      [out |-> << >>, printed |-> FALSE, over |-> FALSE, quit |-> FALSE],
                      cmd.script)
  IN  [out  |-> acc.out \o (IF acc.printed \/ cmd.suppress THEN << >> ELSE <<line>>),
       quit |-> acc.quit]

InRange(pos) == \E r \in cmd.ranges : pos \in r[1]..r[2]

(* cut_fields: a delimiter in front of every field but the first printed.  *)
EndField(acc) ==
  IF InRange(acc.field)
  THEN [acc EXCEPT !.out = @ \o (IF acc.first THEN << >> ELSE cmd.delims) \o acc.text,
                   !.first = FALSE]
  ELSE acc
CutFields(line) ==
  LET Step(acc, c) == IF <<c>> = cmd.delims
                      THEN [EndField(acc) EXCEPT !.field = @ + 1, !.text = << >>]
                      ELSE [acc EXCEPT !.text = Append(@, c)]
  IN  EndField(FoldLeft(Step, [field |-> 1, text |-> << >>, out |-> << >>, first |-> TRUE], line)).out

(* cut_bytes *)
CutBytes(line) ==
  LET kept == {i \in 1..Len(line) : InRange(i)} IN
  [k \in 1..Cardinality(kept) |-> line[SetToSortSeq(kept, <)[k]]]
CutLine(line) == [out |-> <<IF cmd.fields THEN CutFields(line) ELSE CutBytes(line)>>, quit |-> FALSE]

Turn(line, no) == IF Tool({"sed"}) THEN SedLine(line, no) ELSE CutLine(line)
Editing == pc = "read" /\ Tool({"sed", "cut"})

(* A line, or the part of it in front of a read that fails. *)
TakeLine ==
  /\ Editing
  /\ \E n \in 1..Len(NextLine(Files[next], at)), broken \in BOOLEAN :
       LET line == NextLine(Files[next], at)
           turn == Turn(SubSeq(line, 1, n), st.no + 1)
       IN  /\ broken \/ n = Len(line)
           /\ shown' = shown \o turn.out
           /\ pc' = IF turn.quit THEN "done" ELSE pc
           /\ at' = IF broken THEN at + n ELSE ReadTo(Files[next], at)
           /\ failed' = (failed \/ broken)
  /\ st' = [st EXCEPT !.no = @ + 1]
  /\ UNCHANGED <<cmd, next>>

Close == next' = next + 1 /\ pc' = "open"

(* A blank line, the end of the file, or a read that fails at the          *)
(* beginning of a line.                                                    *)
LinesEnd ==
  /\ Editing
  /\ \/ NextLine(Files[next], at) = << >> /\ failed' = failed
     \/ failed' = TRUE
  /\ Close
  /\ UNCHANGED <<cmd, at, st, shown>>
-------------------------------------------------------------------------------
(* sort *)

Rest == Len(Files[next]) - at
Room == BufSize - 1 - Len(st.text)

ReadText ==
  /\ pc = "read" /\ Tool({"sort"})
  /\ \E k \in 1..Least(Room, Rest) :
       /\ st' = [st EXCEPT !.text = @ \o SubSeq(Files[next], at + 1, at + k)]
       /\ at' = at + k
  /\ UNCHANGED <<cmd, pc, next, shown, failed>>

TextEnds ==
  /\ pc = "read" /\ Tool({"sort"})
  /\ \/ (Rest = 0 \/ Room = 0) /\ failed' = failed
     \/ failed' = TRUE
  /\ Close
  /\ UNCHANGED <<cmd, at, st, shown>>

(* The pieces between newlines; a last one that is empty is dropped, be it *)
(* what is behind the last newline or a blank line in front of it.         *)
Pieces(t) ==
  LET ends == {0, Len(t) + 1} \cup {i \in 1..Len(t) : t[i] = Newline}
      cuts == SetToSortSeq(ends, <)
  IN  [k \in 1..(Len(cuts) - 1) |-> SubSeq(t, cuts[k] + 1, cuts[k + 1] - 1)]
DropBlankEnd(ls) == IF ls # << >> /\ ls[Len(ls)] = << >> THEN Front(ls) ELSE ls
Split(t) ==
  LET ls == IF t # << >> /\ t[Len(t)] = Newline THEN Front(Pieces(t)) ELSE Pieces(t)
  IN  DropBlankEnd(SubSeq(ls, 1, Least(MaxLines, Len(ls))))

StartSort ==
  /\ pc = "open" /\ next > Len(Files) /\ Tool({"sort"})
  /\ pc' = "sort" /\ st' = [st EXCEPT !.lines = Split(st.text), !.no = 1]
  /\ UNCHANGED <<cmd, next, at, shown, failed>>

(* str_cmp of two lines is negative. *)
Before(s, t) ==
  \E k \in 0..Least(Len(s), Len(t)) :
    /\ SubSeq(s, 1, k) = SubSeq(t, 1, k)
    /\ \/ k = Len(s) /\ k < Len(t)
       \/ k < Len(s) /\ k < Len(t) /\ s[k + 1] < t[k + 1]
Smaller(s, t) == IF cmd.numeric THEN Value(s) < Value(t) ELSE Before(s, t)
Follows(s, t) == IF cmd.reverse THEN Smaller(s, t) ELSE Smaller(t, s)

InsertBeforeEqual ==
  /\ pc = "sort" /\ st.no < Len(st.lines)
  /\ LET i     == st.no + 1
         saved == st.lines[i]
         place == CHOOSE j \in 1..i : /\ \A k \in j..(i - 1) : ~Follows(saved, st.lines[k])
                                      /\ j > 1 => Follows(saved, st.lines[j - 1])
     IN  st' = [st EXCEPT !.no = i, !.lines = InsertAt(RemoveAt(@, i), place, saved)]
  /\ UNCHANGED <<cmd, pc, next, at, shown, failed>>

(* One turn of sort_lines: those in front that come behind the saved one   *)
(* move up, as far as the first that does not.                             *)
Insert ==
  /\ pc = "sort" /\ st.no < Len(st.lines)
  /\ LET i     == st.no + 1
         saved == st.lines[i]
         place == CHOOSE j \in 1..i : /\ \A k \in j..(i - 1) : Follows(st.lines[k], saved)
                                      /\ j > 1 => ~Follows(st.lines[j - 1], saved)
     IN  st' = [st EXCEPT !.no = i, !.lines = InsertAt(RemoveAt(@, i), place, saved)]
  /\ UNCHANGED <<cmd, pc, next, at, shown, failed>>

PrintSorted ==
  /\ pc = "sort" /\ st.no >= Len(st.lines) /\ pc' = "done"
  /\ LET twice == {i \in 2..Len(st.lines) : cmd.unique /\ st.lines[i] = st.lines[i - 1]}
         kept  == SetToSortSeq((1..Len(st.lines)) \ twice, <)
     IN  shown' = [k \in 1..Len(kept) |-> st.lines[kept[k]]]
  /\ UNCHANGED <<cmd, next, at, st, failed>>
-------------------------------------------------------------------------------
(* paste *)

Delimiter(k) == cmd.delims[(k % Len(cmd.delims)) + 1]

(* paste -s: a line behind those of its file before it, a delimiter        *)
(* between them only if first were 0, which it never is.                   *)
Joined(acc) == acc.out \o (IF acc.first = 0 THEN <<Delimiter(acc.first - 1)>> ELSE << >>)
                       \o acc.line
Put(acc, c) ==
  CASE c = Newline -> [acc EXCEPT !.out = Joined(acc), !.line = << >>, !.first = @ + 1]
    [] Len(acc.line) < LineSize - 1 -> [acc EXCEPT !.line = Append(@, c)]
    [] OTHER -> acc
Row == IF shown = << >> \/ next > Len(shown) THEN << >> ELSE shown[next]
PutRow(row) == shown' = [i \in 1..next |-> IF i = next THEN row ELSE shown[i]]

ReadSerial ==
  /\ pc = "read" /\ Tool({"paste"}) /\ cmd.serial
  /\ \E k \in 1..Least(PieceSize, Rest) :
       LET acc == FoldLeft(Put, [out |-> Row, line |-> st.line, first |-> st.first],
                           SubSeq(Files[next], at + 1, at + k))
       IN  PutRow(acc.out) /\ st' = [st EXCEPT !.line = acc.line, !.first = acc.first]
           /\ at' = at + k
  /\ UNCHANGED <<cmd, pc, next, failed>>

SerialEnds ==
  /\ pc = "read" /\ Tool({"paste"}) /\ cmd.serial
  /\ \/ Rest = 0 /\ failed' = failed
     \/ failed' = TRUE
  /\ PutRow(IF st.line = << >> THEN Row
            ELSE Joined([out |-> Row, line |-> st.line, first |-> st.first]))
  /\ Close
  /\ UNCHANGED <<cmd, at, st>>

(* One row of paste: of every file that is not done the rest of its line.  *)
(* A file is done when nothing comes behind what it gave, which shows only *)
(* in the row after its last newline.                                      *)
Line(f) == IF st.done[f] THEN << >>
           ELSE SubSeq(Files[f], st.pos[f] + 1, LineEnd(Files[f], st.pos[f]) - 1)
PasteRow ==
  /\ pc = "read" /\ Tool({"paste"}) /\ ~cmd.serial
  /\ \E f \in 1..Len(Files) : ~st.done[f]
  /\ shown' = Append(shown, FlattenSeq([f \in 1..Len(Files) |->
                (IF f > 1 THEN <<Delimiter(f - 2)>> ELSE << >>) \o Line(f)]))
  /\ st' = [st EXCEPT
       !.pos  = [f \in DOMAIN st.pos |-> st.pos[f] + Len(Line(f)) + 1],
       !.done = [f \in DOMAIN st.done |-> st.pos[f] + Len(Line(f)) >= Len(Files[f])]]
  /\ UNCHANGED <<cmd, pc, next, at, failed>>

PasteEnds ==
  /\ pc = "read" /\ Tool({"paste"}) /\ ~cmd.serial
  /\ \A f \in 1..Len(Files) : st.done[f]
  /\ pc' = "done"
  /\ UNCHANGED <<cmd, next, at, st, shown, failed>>

Finish ==
  /\ pc = "open" /\ next > Len(Files) /\ ~Tool({"sort"}) /\ pc' = "done"
  /\ UNCHANGED <<cmd, next, at, st, shown, failed>>

Next == \/ OpenFile \/ CannotOpenFile \/ TakeLine \/ LinesEnd
        \/ ReadText \/ TextEnds \/ StartSort \/ Insert \/ PrintSorted
        \/ ReadSerial \/ SerialEnds \/ PasteRow \/ PasteEnds \/ Finish
Spec == Init /\ [][Next]_vars
-------------------------------------------------------------------------------
(* What a user expects of each tool, in terms of whole files: their lines, *)
(* none of them blank or too long for read_line.                           *)
LinesOf(t) ==
  LET ends  == {i \in 1..Len(t) : t[i] = Newline} \cup (IF t = << >> \/ t[Len(t)] = Newline
                                                       THEN {} ELSE {Len(t) + 1})
      nth(k) == CHOOSE e \in ends : Cardinality({d \in ends : d <= e}) = k
  IN  [k \in 1..Cardinality(ends) |->
         SubSeq(t, (IF k = 1 THEN 0 ELSE nth(k - 1)) + 1, nth(k) - 1)]
Opened == SelectSeq(Files, LAMBDA t : t # Missing)
Readable == \A i \in 1..Len(Opened) : \A k \in 1..Len(LinesOf(Opened[i])) :
              Len(LinesOf(Opened[i])[k]) \in 1..(LineSize - 2)
AllLines == FlattenSeq([i \in 1..Len(Opened) |-> LinesOf(Opened[i])])
Terminated == \A i \in 1..(Len(Opened) - 1) : Opened[i] # << >> => Last(Opened[i]) = Newline

(* What is left of the lines p of a sequence. *)
Those(s, p(_)) == LET kept == SetToSortSeq({i \in 1..Len(s) : p(i)}, <)
                  IN  [k \in 1..Len(kept) |-> s[kept[k]]]

(* The occurrences s replaces: each as far left as those before it allow.  *)
Replaced(line, c) ==
  LET occ == {k \in 1..Len(line) : Occurs(c.find, line, k)}
      all == CHOOSE S \in SUBSET occ :
               /\ \A j, k \in S : j < k => j + Len(c.find) <= k
               /\ \A k \in occ : \E j \in S : j <= k /\ k < j + Len(c.find)
  IN  IF c.global THEN all ELSE {k \in all : \A j \in all : k <= j}
Edited(line, c) ==
  IF c.find = << >> THEN line
  ELSE FlattenSeq([k \in 1..Len(line) |->
         IF k \in Replaced(line, c) THEN c.replace
         ELSE IF \E j \in Replaced(line, c) : k \in j..(j + Len(c.find) - 1) THEN << >>
         ELSE <<line[k]>>])

(* What s makes of every line is still a line sed_substitute can hold. *)
EditsFit(c) == c.type = "s" => \A k \in 1..Len(AllLines) : Len(Edited(AllLines[k], c)) < LineSize

(* One command of sed: the lines from one number to another, to the last,  *)
(* one line, or all of them.                                               *)
SedWanted(c, ls) ==
  LET first == IF c.from = 0 THEN 1 ELSE c.from
      last  == IF c.from = 0 \/ c.to = -1 THEN Len(ls) ELSE IF c.to = 0 THEN c.from ELSE c.to
      on    == first..last
  IN  CASE c.type = "d" -> Those(ls, LAMBDA i : i \notin on /\ ~cmd.suppress)
        [] c.type = "p" -> Those(ls, LAMBDA i : i \in on \/ ~cmd.suppress)
        [] c.type = "q" -> Those(ls, LAMBDA i : (i <= first \/ on = {}) /\ ~cmd.suppress)
        [] c.type = "s" -> Those([i \in 1..Len(ls) |-> IF i \in on THEN Edited(ls[i], c) ELSE ls[i]],
                                 LAMBDA i : i \in on \/ ~cmd.suppress)

(* Where a delimiter ends a field, and the end of the line. *)
FieldsOf(line) == LinesOf([i \in 1..Len(line) |-> IF <<line[i]>> = cmd.delims THEN Newline ELSE line[i]]
                          \o <<Newline>>)
CutWanted(line) ==
  IF ~cmd.fields THEN Those(line, InRange)
  ELSE LET kept == Those(FieldsOf(line), InRange) IN
       FlattenSeq([k \in 1..Len(kept) |-> (IF k > 1 THEN cmd.delims ELSE << >>) \o kept[k]])

(* Each line at the place that says how many come in front of it: those it *)
(* follows, and earlier ones it does not differ from.                      *)
Sorted(ls) ==
  LET rank(i) == 1 + Cardinality({j \in 1..Len(ls) : \/ Follows(ls[i], ls[j])
                                                     \/ j < i /\ ~Follows(ls[j], ls[i])})
  IN  [k \in 1..Len(ls) |-> ls[CHOOSE i \in 1..Len(ls) : rank(i) = k]]
SortWanted ==
  LET ls == Sorted(DropBlankEnd(AllLines)) IN
  IF ~cmd.unique THEN shown = ls
  ELSE /\ ToSet(shown) = ToSet(ls) /\ \A k \in 2..Len(shown) : shown[k] # shown[k - 1]
       /\ \A k \in 2..Len(shown) : ~Follows(shown[k - 1], shown[k])

(* Row k of paste has the k-th line of every file that has so many; one    *)
(* row of nothing may come behind them.                                    *)
PasteWanted ==
  LET row(k) == FlattenSeq([f \in 1..Len(Files) |->
                  (IF f > 1 THEN <<Delimiter(f - 2)>> ELSE << >>)
                    \o (IF k <= Len(LinesOf(Files[f])) THEN LinesOf(Files[f])[k] ELSE << >>)])
      longest == CHOOSE n \in {Len(LinesOf(Files[f])) : f \in 1..Len(Files)} :
                   \A f \in 1..Len(Files) : Len(LinesOf(Files[f])) <= n
  IN  Len(shown) \in {longest, longest + 1} /\ \A k \in 1..Len(shown) : shown[k] = row(k)

(* What is printed is what the tool is for, said of whole files: sed edits *)
(* the lines its command addresses, cut keeps the columns it is given, sort*)
(* puts every line into its place, equal ones as they came, and paste puts *)
(* lines of the same number side by side.  Excepted are lines that grow    *)
(* beyond the buffer of s, which cuts them off; a file without a newline   *)
(* at its end in front of another one, whose first line sort takes for the *)
(* rest of that line; and a blank line at the end of everything, which     *)
(* sort drops.                                                             *)
EditorFaithful ==
  pc = "done" /\ ~failed =>
    /\ Tool({"sed"}) /\ Readable /\ NoneMissing /\ Len(cmd.script) = 1 /\ cmd.script[1].from >= 0
         /\ EditsFit(cmd.script[1])
         => shown = SedWanted(cmd.script[1], AllLines)
    /\ Tool({"cut"}) /\ Readable
         => shown = [k \in 1..Len(AllLines) |-> CutWanted(AllLines[k])]
    /\ Tool({"sort"}) /\ Len(FlattenSeq(Opened)) < BufSize /\ Len(AllLines) <= MaxLines /\ Terminated
         => SortWanted
    /\ Tool({"paste"}) /\ NoneMissing /\ ~cmd.serial => PasteWanted

(* paste.c:31, "-d DELIM  Use DELIM instead of tab", "-s  Paste one file at *)
(* a time": the lines of a file are told apart by the delimiter.           *)
SerialDelimits ==
  pc = "done" /\ ~failed /\ Tool({"paste"}) /\ cmd.serial /\ NoneMissing /\ Readable =>
    shown = [f \in 1..Len(Files) |->
               FlattenSeq([k \in 1..Len(LinesOf(Files[f])) |->
                 (IF k > 1 THEN <<Delimiter(k - 2)>> ELSE << >>) \o LinesOf(Files[f])[k]])]
==================================================================================
