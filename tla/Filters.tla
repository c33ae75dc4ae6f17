-------------------------------- MODULE Filters --------------------------------
(***************************************************************************)
(* The tools that look at every byte and carry something from one to the   *)
(* next: wc, tr, strings, nl, md5sum and sha256sum.  read cuts a file      *)
(* anywhere.  Bytes are numbers.  The hash functions are abstracted to the *)
(* blocks their transform is given.                                        *)
(*                                                                         *)
(* A command is a record: tool, files (contents, or Missing), del and map  *)
(* (tr: del_set and table), min (strings), skipBlank (nl).                 *)
(***************************************************************************)
EXTENDS Integers, Sequences, FiniteSets, SequencesExt

CONSTANTS Commands, Missing, BufSize,
          Newline, Space, Printable,  \* a byte, and two sets of them
          LineSize,                   \* of nl's line[] and of str[] in strings
          BlockSize, LengthSize       \* of a block to hash (64), of the length in it (8)

VARIABLES cmd, pc,
          next, at,  \* the file in hand, and how much of it was read
          st,        \* what the tool carries from byte to byte
          shown,     \* what was printed
          total,     \* wc: tl, tw, tb
          failed     \* history: a read failed

vars == <<cmd, pc, next, at, st, shown, total, failed>>

Tool(names) == cmd.tool \in names
Hash == {"md5sum", "sha256sum"}

Fresh ==
  CASE Tool({"wc"}) -> [lines |-> 0, words |-> 0, bytes |-> 0, inWord |-> FALSE]
    [] Tool({"strings"}) -> [run |-> << >>]
    [] Tool({"nl"}) -> [line |-> << >>, no |-> 0]
    [] Tool(Hash) -> [buffer |-> [i \in 0..(BlockSize - 1) |-> 0], count |-> 0, hashed |-> << >>]
    [] OTHER -> [run |-> << >>]

Init ==
  /\ cmd \in Commands /\ pc = "open" /\ next = 1 /\ at = 0 /\ st = << >> /\ shown = << >>
  /\ total = [lines |-> 0, words |-> 0, bytes |-> 0] /\ failed = FALSE

OpenFile ==
  /\ pc = "open" /\ next <= Len(cmd.files) /\ cmd.files[next] # Missing
  /\ pc' = "read" /\ at' = 0 /\ st' = Fresh
  /\ UNCHANGED <<cmd, next, shown, total, failed>>

(* A message; nl returns, the others go on. *)
CannotOpenFile ==
  /\ pc = "open" /\ next <= Len(cmd.files) /\ cmd.files[next] = Missing
  /\ next' = next + 1 /\ pc' = IF Tool({"nl"}) THEN "done" ELSE "open"
  /\ UNCHANGED <<cmd, at, st, shown, total, failed>>
-------------------------------------------------------------------------------
(* What a byte does: to what is carried, and what is printed for it.       *)
(* acc is a record of both.                                                *)

WcByte(acc, b) ==
  [acc EXCEPT !.st.bytes = @ + 1,
              !.st.lines = IF b = Newline THEN @ + 1 ELSE @,
              !.st.words = IF b \notin Space /\ ~acc.st.inWord THEN @ + 1 ELSE @,
              !.st.inWord = b \notin Space]

TrByte(acc, b) ==
  [acc EXCEPT !.shown = IF b \in cmd.del THEN @ ELSE Append(@, cmd.map[b])]

Room(s) == Len(s) < LineSize - 1
LongEnough(run) == Len(run) >= cmd.min

StringsByte(acc, b) ==
  IF b \in Printable
  THEN [acc EXCEPT !.st.run = IF Room(@) THEN Append(@, b) ELSE @]
  ELSE [acc EXCEPT !.shown = IF LongEnough(acc.st.run) THEN Append(@, acc.st.run) ELSE @,
                   !.st.run = << >>]

NlLine(acc) ==
  IF acc.st.line = << >> /\ cmd.skipBlank
  THEN [acc EXCEPT !.shown = Append(@, << >>)]
  ELSE [acc EXCEPT !.shown = Append(@, <<acc.st.no + 1, acc.st.line>>), !.st.no = @ + 1,
                   !.st.line = << >>]
NlByte(acc, b) ==
  CASE b = Newline -> NlLine(acc)
    [] Room(acc.st.line) -> [acc EXCEPT !.st.line = Append(@, b)]
    [] OTHER -> acc

(* transform is given the buffer as it is. *)
Block(buffer) == [i \in 1..BlockSize |-> buffer[i - 1]]
HashByte(acc, b) ==
  LET buffer == [acc.st.buffer EXCEPT ![acc.st.count % BlockSize] = b]
      full   == (acc.st.count + 1) % BlockSize = 0
  IN  [acc EXCEPT !.st = [buffer |-> buffer, count |-> @.count + 1,
                          hashed |-> IF full THEN Append(@.hashed, Block(buffer)) ELSE @.hashed]]

TakeByte(acc, b) ==
  CASE Tool({"wc"}) -> WcByte(acc, b)
    [] Tool({"tr"}) -> TrByte(acc, b)
    [] Tool({"strings"}) -> StringsByte(acc, b)
    [] Tool({"nl"}) -> NlByte(acc, b)
    [] Tool(Hash) -> HashByte(acc, b)

Least(a, b) == IF a <= b THEN a ELSE b
Rest == Len(cmd.files[next]) - at

ReadPieceStartsAfresh ==
  /\ pc = "read"
  /\ \E k \in 1..Least(BufSize, Rest) :
       LET carried == IF Tool({"wc"}) THEN [st EXCEPT !.inWord = FALSE] ELSE Fresh
           acc == FoldLeft(TakeByte, [st |-> carried, shown |-> shown],
                           SubSeq(cmd.files[next], at + 1, at + k))
       IN  st' = acc.st /\ shown' = acc.shown /\ at' = at + k
  /\ UNCHANGED <<cmd, pc, next, total, failed>>

ReadPiece ==
  /\ pc = "read"
  /\ \E k \in 1..Least(BufSize, Rest) :
       LET acc == FoldLeft(TakeByte, [st |-> st, shown |-> shown],
                           SubSeq(cmd.files[next], at + 1, at + k))
       IN  st' = acc.st /\ shown' = acc.shown /\ at' = at + k
  /\ UNCHANGED <<cmd, pc, next, total, failed>>
-------------------------------------------------------------------------------
(* What is done behind the last byte.                                      *)

(* The number of bits in bytes, for md5 the low one first. *)
LengthField(count) ==
  LET low == [i \in 1..LengthSize |-> ((count * 8) \div (256 ^ (i - 1))) % 256]
  IN  IF Tool({"md5sum"}) THEN low ELSE [i \in 1..LengthSize |-> low[LengthSize + 1 - i]]

FilledFrom(buffer, idx, end) == [i \in DOMAIN buffer |-> IF i \in idx..(end - 1) THEN 0 ELSE buffer[i]]

(* md5_final, sha256_final: the mark, zeros, and the length; in a block    *)
(* more if there is no room for it.                                        *)
Final(s) ==
  LET idx    == s.count % BlockSize
      marked == [s.buffer EXCEPT ![idx] = 128]
      room   == BlockSize - LengthSize
      over   == idx + 1 > room
      first  == IF over THEN <<Block(FilledFrom(marked, idx + 1, BlockSize))>> ELSE << >>
      body   == FilledFrom(marked, IF over THEN 0 ELSE idx + 1, room)
      last   == [i \in DOMAIN body |-> IF i >= room THEN LengthField(s.count)[i - room + 1] ELSE body[i]]
  IN  s.hashed \o first \o <<Block(last)>>

Counts(s) == [lines |-> s.lines, words |-> s.words, bytes |-> s.bytes]

(* The line of counts, the last run or line without an end, the digest. *)
Flushed ==
  CASE Tool({"wc"}) -> <<Counts(st)>>
    [] Tool({"strings"}) -> IF LongEnough(st.run) THEN <<st.run>> ELSE << >>
    [] Tool({"nl"}) -> IF st.line # << >> THEN <<<<st.no + 1, st.line>>>> ELSE << >>
    [] Tool(Hash) -> <<Final(st)>>
    [] OTHER -> << >>

FileEnds ==
  /\ pc = "read"
  /\ \/ Rest = 0 /\ failed' = failed
     \/ Rest > 0 /\ failed' = TRUE  \* a failed read
  /\ shown' = shown \o Flushed
  /\ total' = IF Tool({"wc"}) THEN [f \in DOMAIN total |-> total[f] + st[f]] ELSE total
  /\ next' = next + 1 /\ pc' = "open"
  /\ UNCHANGED <<cmd, at, st>>

Finish ==
  /\ pc = "open" /\ next > Len(cmd.files) /\ pc' = "done"
  /\ shown' = IF Tool({"wc"}) /\ Len(cmd.files) > 1 THEN Append(shown, total) ELSE shown
  /\ UNCHANGED <<cmd, next, at, st, total, failed>>

Next == OpenFile \/ CannotOpenFile \/ ReadPiece \/ FileEnds \/ Finish
Spec == Init /\ [][Next]_vars
-------------------------------------------------------------------------------
Good == SelectSeq(cmd.files, LAMBDA f : f # Missing)
Each(F(_)) == FlattenSeq([i \in 1..Len(Good) |-> F(Good[i])])

CountsOf(f) ==
  [lines |-> Cardinality({i \in 1..Len(f) : f[i] = Newline}),
   words |-> Cardinality({i \in 1..Len(f) : f[i] \notin Space /\ (i = 1 \/ f[i - 1] \in Space)}),
   bytes |-> Len(f)]

(* The pieces between the bytes of a set, the last one included. *)
Cuts(f, seps) == SetToSortSeq({0, Len(f) + 1} \cup {i \in 1..Len(f) : f[i] \in seps}, <)
Between(f, seps) ==
  LET cuts == Cuts(f, seps) IN
  [k \in 1..(Len(cuts) - 1) |-> SubSeq(f, cuts[k] + 1, cuts[k + 1] - 1)]

NotPrintable == DOMAIN cmd.map \ Printable
LinesOf(f) == LET all == Between(f, {Newline}) IN
  IF all[Len(all)] = << >> THEN Front(all) ELSE all
NumberedLines(f) == LET ls == LinesOf(f) IN
  [k \in 1..Len(ls) |-> IF ls[k] = << >> /\ cmd.skipBlank THEN << >>
     ELSE <<Cardinality({j \in 1..k : ~(ls[j] = << >> /\ cmd.skipBlank)}), ls[k]>>]

(* RFC 1321, 3.1 and 3.2: the message, a mark, as few zeros as make the    *)
(* whole a number of blocks, and the length of the message.                *)
Padded(f) ==
  LET zeros == CHOOSE z \in 0..(BlockSize - 1) :
                 (Len(f) + 1 + z + LengthSize) % BlockSize = 0
      all   == f \o <<128>> \o [i \in 1..zeros |-> 0] \o LengthField(Len(f))
  IN  [k \in 1..(Len(all) \div BlockSize) |-> SubSeq(all, (k - 1) * BlockSize + 1, k * BlockSize)]

Wanted ==
  CASE Tool({"wc"}) ->
         Each(LAMBDA f : <<CountsOf(f)>>) \o
           (IF Len(cmd.files) > 1
            THEN <<[CountsOf(FlattenSeq(Good)) EXCEPT
                      !.words = CountsOf(Each(LAMBDA f : Append(f, Newline))).words]>> ELSE << >>)
    [] Tool({"tr"}) -> Each(LAMBDA f : LET kept == SelectSeq(f, LAMBDA b : b \notin cmd.del)
                                      IN [i \in 1..Len(kept) |-> cmd.map[kept[i]]])
    [] Tool({"strings"}) -> Each(LAMBDA f : SelectSeq(Between(f, NotPrintable), LongEnough))
    [] Tool({"nl"}) -> Each(NumberedLines)
    [] Tool(Hash) -> Each(LAMBDA f : <<Padded(f)>>)

(* strings and nl have room for LineSize - 1 characters of a run or a line *)
(* and drop the others.                                                    *)
RoomForAll ==
  \A i \in 1..Len(Good) :
    /\ Tool({"strings"}) => \A k \in DOMAIN Between(Good[i], NotPrintable) :
         Len(Between(Good[i], NotPrintable)[k]) < LineSize
    /\ Tool({"nl"}) => \A k \in DOMAIN LinesOf(Good[i]) : Len(LinesOf(Good[i])[k]) < LineSize

(* What is printed is what the whole file has in it, wherever read cuts    *)
(* it: a word, a run of characters, a line or a block that lies across two *)
(* reads is one, the last one needs nothing behind it, and the next file   *)
(* starts afresh.  Hash functions are given the message padded as their    *)
(* standards say, also when mark and length do not fit into its last block.*)
(* The exception are runs and lines without room: their end is missing,    *)
(* and nobody is told.                                                     *)
FilterFaithful ==
  pc = "done" /\ ~failed /\ RoomForAll /\ ~(Tool({"nl"}) /\ Missing \in {cmd.files[i] : i \in 1..Len(cmd.files)})
    => shown = Wanted
===============================================================================
