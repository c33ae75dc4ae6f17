-------------------------------- MODULE Streams --------------------------------
(***************************************************************************)
(* The tools that copy streams: cat, cat -n, head, tail, tee and cp of     *)
(* files.  A read gives any number of bytes up to what it was asked for, or *)
(* fails; a write takes any number of them, or none.  cat, tail and tee do *)
(* not look at what a write took, head and cat -n write byte by byte, cp   *)
(* goes on with the rest.                                                  *)
(*                                                                         *)
(* A command is a record: tool, files (their contents, or NotThere), stdin *)
(* (read when files is empty), old (what is in each output before; one     *)
(* that is NotThere cannot be opened), to (cp: the output of each file),   *)
(* append, n (lines).  The tool cat_n is cat with -n.                      *)
(***************************************************************************)
EXTENDS Integers, Sequences, FiniteSets, SequencesExt

CONSTANTS Octet,       \* bytes, none of them 0, which head and cat -n do not print
          Eol,         \* a newline
          Heading,     \* the line that head and tail print above one of several files
          NotThere,    \* a file that cannot be opened
          Transfers,      \* commands
          PieceLength, \* sizeof(buf)
          HoldSize,    \* the 64 KB tail keeps
          CallsBreak   \* whether reads and writes may fail

ASSUME MarksAssumption == Eol \in Octet
ASSUME LengthsAssumption == PieceLength \in Nat \ {0} /\ HoldSize \in Nat \ {0} /\ CallsBreak \in BOOLEAN

(* One output, always there, but for tee, which has more, and cp. *)
ASSUME TransfersAssumption ==
  \A c \in Transfers :
    /\ c.tool \in {"cat", "cat_n", "head", "tail", "tee", "cp"}
    /\ c.files \in Seq(Seq(Octet) \cup {NotThere}) /\ c.stdin \in Seq(Octet)
    /\ c.old \in Seq(Seq(Octet) \cup {NotThere}) /\ Len(c.old) >= 1
    /\ c.append \in BOOLEAN /\ c.n \in Nat
    /\ IF c.tool = "cp"
       THEN /\ c.files # << >> /\ Len(c.to) = Len(c.files)
            /\ \A i \in 1..Len(c.files) : c.to[i] \in 1..Len(c.old)
       ELSE /\ c.old[1] # NotThere
            /\ IF c.tool = "tee" THEN c.files = << >> ELSE Len(c.old) = 1 /\ ~c.append

VARIABLES
  copy,
  where,      \* "start", "open", "read", "close", "done"
  nth,        \* the file in hand
  contents, upTo,  \* its contents, and how much of them was read
  hold,       \* tail: what it has read
  pending,    \* what was read, or made of it, and is still to be written
  sink,       \* the output that gets it next
  outs,       \* what is in each output
  counted,    \* head: lines printed of this file; cat -n: line_num - 1
  lineBegins, \* cat -n: at_line_start
  readFailed, \* history: a read failed
  cutShort    \* history: outputs a write did not take everything for

inVars == <<nth, contents, upTo, hold, readFailed>>
outVars == <<sink, outs, cutShort>>
copyVars == <<copy, where, inVars, pending, outVars, counted, lineBegins>>

CopyInit ==
  /\ copy \in Transfers /\ where = "start" /\ nth = 1 /\ contents = << >> /\ upTo = 0 /\ hold = << >>
  /\ pending = << >> /\ sink = 1 /\ outs = copy.old /\ counted = 0 /\ lineBegins = TRUE
  /\ readFailed = FALSE /\ cutShort = {}

Copier(names) == copy.tool \in names
Lesser(a, b) == IF a <= b THEN a ELSE b
Inputs == IF copy.files = << >> THEN <<copy.stdin>> ELSE copy.files
Sinks == {s \in 1..Len(copy.old) : copy.old[s] # NotThere}

(* Outputs are opened before the loop, and emptied unless tee appends; cp  *)
(* opens one for each file.                                                *)
OpenOutputs ==
  /\ where = "start" /\ where' = "open"
  /\ outs' = [s \in 1..Len(outs) |->
               IF copy.append \/ s \notin Sinks \/ Copier({"cp"}) THEN outs[s] ELSE << >>]
  /\ UNCHANGED <<copy, inVars, pending, sink, cutShort, counted, lineBegins>>

(* Where reading begins: tail reads the last HoldSize bytes of a file it   *)
(* knows the size of.                                                      *)
BeginsAt(t) ==
  IF Copier({"tail"}) /\ copy.files # << >> /\ Len(t) > HoldSize THEN Len(t) - HoldSize ELSE 0

Openable(i) == Inputs[i] # NotThere /\ (Copier({"cp"}) => copy.to[i] \in Sinks)

OpenInput ==
  /\ where = "open" /\ pending = << >> /\ nth <= Len(Inputs) /\ Openable(nth)
  /\ where' = "read" /\ contents' = Inputs[nth] /\ upTo' = BeginsAt(Inputs[nth]) /\ hold' = << >>
  /\ pending' = IF Copier({"head", "tail"}) /\ Len(copy.files) > 1 THEN <<Heading>> ELSE << >>
  /\ counted' = IF Copier({"head"}) THEN 0 ELSE counted
  /\ lineBegins' = TRUE
  /\ IF Copier({"cp"})
     THEN sink' = copy.to[nth] /\ outs' = [outs EXCEPT ![sink'] = << >>]
     ELSE UNCHANGED <<sink, outs>>
  /\ UNCHANGED <<copy, nth, readFailed, cutShort>>

(* A message, and on to the next file. *)
CannotOpen ==
  /\ where = "open" /\ pending = << >> /\ nth <= Len(Inputs) /\ ~Openable(nth)
  /\ nth' = nth + 1
  /\ UNCHANGED <<copy, where, contents, upTo, hold, readFailed, pending, outVars, counted, lineBegins>>
-------------------------------------------------------------------------------
EarliestOf(S) == CHOOSE s \in S : \A t \in S : s <= t
NewlinesIn(s) == Cardinality({i \in 1..Len(s) : s[i] = Eol})

(* The shortest beginning of s with k lines, or all of it. *)
FirstLines(s, k) ==
  LET enough == {i \in 0..Len(s) : NewlinesIn(SubSeq(s, 1, i)) = k}
  IN  IF enough = {} THEN s ELSE SubSeq(s, 1, EarliestOf(enough))

(* From behind the newline that is number k + 1 from the end. *)
LastLines(s, k) ==
  LET cuts == {i \in 1..Len(s) : s[i] = Eol /\ NewlinesIn(SubSeq(s, i, Len(s))) = k + 1}
  IN  IF cuts = {} THEN s ELSE SubSeq(s, (CHOOSE i \in cuts : TRUE) + 1, Len(s))

(* cat -n: a number in front of a byte that begins a line. *)
NumberByte(acc, byte) ==
  [made   |-> acc.made \o (IF acc.begins THEN <<<<acc.num>>, byte>> ELSE <<byte>>),
   num    |-> IF acc.begins THEN acc.num + 1 ELSE acc.num,
   begins |-> byte = Eol]
Numbered(piece, num, begins) ==
  LET upToByte[i \in 0..Len(piece)] ==
        IF i = 0 THEN [made |-> << >>, num |-> num, begins |-> begins]
                 ELSE NumberByte(upToByte[i - 1], piece[i])
  IN  upToByte[Len(piece)]

RoomLeft == IF Copier({"tail"}) THEN HoldSize - Len(hold) ELSE PieceLength
WantsMore == Copier({"head"}) => counted < copy.n

(* What a tool makes of a piece: cat -n, head, tail, and the others. *)
NumberPiece(piece) ==
  LET r == Numbered(piece, counted + 1, lineBegins) IN
    pending' = r.made /\ counted' = r.num - 1 /\ lineBegins' = r.begins /\ hold' = hold
HeadPiece(piece) ==
  /\ pending' = FirstLines(piece, copy.n - counted) /\ counted' = counted + NewlinesIn(pending')
  /\ UNCHANGED <<lineBegins, hold>>
HoldPiece(piece) == hold' = hold \o piece /\ UNCHANGED <<pending, counted, lineBegins>>
Process(piece) ==
  \/ Copier({"cat_n"}) /\ NumberPiece(piece)
  \/ Copier({"head"}) /\ HeadPiece(piece)
  \/ Copier({"tail"}) /\ HoldPiece(piece)
  \/ Copier({"cat", "tee", "cp"}) /\ pending' = piece /\ UNCHANGED <<counted, lineBegins, hold>>

ReadPiece ==
  /\ where = "read" /\ pending = << >> /\ WantsMore
  /\ \E k \in 1..Lesser(RoomLeft, Len(contents) - upTo) :
       /\ Process(SubSeq(contents, upTo + 1, upTo + k))
       /\ upTo' = upTo + k
  /\ UNCHANGED <<copy, where, nth, contents, readFailed, outVars>>

(* End of file, a failed read, a full buffer, or enough: the loop is left, *)
(* and tail writes the lines it is to show.                                *)
ReadEnds ==
  /\ where = "read" /\ pending = << >>
  /\ \/ (upTo = Len(contents) \/ RoomLeft = 0 \/ ~WantsMore) /\ readFailed' = readFailed
     \/ CallsBreak /\ WantsMore /\ readFailed' = TRUE
  /\ where' = "close"
  /\ pending' = IF Copier({"tail"}) THEN LastLines(hold, copy.n) ELSE << >>
  /\ UNCHANGED <<copy, nth, contents, upTo, hold, outVars, counted, lineBegins>>

CloseInput ==
  /\ where = "close" /\ pending = << >>
  /\ nth' = nth + 1 /\ where' = "open"
  /\ pending' = IF Copier({"head", "tail"}) /\ nth < Len(Inputs) THEN <<Eol>> ELSE << >>
  /\ UNCHANGED <<copy, contents, upTo, hold, readFailed, outVars, counted, lineBegins>>

AllDone ==
  /\ where = "open" /\ pending = << >> /\ nth > Len(Inputs)
  /\ where' = "done"
  /\ UNCHANGED <<copy, inVars, pending, outVars, counted, lineBegins>>
-------------------------------------------------------------------------------
Unwritten == pending # << >> /\ where # "done"
Deliver(bytes) == outs' = [outs EXCEPT ![sink] = @ \o bytes]
Later == {s \in Sinks : s > sink}

WriteOnceStops ==
  /\ Unwritten /\ Copier({"cat", "tail", "tee"})
  /\ \E k \in 0..Len(pending) :
       /\ k < Len(pending) => CallsBreak
       /\ Deliver(SubSeq(pending, 1, k))
       /\ cutShort' = IF k < Len(pending) THEN cutShort \cup {sink} ELSE cutShort
       /\ IF Later = {} \/ k < Len(pending) THEN sink' = EarliestOf(Sinks) /\ pending' = << >>
                        ELSE sink' = EarliestOf(Later) /\ pending' = pending
  /\ UNCHANGED <<copy, where, inVars, counted, lineBegins>>

(* One write for all of it, whatever it takes; tee writes to each output.  *)
WriteOnce ==
  /\ Unwritten /\ Copier({"cat", "tail", "tee"})
  /\ \E k \in 0..Len(pending) :
       /\ k < Len(pending) => CallsBreak
       /\ Deliver(SubSeq(pending, 1, k))
       /\ cutShort' = IF k < Len(pending) THEN cutShort \cup {sink} ELSE cutShort
  /\ IF Later = {} THEN sink' = EarliestOf(Sinks) /\ pending' = << >>
                   ELSE sink' = EarliestOf(Later) /\ pending' = pending
  /\ UNCHANGED <<copy, where, inVars, counted, lineBegins>>

(* A write for each byte. *)
WriteByte ==
  /\ Unwritten /\ Copier({"head", "cat_n"})
  /\ \/ Deliver(<<Head(pending)>>) /\ cutShort' = cutShort
     \/ CallsBreak /\ outs' = outs /\ cutShort' = cutShort \cup {sink}
  /\ pending' = Tail(pending)
  /\ UNCHANGED <<copy, where, inVars, sink, counted, lineBegins>>

(* cp writes until all of it is taken. *)
WriteRest ==
  /\ Unwritten /\ Copier({"cp"})
  /\ \E k \in 1..Len(pending) :
       /\ k < Len(pending) => CallsBreak
       /\ Deliver(SubSeq(pending, 1, k)) /\ pending' = SubSeq(pending, k + 1, Len(pending))
  /\ UNCHANGED <<copy, where, inVars, sink, cutShort, counted, lineBegins>>

(* A write that fails: cp leaves this file. *)
CopyFails ==
  /\ Unwritten /\ Copier({"cp"}) /\ CallsBreak
  /\ cutShort' = cutShort \cup {sink} /\ pending' = << >>
  /\ where' = "open" /\ nth' = nth + 1
  /\ UNCHANGED <<copy, contents, upTo, hold, readFailed, sink, outs, counted, lineBegins>>

CopyNext ==
  \/ OpenOutputs \/ OpenInput \/ CannotOpen \/ ReadPiece \/ ReadEnds \/ CloseInput \/ AllDone
  \/ WriteOnce \/ WriteByte \/ WriteRest \/ CopyFails

CopySpec == CopyInit /\ [][CopyNext]_copyVars
-------------------------------------------------------------------------------
(* What a user expects of each tool, in terms of whole files.              *)

(* The first n newlines of s and what is in front of them. *)
TopLines(s, n) ==
  SubSeq(s, 1, Cardinality({i \in 1..Len(s) : NewlinesIn(SubSeq(s, 1, i - 1)) < n}))
(* What is behind all newlines but the last n. *)
BottomLines(s, n) ==
  SubSeq(s, 1 + Cardinality({i \in 1..Len(s) : NewlinesIn(SubSeq(s, i, Len(s))) > n}), Len(s))

(* Lines that begin in the first k bytes, those of the first i files, and  *)
(* what the n-th byte of a file looks like behind so many lines.           *)
BeginsALine(s, i) == i = 1 \/ s[i - 1] = Eol
LinesIn(s, k) == Cardinality({i \in 1..k : BeginsALine(s, i)})
LinesOfFiles[i \in 0..Len(Inputs)] ==
  IF i = 0 THEN 0
  ELSE LinesOfFiles[i - 1] + (IF Inputs[i] # NotThere THEN LinesIn(Inputs[i], Len(Inputs[i])) ELSE 0)
WithNumber(s, n, k) ==
  IF BeginsALine(s, n) THEN <<<<k + LinesIn(s, n)>>, s[n]>> ELSE <<s[n]>>
WithNumbers(s, k) == FlattenSeq([n \in 1..Len(s) |-> WithNumber(s, n, k)])

(* The part of a file that is shown. *)
Shown(i) == CASE Copier({"cat", "tee"}) -> Inputs[i]
              [] Copier({"cat_n"}) -> WithNumbers(Inputs[i], LinesOfFiles[i - 1])
              [] Copier({"head"}) -> TopLines(Inputs[i], copy.n)
              [] Copier({"tail"}) -> BottomLines(Inputs[i], copy.n)
TitleOf(i) == IF Copier({"head", "tail"}) /\ Len(copy.files) > 1 THEN <<Heading>> ELSE << >>
GapBehind(i) == IF Copier({"head", "tail"}) /\ i < Len(Inputs) THEN <<Eol>> ELSE << >>
Share(i) == IF Openable(i) THEN (TitleOf(i) \o Shown(i)) \o GapBehind(i) ELSE << >>
SharesTo(n) == FlattenSeq([i \in 1..n |-> Share(i)])
OldPart(s) == IF copy.append THEN copy.old[s] ELSE << >>

(* cp: the last file that goes to s. *)
CopiedTo(s, n) == {i \in 1..n : Openable(i) /\ copy.to[i] = s}
LatestTo(s, n) == CHOOSE i \in CopiedTo(s, n) : \A j \in CopiedTo(s, n) : j <= i
CopyIn(s, n) == IF CopiedTo(s, n) = {} THEN copy.old[s] ELSE Inputs[LatestTo(s, n)]

(* tail keeps no more than the last HoldSize bytes of a file, and of stdin *)
(* the first: the lines it is asked for, and all of stdin, have to fit.    *)
FitsHold(i) ==
  IF copy.files # << >> THEN Len(BottomLines(Inputs[i], copy.n)) <= HoldSize
                        ELSE Len(Inputs[i]) <= HoldSize
TailFits ==
  Copier({"tail"}) => \A i \in 1..Len(Inputs) : Inputs[i] # NotThere => FitsHold(i)

Expected(s) == IF Copier({"cp"}) THEN CopyIn(s, Len(Inputs))
                                 ELSE OldPart(s) \o SharesTo(Len(Inputs))

(* Each output that took all it was given holds what the tool is for,      *)
(* however reads cut the files and whatever happened to other outputs and  *)
(* other files: line counts go on over pieces and line numbers over files, *)
(* and what cannot be opened is passed over.  The exception is tail when   *)
(* what it keeps is too small: it shows the lines it has without a word.   *)
OutputFaithful ==
  where = "done" /\ ~readFailed /\ TailFits =>
    \A s \in Sinks \ cutShort : outs[s] = Expected(s)
===============================================================================
