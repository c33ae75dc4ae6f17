--------------------------------- MODULE Xargs ---------------------------------
(***************************************************************************)
(* tools/xargs.c: words of the standard input become arguments of commands *)
(* that are run one after the other.  The vector of arguments points into  *)
(* the buffer of the line the words were found in.                         *)
(*                                                                         *)
(* A request is a record: input (lines of characters, none empty, each     *)
(* shorter than the buffer; an empty one would end the loop as the end of  *)
(* the input does), max (-n) and base (the arguments on the command line). *)
(* A line that fills the buffer but for the NUL leaves its newline unread: *)
(* the next read_line finds an empty line, and the loop ends.              *)
(***************************************************************************)
EXTENDS Integers, Sequences, FiniteSets, SequencesExt

CONSTANTS Glyph,         \* the characters of a line
          Batches,       \* requests
          LineMax,       \* LINE_MAX
          MaxArgc,       \* 255 of cmd_argv[256]
          Blank, Nul

InputLine == {l \in Seq(Glyph) : Len(l) \in 1..(LineMax - 1)}
ASSUME BatchesAssumption ==
  /\ Batches \subseteq [input : Seq(InputLine), max : Int, base : Nat]
  /\ \A r \in Batches : r.base < MaxArgc
ASSUME GlyphAssumption == Nul \notin Glyph /\ LineMax \in Nat \ {0} /\ MaxArgc \in Nat

VARIABLES
  batch,
  loop,     \* "line", "word", "done"
  lineNo,   \* lines read
  lineBuf, cursor,  \* buf and p: the line's buffer and the place in it
  cmdArgv,  \* cmd_argv behind the base: places in lineBuf
  origin,   \* history: the line each of them was found in
  ran,      \* the arguments of each command, as it saw them
  spanned,  \* history: a command got a word of an earlier line than the buffer's
  spoilt    \* history: a fork failed, or words were dropped

xargsVars == <<batch, loop, lineNo, lineBuf, cursor, cmdArgv, origin, ran, spanned, spoilt>>

XargsInit ==
  /\ batch \in Batches /\ loop = "line" /\ lineNo = 0
  /\ lineBuf = [i \in 0..(LineMax - 1) |-> Nul] /\ cursor = 0
  /\ cmdArgv = << >> /\ origin = << >> /\ ran = << >> /\ spanned = FALSE /\ spoilt = FALSE

SmallestOf(S) == CHOOSE i \in S : \A j \in S : i <= j
StringAt(memory, place) ==
  LET end == SmallestOf({i \in place..(LineMax - 1) : memory[i] = Nul})
  IN  [i \in 1..(end - place) |-> memory[place + i - 1]]

(* read_line gives 0: nothing is left, or no more than a newline in front  *)
(* of what is left, that of a line that filled the buffer.                 *)
LeftItsNewline == lineNo # 0 /\ Len(batch.input[lineNo]) = LineMax - 1
ReadsNothing == lineNo = Len(batch.input) \/ LeftItsNewline

(* read_line: the line and a NUL, what is behind them stays. *)
NextLine ==
  /\ loop = "line" /\ ~ReadsNothing
  /\ lineNo' = lineNo + 1 /\ cursor' = 0 /\ loop' = "word"
  /\ LET line == batch.input[lineNo + 1] IN
       lineBuf' = [i \in 0..(LineMax - 1) |-> CASE i < Len(line) -> line[i + 1]
                                                [] i = Len(line) -> Nul
                                                [] OTHER -> lineBuf[i]]
  /\ UNCHANGED <<batch, cmdArgv, origin, ran, spanned, spoilt>>

(* fork, execve and wait4; what the command sees are the strings as they   *)
(* are now.  A fork that fails is not noticed.                             *)
RunBatch(pointers, lines, memory) ==
  /\ \/ ran' = Append(ran, [i \in 1..Len(pointers) |-> StringAt(memory, pointers[i])])
        /\ spoilt' = spoilt
     \/ ran' = ran /\ spoilt' = TRUE
  /\ cmdArgv' = << >> /\ origin' = << >>
  /\ spanned' = (spanned \/ \E i \in 1..Len(lines) : lines[i] # lineNo)

WordStarts == {i \in cursor..(LineMax - 1) :
                 lineBuf[i] \notin {Blank, Nul} /\ \A j \in cursor..i : lineBuf[j] # Nul}
EndOfWord(start) == SmallestOf({i \in start..(LineMax - 1) : lineBuf[i] \in {Blank, Nul}})

NextWordKeepsBlank ==
  /\ loop = "word" /\ WordStarts # {}
  /\ LET start == SmallestOf(WordStarts)  end == EndOfWord(start) IN
       /\ lineBuf' = lineBuf
       /\ cursor' = IF lineBuf[end] = Nul THEN end ELSE end + 1
       /\ IF Len(cmdArgv) + 1 >= batch.max
          THEN RunBatch(Append(cmdArgv, start), Append(origin, lineNo), lineBuf')
          ELSE /\ cmdArgv' = Append(cmdArgv, start) /\ origin' = Append(origin, lineNo)
               /\ UNCHANGED <<ran, spanned, spoilt>>
  /\ UNCHANGED <<batch, loop, lineNo>>

(* A word: a NUL behind it, a place in the vector if there is one left,    *)
(* and a command once there are enough.                                    *)
NextWord ==
  /\ loop = "word" /\ WordStarts # {}
  /\ LET start == SmallestOf(WordStarts)
         end   == EndOfWord(start)
         fits  == batch.base + Len(cmdArgv) < MaxArgc
         words == IF fits THEN Append(cmdArgv, start) ELSE cmdArgv
         lines == IF fits THEN Append(origin, lineNo) ELSE origin
         terminated == [lineBuf EXCEPT ![end] = Nul]
     IN  /\ lineBuf' = terminated
         /\ cursor' = IF lineBuf[end] = Nul THEN end ELSE end + 1
         /\ IF Len(words) >= batch.max THEN RunBatch(words, lines, terminated)
            ELSE /\ cmdArgv' = words /\ origin' = lines /\ spoilt' = (spoilt \/ ~fits)
                 /\ UNCHANGED <<ran, spanned>>
  /\ UNCHANGED <<batch, loop, lineNo>>

LineDone ==
  /\ loop = "word" /\ WordStarts = {} /\ loop' = "line"
  /\ UNCHANGED <<batch, lineNo, lineBuf, cursor, cmdArgv, origin, ran, spanned, spoilt>>

(* The end of the loop: a command for the words that are left. *)
InputEnds ==
  /\ loop = "line" /\ ReadsNothing /\ loop' = "done"
  /\ IF cmdArgv # << >> THEN RunBatch(cmdArgv, origin, lineBuf)
     ELSE UNCHANGED <<cmdArgv, origin, ran, spanned, spoilt>>
  /\ UNCHANGED <<batch, lineNo, lineBuf, cursor>>

XargsNext == NextLine \/ NextWord \/ LineDone \/ InputEnds
XargsSpec == XargsInit /\ [][XargsNext]_xargsVars
-------------------------------------------------------------------------------
BeginsWord(line, i) == line[i] # Blank /\ (i = 1 \/ line[i - 1] = Blank)
WordEnd(line, i) == SmallestOf({j \in i..(Len(line) + 1) : j = Len(line) + 1 \/ line[j] = Blank})
WordFrom(line, i) == SubSeq(line, i, WordEnd(line, i) - 1)
(* The words that begin in the first n characters, and those of the first  *)
(* k lines.                                                                *)
WordsIn(line, n) ==
  FlattenSeq([i \in 1..n |-> IF BeginsWord(line, i) THEN <<WordFrom(line, i)>> ELSE << >>])
WordsTo(k) == FlattenSeq([i \in 1..k |-> WordsIn(batch.input[i], Len(batch.input[i]))])
AllWords == WordsTo(Len(batch.input))

(* No line in front of another is as long as the buffer takes: behind one  *)
(* that is, xargs stops.                                                   *)
LinesEnd == \A i \in 1..(Len(batch.input) - 1) : Len(batch.input[i]) < LineMax - 1

(* The words of the input, in order, each an argument of exactly one       *)
(* command with at most -n of them (or one, if -n is less), as long as     *)
(* every command is run before the next line is read (the words of a line  *)
(* fill whole commands), none is dropped for want of room and fork works.  *)
(* What the commands got is a beginning of the words, and all of them at   *)
(* the end; where a line fills the buffer, those up to that line's end.    *)
WordsOfALine ==
  ~spoilt /\ ~spanned =>
    /\ IsPrefix(FlattenSeq(ran), AllWords)
    /\ loop = "done" => FlattenSeq(ran) = WordsTo(lineNo)
    /\ loop = "done" /\ LinesEnd => FlattenSeq(ran) = AllWords
    /\ \A k \in 1..Len(ran) : Len(ran[k]) >= 1 /\ (Len(ran[k]) <= batch.max \/ Len(ran[k]) = 1)

(* xargs.c:2, "build and execute commands from stdin": the words of the    *)
(* standard input, whatever lines they stand on, are what the commands get *)
(* (where no line is so long that xargs stops behind it).                  *)
EachWordOnce == loop = "done" /\ ~spoilt /\ LinesEnd => FlattenSeq(ran) = AllWords
===============================================================================
