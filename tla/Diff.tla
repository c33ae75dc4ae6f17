---------------------------------- MODULE Diff ----------------------------------
(***************************************************************************)
(* tools/diff.c.  A file is a sequence of lines, a line a sequence of      *)
(* characters that fits into one LINE_MAX; a command names two files, each *)
(* of which may be NoSuch.  Reading stops at a blank line, for which       *)
(* read_line returns what it returns at the end of a file, and then one    *)
(* line more is read.  What was stored is compared with a window of        *)
(* look-ahead instead of a common subsequence.                             *)
(***************************************************************************)
EXTENDS Integers, Sequences, SequencesExt

CONSTANTS Char,
          Pairs,       \* pairs of files, sequences of lines
          NoSuch,      \* a file that is not there
          MaxLines,    \* DIFF_MAX_LINES
          Storage,     \* sizeof(line_storage)
          Look,        \* 100
          ReadsMayFail

Text == Seq(Seq(Char))
ASSUME PairsAssumption == Pairs \subseteq (Text \cup {NoSuch}) \X (Text \cup {NoSuch})
ASSUME LookAssumption == Look \in Nat /\ MaxLines \in Nat

VARIABLES
  pair,
  doing,    \* "read", "compare", "scan", "done"
  reading,  \* 1 or 2: the file in hand
  place,    \* lines of it that were read, and characters of the next one
  texts,    \* lines_a and lines_b
  spot,     \* ia and ib
  hunks,    \* those printed
  verdict   \* what diff returns

diffVars == <<pair, doing, reading, place, texts, spot, hunks, verdict>>

DiffInit ==
  /\ pair \in Pairs /\ doing = "read" /\ reading = 1 /\ place = <<0, 0>> /\ texts = <<<< >>, << >>>>
  /\ spot = <<0, 0>> /\ hunks = << >> /\ verdict = 0

-------------------------------------------------------------------------------
(* read_lines *)

CannotRead ==
  /\ doing = "read" /\ pair[reading] = NoSuch
  /\ doing' = "done" /\ verdict' = 2
  /\ UNCHANGED <<pair, reading, place, texts, spot, hunks>>

(* What a call of read_line gives of the file in hand, and where it leaves *)
(* it: the rest of a line, or the part of it in front of a read that fails. *)
LineAt(pos) ==
  LET file == pair[reading] IN
    IF pos[1] < Len(file) THEN SubSeq(file[pos[1] + 1], pos[2] + 1, Len(file[pos[1] + 1])) ELSE << >>
CallsOfReadLine(pos) ==
  {[line |-> LineAt(pos), pos |-> <<pos[1] + 1, 0>>]}
  \cup (IF ReadsMayFail
        THEN {[line |-> SubSeq(LineAt(pos), 1, n), pos |-> <<pos[1], pos[2] + n>>] :
                n \in 0..Len(LineAt(pos))}
        ELSE {})

(* store_line: each line and its NUL, of both files. *)
StorageOf(file) == FoldLeft(LAMBDA n, line : n + Len(line) + 1, 0, file)
Stored(line) ==
  line # << >> /\ StorageOf(texts[1]) + StorageOf(texts[2]) + Len(line) + 1 <= Storage
MoreLines == Len(texts[reading]) < MaxLines
With(line) == [texts EXCEPT ![reading] = Append(@, line)]

StoreLine ==
  /\ doing = "read" /\ pair[reading] # NoSuch /\ MoreLines
  /\ \E r \in CallsOfReadLine(place) : Stored(r.line) /\ place' = r.pos /\ texts' = With(r.line)
  /\ UNCHANGED <<pair, doing, reading, spot, hunks, verdict>>

(* The loop ends at the limit, or with a line that is blank, that is not   *)
(* there or that has no room any more.  Behind it, unless it was the limit,*)
(* one line more; then the other file.                                     *)
LoopEnds ==
  /\ doing = "read" /\ pair[reading] # NoSuch
  /\ \/ ~MoreLines /\ texts' = texts
     \/ /\ MoreLines
        /\ \E r \in CallsOfReadLine(place) :
             /\ ~Stored(r.line)
             /\ \E more \in CallsOfReadLine(r.pos) :
                  texts' = IF Stored(more.line) THEN With(more.line) ELSE texts
  /\ IF reading = 1 THEN reading' = 2 /\ doing' = doing ELSE reading' = reading /\ doing' = "compare"
  /\ place' = <<0, 0>>
  /\ UNCHANGED <<pair, spot, hunks, verdict>>
-------------------------------------------------------------------------------
(* simple_diff *)

linesA == texts[1]
linesB == texts[2]
ia == spot[1]
ib == spot[2]

QuickCheck ==
  /\ doing = "compare"
  /\ IF linesA = linesB THEN doing' = "done" ELSE doing' = "scan"
  /\ UNCHANGED <<pair, reading, place, texts, spot, hunks, verdict>>

Scanning == doing = "scan" /\ ia < Len(linesA) /\ ib < Len(linesB)
Matching == linesA[ia + 1] = linesB[ib + 1]

Match ==
  /\ Scanning /\ Matching
  /\ spot' = <<ia + 1, ib + 1>>
  /\ UNCHANGED <<pair, doing, reading, place, texts, hunks, verdict>>

(* How far behind the other's line the next one's equal is. *)
InA == {k \in 1..(Look - 1) : ia + k < Len(linesA) /\ linesA[ia + k + 1] = linesB[ib + 1]}
InB == {k \in 1..(Look - 1) : ib + k < Len(linesB) /\ linesB[ib + k + 1] = linesA[ia + 1]}
Nearest(S) == CHOOSE k \in S : \A l \in S : k <= l

(* A hunk behind i lines of the one file and j of the other: the lines of  *)
(* either it speaks of, first and last, or the one it stands behind, and   *)
(* what is printed of them.                                                *)
Deleted(i, j, k) == [op |-> "d", left |-> <<i + 1, i + k>>, right |-> <<j, j>>,
                     old |-> SubSeq(linesA, i + 1, i + k), new |-> << >>]
Added(i, j, k) == [op |-> "a", left |-> <<i, i>>, right |-> <<j + 1, j + k>>,
                   old |-> << >>, new |-> SubSeq(linesB, j + 1, j + k)]
Changed(i, j) == [op |-> "c", left |-> <<i + 1, i + 1>>, right |-> <<j + 1, j + 1>>,
                  old |-> <<linesA[i + 1]>>, new |-> <<linesB[j + 1]>>]
Show(hunk) == hunks' = Append(hunks, hunk)

DeleteSkipsMatch ==
  /\ Scanning /\ ~Matching /\ InA # {} /\ (InB # {} => Nearest(InA) <= Nearest(InB))
  /\ Show(Deleted(ia, ib, Nearest(InA))) /\ spot' = <<ia + Nearest(InA) + 1, ib>>
  /\ UNCHANGED <<pair, doing, reading, place, texts, verdict>>

(* The nearest is taken, and the first file's of two that are as near. *)
Delete ==
  /\ Scanning /\ ~Matching /\ InA # {} /\ (InB # {} => Nearest(InA) <= Nearest(InB))
  /\ Show(Deleted(ia, ib, Nearest(InA))) /\ spot' = <<ia + Nearest(InA), ib>>
  /\ UNCHANGED <<pair, doing, reading, place, texts, verdict>>
Add ==
  /\ Scanning /\ ~Matching /\ InB # {} /\ (InA # {} => Nearest(InB) < Nearest(InA))
  /\ Show(Added(ia, ib, Nearest(InB))) /\ spot' = <<ia, ib + Nearest(InB)>>
  /\ UNCHANGED <<pair, doing, reading, place, texts, verdict>>
Change ==
  /\ Scanning /\ ~Matching /\ InA = {} /\ InB = {}
  /\ Show(Changed(ia, ib)) /\ spot' = <<ia + 1, ib + 1>>
  /\ UNCHANGED <<pair, doing, reading, place, texts, verdict>>

(* What is left of one of the files. *)
Remaining ==
  /\ doing = "scan" /\ ~Scanning
  /\ hunks' = hunks
       \o (IF ia < Len(linesA) THEN <<Deleted(ia, Len(linesB), Len(linesA) - ia)>> ELSE << >>)
       \o (IF ib < Len(linesB) THEN <<Added(Len(linesA), ib, Len(linesB) - ib)>> ELSE << >>)
  /\ spot' = <<Len(linesA), Len(linesB)>> /\ doing' = "done" /\ verdict' = 1
  /\ UNCHANGED <<pair, reading, place, texts>>

DiffNext == \/ CannotRead \/ StoreLine \/ LoopEnds \/ QuickCheck
            \/ Match \/ Delete \/ Add \/ Change \/ Remaining
DiffSpec == DiffInit /\ [][DiffNext]_diffVars
-------------------------------------------------------------------------------
(* What patch(1) does with a hunk: text is what it has made so far, used   *)
(* the lines of the first file it has gone through.                        *)
Apply(acc, hunk) ==
  LET until == IF hunk.op = "a" THEN hunk.left[1] ELSE hunk.left[1] - 1
      text  == acc.text \o SubSeq(linesA, acc.used + 1, until)
  IN  [text |-> text \o hunk.new,
       used |-> hunk.left[2],
       fits |-> /\ acc.fits /\ acc.used <= until
                /\ hunk.op # "a" => hunk.old = SubSeq(linesA, hunk.left[1], hunk.left[2])
                /\ IF hunk.op = "d" THEN hunk.right[1] = Len(text)
                   ELSE hunk.right = <<Len(text) + 1, Len(text) + Len(hunk.new)>>]
PatchedBy[n \in 0..Len(hunks)] ==   \* the first n hunks
  IF n = 0 THEN [text |-> << >>, used |-> 0, fits |-> TRUE] ELSE Apply(PatchedBy[n - 1], hunks[n])
Patched == PatchedBy[Len(hunks)]

(* What is printed turns the lines stored of the first file into those of  *)
(* the second when it is applied as a patch, every line number and every   *)
(* line shown being right, whichever way the look-ahead found them again;  *)
(* the status is 0 only when there was nothing to show.                    *)
DiffApplies ==
  doing = "done" /\ verdict # 2 =>
    /\ Patched.fits /\ Patched.text \o SubSeq(linesA, Patched.used + 1, Len(linesA)) = linesB
    /\ verdict = 0 <=> linesA = linesB /\ hunks = << >>
===============================================================================
