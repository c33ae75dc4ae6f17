-------------------------------- MODULE Gunzip --------------------------------
(***************************************************************************)
(* gunzip_main (tools/gunzip.c) and zcat_main (tools/zcat.c): the loop     *)
(* over the files named on the command line, each of which is mapped,      *)
(* inflated to a new file or to the standard output, and by gunzip removed *)
(* afterwards.  The user may kill the tool at any point and run the same   *)
(* command again.                                                          *)
(*                                                                         *)
(* What inflating does is abstracted from module Inflate: an archive is    *)
(* "sound" when that yields its contents, and otherwise flawed: cut off,   *)
(* altered, of several members, or coded in a way that module Huffman      *)
(* shows to be misread.  A flawed one may fail or yield something else.    *)
(***************************************************************************)
EXTENDS Integers, Sequences

CONSTANTS Names,      \* the names of files
          GzNames,    \* those that end in .gz
          OutName,    \* name -> outpath: without .gz, or with .out appended
          Commands,   \* command lines
          Worlds,     \* file systems to start from
          MaxKills,   \* how often the tool is killed: bounds the behaviour
          MayFail     \* whether open, fstat, mmap and write may fail

Content == [kind : {"absent", "archive", "plain", "part", "wrong", "other"},
            of : Names \cup {"none"}, sound : BOOLEAN]
Absent  == [kind |-> "absent", of |-> "none", sound |-> FALSE]
Command == [tool : {"gunzip", "zcat"}, keep : BOOLEAN, toStdout : BOOLEAN,
            force : BOOLEAN, files : Seq(Names)]

ASSUME NamesAssumption ==
         /\ GzNames \subseteq Names /\ OutName \in [Names -> Names]
         /\ \A p \in Names : OutName[p] # p
ASSUME CommandsAssumption == Commands \subseteq Command
ASSUME WorldsAssumption == \A w \in Worlds : /\ w.files \in [Names -> Content]
                                             /\ w.stdin \in Content
ASSUME BoundsAssumption == MaxKills \in Nat /\ MayFail \in BOOLEAN

VARIABLES
  cmd,      \* the command line
  pc,       \* "next", "inflate", "ok", "bad", "stdin", "exited", "killed"
  f,        \* index into its files
  nfiles,   \* zcat: files inflated so far
  data,     \* what the mapped file holds
  fs,       \* contents of the files
  stdin,    \* what the standard input holds
  stdout,   \* what the standard output received
  code,     \* exit code
  kills,    \* history: how often the tool was killed
  fault,    \* history: a system call failed during this run
  stuck,    \* history: outputs that could not be removed
  initial   \* history: the file system at the start

vars == <<cmd, pc, f, nfiles, data, fs, stdin, stdout, code, kills, fault, stuck, initial>>

Init ==
  /\ cmd \in Commands
  /\ \E w \in Worlds : fs = w.files /\ stdin = w.stdin
  /\ initial = fs
  /\ pc = "next" /\ f = 1 /\ nfiles = 0 /\ data = Absent
  /\ stdout = << >> /\ code = 0 /\ kills = 0 /\ fault = FALSE /\ stuck = {}

Path == cmd.files[f]
Out == OutName[Path]
MoreFiles == pc = "next" /\ f <= Len(cmd.files)
ToFile == cmd.tool = "gunzip" /\ ~cmd.toStdout

Skipped == cmd.tool = "gunzip" /\ ~cmd.force /\ Path \notin GzNames

(* gunzip leaves alone what is not called .gz. *)
Skip ==
  /\ MoreFiles /\ Skipped
  /\ f' = f + 1
  /\ UNCHANGED <<cmd, pc, nfiles, data, fs, stdin, stdout, code, kills, fault, stuck, initial>>

(* The file is not there, too short, or has no gzip header, or the output  *)
(* cannot be created: a message, and the next file.  A failing mmap is not *)
(* among these: it returns -errno, which is not MAP_FAILED, so the header  *)
(* is looked for at that address and the tool is killed (see Kill).        *)
CannotStart ==
  /\ MoreFiles /\ ~Skipped
  /\ fs[Path].kind # "archive" \/ MayFail
  /\ f' = f + 1
  /\ fault' = (fault \/ fs[Path].kind = "archive")
  /\ UNCHANGED <<cmd, pc, nfiles, data, fs, stdin, stdout, code, kills, stuck, initial>>

StartNeverOverwrites ==
  /\ MoreFiles /\ ~Skipped /\ fs[Path].kind = "archive"
  /\ IF ToFile /\ fs[Out] # Absent
     THEN f' = f + 1 /\ UNCHANGED <<data, fs, pc>>
     ELSE /\ data' = fs[Path] /\ pc' = "inflate" /\ f' = f
          /\ fs' = IF ToFile
                   THEN [fs EXCEPT ![Out] = [kind |-> "part", of |-> fs[Path].of, sound |-> FALSE]]
                   ELSE fs
  /\ UNCHANGED <<cmd, nfiles, stdin, stdout, code, kills, fault, stuck, initial>>

(* The file is mapped and its header parsed; the output file is truncated  *)
(* if it was there before.                                                 *)
Start ==
  /\ MoreFiles /\ ~Skipped /\ fs[Path].kind = "archive"
  /\ data' = fs[Path]
  /\ fs' = IF ToFile
           THEN [fs EXCEPT ![Out] = [kind |-> "part", of |-> fs[Path].of, sound |-> FALSE]]
           ELSE fs
  /\ pc' = "inflate"
  /\ UNCHANGED <<cmd, f, nfiles, stdin, stdout, code, kills, fault, stuck, initial>>

(* inflate_to_fd returns: the contents, whatever a flawed archive decodes  *)
(* to, or, with part of the output written, -1.  Neither the stored CRC    *)
(* nor the stored size is compared with the result.                        *)
Yields(archive) ==
  IF archive.sound
  THEN {[kind |-> "plain", of |-> archive.of, sound |-> TRUE]}
  ELSE {[kind |-> k, of |-> archive.of, sound |-> FALSE] : k \in {"part", "wrong"}}

InflateOk ==
  /\ pc = "inflate" /\ pc' = "ok"
  /\ \E result \in Yields(data) :
       IF ToFile THEN fs' = [fs EXCEPT ![Out] = result] /\ UNCHANGED stdout
                 ELSE stdout' = Append(stdout, result) /\ UNCHANGED fs
  /\ UNCHANGED <<cmd, f, nfiles, data, stdin, code, kills, fault, stuck, initial>>

InflateFails ==
  /\ pc = "inflate"
  /\ ~data.sound \/ MayFail
  /\ fault' = (fault \/ data.sound)
  /\ stdout' = IF ToFile THEN stdout
               ELSE Append(stdout, [kind |-> "part", of |-> data.of, sound |-> FALSE])
  /\ pc' = "bad"
  /\ UNCHANGED <<cmd, f, nfiles, data, fs, stdin, code, kills, stuck, initial>>

RemoveOriginalAlways ==
  /\ pc \in {"ok", "bad"}
  /\ fs' = IF ToFile /\ ~cmd.keep THEN [fs EXCEPT ![Path] = Absent] ELSE fs
  /\ pc' = "next" /\ f' = f + 1 /\ nfiles' = nfiles + 1
  /\ UNCHANGED <<cmd, data, stdin, stdout, code, kills, fault, stuck, initial>>

FinishFileKeepsPart ==
  /\ pc \in {"ok", "bad"}
  /\ fs' = IF ToFile /\ pc = "ok" /\ ~cmd.keep THEN [fs EXCEPT ![Path] = Absent] ELSE fs
  /\ pc' = "next" /\ f' = f + 1 /\ nfiles' = nfiles + 1
  /\ UNCHANGED <<cmd, data, stdin, stdout, code, kills, fault, stuck, initial>>

FinishFileIgnoresKeep ==
  /\ pc \in {"ok", "bad"}
  /\ fs' = CASE ~ToFile    -> fs
             [] pc = "bad" -> [fs EXCEPT ![Out] = Absent]
             [] OTHER      -> [fs EXCEPT ![Path] = Absent]
  /\ pc' = "next" /\ f' = f + 1 /\ nfiles' = nfiles + 1
  /\ UNCHANGED <<cmd, data, stdin, stdout, code, kills, fault, stuck, initial>>

(* Afterwards: unlink the output on failure, the original on success (not  *)
(* with -k).  zcat counts the file either way.                             *)
FinishFile ==
  /\ pc \in {"ok", "bad"}
  /\ fs' = IF ~ToFile THEN fs
           ELSE IF pc = "bad" THEN [fs EXCEPT ![Out] = Absent]
           ELSE IF cmd.keep THEN fs ELSE [fs EXCEPT ![Path] = Absent]
  /\ pc' = "next" /\ f' = f + 1 /\ nfiles' = nfiles + 1
  /\ UNCHANGED <<cmd, data, stdin, stdout, code, kills, fault, stuck, initial>>

(* The result of unlink is not looked at: the part, or the original, stays *)
(* and the loop goes on.                                                   *)
UnlinkFails ==
  /\ MayFail /\ ToFile /\ (pc = "bad" \/ (pc = "ok" /\ ~cmd.keep))
  /\ stuck' = IF pc = "bad" THEN stuck \cup {Out} ELSE stuck
  /\ fault' = TRUE
  /\ pc' = "next" /\ f' = f + 1 /\ nfiles' = nfiles + 1
  /\ UNCHANGED <<cmd, data, fs, stdin, stdout, code, kills, initial>>

(* The standard input is for gunzip without file arguments, and for zcat   *)
(* when not one file could be mapped and had a header.                     *)
WantsStdin == IF cmd.tool = "gunzip" THEN cmd.files = << >> ELSE nfiles = 0

AfterLast ==
  /\ pc = "next" /\ f > Len(cmd.files)
  /\ IF WantsStdin
     THEN \/ /\ stdin.kind = "archive" /\ data' = stdin /\ pc' = "stdin" /\ code' = code
          \/ /\ stdin.kind # "archive" /\ data' = data /\ pc' = "exited" /\ code' = 1
     ELSE data' = data /\ pc' = "exited" /\ code' = 0
  /\ UNCHANGED <<cmd, f, nfiles, fs, stdin, stdout, kills, fault, stuck, initial>>

FromStdin ==
  /\ pc = "stdin" /\ pc' = "exited"
  /\ \/ /\ \E result \in Yields(data) : stdout' = Append(stdout, result)
        /\ code' = 0 /\ fault' = fault
     \/ /\ ~data.sound \/ MayFail
        /\ stdout' = Append(stdout, [kind |-> "part", of |-> data.of, sound |-> FALSE])
        /\ code' = 1 /\ fault' = (fault \/ data.sound)
  /\ UNCHANGED <<cmd, f, nfiles, data, fs, stdin, kills, stuck, initial>>

(* Killed, at whatever point, by the user or by a failed mmap; the same    *)
(* command is run again.                                                   *)
Kill ==
  /\ pc \notin {"exited", "killed"} /\ kills < MaxKills
  /\ pc' = "killed" /\ kills' = kills + 1
  /\ UNCHANGED <<cmd, f, nfiles, data, fs, stdin, stdout, code, fault, stuck, initial>>

Rerun ==
  /\ pc = "killed"
  /\ pc' = "next" /\ f' = 1 /\ nfiles' = 0 /\ data' = Absent /\ fault' = FALSE
  /\ UNCHANGED <<cmd, fs, stdin, stdout, code, kills, stuck, initial>>

Next == \/ Skip \/ CannotStart \/ Start \/ InflateOk \/ InflateFails \/ FinishFile
        \/ UnlinkFails \/ AfterLast \/ FromStdin \/ Kill \/ Rerun

Spec == Init /\ [][Next]_vars
-------------------------------------------------------------------------------
TypeOK ==
  /\ cmd \in Commands
  /\ pc \in {"next", "inflate", "ok", "bad", "stdin", "exited", "killed"}
  /\ f \in 1..(Len(cmd.files) + 1) /\ nfiles \in 0..Len(cmd.files)
  /\ data \in Content /\ fs \in [Names -> Content] /\ stdin \in Content
  /\ stdout \in Seq(Content)
  /\ code \in {0, 1} /\ kills \in 0..MaxKills
  /\ fault \in BOOLEAN /\ stuck \in SUBSET Names /\ initial \in [Names -> Content]

Named == {cmd.files[i] : i \in 1..Len(cmd.files)}

(* No output of the command is also one of its inputs: "gunzip a.gz.gz     *)
(* a.gz" truncates a.gz before it gets to it.                              *)
Separate == \A p, q \in Named : OutName[p] # q /\ (OutName[p] = OutName[q] => p = q)

Plain(p) == fs[p].kind = "plain"

(* A sound archive is never lost: at every moment, also where the tool was *)
(* killed or a write failed, it is still there or its contents are.        *)
SoundNeverLost ==
  Separate =>
    \A p \in Named : initial[p].kind = "archive" /\ initial[p].sound =>
      fs[p] = initial[p] \/ (Plain(OutName[p]) /\ fs[OutName[p]].of = initial[p].of)

(* gunzip that was not killed leaves no half-written file behind, except   *)
(* where a flawed archive (cut off) made it believe it was done, or the    *)
(* unlink of what a failure had left was refused.                          *)
NoPartLeft ==
  pc = "exited" /\ kills = 0 =>
    \A p \in Names : fs[p].kind = "part" =>
      \/ fs[p] = initial[p] \/ p \in stuck
      \/ \E q \in Named : OutName[q] = p /\ initial[q].kind = "archive" /\ ~initial[q].sound

(* Where no system call fails, the last run has inflated every sound       *)
(* archive it was asked to, whatever an earlier run that was killed had    *)
(* done of it: half an output file, or an original not removed yet.        *)
AllInflated ==
  pc = "exited" /\ ~fault /\ ToFile /\ Separate =>
    \A p \in Named :
      initial[p].kind = "archive" /\ initial[p].sound /\ (p \in GzNames \/ cmd.force) =>
        /\ Plain(OutName[p]) /\ fs[OutName[p]].of = initial[p].of
        /\ (fs[p] = Absent) # cmd.keep

(* A step changes no file but the output of the file in hand, which it     *)
(* truncates, fills or takes away, or that file itself, which it takes     *)
(* away after its output is complete as far as inflate_to_fd can tell.     *)
OnlyAsked ==
  [][\A p \in Names : fs'[p] # fs[p] =>
       /\ ToFile
       /\ \/ p = Out /\ (pc = "next" => fs[Path].kind = "archive")
          \/ p = Path /\ fs'[p] = Absent /\ pc = "ok" /\ ~cmd.keep]_vars

(* deflate.h:16, "CRC32 (used by gzip verification)": the original is only *)
(* removed for an output that the CRC stored with it confirms.             *)
VerifiedBeforeRemoval ==
  Separate =>
    \A p \in Named : initial[p].kind = "archive" /\ fs[p].kind = "absent" =>
      Plain(OutName[p])
===============================================================================
