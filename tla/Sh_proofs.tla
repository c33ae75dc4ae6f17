------------------------------- MODULE Sh_proofs -------------------------------
(***************************************************************************)
(* The shell answers a line only when its processes are collected, keeps   *)
(* no pipe end, and takes the status of a single command from nobody else: *)
(* for every set of lines of up to 16 segments, every capacity of a pipe,  *)
(* and every order of the steps of the shell and its children.             *)
(***************************************************************************)
EXTENDS Sh, Lemmas

Outcomes == Codes \cup {0, 1, 127, Killed}
Process ==
  [state : {"none", "forked", "running", "zombie", "reaped"}, prog : Programs \cup {"none"},
   in : Pipes \cup {None}, out : Pipes \cup {None}, hand : {0, 1}, code : Outcomes]
Ends == Pipes \X {"r", "w"}

(* Types. *)
ShTypeOK ==
  /\ pc \in {"prompt", "launch", "close", "wait", "reap", "answer", "gone"}
  /\ line \in Lines \cup {NoLine} /\ entered \in 0..MaxLines /\ seg \in Nat \ {0}
  /\ prevFd \in Pipes \cup {None} /\ pipeFd \in Pipes \cup {None}
  /\ pid \in Pids \cup {None, FailedFork} /\ waited \in Pids \cup {None}
  /\ status \in Outcomes /\ ret \in Outcomes
  /\ proc \in [Pids -> Process]
  /\ held \in [Pids \cup {Shell} -> SUBSET Ends]
  /\ data \in [Pipes -> 0..PipeCap]
  /\ job \in SUBSET Pids

(* Where the loop of a line is.  The pipe that feeds a segment is older    *)
(* than the one made for it.                                               *)
Position ==
  /\ pc # "prompt" => line \in Lines /\ entered \in 1..MaxLines
  /\ pc \in {"launch", "close"} => seg \in 1..Len(line.segs)
  /\ pc = "launch" /\ seg = 1 => prevFd = None /\ job = {}
  /\ pc = "launch" => pipeFd = None
  /\ pc \in {"close", "reap"} => Piped
  /\ pc \in {"launch", "close"} => prevFd < FreshPipe
  /\ pc = "close" => pipeFd \in IF Last THEN {None} ELSE {None, FreshPipe}

(* The ends the shell holds are those of its two variables. *)
ShellEnds ==
  held[Shell] = IF pc \in {"launch", "close"}
                THEN ReadEnd(prevFd) \cup ReadEnd(pipeFd) \cup WriteEnd(pipeFd) ELSE {}

(* Those a process holds are its own; before exec also the other end of    *)
(* the pipe it writes to.                                                  *)
ChildEnds ==
  \A p \in Pids :
    held[p] = CASE proc[p].state = "running" -> ReadEnd(proc[p].in) \cup WriteEnd(proc[p].out)
                [] proc[p].state = "forked" ->
                     ReadEnd(proc[p].in) \cup ReadEnd(proc[p].out) \cup WriteEnd(proc[p].out)
                [] OTHER -> {}

(* How many processes were forked and pipes made at most; pids are given   *)
(* in order, and no two processes write to one pipe.                       *)
Made == CASE pc = "launch" -> FreshPipe - 1
          [] pc = "close"  -> FreshPipe
          [] OTHER         -> entered * Longest
Numbered ==
  \A p \in Pids :
    /\ proc[p].state # "none" => p <= Made /\ \A q \in 1..(p - 1) : proc[q].state # "none"
    /\ proc[p].out <= Made
    /\ \A q \in Pids : p # q /\ proc[p].out = proc[q].out => proc[p].out = None

(* Where the status of a single command comes from, and whom the shell     *)
(* still has to wait for.                                                  *)
Waits ==
  /\ pc \in {"launch", "close", "wait"} => waited = None
  /\ ~Piped /\ waited # None => waited = pid
  /\ pc = "wait" /\ ~Piped => job \subseteq {pid}
  /\ pc = "answer" => job \cap Children = {}

IInv == ShTypeOK /\ Position /\ ShellEnds /\ ChildEnds /\ Numbered /\ Waits
-------------------------------------------------------------------------------
(* The longest line is as long as one of them, and no other is longer. *)
LEMMA LongestIs == Longest \in 1..MaxSegments /\ \A l \in Lines : Len(l.segs) <= Longest
<1> DEFINE S == {Len(l.segs) : l \in Lines}
           R == {MaxSegments - n : n \in S}
<1>1. S \subseteq 1..MaxSegments /\ S # {}
  BY LinesAssumption
<1>2. R \in SUBSET Nat /\ R # {}
  <2>1. \A n \in S : MaxSegments - n \in Nat
    BY <1>1 DEF MaxSegments
  <2>2. PICK n \in S : TRUE
    BY <1>1
  <2>3. MaxSegments - n \in R
    OBVIOUS
  <2> QED BY <2>1, <2>3
<1>3. PICK r \in R : \A q \in R : r <= q
  BY <1>2, Minimum
<1>4. PICK n \in S : r = MaxSegments - n
  OBVIOUS
<1>5. ASSUME NEW m \in S PROVE m <= n
  <2>1. MaxSegments - m \in R
    OBVIOUS
  <2>2. MaxSegments - n <= MaxSegments - m
    BY <1>3, <1>4, <2>1
  <2> QED BY <1>1, <2>2 DEF MaxSegments
<1>6. \A l \in Lines : Len(l.segs) \in S
  OBVIOUS
<1>7. \A l \in Lines : Len(l.segs) <= n
  BY <1>5, <1>6
<1>8. Longest \in S /\ \A l \in Lines : Len(l.segs) <= Longest
  BY <1>7 DEF Longest
<1> QED BY <1>1, <1>8

(* The numbers of the segments of a line follow those of the lines before. *)
LEMMA Numbers ==
  ASSUME NEW n \in 1..MaxLines, NEW k \in 1..Longest
  PROVE  /\ (n - 1) * Longest + k \in Nat
         /\ (n - 1) * Longest + k >= 1 /\ (n - 1) * Longest + k <= n * Longest
         /\ n * Longest \in Nat /\ n * Longest <= MaxLines * Longest
         /\ (n - 1) * Longest + k \in Pipes /\ (n - 1) * Longest + k \in Pids
<1>1. Longest \in Nat /\ MaxLines \in Nat
  BY LongestIs, BoundsAssumption DEF MaxSegments
<1> DEFINE L == Longest
<1> HIDE DEF L
<1>2. L \in Nat /\ n \in Nat /\ n >= 1 /\ n <= MaxLines /\ k \in Nat /\ k >= 1 /\ k <= L
  BY <1>1 DEF L
<1>3. (n - 1) * L = n * L - L /\ (n - 1) * L \in Nat /\ n * L \in Nat
  BY <1>1, <1>2
<1>4. n * L <= MaxLines * L
  <2>1. MaxLines * L - n * L = (MaxLines - n) * L
    BY <1>1, <1>2
  <2>2. (MaxLines - n) * L \in Nat /\ MaxLines * L \in Nat
    BY <1>1, <1>2
  <2> QED BY <1>3, <2>1, <2>2
<1>5. (n - 1) * L + k \in Nat /\ (n - 1) * L + k >= 1 /\ (n - 1) * L + k <= n * L
  BY <1>2, <1>3
<1>6. MaxLines * L \in Nat
  BY <1>1, <1>2
<1>7. (n - 1) * L + k \in 1..(MaxLines * L)
  BY <1>3, <1>4, <1>5, <1>6
<1> QED BY <1>3, <1>4, <1>5, <1>7 DEF L, Pipes, Pids

(* What is not 0 and not more than 1. *)
LEMMA One == ASSUME NEW n \in Nat, n >= 1, ~ (n > 1) PROVE n = 1
OBVIOUS

(* The length of a line is a number, and not 0. *)
LEMMA LengthOf ==
  ASSUME NEW l \in Lines
  PROVE  Len(l.segs) \in Nat /\ Len(l.segs) >= 1
<1>1. PICK n \in 1..MaxSegments : n = Len(l.segs)
  BY LinesAssumption
<1>2. n \in Nat /\ n >= 1
  BY DEF MaxSegments
<1> QED BY <1>1, <1>2

(* Pids are numbers from 1 on. *)
LEMMA PidsAre ==
  /\ MaxLines * Longest \in Nat /\ Pids \subseteq Nat /\ Shell \notin Pids /\ None \notin Pids
  /\ \A p \in Pids : \A q \in 1..(p - 1) : q \in Pids
<1> DEFINE top == MaxLines * Longest
<1>1. top \in Nat
  BY LongestIs, BoundsAssumption DEF MaxSegments
<1> HIDE DEF top
<1>2. Pids = 1..top
  BY DEF Pids, top
<1>3. \A p \in 1..top : \A q \in 1..(p - 1) : q \in 1..top
  BY <1>1
<1> QED BY <1>1, <1>2, <1>3 DEF top, Shell, None

(* The segment in hand is one of its line, and has a number of its own.    *)
LEMMA InLine ==
  ASSUME ShTypeOK, Position, pc \in {"launch", "close"}
  PROVE  /\ line \in Lines /\ line.segs \in Seq(Programs) /\ Program \in Programs
         /\ Len(line.segs) \in 1..Longest /\ seg \in 1..Len(line.segs) /\ seg \in Nat
         /\ entered \in 1..MaxLines
         /\ FreshPipe \in Nat /\ FreshPipe >= 1 /\ FreshPipe \in Pipes /\ FreshPipe \in Pids
         /\ FreshPipe <= entered * Longest /\ entered * Longest \in Nat
<1>1. line \in Lines /\ entered \in 1..MaxLines /\ seg \in 1..Len(line.segs)
  BY DEF Position
<1>2. line.segs \in Seq(Programs) /\ Len(line.segs) \in 1..MaxSegments /\ Len(line.segs) <= Longest
  BY <1>1, LinesAssumption, LongestIs
<1>3. /\ Len(line.segs) \in 1..Longest /\ seg \in 1..Longest /\ seg \in Nat
  BY <1>1, <1>2, LongestIs DEF MaxSegments
<1>4. Program \in Programs
  BY <1>1, <1>2 DEF Program
<1> QED BY <1>1, <1>2, <1>3, <1>4, Numbers DEF FreshPipe

(* As many were made as a number says. *)
LEMMA MadeType ==
  ASSUME ShTypeOK, Position
  PROVE  Made \in Nat /\ entered * Longest \in Nat /\ Made <= entered * Longest
<1>1. CASE pc \in {"launch", "close"}
  BY <1>1, InLine DEF Made
<1>2. CASE pc \notin {"launch", "close"}
  <2>1. entered * Longest \in Nat
    BY LongestIs DEF ShTypeOK, MaxSegments
  <2> QED BY <1>2, <2>1 DEF Made
<1> QED BY <1>1, <1>2

(* There is a pid for the next process, the smallest that was not given.   *)
LEMMA NextPid ==
  ASSUME IInv, pc = "launch"
  PROVE  /\ FreshPid \in Pids /\ FreshPid # None /\ FreshPid <= FreshPipe
         /\ proc[FreshPid].state = "none" /\ FreshPid \notin Children
         /\ \A q \in 1..(FreshPid - 1) : proc[q].state # "none"
<1> DEFINE S == {p \in Pids : proc[p].state = "none"}
<1>1. FreshPipe \in Pids /\ FreshPipe \in Nat /\ Made = FreshPipe - 1
  BY InLine DEF IInv, Made
<1>2. Pids \subseteq Nat /\ \A p \in Pids : p >= 1
  BY DEF Pids
<1>3. FreshPipe \in S
  <2>1. ~ (FreshPipe <= Made)
    BY <1>1
  <2> QED BY <1>1, <2>1 DEF IInv, Numbered
<1>4. PICK p \in S : \A q \in S : p <= q
  <2>1. S \in SUBSET Nat /\ S # {}
    BY <1>2, <1>3
  <2> QED BY <2>1, Minimum
<1>5. p <= FreshPipe
  BY <1>3, <1>4
<1>6. \A q \in 1..(p - 1) : q \in Pids /\ q \notin S
  <2> SUFFICES ASSUME NEW q \in 1..(p - 1) PROVE q \in Pids /\ q \notin S
    OBVIOUS
  <2>1. q \in Nat /\ p \in Nat /\ q >= 1 /\ q < p
    BY <1>2
  <2>2. q \in Pids
    BY <1>4, PidsAre
  <2>3. ~ (p <= q)
    BY <2>1
  <2> QED BY <1>4, <2>2, <2>3
<1>7. p \in Pids /\ proc[p].state = "none" /\ \A q \in 1..(p - 1) : proc[q].state # "none"
  BY <1>4, <1>6
<1>8. /\ FreshPid \in Pids /\ proc[FreshPid].state = "none"
      /\ \A q \in 1..(FreshPid - 1) : proc[q].state # "none"
  BY <1>7 DEF FreshPid
<1>9. FreshPid <= FreshPipe
  <2>1. FreshPid \in Nat /\ FreshPid >= 1
    BY <1>2, <1>8
  <2>2. FreshPipe < FreshPid => FreshPipe \in 1..(FreshPid - 1)
    BY <1>1, <1>2, <2>1
  <2> QED BY <1>1, <1>3, <1>8, <2>1, <2>2
<1> QED BY <1>2, <1>8, <1>9 DEF None, Children, Alive, Zombie

(* The three records a process starts and ends with.                       *)
Started(prog, in, out) ==
  [NoProc EXCEPT !.state = "forked", !.prog = prog, !.in = in, !.out = out]

(* They are records of processes. *)
LEMMA NewRecord ==
  ASSUME NEW prog \in Programs, NEW in \in Pipes \cup {None}, NEW out \in Pipes \cup {None}
  PROVE  /\ Started(prog, in, out) \in Process /\ Started(prog, in, out).state = "forked"
         /\ Started(prog, in, out).in = in /\ Started(prog, in, out).out = out
BY DEF Started, NoProc, Process, Outcomes
(* One that ended. *)
LEMMA ZombieRecord ==
  ASSUME NEW code \in Outcomes
  PROVE  LET r == [NoProc EXCEPT !.state = "zombie", !.code = code] IN
           r \in Process /\ r.state = "zombie" /\ r.out = None
BY DEF NoProc, Process
(* One that was collected. *)
LEMMA ReapedRecord ==
  LET r == [NoProc EXCEPT !.state = "reaped"] IN
    r \in Process /\ r.state = "reaped" /\ r.out = None
BY DEF NoProc, Process, Outcomes
(* One that never was. *)
LEMMA NoRecord == NoProc \in Process /\ NoProc.state = "none" /\ NoProc.out = None
BY DEF NoProc, Process, Outcomes

(* The ends of a pipe are ends, and two pipes share none. *)
LEMMA EndsType ==
  ASSUME NEW k \in Pipes \cup {None}
  PROVE  ReadEnd(k) \subseteq Ends /\ WriteEnd(k) \subseteq Ends
BY DEF ReadEnd, WriteEnd, Ends
(* Two pipes share no end: closing one's leaves the other's read end. *)
LEMMA EndsApart ==
  ASSUME NEW j, NEW k, j # k \/ j = None
  PROVE  (ReadEnd(j) \cup ReadEnd(k) \cup WriteEnd(k)) \ (ReadEnd(j) \cup WriteEnd(k)) = ReadEnd(k)
BY DEF ReadEnd, WriteEnd
-------------------------------------------------------------------------------
(* At the start. *)
LEMMA InitInv == Init => IInv
<1> SUFFICES ASSUME Init PROVE IInv
  OBVIOUS
<1>1. ShTypeOK
  <2>1. proc \in [Pids -> Process] /\ held \in [Pids \cup {Shell} -> SUBSET Ends]
    BY NoRecord DEF Init
  <2>2. data \in [Pipes -> 0..PipeCap]
    BY BoundsAssumption DEF Init
  <2>3. entered \in 0..MaxLines
    BY BoundsAssumption DEF Init
  <2> QED BY <2>1, <2>2, <2>3 DEF Init, ShTypeOK, None, Outcomes
<1>2. Position
  BY DEF Init, Position
<1>3. ShellEnds /\ ChildEnds
  BY NoRecord DEF Init, ShellEnds, ChildEnds, Shell
<1>4. Numbered
  <2>1. Made = 0
    BY LongestIs DEF Init, Made
  <2>2. \A p \in Pids : proc[p].state = "none" /\ proc[p].out = 0
    BY NoRecord DEF Init, None
  <2> QED BY <2>1, <2>2 DEF Numbered, None
<1>5. Waits
  BY DEF Init, Waits
<1> QED BY <1>1, <1>2, <1>3, <1>4, <1>5 DEF IInv

(* When no process changes, what is said of processes goes on to hold.     *)
LEMMA NoProcessSteps ==
  ASSUME IInv, proc' = proc, \A p \in Pids : held'[p] = held[p],
         Made \in Nat, Made' \in Nat, Made <= Made'
  PROVE  ChildEnds' /\ Numbered' /\ Children' = Children
<1>1. ChildEnds'
  BY DEF IInv, ChildEnds
<1>2. Numbered'
  <2> SUFFICES ASSUME NEW p \in Pids
               PROVE  /\ proc[p].state # "none" => p <= Made'
                      /\ proc[p].out <= Made'
    BY DEF IInv, Numbered
  <2>1. p \in Nat /\ proc[p].out \in Nat
    BY LongestIs DEF IInv, ShTypeOK, Process, Pids, Pipes, None
  <2> QED BY <2>1 DEF IInv, Numbered
<1>3. Children' = Children
  BY DEF Children, Alive, Zombie
<1> QED BY <1>1, <1>2, <1>3

(* wait4 hands back one zombie, which is no child any longer.              *)
LEMMA ReapSteps ==
  ASSUME IInv, NEW p \in Pids, Zombie(p), Reap(p), held' = held, Made' = Made
  PROVE  /\ proc' \in [Pids -> Process] /\ status' \in Outcomes /\ waited' = p
         /\ ChildEnds' /\ Numbered' /\ Children' = Children \ {p} /\ p \in Children
<1> DEFINE r == [NoProc EXCEPT !.state = "reaped"]
<1>1. /\ proc \in [Pids -> Process] /\ proc' = [proc EXCEPT ![p] = r]
      /\ status' = proc[p].code /\ waited' = p
  BY DEF IInv, ShTypeOK, Reap
<1>2. r \in Process /\ r.state = "reaped" /\ r.out = None
  BY ReapedRecord
<1> HIDE DEF r
<1>3. proc' \in [Pids -> Process] /\ proc'[p] = r /\ \A q \in Pids : q # p => proc'[q] = proc[q]
  BY <1>1, <1>2
<1>4. status' \in Outcomes
  BY <1>1 DEF Process
<1>5. proc[p].state = "zombie"
  BY DEF Zombie
<1>6. ChildEnds'
  <2> SUFFICES ASSUME NEW q \in Pids
               PROVE  held[q] = CASE proc'[q].state = "running" -> ReadEnd(proc'[q].in) \cup WriteEnd(proc'[q].out)
                                  [] proc'[q].state = "forked" ->
                                       ReadEnd(proc'[q].in) \cup ReadEnd(proc'[q].out) \cup WriteEnd(proc'[q].out)
                                  [] OTHER -> {}
    BY DEF ChildEnds
  <2>1. CASE q = p
    BY <1>2, <1>3, <1>5, <2>1 DEF IInv, ChildEnds
  <2>2. CASE q # p
    BY <1>3, <2>2 DEF IInv, ChildEnds
  <2> QED BY <2>1, <2>2
<1>7. Numbered'
  <2>1. \A q \in Pids : (proc'[q].state # "none" <=> proc[q].state # "none")
                        /\ (proc'[q].out = proc[q].out \/ proc'[q].out = None)
    BY <1>2, <1>3, <1>5
  <2>2. \A q \in Pids : \A m \in 1..(q - 1) : m \in Pids
    BY PidsAre
  <2>3. Made >= 0
    BY MadeType DEF IInv
  <2> QED BY <2>1, <2>2, <2>3 DEF IInv, Numbered, None
<1>8. Children' = Children \ {p} /\ p \in Children
  BY <1>2, <1>3, <1>5 DEF Children, Alive, Zombie
<1> QED BY <1>1, <1>3, <1>4, <1>6, <1>7, <1>8
-------------------------------------------------------------------------------
(* A line is entered. *)
LEMMA EnterInv == ASSUME IInv, NEW l \in Lines, Enter(l) PROVE IInv'
<1>1. /\ pc = "prompt" /\ entered < MaxLines /\ pc' = "launch" /\ line' = l
      /\ entered' = entered + 1 /\ seg' = 1 /\ prevFd' = None /\ pipeFd' = None
      /\ job' = {} /\ waited' = None /\ status' = 0 /\ pid' = None
      /\ UNCHANGED <<ret, proc, held, data>>
  BY DEF Enter
<1>2. ShTypeOK /\ Position /\ Longest \in Nat /\ Longest >= 1 /\ MaxLines \in Nat
  BY LongestIs, BoundsAssumption DEF IInv, MaxSegments
<1>3. Len(l.segs) >= 1 /\ Len(l.segs) \in Nat
  BY LinesAssumption, LengthOf
<1>4. entered' \in 1..MaxLines /\ entered' \in 0..MaxLines
  BY <1>1, <1>2 DEF ShTypeOK
<1>5. ShTypeOK'
  BY <1>1, <1>2, <1>4 DEF ShTypeOK, Outcomes
<1>6. FreshPipe' = entered * Longest + 1 /\ Made = entered * Longest /\ Made \in Nat
  <2>1. entered' - 1 = entered
    BY <1>1, <1>2 DEF ShTypeOK
  <2> QED BY <1>1, <1>2, <2>1, MadeType DEF FreshPipe, Made
<1>7. Position'
  BY <1>1, <1>3, <1>4, <1>6 DEF Position, None
<1>8. Made' = Made
  BY <1>1, <1>6 DEF Made
<1>9. ChildEnds' /\ Numbered'
  BY <1>1, <1>6, <1>8, NoProcessSteps
<1>10. ShellEnds'
  BY <1>1 DEF IInv, ShellEnds, ReadEnd, WriteEnd
<1>11. Waits'
  BY <1>1 DEF Waits
<1> QED BY <1>5, <1>7, <1>9, <1>10, <1>11 DEF IInv

(* The shell goes from a line in hand to where no segment is left to fork, *)
(* or leaves, with nothing to do about processes.                          *)
LEMMA LeaveLoop ==
  ASSUME IInv, pc \in {"launch", "close"}, pc' \in {"prompt", "gone", "wait"},
         UNCHANGED <<line, entered, proc>>, \A p \in Pids : held'[p] = held[p],
         held'[Shell] = {}
  PROVE  Position' /\ ShellEnds' /\ ChildEnds' /\ Numbered'
<1>1. /\ line \in Lines /\ entered \in 1..MaxLines /\ entered * Longest \in Nat
      /\ FreshPipe \in Nat /\ FreshPipe >= 1 /\ FreshPipe <= entered * Longest
  BY InLine DEF IInv
<1>2. Position' /\ ShellEnds'
  BY <1>1 DEF Position, ShellEnds
<1>3. Made \in Nat /\ Made' = entered * Longest /\ Made <= Made'
  BY <1>1, MadeType DEF IInv, Made
<1> QED BY <1>1, <1>2, <1>3, NoProcessSteps

(* A line of one command has nothing that could feed it. *)
LEMMA SingleAlone ==
  ASSUME IInv, pc = "launch", ~Piped
  PROVE  /\ seg = 1 /\ Last /\ Len(line.segs) = 1 /\ prevFd = None /\ pipeFd = None /\ job = {}
         /\ held[Shell] = {}
<1>1. Len(line.segs) \in 1..Longest /\ seg \in 1..Len(line.segs) /\ Longest \in Nat
  BY InLine, LongestIs DEF IInv, MaxSegments
<1>2. Len(line.segs) = 1 /\ seg = 1
  <2>1. ~ (Len(line.segs) > 1)
    BY DEF Piped
  <2>2. PICK n \in Nat : n = Len(line.segs) /\ n >= 1
    BY LengthOf DEF IInv, Position
  <2>3. ~ (n > 1)
    BY <2>1, <2>2, Zenon
  <2>4. n = 1
    BY <2>2, <2>3, One, Zenon
  <2> QED BY <1>1, <2>2, <2>4
<1>3. prevFd = None /\ pipeFd = None /\ job = {}
  BY <1>2 DEF IInv, Position
<1> QED BY <1>2, <1>3 DEF IInv, ShellEnds, Last, ReadEnd, WriteEnd

(* A builtin, or a program that is not there. *)
LEMMA BuiltinInv == IInv /\ Builtin => IInv'
<1> SUFFICES ASSUME IInv, Builtin PROVE IInv'
  OBVIOUS
<1>1. /\ pc = "launch" /\ ~Piped /\ pc' \in {"prompt", "gone"} /\ ret' \in Outcomes
      /\ UNCHANGED <<shellVars, pid, status, waited, proc, held, data, job>>
  BY DEF Builtin, Return, Outcomes, IInv, ShTypeOK
<1>2. ShTypeOK'
  BY <1>1 DEF IInv, ShTypeOK, shellVars
<1>3. held[Shell] = {}
  BY <1>1, SingleAlone
<1>4. Position' /\ ShellEnds' /\ ChildEnds' /\ Numbered'
  BY <1>1, <1>3, LeaveLoop DEF shellVars
<1>5. Waits'
  BY <1>1 DEF IInv, Waits, Piped, shellVars
<1> QED BY <1>2, <1>4, <1>5 DEF IInv

(* "command not found" in the middle of a pipeline. *)
LEMMA NotFoundInv == IInv /\ PipelineNotFound => IInv'
<1> SUFFICES ASSUME IInv, PipelineNotFound PROVE IInv'
  OBVIOUS
<1>1. /\ pc = "launch" /\ Piped /\ pc' = "prompt" /\ ret' = 127
      /\ held' = [held EXCEPT ![Shell] = @ \ ReadEnd(prevFd)]
      /\ UNCHANGED <<shellVars, pid, status, waited, proc, data, job>>
  BY DEF PipelineNotFound, Return
<1>2. held \in [Pids \cup {Shell} -> SUBSET Ends] /\ Shell \notin Pids
  BY PidsAre DEF IInv, ShTypeOK
<1>3. held' \in [Pids \cup {Shell} -> SUBSET Ends] /\ \A p \in Pids : held'[p] = held[p]
  BY <1>1, <1>2
<1>4. held'[Shell] = {}
  <2>1. held[Shell] = ReadEnd(prevFd)
    BY <1>1 DEF IInv, ShellEnds, Position, ReadEnd, WriteEnd
  <2> QED BY <1>1, <1>2, <2>1
<1>5. ShTypeOK'
  BY <1>1, <1>3 DEF IInv, ShTypeOK, shellVars, Outcomes
<1>6. Position' /\ ShellEnds' /\ ChildEnds' /\ Numbered'
  BY <1>1, <1>3, <1>4, LeaveLoop DEF shellVars
<1>7. Waits'
  BY <1>1 DEF IInv, Waits, Piped, shellVars
<1> QED BY <1>5, <1>6, <1>7 DEF IInv

(* What the shell holds with the pipe for this segment, and that the pipe  *)
(* is a new one or none, the latter for the last segment.                  *)
LEMMA PipeMade ==
  ASSUME IInv, MakePipe, held'[Shell] = WithPipe, UNCHANGED <<line, entered, seg, prevFd>>
  PROVE  /\ pc = "launch"
         /\ pipeFd' \in {None, FreshPipe} /\ (Last => pipeFd' = None)
         /\ pipeFd' \in Pipes \cup {None} /\ WithPipe \in SUBSET Ends
         /\ WithPipe = ReadEnd(prevFd) \cup ReadEnd(pipeFd') \cup WriteEnd(pipeFd')
         /\ (~Piped => WithPipe = {})
<1>1. pc = "launch" /\ pipeFd' \in {None, FreshPipe} /\ (Last => pipeFd' = None)
  BY DEF MakePipe
<1>2. pipeFd' \in Pipes \cup {None}
  BY <1>1, InLine DEF IInv
<1>3. held[Shell] = ReadEnd(prevFd)
  BY <1>1 DEF IInv, ShellEnds, Position, ReadEnd, WriteEnd
<1>4. WithPipe = ReadEnd(prevFd) \cup ReadEnd(pipeFd') \cup WriteEnd(pipeFd')
  BY <1>3 DEF WithPipe
<1>5. WithPipe \in SUBSET Ends
  BY <1>2, <1>4, EndsType DEF IInv, ShTypeOK
<1>6. ~Piped => WithPipe = {}
  BY <1>1, <1>4, SingleAlone DEF ReadEnd, WriteEnd
<1> QED BY <1>1, <1>2, <1>4, <1>5, <1>6

(* After fork, whether it gave a process or not: where the shell is.       *)
LEMMA AfterFork ==
  ASSUME IInv, MakePipe, held'[Shell] = WithPipe, UNCHANGED <<line, entered, seg, prevFd, waited>>,
         pc' = (IF Piped THEN "close" ELSE "wait"), pid' \in Pids \cup {FailedFork},
         job' \subseteq job \cup {pid'}
  PROVE  Position' /\ ShellEnds' /\ Waits' /\ Made' \in Nat /\ FreshPipe <= Made'
<1>1. /\ pc = "launch" /\ pipeFd' \in {None, FreshPipe} /\ (Last => pipeFd' = None)
      /\ WithPipe = ReadEnd(prevFd) \cup ReadEnd(pipeFd') \cup WriteEnd(pipeFd')
      /\ (~Piped => WithPipe = {})
  BY PipeMade
<1>2. /\ line \in Lines /\ entered \in 1..MaxLines /\ seg \in 1..Len(line.segs)
      /\ prevFd < FreshPipe /\ FreshPipe \in Nat /\ entered * Longest \in Nat
      /\ FreshPipe <= entered * Longest
  BY <1>1, InLine DEF IInv, Position
<1>3. FreshPipe' = FreshPipe /\ Piped' = Piped /\ Last' = Last
  BY DEF FreshPipe, Piped, Last
<1>4. Position'
  BY <1>1, <1>2, <1>3 DEF Position
<1>5. ShellEnds'
  BY <1>1 DEF ShellEnds
<1>6. Waits'
  <2>1. waited' = None
    BY <1>1 DEF IInv, Waits
  <2>2. ~Piped => job = {}
    BY <1>1, SingleAlone
  <2> QED BY <1>3, <2>1, <2>2 DEF Waits
<1>7. Made' \in Nat /\ FreshPipe <= Made'
  BY <1>2, <1>3 DEF Made
<1> QED BY <1>4, <1>5, <1>6, <1>7

(* fork: the new process is the only one that changes, and the only one    *)
(* that writes to the new pipe.                                            *)
LEMMA ForkInv == IInv /\ Fork => IInv'
<1> SUFFICES ASSUME IInv, Fork PROVE IInv'
  OBVIOUS
<1> DEFINE new == FreshPid
           r == Started(Program, prevFd, pipeFd')
<1>1. /\ MakePipe /\ pid' = new /\ proc' = [proc EXCEPT ![new] = r]
      /\ held' = [held EXCEPT ![new] = WithPipe, ![Shell] = WithPipe]
      /\ job' = job \cup {new} /\ pc' = (IF Piped THEN "close" ELSE "wait")
      /\ UNCHANGED <<line, entered, seg, prevFd, waitVars, data>>
  BY DEF Fork, Started
<1>2. pc = "launch"
  BY <1>1 DEF MakePipe
<1>3. /\ new \in Pids /\ new # None /\ new <= FreshPipe /\ proc[new].state = "none"
      /\ \A q \in 1..(new - 1) : proc[q].state # "none"
  BY <1>2, NextPid
<1> HIDE DEF new
<1>4. ShTypeOK /\ Shell \notin Pids /\ prevFd \in Pipes \cup {None}
  BY PidsAre DEF IInv, ShTypeOK
<1>5. held'[Shell] = WithPipe /\ held'[new] = WithPipe /\ \A q \in Pids : q # new => held'[q] = held[q]
  BY <1>1, <1>3, <1>4 DEF ShTypeOK
<1>6. /\ pipeFd' \in {None, FreshPipe} /\ pipeFd' \in Pipes \cup {None} /\ WithPipe \in SUBSET Ends
      /\ WithPipe = ReadEnd(prevFd) \cup ReadEnd(pipeFd') \cup WriteEnd(pipeFd')
  BY <1>1, <1>5, PipeMade
<1>7. r \in Process /\ r.state = "forked" /\ r.in = prevFd /\ r.out = pipeFd'
  <2>1. Program \in Programs
    BY <1>2, InLine DEF IInv
  <2> QED BY <1>4, <1>6, <2>1, NewRecord
<1> HIDE DEF r
<1>8. /\ proc' \in [Pids -> Process] /\ proc'[new] = r
      /\ \A q \in Pids : q # new => proc'[q] = proc[q]
  BY <1>1, <1>3, <1>4, <1>7 DEF ShTypeOK
<1>9. held' \in [Pids \cup {Shell} -> SUBSET Ends]
  BY <1>1, <1>4, <1>6 DEF ShTypeOK
<1>10. pc' \in {"close", "wait"}
  BY <1>1
<1>11. ShTypeOK'
  BY <1>1, <1>3, <1>4, <1>6, <1>8, <1>9, <1>10 DEF ShTypeOK, waitVars
<1>12. Position' /\ ShellEnds' /\ Waits' /\ Made' \in Nat /\ FreshPipe <= Made'
  BY <1>1, <1>3, <1>5, AfterFork DEF waitVars
<1>13. ChildEnds'
  <2> SUFFICES ASSUME NEW q \in Pids
               PROVE  held'[q] = CASE proc'[q].state = "running" -> ReadEnd(proc'[q].in) \cup WriteEnd(proc'[q].out)
                                   [] proc'[q].state = "forked" ->
                                        ReadEnd(proc'[q].in) \cup ReadEnd(proc'[q].out) \cup WriteEnd(proc'[q].out)
                                   [] OTHER -> {}
    BY DEF ChildEnds
  <2>1. CASE q = new
    BY <1>5, <1>6, <1>7, <1>8, <2>1
  <2>2. CASE q # new
    BY <1>5, <1>8, <2>2 DEF IInv, ChildEnds
  <2> QED BY <2>1, <2>2
<1>14. Numbered'
  <2>1. Made = FreshPipe - 1 /\ FreshPipe \in Nat /\ Made < FreshPipe
    BY <1>2, InLine DEF IInv, Made
  <2>2. \A q \in Pids : q \in Nat /\ proc[q].out \in Nat
    BY <1>4, PidsAre DEF ShTypeOK, Process, Pipes, Pids, None
  <2> SUFFICES ASSUME NEW p \in Pids
               PROVE  /\ proc'[p].state # "none" =>
                           p <= Made' /\ \A q \in 1..(p - 1) : proc'[q].state # "none"
                      /\ proc'[p].out <= Made'
                      /\ \A q \in Pids : p # q /\ proc'[p].out = proc'[q].out => proc'[p].out = None
    BY DEF Numbered
  <2>3. \A q \in 1..(p - 1) : q \in Pids
    BY PidsAre
  <2>4. \A q \in Pids : proc[q].state # "none" => proc'[q].state # "none"
    BY <1>7, <1>8
  <2>5. \A q \in Pids : proc[q].out <= Made /\ proc[q].out < FreshPipe
    BY <2>1, <2>2 DEF IInv, Numbered
  <2>6. CASE p = new
    <3>1. p <= Made' /\ \A q \in 1..(p - 1) : proc'[q].state # "none"
      BY <1>3, <1>12, <2>1, <2>2, <2>3, <2>4, <2>6
    <3>2. proc'[p].out = pipeFd' /\ proc'[p].out <= Made'
      BY <1>6, <1>7, <1>8, <1>12, <2>1, <2>6 DEF None
    <3>3. \A q \in Pids : p # q /\ proc'[p].out = proc'[q].out => proc'[p].out = None
      BY <1>6, <1>8, <2>1, <2>2, <2>5, <2>6, <3>2
    <3> QED BY <3>1, <3>2, <3>3
  <2>7. CASE p # new
    <3>1. proc'[p] = proc[p]
      BY <1>8, <2>7
    <3>2. proc[p].state # "none" => p <= Made' /\ \A q \in 1..(p - 1) : proc'[q].state # "none"
      BY <1>12, <2>1, <2>2, <2>3, <2>4 DEF IInv, Numbered
    <3>3. proc[p].out <= Made'
      BY <1>12, <2>1, <2>2, <2>5
    <3>4. ASSUME NEW q \in Pids, p # q, proc'[p].out = proc'[q].out PROVE proc'[p].out = None
      <4>1. CASE q = new
        BY <1>6, <1>7, <1>8, <2>1, <2>2, <2>5, <3>1, <3>4, <4>1
      <4>2. CASE q # new
        BY <1>8, <3>1, <3>4, <4>2 DEF IInv, Numbered
      <4> QED BY <4>1, <4>2
    <3> QED BY <3>1, <3>2, <3>3, <3>4
  <2> QED BY <2>6, <2>7
<1> QED BY <1>11, <1>12, <1>13, <1>14 DEF IInv

(* fork fails: execute_cmd returns, the others go on without a process.    *)
LEMMA ForkFailsInv == IInv /\ ForkFails => IInv'
<1> SUFFICES ASSUME IInv, ForkFails PROVE IInv'
  OBVIOUS
<1>1. /\ MakePipe /\ pid' = FailedFork /\ held' = [held EXCEPT ![Shell] = WithPipe]
      /\ IF Piped \/ line.redirect
         THEN pc' = (IF Piped THEN "close" ELSE "wait") /\ UNCHANGED ret
         ELSE pc' = "prompt" /\ ret' = 1
      /\ UNCHANGED <<line, entered, seg, prevFd, status, waited, proc, data, job>>
  BY DEF ForkFails, Return
<1>2. ShTypeOK /\ Shell \notin Pids
  BY PidsAre DEF IInv
<1>3. held'[Shell] = WithPipe /\ \A q \in Pids : held'[q] = held[q]
  BY <1>1, <1>2 DEF ShTypeOK
<1>4. /\ pc = "launch" /\ pipeFd' \in Pipes \cup {None} /\ WithPipe \in SUBSET Ends
      /\ (~Piped => WithPipe = {})
  BY <1>1, <1>3, PipeMade
<1>5. held' \in [Pids \cup {Shell} -> SUBSET Ends]
  BY <1>1, <1>2, <1>4 DEF ShTypeOK
<1>6. pc' \in {"close", "wait", "prompt"} /\ ret' \in Outcomes
  BY <1>1, <1>2 DEF ShTypeOK, Outcomes
<1>7. ShTypeOK'
  BY <1>1, <1>2, <1>4, <1>5, <1>6 DEF ShTypeOK
<1>8. CASE Piped \/ line.redirect
  <2>1. Position' /\ ShellEnds' /\ Waits' /\ Made' \in Nat /\ FreshPipe <= Made'
    BY <1>1, <1>3, <1>8, AfterFork
  <2>2. Made \in Nat /\ Made <= Made'
    BY <1>4, <2>1, InLine DEF IInv, Made
  <2>3. ChildEnds' /\ Numbered'
    BY <1>1, <1>3, <2>1, <2>2, NoProcessSteps
  <2> QED BY <1>7, <2>1, <2>3 DEF IInv
<1>9. CASE ~ (Piped \/ line.redirect)
  <2>1. Position' /\ ShellEnds' /\ ChildEnds' /\ Numbered'
    BY <1>1, <1>3, <1>4, <1>9, LeaveLoop
  <2>2. Waits'
    BY <1>1, <1>4, <1>9 DEF IInv, Waits, Piped
  <2> QED BY <1>7, <2>1, <2>2 DEF IInv
<1> QED BY <1>8, <1>9

(* The parent closes what the next segment does not need, and goes on to   *)
(* that segment, or to waiting.                                            *)
LEMMA CloseEndsInv == IInv /\ CloseEnds => IInv'
<1> SUFFICES ASSUME IInv, CloseEnds PROVE IInv'
  OBVIOUS
<1>1. /\ pc = "close"
      /\ held' = [held EXCEPT ![Shell] = @ \ (ReadEnd(prevFd) \cup WriteEnd(pipeFd))]
      /\ prevFd' = pipeFd /\ pipeFd' = None
      /\ IF Last THEN pc' = "wait" /\ UNCHANGED seg
                 ELSE pc' = "launch" /\ seg' = seg + 1
      /\ UNCHANGED <<line, entered, pid, waitVars, proc, data, job>>
  BY DEF CloseEnds
<1>2. ShTypeOK /\ Position /\ ShellEnds /\ Waits /\ Shell \notin Pids
  BY PidsAre DEF IInv
<1>3. /\ line \in Lines /\ entered \in 1..MaxLines /\ Longest \in Nat
      /\ seg \in 1..Len(line.segs) /\ seg \in Nat
      /\ FreshPipe \in Nat /\ FreshPipe <= entered * Longest /\ entered * Longest \in Nat
  BY <1>1, <1>2, InLine, LongestIs DEF MaxSegments
<1>4. /\ Piped /\ prevFd < FreshPipe /\ prevFd \in Nat
      /\ pipeFd \in {None, FreshPipe} /\ (Last => pipeFd = None)
  BY <1>1, <1>2 DEF Position, ShTypeOK, Pipes, None
<1>5. pc' \in {"wait", "launch"} /\ Made \in Nat /\ Made = FreshPipe
  BY <1>1, <1>3 DEF Made
<1>6. held'[Shell] = ReadEnd(pipeFd) /\ \A p \in Pids : held'[p] = held[p]
  <2>1. held[Shell] = ReadEnd(prevFd) \cup ReadEnd(pipeFd) \cup WriteEnd(pipeFd)
    BY <1>1, <1>2 DEF ShellEnds
  <2>2. prevFd # pipeFd \/ prevFd = None
    BY <1>3, <1>4
  <2> QED BY <1>1, <1>2, <2>1, <2>2, EndsApart DEF ShTypeOK
<1>7. held' \in [Pids \cup {Shell} -> SUBSET Ends]
  BY <1>1, <1>2 DEF ShTypeOK
<1>8. seg' \in Nat \ {0}
  BY <1>1, <1>2, <1>3 DEF ShTypeOK
<1>9. ShTypeOK'
  BY <1>1, <1>2, <1>5, <1>7, <1>8 DEF ShTypeOK, waitVars, None
<1>10. Waits'
  BY <1>1, <1>2, <1>4 DEF Waits, waitVars, Piped
<1>11. CASE Last
  <2>1. pc' = "wait" /\ pipeFd = None
    BY <1>1, <1>4, <1>11
  <2>2. Position' /\ ShellEnds'
    BY <1>1, <1>3, <1>6, <2>1 DEF Position, ShellEnds, ReadEnd
  <2>3. Made' = entered * Longest
    BY <1>1, <2>1 DEF Made
  <2>4. ChildEnds' /\ Numbered'
    BY <1>1, <1>3, <1>5, <1>6, <2>3, NoProcessSteps
  <2> QED BY <1>9, <1>10, <2>2, <2>4 DEF IInv
<1>12. CASE ~Last
  <2>1. pc' = "launch" /\ seg' = seg + 1
    BY <1>1, <1>12
  <2>2. FreshPipe' = FreshPipe + 1
    <3> DEFINE before == (entered - 1) * Longest
    <3>1. before \in Int
      BY <1>3
    <3> HIDE DEF before
    <3>2. before + (seg + 1) = (before + seg) + 1
      BY <1>3, <3>1
    <3> QED BY <1>1, <2>1, <3>2 DEF FreshPipe, before
  <2>3. seg' \in 1..Len(line.segs) /\ seg' # 1
    <3>1. Len(line.segs) \in Nat
      BY <1>3, LengthOf
    <3> QED BY <1>3, <1>12, <2>1, <3>1 DEF Last
  <2>4. prevFd' < FreshPipe'
    BY <1>1, <1>3, <1>4, <2>2 DEF None
  <2>5. Position'
    BY <1>1, <1>3, <2>1, <2>3, <2>4 DEF Position
  <2>6. ShellEnds'
    BY <1>1, <1>6, <2>1 DEF ShellEnds, ReadEnd, WriteEnd
  <2>7. Made' = FreshPipe
    BY <1>3, <2>1, <2>2 DEF Made
  <2>8. ChildEnds' /\ Numbered'
    <3>1. Made' \in Nat /\ Made <= Made'
      BY <1>3, <1>5, <2>7
    <3> QED BY <1>1, <1>5, <1>6, <3>1, NoProcessSteps
  <2> QED BY <1>9, <1>10, <2>5, <2>6, <2>8 DEF IInv
<1> QED BY <1>11, <1>12

(* What the shell does while it waits leaves everything but processes,     *)
(* status and its place alone.                                             *)
LEMMA WaitingStays ==
  ASSUME IInv, pc \in {"wait", "reap", "answer"}, pc' \in {"wait", "reap", "answer", "prompt"},
         pc' = "reap" => Piped, UNCHANGED <<shellVars, held>>
  PROVE  Position' /\ ShellEnds' /\ Made' = Made /\ Made \in Nat /\ Piped' = Piped
<1>1. Position' /\ Piped' = Piped
  BY DEF IInv, Position, Piped, shellVars
<1>2. ShellEnds'
  BY DEF IInv, ShellEnds, shellVars
<1>3. Made' = Made /\ Made \in Nat
  BY MadeType DEF IInv, Made, shellVars
<1> QED BY <1>1, <1>2, <1>3

(* wait4(pid): the child itself, or behind a failed fork nobody.           *)
LEMMA WaitPidInv == IInv /\ WaitPid => IInv'
<1> SUFFICES ASSUME IInv, WaitPid PROVE IInv'
  OBVIOUS
<1>1. /\ pc = "wait" /\ pc' = (IF Piped THEN "reap" ELSE "answer")
      /\ UNCHANGED <<shellVars, pid, ret, held, data, job>>
  BY DEF WaitPid
<1>2. ShTypeOK /\ Waits
  BY DEF IInv
<1>3. Position' /\ ShellEnds' /\ Made' = Made /\ Made \in Nat /\ Piped' = Piped
  BY <1>1, WaitingStays
<1>4. ~Piped => job \subseteq {pid}
  BY <1>1, <1>2 DEF Waits
<1>5. CASE \E p \in Waitable(pid) : Reap(p)
  <2>1. PICK p \in Pids : Zombie(p) /\ Reap(p) /\ pid \in {Anyone, p}
    BY <1>5 DEF Waitable
  <2>0. pid = p
    <3>1. pid \in Pids \cup {None, FailedFork} /\ Pids \subseteq Nat /\ None \notin Pids
      BY <1>2, PidsAre DEF ShTypeOK
    <3> QED BY <2>1, <3>1 DEF Anyone, None, FailedFork
  <2>2. /\ proc' \in [Pids -> Process] /\ status' \in Outcomes /\ waited' = p
        /\ ChildEnds' /\ Numbered' /\ Children' = Children \ {p}
    BY <1>1, <1>3, <2>1, ReapSteps
  <2>3. ShTypeOK'
    BY <1>1, <1>2, <2>2 DEF ShTypeOK, shellVars
  <2>4. ~Piped => job' \cap Children' = {}
    BY <1>1, <1>4, <2>0, <2>2
  <2>5. Waits'
    BY <1>1, <1>3, <2>0, <2>2, <2>4 DEF Waits
  <2> QED BY <1>3, <2>2, <2>3, <2>5 DEF IInv
<1>6. CASE NobodyToWait(pid) /\ UNCHANGED <<proc, status, waited>>
  <2>1. pid \notin Children
    BY <1>6 DEF NobodyToWait
  <2>2. ChildEnds' /\ Numbered' /\ Children' = Children
    BY <1>1, <1>3, <1>6, NoProcessSteps
  <2>3. ShTypeOK'
    BY <1>1, <1>2, <1>6 DEF ShTypeOK, shellVars
  <2>4. ~Piped => job \cap Children = {}
    BY <1>4, <2>1
  <2>5. Waits'
    BY <1>1, <1>2, <1>3, <1>6, <2>4, <2>2 DEF Waits, shellVars
  <2> QED BY <1>3, <2>2, <2>3, <2>5 DEF IInv
<1> QED BY <1>5, <1>6 DEF WaitPid

(* while (wait4(-1) > 0): the loop ends when nobody is left.               *)
LEMMA ReapRestInv == IInv /\ ReapRest => IInv'
<1> SUFFICES ASSUME IInv, ReapRest PROVE IInv'
  OBVIOUS
<1>1. pc = "reap" /\ UNCHANGED <<shellVars, pid, ret, held, data, job>>
  BY DEF ReapRest
<1>2. ShTypeOK /\ Waits /\ Piped
  BY <1>1 DEF IInv, Position
<1>3. CASE \E p \in Waitable(Anyone) : Reap(p) /\ UNCHANGED pc
  <2>1. PICK p \in Pids : Zombie(p) /\ Reap(p) /\ UNCHANGED pc
    BY <1>3 DEF Waitable
  <2>2. Position' /\ ShellEnds' /\ Made' = Made /\ Piped' = Piped
    BY <1>1, <1>2, <2>1, WaitingStays
  <2>3. /\ proc' \in [Pids -> Process] /\ status' \in Outcomes /\ waited' = p
        /\ ChildEnds' /\ Numbered'
    BY <1>1, <2>1, <2>2, ReapSteps
  <2>4. ShTypeOK'
    BY <1>1, <1>2, <2>1, <2>3 DEF ShTypeOK, shellVars
  <2>5. Waits'
    BY <1>1, <1>2, <2>1, <2>2 DEF Waits
  <2> QED BY <2>2, <2>3, <2>4, <2>5 DEF IInv
<1>4. CASE NobodyToWait(Anyone) /\ pc' = "answer" /\ UNCHANGED <<proc, status, waited>>
  <2>1. Children = {}
    BY <1>4 DEF NobodyToWait
  <2>2. Position' /\ ShellEnds' /\ Made' = Made /\ Made \in Nat /\ Piped' = Piped
    BY <1>1, <1>4, WaitingStays
  <2>3. ChildEnds' /\ Numbered' /\ Children' = Children
    BY <1>1, <1>4, <2>2, NoProcessSteps
  <2>4. ShTypeOK'
    BY <1>1, <1>2, <1>4 DEF ShTypeOK, shellVars
  <2>5. Waits'
    BY <1>1, <1>2, <1>4, <2>1, <2>2, <2>3 DEF Waits
  <2> QED BY <2>2, <2>3, <2>4, <2>5 DEF IInv
<1> QED BY <1>3, <1>4 DEF ReapRest

(* The status becomes the value of the line. *)
LEMMA AnswerInv == IInv /\ Answer => IInv'
<1> SUFFICES ASSUME IInv, Answer PROVE IInv'
  OBVIOUS
<1>1. /\ pc = "answer" /\ pc' = "prompt" /\ ret' = ExitCode(status)
      /\ UNCHANGED <<shellVars, pid, status, waited, proc, held, data, job>>
  BY DEF Answer, Return
<1>2. ShTypeOK /\ Waits
  BY DEF IInv
<1>3. Position' /\ ShellEnds' /\ Made' = Made /\ Made \in Nat /\ Piped' = Piped
  BY <1>1, WaitingStays
<1>4. ChildEnds' /\ Numbered'
  BY <1>1, <1>3, NoProcessSteps
<1>5. ret' \in Outcomes
  BY <1>1, <1>2 DEF ShTypeOK, ExitCode, Outcomes
<1>6. ShTypeOK'
  BY <1>1, <1>2, <1>5 DEF ShTypeOK, shellVars
<1>7. Waits'
  BY <1>1, <1>2, <1>3 DEF Waits
<1> QED BY <1>3, <1>4, <1>6, <1>7 DEF IInv

(* The steps a process takes, seen from outside: it changes no process but *)
(* itself, and itself from forked to running, or to ended with every end   *)
(* it had closed.                                                          *)
Runs(p) ==
  /\ proc[p].state = "forked" /\ proc' = [proc EXCEPT ![p].state = "running"]
  /\ held' = [held EXCEPT ![p] = ReadEnd(proc[p].in) \cup WriteEnd(proc[p].out)]
Hands(p, h) ==
  /\ proc[p].state = "running" /\ proc' = [proc EXCEPT ![p].hand = h] /\ UNCHANGED held

(* Every step of a process is of one of these kinds. *)
LEMMA ProcStepKinds ==
  ASSUME ShTypeOK, NEW p \in Pids, ProcStep(p)
  PROVE  /\ Alive(p) /\ data' \in [Pipes -> 0..PipeCap]
         /\ UNCHANGED <<pc, shellVars, pid, waitVars, job>>
         /\ Runs(p) \/ (\E h \in {0, 1} : Hands(p, h)) \/ (\E code \in Outcomes : Die(p, code))
<1>1. data \in [Pipes -> 0..PipeCap] /\ PipeCap \in Nat /\ proc[p] \in Process
  BY BoundsAssumption DEF ShTypeOK
<1>2. UNCHANGED <<pc, shellVars, pid, waitVars, job>>
  BY DEF ProcStep
<1>3. CASE ChildExec(p)
  BY <1>1, <1>2, <1>3 DEF ChildExec, Runs, Alive
<1>4. CASE ChildFails(p)
  <2>1. proc[p].state = "forked" /\ \E code \in Outcomes : Die(p, code)
    BY <1>4 DEF ChildFails, Outcomes
  <2> QED BY <1>1, <1>2, <2>1 DEF Die, Alive
<1>5. CASE Finish(p)
  <2>1. proc[p].state = "running" /\ \E code \in Outcomes : Die(p, code)
    BY <1>5 DEF Finish, Running, Outcomes
  <2> QED BY <1>1, <1>2, <2>1 DEF Die, Alive
<1>6. CASE Write(p)
  <2> DEFINE k == proc[p].out
  <2>1. proc[p].state = "running"
    BY <1>6 DEF Write, Running
  <2>2. CASE k = None /\ proc' = [proc EXCEPT ![p].hand = 0] /\ UNCHANGED <<held, data>>
    BY <1>1, <1>2, <2>1, <2>2 DEF Hands, Alive
  <2>3. CASE k # None /\ Readers(k) = {} /\ Die(p, Killed)
    BY <1>1, <1>2, <2>1, <2>3 DEF Die, Alive, Outcomes
  <2>4. CASE /\ k # None /\ data[k] < PipeCap /\ data' = [data EXCEPT ![k] = @ + 1]
             /\ proc' = [proc EXCEPT ![p].hand = 0] /\ UNCHANGED held
    <3>1. k \in Pipes
      BY <1>1, <2>4 DEF Process
    <3>2. data[k] + 1 \in 0..PipeCap
      BY <1>1, <2>4, <3>1
    <3>3. data' \in [Pipes -> 0..PipeCap]
      BY <1>1, <2>4, <3>1, <3>2
    <3> QED BY <1>2, <2>1, <2>4, <3>3 DEF Hands, Alive
  <2> QED BY <1>6, <2>2, <2>3, <2>4 DEF Write
<1>7. CASE Read(p)
  <2> DEFINE k == proc[p].in
  <2>1. proc[p].state = "running"
    BY <1>7 DEF Read, Running
  <2>2. CASE EndOfInput(k) /\ Die(p, 0)
    BY <1>1, <1>2, <2>1, <2>2 DEF Die, Alive, Outcomes
  <2>3. CASE /\ k # None /\ data[k] > 0 /\ data' = [data EXCEPT ![k] = @ - 1]
             /\ proc' = [proc EXCEPT ![p].hand = 1] /\ UNCHANGED held
    <3>1. k \in Pipes
      BY <1>1, <2>3 DEF Process
    <3>2. data[k] - 1 \in 0..PipeCap
      BY <1>1, <2>3, <3>1
    <3>3. data' \in [Pipes -> 0..PipeCap]
      BY <1>1, <2>3, <3>1, <3>2
    <3> QED BY <1>2, <2>1, <2>3, <3>3 DEF Hands, Alive
  <2> QED BY <1>7, <2>2, <2>3 DEF Read
<1> QED BY <1>3, <1>4, <1>5, <1>6, <1>7 DEF ProcStep

(* The three leave it a process with a pid and at most the pipe it had,    *)
(* and ends that are right for where it is.                                *)
LEMMA ProcStepEffect ==
  ASSUME IInv, NEW p \in Pids, ProcStep(p)
  PROVE  /\ proc' \in [Pids -> Process] /\ held' \in [Pids \cup {Shell} -> SUBSET Ends]
         /\ held'[Shell] = held[Shell]
         /\ \A q \in Pids : q # p => proc'[q] = proc[q] /\ held'[q] = held[q]
         /\ proc[p].state \in {"forked", "running"} /\ proc'[p].state \in {"running", "zombie"}
         /\ proc'[p].out \in {proc[p].out, None}
         /\ held'[p] = IF proc'[p].state = "running"
                       THEN ReadEnd(proc'[p].in) \cup WriteEnd(proc'[p].out) ELSE {}
<1>1. /\ proc \in [Pids -> Process] /\ held \in [Pids \cup {Shell} -> SUBSET Ends]
      /\ Shell \notin Pids /\ ShTypeOK /\ proc[p] \in Process
  BY PidsAre DEF IInv, ShTypeOK
<1>2. proc[p].in \in Pipes \cup {None} /\ proc[p].out \in Pipes \cup {None}
  BY <1>1 DEF Process
<1>3. CASE Runs(p)
  <2> DEFINE r == [proc[p] EXCEPT !.state = "running"]
  <2>1. r \in Process /\ r.state = "running" /\ r.in = proc[p].in /\ r.out = proc[p].out
    BY <1>1 DEF Process
  <2>2. proc' = [proc EXCEPT ![p] = r]
    BY <1>1, <1>3 DEF Runs
  <2> HIDE DEF r
  <2>3. ReadEnd(proc[p].in) \cup WriteEnd(proc[p].out) \in SUBSET Ends
    BY <1>2, EndsType
  <2> QED BY <1>1, <1>3, <2>1, <2>2, <2>3 DEF Runs
<1>4. CASE \E h \in {0, 1} : Hands(p, h)
  <2>1. PICK h \in {0, 1} : Hands(p, h)
    BY <1>4
  <2> DEFINE r == [proc[p] EXCEPT !.hand = h]
  <2>2. r \in Process /\ r.state = "running" /\ r.in = proc[p].in /\ r.out = proc[p].out
    BY <1>1, <2>1 DEF Process, Hands
  <2>3. proc' = [proc EXCEPT ![p] = r] /\ held' = held /\ proc[p].state = "running"
    BY <1>1, <2>1 DEF Hands
  <2> HIDE DEF r
  <2>4. held[p] = ReadEnd(proc[p].in) \cup WriteEnd(proc[p].out)
    BY <2>3 DEF IInv, ChildEnds
  <2> QED BY <1>1, <2>2, <2>3, <2>4
<1>5. CASE \E code \in Outcomes : Die(p, code)
  <2>1. PICK code \in Outcomes : Die(p, code)
    BY <1>5
  <2> DEFINE r == [NoProc EXCEPT !.state = "zombie", !.code = code]
  <2>2. r \in Process /\ r.state = "zombie" /\ r.out = None
    BY ZombieRecord
  <2>3. proc' = [proc EXCEPT ![p] = r] /\ held' = [held EXCEPT ![p] = {}]
    BY <2>1 DEF Die
  <2> HIDE DEF r
  <2>4. proc[p].state \in {"forked", "running"}
    BY <1>1, ProcStepKinds DEF Alive
  <2> QED BY <1>1, <2>2, <2>3, <2>4
<1> QED BY <1>1, <1>3, <1>4, <1>5, ProcStepKinds

(* A step of a process leaves the shell alone. *)
LEMMA ProcStepInv ==
  ASSUME IInv, NEW p \in Pids, ProcStep(p)
  PROVE  IInv' /\ Children' = Children
<1>1. /\ ShTypeOK /\ data' \in [Pipes -> 0..PipeCap]
      /\ UNCHANGED <<pc, shellVars, pid, waitVars, job>>
  BY ProcStepKinds DEF IInv
<1>2. /\ proc' \in [Pids -> Process] /\ held' \in [Pids \cup {Shell} -> SUBSET Ends]
      /\ held'[Shell] = held[Shell]
      /\ \A q \in Pids : q # p => proc'[q] = proc[q] /\ held'[q] = held[q]
      /\ proc[p].state \in {"forked", "running"} /\ proc'[p].state \in {"running", "zombie"}
      /\ proc'[p].out \in {proc[p].out, None}
      /\ held'[p] = IF proc'[p].state = "running"
                    THEN ReadEnd(proc'[p].in) \cup WriteEnd(proc'[p].out) ELSE {}
  BY ProcStepEffect
<1>3. ShTypeOK'
  BY <1>1, <1>2 DEF ShTypeOK, shellVars, waitVars
<1>4. Position' /\ ShellEnds' /\ Made' = Made /\ Made \in Nat
  <2>1. FreshPipe' = FreshPipe /\ Piped' = Piped /\ Last' = Last
    BY <1>1 DEF FreshPipe, Piped, Last, shellVars
  <2>2. Position'
    BY <1>1, <2>1 DEF IInv, Position, shellVars
  <2>3. ShellEnds'
    BY <1>1, <1>2 DEF IInv, ShellEnds, shellVars
  <2>4. Made' = Made /\ Made \in Nat
    BY <1>1, <2>1, MadeType DEF IInv, Made, shellVars
  <2> QED BY <2>2, <2>3, <2>4
<1>5. Children' = Children
  <2>1. \A q \in Pids : (Alive(q) \/ Zombie(q))' <=> Alive(q) \/ Zombie(q)
    BY <1>2 DEF Alive, Zombie
  <2> QED BY <2>1 DEF Children
<1>6. ChildEnds'
  <2> SUFFICES ASSUME NEW q \in Pids
               PROVE  held'[q] = CASE proc'[q].state = "running" -> ReadEnd(proc'[q].in) \cup WriteEnd(proc'[q].out)
                                   [] proc'[q].state = "forked" ->
                                        ReadEnd(proc'[q].in) \cup ReadEnd(proc'[q].out) \cup WriteEnd(proc'[q].out)
                                   [] OTHER -> {}
    BY DEF ChildEnds
  <2>1. CASE q = p
    BY <1>2, <2>1
  <2>2. CASE q # p
    BY <1>2, <2>2 DEF IInv, ChildEnds
  <2> QED BY <2>1, <2>2
<1>7. Numbered'
  <2>1. \A q \in Pids : (proc'[q].state # "none" <=> proc[q].state # "none")
                        /\ (proc'[q].out = proc[q].out \/ proc'[q].out = None)
    BY <1>2
  <2> SUFFICES ASSUME NEW q \in Pids
               PROVE  /\ proc'[q].state # "none" =>
                           q <= Made /\ \A i \in 1..(q - 1) : proc'[i].state # "none"
                      /\ proc'[q].out <= Made
                      /\ \A i \in Pids : q # i /\ proc'[q].out = proc'[i].out => proc'[q].out = None
    BY <1>4 DEF Numbered
  <2>2. \A i \in 1..(q - 1) : i \in Pids
    BY PidsAre
  <2> QED BY <1>4, <2>1, <2>2 DEF IInv, Numbered, None
<1>8. Waits'
  BY <1>1, <1>5 DEF IInv, Waits, Piped, shellVars, waitVars
<1> QED BY <1>3, <1>4, <1>5, <1>6, <1>7, <1>8 DEF IInv

(* Every step keeps the invariant. *)
LEMMA NextInv == IInv /\ [Next]_vars => IInv'
<1> SUFFICES ASSUME IInv, [Next]_vars PROVE IInv'
  OBVIOUS
<1>1. CASE ShellStep
  BY <1>1, EnterInv, BuiltinInv, NotFoundInv, ForkInv, ForkFailsInv, CloseEndsInv,
     WaitPidInv, ReapRestInv, AnswerInv DEF ShellStep
<1>2. CASE \E p \in Pids : ProcStep(p)
  BY <1>2, ProcStepInv
<1>3. CASE UNCHANGED vars
  <2>1. FreshPipe' = FreshPipe /\ Piped' = Piped /\ Last' = Last /\ Children' = Children
    BY <1>3 DEF vars, shellVars, FreshPipe, Piped, Last, Children, Alive, Zombie
  <2>2. Made' = Made
    BY <1>3, <2>1 DEF vars, shellVars, Made
  <2>3. ShTypeOK' /\ Position'
    BY <1>3, <2>1 DEF vars, shellVars, waitVars, IInv, ShTypeOK, Position
  <2>4. ShellEnds' /\ ChildEnds' /\ Numbered' /\ Waits'
    BY <1>3, <2>1, <2>2 DEF vars, shellVars, waitVars, IInv, ShellEnds, ChildEnds, Numbered, Waits
  <2> QED BY <2>3, <2>4 DEF IInv
<1> QED BY <1>1, <1>2, <1>3 DEF Next
-------------------------------------------------------------------------------
(* The shell, its children and their pipes agree at every moment on who    *)
(* holds which end, who was forked, and who is still to be waited for.     *)
THEOREM Invariance == Spec => []IInv
<1>1. Init => IInv
  BY InitInv
<1>2. IInv /\ [Next]_vars => IInv'
  BY NextInv
<1> QED BY <1>1, <1>2, PTL DEF Spec

(* Every variable keeps its type; in particular there is always a pid and  *)
(* a pipe for the next segment, and a pipe holds at most its capacity.     *)
THEOREM TypeCorrect == Spec => []ShTypeOK
<1>1. IInv => ShTypeOK
  BY DEF IInv
<1> QED BY <1>1, Invariance, PTL

(* Whatever way execute_line came back, the shell holds no pipe end: for   *)
(* every script and every failure of fork and pipe.                        *)
THEOREM LeaksNoEnds == Spec => []NoLeakedEnds
<1>1. IInv => NoLeakedEnds
  BY DEF IInv, ShellEnds, NoLeakedEnds
<1> QED BY <1>1, Invariance, PTL

(* The status of a single command is that of its own process, however many *)
(* children earlier lines left and whenever they end.                      *)
THEOREM StatusIsOwn == Spec => []SingleStatusIsOwn
<1>1. IInv => SingleStatusIsOwn
  BY DEF IInv, Waits, SingleStatusIsOwn
<1> QED BY <1>1, Invariance, PTL

(* Why a filter sees the end of its input: once the shell has closed its   *)
(* copy, the write end of a pipe is held by no process but the one that    *)
(* writes to it, and goes with it.                                         *)
OneWriter ==
  pc # "close" => \A k \in Pipes : /\ Shell \notin Writers(k)
                                   /\ \A p \in Writers(k) : Alive(p) /\ proc[p].out = k
                                   /\ \A p, q \in Writers(k) : p = q

(* A pipe whose user has the read end sees the end of file when that one   *)
(* process has ended.                                                      *)
THEOREM PipesHaveOneWriter == Spec => []OneWriter
<1>1. IInv => OneWriter
  <2> SUFFICES ASSUME IInv, pc # "close", NEW k \in Pipes
               PROVE  /\ Shell \notin Writers(k)
                      /\ \A p \in Writers(k) : Alive(p) /\ proc[p].out = k
                      /\ \A p, q \in Writers(k) : p = q
    BY DEF OneWriter
  <2>1. k # None
    BY DEF Pipes, None
  <2>2. <<k, "w">> \notin held[Shell]
    <3>1. pc = "launch" => pipeFd = None
      BY DEF IInv, Position
    <3> QED BY <3>1 DEF IInv, ShellEnds, ReadEnd, WriteEnd
  <2>3. ASSUME NEW p \in Pids, <<k, "w">> \in held[p]
        PROVE  Alive(p) /\ proc[p].out = k
    <3>1. \A j : <<k, "w">> \notin ReadEnd(j) /\ (<<k, "w">> \in WriteEnd(j) => j = k)
      BY DEF ReadEnd, WriteEnd
    <3>2. held[p] = CASE proc[p].state = "running" -> ReadEnd(proc[p].in) \cup WriteEnd(proc[p].out)
                      [] proc[p].state = "forked" ->
                           ReadEnd(proc[p].in) \cup ReadEnd(proc[p].out) \cup WriteEnd(proc[p].out)
                      [] OTHER -> {}
      BY DEF IInv, ChildEnds
    <3> QED BY <2>3, <3>1, <3>2 DEF Alive
  <2>4. Shell \notin Writers(k) /\ Writers(k) \subseteq Pids
    BY <2>2 DEF Writers
  <2>5. \A p \in Writers(k) : Alive(p) /\ proc[p].out = k
    BY <2>3, <2>4 DEF Writers
  <2>6. \A p, q \in Writers(k) : p = q
    BY <2>1, <2>4, <2>5 DEF IInv, Numbered
  <2> QED BY <2>4, <2>5, <2>6
<1> QED BY <1>1, Invariance, PTL
-------------------------------------------------------------------------------
(* How the jobs of module Jobs are read off the shell (see Sh). *)
Phase  == IF pc \in {"prompt", "gone"} THEN (IF pc = "prompt" THEN "idle" ELSE "gone") ELSE "busy"
Live   == IF pc = "prompt" THEN {} ELSE job \cap Children
Strays == IF pc = "prompt" THEN Children ELSE Children \ job

(* How many segments are left. *)
LEMMA ToLaunchIs ==
  ASSUME IInv
  PROVE  /\ pc = "launch" => /\ ToLaunch = Len(line.segs) - seg + 1 /\ ToLaunch > 0 /\ ToLaunch \in Nat
                             /\ ~Piped => ToLaunch = 1
         /\ pc = "close" => ToLaunch = Len(line.segs) - seg /\ ToLaunch \in Nat /\ (Last <=> ToLaunch = 0)
         /\ pc \notin {"launch", "close"} => ToLaunch = 0
<1>1. CASE pc \in {"launch", "close"}
  <2>1. /\ line \in Lines /\ seg \in Nat /\ seg \in 1..Len(line.segs) /\ Len(line.segs) \in Nat
    BY <1>1, InLine, LengthOf DEF IInv
  <2> DEFINE n == Len(line.segs)
  <2>2. n \in Nat /\ seg <= n /\ (Last <=> seg = n)
    BY <2>1 DEF Last
  <2>3. pc = "launch" /\ ~Piped => n = 1 /\ seg = 1
    BY SingleAlone
  <2>4. (pc = "launch" => ToLaunch = n - seg + 1) /\ (pc = "close" => ToLaunch = n - seg)
    BY DEF ToLaunch
  <2> HIDE DEF n
  <2>5. /\ pc = "launch" => ToLaunch > 0 /\ ToLaunch \in Nat /\ (~Piped => ToLaunch = 1)
        /\ pc = "close" => ToLaunch \in Nat /\ (Last <=> ToLaunch = 0)
    BY <2>1, <2>2, <2>3, <2>4
  <2> QED BY <1>1, <2>4, <2>5 DEF n
<1>2. CASE pc \notin {"launch", "close"}
  BY <1>2 DEF ToLaunch
<1> QED BY <1>1, <1>2

(* A step the jobs do not see. *)
LEMMA Unseen ==
  ASSUME pc \notin {"prompt", "gone"}, pc' \notin {"prompt", "gone"}, ToLaunch' = ToLaunch,
         job' = job, Children' = Children
  PROVE  UNCHANGED Jobs!jobVars
BY DEF Jobs!jobVars

(* No line, no process. *)
LEMMA InitJobs == Init => Jobs!Init
<1> SUFFICES ASSUME Init PROVE Jobs!Init
  OBVIOUS
<1>1. pc = "prompt" /\ ToLaunch = 0
  BY DEF Init, ToLaunch
<1>2. Children = {}
  BY NoRecord DEF Init, Children, Alive, Zombie
<1> QED BY <1>1, <1>2 DEF Jobs!Init

(* Each step of the shell is one of the jobs, or none. *)
LEMMA EnterStarts == ASSUME IInv, NEW l \in Lines, Enter(l) PROVE Jobs!Start
<1>1. /\ pc = "prompt" /\ pc' = "launch" /\ line' = l /\ seg' = 1 /\ job' = {} /\ proc' = proc
  BY DEF Enter
<1>2. ToLaunch' \in 1..Longest
  <2>1. Len(l.segs) \in Nat /\ Len(l.segs) >= 1 /\ Len(l.segs) <= Longest /\ Longest \in Nat
    BY LengthOf, LongestIs DEF MaxSegments
  <2>2. ToLaunch' = Len(l.segs) - 1 + 1
    BY <1>1 DEF ToLaunch
  <2> DEFINE n == Len(l.segs)
  <2> HIDE DEF n
  <2>3. n \in Nat /\ n >= 1 /\ n <= Longest /\ Longest \in Nat /\ ToLaunch' = n - 1 + 1
    BY <2>1, <2>2 DEF n
  <2> QED BY <2>3
<1>3. Children' = Children
  BY <1>1 DEF Children, Alive, Zombie
<1> QED BY <1>1, <1>2, <1>3 DEF Jobs!Start, Jobs!Idle

(* A builtin has no process to wait for. *)
LEMMA BuiltinAnswers == ASSUME IInv, Builtin PROVE Jobs!Answer \/ Jobs!Leave
<1>1. pc = "launch" /\ ~Piped /\ pc' \in {"prompt", "gone"} /\ job' = job /\ proc' = proc
  BY DEF Builtin, Return
<1>2. job = {}
  BY <1>1, SingleAlone
<1>3. Children' = Children /\ ToLaunch' = 0
  BY <1>1 DEF Children, Alive, Zombie, ToLaunch
<1> QED BY <1>1, <1>2, <1>3 DEF Jobs!Answer, Jobs!Leave, Jobs!Busy

(* A segment that is not found leaves what already runs behind. *)
LEMMA NotFoundGivesUp == ASSUME IInv, PipelineNotFound PROVE Jobs!GiveUp
<1>1. pc = "launch" /\ pc' = "prompt" /\ job' = job /\ proc' = proc
  BY DEF PipelineNotFound, Return
<1>2. ToLaunch > 0
  BY <1>1, ToLaunchIs
<1>3. Children' = Children /\ ToLaunch' = 0
  BY <1>1 DEF Children, Alive, Zombie, ToLaunch
<1>4. (Children \ job) \cup (job \cap Children) = Children
  OBVIOUS
<1> QED BY <1>1, <1>2, <1>3, <1>4 DEF Jobs!GiveUp, Jobs!Busy

(* fork leaves one segment less, in a pipeline and alone. *)
LEMMA OneLess ==
  ASSUME IInv, pc = "launch", pc' = (IF Piped THEN "close" ELSE "wait"), UNCHANGED <<line, seg>>
  PROVE  ToLaunch > 0 /\ ToLaunch' = ToLaunch - 1
<1>1. /\ line \in Lines /\ seg \in Nat
  BY InLine DEF IInv
<1>2. Len(line.segs) \in Nat
  BY <1>1, LengthOf
<1>3. ToLaunch = Len(line.segs) - seg + 1 /\ ToLaunch > 0 /\ (~Piped => ToLaunch = 1)
  BY ToLaunchIs
<1>4. CASE Piped
  <2>1. ToLaunch' = Len(line.segs) - seg
    BY <1>4 DEF ToLaunch
  <2> DEFINE n == Len(line.segs)
  <2> HIDE DEF n
  <2>2. n \in Nat /\ ToLaunch = n - seg + 1 /\ ToLaunch' = n - seg
    BY <1>2, <1>3, <2>1 DEF n
  <2> QED BY <1>1, <1>3, <2>2
<1>5. CASE ~Piped
  <2>1. ToLaunch' = 0
    BY <1>5 DEF ToLaunch
  <2> QED BY <1>3, <1>5, <2>1
<1> QED BY <1>4, <1>5

(* The pid fork gives is nobody else's. *)
LEMMA ForkLaunches == ASSUME IInv, Fork PROVE \E p \in Pids : Jobs!Launch(p)
<1> DEFINE new == FreshPid
<1>1. /\ MakePipe /\ pid' = new /\ job' = job \cup {new}
      /\ proc' = [proc EXCEPT ![new] = Started(Program, prevFd, pipeFd')]
      /\ pc' = (IF Piped THEN "close" ELSE "wait") /\ UNCHANGED <<line, seg>>
  BY DEF Fork, Started
<1>2. pc = "launch"
  BY <1>1 DEF MakePipe
<1>3. new \in Pids /\ new \notin Children
  BY <1>2, NextPid
<1> HIDE DEF new
<1>4. Children' = Children \cup {new}
  <2>1. Started(Program, prevFd, pipeFd').state = "forked"
    BY DEF Started, NoProc
  <2>2. proc'[new].state = "forked" /\ \A q \in Pids : q # new => proc'[q] = proc[q]
    BY <1>1, <1>3, <2>1 DEF IInv, ShTypeOK
  <2> QED BY <1>3, <2>2 DEF Children, Alive, Zombie
<1>5. ToLaunch > 0 /\ ToLaunch' = ToLaunch - 1
  BY <1>1, <1>2, OneLess
<1>6. pc' \notin {"prompt", "gone"}
  BY <1>1
<1>7. Live' = Live \cup {new} /\ Strays' = Strays /\ Phase' = Phase /\ new \notin Live \cup Strays
  BY <1>1, <1>2, <1>3, <1>4, <1>6 DEF Live, Strays, Phase
<1>8. Jobs!Launch(new)
  BY <1>2, <1>5, <1>7 DEF Jobs!Launch, Jobs!Busy, Live, Strays, Phase
<1> QED BY <1>3, <1>8

(* A failed fork is one launch less, or for execute_cmd the end of the line. *)
LEMMA ForkFailsLaunchesNone == ASSUME IInv, ForkFails PROVE Jobs!LaunchFails \/ Jobs!GiveUp
<1>1. /\ MakePipe /\ UNCHANGED <<line, seg, proc, job>>
      /\ IF Piped \/ line.redirect THEN pc' = (IF Piped THEN "close" ELSE "wait") ELSE pc' = "prompt"
  BY DEF ForkFails, Return
<1>2. pc = "launch"
  BY <1>1 DEF MakePipe
<1>3. Children' = Children
  BY <1>1 DEF Children, Alive, Zombie
<1>4. CASE Piped \/ line.redirect
  <2>1. ToLaunch > 0 /\ ToLaunch' = ToLaunch - 1
    BY <1>1, <1>2, <1>4, OneLess
  <2> QED BY <1>1, <1>2, <1>3, <1>4, <2>1 DEF Jobs!LaunchFails, Jobs!Busy
<1>5. CASE ~ (Piped \/ line.redirect)
  <2>1. ToLaunch > 0 /\ ToLaunch' = 0 /\ pc' = "prompt"
    BY <1>1, <1>2, <1>5, ToLaunchIs DEF ToLaunch
  <2>2. (Children \ job) \cup (job \cap Children) = Children
    OBVIOUS
  <2> QED BY <1>1, <1>2, <1>3, <2>1, <2>2 DEF Jobs!GiveUp, Jobs!Busy
<1> QED BY <1>4, <1>5

(* Closing ends launches nothing. *)
LEMMA CloseEndsUnseen == ASSUME IInv, CloseEnds PROVE UNCHANGED Jobs!jobVars
<1>1. /\ pc = "close" /\ UNCHANGED <<line, proc, job>>
      /\ IF Last THEN pc' = "wait" /\ UNCHANGED seg ELSE pc' = "launch" /\ seg' = seg + 1
  BY DEF CloseEnds
<1>2. line \in Lines /\ seg \in Nat
  BY <1>1, InLine DEF IInv
<1>3. Len(line.segs) \in Nat
  BY <1>2, LengthOf
<1>4. ToLaunch = Len(line.segs) - seg /\ (Last <=> ToLaunch = 0)
  BY <1>1, ToLaunchIs
<1>5. ToLaunch' = ToLaunch
  <2>1. CASE Last
    BY <1>1, <1>4, <2>1 DEF ToLaunch
  <2>2. CASE ~Last
    <3>1. ToLaunch' = Len(line.segs) - (seg + 1) + 1
      BY <1>1, <2>2 DEF ToLaunch
    <3> DEFINE n == Len(line.segs)
    <3> HIDE DEF n
    <3>2. n \in Nat /\ ToLaunch = n - seg /\ ToLaunch' = n - (seg + 1) + 1
      BY <1>3, <1>4, <3>1 DEF n
    <3> QED BY <1>2, <3>2
  <2> QED BY <2>1, <2>2
<1>6. Children' = Children
  BY <1>1 DEF Children, Alive, Zombie
<1> QED BY <1>1, <1>5, <1>6, Unseen

(* wait4 collects one process, of this line or an earlier one. *)
LEMMA ReapCollects ==
  ASSUME IInv, NEW p \in Pids, Zombie(p), Reap(p), UNCHANGED <<shellVars, held, job>>,
         pc \in {"wait", "reap"}, pc' \in {"reap", "answer"}, pc' = "reap" => Piped
  PROVE  Jobs!Collect(p)
<1>1. Made' = Made
  BY WaitingStays
<1>2. Children' = Children \ {p} /\ p \in Children
  BY <1>1, ReapSteps
<1>3. ToLaunch = 0 /\ ToLaunch' = 0
  BY DEF ToLaunch
<1>4. /\ Live' = Live \ {p} /\ Strays' = Strays \ {p} /\ Phase' = Phase /\ Phase = "busy"
      /\ p \in Live \cup Strays
  BY <1>2 DEF Live, Strays, Phase
<1> QED BY <1>3, <1>4 DEF Jobs!Collect, Jobs!Busy, Live, Strays, Phase

(* The first wait collects one, or finds nobody. *)
LEMMA WaitPidCollects ==
  ASSUME IInv, WaitPid
  PROVE  (\E p \in Pids : Jobs!Collect(p)) \/ UNCHANGED Jobs!jobVars
<1>1. /\ pc = "wait" /\ pc' = (IF Piped THEN "reap" ELSE "answer")
      /\ UNCHANGED <<shellVars, held, job>>
  BY DEF WaitPid
<1>2. CASE \E p \in Waitable(pid) : Reap(p)
  <2>1. PICK p \in Pids : Zombie(p) /\ Reap(p)
    BY <1>2 DEF Waitable
  <2>2. Jobs!Collect(p)
    BY <1>1, <2>1, ReapCollects
  <2> QED BY <2>2
<1>3. CASE UNCHANGED <<proc, status, waited>>
  <2>1. Children' = Children /\ ToLaunch' = ToLaunch
    BY <1>1, <1>3 DEF Children, Alive, Zombie, ToLaunch
  <2> QED BY <1>1, <2>1, Unseen
<1> QED BY <1>2, <1>3 DEF WaitPid

(* So does each turn of the loop that follows. *)
LEMMA ReapRestCollects ==
  ASSUME IInv, ReapRest
  PROVE  (\E p \in Pids : Jobs!Collect(p)) \/ UNCHANGED Jobs!jobVars
<1>1. pc = "reap" /\ Piped /\ UNCHANGED <<shellVars, held, job>>
  BY DEF ReapRest, IInv, Position
<1>2. CASE \E p \in Waitable(Anyone) : Reap(p) /\ UNCHANGED pc
  <2>1. PICK p \in Pids : Zombie(p) /\ Reap(p) /\ UNCHANGED pc
    BY <1>2 DEF Waitable
  <2>2. Jobs!Collect(p)
    BY <1>1, <2>1, ReapCollects
  <2> QED BY <2>2
<1>3. CASE pc' = "answer" /\ UNCHANGED <<proc, status, waited>>
  <2>1. Children' = Children /\ ToLaunch' = ToLaunch
    BY <1>1, <1>3 DEF Children, Alive, Zombie, ToLaunch
  <2> QED BY <1>1, <1>3, <2>1, Unseen
<1> QED BY <1>2, <1>3 DEF ReapRest

(* When the status is returned nobody of the line is left. *)
LEMMA AnswerAnswers == ASSUME IInv, Answer PROVE Jobs!Answer
<1>1. pc = "answer" /\ pc' = "prompt" /\ job' = job /\ proc' = proc
  BY DEF Answer, Return
<1>2. job \cap Children = {} /\ Children \ job = Children
  BY <1>1 DEF IInv, Waits
<1>3. Children' = Children /\ ToLaunch' = 0
  BY <1>1 DEF Children, Alive, Zombie, ToLaunch
<1> QED BY <1>1, <1>2, <1>3 DEF Jobs!Answer, Jobs!Busy

(* Every step is one of the jobs, or none. *)
LEMMA NextJobs == IInv /\ [Next]_vars => [Jobs!Next]_(Jobs!jobVars)
<1> SUFFICES ASSUME IInv, [Next]_vars PROVE Jobs!Next \/ UNCHANGED Jobs!jobVars
  OBVIOUS
<1>1. CASE ShellStep
  <2>1. CASE \E l \in Lines : Enter(l)
    BY <2>1, EnterStarts DEF Jobs!Next
  <2>2. CASE Builtin
    BY <2>2, BuiltinAnswers DEF Jobs!Next
  <2>3. CASE PipelineNotFound
    BY <2>3, NotFoundGivesUp DEF Jobs!Next
  <2>4. CASE Fork
    BY <2>4, ForkLaunches DEF Jobs!Next
  <2>5. CASE ForkFails
    BY <2>5, ForkFailsLaunchesNone DEF Jobs!Next
  <2>6. CASE CloseEnds
    BY <2>6, CloseEndsUnseen
  <2>7. CASE WaitPid
    BY <2>7, WaitPidCollects DEF Jobs!Next
  <2>8. CASE ReapRest
    BY <2>8, ReapRestCollects DEF Jobs!Next
  <2>9. CASE Answer
    BY <2>9, AnswerAnswers DEF Jobs!Next
  <2> QED BY <1>1, <2>1, <2>2, <2>3, <2>4, <2>5, <2>6, <2>7, <2>8, <2>9 DEF ShellStep
<1>2. CASE \E p \in Pids : ProcStep(p)
  <2>1. PICK p \in Pids : ProcStep(p)
    BY <1>2
  <2>2. Children' = Children /\ UNCHANGED <<pc, shellVars, pid, waitVars, job>>
    BY <2>1, ProcStepInv DEF ProcStep
  <2>3. ToLaunch' = ToLaunch
    BY <2>2 DEF ToLaunch, shellVars
  <2> QED BY <2>2, <2>3 DEF Jobs!jobVars
<1>3. CASE UNCHANGED vars
  <2>1. Children' = Children /\ ToLaunch' = ToLaunch
    BY <1>3 DEF vars, shellVars, Children, Alive, Zombie, ToLaunch
  <2> QED BY <1>3, <2>1 DEF vars, Jobs!jobVars
<1> QED BY <1>1, <1>2, <1>3 DEF Next

(* sh.c keeps the promise of module Jobs: a line is answered only when     *)
(* every process of it was collected, each process is collected once, and  *)
(* only a pipeline that could not be launched to its end leaves strays.    *)
THEOREM ShImplementsJobs == Spec => ImplementsJobs
<1>1. Init => Jobs!Init
  BY InitJobs
<1>2. IInv /\ [Next]_vars => [Jobs!Next]_(Jobs!jobVars)
  BY NextJobs
<1> QED BY <1>1, <1>2, Invariance, PTL DEF Spec, ImplementsJobs, Jobs!Spec
===============================================================================
