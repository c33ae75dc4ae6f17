---------------------------------- MODULE Sh ----------------------------------
(***************************************************************************)
(* Job control of the emergency shell, tools/sh.c: execute_line and        *)
(* execute_cmd, the processes they fork, the pipes that connect them, and  *)
(* what wait4 hands back.  A command line is a sequence of segments; a     *)
(* segment names a program by what it does with its standard streams:      *)
(*   "source"   writes for ever (yes)                                      *)
(*   "filter"   copies its input until end of file (cat, sed, sort)        *)
(*   "quick"    never reads and ends by itself (true, false)               *)
(*   "missing"  is not found on PATH                                       *)
(*   "cd", "exit" are builtins, which only execute_cmd knows about         *)
(* Words, quoting and variable expansion are abstracted away; a segment    *)
(* has at least one word.                                                  *)
(***************************************************************************)
EXTENDS Integers, Sequences, FiniteSets

CONSTANTS Lines,        \* the command lines a user may enter
          MaxLines,     \* how many of them are entered: bounds the behaviour
          PipeCap,      \* units a pipe holds before a writer blocks
          Codes,        \* exit codes a "quick" program may choose
          MayFail       \* whether fork and pipe may return an error

Programs == {"source", "filter", "quick", "missing", "cd", "exit"}
Builtins == {"cd", "exit"}

MaxSegments == 16   \* what is behind the 16th bar of a line is cut off

ASSUME LinesAssumption ==
         /\ Lines # {}
         /\ \A l \in Lines : /\ l.segs \in Seq(Programs) /\ Len(l.segs) \in 1..MaxSegments
                             /\ l.redirect \in BOOLEAN
ASSUME BoundsAssumption == MaxLines \in Nat /\ PipeCap \in Nat \ {0}

Longest == CHOOSE n \in {Len(l.segs) : l \in Lines} :
             \A l \in Lines : Len(l.segs) <= n
Pids    == 1..(MaxLines * Longest)
Pipes   == 1..(MaxLines * Longest)
Shell   == 0
None    == 0
Anyone  == -1                             \* wait4(-1, ...)
FailedFork == -11                         \* sys_fork hands back -errno: -EAGAIN
Killed  == -9                             \* ended by a signal: not WIFEXITED
NoLine  == [segs |-> << >>, redirect |-> FALSE]

VARIABLES
  pc,        \* where the shell is
  line,      \* the line being executed
  entered,   \* how many lines were entered
  seg,       \* loop index s of the pipeline
  prevFd,    \* prev_fd: the pipe whose read end feeds the next segment
  pipeFd,    \* pipefd: the pipe created for this segment
  pid,       \* result of the last fork, FailedFork when it failed
  status,    \* the local "status" that wait4 fills in
  ret,       \* value returned by the last execute_line
  proc,      \* processes by pid
  held,      \* pipe ends each process (and the shell) has open
  data,      \* units in each pipe
  job,       \* history: pids forked for the current line
  waited     \* history: the pid "status" came from, None if from nobody

shellVars == <<line, entered, seg, prevFd, pipeFd>>
waitVars  == <<status, ret, waited>>
vars == <<pc, shellVars, pid, waitVars, proc, held, data, job>>

NoProc == [state |-> "none", prog |-> "none", in |-> None, out |-> None,
           hand |-> 0, code |-> 0]

Alive(p)    == proc[p].state \in {"forked", "running"}
Zombie(p)   == proc[p].state = "zombie"
Children    == {p \in Pids : Alive(p) \/ Zombie(p)}
FreshPid    == CHOOSE p \in Pids : /\ proc[p].state = "none"
                                   /\ \A q \in 1..(p - 1) : proc[q].state # "none"
FreshPipe   == (entered - 1) * Longest + seg
Last        == seg = Len(line.segs)
Piped       == Len(line.segs) > 1
Program     == line.segs[seg]
NotOnPath   == Program \in Builtins \cup {"missing"}
ReadEnd(k)  == IF k = None THEN {} ELSE {<<k, "r">>}
WriteEnd(k) == IF k = None THEN {} ELSE {<<k, "w">>}
Readers(k)  == {p \in Pids \cup {Shell} : <<k, "r">> \in held[p]}
Writers(k)  == {p \in Pids \cup {Shell} : <<k, "w">> \in held[p]}

(* WIFEXITED(status) ? WEXITSTATUS(status) : 1 *)
ExitCode(st) == IF st = Killed THEN 1 ELSE st

Init ==
  /\ pc = "prompt" /\ line = NoLine /\ entered = 0 /\ seg = 1
  /\ prevFd = None /\ pipeFd = None /\ pid = None
  /\ status = 0 /\ ret = 0 /\ waited = None
  /\ proc = [p \in Pids |-> NoProc]
  /\ held = [p \in Pids \cup {Shell} |-> {}]
  /\ data = [k \in Pipes |-> 0]
  /\ job = {}

-------------------------------------------------------------------------------
(* The shell *)

(* The script and interactive loops of sh_main hand over the next line. *)
Enter(l) ==
  /\ pc = "prompt" /\ entered < MaxLines
  /\ pc' = "launch"
  /\ line' = l /\ entered' = entered + 1
  /\ seg' = 1 /\ prevFd' = None /\ pipeFd' = None
  /\ job' = {} /\ waited' = None /\ status' = 0 /\ pid' = None
  /\ UNCHANGED <<ret, proc, held, data>>

Return(code) == pc' = "prompt" /\ ret' = code

(* execute_cmd: cd fails or not; exit leaves the shell, not waiting for    *)
(* anyone; a program that is not found costs 127.                          *)
Builtin ==
  /\ pc = "launch" /\ ~Piped /\ ~line.redirect
  /\ \/ Program = "cd" /\ \E code \in {0, 1} : Return(code)
     \/ Program = "exit" /\ pc' = "gone" /\ UNCHANGED ret
     \/ Program = "missing" /\ Return(127)
  /\ UNCHANGED <<shellVars, pid, status, waited, proc, held, data, job>>

PipelineNotFoundLeaky ==
  /\ pc = "launch" /\ Piped /\ NotOnPath
  /\ Return(127)
  /\ UNCHANGED <<shellVars, pid, status, waited, proc, held, data, job>>

(* A pipeline looks every segment up on PATH, builtins too.  One that is   *)
(* not there: close prev_fd and the pipe just made for it, and return 127  *)
(* without waiting for the segments that already run.                      *)
PipelineNotFound ==
  /\ pc = "launch" /\ Piped /\ NotOnPath
  /\ held' = [held EXCEPT ![Shell] = @ \ ReadEnd(prevFd)]
  /\ Return(127)
  /\ UNCHANGED <<shellVars, pid, status, waited, proc, data, job>>

(* A found program, or any program under a redirect, whose child does the  *)
(* looking up.  In a pipeline, first pipe() unless this is the last        *)
(* segment.  Its result is not looked at: when it fails pipefd stays       *)
(* {-1, -1} and the two segments keep the shell's own output and input.    *)
MakePipe ==
  /\ pc = "launch"
  /\ IF Piped THEN ~NotOnPath ELSE line.redirect \/ ~NotOnPath
  /\ pipeFd' \in IF Last THEN {None}
               ELSE {FreshPipe} \cup (IF MayFail THEN {None} ELSE {})

WithPipe == held[Shell] \cup ReadEnd(pipeFd') \cup WriteEnd(pipeFd')

(* fork: the child inherits every end the shell has open. *)
Fork ==
  /\ MakePipe
  /\ pid' = FreshPid
  /\ proc' = [proc EXCEPT ![pid'] = [NoProc EXCEPT !.state = "forked",
                                       !.prog = Program, !.in = prevFd, !.out = pipeFd']]
  /\ held' = [held EXCEPT ![pid'] = WithPipe, ![Shell] = WithPipe]
  /\ job' = job \cup {pid'}
  /\ pc' = IF Piped THEN "close" ELSE "wait"
  /\ UNCHANGED <<line, entered, seg, prevFd, waitVars, data>>

(* fork fails: execute_cmd returns 1; the redirect and pipeline branches   *)
(* do not look at the result and go on with pid = -errno.                  *)
ForkFails ==
  /\ MayFail /\ MakePipe
  /\ pid' = FailedFork
  /\ held' = [held EXCEPT ![Shell] = WithPipe]
  /\ IF Piped \/ line.redirect
     THEN pc' = (IF Piped THEN "close" ELSE "wait") /\ UNCHANGED ret
     ELSE Return(1)
  /\ UNCHANGED <<line, entered, seg, prevFd, status, waited, proc, data, job>>

CloseEndsKeepWriter ==
  /\ pc = "close"
  /\ held' = [held EXCEPT ![Shell] = @ \ ReadEnd(prevFd)]
  /\ prevFd' = pipeFd /\ pipeFd' = None
  /\ IF Last THEN pc' = "wait" /\ UNCHANGED seg
             ELSE pc' = "launch" /\ seg' = seg + 1
  /\ UNCHANGED <<line, entered, pid, waitVars, proc, data, job>>

(* The parent after fork: close prev_fd and the write end, keep the read   *)
(* end for the next segment.                                               *)
CloseEnds ==
  /\ pc = "close"
  /\ held' = [held EXCEPT ![Shell] = @ \ (ReadEnd(prevFd) \cup WriteEnd(pipeFd))]
  /\ prevFd' = pipeFd /\ pipeFd' = None
  /\ IF Last THEN pc' = "wait" /\ UNCHANGED seg
             ELSE pc' = "launch" /\ seg' = seg + 1
  /\ UNCHANGED <<line, entered, pid, waitVars, proc, data, job>>

(* wait4(target): the zombies it may return.  Below -1 the target is a     *)
(* process group, so the result of a failed fork names group 11: the shell *)
(* puts no child in another group than its own, and nobody is there to     *)
(* wait for.                                                               *)
WaitableAny(target) == {p \in Pids : Zombie(p)}
Waitable(target) == {p \in Pids : Zombie(p) /\ target \in {Anyone, p}}
NobodyToWait(target) == {p \in Children : target \in {Anyone, p}} = {}

Reap(p) ==
  /\ proc' = [proc EXCEPT ![p] = [NoProc EXCEPT !.state = "reaped"]]
  /\ status' = proc[p].code /\ waited' = p

(* wait4(pid, &status): blocks until that child has ended.  Behind a       *)
(* failed fork it fails at once with ECHILD and leaves status at 0.        *)
WaitPid ==
  /\ pc = "wait"
  /\ \/ \E p \in Waitable(pid) : Reap(p)
     \/ NobodyToWait(pid) /\ UNCHANGED <<proc, status, waited>>
  /\ pc' = IF Piped THEN "reap" ELSE "answer"
  /\ UNCHANGED <<shellVars, pid, ret, held, data, job>>

(* return WIFEXITED(status) ? WEXITSTATUS(status) : 1 *)
Answer ==
  /\ pc = "answer" /\ Return(ExitCode(status))
  /\ UNCHANGED <<shellVars, pid, status, waited, proc, held, data, job>>

ReapRestForgets ==
  /\ pc = "reap" /\ pc' = "answer"
  /\ UNCHANGED <<shellVars, pid, waitVars, proc, held, data, job>>

(* while (wait4(-1, &status) > 0): one turn, or the end when no child is   *)
(* left.  Each turn overwrites status.                                     *)
ReapRest ==
  /\ pc = "reap"
  /\ \/ \E p \in Waitable(Anyone) : Reap(p) /\ UNCHANGED pc
     \/ NobodyToWait(Anyone) /\ pc' = "answer" /\ UNCHANGED <<proc, status, waited>>
  /\ UNCHANGED <<shellVars, pid, ret, held, data, job>>

ShellStep == \/ \E l \in Lines : Enter(l)
             \/ Builtin \/ PipelineNotFound \/ Fork \/ ForkFails
             \/ CloseEnds \/ WaitPid \/ ReapRest \/ Answer
-------------------------------------------------------------------------------
(* The processes *)

Die(p, code) ==
  /\ proc' = [proc EXCEPT ![p] = [NoProc EXCEPT !.state = "zombie", !.code = code]]
  /\ held' = [held EXCEPT ![p] = {}]
  /\ UNCHANGED data

ChildExecKeepsEnds(p) ==
  /\ proc[p].state = "forked"
  /\ proc[p].prog \in {"source", "filter", "quick"}
  /\ proc' = [proc EXCEPT ![p].state = "running"]
  /\ UNCHANGED <<held, data>>

(* The child between fork and exec: dup2 its ends onto 0 and 1 and close   *)
(* every other one.                                                        *)
ChildExec(p) ==
  /\ proc[p].state = "forked"
  /\ proc[p].prog \in {"source", "filter", "quick"}
  /\ proc' = [proc EXCEPT ![p].state = "running"]
  /\ held' = [held EXCEPT ![p] = ReadEnd(proc[p].in) \cup WriteEnd(proc[p].out)]
  /\ UNCHANGED data

(* A redirect that cannot be opened ends the child with 1; a program that  *)
(* is not on PATH, or that exec refuses, ends it with 127.                 *)
ChildFails(p) ==
  /\ proc[p].state = "forked"
  /\ \E code \in {127} \cup (IF line.redirect /\ p \in job THEN {1} ELSE {}) : Die(p, code)

Running(p, prog) == proc[p].state = "running" /\ proc[p].prog = prog

(* write(1): blocks on a full pipe, and kills a writer nobody reads from.  *)
Write(p) ==
  LET k == proc[p].out IN
  /\ Running(p, "source") \/ (Running(p, "filter") /\ proc[p].hand = 1)
  /\ \/ /\ k = None
        /\ proc' = [proc EXCEPT ![p].hand = 0] /\ UNCHANGED <<held, data>>
     \/ /\ k # None /\ Readers(k) = {} /\ Die(p, Killed)
     \/ /\ k # None /\ Readers(k) # {} /\ data[k] < PipeCap
        /\ data' = [data EXCEPT ![k] = @ + 1]
        /\ proc' = [proc EXCEPT ![p].hand = 0] /\ UNCHANGED held

EndOfInput(k) == IF k = None THEN TRUE ELSE data[k] = 0 /\ Writers(k) = {}

(* read(0): from a pipe, or from the terminal, where the user ends input.  *)
Read(p) ==
  LET k == proc[p].in IN
  /\ Running(p, "filter") /\ proc[p].hand = 0
  /\ \/ /\ k # None /\ data[k] > 0
        /\ data' = [data EXCEPT ![k] = @ - 1]
        /\ proc' = [proc EXCEPT ![p].hand = 1] /\ UNCHANGED held
     \/ EndOfInput(k) /\ Die(p, 0)

Finish(p) == Running(p, "quick") /\ \E code \in Codes : Die(p, code)

ProcStep(p) ==
  /\ ChildExec(p) \/ ChildFails(p) \/ Write(p) \/ Read(p) \/ Finish(p)
  /\ UNCHANGED <<pc, shellVars, pid, waitVars, job>>

Next == ShellStep \/ \E p \in Pids : ProcStep(p)

(* The kernel schedules every runnable process, and the shell goes on      *)
(* whenever it is not blocked; nobody is obliged to type another line.     *)
Fairness == /\ WF_vars(ShellStep /\ pc # "prompt")
            /\ \A p \in Pids : WF_vars(ProcStep(p))

Spec == Init /\ [][Next]_vars /\ Fairness
-------------------------------------------------------------------------------
(* Whatever way execute_line came back (a status, 127 in the middle of a   *)
(* pipeline, a failed fork), the shell holds no pipe end between lines.    *)
NoLeakedEnds == pc = "prompt" => held[Shell] = {}

(* A single command's status is that of its own process or, when fork      *)
(* failed, of nobody, whichever of the children earlier lines left behind  *)
(* (sh.c:294) ends meanwhile.                                              *)
SingleStatusIsOwn ==
  pc = "prompt" /\ ~Piped /\ waited # None => waited = pid

(* A source whose pipe could not be made, or a filter such a pipe would    *)
(* have followed, copies to the shell's own output for ever.               *)
Endless ==
  \E p, q \in Pids :
    /\ Alive(p) /\ proc[p].prog = "source"
    /\ Alive(q) /\ proc[q].out = None
    /\ q = p \/ (proc[q].prog = "filter" /\ proc[q].in = proc[p].out /\ proc[q].in # None)

(* Every line entered is eventually answered: no process waits on an end   *)
(* of file that cannot come, although the shell, its children and the      *)
(* children of earlier lines all hold copies of the pipe ends for a while. *)
LineReturns ==
  (pc \notin {"prompt", "gone"}) ~> (pc \in {"prompt", "gone"} \/ []Endless)

(* No process outlives its line for ever, the segments of a pipeline that  *)
(* was cut short by "command not found" included: their reader never came, *)
(* and they are told so.                                                   *)
EveryChildEnds == \A p \in Pids : Alive(p) ~> (~Alive(p) \/ []Endless)

(* Segments the loop of execute_line has not forked yet. *)
ToLaunch == CASE pc = "launch" -> Len(line.segs) - seg + 1
              [] pc = "close"  -> Len(line.segs) - seg
              [] OTHER         -> 0

Jobs == INSTANCE Jobs WITH
          Procs   <- Pids,
          MaxPlan <- Longest,
          phase   <- IF pc \in {"prompt", "gone"}
                     THEN (IF pc = "prompt" THEN "idle" ELSE "gone") ELSE "busy",
          todo    <- ToLaunch,
          live    <- IF pc = "prompt" THEN {} ELSE job \cap Children,
          strays  <- IF pc = "prompt" THEN Children ELSE Children \ job

(* The shell answers a line only when every process of it was collected,   *)
(* and leaves children behind only for a pipeline it could not launch to   *)
(* its end.                                                                *)
ImplementsJobs == Jobs!Spec
===============================================================================
