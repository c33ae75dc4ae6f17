--------------------------------- MODULE Jobs ---------------------------------
(***************************************************************************)
(* What the shell promises about the processes of a command line, without  *)
(* pipes, files or exit statuses.  One line is worked on at a time.  It is *)
(* answered only when no process of it is left, with one exception: a line *)
(* that cannot be launched to its end may be given up, and what it had     *)
(* launched becomes a stray, collected whenever the shell next waits for   *)
(* anybody.  tools/sh.c implements this: see ImplementsJobs in module Sh.  *)
(***************************************************************************)
EXTENDS Naturals

CONSTANTS Procs,    \* processes that may be launched
          MaxPlan   \* most processes one line asks for

VARIABLES phase,    \* "idle", "busy" with a line, or "gone"
          todo,     \* processes of the line still to be launched
          live,     \* processes of the line not yet collected
          strays    \* processes of given-up lines not yet collected

jobVars == <<phase, todo, live, strays>>

Idle == phase = "idle"
Busy == phase = "busy"

Init == phase = "idle" /\ todo = 0 /\ live = {} /\ strays = {}

Start == /\ Idle /\ phase' = "busy"
         /\ todo' \in 1..MaxPlan
         /\ UNCHANGED <<live, strays>>

Launch(p) == /\ Busy /\ todo > 0
             /\ p \notin live \cup strays
             /\ live' = live \cup {p} /\ todo' = todo - 1
             /\ UNCHANGED <<phase, strays>>

LaunchFails == /\ Busy /\ todo > 0
               /\ todo' = todo - 1
               /\ UNCHANGED <<phase, live, strays>>

(* A process is collected once, and only while the shell is busy. *)
Collect(p) == /\ Busy /\ todo = 0
              /\ p \in live \cup strays
              /\ live' = live \ {p} /\ strays' = strays \ {p}
              /\ UNCHANGED <<phase, todo>>

Answer == /\ Busy /\ live = {}
          /\ phase' = "idle" /\ todo' = 0
          /\ UNCHANGED <<live, strays>>

GiveUp == /\ Busy /\ todo > 0
          /\ phase' = "idle" /\ todo' = 0
          /\ live' = {} /\ strays' = strays \cup live

Leave == /\ Busy /\ live = {}
         /\ phase' = "gone" /\ todo' = 0
         /\ UNCHANGED <<live, strays>>

Next == \/ Start \/ LaunchFails \/ Answer \/ GiveUp \/ Leave
        \/ \E p \in Procs : Launch(p) \/ Collect(p)

Spec == Init /\ [][Next]_jobVars
===============================================================================
