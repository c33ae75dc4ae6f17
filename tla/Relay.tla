--------------------------------- MODULE Relay ---------------------------------
(***************************************************************************)
(* tools/nc.c: the connection and the relay between the standard streams   *)
(* and a socket.  Both descriptors read from are non-blocking, so a read   *)
(* gives something, nothing yet, or the end.  A write to the socket takes  *)
(* what fits; with no room it fails, and nc is done.  Standard output may  *)
(* be the terminal standard input is: then it does not block either.       *)
(*                                                                         *)
(* The peer reads, sends and closes when it likes.  What nc wrote reaches  *)
(* the peer after nc is gone.                                              *)
(***************************************************************************)
EXTENDS Integers, Sequences

CONSTANTS Byte, Typings, Answers,  \* what the user types, what the peer sends
          BufSize,                \* sizeof(buf)
          SocketSize,                   \* what the socket holds in each direction
          Terminal                \* whether a write to standard output may fail

ASSUME RelayAssumption ==
         /\ Typings \subseteq Seq(Byte) /\ Answers \subseteq Seq(Byte)
         /\ BufSize \in Nat \ {0} /\ SocketSize \in Nat \ {0} /\ Terminal \in BOOLEAN

VARIABLES
  step,         \* "socket", "bind", "listen", "accept", "connect": the calls to come;
              \* "typed", "send", "answer": the relay; "done"
  listening,  \* listen_mode
  code,
  toType,     \* what will be typed
  typed,      \* what is typed and not read yet
  typedEnd,   \* standard input is at its end behind that
  sending,        \* what was read of it and is still to be sent
  toPeer, peerGot,  \* bytes in the socket; what the peer has read
  toSend,     \* what the peer will send
  fromPeer,   \* bytes of it in the socket
  peerEnd,    \* the peer has closed its side
  display,      \* standard output
  taken, came,  \* history: all that was read of each side
  dropped,    \* history: a write to standard output did not take everything
  why         \* history: how the relay ended

userVars == <<toType, typed, typedEnd>>
peerVars == <<peerGot, toSend, peerEnd>>
displayVars == <<display, came, dropped>>
relayVars == <<step, listening, code, userVars, sending, toPeer, fromPeer, peerVars, displayVars, taken, why>>

RelayInit ==
  /\ step = "socket" /\ listening \in BOOLEAN /\ code = 0
  /\ toType \in Typings /\ typed = << >> /\ typedEnd = FALSE /\ sending = << >>
  /\ toPeer = << >> /\ peerGot = << >> /\ toSend \in Answers /\ fromPeer = << >>
  /\ peerEnd = FALSE /\ display = << >> /\ taken = << >> /\ came = << >> /\ dropped = FALSE
  /\ why = "running"

Least(a, b) == IF a <= b THEN a ELSE b
First(s, k) == SubSeq(s, 1, k)
From(s, k) == SubSeq(s, k + 1, Len(s))
-------------------------------------------------------------------------------
Following ==
  CASE step = "socket" -> IF listening THEN "bind" ELSE "connect"
    [] step = "bind" -> "listen"
    [] step = "listen" -> "accept"
    [] OTHER -> "typed"
SettingUp == step \in {"socket", "bind", "listen", "accept", "connect"}

(* The calls before the relay, each of which may fail. *)
Connect ==
  /\ SettingUp
  /\ \/ step' = Following /\ UNCHANGED <<code, why>>
     \/ step' = "done" /\ code' = 1 /\ why' = "no connection"
  /\ UNCHANGED <<listening, userVars, sending, toPeer, fromPeer, peerVars, displayVars, taken>>

ReadTyped ==
  /\ step = "typed" /\ typed # << >>
  /\ \E k \in 1..Least(BufSize, Len(typed)) :
       /\ sending' = First(typed, k) /\ typed' = From(typed, k)
       /\ taken' = taken \o sending'
  /\ step' = "send"
  /\ UNCHANGED <<listening, code, toType, typedEnd, toPeer, fromPeer, peerVars, displayVars, why>>

NothingTyped ==
  /\ step = "typed" /\ typed = << >> /\ ~typedEnd
  /\ step' = "answer"
  /\ UNCHANGED <<listening, code, userVars, sending, toPeer, fromPeer, peerVars, displayVars,
                 taken, why>>

(* The end of standard input: shutdown, and out of the loop. *)
TypedEnds ==
  /\ step = "typed" /\ typed = << >> /\ typedEnd
  /\ step' = "done" /\ why' = "end of input"
  /\ UNCHANGED <<listening, code, userVars, sending, toPeer, fromPeer, peerVars, displayVars, taken>>

SendForgetsRest ==
  /\ step = "send" /\ Len(toPeer) < SocketSize
  /\ \E k \in 1..Least(Len(sending), SocketSize - Len(toPeer)) :
       toPeer' = toPeer \o First(sending, k)
  /\ sending' = << >> /\ step' = "answer"
  /\ UNCHANGED <<listening, code, userVars, fromPeer, peerVars, displayVars, taken, why>>

(* write: as much as there is room for, and on with the rest. *)
Send ==
  /\ step = "send" /\ Len(toPeer) < SocketSize
  /\ \E k \in 1..Least(Len(sending), SocketSize - Len(toPeer)) :
       /\ toPeer' = toPeer \o First(sending, k)
       /\ sending' = From(sending, k)
  /\ step' = IF sending' = << >> THEN "answer" ELSE "send"
  /\ UNCHANGED <<listening, code, userVars, fromPeer, peerVars, displayVars, taken, why>>

SendRetries ==
  /\ step = "send" /\ (Len(toPeer) = SocketSize \/ peerEnd)
  /\ UNCHANGED relayVars

(* No room, or a connection that is gone (the signal for that ends nc). *)
SendFails ==
  /\ step = "send" /\ (Len(toPeer) = SocketSize \/ peerEnd)
  /\ step' = "done" /\ why' = "write failed"
  /\ UNCHANGED <<listening, code, userVars, sending, toPeer, fromPeer, peerVars, displayVars, taken>>

(* write_all, whose result is not looked at. *)
ReadAnswer ==
  /\ step = "answer" /\ fromPeer # << >>
  /\ \E k \in 1..Least(BufSize, Len(fromPeer)) :
       /\ came' = came \o First(fromPeer, k) /\ fromPeer' = From(fromPeer, k)
       /\ \E w \in 0..k : /\ w < k => Terminal
                          /\ display' = display \o First(fromPeer, w) /\ dropped' = (dropped \/ w < k)
  /\ step' = "typed"
  /\ UNCHANGED <<listening, code, userVars, sending, toPeer, peerVars, taken, why>>

NoAnswer ==
  /\ step = "answer" /\ fromPeer = << >> /\ ~peerEnd
  /\ step' = "typed"
  /\ UNCHANGED <<listening, code, userVars, sending, toPeer, fromPeer, peerVars, displayVars,
                 taken, why>>

(* The end of what the peer sends. *)
AnswerEnds ==
  /\ step = "answer" /\ fromPeer = << >> /\ peerEnd
  /\ step' = "done" /\ why' = "peer closed"
  /\ UNCHANGED <<listening, code, userVars, sending, toPeer, fromPeer, peerVars, displayVars, taken>>

RelayStep == Connect \/ ReadTyped \/ NothingTyped \/ TypedEnds \/ Send \/ SendFails
             \/ ReadAnswer \/ NoAnswer \/ AnswerEnds
-------------------------------------------------------------------------------
(* The user and the peer. *)

Type ==
  /\ toType # << >>
  /\ typed' = Append(typed, Head(toType)) /\ toType' = Tail(toType)
  /\ UNCHANGED <<step, listening, code, typedEnd, sending, toPeer, fromPeer, peerVars, displayVars,
                 taken, why>>

EndTyping ==
  /\ toType = << >> /\ ~typedEnd /\ typedEnd' = TRUE
  /\ UNCHANGED <<step, listening, code, toType, typed, sending, toPeer, fromPeer, peerVars,
                 displayVars, taken, why>>

PeerReads ==
  /\ toPeer # << >>
  /\ peerGot' = peerGot \o toPeer /\ toPeer' = << >>
  /\ UNCHANGED <<step, listening, code, userVars, sending, fromPeer, toSend, peerEnd, displayVars,
                 taken, why>>

PeerSends ==
  /\ ~SettingUp /\ toSend # << >> /\ ~peerEnd /\ Len(fromPeer) < SocketSize
  /\ fromPeer' = Append(fromPeer, Head(toSend)) /\ toSend' = Tail(toSend)
  /\ UNCHANGED <<step, listening, code, userVars, sending, toPeer, peerGot, peerEnd, displayVars,
                 taken, why>>

PeerCloses ==
  /\ ~SettingUp /\ ~peerEnd /\ peerEnd' = TRUE
  /\ UNCHANGED <<step, listening, code, userVars, sending, toPeer, fromPeer, peerGot, toSend,
                 displayVars, taken, why>>

RelayNext == RelayStep \/ Type \/ EndTyping \/ PeerReads \/ PeerSends \/ PeerCloses

(* nc never waits for more than its sleep of 10 ms once it is connected.   *)
(* The user, the peer and the waiting for a connection are not fair.       *)
RelaySpec == RelayInit /\ [][RelayNext]_relayVars /\ WF_relayVars(RelayStep /\ ~SettingUp)
-------------------------------------------------------------------------------
(* Both directions, in every state: what the peer has and will get and     *)
(* what is still in nc's hands is what nc read from its input, in order,   *)
(* each byte once, although writes are cut by a full socket; nc gives up   *)
(* what it holds only when a write fails.  When nc ends because of one     *)
(* side, that side was heard out: all that was typed is sent before the    *)
(* shutdown, all the peer sent is shown before its close is noticed.       *)
RelayFaithful ==
  /\ peerGot \o toPeer \o sending = taken
  /\ sending # << >> => step = "send" \/ why = "write failed"
  /\ ~dropped => display = came
  /\ why = "end of input" => sending = << >> /\ typed = << >>
  /\ why = "peer closed" => sending = << >> /\ fromPeer = << >>

(* nc ends once either side has. *)
RelayEnds == (typedEnd \/ peerEnd) /\ ~SettingUp ~> step = "done"
===============================================================================
