-------------------------------- MODULE Response --------------------------------
(***************************************************************************)
(* tools/wget.c: from the name of the host to the file that is saved.      *)
(* A response is a sequence of symbols: its status, other header text, the *)
(* four bytes that end the header, and a body.  recv gives any number of   *)
(* them up to the size of the buffer.  A datagram may be lost; wget waits  *)
(* for the answer of the name server without a limit.                      *)
(*                                                                         *)
(* A request is a record: scheme, host (a number, a name of /etc/hosts     *)
(* with an address of version 4 or 6, or another name), resolver (the line *)
(* of /etc/resolv.conf: an address of version 4 or 6, or none), known (the *)
(* name server has an address), response, old (what is in the output       *)
(* before), creatable.                                                     *)
(***************************************************************************)
EXTENDS Integers, Sequences

CONSTANTS Requests, RecvSize,
          Symbol, Cr, Lf, Errors, Successes  \* symbols, and those that are status codes

ASSUME BufAssumption == RecvSize \in Nat \ {0}
ASSUME SymbolAssumption == {Cr, Lf} \cup Errors \cup Successes \subseteq Symbol
ASSUME RequestsAssumption == \A r \in Requests : r.response \in Seq(Symbol)

VARIABLES
  request,
  phase,  \* "url", "resolve", "dns", "connect", "send", "recv", "done"; "stuck", "killed"
  exitCode,
  asked,  \* how often the name server was asked
  unsent, \* bytes of the HTTP request still to be sent
  at,     \* symbols of the response received
  whole,  \* the connection ends behind that many symbols
  header, \* header_done
  file,   \* the output
  saved,  \* body_received
  lost,   \* history: a write did not take everything
  split   \* history: what two calls of recv have shared: "header", its "end"

responseVars == <<request, phase, exitCode, asked, unsent, at, whole, header, file, saved, lost, split>>
netVars == <<asked, unsent>>
bodyVars == <<at, whole, header, file, saved, lost, split>>

ResponseInit ==
  /\ request \in Requests /\ phase = "url" /\ exitCode = 0 /\ asked = 0 /\ unsent = 2
  /\ at = 0 /\ whole \in 0..Len(request.response) /\ header = FALSE /\ file = request.old /\ saved = 0
  /\ lost = FALSE /\ split = {}

Return(code) == phase' = "done" /\ exitCode' = code
Fail == Return(1)

ParseUrl ==
  /\ phase = "url"
  /\ IF request.scheme = "https" THEN Fail ELSE phase' = "resolve" /\ exitCode' = exitCode
  /\ UNCHANGED <<request, netVars, bodyVars>>

(* A number is taken as it is.  A line of /etc/hosts gives an address; one *)
(* of version 6 is not a number to resolve_host, which goes on to ask the  *)
(* name server for it, like for any other name.  The name server's own     *)
(* address is resolved the same way: one of version 6 by asking for it,    *)
(* until the stack is full.                                                *)
IsNumber == request.host \in {"number", "hosts v4"}
Resolve ==
  /\ phase = "resolve"
  /\ \/ IsNumber /\ phase' = "connect" /\ UNCHANGED <<exitCode, asked>>
     \/ ~IsNumber /\ request.resolver = "v6" /\ phase' = "killed" /\ UNCHANGED <<exitCode, asked>>
     \/ ~IsNumber /\ request.resolver # "v6" /\ phase' = "dns" /\ exitCode' = exitCode /\ asked' = asked + 1
     \/ ~IsNumber /\ request.resolver # "v6" /\ Fail /\ asked' = asked   \* no socket
  /\ UNCHANGED <<request, unsent, bodyVars>>

DnsAnswer ==
  /\ phase = "dns"
  /\ IF request.host = "dns" /\ request.known THEN phase' = "connect" /\ exitCode' = exitCode ELSE Fail
  /\ UNCHANGED <<request, netVars, bodyVars>>

(* The query or its answer is lost; nothing is sent again. *)
DnsLost ==
  /\ phase = "dns" /\ phase' = "stuck"
  /\ UNCHANGED <<request, exitCode, netVars, bodyVars>>

ConnectHost ==
  /\ phase = "connect"
  /\ \/ phase' = "send" /\ exitCode' = exitCode
     \/ Fail
  /\ UNCHANGED <<request, netVars, bodyVars>>

SendRequest ==
  /\ phase = "send" /\ unsent > 0
  /\ \/ unsent' \in 0..(unsent - 1) /\ UNCHANGED <<phase, exitCode>>
     \/ unsent' = unsent /\ Fail
  /\ UNCHANGED <<request, asked, bodyVars>>

Sent ==
  /\ phase = "send" /\ unsent = 0 /\ phase' = "recv"
  /\ UNCHANGED <<request, exitCode, netVars, bodyVars>>
-------------------------------------------------------------------------------
Separator == <<Cr, Lf, Cr, Lf>>
AtMost(a, b) == IF a <= b THEN a ELSE b
EndsInOneLess(buf) == {i \in 1..(Len(buf) - 4) : SubSeq(buf, i, i + 3) = Separator}
EndsIn(buf) == {i \in 1..(Len(buf) - 3) : SubSeq(buf, i, i + 3) = Separator}
FirstIn(S) == CHOOSE i \in S : \A j \in S : i <= j

HasEnd == EndsIn(request.response) # {}
HeaderEnd == FirstIn(EndsIn(request.response))

(* What str_to_uint finds behind the first space of what is searched: the  *)
(* status, if the search began at the beginning, or something that is none.*)
Codes(searched) ==
  IF at = 0 THEN {searched[1]} ELSE Successes \cup Errors

(* write, whose result is not looked at; all of it counts as received. *)
Save(bytes, before) ==
  \E k \in 0..Len(bytes) :
    /\ file' = before \o SubSeq(bytes, 1, k)
    /\ lost' = (lost \/ k < Len(bytes))
    /\ saved' = saved + Len(bytes)

Received(buf) == buf # << >> /\ at' = at + Len(buf)

EndOfHeaderCreatesFirst(buf) ==
  /\ ~header /\ EndsIn(buf) # {} /\ Received(buf)
  /\ LET i == FirstIn(EndsIn(buf)) IN
       \E code \in Codes(SubSeq(buf, 1, i)) :
         \/ /\ code \in Errors \/ ~request.creatable
            /\ Fail /\ file' = << >> /\ UNCHANGED <<header, saved, lost>>
         \/ /\ code \notin Errors /\ request.creatable
            /\ header' = TRUE /\ UNCHANGED <<phase, exitCode>>
            /\ Save(SubSeq(buf, i + 4, Len(buf)), << >>)
  /\ split' = split

(* The header ends in this piece: its status decides, and what is behind   *)
(* it is the beginning of the body.                                        *)
EndOfHeader(buf) ==
  /\ ~header /\ EndsIn(buf) # {} /\ Received(buf)
  /\ LET i == FirstIn(EndsIn(buf)) IN
       \E code \in Codes(SubSeq(buf, 1, i)) :
         \/ /\ code \in Errors \/ ~request.creatable
            /\ Fail /\ UNCHANGED <<header, file, saved, lost>>
         \/ /\ code \notin Errors /\ request.creatable
            /\ header' = TRUE /\ UNCHANGED <<phase, exitCode>>
            /\ Save(SubSeq(buf, i + 4, Len(buf)), << >>)
  /\ split' = split

(* No end of the header in this piece, which is forgotten. *)
InHeader(buf) ==
  /\ ~header /\ EndsIn(buf) = {} /\ Received(buf)
  /\ split' = split \cup {"header"}
                   \cup (IF HasEnd /\ at' \in HeaderEnd..(HeaderEnd + 2) THEN {"end"} ELSE {})
  /\ UNCHANGED <<phase, exitCode, header, file, saved, lost>>

InBody(buf) ==
  /\ header /\ Received(buf)
  /\ Save(buf, file)
  /\ UNCHANGED <<phase, exitCode, header, split>>

Recv ==
  /\ phase = "recv"
  /\ \E k \in 1..AtMost(RecvSize, whole - at) :
       LET buf == SubSeq(request.response, at + 1, at + k) IN
         EndOfHeader(buf) \/ InHeader(buf) \/ InBody(buf)
  /\ UNCHANGED <<request, netVars, whole>>

(* The end of the connection, or an error: either is the end of the body.  *)
RecvEnds ==
  /\ phase = "recv" /\ at = whole
  /\ Return(0)
  /\ UNCHANGED <<request, netVars, bodyVars>>

ResponseNext == ParseUrl \/ Resolve \/ DnsAnswer \/ DnsLost \/ ConnectHost \/ SendRequest \/ Sent
                \/ Recv \/ RecvEnds
ResponseSpec == ResponseInit /\ [][ResponseNext]_responseVars
-------------------------------------------------------------------------------
Body == SubSeq(request.response, HeaderEnd + 4, Len(request.response))

(* The file saved is the body and nothing else, from its first byte, also  *)
(* when the body contains the bytes that end a header or begins in the     *)
(* piece the header ends in; a response that is cut off leaves its         *)
(* beginning.  Left out are a header whose end two calls of recv share,    *)
(* and writes that came short.                                             *)
BodySaved ==
  header /\ "end" \notin split /\ ~lost =>
    /\ file = SubSeq(Body, 1, Len(file)) /\ saved = Len(file)
    /\ phase = "done" /\ at = Len(request.response) => file = Body

(* Whatever fails before the header was read, an error of the server       *)
(* included, leaves the file that was there as it was; a failure is never  *)
(* reported after the file was emptied, nor success for an error page      *)
(* unless two calls of recv shared its header.                             *)
FailureKeepsFile ==
  /\ exitCode = 1 => ~header
  /\ ~header => file = request.old
  /\ phase = "done" /\ exitCode = 0 /\ header /\ split = {} => request.response[1] \notin Errors
===============================================================================
