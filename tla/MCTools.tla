-------------------------------- MODULE MCTools --------------------------------
(***************************************************************************)
(* The tools that have no run of their own, side by side: a behaviour is   *)
(* one command of one of them (model says of which module), from start to  *)
(* end, with the processes that interfere with it.  The variables of the   *)
(* other modules rest at 0, or at an end they came to without doing        *)
(* anything.                                                               *)
(***************************************************************************)
EXTENDS Relay, Response, Sudo, Tree, Dd, Diff, Xargs, Streams, TLC

CONSTANTS x, nl, title    \* bytes

VARIABLES
  model,
  cmd, next, failed, st, total   \* Filters and Editors

filters == <<st, total>>
trees == <<utility, before, tree, arg, part, intoDir, walk, moved, meddled, removal>>
wget == <<request, phase, exitCode, netVars, whole, header, file, saved, split>>
sudo == <<fileVars, stage, status, target, echo, answered, idVars, denied>>
toolVars == <<model, cmd, pc, next, at, failed, lost, shown, ret,
              copyVars, filters, xargsVars, trees, wget, sudo, ddVars, diffVars>>
-------------------------------------------------------------------------------
(* Bytes are letters and newlines.  Files of up to 5 bytes alone, of up to *)
(* 2 with another one behind them or a missing one in front of them.       *)
Bytes(m) == UNION {[1..k -> {x, nl}] : k \in 0..m}
Copy == [tool |-> "cat", files |-> << >>, stdin |-> << >>, old |-> <<<< >>>>, to |-> << >>,
           append |-> FALSE, n |-> 1]
FileLists == {<<Missing, f>> : f \in Bytes(2)} \cup {<<f, <<x, nl>>>> : f \in Bytes(2)}
             \cup {<<f>> : f \in Bytes(5)}
MCStreams ==
  UNION {
    {[Copy EXCEPT !.tool = t, !.files = fs] : t \in {"cat", "cat_n"}, fs \in FileLists},
    {[Copy EXCEPT !.tool = t, !.files = fs, !.n = n] :
        t \in {"head", "tail"}, fs \in FileLists, n \in 0..2},
    {[Copy EXCEPT !.tool = t, !.stdin = f] :
        t \in {"cat", "cat_n", "head", "tail"}, f \in Bytes(5)},
    {[Copy EXCEPT !.tool = "tee", !.stdin = f, !.append = a, !.old = <<<< >>, <<nl>>, third>>] :
        f \in Bytes(3), a \in BOOLEAN, third \in {Missing, << >>}},
    {[Copy EXCEPT !.tool = "cp", !.files = fs, !.old = <<<<nl>>, o>>, !.to = to] :
        fs \in {<<Missing, <<x, nl>>>>, <<<<x, x, nl>>, <<nl>>>>}, o \in {Missing, << >>},
        to \in {<<1, 1>>, <<1, 2>>, <<2, 1>>}}}
(* dd: offsets are modulo 16, so that a skip of 4 blocks of 2 bytes is     *)
(* negative and one of 8 is none at all; blocks of 3 bytes need a mapping, *)
(* ones of 4 are too large.                                                *)
MCData == {x, nl, Null}
MCOrders ==
  UNION {
    [input : {<<x, nl, x, x, nl>>}, old : {<<nl>>}, bs : {2}, count : -1..2, skip : {0, 1, 3, 4, 8},
     seek : {0, 1, 4, 8}, canSkip : BOOLEAN, canSeek : BOOLEAN],
    [input : {Missing, <<x, nl, x, x, nl>>}, old : {Missing, << >>}, bs : {0, 1, 3, 4}, count : -1..2,
     skip : 0..1, seek : 0..1, canSkip : {TRUE}, canSeek : {TRUE}]}

(* 1 is a letter, 2 a newline, 3 a space; a block to hash has 4 bytes, one *)
(* of them for the length.                                                 *)
Words(m) == UNION {[1..k -> 1..3] : k \in 0..m}
Filter == [tool |-> "wc", files |-> << >>, del |-> {}, map |-> [b \in 1..3 |-> b], min |-> 1,
           skipBlank |-> FALSE]
FilterCommands ==
  UNION {
    {[Filter EXCEPT !.tool = t, !.files = <<f>>] : t \in {"wc", "nl"}, f \in Words(4)},
    {[Filter EXCEPT !.tool = t, !.files = <<Missing, f, <<1>>>>] :
        t \in {"wc", "strings"}, f \in Words(2)},
    {[Filter EXCEPT !.tool = "strings", !.min = m, !.files = <<f>>] : m \in 1..2, f \in Words(4)},
    {[Filter EXCEPT !.tool = "nl", !.skipBlank = TRUE, !.files = <<f>>] :
        f \in {Missing} \cup Words(4)},
    {[Filter EXCEPT !.tool = "tr", !.files = <<f>>, !.del = d, !.map[2] = 1] :
        f \in Words(3), d \in {{}, {1, 3}}},
    {[Filter EXCEPT !.tool = t, !.files = <<[i \in 1..n |-> i]>>] :
        t \in {"md5sum", "sha256sum"}, n \in 0..9},
    {[Filter EXCEPT !.tool = "md5sum", !.files = <<<<1, 2, 3>>, Missing, <<4>>>>]}}
F == INSTANCE Filters WITH Commands <- FilterCommands, BufSize <- 2, Newline <- 2,
       Space <- {2, 3}, Printable <- {1, 3}, LineSize <- 4, BlockSize <- 4, LengthSize <- 1

(* One line of up to four characters, or two of up to three; at most three *)
(* arguments, one of them on the command line.                             *)
MCBatches ==
  [input : [1..1 -> UNION {[1..k -> {"a", "b", "sp"}] : k \in 1..4}]
           \cup [1..2 -> UNION {[1..k -> {"a", "sp"}] : k \in 1..3}]
           \cup {<<l, <<"a">>>> : l \in [1..4 -> {"a", "sp"}]},
   max : 0..3, base : {1}]
-------------------------------------------------------------------------------
(* Three names; a tree with a link out of a directory and one to a         *)
(* directory, and one of files and an empty directory in another.          *)
a == <<"a">>
b == <<"b">>
ab == <<"a", "b">>
Regular(n) == File(<<<<n>>>>)
MCForest ==
  { << >> :> Dir @@ <<a>> :> Dir @@ <<a, a>> :> Regular("1") @@ <<a, b>> :> Dir
      @@ <<a, b, ab>> :> Regular("2") @@ <<a, ab>> :> Link(<<b>>)
      @@ <<b>> :> Dir @@ <<b, a>> :> Regular("3") @@ <<b, b>> :> Dir @@ <<ab>> :> Link(<<a>>),
    << >> :> Dir @@ <<a>> :> Regular("1") @@ <<b>> :> Regular("2") @@ <<ab>> :> Dir
      @@ <<ab, a>> :> Dir }
Places == {<<a>>, <<b>>, <<ab>>, <<ab, a>>, <<b, b>>}
Plain == [tool |-> "rm", args |-> << >>, recursive |-> FALSE, force |-> FALSE,
          symbolic |-> FALSE, pattern |-> << >>, type |-> "any"]
(* cp -r copies from one place of the tree to another: a file copied to    *)
(* itself is emptied.                                                      *)
CopyArgs == [1..2 -> Places] \cup {<<<<a>>, <<b>>, <<ab>>>>, <<<<a, a>>, <<b, a>>, <<b>>>>,
                                    <<<<b>>, <<b, a>>, <<a>>>>, <<<<a, a>>, <<b>>, <<a>>>>}
Apart(as) == LET to == as[Len(as)][1] IN
               to # ab /\ \A i \in 1..(Len(as) - 1) : as[i][1] \notin {to, ab}
MCTreeCommands ==
  UNION {
    {[Plain EXCEPT !.args = as, !.recursive = r, !.force = f] :
        as \in [1..2 -> Places], r \in BOOLEAN, f \in BOOLEAN},
    {[Plain EXCEPT !.tool = t, !.args = <<o>>, !.force = f] :
        t \in {"mkdir", "du"}, o \in Places \cup {<<b, b, a>>, <<ab, b>>}, f \in BOOLEAN},
    {[Plain EXCEPT !.tool = "rmdir", !.args = <<o>>] : o \in Places},
    {[Plain EXCEPT !.tool = "find", !.args = <<o>>, !.type = t, !.pattern = g] :
        o \in Places, t \in {"any", "dir", "file", "link"},
        g \in {<<"*">>, <<"a", "*">>, <<"?">>, <<"*", "b">>, <<"a", "?">>}},
    {[Plain EXCEPT !.tool = "cp", !.args = as] : as \in CopyArgs},
    {[Plain EXCEPT !.tool = "cp", !.args = as, !.recursive = TRUE] : as \in {c \in CopyArgs : Apart(c)}},
    {[Plain EXCEPT !.tool = "mv", !.args = as] :
        as \in [1..2 -> Places] \cup {<<<<a>>, <<b>>, <<ab>>>>, <<<<a>>, <<b>>, <<b, b>>>>,
                                         <<<<a, a>>, <<a, b>>, <<b>>>>}},
    {[Plain EXCEPT !.tool = "ln", !.args = as, !.force = f, !.symbolic = s] :
        as \in [1..2 -> Places], f \in BOOLEAN, s \in BOOLEAN}}
MCNames == {a, b, ab}
MCGuest == <<b, b>>

(* Three users (0 is root), of whom one's name begins with the other's;    *)
(* lines of every form, and blank ones.                                    *)
Everyone == <<"A">>
Entry(word, sep, rest) == [kind |-> "entry", word |-> word, sep |-> sep, rest |-> rest]
Other(kind) == [kind |-> kind, word |-> << >>, sep |-> "end", rest |-> "none"]
User(name, uid, gid) == [kind |-> "entry", name |-> name, uid |-> uid, gid |-> gid]
MCConfs ==
  { << >>, Missing, <<Entry(ab, "end", "none")>>, <<Entry(Everyone, "tab", "NOPASSWD")>>,
    <<Entry(Everyone, "space", "NOPASSWD")>>, <<Entry(a, "space", "NOPASSWD")>>,
    <<Other("comment"), Other("blank"), Entry(a, "end", "none")>>,
    <<Entry(ab, "space", "NOPASSWD"), Entry(a, "tab", "other")>> }
MCPasswds ==
  { << >>, <<User(<<"r">>, 0, 0), User(a, 1, 5), User(ab, 2, 6)>>,
    <<User(ab, 1, 7), [User(<< >>, -2, -2) EXCEPT !.kind = "blank"], User(a, 2, 5)>> }
MCCalls == [caller : 0..2, user : {<< >>, a, ab}, there : BOOLEAN]
-------------------------------------------------------------------------------
(* Pairs of files with up to three lines, blank ones among them, or with   *)
(* more lines than diff holds, or more characters.                         *)
FewLines == UNION {[1..k -> {<< >>, <<x>>, <<x, nl>>}] : k \in 0..3}
ManyLines == [1..5 -> {<<x>>, <<x, nl>>}]
Alternating == [i \in 1..5 |-> IF i % 2 = 0 THEN <<x>> ELSE <<x, nl>>]
MCPairs == (FewLines \X FewLines) \cup (ManyLines \X {Alternating, Tail(Alternating)})
           \cup {<<Missing, <<<<x>>>>>>, <<<<<<x>>>>, Missing>>}

(* 0 is a newline, 1 and 2 are letters, of which 2 delimits fields.  The   *)
(* value of a line is its length.                                          *)
Chars(m) == UNION {[1..k -> 0..2] : k \in 0..m}
Number(line) == Len(line)
Editor == [tool |-> "sort", files |-> << >>, reverse |-> FALSE, numeric |-> FALSE, unique |-> FALSE,
           suppress |-> FALSE, script |-> << >>, ranges |-> {}, fields |-> FALSE, serial |-> FALSE,
           delims |-> <<2>>]
Cmd == [from |-> 0, to |-> 0, type |-> "d", find |-> << >>, replace |-> << >>, global |-> FALSE]
Scripts ==
  {<<[Cmd EXCEPT !.type = t, !.from = f[1], !.to = f[2]]>> :
      t \in {"d", "p", "q"}, f \in {<<0, 0>>, <<1, 0>>, <<2, 0>>, <<1, 2>>, <<2, -1>>}}
  \cup {<<[Cmd EXCEPT !.type = "s", !.find = f, !.replace = <<2, 1>>, !.global = g]>> :
           f \in {<< >>, <<1>>, <<1, 1>>}, g \in BOOLEAN}
  \cup {<<[Cmd EXCEPT !.type = "p", !.from = -1]>>,
         <<[Cmd EXCEPT !.type = "s", !.find = <<1>>, !.replace = <<2>>], [Cmd EXCEPT !.from = 2]>>}
EditorCommands ==
  UNION {
    {[Editor EXCEPT !.files = fs, !.reverse = r, !.numeric = n, !.unique = u] :
        fs \in {<<f>> : f \in Chars(4)} \cup {<<f, Missing, <<1>>>> : f \in Chars(2)},
        r \in BOOLEAN, n \in BOOLEAN, u \in BOOLEAN},
    {[Editor EXCEPT !.files = <<f>>] : f \in [1..5 -> 0..2]},
    {[Editor EXCEPT !.tool = "sed", !.files = <<f>>, !.suppress = n, !.script = sc] :
        f \in Chars(4), n \in BOOLEAN, sc \in Scripts},
    {[Editor EXCEPT !.tool = "cut", !.files = fs, !.fields = f, !.ranges = rs] :
        fs \in {<<f>> : f \in Chars(4)} \cup {<<Missing, f, <<1>>>> : f \in Chars(2)},
        f \in BOOLEAN, rs \in {{<<1, 1>>}, {<<2, 9>>}, {<<1, 1>>, <<3, 3>>}}},
    {[Editor EXCEPT !.tool = "paste", !.files = <<f, g>>, !.delims = <<3, 4>>] :
        f \in Chars(3), g \in Chars(2)},
    {[Editor EXCEPT !.tool = "paste", !.files = <<f, <<1, 0>>>>, !.serial = TRUE] : f \in Chars(4)},
    {[Editor EXCEPT !.tool = t, !.files = <<Missing>>] : t \in {"sed", "paste"}}}
E == INSTANCE Editors WITH Commands <- EditorCommands, Newline <- 0, LineSize <- 4,
       BufSize <- 5, PieceSize <- 2, MaxLines <- 3, Value <- Number
-------------------------------------------------------------------------------
(* wget: every kind of host and resolver, headers of one or two symbols,   *)
(* with an end or without one, and bodies that contain the end of a        *)
(* header; the status may be one of an error.  A piece has up to eight     *)
(* symbols, so that short responses arrive whole or cut anywhere.          *)
Gap == <<"cr", "lf", "cr", "lf">>
Get == [scheme |-> "http", host |-> "number", resolver |-> "v4", known |-> TRUE,
        response |-> <<"ok">> \o Gap \o <<"a">>, old |-> <<"o">>, creatable |-> TRUE]
MCRequests ==
  {[Get EXCEPT !.response = h \o e \o f] :
     h \in {<<"ok">>, <<"no">>, <<"ok", "a">>}, e \in {Gap, << >>},
     f \in {<< >>, <<"b", "a">>, <<"a">> \o Gap \o <<"b">>}}
  \cup {[Get EXCEPT !.host = h, !.known = k, !.resolver = r] :
          h \in {"number", "hosts v4", "hosts v6", "dns"}, k \in BOOLEAN, r \in {"v4", "v6", "none"}}
  \cup {[Get EXCEPT !.scheme = "https"], [Get EXCEPT !.creatable = FALSE]}
(* What either side of the connection of nc has to say. *)
Sides == {<< >>, <<1>>, <<1, 2, 3>>}

(* Nobody listens. *)
RelayRests ==
  /\ step = "done" /\ listening = FALSE /\ code = 1 /\ toType = << >> /\ typed = << >>
  /\ typedEnd = FALSE /\ sending = << >> /\ toPeer = << >> /\ peerGot = << >> /\ toSend = << >>
  /\ fromPeer = << >> /\ peerEnd = FALSE /\ display = << >> /\ taken = << >> /\ came = << >>
  /\ dropped = FALSE /\ why = "no connection"

CopyRests ==
  /\ copy = 0 /\ where = "done" /\ nth = 0 /\ contents = 0 /\ upTo = 0 /\ hold = 0 /\ readFailed = TRUE
  /\ pending = 0 /\ sink = 0 /\ outs = 0 /\ cutShort = 0 /\ counted = 0 /\ lineBegins = 0
FiltersRest == /\ st = 0 /\ total = 0
XargsRests ==
  /\ batch = 0 /\ loop = "done" /\ lineNo = 0 /\ lineBuf = 0 /\ cursor = 0 /\ cmdArgv = 0 /\ origin = 0
  /\ ran = 0 /\ spanned = FALSE /\ spoilt = TRUE
TreeRests ==
  /\ utility = [tool |-> "none", args |-> << >>] /\ before = << >> /\ tree = 0 /\ arg = 0 /\ part = 0
  /\ intoDir = 0 /\ walk = 0 /\ moved = 0 /\ meddled = 0
  /\ due = 0 /\ strayed = FALSE /\ missed = {}
WgetRests ==
  /\ request = [old |-> 0] /\ phase = "done" /\ exitCode = 0 /\ asked = 0 /\ unsent = 0 /\ whole = 0
  /\ header = FALSE /\ file = 0 /\ saved = 0 /\ split = {}
SudoRests ==
  /\ call = 0 /\ conf = 0 /\ passwd = 0 /\ hadConf = {} /\ hadPasswd = {} /\ stage = "options"
  /\ status = 0 /\ target = 0 /\ echo = TRUE /\ answered = 0 /\ user = 0 /\ groups = 0 /\ ids = 0
  /\ refused = FALSE /\ executed = FALSE /\ denied = FALSE /\ killed = "no"
DdRests ==
  /\ order = [old |-> 0, input |-> Missing] /\ turn = "done" /\ got = 0 /\ block = 0 /\ left = 0
  /\ output = 0 /\ records = 0 /\ ddCode = 1 /\ broken = {}
DiffRests ==
  /\ pair = 0 /\ doing = "done" /\ reading = 0 /\ place = 0 /\ texts = 0 /\ spot = 0 /\ hunks = 0
  /\ verdict = 2

ToolsInit ==
  \/ /\ model = "copy" /\ CopyInit /\ cmd = 0 /\ pc = "done" /\ next = 0 /\ at = 0
     /\ failed = 0 /\ lost = 0 /\ shown = 0 /\ ret = 0
     /\ RelayRests /\ FiltersRest /\ XargsRests /\ TreeRests /\ WgetRests /\ SudoRests /\ DdRests /\ DiffRests
  \/ /\ model = "filters" /\ F!Init /\ lost = 0 /\ ret = 0
     /\ RelayRests /\ CopyRests /\ XargsRests /\ TreeRests /\ WgetRests /\ SudoRests /\ DdRests /\ DiffRests
  \/ /\ model = "xargs" /\ XargsInit /\ cmd = 0 /\ pc = "done" /\ next = 0 /\ at = 0
     /\ failed = 0 /\ lost = 0 /\ shown = 0 /\ ret = 0
     /\ RelayRests /\ CopyRests /\ FiltersRest /\ TreeRests /\ WgetRests /\ SudoRests /\ DdRests /\ DiffRests
  \/ /\ model = "tree" /\ TreeInit
     /\ cmd = 0 /\ next = 0 /\ at = 0 /\ failed = 0 /\ lost = 0
     /\ RelayRests /\ CopyRests /\ FiltersRest /\ XargsRests /\ WgetRests /\ SudoRests /\ DdRests /\ DiffRests
  \/ /\ model = "wget" /\ ResponseInit /\ cmd = 0 /\ pc = "done" /\ next = 0 /\ failed = 0
     /\ shown = 0 /\ ret = 0
     /\ RelayRests /\ CopyRests /\ FiltersRest /\ XargsRests /\ TreeRests /\ SudoRests /\ DdRests /\ DiffRests
  \/ /\ model = "sudo" /\ SudoInit /\ cmd = 0 /\ pc = "done" /\ next = 0 /\ at = 0 /\ failed = 0
     /\ lost = 0 /\ shown = 0 /\ ret = 0
     /\ RelayRests /\ CopyRests /\ FiltersRest /\ XargsRests /\ TreeRests /\ WgetRests /\ DdRests /\ DiffRests
  \/ /\ model = "diff" /\ DiffInit /\ cmd = 0 /\ pc = "done" /\ next = 0 /\ at = 0
     /\ failed = 0 /\ lost = 0 /\ shown = 0 /\ ret = 0
     /\ RelayRests /\ CopyRests /\ FiltersRest /\ XargsRests /\ TreeRests /\ WgetRests /\ SudoRests /\ DdRests
  \/ /\ model = "editors" /\ E!Init /\ lost = 0 /\ ret = 0 /\ total = 0
     /\ RelayRests /\ CopyRests /\ XargsRests /\ TreeRests /\ WgetRests /\ SudoRests /\ DdRests /\ DiffRests
  \/ /\ model = "relay" /\ RelayInit /\ cmd = 0 /\ pc = "done" /\ next = 0 /\ at = 0
     /\ failed = 0 /\ lost = 0 /\ shown = 0 /\ ret = 0
     /\ CopyRests /\ FiltersRest /\ XargsRests /\ TreeRests /\ WgetRests /\ SudoRests /\ DdRests /\ DiffRests
  \/ /\ model = "dd" /\ DdInit /\ cmd = 0 /\ pc = "done" /\ next = 0 /\ at = 0
     /\ failed = 0 /\ lost = 0 /\ shown = 0 /\ ret = 0
     /\ RelayRests /\ CopyRests /\ FiltersRest /\ XargsRests /\ TreeRests /\ WgetRests /\ SudoRests
     /\ DiffRests

OneCopyNext == model = "copy" /\ CopyNext
               /\ UNCHANGED <<model, relayVars, cmd, pc, next, at, failed, lost, shown, ret,
                              filters, xargsVars, trees, wget, sudo, ddVars, diffVars>>
FiltersNext == model = "filters" /\ F!Next
               /\ UNCHANGED <<model, relayVars, lost, ret, copyVars, xargsVars, trees, wget, sudo, ddVars, diffVars>>
OneXargsNext == model = "xargs" /\ XargsNext
                /\ UNCHANGED <<model, relayVars, cmd, pc, next, at, failed, lost, shown, ret, copyVars, filters, trees, wget, sudo, ddVars, diffVars>>
OneTreeNext == model = "tree" /\ TreeNext
               /\ UNCHANGED <<model, relayVars, cmd, next, at, failed, lost,
                              copyVars, filters, xargsVars, wget, sudo, ddVars, diffVars>>
WgetNext == model = "wget" /\ ResponseNext
            /\ UNCHANGED <<model, relayVars, cmd, pc, next, failed, shown, ret,
                           copyVars, filters, xargsVars, trees, sudo, ddVars, diffVars>>
PrivilegedNext == model = "sudo" /\ SudoNext
                  /\ UNCHANGED <<model, relayVars, cmd, pc, next, at, failed, lost, shown, ret,
                                 copyVars, filters, xargsVars, trees, wget, ddVars, diffVars>>
OneDiffNext == model = "diff" /\ DiffNext
               /\ UNCHANGED <<model, relayVars, cmd, pc, next, at, failed, lost, shown, ret,
                              copyVars, filters, xargsVars, trees, wget, sudo, ddVars>>
EditorsNext == model = "editors" /\ E!Next
               /\ UNCHANGED <<model, relayVars, lost, ret, total,
                              copyVars, xargsVars, trees, wget, sudo, ddVars, diffVars>>
OneRelayNext == model = "relay" /\ RelayNext /\ UNCHANGED toolVars
OneDdNext == model = "dd" /\ DdNext
             /\ UNCHANGED <<model, relayVars, cmd, pc, next, at, failed, lost, shown, ret,
                            copyVars, filters, xargsVars, trees, wget, sudo, diffVars>>

ToolsNext == OneCopyNext \/ FiltersNext \/ OneXargsNext \/ OneTreeNext \/ WgetNext \/ PrivilegedNext
             \/ OneDiffNext \/ EditorsNext \/ OneRelayNext \/ OneDdNext
Spec == ToolsInit /\ [][ToolsNext]_<<relayVars, toolVars>>
        /\ WF_<<relayVars, toolVars>>(OneRelayNext /\ RelayStep /\ ~SettingUp)
-------------------------------------------------------------------------------
(* The properties of the modules, each said of the behaviours of its own. *)
FilterFaithful == model = "filters" => F!FilterFaithful
EditorFaithful == model = "editors" => E!EditorFaithful
SerialDelimits == model = "editors" => E!SerialDelimits
===============================================================================
