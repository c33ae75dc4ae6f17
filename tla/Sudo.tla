---------------------------------- MODULE Sudo ----------------------------------
(***************************************************************************)
(* tools/sudo.c with include/auth.h and the searches of include/io.h: who  *)
(* may run what, asked of two readings of /etc/qemt.conf and up to five    *)
(* of /etc/passwd, while an administrator edits either file; the password  *)
(* prompt; and the change of identity before the command is executed.  A   *)
(* signal, Ctrl-C at the prompt or a kill, may end it anywhere.            *)
(*                                                                         *)
(* A line of the configuration is a record: word (a sequence of            *)
(* characters), sep ("end", "space", "tab"), rest, kind ("entry",          *)
(* "comment", "blank": nothing but its newline).  A line of passwd has     *)
(* kind, name, uid, gid.                                                   *)
(***************************************************************************)
EXTENDS Integers, Sequences, FiniteSets

CONSTANTS Calls,        \* what sudo is called with: caller, user, command, there
          Confs, Passwds, Absent,
          Edits,        \* how often an administrator edits
          All,          \* the word ALL
          Letter        \* what words and names are made of

ConfLine == [kind : {"entry", "comment", "blank"}, word : Seq(Letter),
             sep : {"end", "space", "tab"}, rest : STRING]
PasswdLine == [kind : {"entry", "comment", "blank"}, name : Seq(Letter), uid : Int, gid : Int]

ASSUME ConfsAssumption ==
  /\ Confs \ {Absent} \subseteq Seq(ConfLine)
  /\ Passwds \ {Absent} \subseteq Seq(PasswdLine)
ASSUME CallsAssumption == Calls \subseteq [caller : Nat, user : Seq(Letter), there : BOOLEAN]

VARIABLES
  call,
  conf, passwd,   \* the two files as they are now
  hadConf, hadPasswd,  \* history: all they have been
  stage, status,
  target,         \* target_uid, target_gid
  echo,           \* whether the terminal shows what is typed
  answered,       \* history: how many characters were typed
  user,           \* USER of the environment the command gets
  groups,         \* supplementary groups are still there
  refused,        \* history: setgroups went wrong though the super-user asked
  ids,            \* group id, user id
  executed,       \* execve went well
  denied,         \* history: is_user_authorized said no
  killed          \* history: where a signal ended sudo, or "no"

sudoVars == <<call, conf, passwd, hadConf, hadPasswd, stage, status, target, echo, answered,
              user, groups, refused, ids, executed, denied, killed>>
idVars == <<user, groups, refused, ids, executed, killed>>
fileVars == <<call, conf, passwd, hadConf, hadPasswd>>

SudoInit ==
  /\ call \in Calls /\ conf \in Confs /\ passwd \in Passwds
  /\ hadConf = {conf} /\ hadPasswd = {passwd}
  /\ stage = "options" /\ status = 0 /\ target = [uid |-> 0, gid |-> 0]
  /\ echo = TRUE /\ answered = 0
  /\ user = << >>
  /\ groups = TRUE /\ refused = FALSE
  /\ ids = [gid |-> call.caller, uid |-> 0] /\ executed = FALSE
  /\ denied = FALSE /\ killed = "no"

-------------------------------------------------------------------------------
(* The places of the entries a loop over read_line sees: a blank line ends *)
(* it.                                                                     *)
Entries(file) ==
  {i \in IF file = Absent THEN {} ELSE 1..Len(file) :
     file[i].kind = "entry" /\ \A j \in 1..i : file[j].kind # "blank"}

(* uid_to_name, name_to_uid and the search for the group: the first line   *)
(* of passwd that fits.                                                    *)
Nobody == [kind |-> "entry", name |-> << >>, uid |-> -1, gid |-> 0]
FirstOf(fit) == IF fit = {} THEN Nobody ELSE passwd[CHOOSE i \in fit : \A j \in fit : i <= j]
ByUid(uid) == FirstOf({i \in Entries(passwd) : passwd[i].uid = uid})
ByName(name) == FirstOf({i \in Entries(passwd) : passwd[i].name = name})
NameOf(uid) == ByUid(uid).name

AllowsPrefix(l, name) ==
  \/ l.word = All /\ l.sep # "tab"
  \/ Len(name) <= Len(l.word) /\ SubSeq(l.word, 1, Len(name)) = name

(* is_user_authorized on one line: ALL, alone or before a space, or the    *)
(* name, alone or before white space.                                      *)
Allows(l, name) == (l.word = All /\ l.sep # "tab") \/ l.word = name
IsUserAuthorized(uid) ==
  \/ uid = 0
  \/ NameOf(uid) # << >> /\ \E i \in Entries(conf) : Allows(conf[i], NameOf(uid))

(* check_nopasswd, which takes any white space behind ALL. *)
CheckNopasswd(uid) ==
  /\ NameOf(uid) # << >>
  /\ \E i \in Entries(conf) : /\ conf[i].word \in {All, NameOf(uid)}
                               /\ conf[i].sep # "end" /\ conf[i].rest = "NOPASSWD"

-------------------------------------------------------------------------------
Quit == stage' = "done" /\ status' = 1
On(next) == stage' = next /\ status' = status

(* The options: whose identity is asked for. *)
Options ==
  /\ stage = "options"
  /\ IF call.user # << >> /\ ByName(call.user) = Nobody THEN Quit /\ target' = target
     ELSE /\ On("authorize")
          /\ target' = [target EXCEPT !.uid = IF call.user = << >> THEN 0
                                               ELSE ByName(call.user).uid]
  /\ UNCHANGED <<fileVars, denied, echo, answered, idVars>>

Authorize ==
  /\ stage = "authorize"
  /\ denied' = ~IsUserAuthorized(call.caller)
  /\ IF denied' THEN Quit ELSE On("nopasswd")
  /\ UNCHANGED <<fileVars, target, echo, answered, idVars>>

NoPasswd ==
  /\ stage = "nopasswd"
  /\ On(IF call.caller = 0 \/ CheckNopasswd(call.caller) THEN "command" ELSE "prompt")
  /\ UNCHANGED <<fileVars, denied, target, echo, answered, idVars>>

(* read_password: without a terminal there is no answer. *)
Prompt ==
  /\ stage = "prompt"
  /\ \/ On("answer") /\ echo' = FALSE
     \/ Quit /\ echo' = echo
  /\ UNCHANGED <<fileVars, denied, target, answered, idVars>>

(* The rest of read_password; an empty answer is a refusal. *)
Answer ==
  /\ stage = "answer" /\ echo' = TRUE
  /\ answered' \in 0..1
  /\ IF answered' = 0 THEN Quit ELSE On("command")
  /\ UNCHANGED <<fileVars, denied, target, idVars>>

(* find_in_path, or the shell of -s. *)
FindInPath == call.there
Command ==
  /\ stage = "command"
  /\ IF FindInPath THEN On("environment") ELSE Quit
  /\ UNCHANGED <<fileVars, denied, target, echo, answered, idVars>>

(* build_env; the name of root is not looked up. *)
Root == <<"r">>
BuildEnv ==
  /\ stage = "environment" /\ On("group")
  /\ user' = IF target.uid = 0 THEN Root ELSE ByUid(target.uid).name
  /\ UNCHANGED <<fileVars, denied, target, echo, answered, groups, refused, ids, executed, killed>>

(* The group for the target. *)
Group ==
  /\ stage = "group" /\ On("setgroups")
  /\ target' = [target EXCEPT !.gid = IF target.uid = 0 THEN 0 ELSE ByUid(target.uid).gid]
  /\ UNCHANGED <<fileVars, denied, echo, answered, idVars>>

(* setgroups, which only the super-user may do, and whose result is not    *)
(* looked at.                                                              *)
SetGroups ==
  /\ stage = "setgroups" /\ On("setgid")
  /\ \/ groups' = FALSE /\ ids.uid = 0 /\ refused' = refused
     \/ groups' = groups /\ refused' = (ids.uid = 0)
  /\ UNCHANGED <<fileVars, denied, target, echo, answered, user, ids, executed, killed>>

(* setresgid and setresuid: only the super-user may change to any. *)
SetGid ==
  /\ stage = "setgid"
  /\ \/ On("setuid") /\ ids.uid = 0 /\ ids' = [ids EXCEPT !.gid = target.gid]
     \/ Quit /\ ids' = ids
  /\ UNCHANGED <<fileVars, denied, target, echo, answered, user, groups, refused, executed, killed>>
SetUidUnchecked ==
  /\ stage = "setuid" /\ On("exec")
  /\ ids' \in {ids, [ids EXCEPT !.uid = target.uid]}
  /\ UNCHANGED <<fileVars, denied, target, echo, answered, user, groups, refused, executed, killed>>
SetUid ==
  /\ stage = "setuid"
  /\ \/ On("exec") /\ ids' = [ids EXCEPT !.uid = target.uid]
     \/ Quit /\ ids' = ids
  /\ UNCHANGED <<fileVars, denied, target, echo, answered, user, groups, refused, executed, killed>>

Exec ==
  /\ stage = "exec"
  /\ \/ stage' = "done" /\ executed' = TRUE /\ status' = status
     \/ Quit /\ executed' = executed
  /\ UNCHANGED <<fileVars, denied, target, echo, answered, user, groups, refused, ids, killed>>

(* A signal: nothing is caught, and what ECHO was is not put back. *)
Killed ==
  /\ stage # "done" /\ stage' = "done" /\ killed' = stage
  /\ UNCHANGED <<fileVars, status, denied, target, echo, answered, user, groups, refused, ids,
                 executed>>

(* An administrator replaces one of the files. *)
Edit ==
  /\ stage # "done" /\ Cardinality(hadConf) + Cardinality(hadPasswd) < 2 + Edits
  /\ \/ conf' \in Confs \ hadConf /\ passwd' = passwd
     \/ passwd' \in Passwds \ hadPasswd /\ conf' = conf
  /\ hadConf' = hadConf \cup {conf'} /\ hadPasswd' = hadPasswd \cup {passwd'}
  /\ UNCHANGED <<call, stage, status, target, echo, answered, idVars, denied>>

SudoNext == Options \/ Authorize \/ NoPasswd \/ Prompt \/ Answer \/ Command \/ BuildEnv
            \/ Group \/ SetGroups \/ SetGid \/ SetUid \/ Exec \/ Killed \/ Edit
SudoSpec == SudoInit /\ [][SudoNext]_sudoVars
-------------------------------------------------------------------------------
(* Whom a configuration names, blank lines or not, and what a passwd file  *)
(* says.                                                                   *)
Names(c, word, noPasswd) ==
  c # Absent /\ \E i \in 1..Len(c) :
    c[i].kind = "entry" /\ c[i].word = word /\ (noPasswd => c[i].rest = "NOPASSWD")
IsNamed(p, uid, name) == p # Absent /\ \E i \in 1..Len(p) :
                           p[i].kind = "entry" /\ p[i].uid = uid /\ p[i].name = name
HasGroup(p, uid, gid) == p # Absent /\ \E i \in 1..Len(p) :
                           p[i].kind = "entry" /\ p[i].uid = uid /\ p[i].gid = gid
NamesCaller(c, p, noPasswd) == p # Absent /\ \E i \in 1..Len(p) :
  p[i].kind = "entry" /\ p[i].uid = call.caller /\ Names(c, p[i].name, noPasswd)
Granted(noPasswd) ==
  \/ call.caller = 0
  \/ \E c \in hadConf : Names(c, All, noPasswd)
  \/ \E c \in hadConf, p \in hadPasswd : NamesCaller(c, p, noPasswd)

(* A command runs only for a caller whom the configuration grants it, by   *)
(* the very name the caller has, and after an answer unless NOPASSWD       *)
(* stands there, although both files are read anew for every question and  *)
(* may change in between.  Who is named in front of every blank line of a  *)
(* file nobody changes is not turned away.                                 *)
OnlyGranted ==
  /\ executed => Granted(FALSE) /\ (answered > 0 \/ Granted(TRUE))
  /\ denied /\ hadConf = {conf} /\ hadPasswd = {passwd} =>
       call.caller # 0 /\ ~\E i \in Entries(conf) :
         NameOf(call.caller) # << >> /\ conf[i].word = NameOf(call.caller)

(* It runs with the identity asked for, in user id, group and environment: *)
(* root's, or what passwd said at some time of the user named (nobody's,   *)
(* and root's group, where it has forgotten the user meanwhile), only when *)
(* both changes of identity went well, and without the caller's groups     *)
(* unless setgroups refused the super-user, which goes unnoticed.          *)
(* Otherwise sudo returns 1, and leaves a terminal without echo only where *)
(* a signal ended it at the prompt.                                        *)
RunsAsAsked ==
  /\ executed =>
       IF call.user = << >> THEN ids = [gid |-> 0, uid |-> 0] /\ user = Root
       ELSE /\ \E p \in hadPasswd : IsNamed(p, ids.uid, call.user)
            /\ IF ids.uid = 0 THEN user = Root
               ELSE user # << >> => \E p \in hadPasswd : IsNamed(p, ids.uid, user)
            /\ ids.gid # 0 => \E p \in hadPasswd : HasGroup(p, ids.uid, ids.gid)
  /\ executed /\ groups => refused
  /\ stage = "done" => /\ killed # "answer" => echo
                       /\ killed = "no" /\ ~executed => status = 1
=================================================================================
