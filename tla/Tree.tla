---------------------------------- MODULE Tree ----------------------------------
(***************************************************************************)
(* The tools that work on the tree of files: rm, find, du, cp, mv, mkdir,  *)
(* rmdir and ln.  Each of their system calls is a step, and between two    *)
(* of them another process may make or remove one entry, Guest: a file or  *)
(* a directory, and where rm runs also a link to a directory.              *)
(*                                                                         *)
(* A path is a sequence of names, a name one of characters.  tree maps the *)
(* paths that exist to nodes.  A command is a record: tool, args (paths,   *)
(* the destination the last one), recursive, force (ln -f, mkdir -p,       *)
(* du -s), symbolic, pattern, type.                                        *)
(***************************************************************************)
EXTENDS Integers, Sequences, FiniteSets, SequencesExt, Functions

CONSTANTS Name,          \* names of entries
          TreeCommands, Forest, Guest,
          PerRead,       \* entries one getdents64 may return
          Meddling,      \* how often the other process interferes
          CallsMayFail   \* whether calls of rm, rmdir, mkdir, mv and ln may fail that could do it

Path == Seq(Name) \ {<< >>}
LinkIn(t, p) == p \in DOMAIN t /\ t[p].kind = "link"
(* What is in a tree is in a directory, which is in one.  No link leads to *)
(* another.                                                                *)
Rooted(t) == \A p \in DOMAIN t : \A k \in 0..(Len(p) - 1) :
                SubSeq(p, 1, k) \in DOMAIN t /\ t[SubSeq(p, 1, k)].kind = "dir"
LinksLead(t) == \A p \in DOMAIN t : LinkIn(t, p) => t[p].body \in Seq(Name) /\ ~LinkIn(t, t[p].body)

(* The operands of a command are paths that name an entry, ln has two.     *)
(* The entry Guest is not a link at the start.                             *)
ASSUME ForestAssumption ==
  /\ \A t \in Forest : DOMAIN t \subseteq Seq(Name) /\ Rooted(t) /\ LinksLead(t) /\ ~LinkIn(t, Guest)
  /\ Guest \in Path
ASSUME CommandAssumption ==
  \A c \in TreeCommands :
    /\ c.args \in Seq(Path) \ {<< >>}
    /\ c.tool = "ln" => Len(c.args) = 2
    /\ {c.recursive, c.force, c.symbolic} \subseteq BOOLEAN

VARIABLES
  utility,
  before,  \* history: the tree at the start
  tree,
  pc,      \* "start", "run", "done"
  arg,     \* the operand in hand
  part,    \* mkdir -p: components made; ln -f: 1 once the name was removed
  intoDir, \* dest_is_dir
  walk,    \* the open directories, innermost last
  shown,   \* the lines find and du print: <<path, total>>
  ret,
  moved,   \* history: the renames that went well, one after the other
  meddled,
  due,     \* what rm does next with the path it called lstat for
  strayed, \* history: rm went through a link of the other process
  missed   \* history: the operands lstat failed for, with -f, that were there

treeVars == <<utility, before, tree, pc, arg, part, intoDir, walk, shown, ret, moved, meddled,
              due, strayed, missed>>
files == <<tree, moved>>
removal == <<due, strayed, missed>>

Due(call, p) == [call |-> call, path |-> p]   \* call: "none", "open", "unlink"
NothingDue == Due("none", << >>)

Tool(names) == utility.tool \in names
Operands == IF Tool({"cp", "mv", "ln"}) THEN Len(utility.args) - 1 ELSE Len(utility.args)
Dest == utility.args[Len(utility.args)]

-------------------------------------------------------------------------------
(* Names.  At follows a link among the components before the last one, as  *)
(* lstat, unlink and rename do; Through follows the last one too.  A path  *)
(* that would go through a second link names nothing here.                 *)
Dir == [kind |-> "dir", body |-> << >>]
File(body) == [kind |-> "file", body |-> body]
Link(to) == [kind |-> "link", body |-> to]
Is(kind, p) == p \in DOMAIN tree /\ tree[p].kind = kind
AtIn(t, p) ==
  LET links == {k \in 1..(Len(p) - 1) : LinkIn(t, SubSeq(p, 1, k))}
      k     == CHOOSE i \in links : TRUE
  IN  IF links = {} THEN p ELSE t[SubSeq(p, 1, k)].body \o SubSeq(p, k + 1, Len(p))
At(p) == AtIn(tree, p)
Through(p) == IF Is("link", At(p)) THEN tree[At(p)].body ELSE At(p)
Inside(p, q) == IsPrefix(q, p) /\ p # q
Children(p) == {Last(q) : q \in {r \in DOMAIN tree : r # << >> /\ Front(r) = p}}

(* The calls of the kernel: when they succeed, and the tree they leave. *)
Vacant(q) == q \notin DOMAIN tree /\ Is("dir", Front(q))
CanMake(p) == Vacant(At(p))
Put(p, node) == [q \in DOMAIN tree \cup {p} |-> IF q = p THEN node ELSE tree[q]]
Without(S) == Restrict(tree, DOMAIN tree \ S)
CanUnlink(p) == At(p) \in DOMAIN tree /\ ~Is("dir", At(p))
CanRmdir(p) == Is("dir", At(p)) /\ Children(At(p)) = {}
CanRename(p, q) ==
  /\ p \in DOMAIN tree /\ Is("dir", Front(q)) /\ ~Inside(q, p)
  /\ q \in DOMAIN tree => /\ Is("dir", p) <=> Is("dir", q)
                          /\ p = q \/ Children(q) = {}
Renamed(p, q) ==
  LET taken == {r \in DOMAIN tree : r = p \/ Inside(r, p)}
      new   == {q \o SubSeq(r, Len(p) + 1, Len(r)) : r \in taken}
  IN  [r \in (DOMAIN tree \ taken) \cup new |->
         IF r \in new THEN tree[p \o SubSeq(r, Len(q) + 1, Len(r))] ELSE tree[r]]
Removes(p) == tree' = Without({At(p)})

-------------------------------------------------------------------------------
TreeInit ==
  /\ utility \in TreeCommands /\ tree \in Forest /\ before = tree
  /\ pc = "start" /\ arg = 1 /\ part = 0 /\ intoDir = FALSE /\ walk = << >>
  /\ shown = << >> /\ ret = 0 /\ moved = << >> /\ meddled = 0
  /\ due = NothingDue /\ strayed = FALSE /\ missed = {}

(* The destination is looked at once.  mv of several files wants a         *)
(* directory.                                                              *)
Start ==
  /\ pc = "start"
  /\ intoDir' = (Tool({"cp", "mv"}) /\ Is("dir", Through(Dest)))
  /\ IF Tool({"mv"}) /\ Operands > 1 /\ ~intoDir'
     THEN pc' = "done" /\ ret' = 1
     ELSE pc' = "run" /\ ret' = ret
  /\ UNCHANGED <<utility, before, arg, part, walk, shown, meddled, files, removal>>

(* An open directory (at: where the path led when it was opened), and      *)
(* going into one: frames are the directories open then.                   *)
Opened(p, to) == [path |-> p, at |-> Through(p), to |-> to, seen |-> {}, buf |-> {}, total |-> 1]
Stay(frames) == walk' = frames
Enter(p, to, frames) == walk' = Append(frames, Opened(p, to))

(* A path of rm's that leads through the link the other process made; one  *)
(* that is opened also when it leads to it.                                *)
StraysAt(p) == LinkIn(tree, Guest) /\ Inside(p, Guest)
StraysTo(p) == StraysAt(p) \/ (LinkIn(tree, Guest) /\ At(p) = Guest)

RmEntryFollows(p, force, recursive, frames) ==
  /\ Stay(frames) /\ strayed' = (strayed \/ StraysAt(p)) /\ UNCHANGED <<shown, files>>
  /\ \/ Through(p) \notin DOMAIN tree /\ ret' = (IF force THEN ret ELSE 1) /\ UNCHANGED <<due, missed>>
     \/ Is("dir", Through(p)) /\ ~recursive /\ ret' = 1 /\ UNCHANGED <<due, missed>>
     \/ /\ Is("dir", Through(p)) /\ recursive /\ due' = Due("open", p) /\ UNCHANGED <<ret, missed>>
     \/ /\ Is("file", Through(p)) /\ due' = Due("unlink", p) /\ UNCHANGED <<ret, missed>>

(* rm_entry up to the result of lstat: what is not there, or cannot be     *)
(* looked at, is an error unless forced, a directory one unless rm is      *)
(* recursive.                                                              *)
RmEntry(p, force, recursive, frames) ==
  /\ Stay(frames) /\ strayed' = (strayed \/ StraysAt(p)) /\ UNCHANGED <<shown, files>>
  /\ \/ /\ At(p) \notin DOMAIN tree \/ CallsMayFail
        /\ ret' = (IF force THEN ret ELSE 1) /\ due' = due
        /\ missed' = IF force /\ At(p) \in DOMAIN tree THEN missed \cup {p} ELSE missed
     \/ Is("dir", At(p)) /\ ~recursive /\ ret' = 1 /\ UNCHANGED <<due, missed>>
     \/ /\ At(p) \in DOMAIN tree /\ (Is("dir", At(p)) => recursive)
        /\ due' = Due(IF Is("dir", At(p)) THEN "open" ELSE "unlink", p) /\ UNCHANGED <<ret, missed>>

(* The call that follows lstat.  open follows a link at the path; unlink   *)
(* removes it.                                                             *)
RmOpen(p) ==
  /\ \/ Is("dir", Through(p)) /\ Enter(p, p, walk) /\ ret' = ret
     \/ (~Is("dir", Through(p)) \/ CallsMayFail) /\ Stay(walk) /\ ret' = 1
  /\ strayed' = (strayed \/ StraysTo(p)) /\ UNCHANGED files
RmUnlink(p) ==
  /\ \/ CanUnlink(p) /\ Removes(p) /\ ret' = ret
     \/ (~CanUnlink(p) \/ CallsMayFail) /\ tree' = tree /\ ret' = 1
  /\ strayed' = (strayed \/ StraysAt(p)) /\ Stay(walk) /\ moved' = moved

(* match_name: the pattern's characters one by one; a star tries every     *)
(* place that is not the end of the name.                                  *)
MatchName(name, pattern) ==
  LET rest[i \in Nat, j \in Nat] ==   \* from name[i] and pattern[j] on
        IF j > Len(pattern) THEN i > Len(name)
        ELSE IF pattern[j] = "*" THEN j = Len(pattern) \/ \E k \in i..Len(name) : rest[k, j + 1]
        ELSE i <= Len(name) /\ pattern[j] \in {"?", name[i]} /\ rest[i + 1, j + 1]
  IN  rest[1, 1]

Wanted(p, kind) == MatchName(Last(p), utility.pattern) /\ utility.type \in {"any", kind}

(* find_recurse: the operand is opened, and so a link to a directory is    *)
(* followed; an entry is looked at with lstat.                             *)
FindEntry(p, isOperand, frames) ==
  LET q == IF isOperand /\ Is("dir", Through(p)) THEN Through(p) ELSE At(p) IN
    /\ shown' = IF q \in DOMAIN tree /\ Wanted(p, tree[q].kind)
                THEN Append(shown, <<p, 0>>) ELSE shown
    /\ IF Is("dir", q) THEN Enter(p, p, frames) ELSE Stay(frames)
    /\ UNCHANGED <<ret, files>>

(* du_path; a directory is shown when all in it has been added up. *)
PlusForgets(frames, n) == frames
Plus(frames, n) == IF frames = << >> THEN frames
                   ELSE [frames EXCEPT ![Len(frames)].total = @ + n]
Line(p, total, isOperand) ==
  IF isOperand \/ ~utility.force THEN Append(shown, <<p, total>>) ELSE shown
DuEntry(p, isOperand, frames) ==
  /\ CASE Is("dir", At(p)) -> Enter(p, p, frames) /\ shown' = shown
       [] At(p) \in DOMAIN tree /\ ~Is("dir", At(p)) ->
            Stay(Plus(frames, 1)) /\ shown' = Line(p, 1, isOperand)
       [] OTHER -> /\ Stay(frames)
                   /\ shown' = IF isOperand /\ utility.force THEN Line(p, 0, TRUE) ELSE shown
  /\ UNCHANGED <<ret, files>>

(* copy_file: a source that is a directory can be opened and gives no      *)
(* bytes; a source that is the destination is emptied before it is read.   *)
CopyFile(src, dst) ==
  LET s == Through(src)
      d == Through(dst)
      body == IF Is("file", s) /\ s # d THEN tree[s].body ELSE << >>
  IN  IF s \in DOMAIN tree /\ ~Is("dir", d) /\ Is("dir", Front(d))
      THEN tree' = Put(d, File(body)) ELSE tree' = tree
MakeDir(p) == IF CanMake(p) THEN tree' = Put(At(p), Dir) ELSE tree' = tree

(* An entry of a directory that cp copies: a directory is made and left    *)
(* empty.                                                                  *)
CpEntry(src, dst, frames) ==
  /\ IF Is("dir", At(src)) THEN MakeDir(dst) ELSE CopyFile(src, dst)
  /\ Stay(frames) /\ UNCHANGED <<shown, ret, moved>>

TargetDropsName(p) == Dest
Target(p) == IF intoDir THEN Append(Dest, Last(p)) ELSE Dest
CpOperand(p, frames) ==
  /\ IF Is("dir", Through(p)) /\ utility.recursive
     THEN Enter(p, Target(p), frames) /\ MakeDir(Target(p))
     ELSE /\ Stay(frames)
          /\ IF Is("dir", Through(p)) THEN tree' = tree ELSE CopyFile(p, Target(p))
  /\ UNCHANGED <<shown, ret, moved>>

(* An operand of rm, find, du or cp. *)
Operand ==
  /\ pc = "run" /\ walk = << >> /\ due = NothingDue /\ arg <= Operands /\ arg' = arg + 1
  /\ LET p == utility.args[arg] IN
       \/ Tool({"rm"}) /\ RmEntry(p, utility.force, utility.recursive, walk)
       \/ Tool({"find"}) /\ FindEntry(p, TRUE, walk) /\ UNCHANGED removal
       \/ Tool({"du"}) /\ DuEntry(p, TRUE, walk) /\ UNCHANGED removal
       \/ Tool({"cp"}) /\ CpOperand(p, walk) /\ UNCHANGED removal
  /\ UNCHANGED <<utility, before, pc, part, intoDir, meddled>>

(* The open directory: getdents64 gives some of the entries it has not     *)
(* given yet, and the tool goes through them.                              *)
Top == walk[Len(walk)]
Unseen == Children(Top.at) \ Top.seen

Fill ==
  /\ pc = "run" /\ walk # << >> /\ due = NothingDue /\ Top.buf = {}
  /\ \E S \in SUBSET Unseen \ {{}} :
       /\ Cardinality(S) <= PerRead
       /\ walk' = [walk EXCEPT ![Len(walk)].buf = S, ![Len(walk)].seen = @ \cup S]
  /\ UNCHANGED <<utility, before, pc, arg, part, intoDir, shown, ret, meddled, files, removal>>

NextEntry ==
  /\ pc = "run" /\ walk # << >> /\ due = NothingDue
  /\ \E n \in Top.buf :
       LET p    == Append(Top.path, n)
           rest == [walk EXCEPT ![Len(walk)].buf = @ \ {n}]
       IN  \/ Tool({"rm"}) /\ RmEntry(p, FALSE, TRUE, rest)
           \/ Tool({"find"}) /\ FindEntry(p, FALSE, rest) /\ UNCHANGED removal
           \/ Tool({"du"}) /\ DuEntry(p, FALSE, rest) /\ UNCHANGED removal
           \/ Tool({"cp"}) /\ CpEntry(p, Append(Top.to, n), rest) /\ UNCHANGED removal
  /\ UNCHANGED <<utility, before, pc, arg, part, intoDir, meddled>>

(* rm behind its lstat. *)
RmCall ==
  /\ pc = "run" /\ Tool({"rm"}) /\ due' = NothingDue
  /\ \/ due.call = "open" /\ RmOpen(due.path)
     \/ due.call = "unlink" /\ RmUnlink(due.path)
  /\ UNCHANGED <<utility, before, pc, arg, part, intoDir, shown, meddled, missed>>

RmDirectorySilent(frames) ==
  /\ \/ CanRmdir(Top.path) /\ Removes(Top.path)
     \/ (~CanRmdir(Top.path) \/ CallsMayFail) /\ tree' = tree
  /\ Stay(frames) /\ strayed' = (strayed \/ StraysAt(Top.path)) /\ UNCHANGED <<ret, moved, due, missed>>

(* rm_recursive behind its loop: the directory should be empty now. *)
RmDirectory(frames) ==
  /\ \/ CanRmdir(Top.path) /\ Removes(Top.path) /\ ret' = ret
     \/ (~CanRmdir(Top.path) \/ CallsMayFail) /\ tree' = tree /\ ret' = 1
  /\ Stay(frames) /\ strayed' = (strayed \/ StraysAt(Top.path)) /\ UNCHANGED <<moved, due, missed>>

(* The end of the open directory.  An entry that came since it was opened  *)
(* may never be given.                                                     *)
EndDirectory ==
  /\ pc = "run" /\ walk # << >> /\ due = NothingDue /\ Top.buf = {}
  /\ \A n \in Unseen : Append(Top.at, n) = Guest /\ meddled # 0
  /\ LET frames == Front(walk) IN
       \/ Tool({"rm"}) /\ RmDirectory(frames) /\ shown' = shown
       \/ /\ Tool({"du"}) /\ Stay(Plus(frames, Top.total))
          /\ shown' = Line(Top.path, Top.total, frames = << >>) /\ UNCHANGED <<ret, files, removal>>
       \/ Tool({"find", "cp"}) /\ Stay(frames) /\ UNCHANGED <<shown, ret, files, removal>>
  /\ UNCHANGED <<utility, before, pc, arg, part, intoDir, meddled>>

-------------------------------------------------------------------------------
(* The tools that make one call for an operand. *)
Call(can, effect, history) ==
  \/ can /\ tree' = effect /\ moved' = moved \o history /\ ret' = ret
  \/ (~can \/ CallsMayFail) /\ ret' = 1 /\ UNCHANGED files

Mv ==
  /\ Tool({"mv"}) /\ arg' = arg + 1 /\ part' = part
  /\ LET p == At(utility.args[arg])  q == At(Target(utility.args[arg])) IN
       Call(CanRename(p, q), Renamed(p, q), IF p = q THEN << >> ELSE <<<<p, q>>>>)

Rmdir ==
  /\ Tool({"rmdir"}) /\ arg' = arg + 1 /\ part' = part
  /\ LET p == utility.args[arg] IN Call(CanRmdir(p), Without({At(p)}), << >>)

(* mkdir, and mkdir_parents one component after the other: only the last   *)
(* one's result counts, and with -p not that something is there already.   *)
Mkdir ==
  /\ Tool({"mkdir"})
  /\ LET p     == utility.args[arg]
         upTo  == SubSeq(p, 1, part + 1)
         there == At(p) \in DOMAIN tree
     IN  IF utility.force /\ part + 1 < Len(p)
         THEN part' = part + 1 /\ MakeDir(upTo) /\ UNCHANGED <<arg, ret, moved>>
         ELSE /\ part' = 0 /\ arg' = arg + 1
              /\ IF utility.force /\ there THEN UNCHANGED <<ret, files>>
                 ELSE Call(CanMake(p), Put(At(p), Dir), << >>)

(* ln: with -f the name is removed first, whether or not the link can be   *)
(* made then.                                                              *)
LnRemoves ==
  /\ Tool({"ln"}) /\ utility.force /\ part = 0 /\ part' = 1 /\ arg' = arg
  /\ IF CanUnlink(Dest) THEN Removes(Dest) ELSE tree' = tree
  /\ UNCHANGED <<ret, moved>>
Ln ==
  /\ Tool({"ln"}) /\ (utility.force => part = 1) /\ part' = 0 /\ arg' = arg + 1
  /\ LET p == utility.args[1]  s == At(p) IN
       IF utility.symbolic THEN Call(CanMake(Dest), Put(At(Dest), Link(p)), << >>)
       ELSE Call(s \in DOMAIN tree /\ ~Is("dir", s) /\ CanMake(Dest),
                 Put(At(Dest), tree[s]), << >>)

OneCall ==
  /\ pc = "run" /\ arg <= Operands
  /\ Mv \/ Rmdir \/ Mkdir \/ LnRemoves \/ Ln
  /\ UNCHANGED <<utility, before, pc, intoDir, walk, shown, meddled, removal>>

Finish ==
  /\ pc = "run" /\ walk = << >> /\ due = NothingDue /\ arg > Operands /\ pc' = "done"
  /\ UNCHANGED <<utility, before, arg, part, intoDir, walk, shown, ret, meddled, files, removal>>

(* Another process makes or removes the entry Guest.  (What a link it      *)
(* made does to the other tools' paths is left out.)                       *)
GuestLinks == IF Tool({"rm"}) THEN {Link(q) : q \in {r \in DOMAIN tree : Is("dir", r)}} ELSE {}
Meddle ==
  /\ pc = "run" /\ meddled < Meddling /\ meddled' = meddled + 1
  /\ \/ /\ Vacant(Guest)
        /\ \E node \in {Dir, File(Guest)} \cup GuestLinks : tree' = Put(Guest, node)
     \/ Guest \in DOMAIN tree /\ Children(Guest) = {} /\ tree' = Without({Guest})
  /\ UNCHANGED <<utility, before, pc, arg, part, intoDir, walk, shown, ret, moved, removal>>

TreeNext ==
  Start \/ Operand \/ Fill \/ NextEntry \/ RmCall \/ EndDirectory \/ OneCall \/ Finish \/ Meddle
TreeSpec == TreeInit /\ [][TreeNext]_treeVars
-------------------------------------------------------------------------------
(* The places before the first step: an operand's own, and what lies in it. *)
Args == {utility.args[i] : i \in 1..Operands}
Was(p) == AtIn(before, p)
WasIs(kind, p) == p \in DOMAIN before /\ before[p].kind = kind
WasThrough(p) == IF WasIs("link", Was(p)) THEN before[Was(p)].body ELSE Was(p)
Within(q, p) == q = p \/ Inside(q, p)
Kept(q) == q \in DOMAIN tree /\ tree[q] = before[q]

(* Nothing is lost that was not named, although another process makes and  *)
(* removes its entry meanwhile.  rm and rmdir remove what was named and    *)
(* what is in it: what a link in a removed directory leads to stays.  (The *)
(* exception is what that process's own link leads to, where rm went       *)
(* through it: one put in the place of a directory between rm's lstat and  *)
(* its open, which follows it.)  After mv, what is not where it was        *)
(* stood where a source was moved to, or was moved, with its directory or  *)
(* by itself, and is where it was moved to, unless a later operand moved   *)
(* it on or was put in its place.                                          *)
Carried(q, m) == m[2] \o SubSeq(q, Len(m[1]) + 1, Len(q))
Arrived(r, node) == r # Guest => r \in DOMAIN tree /\ tree[r] = node
LosesNothing ==
  \A q \in DOMAIN before \ {Guest} :
    /\ Tool({"rm", "rmdir"}) /\ ~strayed => Kept(q) \/ \E p \in Args : Within(q, Was(p))
    /\ Tool({"mv"}) =>
         \/ Kept(q)
         \/ \E i \in DOMAIN moved : q = moved[i][2]
         \/ \E i \in DOMAIN moved :
              /\ Within(q, moved[i][1])
              /\ LET r == Carried(q, moved[i]) IN
                   \/ Arrived(r, before[q])
                   \/ \E j \in (i + 1)..Len(moved) : Within(r, moved[j][1]) \/ r = moved[j][2]

(* Status 0 is true although the other process interferes: after rm and    *)
(* rmdir nothing named is there, after mkdir all of it, after ln the link. *)
(* It is not for an operand that is the other process's own entry, nor for *)
(* one of rm's that leads through it, nor one that rm -f calls lstat for   *)
(* in vain: any failure of it counts as there being nothing.               *)
StatusTells ==
  pc = "done" /\ ret = 0 =>
    \A p \in {o \in Args : Was(o) # Guest} :
      /\ Tool({"rmdir"}) \/ (Tool({"rm"}) /\ ~Inside(p, Guest) /\ p \notin missed) =>
           At(p) \notin DOMAIN tree
      /\ Tool({"mkdir"}) => Was(p) \in DOMAIN tree
      /\ Tool({"ln"}) /\ Was(Dest) # Guest =>
                         /\ Was(Dest) \in DOMAIN tree
                         /\ tree[Was(Dest)] = IF utility.symbolic THEN Link(p) ELSE before[Was(p)]

(* find and du show every entry below an operand exactly once, although    *)
(* the directory is read piece by piece and changes meanwhile: find those  *)
(* that match, du each with the number of entries in it.                   *)
Began(p) == IF Tool({"find"}) /\ WasIs("dir", WasThrough(p)) THEN WasThrough(p) ELSE Was(p)
Below(p) == {p \o SubSeq(q, Len(Began(p)) + 1, Len(q)) :
               q \in {r \in DOMAIN before : Within(r, Began(p))}}
Node(p, q) == before[Began(p) \o SubSeq(q, Len(p) + 1, Len(q))]
Glob(name, pattern) ==
  \E w \in [DOMAIN pattern -> 0..Len(name)] :
    LET upTo(k) == FoldSeq(LAMBDA a, b : a + b, 0, SubSeq(w, 1, k)) IN
      /\ upTo(Len(pattern)) = Len(name)
      /\ \A k \in DOMAIN pattern :
           pattern[k] # "*" => w[k] = 1 /\ pattern[k] \in {"?", name[upTo(k)]}
WalkOnce ==
  pc = "done" /\ Tool({"find", "du"}) =>
    \A p \in Args :
      LET times(q) == Cardinality({i \in 1..Len(shown) : shown[i][1] = q})
          wanted(q) ==
            IF Tool({"du"}) THEN ~utility.force \/ q = p
            ELSE Glob(Last(q), utility.pattern) /\ utility.type \in {"any", Node(p, q).kind}
      IN  \A q \in Below(p) :
            At(q) # Guest =>
              /\ times(q) = IF wanted(q) THEN 1 ELSE 0
              /\ Tool({"du"}) /\ meddled = 0 => \A i \in 1..Len(shown) :
                   shown[i][1] = q =>
                     shown[i][2] = Cardinality({r \in Below(p) : Within(r, q)})

(* cp writes to where the copies go (Copies: a file or directory named;    *)
(* Parts: what is directly in such a directory) and changes nothing else,  *)
(* a directory never.  At the end each file named, and each one directly   *)
(* in a directory named, is with its contents where it was copied to,      *)
(* unless it was written over itself or something else was copied to the   *)
(* same place.  There was a directory for it, or cp -r made one, because   *)
(* nothing else was copied to where that should be.                        *)
Into(p) == IF WasIs("dir", WasThrough(Dest)) THEN Append(Dest, Last(p)) ELSE Dest
Copies == {<<p, Into(p)>> : p \in Args}
Part(c, n) == <<Append(c[1], n), Append(c[2], n)>>
Parts(c) ==
  {Part(c, n) : n \in {m \in Name : utility.recursive
                                    /\ Append(WasThrough(c[1]), m) \in DOMAIN tree \cup {Guest}}}
WrittenTo(q) == {j \in Copies \cup UNION {Parts(c) : c \in Copies} : WasThrough(j[2]) = q}
Lasting(q) == WasIs("dir", q) /\ q # Guest
New(c) == LET to == Was(c[2]) IN
            to \notin DOMAIN before \cup {Guest} /\ Lasting(Front(to)) /\ WrittenTo(to) = {c}
Copied(c, j) ==
  LET s == WasThrough(j[1])  d == WasThrough(j[2]) IN
    /\ WasIs("file", s) /\ ~WasIs("dir", d) /\ Guest \notin {s, d, WasThrough(c[1])}
    /\ WrittenTo(s) = {} /\ \A o \in WrittenTo(d) : WasThrough(o[1]) = s
    /\ Lasting(Front(d)) \/ (Front(d) = Was(c[2]) /\ New(c))
    => Is("file", d) /\ tree[d].body = before[s].body
CopyFaithful ==
  Tool({"cp"}) =>
    /\ \A q \in DOMAIN before \ {Guest} : WrittenTo(q) = {} \/ WasIs("dir", q) => Kept(q)
    /\ pc = "done" => \A c \in Copies : \A j \in {c} \cup Parts(c) : Copied(c, j)

(* cp.c:63, "-r  Copy directories recursively": every file below the       *)
(* directory is in the copy.                                               *)
CopiesRecursively ==
  Tool({"cp"}) /\ pc = "done" /\ utility.recursive /\ meddled = 0 =>
    \A c \in Copies : LET s == WasThrough(c[1])  d == c[2] IN
      WasIs("dir", s) /\ d \notin DOMAIN before /\ Is("dir", d) =>
        \A q \in DOMAIN before :
          Inside(q, s) /\ before[q].kind = "file" =>
            Is("file", d \o SubSeq(q, Len(s) + 1, Len(q)))
=================================================================================
