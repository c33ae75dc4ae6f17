------------------------------ MODULE Tree_proofs ------------------------------
(***************************************************************************)
(* What holds of rm, rmdir, mkdir, ln, mv and cp (module Tree) for every   *)
(* tree, every list of operands and every moment another process makes or  *)
(* removes its entry: nothing is lost that was not named, status 0 is      *)
(* true, and copies are faithful - where rm goes through the link that     *)
(* process made, and where rm -f calls lstat in vain, with the exceptions  *)
(* the properties name.                                                    *)
(***************************************************************************)
EXTENDS Tree, SequenceTheorems, TLAPS

Typed(t) == DOMAIN t \subseteq Seq(Name) /\ \A r \in DOMAIN t : LinkIn(t, r) => t[r].body \in Seq(Name)
Frame == [path : Path, at : Seq(Name), to : Path, seen : SUBSET Name, buf : SUBSET Name, total : Nat]

RemovalOK ==
  /\ due \in [call : {"none", "open", "unlink"}, path : Seq(Name)]
  /\ due # NothingDue => due.path \in Path /\ arg - 1 \in 1..Operands
  /\ strayed \in BOOLEAN /\ missed \subseteq Path
  /\ Tool({"rm"}) \/ (due = NothingDue /\ ~strayed)
TreeTypeOK ==
  /\ utility \in TreeCommands /\ before \in Forest
  /\ Typed(tree)
  /\ pc \in {"start", "run", "done"} /\ arg \in Nat \ {0} /\ part \in Nat /\ intoDir \in BOOLEAN
  /\ walk \in Seq(Frame) /\ ret \in {0, 1} /\ moved \in Seq(Path \X Path) /\ meddled \in Nat
  /\ walk # << >> => arg - 1 \in 1..Operands
  /\ arg <= Operands + 1 /\ RemovalOK

(* rm, rmdir, and ln before it makes its link: what is in the tree was     *)
(* there before, but for the other process's entry.                        *)
Removing == Tool({"rm", "rmdir"}) \/ (Tool({"ln"}) /\ arg = 1)
OnlyRemoved ==
  /\ \A r \in DOMAIN tree \ {Guest} : r \in DOMAIN before /\ tree[r] = before[r]
  /\ LinkIn(tree, Guest) => Tool({"rm"})

(* What is gone was named, or was in what was named, unless rm went        *)
(* through the link of the other process.                                  *)
GoneWasNamed ==
  ~strayed => \A q \in DOMAIN before \ {Guest} : q \in DOMAIN tree \/ \E p \in Args : Within(q, Was(p))

(* rm is in the operand it looked at last, and came there through no link  *)
(* behind that operand; what it will open was no link, what it will unlink *)
(* may be one.                                                             *)
Reached(p, x) == IsPrefix(p, x) /\ \A k \in Len(p)..(Len(x) - 1) : ~LinkIn(before, SubSeq(x, 1, k))
Walked(p, x) == IsPrefix(p, x) /\ \A k \in Len(p)..Len(x) : ~LinkIn(before, SubSeq(x, 1, k))
DueReached(o) ==
  due # NothingDue => Reached(o, due.path) /\ (due.call = "open" => Walked(o, due.path))
WalksOperand ==
  LET o == utility.args[arg - 1] IN
    /\ walk # << >> => walk[1].path = o
    /\ walk = << >> /\ due # NothingDue => due.path = o
    /\ ~strayed => (\A i \in 1..Len(walk) : Walked(o, walk[i].path)) /\ DueReached(o)

(* As long as nothing failed, the operands rm and rmdir are done with are  *)
(* not there, but for those StatusTells excepts.                           *)
Idle == walk = << >> /\ due = NothingDue
Excused(p) == Was(p) = Guest \/ (Tool({"rm"}) /\ (Inside(p, Guest) \/ p \in missed))
OperandsGone ==
  ret = 0 =>
    \A i \in 1..(arg - 1) :
      (i = arg - 1 => Idle) => LET p == utility.args[i] IN Excused(p) \/ At(p) \notin DOMAIN tree

(* mkdir leaves alone what was there, and the operands it is done with are *)
(* there.                                                                  *)
OnlyMade ==
  /\ \A q \in DOMAIN before \ {Guest} : Kept(q)
  /\ \A r \in DOMAIN tree : LinkIn(tree, r) => r \in DOMAIN before \ {Guest}
OperandsMade ==
  ret = 0 => \A i \in 1..(arg - 1) : LET p == utility.args[i] IN Was(p) = Guest \/ Was(p) \in DOMAIN tree

(* ln: the link is there once it is made.                                  *)
LinkMade ==
  arg = 2 /\ ret = 0 =>
    LET p == utility.args[1] IN
      Guest \in {Was(p), Was(Dest)} \/ /\ Was(Dest) \in DOMAIN tree
                                       /\ tree[Was(Dest)] = IF utility.symbolic THEN Link(p) ELSE before[Was(p)]

(* A tool that ends with status 0 went through all its operands, and cp    *)
(* always.                                                                 *)
Completed == pc = "done" /\ (ret = 0 \/ Tool({"cp"})) => arg > Operands /\ Idle

(* cp leaves links what they were, and what was there but for the places   *)
(* files are copied to.                                                    *)
SameLinks ==
  /\ \A r \in DOMAIN tree : LinkIn(tree, r) => LinkIn(before, r) /\ tree[r] = before[r]
  /\ \A r \in DOMAIN before : LinkIn(before, r) => LinkIn(tree, r)
OthersKept ==
  \A q \in DOMAIN before \ {Guest} :
    q \in DOMAIN tree /\ (WrittenTo(q) = {} \/ WasIs("dir", q) => Kept(q))

(* What is new: a directory where one was copied to, a file where not only *)
(* one was.                                                                *)
NewDirs ==
  \A r \in DOMAIN tree \ {Guest} :
    Is("dir", r) => WasIs("dir", r) \/ \E j \in WrittenTo(r) : WasThrough(j[1]) = Guest \/ Is("dir", WasThrough(j[1]))
NewFiles ==
  \A r \in DOMAIN tree \ (DOMAIN before \cup {Guest}) :
    Is("dir", r) \/ \E j \in WrittenTo(r) : j \in Copies => ~Lasting(WasThrough(j[1]))

(* The directory in hand is the operand before arg; what was given of it   *)
(* was there.                                                              *)
Copy(i) == <<utility.args[i], Into(utility.args[i])>>
CpWalk ==
  walk # << >> =>
    /\ Len(walk) = 1 /\ utility.recursive
    /\ Top.path = utility.args[arg - 1] /\ Top.to = Into(utility.args[arg - 1])
    /\ Top.at = WasThrough(Top.path) /\ Top.buf \subseteq Top.seen
    /\ \A n \in Top.seen : Append(WasThrough(Top.path), n) \in DOMAIN tree \cup {Guest}

(* What cp is done with is copied.                                         *)
DoneWith(i, n) == i = arg - 1 /\ walk # << >> => n \in Top.seen \ Top.buf
OperandCopied(i) == Copied(Copy(i), Copy(i))
PartCopied(i, n) == Copied(Copy(i), Part(Copy(i), n))
DirMade(i) ==
  utility.recursive /\ Lasting(WasThrough(Copy(i)[1])) /\ New(Copy(i)) => Is("dir", Was(Copy(i)[2]))
AllCopied ==
  \A i \in 1..(arg - 1) :
    /\ OperandCopied(i) /\ DirMade(i)
    /\ \A n \in Name : utility.recursive /\ DoneWith(i, n) => PartCopied(i, n)

CpTree == SameLinks /\ OthersKept /\ NewDirs /\ NewFiles
CpInv ==
  /\ CpTree /\ CpWalk
  /\ pc = "start" => tree = before /\ arg = 1 /\ walk = << >>
  /\ pc # "start" => (intoDir <=> WasIs("dir", WasThrough(Dest))) /\ AllCopied

TreeInv ==
  /\ TreeTypeOK /\ Rooted(tree) /\ Completed
  /\ Removing => OnlyRemoved
  /\ Tool({"rm", "rmdir"}) => GoneWasNamed /\ OperandsGone
  /\ Tool({"rm"}) => WalksOperand
  /\ Tool({"rmdir", "mkdir", "ln", "mv"}) => walk = << >>
  /\ Tool({"mkdir"}) => OnlyMade /\ OperandsMade
  /\ Tool({"ln"}) => LinkMade
  /\ Tool({"mv"}) => LosesNothing
  /\ Tool({"cp"}) => CpInv
-------------------------------------------------------------------------------
(* Paths.                                                                  *)
LEMMA Upto ==
  ASSUME NEW p \in Seq(Name), NEW k \in 0..Len(p)
  PROVE  /\ SubSeq(p, 1, k) \in Seq(Name) /\ Len(SubSeq(p, 1, k)) = k
         /\ \A j \in 0..k : SubSeq(SubSeq(p, 1, k), 1, j) = SubSeq(p, 1, j)
         /\ SubSeq(p, 1, Len(p)) = p
<1>1. SubSeq(p, 1, k) \in Seq(Name) /\ Len(SubSeq(p, 1, k)) = k
  <2>1. CASE k = 0
    BY <2>1
  <2>2. CASE k > 0
    BY <2>2, SubSeqProperties
  <2> QED BY <2>1, <2>2
<1>2. ASSUME NEW j \in 0..k PROVE SubSeq(SubSeq(p, 1, k), 1, j) = SubSeq(p, 1, j)
  <2> DEFINE s == SubSeq(p, 1, k)
  <2>1. s \in Seq(Name) /\ Len(s) = k
    BY <1>1
  <2>2. \A i \in 1..k : s[i] = p[i]
    BY <1>1
  <2> HIDE DEF s
  <2>3. Len(SubSeq(s, 1, j)) = j /\ Len(SubSeq(p, 1, j)) = j
    BY <2>1
  <2>4. \A i \in 1..j : SubSeq(s, 1, j)[i] = SubSeq(p, 1, j)[i]
    BY <2>1, <2>2
  <2>5. SubSeq(s, 1, j) \in Seq(Name) /\ SubSeq(p, 1, j) \in Seq(Name)
    <3>1. \A i \in 1..j : s[i] \in Name /\ p[i] \in Name
      BY <2>1
    <3> QED BY <3>1, <2>1
  <2> QED BY <2>3, <2>4, <2>5, SeqEqual DEF s
<1>3. SubSeq(p, 1, Len(p)) = p
  OBVIOUS
<1> QED BY <1>1, <1>2, <1>3

LEMMA Order ==
  ASSUME NEW i \in Nat, NEW j \in Nat
  PROVE  /\ i < j \/ i = j \/ ~(i <= j)
         /\ i < j => i <= j /\ i # j
         /\ i = j => i <= j
OBVIOUS

LEMMA WithinIs ==
  ASSUME NEW x \in Seq(Name), NEW q \in Seq(Name)
  PROVE  /\ Within(x, q) <=> Len(q) <= Len(x) /\ SubSeq(x, 1, Len(q)) = q
         /\ Inside(x, q) <=> Len(q) < Len(x) /\ SubSeq(x, 1, Len(q)) = q
         /\ IsPrefix(q, x) <=> Len(q) <= Len(x) /\ SubSeq(x, 1, Len(q)) = q
<1>1. SubSeq(q, 1, Len(q)) = q /\ SubSeq(x, 1, Len(x)) = x /\ Len(x) \in Nat /\ Len(q) \in Nat
  OBVIOUS
<1>2. Len(q) = Len(x) /\ SubSeq(x, 1, Len(q)) = q => x = q
  BY <1>1
<1>2a. x = q => Len(q) = Len(x) /\ SubSeq(x, 1, Len(q)) = q
  BY <1>1, Zenon
<1>2d. Len(q) \in Nat /\ Len(x) \in Nat
  BY <1>1
<1>2b. Len(q) < Len(x) \/ Len(q) = Len(x) \/ ~(Len(q) <= Len(x))
  BY <1>2d, Order
<1>3. IsPrefix(q, x) <=> Len(q) <= Len(x) /\ SubSeq(x, 1, Len(q)) = q
  BY <1>1 DEF IsPrefix
<1>4. Inside(x, q) <=> Len(q) < Len(x) /\ SubSeq(x, 1, Len(q)) = q
  <2>1. Inside(x, q) <=> Len(q) <= Len(x) /\ SubSeq(x, 1, Len(q)) = q /\ x # q
    BY <1>3 DEF Inside
  <2>2. Len(q) < Len(x) => Len(q) <= Len(x) /\ Len(q) # Len(x)
    BY <1>2d, Order
  <2>3. CASE Len(q) < Len(x)
    BY <2>1, <2>2, <2>3, <1>2a, Zenon
  <2>4. CASE Len(q) = Len(x)
    <3>1. ~(Len(q) < Len(x))
      BY <2>4, <1>1
    <3> QED BY <2>1, <2>4, <3>1, <1>2, Zenon
  <2>5. CASE ~(Len(q) <= Len(x))
    BY <2>1, <2>2, <2>5, Zenon
  <2> QED BY <2>3, <2>4, <2>5, <1>2b
<1>5. Within(x, q) <=> Len(q) <= Len(x) /\ SubSeq(x, 1, Len(q)) = q
  <2>1. Len(q) < Len(x) => Len(q) <= Len(x)
    BY <1>1
  <2>2. Len(q) = Len(x) => Len(q) <= Len(x)
    BY <1>1
  <2> QED BY <1>4, <2>1, <2>2, <1>2, <1>2a, <1>2b, Zenon DEF Within
<1> QED BY <1>3, <1>4, <1>5

LEMMA FrontIs ==
  ASSUME NEW p \in Path
  PROVE  Front(p) = SubSeq(p, 1, Len(p) - 1) /\ Len(p) \in Nat /\ Len(p) > 0 /\ Last(p) \in Name /\ p \in Seq(Name)
BY DEF Front, Last, Path


-------------------------------------------------------------------------------
(* Trees and what paths lead to.                                           *)
LEMMA BeforeIs ==
  ASSUME before \in Forest
  PROVE  Typed(before) /\ Rooted(before) /\ ~LinkIn(before, Guest) /\ Guest \in Path /\ Guest \in Seq(Name)
BY ForestAssumption DEF Typed, LinksLead, Path

(* Whatever lies on the way to what is there is a directory.               *)
LEMMA OnTheWay ==
  ASSUME NEW t, Rooted(t), Typed(t), NEW y \in DOMAIN t, NEW k \in 0..(Len(y) - 1)
  PROVE  SubSeq(y, 1, k) \in DOMAIN t /\ t[SubSeq(y, 1, k)].kind = "dir" /\ ~LinkIn(t, SubSeq(y, 1, k))
<1>1. SubSeq(y, 1, k) \in DOMAIN t /\ t[SubSeq(y, 1, k)].kind = "dir"
  BY DEF Rooted
<1> QED BY <1>1 DEF LinkIn

LEMMA PathIn ==
  ASSUME NEW t, Rooted(t), Typed(t), NEW x \in Path
  PROVE  /\ (\A k \in 1..(Len(x) - 1) : ~LinkIn(t, SubSeq(x, 1, k))) => AtIn(t, x) = x
         /\ \A k \in 1..(Len(x) - 1) : LinkIn(t, SubSeq(x, 1, k)) =>
              /\ AtIn(t, x) = t[SubSeq(x, 1, k)].body \o SubSeq(x, k + 1, Len(x))
              /\ \A j \in 1..(Len(x) - 1) : LinkIn(t, SubSeq(x, 1, j)) => j = k
<1> DEFINE links == {k \in 1..(Len(x) - 1) : LinkIn(t, SubSeq(x, 1, k))}
<1>x. x \in Seq(Name) /\ Len(x) \in Nat
  BY DEF Path
<1>1. AtIn(t, x) = IF links = {} THEN x
                   ELSE t[SubSeq(x, 1, CHOOSE i \in links : TRUE)].body
                          \o SubSeq(x, (CHOOSE i \in links : TRUE) + 1, Len(x))
  BY DEF AtIn
<1>2. ASSUME NEW i \in links, NEW j \in links PROVE ~(i < j)
  <2>1. SUFFICES ASSUME i < j PROVE FALSE
    OBVIOUS
  <2>2. i \in 1..(Len(x) - 1) /\ j \in 1..(Len(x) - 1) /\ j \in 0..Len(x) /\ i \in 0..j
    BY <2>1, <1>x
  <2>3. SubSeq(x, 1, j) \in DOMAIN t /\ Len(SubSeq(x, 1, j)) = j
    BY <2>2, <1>x, Upto DEF LinkIn
  <2>4. i \in 0..(Len(SubSeq(x, 1, j)) - 1)
    BY <2>1, <2>2, <2>3
  <2>5. ~LinkIn(t, SubSeq(SubSeq(x, 1, j), 1, i))
    BY <2>3, <2>4, OnTheWay
  <2>6. SubSeq(SubSeq(x, 1, j), 1, i) = SubSeq(x, 1, i)
    BY <2>2, <1>x, Upto
  <2> QED BY <2>5, <2>6
<1>3. ASSUME NEW i \in links, NEW j \in links PROVE i = j
  <2>1. i \in Nat /\ j \in Nat
    BY <1>x
  <2> QED BY <2>1, <1>2
<1>4. (\A k \in 1..(Len(x) - 1) : ~LinkIn(t, SubSeq(x, 1, k))) => AtIn(t, x) = x
  BY <1>1
<1>5. ASSUME NEW k \in 1..(Len(x) - 1), LinkIn(t, SubSeq(x, 1, k))
      PROVE  /\ AtIn(t, x) = t[SubSeq(x, 1, k)].body \o SubSeq(x, k + 1, Len(x))
             /\ \A j \in 1..(Len(x) - 1) : LinkIn(t, SubSeq(x, 1, j)) => j = k
  <2>1. k \in links
    BY <1>5
  <2>2. (CHOOSE i \in links : TRUE) = k
    <3>1. (CHOOSE i \in links : TRUE) \in links
      BY <2>1
    <3> QED BY <3>1, <2>1, <1>3
  <2>3. AtIn(t, x) = t[SubSeq(x, 1, k)].body \o SubSeq(x, k + 1, Len(x))
    <3> HIDE DEF links
    <3> QED BY <1>1, <2>1, <2>2
  <2>4. \A j \in 1..(Len(x) - 1) : LinkIn(t, SubSeq(x, 1, j)) => j = k
    BY <2>1, <1>3
  <2> QED BY <2>3, <2>4
<1> QED BY <1>4, <1>5

LEMMA AtType ==
  ASSUME NEW t, Rooted(t), Typed(t), NEW x \in Path
  PROVE  AtIn(t, x) \in Path
<1>x. x \in Seq(Name) /\ Len(x) \in Nat /\ Len(x) > 0
  BY DEF Path
<1>1. CASE \A k \in 1..(Len(x) - 1) : ~LinkIn(t, SubSeq(x, 1, k))
  BY <1>1, PathIn
<1>2. CASE \E k \in 1..(Len(x) - 1) : LinkIn(t, SubSeq(x, 1, k))
  <2> PICK k \in 1..(Len(x) - 1) : LinkIn(t, SubSeq(x, 1, k))
    BY <1>2
  <2> DEFINE body == t[SubSeq(x, 1, k)].body
             rest == SubSeq(x, k + 1, Len(x))
  <2>1. AtIn(t, x) = body \o rest
    BY PathIn
  <2>2. body \in Seq(Name)
    BY DEF Typed, LinkIn
  <2>3. rest \in Seq(Name) /\ Len(rest) = Len(x) - k
    BY <1>x, SubSeqProperties
  <2> HIDE DEF body, rest
  <2>4. body \o rest \in Seq(Name) /\ Len(body \o rest) = Len(body) + Len(rest)
    BY <2>2, <2>3
  <2>5. Len(body \o rest) > 0
    BY <2>2, <2>3, <2>4, <1>x
  <2>6. body \o rest # << >>
    BY <2>5
  <2> QED BY <2>1, <2>4, <2>6 DEF Path
<1> QED BY <1>1, <1>2


(* What lies behind the other process's entry on a path is inside it.      *)
LEMMA BehindGuest ==
  ASSUME Guest \in Seq(Name), NEW x \in Path, NEW k \in 1..(Len(x) - 1), SubSeq(x, 1, k) = Guest
  PROVE  Inside(x, Guest)
<1>1. x \in Seq(Name) /\ k \in 0..Len(x) /\ k < Len(x)
  BY DEF Path
<1>2. Len(Guest) = k
  BY <1>1, Upto
<1> QED BY <1>1, <1>2, WithinIs

(* A path that leads into a directory of what is left leads where it led,  *)
(* unless it goes through the other process's link: had a link on the way  *)
(* been removed, nothing would be behind it.                               *)
LEMMA Resolves ==
  ASSUME before \in Forest, Typed(tree), Rooted(tree), OnlyRemoved, NEW x \in Path, ~StraysAt(x)
  PROVE  /\ At(x) \in Path /\ Was(x) \in Path
         /\ Is("dir", Front(At(x))) => At(x) = Was(x)
         /\ At(x) \in DOMAIN tree => At(x) = Was(x)
         /\ At(x) = Was(x) \/ At(x) = x
<1>b. Typed(before) /\ Rooted(before) /\ ~LinkIn(before, Guest) /\ Guest \in Seq(Name)
  BY BeforeIs
<1>x. x \in Seq(Name) /\ Len(x) \in Nat /\ Len(x) > 0
  BY DEF Path
<1>1. At(x) \in Path /\ Was(x) \in Path
  BY <1>b, AtType DEF At, Was
<1>2. ASSUME NEW k \in 1..(Len(x) - 1), LinkIn(tree, SubSeq(x, 1, k))
      PROVE  LinkIn(before, SubSeq(x, 1, k)) /\ tree[SubSeq(x, 1, k)] = before[SubSeq(x, 1, k)]
  <2>1. SubSeq(x, 1, k) # Guest
    BY <1>b, <1>2, BehindGuest DEF StraysAt
  <2> QED BY <1>2, <2>1 DEF OnlyRemoved, LinkIn
<1>3. CASE \A k \in 1..(Len(x) - 1) : ~LinkIn(before, SubSeq(x, 1, k))
  <2>1. AtIn(before, x) = x
    BY <1>3, <1>b, PathIn
  <2>2. AtIn(tree, x) = x
    BY <1>3, <1>2, PathIn
  <2> QED BY <2>1, <2>2, <1>1 DEF At, Was
<1>4. CASE \E k \in 1..(Len(x) - 1) : LinkIn(before, SubSeq(x, 1, k))
  <2> PICK k \in 1..(Len(x) - 1) : LinkIn(before, SubSeq(x, 1, k))
    BY <1>4
  <2> DEFINE l == SubSeq(x, 1, k)
  <2>1. /\ AtIn(before, x) = before[l].body \o SubSeq(x, k + 1, Len(x))
        /\ \A j \in 1..(Len(x) - 1) : LinkIn(before, SubSeq(x, 1, j)) => j = k
    BY <1>b, PathIn
  <2>2. CASE LinkIn(tree, l)
    <3>1. AtIn(tree, x) = tree[l].body \o SubSeq(x, k + 1, Len(x))
      BY <2>2, PathIn
    <3> QED BY <3>1, <2>1, <2>2, <1>1, <1>2 DEF At, Was
  <2>3. CASE ~LinkIn(tree, l)
    <3>1. \A j \in 1..(Len(x) - 1) : ~LinkIn(tree, SubSeq(x, 1, j))
      BY <2>1, <2>3, <1>2
    <3>2. At(x) = x
      BY <3>1, PathIn DEF At
    <3>3. ~(l \in DOMAIN tree /\ tree[l].kind = "dir")
      BY <1>b DEF OnlyRemoved, LinkIn
    <3>4. ~Is("dir", Front(x))
      <4>1. SUFFICES ASSUME Is("dir", Front(x)) PROVE FALSE
        OBVIOUS
      <4>2. Front(x) = SubSeq(x, 1, Len(x) - 1) /\ Front(x) \in DOMAIN tree /\ tree[Front(x)].kind = "dir"
        BY <4>1, FrontIs DEF Is
      <4>3. CASE k = Len(x) - 1
        BY <4>2, <4>3, <3>3
      <4>4. CASE k < Len(x) - 1
        <5>1. Len(x) - 1 \in 0..Len(x) /\ k \in 0..(Len(x) - 1)
          BY <1>x
        <5>2. Len(Front(x)) = Len(x) - 1 /\ SubSeq(Front(x), 1, k) = l
          BY <4>2, <5>1, <1>x, Upto
        <5>3. k \in 0..(Len(Front(x)) - 1)
          BY <5>2, <4>4, <1>x
        <5>4. l \in DOMAIN tree /\ tree[l].kind = "dir"
          BY <4>2, <5>2, <5>3, OnTheWay
        <5> QED BY <5>4, <3>3
      <4> QED BY <4>3, <4>4, <1>x
    <3>5. x \notin DOMAIN tree
      <4>1. SUFFICES ASSUME x \in DOMAIN tree PROVE FALSE
        OBVIOUS
      <4>2. k \in 0..(Len(x) - 1)
        BY <1>x
      <4>3. l \in DOMAIN tree /\ tree[l].kind = "dir"
        BY <4>1, <4>2, OnTheWay
      <4> QED BY <4>3, <3>3
    <3> QED BY <3>2, <3>4, <3>5, <1>1
  <2> QED BY <2>2, <2>3
<1> QED BY <1>3, <1>4

(* What leads to a directory is not a link.                                *)
LEMMA DirIsNoLink ==
  ASSUME before \in Forest, Typed(tree), Rooted(tree), OnlyRemoved, NEW x \in Path, ~StraysAt(x), Is("dir", At(x))
  PROVE  ~LinkIn(before, x)
<1>b. Typed(before) /\ Rooted(before) /\ ~LinkIn(before, Guest)
  BY BeforeIs
<1>1. SUFFICES ASSUME LinkIn(before, x) PROVE FALSE
  OBVIOUS
<1>2. At(x) = Was(x)
  BY Resolves DEF Is
<1>3. \A k \in 1..(Len(x) - 1) : ~LinkIn(before, SubSeq(x, 1, k))
  <2>1. TAKE k \in 1..(Len(x) - 1)
  <2>2. x \in DOMAIN before /\ k \in 0..(Len(x) - 1)
    BY <1>1 DEF LinkIn, Path
  <2> QED BY <2>2, <1>b, OnTheWay
<1>4. Was(x) = x
  BY <1>3, <1>b, PathIn DEF Was
<1>5. x # Guest /\ x \in DOMAIN tree /\ tree[x].kind = "dir" /\ before[x].kind = "link"
  BY <1>1, <1>2, <1>4, <1>b DEF Is, LinkIn
<1> QED BY <1>5 DEF OnlyRemoved

(* What is reached through no link behind an operand was in the operand.   *)
LEMMA NamedByOperand ==
  ASSUME before \in Forest, NEW p \in Path, NEW x \in Path, Reached(p, x)
  PROVE  Within(Was(x), Was(p))
<1>b. /\ Typed(before) /\ Rooted(before) /\ IsPrefix(p, x)
      /\ \A k \in Len(p)..(Len(x) - 1) : ~LinkIn(before, SubSeq(x, 1, k))
  BY BeforeIs DEF Reached
<1>x. /\ x \in Seq(Name) /\ Len(x) \in Nat /\ p \in Seq(Name) /\ Len(p) \in Nat /\ Len(p) > 0
      /\ Len(p) <= Len(x) /\ SubSeq(x, 1, Len(p)) = p
  BY <1>b, WithinIs DEF Path
<1>1. \A k \in 1..(Len(p) - 1) : SubSeq(p, 1, k) = SubSeq(x, 1, k)
  <2>1. TAKE k \in 1..(Len(p) - 1)
  <2>2. k \in 0..Len(p) /\ Len(p) \in 0..Len(x)
    BY <1>x
  <2> QED BY <2>2, <1>x, Upto
<1>w. Was(x) \in Path /\ Was(p) \in Path
  BY <1>b, AtType DEF Was
<1>2. CASE \A k \in 1..(Len(x) - 1) : ~LinkIn(before, SubSeq(x, 1, k))
  <2>1. Was(x) = x
    BY <1>2, <1>b, PathIn DEF Was
  <2>2. Was(p) = p
    <3>1. \A k \in 1..(Len(p) - 1) : ~LinkIn(before, SubSeq(p, 1, k))
      <4>1. TAKE k \in 1..(Len(p) - 1)
      <4>2. k \in 1..(Len(x) - 1)
        BY <1>x
      <4> QED BY <4>2, <1>1, <1>2
    <3> QED BY <3>1, <1>b, PathIn DEF Was
  <2> QED BY <2>1, <2>2, <1>x, WithinIs
<1>3. CASE \E k \in 1..(Len(x) - 1) : LinkIn(before, SubSeq(x, 1, k))
  <2> PICK k \in 1..(Len(x) - 1) : LinkIn(before, SubSeq(x, 1, k))
    BY <1>3
  <2>1. k \in 1..(Len(p) - 1)
    BY <1>x, <1>b
  <2>2. SubSeq(p, 1, k) = SubSeq(x, 1, k)
    BY <2>1, <1>1
  <2> DEFINE body == before[SubSeq(x, 1, k)].body
             c == SubSeq(p, k + 1, Len(p))
             d == SubSeq(x, k + 1, Len(x))
  <2>3. Was(x) = body \o d /\ Was(p) = body \o c
    <3>1. AtIn(before, x) = body \o d
      BY <1>b, PathIn
    <3>2. AtIn(before, p) = body \o c
      <4>1. LinkIn(before, SubSeq(p, 1, k))
        BY <2>2
      <4>2. AtIn(before, p) = before[SubSeq(p, 1, k)].body \o c
        BY <4>1, <2>1, <1>b, PathIn
      <4> QED BY <4>2, <2>2
    <3> QED BY <3>1, <3>2 DEF Was
  <2>4. body \in Seq(Name)
    BY <1>b DEF Typed, LinkIn
  <2>5. /\ c \in Seq(Name) /\ Len(c) = Len(p) - k /\ \A i \in 1..Len(c) : c[i] = p[i + k]
        /\ d \in Seq(Name) /\ Len(d) = Len(x) - k /\ \A i \in 1..Len(d) : d[i] = x[i + k]
    <3>1. k + 1 \in 1..(Len(p) + 1) /\ k + 1 \in 1..(Len(x) + 1) /\ Len(p) \in Nat
      BY <1>x, <2>1
    <3>2. c \in Seq(Name) /\ Len(c) = Len(p) - k /\ \A i \in 1..Len(c) : c[i] = p[i + k]
      BY <1>x, <2>1, <3>1, SubSeqProperties
    <3>3. d \in Seq(Name) /\ Len(d) = Len(x) - k /\ \A i \in 1..Len(d) : d[i] = x[i + k]
      BY <1>x, <2>1, <3>1, SubSeqProperties
    <3> QED BY <3>2, <3>3
  <2>6. \A i \in 1..Len(p) : p[i] = x[i]
    BY <1>x
  <2> HIDE DEF body, c, d
  <2>7. Len(body \o c) = Len(body) + Len(c) /\ Len(body \o d) = Len(body) + Len(d) /\ Len(c) <= Len(d)
    <3>1. Len(p) - k <= Len(x) - k
      BY <2>1, <1>x
    <3>2. c \in Seq(Name) /\ d \in Seq(Name) /\ Len(c) <= Len(d)
      BY <3>1, <2>5
    <3> QED BY <3>2, <2>4
  <2>8. SubSeq(body \o d, 1, Len(body \o c)) = body \o c
    <3> DEFINE n == Len(body \o c)
               e == body \o d
               f == body \o c
    <3>1. n \in 0..Len(e) /\ e \in Seq(Name) /\ f \in Seq(Name)
      BY <2>4, <2>5, <2>7
    <3>2. \A i \in 1..n : e[i] = f[i]
      <4>1. TAKE i \in 1..n
      <4>2. CASE i <= Len(body)
        BY <4>2, <2>4, <2>5, <2>7
      <4>3. CASE i > Len(body)
        <5>1. e[i] = d[i - Len(body)] /\ f[i] = c[i - Len(body)]
          BY <4>3, <2>4, <2>5, <2>7, SMTT(30)
        <5>2. i - Len(body) \in 1..Len(c) /\ i - Len(body) \in 1..Len(d)
          BY <4>3, <2>4, <2>5, <2>7
        <5>3. d[i - Len(body)] = x[i - Len(body) + k] /\ c[i - Len(body)] = p[i - Len(body) + k]
          BY <5>2, <2>5
        <5>4. i - Len(body) + k \in 1..Len(p)
          BY <5>2, <2>5, <2>1, <1>x
        <5> QED BY <5>1, <5>3, <5>4, <2>6
      <4>4. i \in Int /\ Len(body) \in Int
        BY <2>4, <3>1
      <4>5. i <= Len(body) \/ i > Len(body)
        BY <4>4
      <4> QED BY <4>2, <4>3, <4>5
    <3>3. Len(SubSeq(e, 1, n)) = n /\ \A i \in 1..n : SubSeq(e, 1, n)[i] = e[i]
      <4> HIDE DEF e, n, f
      <4> QED BY <3>1
    <3>4. SubSeq(e, 1, n) \in Seq(Name)
      <4> HIDE DEF e, n, f
      <4> QED BY <3>1, Upto
    <3>5. Len(f) = n
      OBVIOUS
    <3> HIDE DEF e, n, f
    <3>6. SubSeq(e, 1, n) = f
      BY <3>1, <3>2, <3>3, <3>4, <3>5, SeqEqual
    <3> QED BY <3>6 DEF e, n, f
  <2>9. body \o d \in Seq(Name) /\ body \o c \in Seq(Name) /\ Len(body \o c) <= Len(body \o d)
    BY <2>4, <2>5, <2>7
  <2> QED BY <2>3, <2>8, <2>9, WithinIs
<1> QED BY <1>2, <1>3


-------------------------------------------------------------------------------
(* What the calls of the kernel leave.                                     *)
LEMMA NothingInside ==
  ASSUME Typed(tree), Rooted(tree), NEW q \in Seq(Name), q \in DOMAIN tree => Children(q) = {} \/ ~Is("dir", q)
  PROVE  \A y \in DOMAIN tree : ~Inside(y, q)
<1>1. SUFFICES ASSUME NEW y \in DOMAIN tree, Inside(y, q) PROVE FALSE
  OBVIOUS
<1>2. y \in Seq(Name) /\ Len(y) \in Nat /\ Len(q) \in Nat
  BY DEF Typed
<1>3. Len(q) < Len(y) /\ SubSeq(y, 1, Len(q)) = q
  BY <1>1, <1>2, WithinIs
<1>4. Len(q) \in 0..(Len(y) - 1)
  BY <1>2, <1>3
<1>5. q \in DOMAIN tree /\ tree[q].kind = "dir"
  BY <1>3, <1>4, OnTheWay
<1>6. Children(q) = {}
  BY <1>5 DEF Is
<1> DEFINE c == SubSeq(y, 1, Len(q) + 1)
<1>7. Len(q) + 1 \in 0..Len(y) /\ Len(q) \in 0..(Len(q) + 1)
  BY <1>2, <1>3
<1>8. c \in Seq(Name) /\ Len(c) = Len(q) + 1 /\ SubSeq(c, 1, Len(q)) = SubSeq(y, 1, Len(q))
  BY <1>7, <1>2, Upto
<1>9. c # << >> /\ Front(c) = q
  <2>1. Len(c) - 1 = Len(q) /\ Len(c) > 0
    BY <1>8, <1>2
  <2> HIDE DEF c
  <2> QED BY <2>1, <1>8, <1>3 DEF Front
<1>10. c \in DOMAIN tree
  <2>1. CASE Len(q) + 1 = Len(y)
    <3>1. SubSeq(y, 1, Len(y)) = y
      BY <1>2
    <3> QED BY <2>1, <3>1
  <2>2. CASE Len(q) + 1 < Len(y)
    <3>1. Len(q) + 1 \in 0..(Len(y) - 1)
      BY <2>2, <1>2
    <3> QED BY <3>1, OnTheWay
  <2> QED BY <2>1, <2>2, <1>2, <1>3
<1>11. Last(c) \in Children(q)
  <2> HIDE DEF c
  <2> QED BY <1>9, <1>10 DEF Children
<1> QED BY <1>6, <1>11

LEMMA WithoutLeaf ==
  ASSUME Typed(tree), Rooted(tree), NEW q \in DOMAIN tree, Children(q) = {} \/ ~Is("dir", q),
         tree' = Without({q})
  PROVE  /\ Typed(tree') /\ Rooted(tree')
         /\ DOMAIN tree' = DOMAIN tree \ {q}
         /\ \A r \in DOMAIN tree' : tree'[r] = tree[r]
<1>1. DOMAIN tree' = DOMAIN tree \ {q} /\ \A r \in DOMAIN tree' : tree'[r] = tree[r]
  BY DEF Without, Restrict
<1>2. Typed(tree')
  BY <1>1 DEF Typed, LinkIn
<1>3. Rooted(tree')
  <2>1. SUFFICES ASSUME NEW y \in DOMAIN tree', NEW k \in 0..(Len(y) - 1)
                 PROVE  SubSeq(y, 1, k) \in DOMAIN tree' /\ tree'[SubSeq(y, 1, k)].kind = "dir"
    BY DEF Rooted
  <2>2. y \in DOMAIN tree /\ y \in Seq(Name) /\ q \in Seq(Name) /\ Len(y) \in Nat /\ Len(q) \in Nat
    BY <1>1 DEF Typed
  <2>3. SubSeq(y, 1, k) \in DOMAIN tree /\ tree[SubSeq(y, 1, k)].kind = "dir"
    BY <2>2, OnTheWay
  <2>4. SubSeq(y, 1, k) # q
    <3>1. SUFFICES ASSUME SubSeq(y, 1, k) = q PROVE FALSE
      OBVIOUS
    <3>2. Len(q) = k /\ k < Len(y)
      <4>1. k \in 0..Len(y) /\ k < Len(y)
        BY <2>2
      <4>2. Len(SubSeq(y, 1, k)) = k
        BY <4>1, <2>2, Upto
      <4> QED BY <4>1, <4>2, <3>1
    <3>3. Inside(y, q)
      BY <3>1, <3>2, <2>2, WithinIs
    <3> QED BY <3>3, <2>2, NothingInside
  <2> QED BY <1>1, <2>3, <2>4
<1> QED BY <1>1, <1>2, <1>3

(* A node is put at q, where there is none or one that is no directory.    *)
LEMMA WithNode ==
  ASSUME Typed(tree), Rooted(tree), NEW q \in Path, ~Is("dir", q), Is("dir", Front(q)), NEW node,
         node.kind = "link" => node.body \in Seq(Name), tree' = Put(q, node)
  PROVE  /\ Typed(tree') /\ Rooted(tree')
         /\ DOMAIN tree' = DOMAIN tree \cup {q} /\ tree'[q] = node
         /\ \A r \in DOMAIN tree' : r # q => tree'[r] = tree[r]
<1>1. /\ DOMAIN tree' = DOMAIN tree \cup {q} /\ tree'[q] = node
      /\ \A r \in DOMAIN tree' : r # q => tree'[r] = tree[r]
  BY DEF Put
<1>q. /\ q \in Seq(Name) /\ Len(q) \in Nat /\ Len(q) > 0 /\ Front(q) = SubSeq(q, 1, Len(q) - 1)
      /\ Front(q) \in DOMAIN tree /\ tree[Front(q)].kind = "dir"
  BY FrontIs DEF Is
<1>2. Typed(tree')
  <2>1. DOMAIN tree' \subseteq Seq(Name)
    BY <1>1, <1>q DEF Typed
  <2>2. ASSUME NEW r \in DOMAIN tree', LinkIn(tree', r) PROVE tree'[r].body \in Seq(Name)
    <3>1. CASE r = q
      BY <3>1, <2>2, <1>1 DEF LinkIn
    <3>2. CASE r # q
      BY <3>2, <2>2, <1>1 DEF LinkIn, Typed
    <3> QED BY <3>1, <3>2
  <2> QED BY <2>1, <2>2 DEF Typed
<1>3. Rooted(tree')
  <2>1. SUFFICES ASSUME NEW y \in DOMAIN tree', NEW k \in 0..(Len(y) - 1)
                 PROVE  SubSeq(y, 1, k) \in DOMAIN tree' /\ tree'[SubSeq(y, 1, k)].kind = "dir"
    BY DEF Rooted
  <2>2. SubSeq(y, 1, k) \in DOMAIN tree /\ tree[SubSeq(y, 1, k)].kind = "dir"
    <3>1. CASE y = q
      <4>1. CASE k = Len(q) - 1
        BY <3>1, <4>1, <1>q
      <4>2. CASE k < Len(q) - 1
        <5>1. Len(q) - 1 \in 0..Len(q) /\ k \in 0..(Len(q) - 1)
          BY <3>1, <1>q
        <5>2. Len(Front(q)) = Len(q) - 1 /\ SubSeq(Front(q), 1, k) = SubSeq(q, 1, k)
          <6> DEFINE m == Len(q) - 1
          <6>1. m \in 0..Len(q) /\ k \in 0..m /\ Front(q) = SubSeq(q, 1, m)
            BY <5>1, <1>q
          <6> HIDE DEF m
          <6>2. Len(SubSeq(q, 1, m)) = m /\ SubSeq(SubSeq(q, 1, m), 1, k) = SubSeq(q, 1, k)
            BY <6>1, <1>q, Upto
          <6> QED BY <6>1, <6>2 DEF m
        <5>3. k \in 0..(Len(Front(q)) - 1)
          BY <5>2, <4>2, <3>1, <1>q
        <5> QED BY <5>2, <5>3, <1>q, <3>1, OnTheWay
      <4> QED BY <3>1, <4>1, <4>2, <1>q
    <3>2. CASE y # q
      <4>1. y \in DOMAIN tree
        BY <3>2, <1>1
      <4> QED BY <4>1, OnTheWay
    <3> QED BY <3>1, <3>2
  <2>3. SubSeq(y, 1, k) # q
    BY <2>2 DEF Is
  <2> QED BY <1>1, <2>2, <2>3
<1> QED BY <1>1, <1>2, <1>3


(* A path is cut off behind p, and what is left is put behind q.           *)
LEMMA RestIs ==
  ASSUME NEW r \in Seq(Name), NEW n \in 0..Len(r)
  PROVE  /\ SubSeq(r, n + 1, Len(r)) \in Seq(Name) /\ Len(SubSeq(r, n + 1, Len(r))) = Len(r) - n
         /\ \A i \in 1..(Len(r) - n) : SubSeq(r, n + 1, Len(r))[i] = r[i + n]
<1>1. n + 1 \in 1..(Len(r) + 1) /\ Len(r) \in 0..Len(r) /\ n + 1 <= Len(r) + 1
  OBVIOUS
<1>2. \A i \in (n + 1)..Len(r) : r[i] \in Name
  OBVIOUS
<1> QED BY <1>1, <1>2

LEMMA JoinIs ==
  ASSUME NEW u \in Seq(Name), NEW v \in Seq(Name)
  PROVE  /\ u \o v \in Seq(Name) /\ Len(u \o v) = Len(u) + Len(v)
         /\ \A i \in 1..Len(u) : (u \o v)[i] = u[i]
         /\ \A i \in 1..Len(v) : (u \o v)[i + Len(u)] = v[i]
<1>1. u \o v \in Seq(Name) /\ Len(u \o v) = Len(u) + Len(v)
  OBVIOUS
<1>2. \A i \in 1..Len(u) : (u \o v)[i] = u[i]
  OBVIOUS
<1>3. ASSUME NEW i \in 1..Len(v) PROVE (u \o v)[i + Len(u)] = v[i]
  <2>1. i + Len(u) \in 1..(Len(u) + Len(v)) /\ i + Len(u) > Len(u) /\ (i + Len(u)) - Len(u) = i
    OBVIOUS
  <2> QED BY <2>1
<1> QED BY <1>1, <1>2, <1>3

LEMMA Joined ==
  ASSUME NEW u \in Seq(Name), NEW s \in Seq(Name), NEW w \in Seq(Name), Len(w) = Len(u) + Len(s),
         \A i \in 1..Len(u) : w[i] = u[i], \A i \in 1..Len(s) : w[i + Len(u)] = s[i]
  PROVE  u \o s = w
<1>1. /\ u \o s \in Seq(Name) /\ Len(u \o s) = Len(u) + Len(s)
      /\ \A i \in 1..Len(u) : (u \o s)[i] = u[i]
      /\ \A i \in 1..Len(s) : (u \o s)[i + Len(u)] = s[i]
  BY JoinIs
<1>2. ASSUME NEW i \in 1..Len(w) PROVE (u \o s)[i] = w[i]
  <2>0. Len(u) \in Nat /\ Len(s) \in Nat /\ i \in Nat
    OBVIOUS
  <2>1. CASE i <= Len(u)
    BY <2>1, <1>1, <2>0
  <2>2. CASE i > Len(u)
    <3>1. i - Len(u) \in 1..Len(s) /\ (i - Len(u)) + Len(u) = i
      BY <2>2, <2>0
    <3>2. (u \o s)[(i - Len(u)) + Len(u)] = s[i - Len(u)] /\ w[(i - Len(u)) + Len(u)] = s[i - Len(u)]
      BY <3>1, <1>1
    <3> QED BY <3>1, <3>2
  <2> QED BY <2>0, <2>1, <2>2
<1> QED BY <1>1, <1>2, SeqEqual

LEMMA Splits ==
  ASSUME NEW r \in Seq(Name), NEW p \in Seq(Name), Within(r, p)
  PROVE  /\ SubSeq(r, Len(p) + 1, Len(r)) \in Seq(Name)
         /\ p \o SubSeq(r, Len(p) + 1, Len(r)) = r
<1> DEFINE s == SubSeq(r, Len(p) + 1, Len(r))
<1>1. Len(p) \in 0..Len(r) /\ SubSeq(r, 1, Len(p)) = p /\ Len(p) \in Nat /\ Len(r) \in Nat
  BY WithinIs
<1>2. s \in Seq(Name) /\ Len(s) = Len(r) - Len(p) /\ \A i \in 1..Len(s) : s[i] = r[i + Len(p)]
  BY <1>1, RestIs
<1> HIDE DEF s
<1>3. \A i \in 1..Len(p) : r[i] = p[i]
  BY <1>1
<1>4. Len(r) = Len(p) + Len(s)
  BY <1>1, <1>2
<1>5. \A i \in 1..Len(s) : r[i + Len(p)] = s[i]
  BY <1>2
<1>6. p \o s = r
  BY <1>2, <1>3, <1>4, <1>5, Joined
<1> QED BY <1>2, <1>6 DEF s

LEMMA FirstOf ==
  ASSUME NEW u \in Seq(Name), NEW s \in Seq(Name), NEW k \in 0..Len(s)
  PROVE  SubSeq(u \o s, 1, Len(u) + k) = u \o SubSeq(s, 1, k)
<1>1. /\ u \o s \in Seq(Name) /\ Len(u \o s) = Len(u) + Len(s)
      /\ \A i \in 1..Len(u) : (u \o s)[i] = u[i]
      /\ \A i \in 1..Len(s) : (u \o s)[i + Len(u)] = s[i]
  BY JoinIs
<1>2. SubSeq(s, 1, k) \in Seq(Name) /\ Len(SubSeq(s, 1, k)) = k /\ \A i \in 1..k : SubSeq(s, 1, k)[i] = s[i]
  <2>1. SubSeq(s, 1, k) \in Seq(Name) /\ Len(SubSeq(s, 1, k)) = k
    BY Upto
  <2>2. \A i \in 1..k : SubSeq(s, 1, k)[i] = s[i]
    OBVIOUS
  <2> QED BY <2>1, <2>2
<1> DEFINE w == SubSeq(u \o s, 1, Len(u) + k)  t == SubSeq(s, 1, k)  y == u \o s
<1>3. Len(u) + k \in 0..Len(y) /\ Len(u) \in Nat /\ k \in Nat /\ y \in Seq(Name)
  BY <1>1
<1>4. w \in Seq(Name) /\ Len(w) = Len(u) + k
  <2> HIDE DEF y
  <2>1. w = SubSeq(y, 1, Len(u) + k)
    BY DEF y
  <2> HIDE DEF w
  <2> QED BY <1>3, <2>1, Upto
<1>5. \A i \in 1..(Len(u) + k) : w[i] = y[i]
  <2> HIDE DEF y
  <2>1. w = SubSeq(y, 1, Len(u) + k)
    BY DEF y
  <2> HIDE DEF w
  <2> QED BY <1>3, <2>1
<1>6. t \in Seq(Name) /\ Len(t) = k /\ \A i \in 1..k : t[i] = s[i]
  BY <1>2
<1>7. \A i \in 1..Len(u) : w[i] = u[i]
  <2>1. TAKE i \in 1..Len(u)
  <2>2. i \in 1..(Len(u) + k)
    BY <1>3
  <2>3. w[i] = y[i]
    BY <2>2, <1>5
  <2> QED BY <2>3, <1>1
<1>8. \A i \in 1..Len(t) : w[i + Len(u)] = t[i]
  <2>1. TAKE i \in 1..Len(t)
  <2>2. i + Len(u) \in 1..(Len(u) + k) /\ i \in 1..k /\ i \in 1..Len(s)
    BY <1>3, <1>6
  <2>3. w[i + Len(u)] = y[i + Len(u)]
    BY <2>2, <1>5
  <2>4. y[i + Len(u)] = s[i]
    BY <2>2, <1>1
  <2> QED BY <2>3, <2>4, <2>2, <1>6
<1> HIDE DEF w, t, y
<1>9. u \o t = w
  BY <1>4, <1>6, <1>7, <1>8, Joined
<1> QED BY <1>9 DEF w, t

LEMMA Behind ==
  ASSUME NEW u \in Seq(Name), NEW s \in Seq(Name)
  PROVE  /\ u \o s \in Seq(Name) /\ Len(u \o s) = Len(u) + Len(s)
         /\ SubSeq(u \o s, 1, Len(u)) = u /\ Within(u \o s, u)
         /\ SubSeq(u \o s, Len(u) + 1, Len(u \o s)) = s
<1> DEFINE y == u \o s
<1>1. /\ y \in Seq(Name) /\ Len(y) = Len(u) + Len(s)
      /\ \A i \in 1..Len(u) : y[i] = u[i]
      /\ \A i \in 1..Len(s) : y[i + Len(u)] = s[i]
  BY JoinIs
<1> HIDE DEF y
<1>2. Len(u) \in 0..Len(y) /\ Len(y) - Len(u) = Len(s)
  BY <1>1
<1>3. SubSeq(y, 1, Len(u)) = u
  <2>1. SubSeq(y, 1, Len(u)) \in Seq(Name) /\ Len(SubSeq(y, 1, Len(u))) = Len(u)
    BY <1>1, <1>2, Upto
  <2>2. \A i \in 1..Len(u) : SubSeq(y, 1, Len(u))[i] = u[i]
    BY <1>1, <1>2
  <2> QED BY <2>1, <2>2, SeqEqual
<1>4. Within(y, u)
  <2>1. Len(u) <= Len(y)
    BY <1>2
  <2> QED BY <2>1, <1>1, <1>3, WithinIs
<1>5. SubSeq(y, Len(u) + 1, Len(y)) = s
  <2> DEFINE w == SubSeq(y, Len(u) + 1, Len(y))
  <2>1. w \in Seq(Name) /\ Len(w) = Len(y) - Len(u) /\ \A i \in 1..(Len(y) - Len(u)) : w[i] = y[i + Len(u)]
    BY <1>1, <1>2, RestIs
  <2> HIDE DEF w
  <2>2. Len(w) = Len(s)
    BY <2>1, <1>2
  <2>3. \A i \in 1..Len(s) : w[i] = s[i]
    <3>1. TAKE i \in 1..Len(s)
    <3>2. i \in 1..(Len(y) - Len(u))
      BY <1>2
    <3>3. w[i] = y[i + Len(u)]
      BY <2>1, <3>2
    <3> QED BY <3>3, <1>1
  <2>4. w = s
    BY <2>1, <2>2, <2>3, SeqEqual
  <2> QED BY <2>4 DEF w
<1> QED BY <1>1, <1>3, <1>4, <1>5 DEF y

(* The calls of the kernel, ctd.: rename takes what is at p, and all that  *)
(* is in it, to q.                                                         *)
LEMMA RenamedIs ==
  ASSUME Typed(tree), Rooted(tree), NEW p \in Path, NEW q \in Path, CanRename(p, q),
         tree' = Renamed(p, q)
  PROVE  /\ Typed(tree') /\ Rooted(tree')
         /\ \A r \in DOMAIN tree : ~Within(r, p) /\ r # q => r \in DOMAIN tree' /\ tree'[r] = tree[r]
         /\ \A r \in DOMAIN tree : Within(r, p) =>
              q \o SubSeq(r, Len(p) + 1, Len(r)) \in DOMAIN tree'
                /\ tree'[q \o SubSeq(r, Len(p) + 1, Len(r))] = tree[r]
<1> DEFINE taken == {r \in DOMAIN tree : Within(r, p)}
           To(r) == q \o SubSeq(r, Len(p) + 1, Len(r))
           new == {To(r) : r \in taken}
<1>p. /\ p \in Seq(Name) /\ q \in Seq(Name) /\ Len(q) \in Nat /\ Len(p) \in Nat /\ Len(q) > 0
      /\ DOMAIN tree \subseteq Seq(Name) /\ Front(q) = SubSeq(q, 1, Len(q) - 1)
  BY FrontIs DEF Typed
<1>1. /\ DOMAIN tree' = (DOMAIN tree \ taken) \cup new
      /\ \A y \in new : tree'[y] = tree[p \o SubSeq(y, Len(q) + 1, Len(y))]
      /\ \A y \in DOMAIN tree \ taken : y \notin new => tree'[y] = tree[y]
  <2>1. taken = {r \in DOMAIN tree : r = p \/ Inside(r, p)}
    BY DEF Within
  <2>2. tree' = [r \in (DOMAIN tree \ taken) \cup new |->
                   IF r \in new THEN tree[p \o SubSeq(r, Len(q) + 1, Len(r))] ELSE tree[r]]
    BY <2>1 DEF Renamed
  <2> HIDE DEF taken, new
  <2> QED BY <2>2
<1>2. ASSUME NEW r \in taken PROVE To(r) \in new /\ tree'[To(r)] = tree[r]
  <2>1. Within(r, p) /\ r \in Seq(Name) /\ r \in DOMAIN tree
    BY <1>p
  <2>2. To(r) \in new
    OBVIOUS
  <2>3. p \o SubSeq(To(r), Len(q) + 1, Len(To(r))) = r
    <3> DEFINE s == SubSeq(r, Len(p) + 1, Len(r))
    <3>1. s \in Seq(Name) /\ p \o s = r
      BY <2>1, <1>p, Splits
    <3> HIDE DEF s
    <3>2. SubSeq(q \o s, Len(q) + 1, Len(q \o s)) = s
      BY <3>1, <1>p, Behind
    <3>3. To(r) = q \o s
      BY DEF s
    <3> HIDE DEF To
    <3> QED BY <3>1, <3>2, <3>3
  <2> QED BY <2>2, <2>3, <1>1
<1>3. ASSUME NEW y \in new PROVE Within(y, q)
  <2> PICK r \in taken : y = To(r)
    OBVIOUS
  <2> DEFINE s == SubSeq(r, Len(p) + 1, Len(r))
  <2>1. s \in Seq(Name)
    BY <1>p, Splits
  <2> HIDE DEF s
  <2>2. Within(q \o s, q)
    BY <2>1, <1>p, Behind
  <2> QED BY <2>2 DEF s
<1>4. \A y \in DOMAIN tree : ~Inside(y, q) \/ p = q
  <2>1. CASE p = q
    BY <2>1
  <2>2. CASE p # q
    <3>1. q \in DOMAIN tree => Children(q) = {}
      BY <2>2 DEF CanRename
    <3> QED BY <3>1, <1>p, NothingInside
  <2> QED BY <2>1, <2>2
<1>5. ASSUME NEW y \in DOMAIN tree, ~Within(y, p), y # q PROVE y \in DOMAIN tree' /\ tree'[y] = tree[y]
  <2>1. y \notin new
    <3>1. SUFFICES ASSUME y \in new PROVE FALSE
      OBVIOUS
    <3>2. Within(y, q)
      BY <3>1, <1>3
    <3>3. Inside(y, q)
      BY <3>2, <1>5 DEF Within
    <3>4. p = q
      BY <3>3, <1>4
    <3> QED BY <3>2, <3>4, <1>5
  <2>2. y \in DOMAIN tree \ taken
    BY <1>5
  <2> QED BY <2>1, <2>2, <1>1
<1>6. Typed(tree')
  <2>1. ASSUME NEW y \in DOMAIN tree' PROVE y \in Seq(Name) /\ (LinkIn(tree', y) => tree'[y].body \in Seq(Name))
    <3>1. CASE y \in new
      <4> PICK r \in taken : y = To(r)
        BY <3>1
      <4>1. Within(r, p) /\ r \in Seq(Name) /\ r \in DOMAIN tree /\ tree'[y] = tree[r]
        BY <1>2, <1>p
      <4>2. y \in Seq(Name)
        <5>1. SubSeq(r, Len(p) + 1, Len(r)) \in Seq(Name)
          BY <4>1, <1>p, Splits
        <5> QED BY <5>1, <1>p, Behind
      <4> QED BY <4>1, <4>2 DEF Typed, LinkIn
    <3>2. CASE y \notin new
      <4>1. y \in DOMAIN tree /\ tree'[y] = tree[y]
        BY <3>2, <1>1
      <4> QED BY <4>1 DEF Typed, LinkIn
    <3> QED BY <3>1, <3>2
  <2> QED BY <2>1 DEF Typed
<1>7. Rooted(tree')
  <2>1. SUFFICES ASSUME NEW y \in DOMAIN tree', NEW k \in 0..(Len(y) - 1)
                 PROVE  SubSeq(y, 1, k) \in DOMAIN tree' /\ tree'[SubSeq(y, 1, k)].kind = "dir"
    BY DEF Rooted
  <2>2. CASE y \in new
    <3> PICK r \in taken : y = To(r)
      BY <2>2
    <3>1. Within(r, p) /\ r \in Seq(Name) /\ r \in DOMAIN tree /\ Len(r) \in Nat
      BY <1>p
    <3> DEFINE s == SubSeq(r, Len(p) + 1, Len(r))
    <3>0. s \in Seq(Name) /\ p \o s = r /\ y = q \o s /\ Len(s) \in Nat
      BY <3>1, <1>p, Splits
    <3> HIDE DEF s
    <3>2. /\ y \in Seq(Name) /\ Len(y) = Len(q) + Len(s) /\ Len(y) \in Nat
          /\ SubSeq(y, 1, Len(q)) = q /\ Len(r) = Len(p) + Len(s)
      <4>1. y \in Seq(Name) /\ Len(y) = Len(q) + Len(s) /\ SubSeq(y, 1, Len(q)) = q
        <5>1. q \o s \in Seq(Name) /\ Len(q \o s) = Len(q) + Len(s) /\ SubSeq(q \o s, 1, Len(q)) = q
          BY <3>0, <1>p, Behind
        <5> HIDE DEF To, new, taken
        <5> QED BY <5>1, <3>0
      <4>2. Len(r) = Len(p) + Len(s)
        BY <3>0, <1>p, Behind
      <4> QED BY <4>1, <4>2
    <3>3. CASE k < Len(q)
      <4>1. SubSeq(y, 1, k) = SubSeq(q, 1, k)
        <5>1. Len(q) \in 0..Len(y) /\ k \in 0..Len(q)
          BY <3>0, <3>2, <3>3, <1>p
        <5> QED BY <5>1, <3>2, Upto
      <4> DEFINE x == SubSeq(q, 1, k)
      <4>2. x \in DOMAIN tree /\ tree[x].kind = "dir" /\ x \in Seq(Name) /\ Len(x) = k
        <5>1. Front(q) \in DOMAIN tree /\ tree[Front(q)].kind = "dir"
          BY DEF CanRename, Is
        <5>2. k \in 0..Len(q) /\ Len(x) = k /\ x \in Seq(Name)
          <6>1. k \in 0..Len(q)
            BY <3>3, <1>p
          <6> QED BY <6>1, <1>p, Upto
        <5>3. CASE k = Len(q) - 1
          BY <5>1, <5>2, <5>3, <1>p
        <5>4. CASE k < Len(q) - 1
          <6> DEFINE m == Len(q) - 1
          <6>1. m \in 0..Len(q) /\ k \in 0..m /\ Front(q) = SubSeq(q, 1, m) /\ k < m
            BY <5>4, <3>3, <1>p
          <6> HIDE DEF m
          <6>2. Len(Front(q)) = m /\ SubSeq(Front(q), 1, k) = x
            BY <6>1, <1>p, Upto
          <6>3. k \in 0..(Len(Front(q)) - 1)
            BY <6>1, <6>2
          <6> QED BY <5>1, <5>2, <6>2, <6>3, OnTheWay
        <5> QED BY <5>3, <5>4, <3>3, <1>p
      <4>3. ~Within(x, p)
        <5>1. SUFFICES ASSUME Within(x, p) PROVE FALSE
          OBVIOUS
        <5> HIDE DEF x
        <5>2. Len(p) <= k /\ SubSeq(x, 1, Len(p)) = p
          BY <5>1, <4>2, <1>p, WithinIs
        <5>3. SubSeq(q, 1, Len(p)) = p
          <6>1. k \in 0..Len(q) /\ Len(p) \in 0..k
            BY <5>2, <3>3, <1>p
          <6> QED BY <6>1, <5>2, <1>p, Upto DEF x
        <5>4. Inside(q, p)
          <6>1. Len(p) < Len(q)
            BY <5>2, <3>3, <1>p
          <6> QED BY <6>1, <5>3, <1>p, WithinIs
        <5> QED BY <5>4 DEF CanRename
      <4>4. x # q
        BY <4>2, <3>3
      <4> HIDE DEF x
      <4>5. x \in DOMAIN tree' /\ tree'[x] = tree[x]
        BY <4>2, <4>3, <4>4, <1>5
      <4> QED BY <4>1, <4>2, <4>5 DEF x
    <3>4. CASE k >= Len(q)
      <4> DEFINE j == k - Len(q)
                 v == SubSeq(s, 1, j)
                 x == p \o v
      <4>1. /\ j \in 0..Len(s) /\ k = Len(q) + j /\ Len(p) + j \in 0..(Len(r) - 1)
            /\ Len(p) + j \in 0..Len(r)
        BY <3>4, <3>2, <3>0, <1>p
      <4> HIDE DEF j
      <4>2. v \in Seq(Name) /\ SubSeq(y, 1, k) = q \o v /\ SubSeq(r, 1, Len(p) + j) = x
        <5>1. v \in Seq(Name)
          BY <4>1, <3>0, Upto
        <5>2. SubSeq(q \o s, 1, Len(q) + j) = q \o v /\ SubSeq(p \o s, 1, Len(p) + j) = x
          BY <4>1, <3>0, <1>p, FirstOf
        <5> HIDE DEF v, x, To, new, taken
        <5> QED BY <5>1, <5>2, <4>1, <3>0
      <4>3. x \in DOMAIN tree /\ tree[x].kind = "dir"
        BY <4>1, <4>2, <3>1, OnTheWay
      <4> HIDE DEF v
      <4>4. Within(x, p) /\ SubSeq(x, Len(p) + 1, Len(x)) = v
        BY <4>2, <1>p, Behind
      <4>5. x \in taken /\ SubSeq(y, 1, k) = To(x)
        <5> HIDE DEF x
        <5> QED BY <4>2, <4>3, <4>4
      <4> HIDE DEF x, taken, new, To
      <4>6. To(x) \in new /\ tree'[To(x)] = tree[x]
        BY <4>5, <1>2
      <4> QED BY <4>3, <4>5, <4>6, <1>1
    <3> QED BY <3>3, <3>4, <1>p
  <2>3. CASE y \notin new
    <3> DEFINE x == SubSeq(y, 1, k)
    <3>1. y \in DOMAIN tree /\ ~Within(y, p) /\ y \in Seq(Name) /\ Len(y) \in Nat
      <4> HIDE DEF new
      <4>1. y \in DOMAIN tree /\ y \notin taken
        BY <2>3, <1>1
      <4> QED BY <4>1, <1>p
    <3>2. x \in DOMAIN tree /\ tree[x].kind = "dir" /\ x \in Seq(Name) /\ Len(x) = k /\ k \in 0..Len(y)
      <4>1. k \in 0..Len(y)
        BY <3>1
      <4> QED BY <4>1, <3>1, OnTheWay, Upto
    <3>3. \A v \in Seq(Name) : Within(x, v) => Inside(y, v)
      <4>1. SUFFICES ASSUME NEW v \in Seq(Name), Within(x, v) PROVE Inside(y, v)
        OBVIOUS
      <4>2. Len(v) <= k /\ SubSeq(x, 1, Len(v)) = v /\ Len(v) \in 0..k
        <5> HIDE DEF x
        <5> QED BY <4>1, <3>2, WithinIs
      <4>3. SubSeq(y, 1, Len(v)) = v
        BY <4>2, <3>1, <3>2, Upto
      <4>4. Len(v) < Len(y)
        BY <4>2, <3>1
      <4> QED BY <4>3, <4>4, <3>1, WithinIs
    <3> HIDE DEF x
    <3>4. ~Within(x, p)
      BY <3>3, <3>1, <1>p DEF Within
    <3>5. x # q
      <4>1. SUFFICES ASSUME x = q PROVE FALSE
        OBVIOUS
      <4>2. Inside(y, q)
        BY <4>1, <3>3, <1>p DEF Within
      <4>3. p = q
        BY <4>2, <3>1, <1>4
      <4> QED BY <4>2, <4>3, <3>1 DEF Within
    <3> QED BY <3>2, <3>4, <3>5, <1>5 DEF x
  <2> QED BY <2>2, <2>3
<1>8. \A r \in DOMAIN tree : Within(r, p) => To(r) \in DOMAIN tree' /\ tree'[To(r)] = tree[r]
  <2>1. TAKE r \in DOMAIN tree
  <2>2. HAVE Within(r, p)
  <2>3. r \in taken
    BY <2>2
  <2> HIDE DEF taken, new, To
  <2> QED BY <2>3, <1>2, <1>1
<1> QED BY <1>5, <1>6, <1>7, <1>8

-------------------------------------------------------------------------------
(* Commands, and what a step does to the tree.                             *)
Removed(q) ==
  /\ q \in DOMAIN tree /\ (Children(q) = {} \/ ~Is("dir", q))
  /\ tree' = Without({q})
Made(q, node) ==
  /\ q \in Path /\ ~Is("dir", q) /\ Is("dir", Front(q)) /\ (node.kind = "link" => node.body \in Seq(Name))
  /\ tree' = Put(q, node)
GuestMade == \E node : Made(Guest, node) /\ (node.kind = "link" => Tool({"rm"}))
Changed ==
  \/ tree' = tree
  \/ \E q \in DOMAIN tree : Removed(q)
  \/ \E q \in Path : \E node : Made(q, node)
  \/ \E p \in Path, q \in Path : CanRename(p, q) /\ tree' = Renamed(p, q)

LEMMA Commands ==
  ASSUME TreeTypeOK
  PROVE  /\ utility.args \in Seq(Path) /\ Len(utility.args) \in Nat /\ Len(utility.args) > 0
         /\ Operands \in Nat /\ Operands <= Len(utility.args) /\ Dest \in Path
         /\ \A i \in 1..Operands : utility.args[i] \in Path /\ utility.args[i] \in Args
         /\ Args \subseteq Path
         /\ Tool({"ln"}) => Operands = 1 /\ Dest = utility.args[2] /\ Args = {utility.args[1]}
         /\ before \in Forest /\ Guest \in Path /\ Guest \in Seq(Name)
<1>1. utility \in TreeCommands /\ before \in Forest
  BY DEF TreeTypeOK
<1>2. utility.args \in Seq(Path) \ {<< >>} /\ (utility.tool = "ln" => Len(utility.args) = 2)
  BY <1>1, CommandAssumption
<1>3. Len(utility.args) \in Nat /\ Len(utility.args) > 0
  BY <1>2
<1>4. /\ Tool({"rm"}) => ~Tool({"cp", "mv", "ln"})
      /\ Tool({"ln"}) => Tool({"cp", "mv", "ln"}) /\ utility.tool = "ln"
  BY DEF Tool
<1>5. Operands \in Nat /\ Operands <= Len(utility.args)
  BY <1>3 DEF Operands
<1>6. Dest \in Path
  BY <1>2, <1>3 DEF Dest
<1>7. \A i \in 1..Operands : utility.args[i] \in Path /\ utility.args[i] \in Args
  <2>1. TAKE i \in 1..Operands
  <2>2. i \in 1..Len(utility.args)
    BY <1>3, <1>5
  <2> QED BY <2>2, <1>2 DEF Args
<1>8. Args \subseteq Path
  BY <1>7 DEF Args
<1>9. ASSUME Tool({"ln"}) PROVE Operands = 1 /\ Dest = utility.args[2] /\ Args = {utility.args[1]}
  <2>1. Operands = 1 /\ Dest = utility.args[2]
    BY <1>9, <1>2, <1>4 DEF Operands, Dest
  <2>2. 1..1 = {1}
    OBVIOUS
  <2> QED BY <2>1, <2>2 DEF Args
<1>10. Guest \in Path /\ Guest \in Seq(Name)
  BY <1>1, BeforeIs
<1> QED BY <1>1, <1>2, <1>3, <1>5, <1>6, <1>7, <1>8, <1>9, <1>10

LEMMA AtIs ==
  ASSUME Typed(tree), Rooted(tree), NEW x \in Path
  PROVE  At(x) \in Path
BY AtType DEF At

(* The other process.                                                      *)
LEMMA MeddleChanges ==
  ASSUME TreeTypeOK, Meddle
  PROVE  GuestMade \/ Removed(Guest)
<1>1. Guest \in Path /\ DOMAIN tree \subseteq Seq(Name)
  BY Commands DEF TreeTypeOK, Typed
<1>2. \A node \in {Dir, File(Guest)} \cup GuestLinks :
        node.kind = "link" => node.body \in Seq(Name) /\ Tool({"rm"})
  <2>1. \A node \in {Dir, File(Guest)} : node.kind # "link"
    BY DEF Dir, File
  <2>2. \A node \in GuestLinks : Tool({"rm"}) /\ \E q \in DOMAIN tree : node = Link(q)
    BY DEF GuestLinks
  <2>3. \A q : Link(q).body = q
    BY DEF Link
  <2> QED BY <2>1, <2>2, <2>3, <1>1
<1>3. CASE Vacant(Guest) /\ \E node \in {Dir, File(Guest)} \cup GuestLinks : tree' = Put(Guest, node)
  <2> PICK node \in {Dir, File(Guest)} \cup GuestLinks : tree' = Put(Guest, node)
    BY <1>3
  <2>1. ~Is("dir", Guest) /\ Is("dir", Front(Guest))
    BY <1>3 DEF Vacant, Is
  <2>2. node.kind = "link" => node.body \in Seq(Name) /\ Tool({"rm"})
    BY <1>2
  <2>3. Made(Guest, node)
    BY <2>1, <2>2, <1>1 DEF Made
  <2> QED BY <2>2, <2>3 DEF GuestMade
<1>4. CASE Guest \in DOMAIN tree /\ Children(Guest) = {} /\ tree' = Without({Guest})
  BY <1>4 DEF Removed
<1> QED BY <1>3, <1>4 DEF Meddle

LEMMA MakeDirChanges ==
  ASSUME Typed(tree), Rooted(tree), NEW x \in Path, MakeDir(x)
  PROVE  tree' = tree \/ Made(At(x), Dir)
<1>1. At(x) \in Path
  BY AtIs
<1>2. Dir.kind # "link"
  BY DEF Dir
<1> QED BY <1>1, <1>2 DEF MakeDir, CanMake, Vacant, Made, Is

LEMMA ThroughIs ==
  ASSUME Typed(tree), Rooted(tree), NEW x \in Path
  PROVE  Through(x) \in Seq(Name)
<1>1. At(x) \in Path
  BY AtIs
<1> QED BY <1>1 DEF Through, Is, Typed, LinkIn, Path

LEMMA CopyFileChanges ==
  ASSUME Typed(tree), Rooted(tree), NEW src \in Path, NEW dst \in Path, CopyFile(src, dst)
  PROVE  tree' = tree \/ \E node : Made(Through(dst), node)
<1>1. SUFFICES ASSUME tree' # tree PROVE \E node : Made(Through(dst), node)
  OBVIOUS
<1>2. ~Is("dir", Through(dst)) /\ Is("dir", Front(Through(dst))) /\ \E body : tree' = Put(Through(dst), File(body))
  BY <1>1 DEF CopyFile
<1>3. Through(dst) \in Seq(Name)
  BY ThroughIs
<1>4. Through(dst) # << >>
  <2>1. Front(<< >>) = << >>
    BY DEF Front
  <2> QED BY <2>1, <1>2
<1>5. \A body : File(body).kind # "link"
  BY DEF File
<1> QED BY <1>2, <1>3, <1>4, <1>5 DEF Made, Path

LEMMA RemovesLeaf ==
  ASSUME NEW x, CanUnlink(x) \/ CanRmdir(x), Removes(x)
  PROVE  Removed(At(x))
BY DEF CanUnlink, CanRmdir, Removes, Removed, Is

-------------------------------------------------------------------------------
(* The open directories.                                                   *)
LEMMA Opens ==
  ASSUME Typed(tree), Rooted(tree), NEW frames \in Seq(Frame), NEW p \in Path, NEW to \in Path
  PROVE  Append(frames, Opened(p, to)) \in Seq(Frame)
<1>1. Opened(p, to) \in Frame
  BY ThroughIs DEF Opened, Frame
<1> QED BY <1>1

LEMMA Frames ==
  ASSUME NEW frames \in Seq(Frame)
  PROVE  /\ \A n \in Nat : Plus(frames, n) \in Seq(Frame)
         /\ frames # << >> =>
              /\ frames[Len(frames)] \in Frame /\ Len(frames) \in 1..Len(frames)
              /\ Front(frames) \in Seq(Frame) /\ Len(Front(frames)) = Len(frames) - 1
              /\ \A i \in 1..(Len(frames) - 1) : Front(frames)[i] = frames[i]
              /\ \A S \in SUBSET Name, T \in SUBSET Name :
                   /\ [frames EXCEPT ![Len(frames)].buf = S, ![Len(frames)].seen = T] \in Seq(Frame)
                   /\ [frames EXCEPT ![Len(frames)].buf = S] \in Seq(Frame)
<1>2. ASSUME frames # << >> PROVE frames[Len(frames)] \in Frame /\ Len(frames) \in 1..Len(frames) /\ Len(frames) \in Nat
  <2>1. Len(frames) \in Nat /\ Len(frames) > 0
    BY <1>2
  <2> QED BY <2>1
<1>u. ASSUME frames # << >>, NEW f \in Frame PROVE [frames EXCEPT ![Len(frames)] = f] \in Seq(Frame)
  BY <1>u, <1>2
<1>3. ASSUME NEW n \in Nat PROVE Plus(frames, n) \in Seq(Frame)
  <2>1. CASE frames = << >>
    BY <2>1 DEF Plus
  <2>2. CASE frames # << >>
    <3> DEFINE f == frames[Len(frames)]
               g == [f EXCEPT !.total = @ + n]
    <3>1. g \in Frame
      <4>1. f \in Frame
        BY <1>2, <2>2
      <4>2. f.total + n \in Nat
        BY <4>1 DEF Frame
      <4>3. g = [f EXCEPT !.total = f.total + n]
        OBVIOUS
      <4> HIDE DEF f, g
      <4> QED BY <4>1, <4>2, <4>3 DEF Frame
    <3>2. Plus(frames, n) = [frames EXCEPT ![Len(frames)] = g]
      BY <2>2 DEF Plus
    <3> HIDE DEF g
    <3> QED BY <3>1, <3>2, <2>2, <1>u
  <2> QED BY <2>1, <2>2
<1>4. ASSUME frames # << >>
      PROVE  /\ Front(frames) \in Seq(Frame) /\ Len(Front(frames)) = Len(frames) - 1
             /\ \A i \in 1..(Len(frames) - 1) : Front(frames)[i] = frames[i]
  <2> DEFINE m == Len(frames) - 1
  <2>1. m \in Nat /\ m <= Len(frames) /\ Len(frames) \in Nat
    BY <1>4, <1>2
  <2>2. Front(frames) = SubSeq(frames, 1, m)
    BY DEF Front
  <2> HIDE DEF m
  <2>3. \A i \in 1..m : frames[i] \in Frame
    BY <2>1
  <2>4. SubSeq(frames, 1, m) \in Seq(Frame) /\ Len(SubSeq(frames, 1, m)) = m
    BY <2>1, <2>3
  <2>5. \A i \in 1..m : SubSeq(frames, 1, m)[i] = frames[i]
    BY <2>1
  <2> QED BY <2>2, <2>4, <2>5 DEF m
<1>5. ASSUME frames # << >>, NEW S \in SUBSET Name, NEW T \in SUBSET Name
      PROVE  /\ [frames EXCEPT ![Len(frames)].buf = S, ![Len(frames)].seen = T] \in Seq(Frame)
             /\ [frames EXCEPT ![Len(frames)].buf = S] \in Seq(Frame)
  <2> DEFINE f == frames[Len(frames)]
             g == [f EXCEPT !.buf = S]
             h == [g EXCEPT !.seen = T]
  <2>1. g \in Frame /\ h \in Frame
    BY <1>2, <1>5 DEF Frame
  <2>2. [frames EXCEPT ![Len(frames)].buf = S] = [frames EXCEPT ![Len(frames)] = g]
    OBVIOUS
  <2>3. [frames EXCEPT ![Len(frames)].buf = S, ![Len(frames)].seen = T] = [frames EXCEPT ![Len(frames)] = h]
    BY <1>2, <1>5
  <2> HIDE DEF g, h
  <2> QED BY <2>1, <2>2, <2>3, <1>5, <1>u
<1> QED BY <1>2, <1>3, <1>4, <1>5

LEMMA Inwards ==
  ASSUME NEW x \in Path, NEW n \in Name
  PROVE  /\ Append(x, n) \in Path /\ Append(x, n) \in Seq(Name) /\ Len(Append(x, n)) = Len(x) + 1
         /\ Len(x) \in Nat /\ IsPrefix(x, Append(x, n))
         /\ \A k \in 0..Len(x) : SubSeq(Append(x, n), 1, k) = SubSeq(x, 1, k)
<1> DEFINE y == Append(x, n)
<1>1. x \in Seq(Name) /\ Len(x) \in Nat
  BY DEF Path
<1>2. y \in Seq(Name) /\ Len(y) = Len(x) + 1 /\ \A i \in 1..Len(x) : y[i] = x[i]
  BY <1>1
<1> HIDE DEF y
<1>3. y # << >>
  BY <1>1, <1>2
<1>4. SubSeq(y, 1, Len(x)) = x
  <2>1. Len(x) \in 0..Len(y)
    BY <1>1, <1>2
  <2>2. SubSeq(y, 1, Len(x)) \in Seq(Name) /\ Len(SubSeq(y, 1, Len(x))) = Len(x)
    BY <2>1, <1>2, Upto
  <2>3. \A i \in 1..Len(x) : SubSeq(y, 1, Len(x))[i] = x[i]
    BY <1>1, <1>2
  <2> QED BY <2>2, <2>3, <1>1, SeqEqual
<1>5. \A k \in 0..Len(x) : SubSeq(y, 1, k) = SubSeq(x, 1, k)
  <2>1. Len(x) \in 0..Len(y)
    BY <1>1, <1>2
  <2>2. \A k \in 0..Len(x) : SubSeq(SubSeq(y, 1, Len(x)), 1, k) = SubSeq(y, 1, k)
    BY <2>1, <1>2, Upto
  <2> QED BY <2>2, <1>4
<1>6. IsPrefix(x, y)
  <2>1. Len(x) <= Len(y)
    BY <1>1, <1>2
  <2> QED BY <2>1, <1>1, <1>2, <1>4, WithinIs
<1> QED BY <1>1, <1>2, <1>3, <1>5, <1>6 DEF y, Path

LEMMA ChildrenAreNames ==
  ASSUME Typed(tree), NEW q
  PROVE  Children(q) \subseteq Name
<1>1. \A r \in DOMAIN tree : r # << >> => Last(r) \in Name
  <2>1. TAKE r \in DOMAIN tree
  <2>2. HAVE r # << >>
  <2>3. r \in Path
    BY <2>2 DEF Typed, Path
  <2> QED BY <2>3, FrontIs
<1> QED BY <1>1 DEF Children

-------------------------------------------------------------------------------
(* What each tool does with an entry.                                      *)
LEMMA RmEntryIs ==
  ASSUME NEW p, NEW force, NEW recursive, NEW frames, RmEntry(p, force, recursive, frames)
  PROVE  /\ moved' = moved /\ tree' = tree /\ walk' = frames
         /\ (strayed \/ StraysAt(p)) => strayed'
         /\ \/ due' = due /\ ret' = 1 /\ missed' \in {missed, missed \cup {p}}
            \/ due' = due /\ ret' = ret /\ (At(p) \notin DOMAIN tree \/ p \in missed')
                 /\ missed' \in {missed, missed \cup {p}}
            \/ due' = Due("open", p) /\ Is("dir", At(p)) /\ ret' = ret /\ missed' = missed
            \/ due' = Due("unlink", p) /\ ret' = ret /\ missed' = missed
<1>1. moved' = moved /\ tree' = tree /\ walk' = frames
  BY DEF RmEntry, Stay, files
<1>2. (strayed \/ StraysAt(p)) => strayed'
  BY DEF RmEntry
<1>3. CASE /\ ret' = (IF force THEN ret ELSE 1) /\ due' = due
           /\ missed' = IF force /\ At(p) \in DOMAIN tree THEN missed \cup {p} ELSE missed
  <2>1. missed' \in {missed, missed \cup {p}}
    BY <1>3
  <2>2. ret' = 1 \/ (ret' = ret /\ (At(p) \notin DOMAIN tree \/ p \in missed'))
    BY <1>3
  <2> QED BY <1>1, <1>2, <1>3, <2>1, <2>2
<1>4. CASE ret' = 1 /\ UNCHANGED <<due, missed>>
  BY <1>1, <1>2, <1>4
<1>5. CASE due' = Due(IF Is("dir", At(p)) THEN "open" ELSE "unlink", p) /\ UNCHANGED <<ret, missed>>
  BY <1>1, <1>2, <1>5
<1>6. \/ /\ ret' = (IF force THEN ret ELSE 1) /\ due' = due
         /\ missed' = IF force /\ At(p) \in DOMAIN tree THEN missed \cup {p} ELSE missed
      \/ ret' = 1 /\ UNCHANGED <<due, missed>>
      \/ due' = Due(IF Is("dir", At(p)) THEN "open" ELSE "unlink", p) /\ UNCHANGED <<ret, missed>>
  BY DEF RmEntry
<1> QED BY <1>3, <1>4, <1>5, <1>6

LEMMA Entries ==
  ASSUME TreeTypeOK, Rooted(tree), NEW p \in Path, NEW to \in Path, NEW frames \in Seq(Frame),
         \/ \E force, recursive : RmEntry(p, force, recursive, frames)
         \/ \E isOperand : FindEntry(p, isOperand, frames) \/ DuEntry(p, isOperand, frames)
         \/ CpEntry(p, to, frames)
  PROVE  walk' \in Seq(Frame) /\ ret' \in {0, 1} /\ moved' = moved /\ Changed
<1>1. Typed(tree) /\ ret \in {0, 1}
  BY DEF TreeTypeOK
<1>2. frames \in Seq(Frame) /\ Append(frames, Opened(p, p)) \in Seq(Frame) /\ Plus(frames, 1) \in Seq(Frame)
  BY <1>1, Frames, Opens
<1>3. ASSUME NEW force, NEW recursive, RmEntry(p, force, recursive, frames)
      PROVE  walk' \in Seq(Frame) /\ ret' \in {0, 1} /\ moved' = moved /\ Changed
  <2>1. moved' = moved /\ tree' = tree /\ walk' = frames /\ ret' \in {ret, 1}
    BY <1>3, RmEntryIs
  <2> QED BY <2>1, <1>1, <1>2 DEF Changed
<1>4. ASSUME NEW isOperand, FindEntry(p, isOperand, frames)
      PROVE  walk' \in Seq(Frame) /\ ret' = ret /\ moved' = moved /\ tree' = tree
  BY <1>4, <1>2 DEF FindEntry, Stay, Enter, files
<1>5. ASSUME NEW isOperand, DuEntry(p, isOperand, frames)
      PROVE  walk' \in Seq(Frame) /\ ret' = ret /\ moved' = moved /\ tree' = tree
  <2>1. walk' = Append(frames, Opened(p, p)) \/ walk' = frames \/ walk' = Plus(frames, 1)
    <3>1. CASE Is("dir", At(p))
      BY <1>5, <3>1 DEF DuEntry, Stay, Enter
    <3>2. CASE At(p) \in DOMAIN tree /\ ~Is("dir", At(p))
      BY <1>5, <3>2 DEF DuEntry, Stay, Enter
    <3>3. CASE ~(At(p) \in DOMAIN tree) /\ ~Is("dir", At(p))
      BY <1>5, <3>3 DEF DuEntry, Stay, Enter
    <3> QED BY <3>1, <3>2, <3>3
  <2>2. ret' = ret /\ moved' = moved /\ tree' = tree
    BY <1>5 DEF DuEntry, files
  <2> QED BY <2>1, <2>2, <1>2
<1>6. ASSUME CpEntry(p, to, frames)
      PROVE  walk' \in Seq(Frame) /\ ret' = ret /\ moved' = moved /\ Changed
  <2>1. walk' = frames /\ ret' = ret /\ moved' = moved /\ (MakeDir(to) \/ CopyFile(p, to))
    BY <1>6 DEF CpEntry, Stay
  <2>2. tree' = tree \/ \E q, node : Made(q, node)
    BY <2>1, <1>1, MakeDirChanges, CopyFileChanges
  <2>3. Changed
    BY <2>2 DEF Changed, Made
  <2> QED BY <2>1, <2>3, <1>2
<1> QED BY <1>1, <1>3, <1>4, <1>5, <1>6 DEF Changed

-------------------------------------------------------------------------------
(* Every step keeps the types, and the tree a tree.                        *)
LEMMA SameCommand ==
  ASSUME UNCHANGED <<utility, before>>
  PROVE  /\ Operands' = Operands /\ Dest' = Dest /\ Args' = Args
         /\ \A names : Tool(names)' <=> Tool(names)
         /\ \A p : Was(p)' = Was(p)
<1>1. \A names : Tool(names)' <=> Tool(names)
  BY DEF Tool
<1>2. Operands' = Operands
  BY DEF Tool, Operands
<1> QED BY <1>1, <1>2 DEF Dest, Args, Was

LEMMA Targets ==
  ASSUME TreeTypeOK, NEW p \in Path
  PROVE  Target(p) \in Path
<1>1. Dest \in Path /\ Last(p) \in Name
  BY Commands, FrontIs
<1> QED BY <1>1, Inwards DEF Target

LEMMA ChangedStays ==
  ASSUME Typed(tree), Rooted(tree), Changed
  PROVE  Typed(tree') /\ Rooted(tree')
<1>1. CASE tree' = tree
  BY <1>1
<1>2. CASE \E q \in DOMAIN tree : Removed(q)
  BY <1>2, WithoutLeaf DEF Removed
<1>3. CASE \E q \in Path : \E node : Made(q, node)
  <2> PICK q \in Path : \E node : Made(q, node)
    BY <1>3
  <2> PICK node : Made(q, node)
    OBVIOUS
  <2> QED BY WithNode DEF Made
<1>4. CASE \E p \in Path, q \in Path : CanRename(p, q) /\ tree' = Renamed(p, q)
  BY <1>4, RenamedIs
<1> QED BY <1>1, <1>2, <1>3, <1>4 DEF Changed

LEMMA OperandTypes ==
  ASSUME TreeTypeOK, Rooted(tree), Operand
  PROVE  /\ walk' \in Seq(Frame) /\ ret' \in {0, 1} /\ moved' = moved /\ Changed /\ arg \in 1..Operands
         /\ \/ UNCHANGED removal
            \/ /\ Tool({"rm"}) /\ utility.args[arg] \in Path
               /\ RmEntry(utility.args[arg], utility.force, utility.recursive, walk)
<1>1. arg \in 1..Operands /\ walk = << >> /\ walk \in Seq(Frame) /\ Typed(tree) /\ ret \in {0, 1}
  BY Commands DEF Operand, TreeTypeOK
<1> DEFINE p == utility.args[arg]
<1>2. p \in Path
  BY <1>1, Commands
<1>3. \/ RmEntry(p, utility.force, utility.recursive, walk) \/ FindEntry(p, TRUE, walk)
      \/ DuEntry(p, TRUE, walk) \/ CpOperand(p, walk)
  BY DEF Operand
<1>6. UNCHANGED removal \/ (Tool({"rm"}) /\ RmEntry(p, utility.force, utility.recursive, walk))
  BY DEF Operand
<1> HIDE DEF p
<1>4. CASE CpOperand(p, walk)
  <2>1. Target(p) \in Path
    BY <1>2, Targets
  <2>2. Append(walk, Opened(p, Target(p))) \in Seq(Frame)
    BY <1>1, <1>2, <2>1, Opens
  <2>3. walk' \in Seq(Frame) /\ ret' = ret /\ moved' = moved
    BY <1>4, <1>1, <2>2 DEF CpOperand, Enter, Stay
  <2>4. MakeDir(Target(p)) \/ tree' = tree \/ CopyFile(p, Target(p))
    BY <1>4 DEF CpOperand
  <2>5. tree' = tree \/ \E q, node : Made(q, node)
    BY <2>1, <2>4, <1>1, <1>2, MakeDirChanges, CopyFileChanges
  <2>6. Changed
    BY <2>5 DEF Changed, Made
  <2> QED BY <1>1, <1>2, <1>6, <2>3, <2>6 DEF p
<1>5. CASE ~CpOperand(p, walk)
  <2>1. walk' \in Seq(Frame) /\ ret' \in {0, 1} /\ moved' = moved /\ Changed
    BY <1>1, <1>2, <1>3, <1>5, Entries
  <2> QED BY <1>1, <1>2, <1>6, <2>1 DEF p
<1> QED BY <1>4, <1>5

LEMMA Tops ==
  ASSUME TreeTypeOK, walk # << >>
  PROVE  /\ Top \in Frame /\ Top.path \in Path /\ Top.to \in Path /\ Top.buf \subseteq Name /\ Top.seen \subseteq Name
         /\ Top.total \in Nat /\ Top.at \in Seq(Name) /\ walk \in Seq(Frame) /\ Len(walk) \in Nat /\ Len(walk) > 0
         /\ Front(walk) \in Seq(Frame) /\ Len(Front(walk)) = Len(walk) - 1
         /\ \A i \in 1..(Len(walk) - 1) : Front(walk)[i] = walk[i]
         /\ arg - 1 \in 1..Operands
<1>1. walk \in Seq(Frame) /\ arg - 1 \in 1..Operands
  BY DEF TreeTypeOK
<1>2. /\ walk[Len(walk)] \in Frame /\ Front(walk) \in Seq(Frame) /\ Len(Front(walk)) = Len(walk) - 1
      /\ \A i \in 1..(Len(walk) - 1) : Front(walk)[i] = walk[i]
  BY <1>1, Frames
<1>3. Len(walk) \in Nat /\ Len(walk) > 0
  BY <1>1
<1> QED BY <1>1, <1>2, <1>3 DEF Top, Frame

LEMMA NextEntryTypes ==
  ASSUME TreeTypeOK, Rooted(tree), NextEntry
  PROVE  /\ walk' \in Seq(Frame) /\ ret' \in {0, 1} /\ moved' = moved /\ Changed
         /\ \/ UNCHANGED removal
            \/ Tool({"rm"}) /\ \E p \in Path : \E frames : RmEntry(p, FALSE, TRUE, frames)
<1>1. walk # << >>
  BY DEF NextEntry
<1>2. Top.path \in Path /\ Top.to \in Path /\ Top.buf \subseteq Name /\ walk \in Seq(Frame)
  BY <1>1, Tops
<1> PICK n \in Top.buf :
       LET p    == Append(Top.path, n)
           rest == [walk EXCEPT ![Len(walk)].buf = @ \ {n}]
       IN  \/ Tool({"rm"}) /\ RmEntry(p, FALSE, TRUE, rest)
           \/ Tool({"find"}) /\ FindEntry(p, FALSE, rest) /\ UNCHANGED removal
           \/ Tool({"du"}) /\ DuEntry(p, FALSE, rest) /\ UNCHANGED removal
           \/ Tool({"cp"}) /\ CpEntry(p, Append(Top.to, n), rest) /\ UNCHANGED removal
  BY DEF NextEntry
<1> DEFINE p == Append(Top.path, n)
           to == Append(Top.to, n)
           rest == [walk EXCEPT ![Len(walk)].buf = @ \ {n}]
<1>3. \/ RmEntry(p, FALSE, TRUE, rest) \/ FindEntry(p, FALSE, rest)
      \/ DuEntry(p, FALSE, rest) \/ CpEntry(p, to, rest)
  OBVIOUS
<1>6. UNCHANGED removal \/ (Tool({"rm"}) /\ RmEntry(p, FALSE, TRUE, rest))
  OBVIOUS
<1>4. p \in Path /\ to \in Path
  <2>1. n \in Name
    BY <1>2
  <2> QED BY <1>2, <2>1, Inwards
<1>5. rest \in Seq(Frame)
  <2> DEFINE S == Top.buf \ {n}
  <2>1. rest = [walk EXCEPT ![Len(walk)].buf = S]
    BY DEF Top
  <2>2. S \in SUBSET Name
    BY <1>2
  <2> HIDE DEF S, rest
  <2> QED BY <2>1, <2>2, <1>1, <1>2, Frames
<1> HIDE DEF p, to, rest
<1>7. walk' \in Seq(Frame) /\ ret' \in {0, 1} /\ moved' = moved /\ Changed
  BY <1>3, <1>4, <1>5, Entries
<1> QED BY <1>4, <1>6, <1>7

(* The calls rm makes behind lstat, and behind a directory's last entry.   *)
LEMMA RmCallIs ==
  ASSUME TreeTypeOK, Rooted(tree), RmCall
  PROVE  /\ due # NothingDue /\ due.path \in Path /\ due' = NothingDue /\ moved' = moved /\ missed' = missed
         /\ Tool({"rm"}) /\ UNCHANGED <<utility, before, pc, arg>>
         /\ strayed' \in BOOLEAN /\ ((strayed \/ StraysAt(due.path)) => strayed')
         /\ \/ /\ due.call = "open" /\ tree' = tree
               /\ \/ walk' = Append(walk, Opened(due.path, due.path)) /\ ret' = ret
                  \/ walk' = walk /\ ret' = 1
            \/ /\ due.call = "unlink" /\ walk' = walk
               /\ \/ Removed(At(due.path)) /\ ret' = ret
                  \/ tree' = tree /\ ret' = 1
<1>1. due # NothingDue
  BY DEF RmCall, NothingDue, Due
<1>2. due.path \in Path /\ due' = NothingDue /\ missed' = missed /\ Tool({"rm"}) /\ UNCHANGED <<utility, before, pc, arg>>
  BY <1>1 DEF RmCall, TreeTypeOK, RemovalOK
<1>3. CASE due.call = "open" /\ RmOpen(due.path)
  <2>1. strayed' \in BOOLEAN /\ ((strayed \/ StraysAt(due.path)) => strayed')
    BY <1>3 DEF RmOpen, StraysTo
  <2>2. /\ tree' = tree /\ moved' = moved
        /\ \/ walk' = Append(walk, Opened(due.path, due.path)) /\ ret' = ret
           \/ walk' = walk /\ ret' = 1
    BY <1>3 DEF RmOpen, Enter, Stay, files
  <2> QED BY <1>1, <1>2, <1>3, <2>1, <2>2
<1>4. CASE due.call = "unlink" /\ RmUnlink(due.path)
  <2>1. strayed' \in BOOLEAN /\ ((strayed \/ StraysAt(due.path)) => strayed')
    BY <1>4 DEF RmUnlink
  <2>2. /\ walk' = walk /\ moved' = moved
        /\ \/ CanUnlink(due.path) /\ Removes(due.path) /\ ret' = ret
           \/ tree' = tree /\ ret' = 1
    BY <1>4 DEF RmUnlink, Stay
  <2> QED BY <1>1, <1>2, <1>4, <2>1, <2>2, RemovesLeaf
<1> QED BY <1>3, <1>4 DEF RmCall

LEMMA RmCallTypes ==
  ASSUME TreeTypeOK, Rooted(tree), RmCall
  PROVE  walk' \in Seq(Frame) /\ ret' \in {0, 1} /\ moved' = moved /\ Changed
<1>1. Typed(tree) /\ ret \in {0, 1} /\ walk \in Seq(Frame) /\ due.path \in Path
  BY RmCallIs DEF TreeTypeOK
<1>2. Append(walk, Opened(due.path, due.path)) \in Seq(Frame)
  BY <1>1, Opens
<1>3. ret' \in {ret, 1} /\ moved' = moved /\ (walk' = walk \/ walk' = Append(walk, Opened(due.path, due.path)))
  BY RmCallIs
<1>4. tree' = tree \/ Removed(At(due.path))
  BY RmCallIs
<1> QED BY <1>1, <1>2, <1>3, <1>4 DEF Changed, Removed

LEMMA RmDirectoryIs ==
  ASSUME TreeTypeOK, NEW frames, RmDirectory(frames)
  PROVE  /\ walk' = frames /\ moved' = moved /\ UNCHANGED <<due, missed>>
         /\ strayed' \in BOOLEAN /\ ((strayed \/ StraysAt(Top.path)) => strayed')
         /\ \/ CanRmdir(Top.path) /\ Removes(Top.path) /\ ret' = ret
            \/ tree' = tree /\ ret' = 1
<1>1. strayed' \in BOOLEAN /\ ((strayed \/ StraysAt(Top.path)) => strayed')
  BY DEF RmDirectory
<1>2. /\ walk' = frames /\ moved' = moved /\ UNCHANGED <<due, missed>>
      /\ \/ CanRmdir(Top.path) /\ Removes(Top.path) /\ ret' = ret
         \/ tree' = tree /\ ret' = 1
  BY DEF RmDirectory, Stay
<1> QED BY <1>1, <1>2

LEMMA EndDirectoryTypes ==
  ASSUME TreeTypeOK, Rooted(tree), EndDirectory
  PROVE  /\ walk' \in Seq(Frame) /\ ret' \in {0, 1} /\ moved' = moved /\ Changed
         /\ UNCHANGED <<due, missed>> /\ strayed' \in BOOLEAN /\ (strayed' = strayed \/ Tool({"rm"}))
<1>1. walk # << >> /\ ret \in {0, 1}
  BY DEF EndDirectory, TreeTypeOK
<1>2. Top.total \in Nat /\ Front(walk) \in Seq(Frame)
  BY <1>1, Tops
<1>3. Plus(Front(walk), Top.total) \in Seq(Frame)
  BY <1>2, Frames
<1>4. CASE RmDirectory(Front(walk))
  <2>1. walk' = Front(walk) /\ ret' \in {ret, 1} /\ moved' = moved
        /\ (tree' = tree \/ (CanRmdir(Top.path) /\ Removes(Top.path)))
    BY <1>4, RmDirectoryIs
  <2>2. tree' = tree \/ Removed(At(Top.path))
    BY <2>1, RemovesLeaf
  <2>3. Changed
    BY <2>2 DEF Changed, Removed
  <2>4. UNCHANGED <<due, missed>> /\ strayed' \in BOOLEAN
    BY <1>4, RmDirectoryIs
  <2>5. strayed' = strayed \/ Tool({"rm"})
    BY DEF EndDirectory, removal
  <2> QED BY <2>1, <2>3, <2>4, <2>5, <1>1, <1>2
<1>5. CASE ~RmDirectory(Front(walk))
  <2>1. /\ walk' \in {Front(walk), Plus(Front(walk), Top.total)}
        /\ ret' = ret /\ moved' = moved /\ tree' = tree /\ UNCHANGED removal
    BY <1>5 DEF EndDirectory, Stay, files
  <2>2. strayed \in BOOLEAN
    BY DEF TreeTypeOK, RemovalOK
  <2> QED BY <2>1, <2>2, <1>1, <1>2, <1>3 DEF Changed, removal
<1> QED BY <1>4, <1>5

LEMMA OneCallTypes ==
  ASSUME TreeTypeOK, Rooted(tree), OneCall
  PROVE  /\ ret' \in {0, 1} /\ Changed /\ arg \in 1..Operands /\ arg' \in {arg, arg + 1} /\ part' \in Nat
         /\ moved' \in Seq(Path \X Path)
<1>1. /\ Typed(tree) /\ ret \in {0, 1} /\ part \in Nat /\ moved \in Seq(Path \X Path)
      /\ arg \in 1..Operands /\ utility.args[arg] \in Path /\ Dest \in Path
  BY Commands DEF OneCall, TreeTypeOK
<1> DEFINE p == utility.args[arg]
<1>2. p \in Path /\ At(p) \in Path /\ At(Dest) \in Path
  BY <1>1, AtIs
<1>3. CASE Mv
  <2> DEFINE q == At(Target(p))
             h == IF At(p) = q THEN << >> ELSE <<<<At(p), q>>>>
  <2>1. Call(CanRename(At(p), q), Renamed(At(p), q), h) /\ arg' = arg + 1 /\ part' = part
    BY <1>3 DEF Mv
  <2>2. q \in Path
    BY <1>1, <1>2, Targets, AtIs
  <2> HIDE DEF q, p
  <2>3. h \in Seq(Path \X Path)
    BY <1>2, <2>2
  <2>4. \/ CanRename(At(p), q) /\ tree' = Renamed(At(p), q) /\ moved' = moved \o h /\ ret' = ret
        \/ tree' = tree /\ moved' = moved /\ ret' = 1
    BY <2>1 DEF Call, files
  <2>5. Changed
    BY <2>2, <2>4, <1>2 DEF Changed
  <2>6. moved' \in Seq(Path \X Path)
    <3> HIDE DEF h
    <3>1. moved \o h \in Seq(Path \X Path)
      BY <2>3, <1>1
    <3> QED BY <3>1, <2>4, <1>1, Zenon
  <2> QED BY <2>1, <2>4, <2>5, <2>6, <1>1
<1>4. CASE Rmdir
  <2>1. Call(CanRmdir(p), Without({At(p)}), << >>) /\ arg' = arg + 1 /\ part' = part
    BY <1>4 DEF Rmdir
  <2>2. \/ CanRmdir(p) /\ Removes(p) /\ moved' = moved \o << >> /\ ret' = ret
        \/ tree' = tree /\ moved' = moved /\ ret' = 1
    BY <2>1 DEF Call, files, Removes
  <2>3. Changed
    BY <2>2, RemovesLeaf DEF Changed, Removed
  <2>4. moved' \in Seq(Path \X Path)
    BY <2>2, <1>1
  <2> QED BY <2>1, <2>2, <2>3, <2>4, <1>1
<1>5. CASE Mkdir
  <2> DEFINE upTo == SubSeq(p, 1, part + 1)
  <2>1. CASE utility.force /\ part + 1 < Len(p)
    <3>1. part' = part + 1 /\ MakeDir(upTo) /\ UNCHANGED <<arg, ret, moved>>
      BY <1>5, <2>1 DEF Mkdir
    <3>2. upTo \in Path
      <4>1. p \in Seq(Name) /\ part + 1 \in 0..Len(p) /\ part + 1 > 0
        BY <1>1, <1>2, <2>1 DEF Path
      <4>2. upTo \in Seq(Name) /\ Len(upTo) = part + 1
        BY <4>1, Upto
      <4> HIDE DEF upTo
      <4>3. upTo # << >>
        BY <4>1, <4>2
      <4> QED BY <4>2, <4>3 DEF Path
    <3>3. tree' = tree \/ \E q, node : Made(q, node)
      BY <3>1, <3>2, <1>1, MakeDirChanges
    <3>4. Changed
      BY <3>3 DEF Changed, Made
    <3> QED BY <3>1, <3>4, <1>1
  <2>2. CASE ~(utility.force /\ part + 1 < Len(p))
    <3>1. /\ part' = 0 /\ arg' = arg + 1
          /\ UNCHANGED <<ret, tree, moved>> \/ Call(CanMake(p), Put(At(p), Dir), << >>)
      BY <1>5, <2>2 DEF Mkdir, files
    <3>2. \/ UNCHANGED <<ret, tree, moved>>
          \/ CanMake(p) /\ tree' = Put(At(p), Dir) /\ moved' = moved \o << >> /\ ret' = ret
          \/ tree' = tree /\ moved' = moved /\ ret' = 1
      BY <3>1 DEF Call, files
    <3>3. tree' = tree \/ Made(At(p), Dir)
      BY <3>2, <1>2 DEF CanMake, Vacant, Made, Is, Dir
    <3>4. Changed
      BY <3>3 DEF Changed, Made
    <3>5. moved' \in Seq(Path \X Path) /\ ret' \in {0, 1}
      BY <3>2, <1>1
    <3> QED BY <3>1, <3>4, <3>5, <1>1
  <2> QED BY <2>1, <2>2
<1>6. CASE LnRemoves
  <2>1. part' = 1 /\ arg' = arg /\ ret' = ret /\ moved' = moved /\ (tree' = tree \/ Removed(At(Dest)))
    BY <1>6, RemovesLeaf DEF LnRemoves
  <2> QED BY <2>1, <1>1 DEF Changed, Removed
<1>7. CASE Ln
  <2> DEFINE s == At(utility.args[1])
  <2>1. /\ part' = 0 /\ arg' = arg + 1
        /\ \/ Call(CanMake(Dest), Put(At(Dest), Link(utility.args[1])), << >>)
           \/ Call(s \in DOMAIN tree /\ ~Is("dir", s) /\ CanMake(Dest), Put(At(Dest), tree[s]), << >>)
    BY <1>7 DEF Ln
  <2>2. /\ ret' \in {ret, 1} /\ moved' \in {moved, moved \o << >>}
        /\ \/ tree' = tree
           \/ CanMake(Dest) /\ tree' = Put(At(Dest), Link(utility.args[1]))
           \/ CanMake(Dest) /\ s \in DOMAIN tree /\ tree' = Put(At(Dest), tree[s])
    BY <2>1 DEF Call, files
  <2>3. utility.args[1] \in Seq(Name)
    <3>1. 1 \in 1..Operands
      BY <1>1, Commands
    <3> QED BY <3>1, Commands DEF Path
  <2>4. /\ Link(utility.args[1]).kind = "link" => Link(utility.args[1]).body \in Seq(Name)
        /\ s \in DOMAIN tree => (tree[s].kind = "link" => tree[s].body \in Seq(Name))
    BY <2>3, <1>1 DEF Link, Typed, LinkIn
  <2>5. CanMake(Dest) => ~Is("dir", At(Dest)) /\ Is("dir", Front(At(Dest)))
    BY DEF CanMake, Vacant, Is
  <2>6. tree' = tree \/ \E node : Made(At(Dest), node)
    <3> HIDE DEF s
    <3> QED BY <2>2, <2>4, <2>5, <1>2, Zenon DEF Made
  <2>7. Changed
    BY <2>6 DEF Changed, Made
  <2>8. moved' \in Seq(Path \X Path)
    BY <2>2, <1>1
  <2> QED BY <2>1, <2>2, <2>7, <2>8, <1>1
<1> QED BY <1>3, <1>4, <1>5, <1>6, <1>7 DEF OneCall

LEMMA StepChanges ==
  ASSUME TreeTypeOK, Rooted(tree), [TreeNext]_treeVars
  PROVE  Changed
<1>1. CASE UNCHANGED treeVars \/ Start \/ Fill \/ Finish
  BY <1>1 DEF Start, Fill, Finish, files, treeVars, Changed
<1>2. CASE Operand
  BY <1>2, OperandTypes
<1>3. CASE NextEntry
  BY <1>3, NextEntryTypes
<1>4. CASE EndDirectory
  BY <1>4, EndDirectoryTypes
<1>5. CASE OneCall
  BY <1>5, OneCallTypes
<1>6. CASE Meddle
  <2>1. GuestMade \/ Removed(Guest)
    BY <1>6, MeddleChanges
  <2> QED BY <2>1 DEF Changed, GuestMade, Made, Removed
<1>7. CASE RmCall
  BY <1>7, RmCallTypes
<1> QED BY <1>1, <1>2, <1>3, <1>4, <1>5, <1>6, <1>7 DEF TreeNext

LEMMA RmEntryTypes ==
  ASSUME TreeTypeOK, NEW p \in Path, NEW force, NEW recursive, NEW frames, RmEntry(p, force, recursive, frames)
  PROVE  /\ due' = due \/ due' \in [call : {"open", "unlink"}, path : {p}]
         /\ strayed' \in BOOLEAN /\ missed' \subseteq Path /\ missed \subseteq missed'
<1>1. strayed' \in BOOLEAN
  BY DEF RmEntry
<1>2. due' = due \/ due' = Due("open", p) \/ due' = Due("unlink", p)
  BY RmEntryIs
<1>3. missed' \in {missed, missed \cup {p}} /\ missed \subseteq Path
  BY RmEntryIs DEF TreeTypeOK, RemovalOK
<1> QED BY <1>1, <1>2, <1>3 DEF Due

LEMMA RemovalStep ==
  ASSUME TreeTypeOK, Rooted(tree), [TreeNext]_treeVars
  PROVE  /\ due' \in [call : {"none", "open", "unlink"}, path : Seq(Name)]
         /\ due' # NothingDue => due'.path \in Path /\ arg' - 1 \in 1..Operands
         /\ strayed' \in BOOLEAN /\ missed' \subseteq Path
         /\ Tool({"rm"}) \/ (due' = NothingDue /\ ~strayed')
         /\ missed \subseteq missed' /\ (strayed => strayed')
<1>1. RemovalOK /\ arg \in Nat \ {0}
  BY DEF TreeTypeOK
<1>2. NothingDue \in [call : {"none", "open", "unlink"}, path : Seq(Name)]
  BY DEF NothingDue, Due
<1>3. CASE UNCHANGED treeVars \/ Start \/ Fill \/ Finish \/ Meddle
  <2>1. UNCHANGED removal /\ arg' = arg
    BY <1>3 DEF Start, Fill, Finish, Meddle, treeVars, removal
  <2> QED BY <2>1, <1>1 DEF RemovalOK, removal
<1>4. CASE Operand
  <2>1. arg' = arg + 1 /\ due = NothingDue /\ arg \in 1..Operands
    BY <1>4, OperandTypes DEF Operand
  <2>2. (arg + 1) - 1 = arg
    BY <2>1
  <2>3. CASE UNCHANGED removal
    BY <2>1, <2>3, <1>1 DEF RemovalOK, removal
  <2>4. CASE ~UNCHANGED removal
    <3>1. Tool({"rm"}) /\ utility.args[arg] \in Path /\ RmEntry(utility.args[arg], utility.force, utility.recursive, walk)
      BY <2>4, <1>4, OperandTypes
    <3>2. /\ due' = due \/ due' \in [call : {"open", "unlink"}, path : {utility.args[arg]}]
          /\ strayed' \in BOOLEAN /\ missed' \subseteq Path /\ missed \subseteq missed'
      BY <3>1, RmEntryTypes
    <3>3. strayed => strayed'
      BY <3>1, RmEntryIs
    <3> QED BY <2>1, <2>2, <3>1, <3>2, <3>3, <1>1, <1>2 DEF Path
  <2> QED BY <2>3, <2>4
<1>5. CASE NextEntry
  <2>1. arg' = arg /\ due = NothingDue /\ arg - 1 \in 1..Operands
    BY <1>5, Tops DEF NextEntry
  <2>2. CASE UNCHANGED removal
    BY <2>1, <2>2, <1>1 DEF RemovalOK, removal
  <2>3. CASE ~UNCHANGED removal
    <3>1. Tool({"rm"}) /\ \E p \in Path : \E frames : RmEntry(p, FALSE, TRUE, frames)
      BY <2>3, <1>5, NextEntryTypes
    <3> PICK p \in Path : \E frames : RmEntry(p, FALSE, TRUE, frames)
      BY <3>1
    <3>2. /\ due' = due \/ due' \in [call : {"open", "unlink"}, path : {p}]
          /\ strayed' \in BOOLEAN /\ missed' \subseteq Path /\ missed \subseteq missed'
      BY RmEntryTypes
    <3>3. strayed => strayed'
      BY RmEntryIs
    <3> QED BY <2>1, <3>1, <3>2, <3>3, <1>1, <1>2 DEF Path
  <2> QED BY <2>2, <2>3
<1>6. CASE EndDirectory
  <2>1. arg' = arg /\ UNCHANGED <<due, missed>> /\ strayed' \in BOOLEAN /\ (strayed' = strayed \/ Tool({"rm"}))
    BY <1>6, EndDirectoryTypes DEF EndDirectory
  <2>2. strayed => strayed'
    <3>1. CASE RmDirectory(Front(walk))
      BY <3>1, RmDirectoryIs
    <3>2. CASE ~RmDirectory(Front(walk))
      BY <3>2, <1>6 DEF EndDirectory, removal
    <3> QED BY <3>1, <3>2
  <2> QED BY <2>1, <2>2, <1>1 DEF RemovalOK
<1>7. CASE OneCall
  <2>1. UNCHANGED removal /\ ~Tool({"rm"})
    BY <1>7 DEF OneCall, Mv, Rmdir, Mkdir, LnRemoves, Ln, Tool
  <2> QED BY <2>1, <1>1 DEF RemovalOK, removal
<1>8. CASE RmCall
  <2>1. /\ due' = NothingDue /\ missed' = missed /\ Tool({"rm"}) /\ strayed' \in BOOLEAN
        /\ strayed => strayed'
    BY <1>8, RmCallIs
  <2> QED BY <2>1, <1>1, <1>2 DEF RemovalOK
<1> QED BY <1>3, <1>4, <1>5, <1>6, <1>7, <1>8 DEF TreeNext

LEMMA TypeStep ==
  ASSUME TreeTypeOK, Rooted(tree), [TreeNext]_treeVars
  PROVE  /\ TreeTypeOK' /\ Rooted(tree') /\ UNCHANGED <<utility, before>> /\ Changed
         /\ missed \subseteq missed' /\ (strayed => strayed')
<1>1. UNCHANGED <<utility, before>>
  BY DEF TreeNext, Start, Operand, Fill, NextEntry, RmCall, EndDirectory, OneCall, Finish, Meddle, treeVars
<1>2. Operands' = Operands /\ \A names : Tool(names)' <=> Tool(names)
  BY <1>1, SameCommand
<1>3. /\ utility \in TreeCommands /\ before \in Forest /\ Typed(tree)
      /\ pc \in {"start", "run", "done"} /\ arg \in Nat \ {0} /\ part \in Nat /\ intoDir \in BOOLEAN
      /\ walk \in Seq(Frame) /\ ret \in {0, 1} /\ moved \in Seq(Path \X Path) /\ meddled \in Nat
      /\ (walk # << >> => arg - 1 \in 1..Operands)
      /\ arg <= Operands + 1 /\ Operands \in Nat
  BY Commands DEF TreeTypeOK
<1> DEFINE Rest == /\ pc' \in {"start", "run", "done"} /\ arg' \in Nat \ {0} /\ part' \in Nat /\ intoDir' \in BOOLEAN
                   /\ walk' \in Seq(Frame) /\ ret' \in {0, 1} /\ moved' \in Seq(Path \X Path) /\ meddled' \in Nat
                   /\ walk' # << >> => arg' - 1 \in 1..Operands
                   /\ arg' <= Operands + 1
<1>13. SUFFICES Rest
  <2>1. Changed
    BY StepChanges
  <2>2. Typed(tree') /\ Rooted(tree')
    BY <2>1, <1>3, ChangedStays
  <2>3. RemovalOK' /\ missed \subseteq missed' /\ (strayed => strayed')
    BY RemovalStep, <1>1, <1>2 DEF RemovalOK, NothingDue, Due
  <2>4. SUFFICES ASSUME Rest PROVE TreeTypeOK'
    BY <2>1, <2>2, <2>3, <1>1
  <2> QED BY <2>2, <2>3, <2>4, <1>1, <1>2, <1>3 DEF TreeTypeOK
<1>4. CASE UNCHANGED treeVars
  BY <1>3, <1>4 DEF treeVars
<1>5. CASE Start
  BY <1>3, <1>5 DEF Start, files
<1>6. CASE Operand
  <2>1. walk' \in Seq(Frame) /\ ret' \in {0, 1} /\ moved' = moved /\ arg \in 1..Operands
    BY <1>6, OperandTypes
  <2>2. arg' = arg + 1 /\ UNCHANGED <<pc, part, intoDir, meddled>>
    BY <1>6 DEF Operand
  <2> QED BY <1>3, <2>1, <2>2
<1>7. CASE Fill
  <2>1. walk # << >> /\ tree' = tree /\ UNCHANGED <<pc, arg, part, intoDir, ret, meddled, moved>>
    BY <1>7 DEF Fill, files
  <2> PICK S \in SUBSET Unseen : walk' = [walk EXCEPT ![Len(walk)].buf = S, ![Len(walk)].seen = @ \cup S]
    BY <1>7 DEF Fill
  <2> DEFINE T == Top.seen \cup S
  <2>2. S \in SUBSET Name /\ T \in SUBSET Name
    BY <2>1, <1>3, ChildrenAreNames, Tops DEF Unseen
  <2>3. walk' = [walk EXCEPT ![Len(walk)].buf = S, ![Len(walk)].seen = T]
    BY <2>1, <1>3 DEF Top
  <2> HIDE DEF T
  <2>4. walk' \in Seq(Frame)
    <3>1. [walk EXCEPT ![Len(walk)].buf = S, ![Len(walk)].seen = T] \in Seq(Frame)
      BY <2>1, <2>2, <1>3, Frames
    <3> QED BY <3>1, <2>3
  <2> QED BY <1>3, <2>1, <2>4
<1>8. CASE NextEntry
  <2>1. walk' \in Seq(Frame) /\ ret' \in {0, 1} /\ moved' = moved
    BY <1>8, NextEntryTypes
  <2>2. UNCHANGED <<pc, arg, part, intoDir, meddled>> /\ walk # << >>
    BY <1>8 DEF NextEntry
  <2> QED BY <1>3, <2>1, <2>2
<1>9. CASE EndDirectory
  <2>1. walk' \in Seq(Frame) /\ ret' \in {0, 1} /\ moved' = moved
    BY <1>9, EndDirectoryTypes
  <2>2. UNCHANGED <<pc, arg, part, intoDir, meddled>> /\ walk # << >>
    BY <1>9 DEF EndDirectory
  <2> QED BY <1>3, <2>1, <2>2
<1>10. CASE OneCall
  <2>1. /\ ret' \in {0, 1} /\ arg \in 1..Operands /\ arg' \in {arg, arg + 1} /\ part' \in Nat
        /\ moved' \in Seq(Path \X Path)
    BY <1>10, OneCallTypes
  <2>2. UNCHANGED <<pc, intoDir, walk, meddled>>
    BY <1>10 DEF OneCall
  <2>3. walk = << >> \/ arg' - 1 \in 1..Operands
    <3>1. SUFFICES ASSUME walk # << >> PROVE arg' - 1 \in 1..Operands
      OBVIOUS
    <3>2. arg - 1 \in 1..Operands
      BY <3>1, <1>3
    <3>3. (arg + 1) - 1 = arg
      BY <2>1
    <3> QED BY <3>2, <3>3, <2>1
  <2>4. arg' \in Nat \ {0} /\ arg' <= Operands + 1
    BY <2>1, <1>3
  <2> QED BY <1>3, <2>1, <2>2, <2>3, <2>4
<1>11. CASE Finish
  BY <1>3, <1>11 DEF Finish, files
<1>12. CASE Meddle
  BY <1>3, <1>12 DEF Meddle
<1>14. CASE RmCall
  <2>1. walk' \in Seq(Frame) /\ ret' \in {0, 1} /\ moved' = moved
    BY <1>14, RmCallTypes
  <2>2. due # NothingDue /\ arg' = arg
    BY <1>14, RmCallIs
  <2>3. UNCHANGED <<pc, part, intoDir, meddled>>
    BY <1>14 DEF RmCall
  <2>4. arg - 1 \in 1..Operands
    BY <2>2 DEF TreeTypeOK, RemovalOK
  <2> QED BY <1>3, <2>1, <2>2, <2>3, <2>4
<1> QED BY <1>4, <1>5, <1>6, <1>7, <1>8, <1>9, <1>10, <1>11, <1>12, <1>14 DEF TreeNext

-------------------------------------------------------------------------------
(* rm and rmdir.                                                           *)
Shrunk ==
  \/ tree' = tree
  \/ \E q \in DOMAIN tree : Removed(q)
  \/ GuestMade
RmChange ==
  \/ tree' = tree
  \/ \E q \in DOMAIN tree : Removed(q) /\ (strayed' \/ q = Guest \/ \E p \in Args : Within(q, Was(p)))
  \/ GuestMade
OnlyLess == \A r \in DOMAIN tree' : r # Guest => r \in DOMAIN tree /\ tree'[r] = tree[r]

LEMMA ShrunkIs ==
  ASSUME TreeTypeOK, Rooted(tree), OnlyRemoved, UNCHANGED <<utility, before>>, Shrunk
  PROVE  OnlyRemoved' /\ OnlyLess
<1>1. Typed(tree) /\ (Tool({"rm"})' <=> Tool({"rm"}))
  BY SameCommand DEF TreeTypeOK
<1>2. CASE tree' = tree
  BY <1>1, <1>2 DEF OnlyRemoved, OnlyLess, LinkIn
<1>3. CASE \E q \in DOMAIN tree : Removed(q)
  <2>1. DOMAIN tree' \subseteq DOMAIN tree /\ \A r \in DOMAIN tree' : tree'[r] = tree[r]
    BY <1>1, <1>3, WithoutLeaf DEF Removed
  <2> QED BY <1>1, <2>1 DEF OnlyRemoved, OnlyLess, LinkIn
<1>4. CASE GuestMade
  <2> PICK node : Made(Guest, node) /\ (node.kind = "link" => Tool({"rm"}))
    BY <1>4 DEF GuestMade
  <2>2. DOMAIN tree' = DOMAIN tree \cup {Guest} /\ tree'[Guest] = node
        /\ \A r \in DOMAIN tree' : r # Guest => tree'[r] = tree[r]
    BY <1>1, WithNode DEF Made
  <2> QED BY <1>1, <2>2 DEF OnlyRemoved, OnlyLess, LinkIn
<1> QED BY <1>2, <1>3, <1>4 DEF Shrunk

LEMMA RmChangeIs ==
  ASSUME TreeTypeOK, Rooted(tree), OnlyRemoved, GoneWasNamed, UNCHANGED <<utility, before>>, RmChange,
         strayed => strayed'
  PROVE  OnlyRemoved' /\ OnlyLess /\ GoneWasNamed' /\ Shrunk
<1>1. Typed(tree)
  BY DEF TreeTypeOK
<1>2. Shrunk
  BY DEF Shrunk, RmChange
<1>3. OnlyRemoved' /\ OnlyLess
  BY <1>2, ShrunkIs
<1>4. ASSUME ~strayed' PROVE \A q \in DOMAIN before \ {Guest} : q \in DOMAIN tree' \/ \E p \in Args : Within(q, Was(p))
  <2>0. \A q \in DOMAIN before \ {Guest} : q \in DOMAIN tree \/ \E p \in Args : Within(q, Was(p))
    BY <1>4 DEF GoneWasNamed
  <2>1. CASE tree' = tree
    BY <2>0, <2>1
  <2>2. CASE \E x \in DOMAIN tree : Removed(x) /\ (x = Guest \/ \E p \in Args : Within(x, Was(p)))
    <3> PICK x \in DOMAIN tree : Removed(x) /\ (x = Guest \/ \E p \in Args : Within(x, Was(p)))
      BY <2>2
    <3>1. DOMAIN tree' = DOMAIN tree \ {x}
      BY <1>1, WithoutLeaf DEF Removed
    <3> QED BY <2>0, <3>1
  <2>3. CASE GuestMade
    <3>1. DOMAIN tree' = DOMAIN tree \cup {Guest}
      BY <2>3, <1>1, WithNode DEF GuestMade, Made
    <3> QED BY <2>0, <3>1
  <2> QED BY <1>4, <2>1, <2>2, <2>3 DEF RmChange
<1>5. GoneWasNamed'
  <2>1. Args' = Args /\ \A p : Was(p)' = Was(p)
    BY SameCommand
  <2> QED BY <1>4, <2>1 DEF GoneWasNamed
<1> QED BY <1>2, <1>3, <1>5

(* What was gone, or is gone now, stays so: the other process makes only   *)
(* its own entry, and the path does not lead through it.                   *)
LEMMA StillGone ==
  ASSUME before \in Forest, before' = before, Typed(tree), Rooted(tree), OnlyRemoved,
         Typed(tree'), Rooted(tree'), OnlyRemoved', OnlyLess,
         NEW x \in Path, Was(x) # Guest, At(x) \notin DOMAIN tree \/ At(x) \notin DOMAIN tree',
         ~(LinkIn(tree', Guest) /\ Inside(x, Guest))
  PROVE  AtIn(tree', x) \notin DOMAIN tree'
<1>b. Typed(before) /\ Rooted(before) /\ ~LinkIn(before, Guest) /\ Guest \in Path /\ Guest \in Seq(Name)
  BY BeforeIs
<1>x. x \in Seq(Name) /\ Len(x) \in Nat /\ Len(x) > 0
  BY DEF Path
<1>0. ASSUME NEW k \in 1..(Len(x) - 1), LinkIn(tree', SubSeq(x, 1, k))
      PROVE  LET r == SubSeq(x, 1, k) IN
               LinkIn(tree, r) /\ LinkIn(before, r) /\ tree'[r] = tree[r] /\ tree[r] = before[r]
  <2>1. SubSeq(x, 1, k) # Guest
    BY <1>b, <1>0, BehindGuest
  <2> QED BY <1>0, <2>1 DEF OnlyRemoved, OnlyLess, LinkIn
<1>1. SUFFICES ASSUME AtIn(tree', x) \in DOMAIN tree' PROVE FALSE
  OBVIOUS
<1>2. CASE \E k \in 1..(Len(x) - 1) : LinkIn(tree', SubSeq(x, 1, k))
  <2> PICK k \in 1..(Len(x) - 1) : LinkIn(tree', SubSeq(x, 1, k))
    BY <1>2
  <2> DEFINE l == SubSeq(x, 1, k)
             rest == SubSeq(x, k + 1, Len(x))
  <2>1. AtIn(tree', x) = tree'[l].body \o rest
    BY PathIn
  <2>2. LinkIn(tree, l) /\ LinkIn(before, l) /\ tree'[l] = tree[l] /\ tree[l] = before[l]
    BY <1>0
  <2>3. AtIn(tree, x) = tree[l].body \o rest
    BY <2>2, PathIn
  <2>4. AtIn(before, x) = before[l].body \o rest
    BY <2>2, <1>b, PathIn
  <2>5. AtIn(tree', x) = At(x) /\ At(x) = Was(x)
    BY <2>1, <2>2, <2>3, <2>4 DEF At, Was
  <2> QED BY <2>5, <1>1 DEF OnlyLess
<1>3. CASE \A k \in 1..(Len(x) - 1) : ~LinkIn(tree', SubSeq(x, 1, k))
  <2>1. AtIn(tree', x) = x
    BY <1>3, PathIn
  <2>2. CASE x # Guest
    <3>1. x \in DOMAIN tree
      BY <2>1, <2>2, <1>1 DEF OnlyLess
    <3>2. \A k \in 1..(Len(x) - 1) : ~LinkIn(tree, SubSeq(x, 1, k))
      <4>1. TAKE k \in 1..(Len(x) - 1)
      <4>2. k \in 0..(Len(x) - 1)
        OBVIOUS
      <4> QED BY <4>2, <3>1, OnTheWay
    <3>3. At(x) = x
      BY <3>2, PathIn DEF At
    <3> QED BY <3>1, <3>3, <2>1, <1>1
  <2>3. CASE x = Guest
    <3>1. \E k \in 1..(Len(x) - 1) : LinkIn(before, SubSeq(x, 1, k))
      <4>1. SUFFICES ASSUME \A k \in 1..(Len(x) - 1) : ~LinkIn(before, SubSeq(x, 1, k)) PROVE FALSE
        OBVIOUS
      <4>2. Was(x) = x
        BY <4>1, <1>b, PathIn DEF Was
      <4> QED BY <4>2, <2>3
    <3> PICK k \in 1..(Len(x) - 1) : LinkIn(before, SubSeq(x, 1, k))
      BY <3>1
    <3> DEFINE l == SubSeq(x, 1, k)
    <3>2. k \in 0..(Len(x) - 1) /\ k \in 0..Len(x)
      BY <1>x
    <3>3. l \in DOMAIN tree' /\ tree'[l].kind = "dir"
      BY <3>2, <2>1, <1>1, OnTheWay
    <3>4. Len(l) = k
      BY <3>2, <1>x, Upto
    <3>5. l # Guest
      BY <3>4, <2>3, <1>x
    <3>6. tree'[l] = before[l]
      BY <3>3, <3>5 DEF OnlyRemoved
    <3> QED BY <3>3, <3>6 DEF LinkIn
  <2> QED BY <2>2, <2>3
<1> QED BY <1>2, <1>3

LEMMA StaysGone ==
  ASSUME before \in Forest, UNCHANGED <<utility, before>>, Typed(tree), Rooted(tree), OnlyRemoved,
         Typed(tree'), Rooted(tree'), OnlyRemoved', OnlyLess, NEW x \in Path,
         At(x) \notin DOMAIN tree \/ At(x) \notin DOMAIN tree'
  PROVE  Excused(x)' \/ AtIn(tree', x) \notin DOMAIN tree'
<1>1. SUFFICES ASSUME ~Excused(x)' PROVE AtIn(tree', x) \notin DOMAIN tree'
  OBVIOUS
<1>2. Was(x)' = Was(x) /\ (Tool({"rm"})' <=> Tool({"rm"}))
  BY SameCommand
<1>3. Was(x) # Guest /\ ~(Tool({"rm"}) /\ Inside(x, Guest))
  BY <1>1, <1>2 DEF Excused
<1>4. LinkIn(tree', Guest) => Tool({"rm"})
  BY <1>2 DEF OnlyRemoved, LinkIn
<1> QED BY <1>3, <1>4, StillGone

(* An operand that is done with stays gone.                                *)
LEMMA OperandsStayGone ==
  ASSUME TreeTypeOK, Rooted(tree), TreeTypeOK', Rooted(tree'), OnlyRemoved, OnlyRemoved', OnlyLess, OperandsGone,
         UNCHANGED <<utility, before>>, missed \subseteq missed', ret' = 0 => ret = 0,
         NEW i \in 1..(arg - 1), i = arg - 1 => Idle, ret' = 0
  PROVE  Excused(utility.args[i])' \/ AtIn(tree', utility.args[i]) \notin DOMAIN tree'
<1>1. /\ before \in Forest /\ Typed(tree) /\ Typed(tree') /\ arg \in Nat /\ arg <= Operands + 1
  BY DEF TreeTypeOK
<1>2. utility.args[i] \in Path
  <2>1. i \in 1..Operands
    BY <1>1, Commands
  <2> QED BY <2>1, Commands
<1> PICK p \in Path : p = utility.args[i]
  BY <1>2
<1>3. Excused(p) \/ At(p) \notin DOMAIN tree
  BY DEF OperandsGone
<1>5. utility'.args[i] = p
  OBVIOUS
<1>4. At(p) \notin DOMAIN tree => Excused(p)' \/ AtIn(tree', p) \notin DOMAIN tree'
  BY <1>1, <1>2, StaysGone
<1>6. Excused(p) => Excused(p)'
  BY DEF Excused, Was, Tool
<1> QED BY <1>3, <1>4, <1>5, <1>6

RmInv == OnlyRemoved /\ GoneWasNamed /\ OperandsGone
RmHyp ==
  /\ TreeTypeOK /\ Rooted(tree) /\ RmInv
  /\ TreeTypeOK' /\ Rooted(tree') /\ UNCHANGED <<utility, before>>
  /\ missed \subseteq missed' /\ (strayed => strayed')

(* A step that is no operand's end.                                        *)
LEMMA RmSame ==
  ASSUME RmHyp, RmChange, arg' = arg, ret' = 0 => ret = 0, Idle' => Idle
  PROVE  RmInv'
<1>1. /\ TreeTypeOK /\ Rooted(tree) /\ OnlyRemoved /\ GoneWasNamed /\ OperandsGone /\ UNCHANGED <<utility, before>>
      /\ missed \subseteq missed' /\ (strayed => strayed')
  BY DEF RmHyp, RmInv
<1>2. OnlyRemoved' /\ OnlyLess /\ GoneWasNamed'
  BY <1>1, RmChangeIs
<1>3. OperandsGone'
  <2>1. SUFFICES ASSUME ret' = 0, NEW i \in 1..(arg - 1), i = arg - 1 => Idle'
                 PROVE  Excused(utility.args[i])' \/ AtIn(tree', utility.args[i]) \notin DOMAIN tree'
    BY <1>1 DEF OperandsGone, At
  <2> QED BY <2>1, <1>1, <1>2, OperandsStayGone DEF RmHyp
<1> QED BY <1>2, <1>3 DEF RmInv

(* A step that is done with operand n.                                     *)
LEMMA RmDone ==
  ASSUME RmHyp, RmChange, NEW n \in 1..Operands, ret' = 0 => ret = 0, arg' = n + 1,
         \/ arg = n /\ Idle
         \/ arg = n + 1,
         ret' = 0 /\ Idle' => \/ Tool({"rm"}) /\ utility.args[n] \in missed'
                             \/ At(utility.args[n]) \notin DOMAIN tree \/ At(utility.args[n]) \notin DOMAIN tree'
  PROVE  RmInv'
<1>1. /\ TreeTypeOK /\ Rooted(tree) /\ OnlyRemoved /\ GoneWasNamed /\ OperandsGone /\ UNCHANGED <<utility, before>>
      /\ missed \subseteq missed' /\ (strayed => strayed')
  BY DEF RmHyp, RmInv
<1>2. OnlyRemoved' /\ OnlyLess /\ GoneWasNamed'
  BY <1>1, RmChangeIs
<1>3. OperandsGone'
  <2>1. SUFFICES ASSUME ret' = 0, NEW i \in 1..n, i = n => Idle'
                 PROVE  Excused(utility.args[i])' \/ AtIn(tree', utility.args[i]) \notin DOMAIN tree'
    <3>1. arg' - 1 = n
      BY Commands, <1>1
    <3> QED BY <3>1, <1>1 DEF OperandsGone, At
  <2>2. CASE i = n
    <3>1. utility.args[n] \in Path
      BY <1>1, Commands
    <3>2. before \in Forest /\ Typed(tree) /\ Typed(tree') /\ Rooted(tree')
      BY DEF RmHyp, TreeTypeOK
    <3> PICK p \in Path : p = utility.args[n]
      BY <3>1
    <3>3. \/ Tool({"rm"}) /\ p \in missed'
          \/ At(p) \notin DOMAIN tree \/ At(p) \notin DOMAIN tree'
      BY <2>1, <2>2
    <3>5. utility'.args[n] = p
      BY <1>1
    <3>4. CASE At(p) \notin DOMAIN tree \/ At(p) \notin DOMAIN tree'
      <4>1. Excused(p)' \/ AtIn(tree', p) \notin DOMAIN tree'
        BY <3>2, <3>4, <1>1, <1>2, StaysGone
      <4> QED BY <4>1, <3>5, <2>2
    <3>6. CASE Tool({"rm"}) /\ p \in missed'
      <4>1. Excused(p)'
        BY <3>6, <1>1, SameCommand DEF Excused
      <4> QED BY <4>1, <3>5, <2>2
    <3> QED BY <3>3, <3>4, <3>6
  <2>3. CASE i # n
    <3>1. i \in 1..(arg - 1) /\ (i = arg - 1 => Idle)
      <4>1. n \in Nat /\ i \in Nat /\ i <= n - 1 /\ i > 0
        BY <2>3, <1>1, Commands
      <4>2. CASE arg = n /\ Idle
        BY <4>1, <4>2
      <4>3. CASE arg = n + 1
        <5>1. i # arg - 1 /\ i \in 1..(arg - 1)
          BY <4>1, <4>3, <2>3
        <5> QED BY <5>1
      <4> QED BY <4>2, <4>3
    <3> QED BY <3>1, <2>1, <1>1, <1>2, OperandsStayGone DEF RmHyp
  <2> QED BY <2>2, <2>3
<1> QED BY <1>2, <1>3 DEF RmInv

(* What the other process does, and the steps that call nothing.           *)
LEMMA RmOthers ==
  ASSUME RmHyp, UNCHANGED treeVars \/ Start \/ Fill \/ Finish \/ Meddle
  PROVE  RmInv' /\ RmChange
<1>1. TreeTypeOK /\ Rooted(tree)
  BY DEF RmHyp
<1>2. arg' = arg /\ (ret' = 0 => ret = 0) /\ (Idle' => Idle)
  <2>1. CASE Fill
    <3>1. arg' = arg /\ ret' = ret /\ walk # << >> /\ \E g : walk' = [walk EXCEPT ![Len(walk)] = g]
      BY <2>1 DEF Fill
    <3>2. walk \in Seq(Frame) /\ Len(walk) \in Nat /\ Len(walk) > 0 /\ walk' \in Seq(Frame)
      BY <1>1, <3>1, Tops DEF RmHyp, TreeTypeOK
    <3>3. DOMAIN walk' = DOMAIN walk
      BY <3>1
    <3>4. Len(walk') = Len(walk)
      BY <3>2, <3>3
    <3>5. walk' # << >>
      BY <3>2, <3>4
    <3> QED BY <3>1, <3>5 DEF Idle
  <2>2. CASE ~Fill
    BY <2>2 DEF Start, Finish, Meddle, treeVars, removal, Idle
  <2> QED BY <2>1, <2>2
<1>3. RmChange
  <2>1. CASE Meddle
    <3>1. GuestMade \/ Removed(Guest)
      BY <1>1, <2>1, MeddleChanges
    <3> QED BY <3>1 DEF RmChange, Removed
  <2>2. CASE ~Meddle
    BY <2>2 DEF Start, Fill, Finish, treeVars, files, RmChange
  <2> QED BY <2>1, <2>2
<1> QED BY <1>2, <1>3, RmSame

(* Where rm is in an operand.                                              *)
LEMMA WalkedStays ==
  ASSUME before \in Forest, Typed(tree), Rooted(tree), OnlyRemoved,
         NEW o \in Path, NEW x \in Path, NEW n \in Name, Walked(o, x)
  PROVE  /\ Append(x, n) \in Path /\ Reached(o, Append(x, n))
         /\ ~StraysAt(Append(x, n)) /\ Is("dir", At(Append(x, n))) => Walked(o, Append(x, n))
<1> DEFINE y == Append(x, n)
<1>1. /\ y \in Path /\ y \in Seq(Name) /\ Len(y) = Len(x) + 1 /\ Len(x) \in Nat /\ IsPrefix(x, y)
      /\ \A k \in 0..Len(x) : SubSeq(y, 1, k) = SubSeq(x, 1, k)
  BY Inwards
<1> HIDE DEF y
<1>o. o \in Seq(Name) /\ x \in Seq(Name) /\ Len(o) \in Nat
  BY DEF Path
<1>2. Len(o) <= Len(x) /\ SubSeq(x, 1, Len(o)) = o /\ \A k \in Len(o)..Len(x) : ~LinkIn(before, SubSeq(x, 1, k))
  BY <1>o, WithinIs DEF Walked
<1>3. IsPrefix(o, y)
  <2>1. Len(o) \in 0..Len(x) /\ Len(o) <= Len(y)
    BY <1>o, <1>1, <1>2
  <2>2. SubSeq(y, 1, Len(o)) = o
    BY <2>1, <1>1, <1>2
  <2> QED BY <2>1, <2>2, <1>o, <1>1, WithinIs
<1>4. \A k \in Len(o)..(Len(y) - 1) : ~LinkIn(before, SubSeq(y, 1, k))
  <2>1. TAKE k \in Len(o)..(Len(y) - 1)
  <2>2. k \in Len(o)..Len(x) /\ k \in 0..Len(x)
    BY <1>o, <1>1
  <2>3. SubSeq(y, 1, k) = SubSeq(x, 1, k)
    BY <2>2, <1>1
  <2> QED BY <2>2, <2>3, <1>2
<1>6. ASSUME ~StraysAt(y), Is("dir", At(y)) PROVE Walked(o, y)
  <2>1. ~LinkIn(before, y)
    BY <1>1, <1>6, DirIsNoLink
  <2>2. SubSeq(y, 1, Len(y)) = y
    BY <1>1
  <2>3. \A k \in Len(o)..Len(y) : ~LinkIn(before, SubSeq(y, 1, k))
    <3>1. TAKE k \in Len(o)..Len(y)
    <3>2. k = Len(y) \/ k \in Len(o)..(Len(y) - 1)
      BY <1>1, <1>o
    <3> QED BY <3>2, <2>1, <2>2, <1>4
  <2> QED BY <2>3, <1>3 DEF Walked
<1> QED BY <1>1, <1>3, <1>4, <1>6 DEF y, Reached

LEMMA WalkedReaches ==
  ASSUME NEW o \in Path, NEW x \in Path, Walked(o, x)
  PROVE  Reached(o, x)
<1>1. Len(o) \in Nat /\ Len(x) \in Nat
  BY DEF Path
<1>2. \A k \in Len(o)..(Len(x) - 1) : k \in Len(o)..Len(x)
  BY <1>1
<1> QED BY <1>2 DEF Walked, Reached

LEMMA Oneself ==
  ASSUME before \in Forest, Typed(tree), Rooted(tree), OnlyRemoved, NEW x \in Path, ~StraysAt(x)
  PROVE  Reached(x, x) /\ (Is("dir", At(x)) => Walked(x, x))
<1>1. x \in Seq(Name) /\ Len(x) \in Nat /\ SubSeq(x, 1, Len(x)) = x
  BY DEF Path
<1>2. IsPrefix(x, x)
  BY <1>1, WithinIs
<1>3. Reached(x, x)
  <2>1. \A m \in Nat : m..(m - 1) = {}
    OBVIOUS
  <2> QED BY <2>1, <1>1, <1>2 DEF Reached
<1>4. ASSUME Is("dir", At(x)) PROVE Walked(x, x)
  <2>1. ~LinkIn(before, x)
    BY <1>4, DirIsNoLink
  <2>2. \A k \in Len(x)..Len(x) : k = Len(x)
    <3>1. \A m \in Nat : \A k \in m..m : k = m
      OBVIOUS
    <3> QED BY <3>1, <1>1, Zenon
  <2> QED BY <2>1, <2>2, <1>1, <1>2 DEF Walked
<1> QED BY <1>3, <1>4

(* What rm removes lies in its operand.                                    *)
LEMMA InOperand ==
  ASSUME before \in Forest, Typed(tree), Rooted(tree), OnlyRemoved,
         NEW o \in Path, NEW x \in Path, Reached(o, x), ~StraysAt(x), At(x) \in DOMAIN tree
  PROVE  Within(At(x), Was(o))
<1>1. Within(Was(x), Was(o))
  BY NamedByOperand
<1>2. At(x) = Was(x)
  BY Resolves
<1> QED BY <1>1, <1>2

LEMMA RmWalks ==
  ASSUME UNCHANGED <<utility, before>>, NEW o, utility.args[arg' - 1] = o,
         walk' # << >> => walk'[1].path = o,
         walk' = << >> /\ due' # NothingDue => due'.path = o,
         ~strayed' => /\ \A i \in 1..Len(walk') : Walked(o, walk'[i].path)
                      /\ due' # NothingDue => Reached(o, due'.path) /\ (due'.call = "open" => Walked(o, due'.path))
  PROVE  WalksOperand'
<1>1. NothingDue' = NothingDue
  BY DEF NothingDue, Due
<1>2. ASSUME ~strayed', NEW i \in 1..Len(walk')
      PROVE  /\ IsPrefix(o, walk'[i].path)
             /\ \A k \in Len(o)..Len(walk'[i].path) : ~LinkIn(before', SubSeq(walk'[i].path, 1, k))
  BY <1>2 DEF Walked
<1>3. ~strayed' => DueReached(o)'
  BY <1>1 DEF DueReached, Walked, Reached
<1>4. utility'.args[arg' - 1] = o
  OBVIOUS
<1> QED BY <1>1, <1>2, <1>3, <1>4 DEF WalksOperand, Walked

LEMMA WhereRmIs ==
  ASSUME TreeTypeOK, WalksOperand, walk # << >> \/ due # NothingDue
  PROVE  LET o == utility.args[arg - 1] IN
           /\ arg - 1 \in 1..Operands /\ arg \in Nat /\ o \in Path /\ o \in Args
           /\ walk # << >> => /\ walk[1].path = o /\ (Len(walk) = 1 => Top.path = o)
                              /\ ~strayed => Walked(o, Top.path)
           /\ walk = << >> => due.path = o
           /\ ~strayed => (\A i \in 1..Len(walk) : Walked(o, walk[i].path)) /\ DueReached(o)
<1>1. arg - 1 \in 1..Operands /\ arg \in Nat
  BY DEF TreeTypeOK, RemovalOK
<1>2. utility.args[arg - 1] \in Path /\ utility.args[arg - 1] \in Args
  BY <1>1, Commands
<1>3. ASSUME walk # << >> PROVE Len(walk) \in 1..Len(walk)
  BY <1>3, Tops
<1> QED BY <1>1, <1>2, <1>3 DEF WalksOperand, Top

LEMMA RmOperand ==
  ASSUME RmHyp, Tool({"rm"}), Operand
  PROVE  RmInv' /\ WalksOperand'
<1>1. /\ TreeTypeOK /\ Rooted(tree) /\ OnlyRemoved /\ before \in Forest /\ Typed(tree) /\ UNCHANGED <<utility, before>>
      /\ walk = << >> /\ due = NothingDue /\ arg \in 1..Operands /\ arg' = arg + 1 /\ (arg + 1) - 1 = arg
  BY OperandTypes, Commands DEF RmHyp, RmInv, TreeTypeOK, Operand
<1>2. utility.args[arg] \in Path
  BY <1>1, Commands
<1> PICK p \in Path : p = utility.args[arg]
  BY <1>2
<1>3. RmEntry(p, utility.force, utility.recursive, walk)
  BY DEF Operand, Tool
<1>4. /\ tree' = tree /\ walk' = walk /\ ((strayed \/ StraysAt(p)) => strayed')
      /\ \/ due' = due /\ ret' = 1
         \/ due' = due /\ ret' = ret /\ (At(p) \notin DOMAIN tree \/ p \in missed')
         \/ due' = Due("open", p) /\ Is("dir", At(p)) /\ ret' = ret
         \/ due' = Due("unlink", p) /\ ret' = ret
  BY <1>3, RmEntryIs
<1>5. Due("open", p) # NothingDue /\ Due("unlink", p) # NothingDue
  BY DEF Due, NothingDue
<1>6. RmInv'
  <2>1. RmChange
    BY <1>4 DEF RmChange
  <2>2. Idle' => due' = NothingDue
    BY DEF Idle, NothingDue, Due
  <2>3. ret' = 0 /\ Idle' => (Tool({"rm"}) /\ p \in missed') \/ At(p) \notin DOMAIN tree
    BY <2>2, <1>4, <1>5
  <2>4. Idle /\ (ret' = 0 => ret = 0)
    BY <1>1, <1>4 DEF Idle
  <2> QED BY <2>1, <2>3, <2>4, <1>1, RmDone
<1>7. WalksOperand'
  <2>1. walk' = << >> /\ utility.args[arg' - 1] = p
    BY <1>1, <1>4
  <2>2. due' # NothingDue => due'.path = p /\ (due'.call = "open" => Is("dir", At(p)))
    BY <1>1, <1>4 DEF Due
  <2>3. ~strayed' => Reached(p, p) /\ (Is("dir", At(p)) => Walked(p, p))
    BY <1>1, <1>4, Oneself
  <2>4. Len(walk') = 0
    BY <2>1
  <2>5. \A i \in 1..Len(walk') : FALSE
    BY <2>4
  <2> QED BY <2>1, <2>2, <2>3, <2>5, <1>1, RmWalks
<1> QED BY <1>6, <1>7

(* The directories open now are among those that were open.                *)
LEMMA WalksOn ==
  ASSUME WalksOperand, UNCHANGED <<utility, before>>, arg' = arg, strayed => strayed', due' = NothingDue,
         NEW frames, walk' = frames, walk # << >>, Len(walk) \in Nat, Len(frames) \in 0..Len(walk),
         frames # << >> => Len(frames) > 0,
         \A i \in 1..Len(frames) : frames[i].path = walk[i].path
  PROVE  WalksOperand'
<1> PICK o : o = utility.args[arg - 1]
  OBVIOUS
<1>1. walk[1].path = o /\ (~strayed => \A i \in 1..Len(walk) : Walked(o, walk[i].path))
  BY DEF WalksOperand
<1>2. frames # << >> => frames[1].path = o
  BY <1>1
<1>3. ~strayed' => \A i \in 1..Len(frames) : Walked(o, frames[i].path)
  <2>1. HAVE ~strayed'
  <2>2. TAKE i \in 1..Len(frames)
  <2>3. i \in 1..Len(walk) /\ frames[i].path = walk[i].path
    OBVIOUS
  <2> QED BY <2>1, <2>3, <1>1
<1> QED BY <1>2, <1>3, RmWalks

LEMMA RmNextEntry ==
  ASSUME RmHyp, WalksOperand, Tool({"rm"}), NextEntry
  PROVE  RmInv' /\ WalksOperand'
<1>1. /\ TreeTypeOK /\ Rooted(tree) /\ OnlyRemoved /\ before \in Forest /\ Typed(tree) /\ UNCHANGED <<utility, before>>
      /\ walk # << >> /\ due = NothingDue /\ arg' = arg
  BY DEF RmHyp, RmInv, TreeTypeOK, NextEntry
<1>2. /\ Top.path \in Path /\ Top.buf \subseteq Name /\ walk \in Seq(Frame) /\ Len(walk) \in Nat /\ Len(walk) > 0
  BY <1>1, Tops
<1>3. /\ utility.args[arg - 1] \in Path /\ walk[1].path = utility.args[arg - 1]
      /\ ~strayed => /\ Walked(utility.args[arg - 1], Top.path)
                     /\ \A i \in 1..Len(walk) : Walked(utility.args[arg - 1], walk[i].path)
  BY <1>1, WhereRmIs
<1> PICK o \in Path : o = utility.args[arg - 1]
  BY <1>3
<1> PICK n \in Top.buf :
       LET p    == Append(Top.path, n)
           rest == [walk EXCEPT ![Len(walk)].buf = @ \ {n}]
       IN  RmEntry(p, FALSE, TRUE, rest)
  BY DEF NextEntry, Tool
<1>p. Append(Top.path, n) \in Path
  <2>1. n \in Name
    BY <1>2
  <2> QED BY <2>1, <1>2, Inwards
<1> PICK p \in Path : p = Append(Top.path, n)
  BY <1>p
<1> DEFINE rest == [walk EXCEPT ![Len(walk)].buf = @ \ {n}]
<1>4. RmEntry(p, FALSE, TRUE, rest)
  OBVIOUS
<1>5. ~strayed => Reached(o, p) /\ (~StraysAt(p) /\ Is("dir", At(p)) => Walked(o, p))
  <2>1. HAVE ~strayed
  <2>2. n \in Name /\ Walked(o, Top.path)
    BY <2>1, <1>2, <1>3
  <2> QED BY <2>2, <1>1, <1>2, WalkedStays
<1>6. Len(rest) = Len(walk) /\ \A i \in 1..Len(rest) : rest[i].path = walk[i].path
  <2>1. Len(rest) = Len(walk)
    BY <1>2
  <2>2. \A i \in 1..Len(walk) : rest[i].path = walk[i].path
    <3>1. TAKE i \in 1..Len(walk)
    <3>2. CASE i = Len(walk)
      BY <3>2, <1>2 DEF Frame
    <3>3. CASE i # Len(walk)
      BY <3>3, <1>2
    <3> QED BY <3>2, <3>3
  <2> QED BY <2>1, <2>2
<1>7. rest # << >>
  BY <1>2, <1>6
<1>8. /\ tree' = tree /\ walk' = rest /\ ((strayed \/ StraysAt(p)) => strayed')
      /\ \/ due' = due /\ ret' \in {ret, 1}
         \/ due' = Due("open", p) /\ Is("dir", At(p)) /\ ret' = ret
         \/ due' = Due("unlink", p) /\ ret' = ret
  <2> HIDE DEF rest
  <2> QED BY <1>4, RmEntryIs
<1> HIDE DEF rest
<1>9. walk' # << >> /\ (ret' = 0 => ret = 0)
  BY <1>7, <1>8
<1>10. RmInv'
  <2>1. RmChange
    BY <1>8 DEF RmChange
  <2>2. ~Idle'
    BY <1>9 DEF Idle
  <2> QED BY <2>1, <2>2, <1>1, <1>9, RmSame
<1>11. WalksOperand'
  <2>1. due' # NothingDue => due'.path = p /\ (due'.call = "open" => Is("dir", At(p)))
    BY <1>1, <1>8 DEF Due
  <2>2. walk'[1].path = o
    <3>1. 1 \in 1..Len(rest)
      BY <1>2, <1>6
    <3> QED BY <3>1, <1>3, <1>6, <1>8
  <2>3. ~strayed' => \A i \in 1..Len(walk') : Walked(o, walk'[i].path)
    BY <1>3, <1>6, <1>8
  <2>4. ~strayed' => Reached(o, p) /\ (Is("dir", At(p)) => Walked(o, p))
    BY <1>5, <1>8
  <2>5. utility.args[arg' - 1] = o
    BY <1>1
  <2> QED BY <2>1, <2>2, <2>3, <2>4, <2>5, <1>1, <1>9, RmWalks
<1> QED BY <1>10, <1>11

(* The call behind lstat.                                                  *)
LEMMA RmCalls ==
  ASSUME RmHyp, WalksOperand, Tool({"rm"}), RmCall
  PROVE  RmInv' /\ WalksOperand'
<1>1. /\ TreeTypeOK /\ Rooted(tree) /\ OnlyRemoved /\ before \in Forest /\ Typed(tree) /\ UNCHANGED <<utility, before>>
      /\ walk \in Seq(Frame)
  BY DEF RmHyp, RmInv, TreeTypeOK
<1>2. /\ due # NothingDue /\ due.path \in Path /\ due' = NothingDue /\ arg' = arg
      /\ (strayed \/ StraysAt(due.path)) => strayed'
      /\ \/ /\ due.call = "open" /\ tree' = tree
            /\ \/ walk' = Append(walk, Opened(due.path, due.path)) /\ ret' = ret
               \/ walk' = walk /\ ret' = 1
         \/ /\ due.call = "unlink" /\ walk' = walk
            /\ \/ Removed(At(due.path)) /\ ret' = ret
               \/ tree' = tree /\ ret' = 1
  BY <1>1, RmCallIs
<1>3. LET o == utility.args[arg - 1] IN
        /\ arg - 1 \in 1..Operands /\ arg \in Nat /\ o \in Path /\ o \in Args
        /\ walk # << >> => walk[1].path = o
        /\ walk = << >> => due.path = o
        /\ ~strayed => (\A i \in 1..Len(walk) : Walked(o, walk[i].path)) /\ DueReached(o)
  BY <1>1, <1>2, WhereRmIs
<1> PICK x \in Path : x = due.path
  BY <1>2
<1> PICK o \in Path : o = utility.args[arg - 1]
  BY <1>3
<1>4. ~strayed' => /\ ~StraysAt(x) /\ Reached(o, x) /\ (due.call = "open" => Walked(o, x))
                   /\ \A i \in 1..Len(walk) : Walked(o, walk[i].path)
  BY <1>2, <1>3 DEF DueReached
<1>5. RmInv'
  <2> PICK n : n = arg - 1
    OBVIOUS
  <2>1. n \in 1..Operands /\ arg' = n + 1 /\ arg = n + 1 /\ utility.args[n] = o
    BY <1>2, <1>3
  <2>2. RmChange
    <3>1. CASE tree' = tree
      BY <3>1 DEF RmChange
    <3>2. CASE Removed(At(x))
      <4>1. At(x) \in DOMAIN tree
        BY <3>2 DEF Removed
      <4>2. strayed' \/ Within(At(x), Was(o))
        BY <4>1, <1>1, <1>4, InOperand
      <4> QED BY <4>1, <4>2, <3>2, <1>3 DEF RmChange
    <3> QED BY <3>1, <3>2, <1>2
  <2>3. ret' = 0 => ret = 0
    BY <1>2
  <2>4. ret' = 0 /\ Idle' => At(o) \notin DOMAIN tree'
    <3>1. SUFFICES ASSUME ret' = 0, walk' = << >> PROVE At(o) \notin DOMAIN tree'
      BY DEF Idle
    <3>2. Append(walk, Opened(x, x)) # << >>
      BY <1>1
    <3>3. Removed(At(x)) /\ walk = << >>
      BY <3>1, <3>2, <1>2
    <3>4. x = o
      BY <3>3, <1>3
    <3> QED BY <3>3, <3>4, <1>1, WithoutLeaf DEF Removed
  <2> QED BY <2>1, <2>2, <2>3, <2>4, RmDone
<1>6. WalksOperand'
  <2>1. utility.args[arg' - 1] = o
    BY <1>2
  <2>2. CASE walk' = walk
    BY <2>1, <2>2, <1>1, <1>2, <1>3, <1>4, RmWalks
  <2>3. CASE walk' = Append(walk, Opened(x, x)) /\ due.call = "open"
    <3>1. /\ Len(walk') = Len(walk) + 1 /\ walk'[Len(walk) + 1] = Opened(x, x) /\ Len(walk) \in Nat
          /\ \A i \in 1..Len(walk) : walk'[i] = walk[i]
      BY <2>3, <1>1
    <3>2. Opened(x, x).path = x
      BY DEF Opened
    <3>3. ~strayed' => \A i \in 1..Len(walk') : Walked(o, walk'[i].path)
      <4>1. HAVE ~strayed'
      <4>2. TAKE i \in 1..Len(walk')
      <4>3. i \in 1..Len(walk) \/ i = Len(walk) + 1
        BY <3>1
      <4> QED BY <4>1, <4>3, <3>1, <3>2, <2>3, <1>4
    <3>4. walk'[1].path = o
      <4>1. CASE walk = << >>
        <5>1. Len(walk) = 0 /\ x = o
          BY <4>1, <1>3
        <5> QED BY <5>1, <3>1, <3>2
      <4>2. CASE walk # << >>
        <5>1. 1 \in 1..Len(walk)
          BY <4>2, <1>1, <3>1
        <5> QED BY <5>1, <4>2, <3>1, <1>3
      <4> QED BY <4>1, <4>2
    <3> QED BY <2>1, <3>3, <3>4, <1>1, <1>2, RmWalks
  <2> QED BY <2>2, <2>3, <1>2
<1> QED BY <1>5, <1>6

LEMMA RmEndDirectory ==
  ASSUME RmHyp, WalksOperand, Tool({"rm"}), EndDirectory
  PROVE  RmInv' /\ WalksOperand'
<1>1. /\ TreeTypeOK /\ Rooted(tree) /\ OnlyRemoved /\ before \in Forest /\ Typed(tree) /\ UNCHANGED <<utility, before>>
      /\ walk # << >> /\ due = NothingDue /\ arg' = arg /\ arg \in Nat
  BY DEF RmHyp, RmInv, TreeTypeOK, EndDirectory
<1>2. /\ Top.path \in Path /\ walk \in Seq(Frame) /\ Len(walk) \in Nat /\ Len(walk) > 0
      /\ Front(walk) \in Seq(Frame) /\ Len(Front(walk)) = Len(walk) - 1
      /\ \A i \in 1..(Len(walk) - 1) : Front(walk)[i] = walk[i]
  BY <1>1, Tops
<1>3. /\ arg - 1 \in 1..Operands /\ utility.args[arg - 1] \in Path /\ utility.args[arg - 1] \in Args
      /\ ~strayed => Walked(utility.args[arg - 1], Top.path)
      /\ Len(walk) = 1 => Top.path = utility.args[arg - 1]
  BY <1>1, WhereRmIs
<1>4. RmDirectory(Front(walk))
  BY DEF EndDirectory, Tool
<1>5. /\ walk' = Front(walk) /\ due' = due /\ ((strayed \/ StraysAt(Top.path)) => strayed')
      /\ \/ CanRmdir(Top.path) /\ Removes(Top.path) /\ ret' = ret
         \/ tree' = tree /\ ret' = 1
  BY <1>1, <1>4, RmDirectoryIs
<1> PICK x \in Path : x = Top.path
  BY <1>2
<1> PICK o \in Path : o = utility.args[arg - 1]
  BY <1>3
<1>6. At(x) \in DOMAIN tree => strayed' \/ Within(At(x), Was(o))
  <2>1. SUFFICES ASSUME At(x) \in DOMAIN tree, ~strayed' PROVE Within(At(x), Was(o))
    OBVIOUS
  <2>2. Walked(o, x) /\ ~StraysAt(x)
    BY <2>1, <1>3, <1>5
  <2> QED BY <2>1, <2>2, <1>1, WalkedReaches, InOperand
<1>7. RmChange /\ (ret' = 0 => At(x) \notin DOMAIN tree')
  <2>1. CASE tree' = tree /\ ret' = 1
    BY <2>1 DEF RmChange
  <2>2. CASE CanRmdir(x) /\ Removes(x)
    <3>1. Removed(At(x)) /\ At(x) \in DOMAIN tree
      BY <2>2, RemovesLeaf DEF Removed
    <3>2. At(x) \notin DOMAIN tree'
      BY <3>1, <1>1, WithoutLeaf DEF Removed
    <3> QED BY <3>1, <3>2, <1>3, <1>6 DEF RmChange
  <2> QED BY <2>1, <2>2, <1>5
<1>8. ret' = 0 => ret = 0
  BY <1>5
<1>9. WalksOperand'
  <2>1. Len(Front(walk)) \in 0..Len(walk) /\ \A i \in 1..Len(Front(walk)) : Front(walk)[i].path = walk[i].path
    BY <1>2
  <2>2. Front(walk) # << >> => Len(Front(walk)) > 0
    BY <1>2
  <2> QED BY <2>1, <2>2, <1>1, <1>2, <1>5, WalksOn
<1>10. RmInv'
  <2> PICK n : n = arg - 1
    OBVIOUS
  <2>1. n \in 1..Operands /\ arg' = n + 1 /\ arg = n + 1 /\ utility.args[n] = o
    BY <1>1, <1>3
  <2>2. ret' = 0 /\ Idle' => At(utility.args[n]) \notin DOMAIN tree'
    <3>1. SUFFICES ASSUME ret' = 0, walk' = << >> PROVE At(o) \notin DOMAIN tree'
      BY <2>1 DEF Idle
    <3>2. Len(walk) = 1
      BY <3>1, <1>2, <1>5
    <3> QED BY <3>1, <3>2, <1>3, <1>7
  <2> QED BY <2>1, <2>2, <1>7, <1>8, RmDone
<1> QED BY <1>9, <1>10

LEMMA RmWalksOthers ==
  ASSUME TreeTypeOK, UNCHANGED <<utility, before>>, WalksOperand,
         UNCHANGED treeVars \/ Start \/ Fill \/ Finish \/ Meddle
  PROVE  WalksOperand'
<1>1. CASE Fill
  <2>1. /\ arg' = arg /\ walk # << >> /\ due' = NothingDue /\ strayed' = strayed
        /\ \E S : walk' = [walk EXCEPT ![Len(walk)].buf = S, ![Len(walk)].seen = @ \cup S]
    BY <1>1 DEF Fill, removal
  <2> PICK S : walk' = [walk EXCEPT ![Len(walk)].buf = S, ![Len(walk)].seen = @ \cup S]
    BY <2>1
  <2>2. walk \in Seq(Frame) /\ Len(walk) \in Nat /\ Len(walk) > 0
    BY <2>1, Tops
  <2> PICK frames : frames = [walk EXCEPT ![Len(walk)].buf = S, ![Len(walk)].seen = @ \cup S]
    OBVIOUS
  <2>3. Len(frames) = Len(walk)
    BY <2>2
  <2>4. \A i \in 1..Len(walk) : frames[i].path = walk[i].path
    <3>1. TAKE i \in 1..Len(walk)
    <3>2. CASE i = Len(walk)
      BY <3>2, <2>2 DEF Frame
    <3>3. CASE i # Len(walk)
      BY <3>3, <2>2
    <3> QED BY <3>2, <3>3
  <2>5. /\ walk' = frames /\ Len(frames) \in 0..Len(walk) /\ Len(frames) > 0
        /\ \A i \in 1..Len(frames) : frames[i].path = walk[i].path
    BY <2>2, <2>3, <2>4
  <2> QED BY <2>1, <2>2, <2>5, WalksOn
<1>2. CASE ~Fill
  BY <1>2 DEF Start, Finish, Meddle, treeVars, removal, WalksOperand, DueReached, Walked, Reached
<1> QED BY <1>1, <1>2

LEMMA RmdirCall ==
  ASSUME RmHyp, Tool({"rmdir"}), walk = << >>, OneCall
  PROVE  RmInv'
<1>1. /\ TreeTypeOK /\ Rooted(tree) /\ OnlyRemoved /\ before \in Forest /\ Typed(tree) /\ UNCHANGED <<utility, before>>
      /\ arg \in 1..Operands /\ walk' = walk
  BY Commands DEF RmHyp, RmInv, TreeTypeOK, OneCall
<1>r. ~Tool({"rm"}) /\ Idle
  <2>1. ~Tool({"rm"})
    BY DEF Tool
  <2> QED BY <2>1, <1>1 DEF TreeTypeOK, RemovalOK, Idle
<1>2. utility.args[arg] \in Path /\ utility.args[arg] \in Args
  BY <1>1, Commands
<1> PICK p \in Path : p = utility.args[arg]
  BY <1>2
<1>3. Call(CanRmdir(p), Without({At(p)}), << >>) /\ arg' = arg + 1
  BY DEF OneCall, Mv, Rmdir, Mkdir, LnRemoves, Ln, Tool
<1>4. \/ CanRmdir(p) /\ Removes(p) /\ ret' = ret
      \/ tree' = tree /\ ret' = 1
  BY <1>3 DEF Call, Removes, files
<1>5. At(p) \in DOMAIN tree => Within(At(p), Was(p))
  <2>1. ~StraysAt(p)
    BY <1>1, <1>r DEF OnlyRemoved, StraysAt
  <2> QED BY <2>1, <1>1, Oneself, InOperand
<1>6. RmChange /\ (ret' = 0 => At(p) \notin DOMAIN tree')
  <2>1. CASE tree' = tree /\ ret' = 1
    BY <2>1 DEF RmChange
  <2>2. CASE CanRmdir(p) /\ Removes(p)
    <3>1. Removed(At(p)) /\ At(p) \in DOMAIN tree
      BY <2>2, RemovesLeaf DEF Removed
    <3>2. At(p) \notin DOMAIN tree'
      BY <3>1, <1>1, WithoutLeaf DEF Removed
    <3> QED BY <3>1, <3>2, <1>2, <1>5 DEF RmChange
  <2> QED BY <2>1, <2>2, <1>4
<1>7. ret' = 0 => ret = 0
  BY <1>4
<1> QED BY <1>1, <1>r, <1>3, <1>6, <1>7, RmDone

LEMMA RmStep ==
  ASSUME RmHyp, [TreeNext]_treeVars,
         \/ Tool({"rm"}) /\ WalksOperand
         \/ Tool({"rmdir"}) /\ walk = << >>
  PROVE  RmInv' /\ (Tool({"rm"}) => WalksOperand')
<1>1. TreeTypeOK /\ UNCHANGED <<utility, before>>
  BY DEF RmHyp
<1>2. CASE UNCHANGED treeVars \/ Start \/ Fill \/ Finish \/ Meddle
  <2>1. RmInv'
    BY <1>2, RmOthers
  <2>2. Tool({"rm"}) => WalksOperand
    BY DEF Tool
  <2> QED BY <1>1, <1>2, <2>1, <2>2, RmWalksOthers
<1>3. CASE Operand
  <2>1. Tool({"rm"}) /\ WalksOperand
    BY <1>3 DEF Operand, Tool
  <2> QED BY <1>3, <2>1, RmOperand
<1>4. CASE NextEntry
  <2>1. Tool({"rm"}) /\ WalksOperand
    BY <1>4 DEF NextEntry
  <2> QED BY <1>4, <2>1, RmNextEntry
<1>5. CASE EndDirectory
  <2>1. Tool({"rm"}) /\ WalksOperand
    BY <1>5 DEF EndDirectory
  <2> QED BY <1>5, <2>1, RmEndDirectory
<1>6. CASE OneCall
  <2>1. Tool({"rmdir"}) /\ walk = << >> /\ ~Tool({"rm"})
    BY <1>6 DEF OneCall, Mv, Rmdir, Mkdir, LnRemoves, Ln, Tool
  <2> QED BY <1>6, <2>1, RmdirCall
<1>7. CASE RmCall
  <2>1. Tool({"rm"}) /\ WalksOperand
    BY <1>7 DEF RmCall, Tool
  <2> QED BY <1>7, <2>1, RmCalls
<1> QED BY <1>2, <1>3, <1>4, <1>5, <1>6, <1>7 DEF TreeNext

-------------------------------------------------------------------------------
(* mkdir.                                                                  *)
MkChange ==
  \/ tree' = tree
  \/ \E q \in Path : q \notin DOMAIN tree /\ Made(q, Dir)
  \/ GuestMade
  \/ Removed(Guest)
MkHyp ==
  /\ TreeTypeOK /\ Rooted(tree) /\ OnlyMade /\ OperandsMade /\ Tool({"mkdir"})
  /\ TreeTypeOK' /\ Rooted(tree') /\ UNCHANGED <<utility, before>>

LEMMA MkAt ==
  ASSUME before \in Forest, Typed(tree), Rooted(tree), OnlyMade, NEW x \in Path
  PROVE  At(x) = Was(x)
<1>b. Typed(before) /\ Rooted(before) /\ ~LinkIn(before, Guest)
  BY BeforeIs
<1>1. ASSUME NEW r PROVE /\ LinkIn(tree, r) <=> LinkIn(before, r)
                         /\ LinkIn(tree, r) => tree[r] = before[r]
  <2>1. ASSUME LinkIn(tree, r) PROVE r \in DOMAIN before \ {Guest} /\ tree[r] = before[r]
    BY <2>1 DEF OnlyMade, LinkIn, Kept
  <2>2. ASSUME LinkIn(before, r) PROVE r \in DOMAIN before \ {Guest} /\ r \in DOMAIN tree /\ tree[r] = before[r]
    BY <2>2, <1>b DEF OnlyMade, LinkIn, Kept
  <2> QED BY <2>1, <2>2 DEF LinkIn
<1>2. CASE \A k \in 1..(Len(x) - 1) : ~LinkIn(before, SubSeq(x, 1, k))
  <2>1. AtIn(before, x) = x
    BY <1>2, <1>b, PathIn
  <2>2. AtIn(tree, x) = x
    BY <1>1, <1>2, PathIn
  <2> QED BY <2>1, <2>2 DEF At, Was
<1>3. CASE \E k \in 1..(Len(x) - 1) : LinkIn(before, SubSeq(x, 1, k))
  <2> PICK k \in 1..(Len(x) - 1) : LinkIn(before, SubSeq(x, 1, k))
    BY <1>3
  <2> DEFINE l == SubSeq(x, 1, k)
  <2>1. AtIn(before, x) = before[l].body \o SubSeq(x, k + 1, Len(x))
    BY <1>b, PathIn
  <2>2. LinkIn(tree, l) /\ tree[l] = before[l]
    BY <1>1
  <2>3. AtIn(tree, x) = tree[l].body \o SubSeq(x, k + 1, Len(x))
    BY <2>2, PathIn
  <2> QED BY <2>1, <2>2, <2>3 DEF At, Was
<1> QED BY <1>2, <1>3

LEMMA MkChangeIs ==
  ASSUME MkHyp, MkChange
  PROVE  OnlyMade' /\ \A r \in DOMAIN tree : r # Guest => r \in DOMAIN tree'
<1>1. Typed(tree) /\ Rooted(tree) /\ OnlyMade /\ before' = before
  BY DEF MkHyp, TreeTypeOK
<1>2. CASE tree' = tree
  BY <1>1, <1>2 DEF OnlyMade, Kept
<1>3. CASE \E q \in Path : q \notin DOMAIN tree /\ Made(q, Dir)
  <2> PICK q \in Path : q \notin DOMAIN tree /\ Made(q, Dir)
    BY <1>3
  <2>1. DOMAIN tree' = DOMAIN tree \cup {q} /\ tree'[q] = Dir
        /\ \A r \in DOMAIN tree' : r # q => tree'[r] = tree[r]
    BY <1>1, WithNode DEF Made
  <2>2. Dir.kind # "link"
    BY DEF Dir
  <2>3. \A r \in DOMAIN before \ {Guest} : Kept(r)'
    BY <2>1, <1>1 DEF OnlyMade, Kept
  <2>4. \A r \in DOMAIN tree' : LinkIn(tree', r) => r \in DOMAIN before \ {Guest}
    BY <2>1, <2>2, <1>1 DEF OnlyMade, LinkIn
  <2> QED BY <2>1, <2>3, <2>4, <1>1 DEF OnlyMade
<1>4. CASE GuestMade
  <2> PICK node : Made(Guest, node) /\ (node.kind = "link" => Tool({"rm"}))
    BY <1>4 DEF GuestMade
  <2>1. DOMAIN tree' = DOMAIN tree \cup {Guest} /\ tree'[Guest] = node
        /\ \A r \in DOMAIN tree' : r # Guest => tree'[r] = tree[r]
    BY <1>1, WithNode DEF Made
  <2>2. node.kind # "link"
    BY DEF MkHyp, Tool
  <2>3. \A r \in DOMAIN before \ {Guest} : Kept(r)'
    BY <2>1, <1>1 DEF OnlyMade, Kept
  <2>4. \A r \in DOMAIN tree' : LinkIn(tree', r) => r \in DOMAIN before \ {Guest}
    BY <2>1, <2>2, <1>1 DEF OnlyMade, LinkIn
  <2> QED BY <2>1, <2>3, <2>4, <1>1 DEF OnlyMade
<1>5. CASE Removed(Guest)
  <2>1. DOMAIN tree' = DOMAIN tree \ {Guest} /\ \A r \in DOMAIN tree' : tree'[r] = tree[r]
    BY <1>1, <1>5, WithoutLeaf DEF Removed
  <2>3. \A r \in DOMAIN before \ {Guest} : Kept(r)'
    BY <2>1, <1>1 DEF OnlyMade, Kept
  <2>4. \A r \in DOMAIN tree' : LinkIn(tree', r) => r \in DOMAIN before \ {Guest}
    BY <2>1, <1>1 DEF OnlyMade, LinkIn
  <2> QED BY <2>1, <2>3, <2>4, <1>1 DEF OnlyMade
<1> QED BY <1>2, <1>3, <1>4, <1>5 DEF MkChange

LEMMA MkDone ==
  ASSUME MkHyp, MkChange, ret' = 0 => ret = 0,
         \/ arg' = arg
         \/ /\ arg \in 1..Operands /\ arg' = arg + 1
            /\ ret' = 0 => Was(utility.args[arg]) \in DOMAIN tree'
  PROVE  OnlyMade' /\ OperandsMade'
<1>1. OnlyMade' /\ \A r \in DOMAIN tree : r # Guest => r \in DOMAIN tree'
  BY MkChangeIs
<1>2. SUFFICES ASSUME ret' = 0, NEW i \in 1..(arg' - 1)
               PROVE  Was(utility.args[i]) = Guest \/ Was(utility.args[i]) \in DOMAIN tree'
  BY <1>1, SameCommand DEF OperandsMade, MkHyp
<1>3. CASE i \in 1..(arg - 1)
  BY <1>1, <1>2, <1>3 DEF MkHyp, OperandsMade
<1>4. CASE i \notin 1..(arg - 1)
  <2>1. arg \in Nat
    BY DEF MkHyp, TreeTypeOK
  <2>2. arg' = arg + 1 /\ i = arg
    BY <2>1, <1>4
  <2> QED BY <2>1, <2>2, <1>2
<1> QED BY <1>3, <1>4

LEMMA MkStep ==
  ASSUME MkHyp, walk = << >>, [TreeNext]_treeVars
  PROVE  OnlyMade' /\ OperandsMade'
<1>1. TreeTypeOK /\ Typed(tree) /\ Rooted(tree) /\ before \in Forest /\ OnlyMade
  BY DEF MkHyp, TreeTypeOK
<1>2. CASE UNCHANGED treeVars \/ Start \/ Finish \/ Meddle
  <2>1. MkChange
    <3>1. CASE Meddle
      <4>1. GuestMade \/ Removed(Guest)
        BY <1>1, <3>1, MeddleChanges
      <4> QED BY <4>1 DEF MkChange
    <3>2. CASE ~Meddle
      BY <1>2, <3>2 DEF Start, Finish, treeVars, files, MkChange
    <3> QED BY <3>1, <3>2
  <2>2. arg' = arg /\ (ret' = 0 => ret = 0)
    BY <1>2 DEF Start, Finish, Meddle, treeVars
  <2> QED BY <2>1, <2>2, MkDone
<1>3. CASE OneCall
  <2>1. Mkdir /\ arg \in 1..Operands
    <3>1. arg \in Nat \ {0} /\ Operands \in Nat /\ arg <= Operands
      BY <1>1, <1>3, Commands DEF OneCall, TreeTypeOK
    <3> QED BY <3>1, <1>3 DEF OneCall, Mv, Rmdir, LnRemoves, Ln, Tool, MkHyp
  <2> PICK p : p = utility.args[arg]
    OBVIOUS
  <2>2. p \in Path /\ At(p) \in Path /\ At(p) = Was(p)
    BY <2>1, <1>1, Commands, AtIs, MkAt
  <2> PICK upTo : upTo = SubSeq(p, 1, part + 1)
    OBVIOUS
  <2>3. CASE utility.force /\ part + 1 < Len(p)
    <3>1. MakeDir(upTo) /\ arg' = arg /\ ret' = ret
      BY <2>1, <2>3 DEF Mkdir
    <3>2. upTo \in Path
      <4>1. p \in Seq(Name) /\ part \in Nat /\ Len(p) \in Nat
        BY <1>1, <2>2 DEF Path, TreeTypeOK
      <4>2. part + 1 \in 0..Len(p) /\ part + 1 > 0
        BY <4>1, <2>3
      <4>3. upTo \in Seq(Name) /\ Len(upTo) = part + 1
        BY <4>1, <4>2, Upto
      <4>4. upTo # << >>
        BY <4>2, <4>3
      <4> QED BY <4>3, <4>4 DEF Path
    <3>3. At(upTo) \in Path
      BY <3>2, <1>1, AtIs
    <3>4. tree' = tree \/ (At(upTo) \notin DOMAIN tree /\ Made(At(upTo), Dir))
      BY <3>1, <3>3 DEF MakeDir, CanMake, Vacant, Made, Is, Dir
    <3>5. MkChange
      BY <3>3, <3>4 DEF MkChange
    <3> QED BY <3>1, <3>5, MkDone
  <2>4. CASE ~(utility.force /\ part + 1 < Len(p))
    <3>1. /\ arg' = arg + 1
          /\ \/ At(p) \in DOMAIN tree /\ UNCHANGED <<ret, tree>>
             \/ Call(CanMake(p), Put(At(p), Dir), << >>)
      BY <2>1, <2>4 DEF Mkdir, files
    <3>2. \/ At(p) \in DOMAIN tree /\ UNCHANGED <<ret, tree>>
          \/ CanMake(p) /\ tree' = Put(At(p), Dir) /\ ret' = ret
          \/ tree' = tree /\ ret' = 1
      BY <3>1 DEF Call, files
    <3>3. CanMake(p) /\ tree' = Put(At(p), Dir) => /\ At(p) \notin DOMAIN tree /\ Made(At(p), Dir)
                                                   /\ At(p) \in DOMAIN tree'
      BY <2>2 DEF CanMake, Vacant, Made, Is, Dir, Put
    <3>4. MkChange
      BY <2>2, <3>2, <3>3 DEF MkChange
    <3>5. ret' = 0 => ret = 0 /\ Was(p) \in DOMAIN tree'
      BY <2>2, <3>2, <3>3
    <3> QED BY <2>1, <3>1, <3>4, <3>5, MkDone
  <2> QED BY <2>3, <2>4
<1>4. ~Operand /\ ~Fill /\ ~NextEntry /\ ~RmCall /\ ~EndDirectory
  BY DEF Operand, Fill, NextEntry, RmCall, EndDirectory, Tool, MkHyp
<1> QED BY <1>2, <1>3, <1>4 DEF TreeNext

-------------------------------------------------------------------------------
(* ln.                                                                     *)
LnHyp ==
  /\ TreeTypeOK /\ Rooted(tree) /\ (arg = 1 => OnlyRemoved) /\ LinkMade /\ Tool({"ln"})
  /\ TreeTypeOK' /\ Rooted(tree') /\ UNCHANGED <<utility, before>>

LEMMA LnOthers ==
  ASSUME LnHyp, UNCHANGED treeVars \/ Start \/ Finish \/ Meddle
  PROVE  (arg' = 1 => OnlyRemoved') /\ LinkMade'
<1>1. TreeTypeOK /\ Typed(tree) /\ Rooted(tree) /\ UNCHANGED <<utility, before>>
  BY DEF LnHyp, TreeTypeOK
<1>2. arg' = arg /\ (ret' = 0 => ret = 0)
  BY DEF Start, Finish, Meddle, treeVars
<1>3. tree' = tree \/ GuestMade \/ Removed(Guest)
  <2>1. CASE Meddle
    BY <1>1, <2>1, MeddleChanges
  <2>2. CASE ~Meddle
    BY <2>2 DEF Start, Finish, treeVars, files
  <2> QED BY <2>1, <2>2
<1>4. Shrunk
  BY <1>3 DEF Shrunk, Removed
<1>5. arg' = 1 => OnlyRemoved'
  BY <1>1, <1>2, <1>4, ShrunkIs DEF LnHyp
<1>6. \A r \in DOMAIN tree : r # Guest => r \in DOMAIN tree' /\ tree'[r] = tree[r]
  <2>1. CASE tree' = tree
    BY <2>1
  <2>2. CASE GuestMade
    BY <2>2, <1>1, WithNode DEF GuestMade, Made
  <2>3. CASE Removed(Guest)
    BY <2>3, <1>1, WithoutLeaf DEF Removed
  <2> QED BY <2>1, <2>2, <2>3, <1>3
<1>7. LinkMade'
  <2>1. Dest' = Dest /\ \A p : Was(p)' = Was(p)
    BY <1>1, SameCommand
  <2>2. SUFFICES ASSUME arg = 2, ret = 0, Guest \notin {Was(utility.args[1]), Was(Dest)}
                 PROVE  /\ Was(Dest) \in DOMAIN tree'
                        /\ tree'[Was(Dest)] = IF utility.symbolic THEN Link(utility.args[1]) ELSE before[Was(utility.args[1])]
    BY <2>1, <1>1, <1>2 DEF LinkMade
  <2>3. /\ Was(Dest) \in DOMAIN tree
        /\ tree[Was(Dest)] = IF utility.symbolic THEN Link(utility.args[1]) ELSE before[Was(utility.args[1])]
    BY <2>2 DEF LnHyp, LinkMade
  <2> QED BY <2>2, <2>3, <1>6
<1> QED BY <1>5, <1>7

LEMMA LnCall ==
  ASSUME LnHyp, OneCall
  PROVE  (arg' = 1 => OnlyRemoved') /\ LinkMade'
<1>1. /\ TreeTypeOK /\ Typed(tree) /\ Rooted(tree) /\ UNCHANGED <<utility, before>> /\ before \in Forest
      /\ Tool({"ln"})
  BY DEF LnHyp, TreeTypeOK
<1>2. arg = 1 /\ OnlyRemoved /\ Dest \in Path /\ utility.args[1] \in Path
  <2>1. Operands = 1 /\ arg \in Nat \ {0} /\ arg <= Operands
    BY <1>1, Commands DEF OneCall, TreeTypeOK
  <2>2. arg = 1 /\ 1 \in 1..Operands
    BY <2>1
  <2> QED BY <2>2, <1>1, Commands DEF LnHyp
<1>s. \A x : ~StraysAt(x)
  BY <1>1, <1>2 DEF OnlyRemoved, StraysAt, Tool
<1>3. CASE LnRemoves
  <2>1. arg' = 1 /\ (tree' = tree \/ Removed(At(Dest)))
    BY <1>2, <1>3, RemovesLeaf DEF LnRemoves
  <2>2. Shrunk
    BY <2>1 DEF Shrunk, Removed
  <2> QED BY <2>1, <2>2, <1>1, <1>2, ShrunkIs DEF LinkMade
<1>4. CASE Ln
  <2> PICK p : p = utility.args[1]
    OBVIOUS
  <2> PICK d : d = At(Dest)
    OBVIOUS
  <2>1. arg' = 2
    BY <1>2, <1>4 DEF Ln
  <2>2. SUFFICES ASSUME ret' = 0, Guest \notin {Was(p), Was(Dest)}
                 PROVE  /\ Was(Dest) \in DOMAIN tree'
                        /\ tree'[Was(Dest)] = IF utility.symbolic THEN Link(p) ELSE before[Was(p)]
    <3>1. Dest' = Dest /\ \A x : Was(x)' = Was(x)
      BY <1>1, SameCommand
    <3> QED BY <2>1, <3>1, <1>1 DEF LinkMade
  <2>3. /\ CanMake(Dest)
        /\ \/ utility.symbolic /\ tree' = Put(d, Link(p))
           \/ ~utility.symbolic /\ At(p) \in DOMAIN tree /\ tree' = Put(d, tree[At(p)])
    BY <2>2, <1>4 DEF Ln, Call
  <2>4. d = Was(Dest)
    <3>1. Is("dir", Front(At(Dest)))
      BY <2>3 DEF CanMake, Vacant
    <3> QED BY <3>1, <1>1, <1>2, <1>s, Resolves
  <2>5. At(p) \in DOMAIN tree => At(p) = Was(p)
    BY <1>1, <1>2, <1>s, Resolves
  <2>6. CASE utility.symbolic
    BY <2>3, <2>4, <2>6 DEF Put
  <2>7. CASE ~utility.symbolic
    <3>1. Was(p) \in DOMAIN tree \ {Guest} /\ tree' = Put(d, tree[Was(p)])
      BY <2>2, <2>3, <2>5, <2>7
    <3>2. tree[Was(p)] = before[Was(p)]
      BY <3>1, <1>2 DEF OnlyRemoved
    <3> QED BY <3>1, <3>2, <2>4, <2>7 DEF Put
  <2> QED BY <2>6, <2>7
<1> QED BY <1>1, <1>3, <1>4 DEF OneCall, Mv, Rmdir, Mkdir, Tool

LEMMA LnStep ==
  ASSUME LnHyp, walk = << >>, [TreeNext]_treeVars
  PROVE  (arg' = 1 => OnlyRemoved') /\ LinkMade'
<1>1. ~Operand /\ ~Fill /\ ~NextEntry /\ ~RmCall /\ ~EndDirectory
  BY DEF Operand, Fill, NextEntry, RmCall, EndDirectory, Tool, LnHyp
<1> QED BY <1>1, LnOthers, LnCall DEF TreeNext

-------------------------------------------------------------------------------
(* mv.                                                                     *)
Gone(r, after) == \E j \in (after + 1)..Len(moved) : Within(r, moved[j][1]) \/ r = moved[j][2]
Fate(q) ==
  \/ Kept(q)
  \/ \E i \in DOMAIN moved : q = moved[i][2]
  \/ \E i \in DOMAIN moved :
       Within(q, moved[i][1]) /\ (Arrived(Carried(q, moved[i]), before[q]) \/ Gone(Carried(q, moved[i]), i))

LEMMA MvLoses ==
  ASSUME Tool({"mv"})
  PROVE  LosesNothing <=> \A q \in DOMAIN before \ {Guest} : Fate(q)
BY DEF LosesNothing, Fate, Gone, Tool

(* What happens to what is not the other process's, at every step: it      *)
(* stays where it is, or it is moved, or something is put in its place.    *)
LEMMA Fates ==
  ASSUME before' = before, moved \in Seq(Path \X Path), NEW h \in Seq(Path \X Path), moved' = moved \o h, Len(h) <= 1,
         \A r \in DOMAIN tree : r # Guest =>
           \/ r \in DOMAIN tree' /\ tree'[r] = tree[r]
           \/ /\ Len(h) = 1
              /\ \/ r = h[1][2]
                 \/ Within(r, h[1][1]) /\ Carried(r, h[1]) \in DOMAIN tree' /\ tree'[Carried(r, h[1])] = tree[r],
         NEW q \in DOMAIN before \ {Guest}, Fate(q)
  PROVE  Fate(q)'
<1>1. /\ Len(moved) \in Nat /\ Len(h) \in {0, 1} /\ Len(moved') = Len(moved) + Len(h)
      /\ DOMAIN moved = 1..Len(moved) /\ DOMAIN moved' = 1..(Len(moved) + Len(h))
      /\ \A i \in 1..Len(moved) : moved'[i] = moved[i]
      /\ Len(h) = 1 => moved'[Len(moved) + 1] = h[1]
  <2>1. Len(moved) \in Nat /\ Len(h) \in {0, 1}
    <3>1. \A S : \A a \in Seq(S) : Len(a) \in Nat
      OBVIOUS
    <3>2. Len(moved) \in Nat /\ Len(h) \in Nat
      BY <3>1
    <3>3. \A k \in Nat : k <= 1 => k \in {0, 1}
      OBVIOUS
    <3> QED BY <3>2, <3>3
  <2>2. ASSUME NEW S, NEW a \in Seq(S), NEW b \in Seq(S)
        PROVE  /\ Len(a \o b) = Len(a) + Len(b)
               /\ DOMAIN a = 1..Len(a) /\ DOMAIN (a \o b) = 1..(Len(a) + Len(b))
               /\ \A i \in 1..Len(a) : (a \o b)[i] = a[i]
               /\ Len(b) = 1 => (a \o b)[Len(a) + 1] = b[1]
    BY ConcatProperties
  <2> QED BY <2>1, <2>2
<1> PICK n : n = Len(moved) + 1
  OBVIOUS
<1>2. Len(h) = 1 => n \in DOMAIN moved' /\ moved'[n] = h[1]
  BY <1>1
<1>3. \A i \in DOMAIN moved : i \in DOMAIN moved' /\ moved'[i] = moved[i] /\ (Len(h) = 1 => n \in (i + 1)..Len(moved'))
  BY <1>1
<1>4. ASSUME NEW i \in DOMAIN moved, NEW r, Arrived(r, before[q]) \/ Gone(r, i)
      PROVE  Arrived(r, before[q])' \/ Gone(r, i)'
  <2>1. CASE Gone(r, i)
    <3> PICK j \in (i + 1)..Len(moved) : Within(r, moved[j][1]) \/ r = moved[j][2]
      BY <2>1 DEF Gone
    <3>1. j \in (i + 1)..Len(moved') /\ moved'[j] = moved[j]
      BY <1>1
    <3> QED BY <3>1 DEF Gone
  <2>2. CASE r = Guest
    BY <2>2 DEF Arrived
  <2>3. CASE Arrived(r, before[q]) /\ r # Guest
    <3>1. r \in DOMAIN tree /\ tree[r] = before[q]
      BY <2>3 DEF Arrived
    <3>2. CASE r \in DOMAIN tree' /\ tree'[r] = tree[r]
      BY <3>1, <3>2 DEF Arrived
    <3>3. CASE Len(h) = 1 /\ (r = h[1][2] \/ Within(r, h[1][1]))
      <4>1. n \in (i + 1)..Len(moved') /\ moved'[n] = h[1]
        BY <3>3, <1>2, <1>3
      <4> QED BY <4>1, <3>3 DEF Gone
    <3> QED BY <3>1, <3>2, <3>3, <2>3
  <2> QED BY <1>4, <2>1, <2>2, <2>3
<1>5. CASE Kept(q)
  <2>1. q \in DOMAIN tree /\ tree[q] = before[q] /\ q # Guest
    BY <1>5 DEF Kept
  <2>2. CASE q \in DOMAIN tree' /\ tree'[q] = tree[q]
    BY <2>1, <2>2 DEF Fate, Kept
  <2>3. CASE Len(h) = 1 /\ q = h[1][2]
    BY <2>3, <1>2 DEF Fate
  <2>4. CASE Len(h) = 1 /\ Within(q, h[1][1]) /\ Carried(q, h[1]) \in DOMAIN tree' /\ tree'[Carried(q, h[1])] = tree[q]
    <3>1. n \in DOMAIN moved' /\ moved'[n] = h[1]
      BY <2>4, <1>2
    <3>2. Arrived(Carried(q, h[1]), before[q])'
      BY <3>1, <2>1, <2>4 DEF Arrived
    <3> QED BY <3>1, <3>2, <2>4 DEF Fate
  <2> QED BY <2>1, <2>2, <2>3, <2>4
<1>6. CASE \E i \in DOMAIN moved : q = moved[i][2]
  BY <1>6, <1>3 DEF Fate
<1>7. CASE \E i \in DOMAIN moved :
             Within(q, moved[i][1]) /\ (Arrived(Carried(q, moved[i]), before[q]) \/ Gone(Carried(q, moved[i]), i))
  <2> PICK i \in DOMAIN moved :
             Within(q, moved[i][1]) /\ (Arrived(Carried(q, moved[i]), before[q]) \/ Gone(Carried(q, moved[i]), i))
    BY <1>7
  <2>1. i \in DOMAIN moved' /\ moved'[i] = moved[i]
    BY <1>3
  <2> PICK r : r = Carried(q, moved[i])
    OBVIOUS
  <2>2. Arrived(r, before[q])' \/ Gone(r, i)'
    BY <1>4
  <2> QED BY <2>1, <2>2 DEF Fate
<1> QED BY <1>5, <1>6, <1>7 DEF Fate

LEMMA MvStep ==
  ASSUME TreeTypeOK, Rooted(tree), UNCHANGED <<utility, before>>, Tool({"mv"}), walk = << >>, LosesNothing,
         [TreeNext]_treeVars
  PROVE  LosesNothing'
<1>1. Typed(tree) /\ moved \in Seq(Path \X Path)
  BY DEF TreeTypeOK
<1>2. ~Operand /\ ~Fill /\ ~NextEntry /\ ~RmCall /\ ~EndDirectory
  BY DEF Operand, Fill, NextEntry, RmCall, EndDirectory, Tool
<1>3. SUFFICES \E h \in Seq(Path \X Path) :
        /\ moved' = moved \o h /\ Len(h) <= 1
        /\ \A r \in DOMAIN tree : r # Guest =>
             \/ r \in DOMAIN tree' /\ tree'[r] = tree[r]
             \/ /\ Len(h) = 1
                /\ \/ r = h[1][2]
                   \/ Within(r, h[1][1]) /\ Carried(r, h[1]) \in DOMAIN tree' /\ tree'[Carried(r, h[1])] = tree[r]
  <2> PICK h \in Seq(Path \X Path) :
        /\ moved' = moved \o h /\ Len(h) <= 1
        /\ \A r \in DOMAIN tree : r # Guest =>
             \/ r \in DOMAIN tree' /\ tree'[r] = tree[r]
             \/ /\ Len(h) = 1
                /\ \/ r = h[1][2]
                   \/ Within(r, h[1][1]) /\ Carried(r, h[1]) \in DOMAIN tree' /\ tree'[Carried(r, h[1])] = tree[r]
    BY <1>3
  <2>1. \A q \in DOMAIN before \ {Guest} : Fate(q)
    BY MvLoses
  <2>2. \A q \in DOMAIN before \ {Guest} : Fate(q)'
    BY <2>1, <1>1, Fates
  <2>3. Tool({"mv"})' /\ ~Tool({"rm", "rmdir"})'
    BY DEF Tool
  <2> QED BY <2>2, <2>3 DEF LosesNothing, Fate, Gone
<1>e. << >> \in Seq(Path \X Path) /\ Len(<< >>) <= 1 /\ moved \o << >> = moved
  BY <1>1
<1>4. CASE UNCHANGED treeVars \/ Start \/ Finish \/ Meddle
  <2>1. moved' = moved
    BY <1>4 DEF Start, Finish, Meddle, treeVars, files
  <2>2. \A r \in DOMAIN tree : r # Guest => r \in DOMAIN tree' /\ tree'[r] = tree[r]
    <3>1. CASE Meddle
      <4>1. CASE GuestMade
        BY <4>1, <1>1, WithNode DEF GuestMade, Made
      <4>2. CASE Removed(Guest)
        BY <4>2, <1>1, WithoutLeaf DEF Removed
      <4> QED BY <3>1, <4>1, <4>2, MeddleChanges
    <3>2. CASE ~Meddle
      BY <1>4, <3>2 DEF Start, Finish, treeVars, files
    <3> QED BY <3>1, <3>2
  <2> QED BY <2>1, <2>2, <1>e
<1>5. CASE OneCall
  <2>1. Mv /\ arg \in 1..Operands
    <3>1. arg \in Nat \ {0} /\ Operands \in Nat /\ arg <= Operands
      BY <1>5, Commands DEF OneCall, TreeTypeOK
    <3> QED BY <3>1, <1>5 DEF OneCall, Rmdir, Mkdir, LnRemoves, Ln, Tool
  <2>2. utility.args[arg] \in Path
    BY <2>1, Commands
  <2> PICK p : p = At(utility.args[arg])
    OBVIOUS
  <2> PICK q : q = At(Target(utility.args[arg]))
    OBVIOUS
  <2>3. p \in Path /\ q \in Path /\ p \in Seq(Name) /\ q \in Seq(Name)
    BY <2>2, <1>1, Targets, AtIs DEF Path
  <2>4. \/ CanRename(p, q) /\ tree' = Renamed(p, q) /\ moved' = moved \o (IF p = q THEN << >> ELSE <<<<p, q>>>>)
        \/ tree' = tree /\ moved' = moved
    BY <2>1 DEF Mv, Call, files
  <2>5. CASE tree' = tree /\ moved' = moved
    BY <2>5, <1>e
  <2>6. CASE CanRename(p, q) /\ tree' = Renamed(p, q) /\ moved' = moved \o (IF p = q THEN << >> ELSE <<<<p, q>>>>)
    <3>1. /\ \A r \in DOMAIN tree : ~Within(r, p) /\ r # q => r \in DOMAIN tree' /\ tree'[r] = tree[r]
          /\ \A r \in DOMAIN tree : Within(r, p) =>
               q \o SubSeq(r, Len(p) + 1, Len(r)) \in DOMAIN tree'
                 /\ tree'[q \o SubSeq(r, Len(p) + 1, Len(r))] = tree[r]
      BY <2>3, <2>6, <1>1, RenamedIs
    <3>2. CASE p = q
      <4>1. \A r \in DOMAIN tree : r \in DOMAIN tree' /\ tree'[r] = tree[r]
        <5>1. TAKE r \in DOMAIN tree
        <5>2. CASE Within(r, p)
          <6>1. p \o SubSeq(r, Len(p) + 1, Len(r)) = r
            <7>1. r \in Seq(Name)
              BY <1>1 DEF Typed
            <7> QED BY <7>1, <5>2, <2>3, Splits
          <6> QED BY <6>1, <5>2, <3>1, <3>2
        <5>3. CASE ~Within(r, p)
          <6>1. r # q
            BY <5>3, <3>2 DEF Within
          <6> QED BY <6>1, <5>3, <3>1
        <5> QED BY <5>2, <5>3
      <4>2. moved' = moved \o << >>
        BY <2>6, <3>2
      <4> QED BY <4>1, <4>2, <1>e
    <3>3. CASE p # q
      <4> PICK h : h = <<<<p, q>>>>
        OBVIOUS
      <4>1. h \in Seq(Path \X Path) /\ Len(h) = 1 /\ h[1][1] = p /\ h[1][2] = q /\ moved' = moved \o h
        BY <2>3, <2>6, <3>3
      <4>2. \A r : Carried(r, h[1]) = q \o SubSeq(r, Len(p) + 1, Len(r))
        BY <4>1 DEF Carried
      <4>3. \A r \in DOMAIN tree :
              \/ r \in DOMAIN tree' /\ tree'[r] = tree[r]
              \/ r = h[1][2]
              \/ Within(r, h[1][1]) /\ Carried(r, h[1]) \in DOMAIN tree' /\ tree'[Carried(r, h[1])] = tree[r]
        BY <4>1, <4>2, <3>1
      <4>4. Len(h) <= 1
        BY <4>1
      <4> QED BY <4>1, <4>3, <4>4
    <3> QED BY <3>2, <3>3
  <2> QED BY <2>4, <2>5, <2>6
<1> QED BY <1>2, <1>4, <1>5 DEF TreeNext

-------------------------------------------------------------------------------
(* cp.                                                                     *)
(* Places do not change: cp makes and removes no links.                    *)
LEMMA SamePlaces ==
  ASSUME UNCHANGED <<utility, before>>
  PROVE  /\ \A p : Was(p)' = Was(p) /\ WasThrough(p)' = WasThrough(p) /\ Into(p)' = Into(p)
         /\ \A k, q : WasIs(k, q)' <=> WasIs(k, q)
         /\ \A q : Lasting(q)' <=> Lasting(q)
         /\ Copies' = Copies /\ \A i : Copy(i)' = Copy(i)
<1>1. \A k, q : WasIs(k, q)' <=> WasIs(k, q)
  BY DEF WasIs
<1>2. \A p : Was(p)' = Was(p)
  BY SameCommand
<1>3. \A p : WasThrough(p)' = WasThrough(p)
  BY <1>1, <1>2 DEF WasThrough
<1>4. Dest' = Dest /\ Args' = Args
  BY SameCommand
<1>5. \A p : Into(p)' = Into(p)
  BY <1>1, <1>3, <1>4 DEF Into
<1>6. Copies' = Copies
  BY <1>4, <1>5 DEF Copies
<1>7. \A i : Copy(i)' = Copy(i)
  BY <1>5 DEF Copy
<1>8. \A q : Lasting(q)' <=> Lasting(q)
  BY <1>1 DEF Lasting
<1> QED BY <1>1, <1>2, <1>3, <1>5, <1>6, <1>7, <1>8

LEMMA PlaceIs ==
  ASSUME before \in Forest, NEW x \in Path
  PROVE  /\ Was(x) \in Path /\ WasThrough(x) \in Seq(Name)
         /\ ~LinkIn(before, WasThrough(x))
         /\ WasIs("dir", WasThrough(x)) \/ WasThrough(x) \in Path
         /\ Was(x) \notin DOMAIN before => WasThrough(x) = Was(x)
<1>1. Typed(before) /\ Rooted(before) /\ LinksLead(before)
  BY BeforeIs, ForestAssumption
<1>2. Was(x) \in Path /\ Was(x) \in Seq(Name)
  BY <1>1, AtType DEF Was, Path
<1>3. CASE LinkIn(before, Was(x))
  <2>1. /\ WasThrough(x) = before[Was(x)].body /\ WasThrough(x) \in Seq(Name)
        /\ ~LinkIn(before, WasThrough(x)) /\ Was(x) \in DOMAIN before
    BY <1>1, <1>3 DEF WasThrough, WasIs, LinkIn, LinksLead
  <2>2. CASE WasThrough(x) = << >>
    <3>1. 0 \in 0..(Len(Was(x)) - 1) /\ SubSeq(Was(x), 1, 0) = << >>
      BY <1>2, FrontIs
    <3>2. << >> \in DOMAIN before /\ before[<< >>].kind = "dir"
      BY <1>1, <2>1, <3>1, OnTheWay
    <3> QED BY <1>2, <2>1, <2>2, <3>2 DEF WasIs
  <2> QED BY <1>2, <2>1, <2>2 DEF Path
<1>4. CASE ~LinkIn(before, Was(x))
  BY <1>2, <1>4 DEF WasThrough, WasIs, LinkIn
<1> QED BY <1>3, <1>4

LEMMA NowIs ==
  ASSUME before \in Forest, Typed(tree), Rooted(tree), SameLinks, NEW x \in Path
  PROVE  At(x) = Was(x) /\ Through(x) = WasThrough(x)
<1>b. Typed(before) /\ Rooted(before)
  BY BeforeIs
<1>1. ASSUME NEW r PROVE /\ LinkIn(tree, r) <=> LinkIn(before, r)
                         /\ LinkIn(tree, r) => tree[r] = before[r]
  BY DEF SameLinks, LinkIn
<1>2. At(x) = Was(x)
  <2>1. CASE \A k \in 1..(Len(x) - 1) : ~LinkIn(before, SubSeq(x, 1, k))
    <3>1. AtIn(before, x) = x
      BY <2>1, <1>b, PathIn
    <3>2. AtIn(tree, x) = x
      BY <1>1, <2>1, PathIn
    <3> QED BY <3>1, <3>2 DEF At, Was
  <2>2. CASE \E k \in 1..(Len(x) - 1) : LinkIn(before, SubSeq(x, 1, k))
    <3> PICK k \in 1..(Len(x) - 1) : LinkIn(before, SubSeq(x, 1, k))
      BY <2>2
    <3> DEFINE l == SubSeq(x, 1, k)
    <3>1. AtIn(before, x) = before[l].body \o SubSeq(x, k + 1, Len(x))
      BY <1>b, PathIn
    <3>2. LinkIn(tree, l) /\ tree[l] = before[l]
      BY <1>1
    <3>3. AtIn(tree, x) = tree[l].body \o SubSeq(x, k + 1, Len(x))
      BY <3>2, PathIn
    <3> QED BY <3>1, <3>2, <3>3 DEF At, Was
  <2> QED BY <2>1, <2>2
<1>3. Through(x) = WasThrough(x)
  BY <1>1, <1>2 DEF Through, WasThrough, Is, WasIs, LinkIn
<1> QED BY <1>2, <1>3

LEMMA AppendIs ==
  ASSUME NEW u \in Seq(Name), NEW n \in Name
  PROVE  /\ Append(u, n) \in Path /\ Append(u, n) \in Seq(Name) /\ Append(u, n) # << >>
         /\ Front(Append(u, n)) = u /\ Last(Append(u, n)) = n /\ Len(Append(u, n)) = Len(u) + 1
<1> DEFINE y == Append(u, n)
<1>1. y \in Seq(Name) /\ Len(y) = Len(u) + 1 /\ y[Len(u) + 1] = n /\ \A i \in 1..Len(u) : y[i] = u[i]
  OBVIOUS
<1> HIDE DEF y
<1>2. y # << >> /\ Last(y) = n
  BY <1>1 DEF Last
<1>3. Front(y) = u
  <2>1. Front(y) = SubSeq(y, 1, Len(u))
    BY <1>1 DEF Front
  <2>2. Len(u) \in 0..Len(y)
    BY <1>1
  <2>3. SubSeq(y, 1, Len(u)) \in Seq(Name) /\ Len(SubSeq(y, 1, Len(u))) = Len(u)
    BY <1>1, <2>2, Upto
  <2>4. \A i \in 1..Len(u) : SubSeq(y, 1, Len(u))[i] = u[i]
    BY <1>1
  <2> QED BY <2>1, <2>3, <2>4, SeqEqual
<1> QED BY <1>1, <1>2, <1>3 DEF Path, y

LEMMA FrontLast ==
  ASSUME NEW r \in Path
  PROVE  Append(Front(r), Last(r)) = r /\ Front(r) \in Seq(Name) /\ Front(r) # r
<1>1. Front(r) = SubSeq(r, 1, Len(r) - 1) /\ Len(r) \in Nat /\ Len(r) > 0 /\ r \in Seq(Name) /\ Last(r) = r[Len(r)] /\ Last(r) \in Name
  BY FrontIs DEF Last
<1>2. Len(r) - 1 \in 0..Len(r)
  BY <1>1
<1>3. Front(r) \in Seq(Name) /\ Len(Front(r)) = Len(r) - 1
  <2> DEFINE m == Len(r) - 1
  <2>1. m \in 0..Len(r)
    BY <1>2
  <2> HIDE DEF m
  <2>2. SubSeq(r, 1, m) \in Seq(Name) /\ Len(SubSeq(r, 1, m)) = m
    BY <1>1, <2>1, Upto
  <2> QED BY <1>1, <2>2 DEF m
<1>4. \A i \in 1..(Len(r) - 1) : Front(r)[i] = r[i]
  BY <1>1
<1> DEFINE f == Front(r)
           y == Append(Front(r), Last(r))
<1>5. y \in Seq(Name) /\ Len(y) = Len(r)
  BY <1>1, <1>3
<1>6. \A i \in 1..Len(r) : y[i] = r[i]
  <2>1. TAKE i \in 1..Len(r)
  <2>2. CASE i = Len(r)
    BY <2>2, <1>1, <1>3
  <2>3. CASE i \in 1..(Len(r) - 1)
    BY <2>3, <1>1, <1>3, <1>4
  <2> QED BY <2>2, <2>3, <1>1
<1>7. y = r
  <2> HIDE DEF y
  <2> QED BY <1>1, <1>5, <1>6, SeqEqual
<1>8. Front(r) # r
  BY <1>1, <1>3
<1> QED BY <1>3, <1>7, <1>8

(* What a path behind x leads to, if to anything, is in what x leads to.   *)
LEMMA EntryIs ==
  ASSUME before \in Forest, NEW x \in Path, NEW n \in Name, Was(Append(x, n)) \in DOMAIN before
  PROVE  Was(Append(x, n)) = Append(WasThrough(x), n)
<1> DEFINE y == Append(x, n)
           m == Len(x)
<1>b. Typed(before) /\ Rooted(before)
  BY BeforeIs
<1>x. x \in Seq(Name) /\ m \in Nat /\ m > 0 /\ SubSeq(x, 1, m) = x
  BY DEF Path
<1>y. y \in Path /\ y \in Seq(Name) /\ Len(y) = m + 1 /\ \A k \in 0..m : SubSeq(y, 1, k) = SubSeq(x, 1, k)
  BY Inwards
<1>z. /\ \A i \in 1..m : y[i] = x[i]
      /\ y[m + 1] = n
  BY <1>x
<1>w. Was(y) \in DOMAIN before
  OBVIOUS
<1> HIDE DEF y, m
<1>l. Len(y) - 1 = m
  BY <1>x, <1>y
<1>1. CASE \A k \in 1..m : ~LinkIn(before, SubSeq(y, 1, k))
  <2>1. Was(y) = y
    BY <1>1, <1>b, <1>y, <1>l, PathIn DEF Was
  <2>2. \A k \in 1..(Len(x) - 1) : ~LinkIn(before, SubSeq(x, 1, k))
    <3>1. TAKE k \in 1..(Len(x) - 1)
    <3>2. k \in 1..m /\ k \in 0..m
      BY <1>x DEF m
    <3> QED BY <3>2, <1>1, <1>y
  <2>3. Was(x) = x
    BY <2>2, <1>b, PathIn DEF Was
  <2>4. ~LinkIn(before, x)
    <3>1. m \in 1..m /\ m \in 0..m
      BY <1>x
    <3> QED BY <3>1, <1>1, <1>x, <1>y
  <2>5. WasThrough(x) = x
    BY <2>3, <2>4 DEF WasThrough, WasIs, LinkIn
  <2> QED BY <2>1, <2>5 DEF y
<1>2. ASSUME NEW k \in 1..m, LinkIn(before, SubSeq(y, 1, k)) PROVE Was(y) = Append(WasThrough(x), n)
  <2> DEFINE l == SubSeq(x, 1, k)
             body == before[l].body
  <2>k. k \in 0..m /\ SubSeq(y, 1, k) = l
    BY <1>x, <1>y
  <2>1. Was(y) = body \o SubSeq(y, k + 1, Len(y))
    BY <1>2, <1>b, <1>y, <1>l, <2>k, PathIn DEF Was
  <2>2. body \in Seq(Name) /\ LinkIn(before, l)
    BY <1>2, <1>b, <2>k DEF Typed, LinkIn
  <2> DEFINE rest == SubSeq(x, k + 1, m)
             all  == SubSeq(y, k + 1, Len(y))
  <2>3. /\ rest \in Seq(Name) /\ Len(rest) = m - k /\ \A i \in 1..(m - k) : rest[i] = x[i + k]
    BY <1>x, <2>k, RestIs DEF m
  <2>4. /\ all \in Seq(Name) /\ Len(all) = (m + 1) - k /\ \A i \in 1..((m + 1) - k) : all[i] = y[i + k]
    <3>1. k \in 0..Len(y)
      BY <2>k, <1>y, <1>x
    <3>2. /\ SubSeq(y, k + 1, Len(y)) \in Seq(Name) /\ Len(SubSeq(y, k + 1, Len(y))) = Len(y) - k
          /\ \A i \in 1..(Len(y) - k) : SubSeq(y, k + 1, Len(y))[i] = y[i + k]
      BY <1>y, <3>1, RestIs
    <3>3. Len(y) - k = (m + 1) - k
      BY <1>y
    <3> QED BY <3>2, <3>3
  <2> HIDE DEF body, rest, all
  <2>5. body \o all = Append(body \o rest, n)
    <3> DEFINE w == Append(body \o rest, n)
    <3>1. body \o rest \in Seq(Name) /\ Len(body \o rest) = Len(body) + (m - k)
          /\ (\A i \in 1..Len(body) : (body \o rest)[i] = body[i])
          /\ \A i \in 1..(m - k) : (body \o rest)[i + Len(body)] = rest[i]
      <4>1. /\ body \o rest \in Seq(Name) /\ Len(body \o rest) = Len(body) + Len(rest)
            /\ \A i \in 1..Len(body) : (body \o rest)[i] = body[i]
            /\ \A i \in 1..Len(rest) : (body \o rest)[i + Len(body)] = rest[i]
        BY <2>2, <2>3, JoinIs
      <4> HIDE DEF m
      <4> QED BY <4>1, <2>3
    <3>2. Len(body) \in Nat /\ m - k \in Nat /\ Len(all) = (m - k) + 1
      BY <2>2, <2>4, <1>x
    <3>3. w \in Seq(Name) /\ Len(w) = Len(body) + Len(all)
      <4>1. \A u \in Seq(Name) : Append(u, n) \in Seq(Name) /\ Len(Append(u, n)) = Len(u) + 1
        OBVIOUS
      <4>2. w \in Seq(Name) /\ Len(w) = Len(body \o rest) + 1
        BY <3>1, <4>1
      <4> QED BY <4>2, <3>1, <3>2
    <3>4. \A i \in 1..Len(body) : w[i] = body[i]
      <4>1. TAKE i \in 1..Len(body)
      <4>2. i \in 1..Len(body \o rest)
        BY <3>1, <3>2
      <4> QED BY <4>2, <3>1
    <3>5. \A i \in 1..Len(all) : w[i + Len(body)] = all[i]
      <4>1. TAKE i \in 1..Len(all)
      <4>2. CASE i = (m - k) + 1
        <5>1. i + Len(body) = Len(body \o rest) + 1 /\ i + k = m + 1
          BY <4>2, <3>1, <3>2, <1>x
        <5>2. w[i + Len(body)] = n
          BY <5>1, <3>1
        <5> QED BY <5>1, <5>2, <2>4, <3>2, <1>z
      <4>3. CASE i \in 1..(m - k)
        <5>1. i + Len(body) \in 1..Len(body \o rest) /\ i + k \in 1..m
          BY <4>3, <3>1, <3>2, <1>x
        <5>2. w[i + Len(body)] = (body \o rest)[i + Len(body)]
          BY <5>1, <3>1
        <5>3. (body \o rest)[i + Len(body)] = rest[i] /\ rest[i] = x[i + k]
          BY <4>3, <3>1, <2>3
        <5>4. all[i] = y[i + k] /\ y[i + k] = x[i + k]
          <6>1. i \in 1..((m + 1) - k)
            BY <4>3, <1>x
          <6> QED BY <6>1, <5>1, <2>4, <1>z
        <5> QED BY <5>2, <5>3, <5>4
      <4>4. i = (m - k) + 1 \/ i \in 1..(m - k)
        BY <3>2
      <4> QED BY <4>2, <4>3, <4>4
    <3> HIDE DEF w
    <3>6. body \o all = w
      BY <2>2, <2>4, <3>3, <3>4, <3>5, Joined
    <3> QED BY <3>6 DEF w
  <2>6. CASE k = m
    <3>1. l = x /\ rest = << >>
      <4>1. Len(rest) = 0
        BY <2>3, <2>6, <1>x
      <4> QED BY <4>1, <2>3, <2>6, <1>x
    <3>2. \A j \in 1..(Len(x) - 1) : ~LinkIn(before, SubSeq(x, 1, j))
      <4>1. TAKE j \in 1..(Len(x) - 1)
      <4>2. x \in DOMAIN before /\ j \in 0..(Len(x) - 1)
        <5>1. x \in DOMAIN before
          BY <3>1, <2>2 DEF LinkIn
        <5>2. Len(x) \in Nat
          BY <1>x DEF m
        <5> QED BY <5>1, <5>2
      <4> QED BY <4>2, <1>b, OnTheWay
    <3>3. Was(x) = x
      BY <3>2, <1>b, PathIn DEF Was
    <3>4. WasThrough(x) = body
      BY <3>1, <3>3, <2>2 DEF WasThrough, WasIs, LinkIn, body
    <3>5. body \o << >> = body
      BY <2>2
    <3> QED BY <2>1, <2>5, <3>1, <3>4, <3>5 DEF all
  <2>7. CASE k < m
    <3>1. k \in 1..(Len(x) - 1)
      BY <2>7, <1>x DEF m
    <3>2. Was(x) = body \o rest
      BY <3>1, <1>b, <2>2, PathIn DEF Was, body, rest, m
    <3>3. Was(y) = Append(Was(x), n)
      BY <2>1, <2>5, <3>2 DEF all
    <3>4. Was(x) \in Seq(Name)
      BY <1>b, AtType DEF Was, Path
    <3>5. Was(x) \in DOMAIN before /\ before[Was(x)].kind = "dir"
      <4>1. Front(Was(y)) = Was(x) /\ Was(y) \in Path
        BY <3>3, <3>4, AppendIs
      <4>2. Front(Was(y)) = SubSeq(Was(y), 1, Len(Was(y)) - 1) /\ Len(Was(y)) - 1 \in 0..(Len(Was(y)) - 1)
        BY <4>1, FrontIs
      <4> QED BY <4>1, <4>2, <1>b, <1>w, OnTheWay
    <3>6. WasThrough(x) = Was(x)
      BY <3>5 DEF WasThrough, WasIs
    <3> QED BY <3>3, <3>6
  <2> QED BY <2>6, <2>7, <2>k, <1>x
<1> QED BY <1>1, <1>2 DEF y

-------------------------------------------------------------------------------
(* The jobs cp has, and what one of them does to the tree.                 *)
Jobs == Copies \cup UNION {Parts(c) : c \in Copies}
Body(j) == LET s == WasThrough(j[1]) IN IF Is("file", s) /\ s # WasThrough(j[2]) THEN tree[s].body ELSE << >>
JobMade(j, d) ==
  /\ j \in Jobs /\ WasThrough(j[2]) = d
  /\ \/ d \notin DOMAIN tree /\ Is("dir", WasThrough(j[1])) /\ tree'[d] = Dir
     \/ ~Is("dir", d) /\ (j \in Copies => ~Is("dir", WasThrough(j[1]))) /\ tree'[d] = File(Body(j))
CpChange ==
  /\ \A r \in DOMAIN tree \ {Guest} : r \in DOMAIN tree' /\ (Is("dir", r) => Is("dir", r)')
  /\ \A r \in DOMAIN tree' \ {Guest} :
       \/ r \in DOMAIN tree /\ tree'[r] = tree[r]
       \/ \E j : JobMade(j, r)
  /\ ~LinkIn(tree', Guest)
CpHyp ==
  /\ before \in Forest /\ Typed(tree) /\ Rooted(tree) /\ CpTree
  /\ UNCHANGED <<utility, before>> /\ CpChange

LEMMA JobsAre ==
  ASSUME TreeTypeOK
  PROVE  /\ \A c \in Copies : \E p \in Args : c = <<p, Into(p)>> /\ p \in Path /\ Into(p) \in Path
                                              /\ c[1] = p /\ c[2] = Into(p)
         /\ \A i \in 1..Operands : Copy(i) \in Copies /\ Copy(i)[1] = utility.args[i] /\ Copy(i)[2] = Into(utility.args[i])
         /\ \A c, n : Part(c, n)[1] = Append(c[1], n) /\ Part(c, n)[2] = Append(c[2], n)
         /\ \A j \in Jobs : j[1] \in Path /\ j[2] \in Path
         /\ \A p \in Path : Into(p) \in Path
<1>1. Args \subseteq Path /\ Dest \in Path /\ \A i \in 1..Operands : utility.args[i] \in Args
  BY Commands
<1>2. \A p \in Path : Into(p) \in Path
  <2>1. TAKE p \in Path
  <2>2. Last(p) \in Name
    BY FrontIs
  <2> QED BY <1>1, <2>2, Inwards DEF Into
<1>3. \A c \in Copies : \E p \in Args : c = <<p, Into(p)>> /\ p \in Path /\ Into(p) \in Path
                                        /\ c[1] = p /\ c[2] = Into(p)
  BY <1>1, <1>2 DEF Copies
<1>4. \A i \in 1..Operands : Copy(i) \in Copies /\ Copy(i)[1] = utility.args[i] /\ Copy(i)[2] = Into(utility.args[i])
  BY <1>1 DEF Copy, Copies
<1>5. \A c, n : Part(c, n)[1] = Append(c[1], n) /\ Part(c, n)[2] = Append(c[2], n)
  BY DEF Part
<1>6. \A j \in Jobs : j[1] \in Path /\ j[2] \in Path
  <2>1. TAKE j \in Jobs
  <2>2. CASE j \in Copies
    BY <2>2, <1>3
  <2>3. CASE \E c \in Copies : j \in Parts(c)
    <3> PICK c \in Copies : j \in Parts(c)
      BY <2>3
    <3> PICK n \in Name : j = Part(c, n)
      BY DEF Parts
    <3>1. c[1] \in Path /\ c[2] \in Path
      BY <1>3
    <3>2. Append(c[1], n) \in Path /\ Append(c[2], n) \in Path
      BY <3>1, Inwards
    <3> QED BY <3>2, <1>5
  <2> QED BY <2>2, <2>3 DEF Jobs
<1> QED BY <1>2, <1>3, <1>4, <1>5, <1>6

LEMMA WrittenIs ==
  ASSUME NEW j, NEW q
  PROVE  j \in WrittenTo(q) <=> j \in Jobs /\ WasThrough(j[2]) = q
BY DEF WrittenTo, Jobs

(* A part is no operand: it lies one deeper.                               *)
LEMMA PartIsNoCopy ==
  ASSUME TreeTypeOK, NEW c \in Copies, NEW n \in Name
  PROVE  Part(c, n) \notin Copies
<1>1. \E p \in Args : c[2] = Into(p) /\ p \in Path /\ Into(p) \in Path
  BY JobsAre
<1>2. Dest \in Path /\ Dest \in Seq(Name)
  BY Commands DEF Path
<1>3. \A p \in Path, q \in Path : Len(Into(p)) = Len(Into(q))
  <2>1. \A p \in Path : Len(Append(Dest, Last(p))) = Len(Dest) + 1
    BY <1>2, FrontIs, AppendIs
  <2> QED BY <2>1 DEF Into
<1>4. SUFFICES ASSUME Part(c, n) \in Copies PROVE FALSE
  OBVIOUS
<1>5. \E q \in Args : Append(c[2], n) = Into(q) /\ q \in Path
  <2>1. Part(c, n)[2] = Append(c[2], n)
    BY DEF Part
  <2> QED BY <2>1, <1>4, JobsAre
<1>6. c[2] \in Seq(Name)
  BY <1>1 DEF Path
<1>7. Len(Append(c[2], n)) = Len(c[2]) + 1 /\ Len(c[2]) \in Nat
  BY <1>6
<1>8. Len(Append(c[2], n)) = Len(c[2])
  BY <1>1, <1>3, <1>5
<1> QED BY <1>7, <1>8

LEMMA MoreJobs ==
  ASSUME UNCHANGED <<utility, before>>, \A r \in DOMAIN tree \ {Guest} : r \in DOMAIN tree'
  PROVE  /\ \A c : Parts(c) \subseteq Parts(c)'
         /\ Jobs \subseteq Jobs'
         /\ \A q : WrittenTo(q) \subseteq WrittenTo(q)'
<1>1. Copies' = Copies /\ \A p : WasThrough(p)' = WasThrough(p)
  BY SamePlaces
<1>2. \A c : Parts(c) \subseteq Parts(c)'
  BY <1>1 DEF Parts, Part
<1>3. Jobs \subseteq Jobs'
  BY <1>1, <1>2 DEF Jobs
<1>4. \A q : WrittenTo(q) \subseteq WrittenTo(q)'
  BY <1>1, <1>3 DEF WrittenTo, Jobs
<1> QED BY <1>2, <1>3, <1>4

LEMMA CpTreeStays ==
  ASSUME CpHyp, TreeTypeOK
  PROVE  CpTree'
<1>1. /\ before \in Forest /\ Typed(tree) /\ Rooted(tree) /\ UNCHANGED <<utility, before>>
      /\ SameLinks /\ OthersKept /\ NewDirs /\ NewFiles
      /\ \A r \in DOMAIN tree \ {Guest} : r \in DOMAIN tree' /\ (Is("dir", r) => Is("dir", r)')
      /\ \A r \in DOMAIN tree' \ {Guest} : (r \in DOMAIN tree /\ tree'[r] = tree[r]) \/ \E j : JobMade(j, r)
      /\ ~LinkIn(tree', Guest)
  BY DEF CpHyp, CpTree, CpChange
<1>b. ~LinkIn(before, Guest)
  BY <1>1, BeforeIs
<1>2. /\ \A k, q : WasIs(k, q)' <=> WasIs(k, q)
      /\ \A p : WasThrough(p)' = WasThrough(p)
      /\ \A q : Lasting(q)' <=> Lasting(q)
      /\ Copies' = Copies
  BY <1>1, SamePlaces
<1>3. \A q : WrittenTo(q) \subseteq WrittenTo(q)'
  BY <1>1, MoreJobs
<1>4. ASSUME NEW j, NEW d, JobMade(j, d)
      PROVE  j \in WrittenTo(d) /\ j \in WrittenTo(d)' /\ ~LinkIn(before, d)
  <2>1. j \in Jobs /\ WasThrough(j[2]) = d
    BY <1>4 DEF JobMade
  <2>2. j[2] \in Path
    BY <2>1, JobsAre
  <2> QED BY <2>1, <2>2, <1>1, <1>3, WrittenIs, PlaceIs
<1>5. SameLinks'
  <2>1. ASSUME NEW r \in DOMAIN tree', LinkIn(tree', r) PROVE LinkIn(before, r) /\ tree'[r] = before[r]
    <3>1. r # Guest
      BY <2>1, <1>1
    <3>2. ASSUME NEW j, JobMade(j, r) PROVE FALSE
      BY <2>1, <3>2 DEF JobMade, LinkIn, Dir, File
    <3>3. r \in DOMAIN tree /\ tree'[r] = tree[r]
      BY <3>1, <3>2, <1>1
    <3> QED BY <3>3, <2>1, <1>1 DEF SameLinks, LinkIn
  <2>2. ASSUME NEW r \in DOMAIN before, LinkIn(before, r) PROVE LinkIn(tree', r)
    <3>1. r # Guest /\ LinkIn(tree, r)
      BY <2>2, <1>1, <1>b DEF SameLinks
    <3>2. r \in DOMAIN tree' /\ tree'[r] = tree[r]
      BY <3>1, <2>2, <1>1, <1>4 DEF LinkIn
    <3> QED BY <3>1, <3>2 DEF LinkIn
  <2> QED BY <2>1, <2>2, <1>1 DEF SameLinks
<1>6. OthersKept'
  <2>1. ASSUME NEW q \in DOMAIN before \ {Guest}
        PROVE  q \in DOMAIN tree' /\ (WrittenTo(q)' = {} \/ WasIs("dir", q) => Kept(q)')
    <3>1. q \in DOMAIN tree /\ q \in DOMAIN tree' /\ q # Guest
      BY <1>1 DEF OthersKept
    <3>2. ASSUME WrittenTo(q)' = {} \/ WasIs("dir", q) PROVE Kept(q)'
      <4>1. WrittenTo(q) = {} \/ WasIs("dir", q)
        BY <3>2, <1>3
      <4>2. Kept(q)
        BY <4>1, <1>1 DEF OthersKept
      <4>3. ASSUME NEW j, JobMade(j, q) PROVE FALSE
        <5>1. WasIs("dir", q)
          BY <3>2, <4>3, <1>4
        <5>2. Is("dir", q)
          BY <5>1, <4>2 DEF Kept, Is, WasIs
        <5> QED BY <5>2, <4>3 DEF JobMade, Is
      <4>4. tree'[q] = tree[q]
        BY <3>1, <4>3, <1>1
      <4> QED BY <3>1, <4>2, <4>4, <1>1 DEF Kept
    <3> QED BY <3>1, <3>2
  <2> QED BY <2>1, <1>1, <1>2 DEF OthersKept
<1>7. NewDirs'
  <2>1. ASSUME NEW r \in DOMAIN tree' \ {Guest}, Is("dir", r)'
        PROVE  WasIs("dir", r) \/ \E j \in WrittenTo(r)' : WasThrough(j[1]) = Guest \/ Is("dir", WasThrough(j[1]))'
    <3>1. \A p : Is("dir", WasThrough(p)) => WasThrough(p) = Guest \/ Is("dir", WasThrough(p))'
      <4>1. TAKE p
      <4> PICK q : q = WasThrough(p)
        OBVIOUS
      <4>2. WasThrough(p)' = q
        BY <1>2
      <4>3. Is("dir", q) => q = Guest \/ Is("dir", q)'
        BY <1>1 DEF Is
      <4> QED BY <4>2, <4>3 DEF Is
    <3>2. CASE r \in DOMAIN tree /\ tree'[r] = tree[r]
      <4>1. Is("dir", r)
        BY <2>1, <3>2 DEF Is
      <4> QED BY <4>1, <3>1, <3>2, <1>1, <1>3 DEF NewDirs
    <3>3. ASSUME NEW j, JobMade(j, r) PROVE Is("dir", WasThrough(j[1])) /\ j \in WrittenTo(r)'
      <4>1. j \in WrittenTo(r)'
        BY <3>3, <1>4
      <4>2. tree'[r].kind = "dir"
        BY <2>1 DEF Is
      <4>3. tree'[r] # File(Body(j))
        BY <4>2 DEF File
      <4> QED BY <4>1, <4>3, <3>3 DEF JobMade
    <3> QED BY <3>1, <3>2, <3>3, <1>1
  <2>2. NewDirs' = \A r \in DOMAIN tree' \ {Guest} :
          Is("dir", r)' => WasIs("dir", r)' \/ \E j \in WrittenTo(r)' : WasThrough(j[1])' = Guest \/ Is("dir", WasThrough(j[1]))'
    BY DEF NewDirs
  <2> QED BY <2>1, <2>2, <1>2
<1>8. NewFiles'
  <2>1. ASSUME NEW r \in DOMAIN tree' \ (DOMAIN before \cup {Guest})
        PROVE  Is("dir", r)' \/ \E j \in WrittenTo(r)' : j \in Copies => ~Lasting(WasThrough(j[1]))
    <3>1. CASE r \in DOMAIN tree /\ tree'[r] = tree[r]
      <4>1. Is("dir", r) => Is("dir", r)'
        BY <1>1, <3>1
      <4> QED BY <4>1, <3>1, <1>1, <1>3 DEF NewFiles
    <3>2. ASSUME NEW j, JobMade(j, r)
          PROVE  Is("dir", r)' \/ (j \in WrittenTo(r)' /\ (j \in Copies => ~Lasting(WasThrough(j[1]))))
      <4>1. j \in WrittenTo(r)'
        BY <3>2, <1>4
      <4>2. CASE tree'[r] = Dir
        BY <4>2 DEF Is, Dir
      <4>3. CASE j \in Copies => ~Is("dir", WasThrough(j[1]))
        <5>1. ASSUME NEW q, Lasting(q) PROVE Is("dir", q)
          <6>1. q \in DOMAIN before \ {Guest} /\ WasIs("dir", q)
            BY <5>1 DEF Lasting, WasIs
          <6>2. Kept(q)
            BY <6>1, <1>1 DEF OthersKept
          <6> QED BY <6>1, <6>2 DEF Kept, Is, WasIs
        <5> QED BY <5>1, <4>1, <4>3
      <4> QED BY <3>2, <4>2, <4>3 DEF JobMade
    <3> QED BY <3>1, <3>2, <1>1
  <2>2. NewFiles' = \A r \in DOMAIN tree' \ (DOMAIN before \cup {Guest}) :
          Is("dir", r)' \/ \E j \in WrittenTo(r)' : j \in Copies' => ~Lasting(WasThrough(j[1]))'
    BY <1>1 DEF NewFiles
  <2>3. \A p : Lasting(WasThrough(p))' <=> Lasting(WasThrough(p))
    BY <1>1 DEF Lasting, WasIs, WasThrough, Was
  <2> QED BY <2>1, <2>2, <2>3, <1>2
<1> QED BY <1>5, <1>6, <1>7, <1>8 DEF CpTree

-------------------------------------------------------------------------------
(* What has to hold for a copy, and the copy.                              *)
Ready(c, j) ==
  LET s == WasThrough(j[1])  d == WasThrough(j[2]) IN
    /\ WasIs("file", s) /\ ~WasIs("dir", d) /\ Guest \notin {s, d, WasThrough(c[1])}
    /\ WrittenTo(s) = {} /\ \A o \in WrittenTo(d) : WasThrough(o[1]) = s
    /\ Lasting(Front(d)) \/ (Front(d) = Was(c[2]) /\ New(c))
HasCopy(j) ==
  LET s == WasThrough(j[1])  d == WasThrough(j[2]) IN Is("file", d) /\ tree[d].body = before[s].body

LEMMA CopiedIs ==
  ASSUME NEW c, NEW j
  PROVE  Copied(c, j) <=> (Ready(c, j) => HasCopy(j))
BY DEF Copied, Ready, HasCopy

LEMMA LastingIs ==
  ASSUME before \in Forest, OthersKept, NEW q, Lasting(q)
  PROVE  Is("dir", q) /\ q # Guest
<1>1. q \in DOMAIN before \ {Guest} /\ WasIs("dir", q)
  BY DEF Lasting, WasIs
<1>2. Kept(q)
  BY <1>1 DEF OthersKept
<1> QED BY <1>1, <1>2 DEF Kept, Is, WasIs

(* As long as such a job may be done, its source is what it was.           *)
LEMMA SourceIs ==
  ASSUME OthersKept, NEW c, NEW j, Ready(c, j)
  PROVE  /\ Is("file", WasThrough(j[1])) /\ tree[WasThrough(j[1])] = before[WasThrough(j[1])]
         /\ WasThrough(j[1]) \in DOMAIN before \ {Guest} /\ ~Is("dir", WasThrough(j[1]))
         /\ \A o \in WrittenTo(WasThrough(j[2])) : Body(o) = before[WasThrough(j[1])].body
<1> DEFINE s == WasThrough(j[1])
           d == WasThrough(j[2])
<1>1. s \in DOMAIN before \ {Guest} /\ WrittenTo(s) = {} /\ before[s].kind = "file"
  BY DEF Ready, WasIs
<1>2. Kept(s)
  BY <1>1 DEF OthersKept
<1>3. Is("file", s) /\ tree[s] = before[s] /\ ~Is("dir", s)
  BY <1>1, <1>2 DEF Kept, Is
<1>4. ASSUME NEW o \in WrittenTo(d) PROVE Body(o) = before[s].body
  <2>1. WasThrough(o[1]) = s /\ WasThrough(o[2]) = d
    BY DEF Ready, WrittenTo
  <2>2. s # d
    BY <1>1
  <2> QED BY <2>1, <2>2, <1>3 DEF Body
<1> QED BY <1>1, <1>3, <1>4

LEMMA NewIs ==
  ASSUME CpHyp, TreeTypeOK, NEW c \in Copies, New(c)'
  PROVE  /\ New(c) /\ Was(c[2]) = WasThrough(c[2]) /\ Was(c[2]) \notin DOMAIN before /\ Was(c[2]) # Guest
         /\ Is("dir", Front(Was(c[2]))) /\ WrittenTo(Was(c[2])) = {c} /\ Was(c[2]) \in Path
<1>1. /\ before \in Forest /\ UNCHANGED <<utility, before>> /\ OthersKept
      /\ \A r \in DOMAIN tree \ {Guest} : r \in DOMAIN tree'
  BY DEF CpHyp, CpTree, CpChange
<1>2. /\ Was(c[2]) \notin DOMAIN before \cup {Guest} /\ Lasting(Front(Was(c[2])))
      /\ WrittenTo(Was(c[2]))' = {c}
  BY <1>1 DEF New, Was, Lasting, WasIs
<1>3. c[2] \in Path
  BY JobsAre
<1>4. Was(c[2]) = WasThrough(c[2]) /\ Was(c[2]) \in Path
  BY <1>1, <1>2, <1>3, PlaceIs
<1>5. c \in WrittenTo(Was(c[2]))
  BY <1>4 DEF WrittenTo
<1>6. WrittenTo(Was(c[2])) = {c}
  <2> PICK d : d = Was(c[2])
    OBVIOUS
  <2>1. WrittenTo(d)' = WrittenTo(Was(c[2]))'
    BY <1>1 DEF WrittenTo, Was
  <2>2. WrittenTo(d) \subseteq WrittenTo(d)'
    BY <1>1, MoreJobs
  <2> QED BY <1>2, <1>5, <2>1, <2>2
<1>7. Is("dir", Front(Was(c[2])))
  BY <1>1, <1>2, LastingIs
<1> QED BY <1>2, <1>4, <1>6, <1>7 DEF New

LEMMA ReadyIs ==
  ASSUME CpHyp, TreeTypeOK, NEW c \in Copies, NEW j, Ready(c, j)'
  PROVE  Ready(c, j)
<1> DEFINE s == WasThrough(j[1])
           d == WasThrough(j[2])
<1>1. UNCHANGED <<utility, before>> /\ \A r \in DOMAIN tree \ {Guest} : r \in DOMAIN tree'
  BY DEF CpHyp, CpChange
<1>2. /\ \A p : WasThrough(p)' = WasThrough(p) /\ Was(p)' = Was(p)
      /\ \A k, q : WasIs(k, q)' <=> WasIs(k, q)
      /\ \A q : Lasting(q)' <=> Lasting(q)
  BY <1>1, SamePlaces
<1>3. /\ WasIs("file", s) /\ ~WasIs("dir", d) /\ Guest \notin {s, d, WasThrough(c[1])}
      /\ WrittenTo(s)' = {} /\ \A o \in WrittenTo(d)' : WasThrough(o[1]) = s
      /\ Lasting(Front(d)) \/ (Front(d) = Was(c[2]) /\ New(c)')
  <2>1. /\ WasIs("file", s)' /\ ~WasIs("dir", d)' /\ Guest \notin {s, d, WasThrough(c[1])}'
        /\ WrittenTo(s)' = {} /\ \A o \in WrittenTo(d)' : WasThrough(o[1])' = s'
        /\ Lasting(Front(d))' \/ (Front(d)' = Was(c[2])' /\ New(c)')
    BY DEF Ready
  <2>2. s' = s /\ d' = d /\ WasThrough(c[1])' = WasThrough(c[1]) /\ Front(d)' = Front(d) /\ Was(c[2])' = Was(c[2])
    BY <1>2
  <2>3. /\ WasIs("file", s)' <=> WasIs("file", s)
        /\ WasIs("dir", d)' <=> WasIs("dir", d)
        /\ Lasting(Front(d))' <=> Lasting(Front(d))
    BY <1>1 DEF Lasting, WasIs, WasThrough, Was
  <2>4. \A o \in WrittenTo(d)' : WasThrough(o[1]) = s
    BY <2>1, <2>2, <1>2
  <2> HIDE DEF s, d
  <2>5. Guest \notin {s, d, WasThrough(c[1])}
    BY <2>1, <2>2
  <2> QED BY <2>1, <2>2, <2>3, <2>4, <2>5
<1> PICK a : a = s
  OBVIOUS
<1> PICK b : b = d
  OBVIOUS
<1>4. WrittenTo(a)' = {} /\ \A o \in WrittenTo(b)' : WasThrough(o[1]) = a
  <2>1. WrittenTo(a)' = WrittenTo(s)' /\ WrittenTo(b)' = WrittenTo(d)'
    BY <1>2 DEF WrittenTo
  <2> QED BY <2>1, <1>3
<1>5. WrittenTo(a) = {} /\ \A o \in WrittenTo(b) : WasThrough(o[1]) = a
  BY <1>1, <1>4, MoreJobs
<1>6. New(c)' => New(c)
  BY NewIs
<1> QED BY <1>3, <1>5, <1>6 DEF Ready

LEMMA CopiedStays ==
  ASSUME CpHyp, TreeTypeOK, NEW c \in Copies, NEW j, Copied(c, j)
  PROVE  Copied(c, j)'
<1> SUFFICES ASSUME Ready(c, j)' PROVE HasCopy(j)'
  BY CopiedIs DEF Copied, Ready, HasCopy
<1>1. Ready(c, j) /\ HasCopy(j)
  BY ReadyIs, CopiedIs
<1>2. OthersKept /\ UNCHANGED <<utility, before>>
  BY DEF CpHyp, CpTree
<1> PICK s : s = WasThrough(j[1])
  OBVIOUS
<1> PICK d : d = WasThrough(j[2])
  OBVIOUS
<1>3. s = WasThrough(j[1])' /\ d = WasThrough(j[2])'
  BY <1>2, SamePlaces
<1>4. Is("file", d) /\ tree[d].body = before[s].body /\ d # Guest
  BY <1>1 DEF HasCopy, Ready
<1>5. d \in DOMAIN tree' /\ ((d \in DOMAIN tree /\ tree'[d] = tree[d]) \/ \E o : JobMade(o, d))
  BY <1>4 DEF CpHyp, CpChange, Is
<1>6. ASSUME NEW o, JobMade(o, d) PROVE tree'[d] = File(before[s].body)
  <2>1. o \in WrittenTo(d) /\ tree'[d] = File(Body(o))
    BY <1>4, <1>6, WrittenIs DEF JobMade, Is
  <2> QED BY <2>1, <1>1, <1>2, SourceIs
<1>7. Is("file", d)' /\ tree'[d].body = before[s].body
  BY <1>4, <1>5, <1>6 DEF Is, File
<1> QED BY <1>2, <1>3, <1>7 DEF HasCopy, Is

(* A file that is copied is there then.                                    *)
LEMMA CopyDone ==
  ASSUME CpHyp, TreeTypeOK, NEW c \in Copies, NEW j \in Jobs, CopyFile(j[1], j[2]),
         j = c \/ (New(c) => Is("dir", Was(c[2])))
  PROVE  Copied(c, j)'
<1> SUFFICES ASSUME Ready(c, j)' PROVE HasCopy(j)'
  BY CopiedIs DEF Copied, Ready, HasCopy
<1>1. Ready(c, j)
  BY ReadyIs
<1>2. /\ OthersKept /\ NewDirs /\ SameLinks /\ UNCHANGED <<utility, before>>
      /\ before \in Forest /\ Typed(tree) /\ Rooted(tree)
  BY DEF CpHyp, CpTree
<1> PICK s : s = WasThrough(j[1])
  OBVIOUS
<1> PICK d : d = WasThrough(j[2])
  OBVIOUS
<1>3. s = WasThrough(j[1])' /\ d = WasThrough(j[2])'
  BY <1>2, SamePlaces
<1>4. /\ Is("file", s) /\ tree[s] = before[s] /\ ~Is("dir", s) /\ s # Guest /\ s \in DOMAIN tree
      /\ ~WasIs("dir", d) /\ d # Guest /\ WrittenTo(s) = {}
      /\ \A o \in WrittenTo(d) : WasThrough(o[1]) = s
      /\ Lasting(Front(d)) \/ (Front(d) = Was(c[2]) /\ New(c))
  BY <1>1, <1>2, SourceIs DEF Ready, Is
<1>5. ~Is("dir", d)
  BY <1>2, <1>4 DEF NewDirs, Is
<1>6. Is("dir", Front(d))
  <2>1. CASE Lasting(Front(d))
    BY <2>1, <1>2, LastingIs
  <2>2. CASE Front(d) = Was(c[2]) /\ New(c) /\ j # c
    BY <2>2
  <2>3. CASE Front(d) = Was(c[2]) /\ New(c) /\ j = c
    <3>1. c[2] \in Path
      BY JobsAre
    <3>2. Was(c[2]) = d /\ d \in Path
      BY <2>3, <3>1, <1>2, PlaceIs DEF New
    <3> QED BY <2>3, <3>2, FrontLast
  <2> QED BY <1>4, <2>1, <2>2, <2>3
<1>7. s # d
  BY <1>4, WrittenIs
<1>8. Through(j[1]) = s /\ Through(j[2]) = d
  BY <1>2, JobsAre, NowIs
<1>9. tree' = Put(d, File(before[s].body))
  BY <1>4, <1>5, <1>6, <1>7, <1>8 DEF CopyFile
<1>10. d \in DOMAIN tree' /\ tree'[d] = File(before[s].body)
  BY <1>9 DEF Put
<1> QED BY <1>2, <1>3, <1>10 DEF HasCopy, Is, File

(* A directory that is to be made is there then.                           *)
LEMMA DirDone ==
  ASSUME CpHyp, TreeTypeOK, NEW c \in Copies, MakeDir(c[2]), Lasting(WasThrough(c[1])), New(c)'
  PROVE  Is("dir", Was(c[2]))'
<1>1. /\ OthersKept /\ NewFiles /\ SameLinks /\ UNCHANGED <<utility, before>>
      /\ before \in Forest /\ Typed(tree) /\ Rooted(tree)
      /\ \A r \in DOMAIN tree \ {Guest} : r \in DOMAIN tree' /\ (Is("dir", r) => Is("dir", r)')
  BY DEF CpHyp, CpTree, CpChange
<1> PICK d : d = Was(c[2])
  OBVIOUS
<1>2. Was(c[2])' = d
  BY <1>1, SamePlaces
<1>3. /\ d = WasThrough(c[2]) /\ d \notin DOMAIN before /\ d # Guest
      /\ Is("dir", Front(d)) /\ WrittenTo(d) = {c} /\ d \in Path
  BY NewIs
<1>4. At(c[2]) = d
  BY <1>1, JobsAre, NowIs
<1>5. CASE d \in DOMAIN tree
  <2>1. Is("dir", d)
    BY <1>1, <1>3, <1>5 DEF NewFiles
  <2>2. Is("dir", d)'
    BY <2>1, <1>1, <1>3, <1>5
  <2> QED BY <2>2, <1>2 DEF Is
<1>6. CASE d \notin DOMAIN tree
  <2>1. tree' = Put(d, Dir)
    BY <1>3, <1>4, <1>6 DEF MakeDir, CanMake, Vacant
  <2>2. d \in DOMAIN tree' /\ tree'[d] = Dir
    BY <2>1 DEF Put
  <2> QED BY <2>2, <1>2 DEF Is, Dir
<1> QED BY <1>5, <1>6

-------------------------------------------------------------------------------
(* The calls of cp, and the other process, change no more than that.       *)
CpBase ==
  /\ before \in Forest /\ Typed(tree) /\ Rooted(tree) /\ CpTree /\ TreeTypeOK
  /\ UNCHANGED <<utility, before>>

LEMMA PutChange ==
  ASSUME CpBase, NEW d, NEW node, NEW j, tree' = Put(d, node), node.kind # "link", ~Is("dir", d),
         d = Guest \/ JobMade(j, d)
  PROVE  CpChange
<1>1. /\ DOMAIN tree' = DOMAIN tree \cup {d} /\ tree'[d] = node
      /\ \A r \in DOMAIN tree' : r # d => tree'[r] = tree[r]
  BY DEF Put
<1>2. ~LinkIn(tree, Guest)
  BY BeforeIs DEF CpBase, CpTree, SameLinks, LinkIn
<1>3. \A r \in DOMAIN tree \ {Guest} : r \in DOMAIN tree' /\ (Is("dir", r) => Is("dir", r)')
  BY <1>1 DEF Is
<1>4. \A r \in DOMAIN tree' \ {Guest} : (r \in DOMAIN tree /\ tree'[r] = tree[r]) \/ \E o : JobMade(o, r)
  BY <1>1
<1>5. ~LinkIn(tree', Guest)
  BY <1>1, <1>2 DEF LinkIn
<1> QED BY <1>3, <1>4, <1>5 DEF CpChange

LEMMA SameChange ==
  ASSUME CpBase, tree' = tree
  PROVE  CpChange
<1>1. ~LinkIn(tree, Guest)
  BY BeforeIs DEF CpBase, CpTree, SameLinks, LinkIn
<1> QED BY <1>1 DEF CpChange, LinkIn, Is

LEMMA DirChange ==
  ASSUME CpBase, NEW j \in Jobs, MakeDir(j[2]), Is("dir", WasThrough(j[1]))
  PROVE  CpChange
<1> PICK d : d = At(j[2])
  OBVIOUS
<1>1. tree' = tree \/ (Vacant(d) /\ tree' = Put(d, Dir))
  BY DEF MakeDir, CanMake
<1>2. CASE Vacant(d) /\ tree' = Put(d, Dir)
  <2>1. j[2] \in Path
    BY JobsAre DEF CpBase
  <2>2. Through(j[2]) = d /\ Through(j[2]) = WasThrough(j[2])
    BY <1>2, <2>1, NowIs DEF CpBase, CpTree, Vacant, Through, Is
  <2>3. d \notin DOMAIN tree /\ ~Is("dir", d) /\ tree'[d] = Dir /\ Dir.kind # "link"
    BY <1>2 DEF Vacant, Is, Put, Dir
  <2>4. JobMade(j, d)
    BY <2>2, <2>3 DEF JobMade
  <2> QED BY <1>2, <2>3, <2>4, PutChange
<1> QED BY <1>1, <1>2, SameChange

LEMMA FileChange ==
  ASSUME CpBase, NEW j \in Jobs, CopyFile(j[1], j[2]), j \in Copies => ~Is("dir", WasThrough(j[1]))
  PROVE  CpChange
<1> PICK s : s = WasThrough(j[1])
  OBVIOUS
<1> PICK d : d = WasThrough(j[2])
  OBVIOUS
<1>1. Through(j[1]) = s /\ Through(j[2]) = d
  <2>1. j[1] \in Path /\ j[2] \in Path
    BY JobsAre DEF CpBase
  <2> QED BY <2>1, NowIs DEF CpBase, CpTree
<1>2. tree' = tree \/ (~Is("dir", d) /\ tree' = Put(d, File(Body(j))))
  BY <1>1 DEF CopyFile, Body
<1>3. CASE ~Is("dir", d) /\ tree' = Put(d, File(Body(j)))
  <2>1. tree'[d] = File(Body(j)) /\ File(Body(j)).kind # "link"
    BY <1>3 DEF Put, File
  <2>2. JobMade(j, d)
    BY <1>3, <2>1 DEF JobMade
  <2> QED BY <1>3, <2>1, <2>2, PutChange
<1> QED BY <1>2, <1>3, SameChange

LEMMA GuestChange ==
  ASSUME CpBase, Tool({"cp"}), Meddle
  PROVE  CpChange
<1>1. CASE GuestMade
  <2> PICK node : Made(Guest, node) /\ (node.kind = "link" => Tool({"rm"}))
    BY <1>1 DEF GuestMade
  <2>1. tree' = Put(Guest, node) /\ ~Is("dir", Guest) /\ node.kind # "link"
    BY DEF Made, Tool
  <2> QED BY <2>1, PutChange
<1>2. CASE Removed(Guest)
  <2>1. DOMAIN tree' = DOMAIN tree \ {Guest} /\ \A r \in DOMAIN tree' : tree'[r] = tree[r]
    BY <1>2, WithoutLeaf DEF Removed, CpBase
  <2> QED BY <2>1 DEF CpChange, LinkIn, Is
<1> QED BY <1>1, <1>2, MeddleChanges DEF CpBase

-------------------------------------------------------------------------------
(* What was copied stays so.                                               *)
LEMMA EachStays ==
  ASSUME CpHyp, TreeTypeOK, NEW i \in 1..Operands
  PROVE  /\ OperandCopied(i) => OperandCopied(i)'
         /\ \A n \in Name : PartCopied(i, n) => PartCopied(i, n)'
         /\ DirMade(i) => DirMade(i)'
<1> PICK c : c = Copy(i)
  OBVIOUS
<1>1. /\ UNCHANGED <<utility, before>>
      /\ \A r \in DOMAIN tree \ {Guest} : r \in DOMAIN tree' /\ (Is("dir", r) => Is("dir", r)')
  BY DEF CpHyp, CpChange
<1>2. Copy(i)' = c /\ c \in Copies
  BY <1>1, SamePlaces, JobsAre
<1>3. OperandCopied(i) => OperandCopied(i)'
  <2>1. Copied(c, c) => Copied(c, c)'
    BY <1>2, CopiedStays
  <2>2. OperandCopied(i)' = Copied(c, c)'
    BY <1>2 DEF OperandCopied, Copied, WasThrough, WasIs, Was, Lasting, New
  <2> QED BY <2>1, <2>2 DEF OperandCopied
<1>4. ASSUME NEW n \in Name, PartCopied(i, n) PROVE PartCopied(i, n)'
  <2> PICK j : j = Part(c, n)
    OBVIOUS
  <2>1. Part(Copy(i), n)' = j
    BY <1>2 DEF Part
  <2>2. Copied(c, j)'
    BY <1>2, <1>4, CopiedStays DEF PartCopied
  <2> QED BY <2>1, <2>2, <1>2 DEF PartCopied, Copied, WasThrough, WasIs, Was, Lasting, New
<1>5. ASSUME DirMade(i) PROVE DirMade(i)'
  <2>1. /\ (utility.recursive /\ Lasting(WasThrough(c[1])) /\ New(c) => Is("dir", Was(c[2])))
        /\ DirMade(i)' = (utility'.recursive /\ Lasting(WasThrough(c[1]))' /\ New(c)' => Is("dir", Was(c[2]))')
    BY <1>2, <1>5 DEF DirMade, Lasting, WasIs, WasThrough, Was, New, Is
  <2>2. SUFFICES ASSUME utility'.recursive, Lasting(WasThrough(c[1]))', New(c)' PROVE Is("dir", Was(c[2]))'
    BY <2>1
  <2>3. Lasting(WasThrough(c[1])) /\ utility.recursive
    BY <2>2, <1>1 DEF Lasting, WasIs, WasThrough, Was
  <2>4. New(c) /\ Was(c[2]) # Guest
    BY <2>2, <1>2, NewIs
  <2> PICK d : d = Was(c[2])
    OBVIOUS
  <2>5. Is("dir", d) /\ d \in DOMAIN tree \ {Guest}
    BY <2>1, <2>3, <2>4 DEF Is
  <2>6. Is("dir", d)' /\ Was(c[2])' = d
    BY <2>5, <1>1, SamePlaces
  <2> QED BY <2>6 DEF Is
<1> QED BY <1>3, <1>4, <1>5

LEMMA Earlier ==
  ASSUME NEW a \in Nat, NEW o \in Nat, a <= o + 1
  PROVE  \A i \in 1..(a - 1) : i \in 1..o
OBVIOUS

LEMMA AllStay ==
  ASSUME CpHyp, TreeTypeOK, TreeTypeOK',
         \A i \in 1..(arg' - 1) : i \in 1..Operands =>
           /\ OperandCopied(i) \/ OperandCopied(i)'
           /\ DirMade(i) \/ DirMade(i)'
           /\ \A n \in Name : utility.recursive /\ DoneWith(i, n)' => PartCopied(i, n) \/ PartCopied(i, n)'
  PROVE  AllCopied'
<1>1. UNCHANGED <<utility, before>>
  BY DEF CpHyp
<1>2. Operands' = Operands /\ Operands \in Nat
  BY <1>1, SameCommand, Commands
<1>3. arg' \in Nat /\ arg' <= Operands + 1
  <2>1. arg' \in Nat \ {0} /\ arg' <= Operands' + 1
    BY DEF TreeTypeOK
  <2> QED BY <2>1, <1>2
<1>4. \A i \in 1..(arg' - 1) : i \in 1..Operands
  BY <1>2, <1>3, Earlier
<1>5. \A i \in 1..(arg' - 1) :
        /\ OperandCopied(i)' /\ DirMade(i)'
        /\ \A n \in Name : utility.recursive /\ DoneWith(i, n)' => PartCopied(i, n)'
  BY <1>4, EachStays
<1> QED BY <1>1, <1>5 DEF AllCopied

-------------------------------------------------------------------------------
(* The steps of cp.                                                        *)
CpStepHyp ==
  /\ TreeTypeOK /\ Rooted(tree) /\ CpInv /\ TreeTypeOK' /\ UNCHANGED <<utility, before>>

LEMMA CpStart ==
  ASSUME CpStepHyp
  PROVE  CpBase /\ CpTree /\ CpWalk /\ (CpChange => CpHyp)
BY Commands DEF CpStepHyp, CpBase, CpHyp, CpInv, TreeTypeOK

LEMMA CpQuiet ==
  ASSUME CpStepHyp, Tool({"cp"}), UNCHANGED treeVars \/ Start \/ Finish
  PROVE  CpInv'
<1>1. CpBase /\ CpTree /\ CpWalk /\ (CpChange => CpHyp)
  BY CpStart
<1>2. tree' = tree /\ arg' = arg /\ walk' = walk /\ UNCHANGED <<utility, before>>
  BY DEF CpStepHyp, Start, Finish, files, treeVars
<1>3. CpHyp /\ TreeTypeOK /\ TreeTypeOK' /\ CpInv
  BY <1>1, <1>2, SameChange DEF CpStepHyp
<1>4. CpTree'
  BY <1>3, CpTreeStays
<1>5. /\ \A p : WasThrough(p)' = WasThrough(p) /\ Into(p)' = Into(p)
      /\ \A k, q : WasIs(k, q)' <=> WasIs(k, q)
      /\ Dest' = Dest
  BY <1>2, SamePlaces, SameCommand
<1>6. CpWalk'
  BY <1>1, <1>2, <1>5 DEF CpWalk, Top
<1>7. \A i, n : DoneWith(i, n)' <=> DoneWith(i, n)
  BY <1>2 DEF DoneWith, Top
<1>8. WasIs("dir", WasThrough(Dest))' <=> WasIs("dir", WasThrough(Dest))
  BY <1>2 DEF WasIs, WasThrough, Was, Dest
<1>9. CASE UNCHANGED treeVars \/ Finish
  <2>1. /\ pc' = "start" => pc = "start"
        /\ pc' # "start" => pc # "start"
        /\ intoDir' = intoDir
    BY <1>9 DEF treeVars, Finish
  <2>2. pc # "start" => AllCopied'
    <3>1. SUFFICES ASSUME pc # "start" PROVE AllCopied'
      OBVIOUS
    <3>2. AllCopied
      BY <3>1, <1>3 DEF CpInv
    <3> QED BY <3>2, <1>2, <1>3, <1>7, AllStay DEF AllCopied
  <2> QED BY <2>1, <2>2, <1>2, <1>3, <1>4, <1>6, <1>8 DEF CpInv
<1>10. CASE Start
  <2>1. pc = "start" /\ arg = 1 /\ tree = before /\ walk = << >>
    BY <1>3, <1>10 DEF Start, CpInv
  <2>2. (intoDir' <=> WasIs("dir", WasThrough(Dest))) /\ pc' # "start"
    <3>1. Dest \in Path
      BY <1>3, Commands
    <3>2. Through(Dest) = WasThrough(Dest)
      BY <3>1, <1>1, NowIs DEF CpBase, CpTree
    <3>3. Tool({"cp", "mv"}) /\ intoDir' = (Tool({"cp", "mv"}) /\ Is("dir", Through(Dest)))
      BY <1>10 DEF Start, Tool
    <3>4. Is("dir", Through(Dest)) <=> WasIs("dir", WasThrough(Dest))
      BY <2>1, <3>2 DEF Is, WasIs
    <3>5. intoDir' <=> WasIs("dir", WasThrough(Dest))
      BY <3>3, <3>4, Zenon
    <3> QED BY <3>5, <1>10 DEF Start
  <2>3. AllCopied'
    <3>1. 1..(arg' - 1) = {}
      BY <1>2, <2>1
    <3> QED BY <3>1 DEF AllCopied
  <2> QED BY <2>2, <2>3, <1>4, <1>6, <1>8 DEF CpInv
<1> QED BY <1>9, <1>10

LEMMA CpMeddle ==
  ASSUME CpStepHyp, Tool({"cp"}), Meddle
  PROVE  CpInv'
<1>1. CpBase /\ CpTree /\ CpWalk /\ (CpChange => CpHyp)
  BY CpStart
<1>2. arg' = arg /\ walk' = walk /\ UNCHANGED <<utility, before, pc, intoDir>> /\ pc # "start"
  BY DEF Meddle
<1>3. CpHyp /\ TreeTypeOK /\ TreeTypeOK' /\ CpInv
  BY <1>1, GuestChange DEF CpStepHyp
<1>4. CpTree'
  BY <1>3, CpTreeStays
<1>5. \A p : WasThrough(p)' = WasThrough(p) /\ Into(p)' = Into(p)
  BY <1>2, SamePlaces
<1>6. CpWalk'
  <2>1. DOMAIN tree \cup {Guest} \subseteq DOMAIN tree' \cup {Guest}
    BY <1>3 DEF CpHyp, CpChange
  <2>2. Top' = Top
    BY <1>2 DEF Top
  <2> QED BY <1>1, <1>2, <1>5, <2>1, <2>2 DEF CpWalk
<1>7. \A i, n : DoneWith(i, n)' <=> DoneWith(i, n)
  BY <1>2 DEF DoneWith, Top
<1>8. WasIs("dir", WasThrough(Dest))' <=> WasIs("dir", WasThrough(Dest))
  BY <1>2 DEF WasIs, WasThrough, Was, Dest
<1>9. AllCopied'
  <2>1. AllCopied
    BY <1>2, <1>3 DEF CpInv
  <2> QED BY <2>1, <1>2, <1>3, <1>7, AllStay DEF AllCopied
<1> QED BY <1>2, <1>3, <1>4, <1>6, <1>8, <1>9 DEF CpInv

(* Nothing is to be copied from where no file was.                         *)
LEMMA NoFile ==
  ASSUME CpHyp, TreeTypeOK, NEW c \in Copies, NEW j, Is("dir", WasThrough(j[1]))
  PROVE  Copied(c, j)'
<1> SUFFICES ASSUME Ready(c, j)' PROVE FALSE
  BY CopiedIs DEF Copied, Ready, HasCopy
<1>1. Ready(c, j)
  BY ReadyIs
<1> QED BY <1>1, SourceIs DEF CpHyp, CpTree

(* A part that may have to be copied is in the directory.                  *)
LEMMA PartIs ==
  ASSUME CpHyp, TreeTypeOK, NEW c \in Copies, NEW n \in Name, Ready(c, Part(c, n))
  PROVE  LET e == Append(WasThrough(c[1]), n) IN
           /\ e \in DOMAIN tree \ {Guest} /\ e = Was(Append(c[1], n))
           /\ Lasting(WasThrough(c[1])) /\ Is("dir", WasThrough(c[1])) /\ n \in Children(WasThrough(c[1]))
<1> DEFINE src == Append(c[1], n)
           e == Append(WasThrough(c[1]), n)
<1>1. /\ before \in Forest /\ OthersKept /\ Typed(before) /\ Rooted(before) /\ ~LinkIn(before, Guest)
  BY BeforeIs DEF CpHyp, CpTree
<1>2. c[1] \in Path /\ src \in Path
  BY JobsAre, Inwards
<1>3. WasIs("file", WasThrough(src)) /\ WasThrough(src) # Guest /\ WasThrough(c[1]) # Guest
  BY DEF Ready, Part
<1>4. Was(src) \in DOMAIN before
  <2>1. Was(src) \notin DOMAIN before => WasThrough(src) = Was(src)
    BY <1>1, <1>2, PlaceIs
  <2> QED BY <2>1, <1>3 DEF WasIs
<1>5. Was(src) = e
  BY <1>1, <1>2, <1>4, EntryIs
<1>6. Was(src) # Guest
  <2>1. Was(src) = Guest => WasThrough(src) = Guest
    BY <1>1 DEF WasThrough, WasIs, LinkIn
  <2> QED BY <2>1, <1>3
<1>7. WasThrough(c[1]) \in Seq(Name)
  BY <1>1, <1>2, PlaceIs
<1>8. e \in Path /\ Front(e) = WasThrough(c[1]) /\ Last(e) = n /\ e # << >>
  BY <1>7, AppendIs
<1>9. WasIs("dir", WasThrough(c[1]))
  <2> PICK y : y = e
    OBVIOUS
  <2>1. y \in Path /\ y \in DOMAIN before /\ Front(y) = WasThrough(c[1])
    BY <1>4, <1>5, <1>8
  <2>2. Front(y) = SubSeq(y, 1, Len(y) - 1) /\ Len(y) - 1 \in 0..(Len(y) - 1)
    BY <2>1, FrontIs
  <2> QED BY <2>1, <2>2, <1>1, OnTheWay DEF WasIs
<1>10. Lasting(WasThrough(c[1])) /\ Is("dir", WasThrough(c[1]))
  BY <1>1, <1>3, <1>9, LastingIs DEF Lasting
<1>11. e \in DOMAIN tree \ {Guest}
  BY <1>1, <1>4, <1>5, <1>6 DEF OthersKept
<1>12. n \in Children(WasThrough(c[1]))
  BY <1>8, <1>11 DEF Children
<1> QED BY <1>5, <1>10, <1>11, <1>12

LEMMA CpNextOperand ==
  ASSUME CpStepHyp, Tool({"cp"}), Operand
  PROVE  CpInv'
<1>1. CpBase /\ CpTree /\ CpWalk /\ (CpChange => CpHyp) /\ TreeTypeOK /\ TreeTypeOK'
  BY CpStart DEF CpStepHyp
<1>2. /\ arg' = arg + 1 /\ UNCHANGED <<utility, before, pc, intoDir>> /\ pc = "run" /\ walk = << >>
      /\ arg \in 1..Operands /\ arg \in Nat \ {0} /\ CpOperand(utility.args[arg], walk)
  <2>1. arg \in Nat \ {0} /\ Operands \in Nat
    BY <1>1, Commands DEF TreeTypeOK
  <2>2. /\ arg' = arg + 1 /\ UNCHANGED <<utility, before, pc, intoDir>> /\ pc = "run" /\ walk = << >>
        /\ arg <= Operands
    BY DEF Operand
  <2>3. CpOperand(utility.args[arg], walk)
    BY DEF Operand, Tool
  <2> QED BY <2>1, <2>2, <2>3
<1>3. (intoDir <=> WasIs("dir", WasThrough(Dest))) /\ AllCopied
  BY <1>2 DEF CpStepHyp, CpInv
<1> PICK c : c = Copy(arg)
  OBVIOUS
<1>4. c \in Copies /\ c \in Jobs /\ c[1] = utility.args[arg] /\ c[2] = Into(utility.args[arg]) /\ c[1] \in Path /\ c[2] \in Path
  BY <1>1, <1>2, JobsAre DEF Jobs
<1>5. Target(c[1]) = c[2]
  BY <1>3, <1>4 DEF Target, Into
<1>6. Through(c[1]) = WasThrough(c[1])
  BY <1>1, <1>4, NowIs DEF CpBase, CpTree
<1> DEFINE dir == Is("dir", WasThrough(c[1]))
<1>7. \/ dir /\ utility.recursive /\ walk' = Append(walk, Opened(c[1], c[2])) /\ MakeDir(c[2])
      \/ dir /\ ~utility.recursive /\ walk' = walk /\ tree' = tree
      \/ ~dir /\ walk' = walk /\ CopyFile(c[1], c[2])
  BY <1>2, <1>4, <1>5, <1>6 DEF CpOperand, Enter, Stay
<1>8. CpHyp
  <2>1. CpChange
    BY <1>1, <1>4, <1>7, SameChange, DirChange, FileChange
  <2> QED BY <2>1, <1>1
<1>9. CpTree'
  BY <1>1, <1>8, CpTreeStays
<1>10. \A i : Copy(i)' = Copy(i)
  BY <1>2, SamePlaces
<1>11. Copied(c, c)'
  <2>1. CASE dir
    BY <2>1, <1>1, <1>4, <1>8, NoFile
  <2>2. CASE ~dir
    BY <2>2, <1>1, <1>4, <1>7, <1>8, CopyDone
  <2> QED BY <2>1, <2>2
<1>12. utility.recursive /\ Lasting(WasThrough(c[1])) /\ New(c)' => Is("dir", Was(c[2]))'
  <2>1. SUFFICES ASSUME utility.recursive, Lasting(WasThrough(c[1])), New(c)' PROVE Is("dir", Was(c[2]))'
    OBVIOUS
  <2>2. dir
    BY <2>1, <1>1, LastingIs DEF CpBase, CpTree
  <2> QED BY <2>1, <2>2, <1>1, <1>4, <1>7, <1>8, DirDone
<1>13. ASSUME NEW n \in Name, utility.recursive, walk' = walk PROVE Copied(c, Part(c, n))'
  <2> PICK j : j = Part(c, n)
    OBVIOUS
  <2>1. SUFFICES ASSUME Ready(c, j)' PROVE FALSE
    BY CopiedIs DEF Copied, Ready, HasCopy, Part
  <2>2. Ready(c, j)
    BY <2>1, <1>1, <1>4, <1>8, ReadyIs
  <2>3. dir
    BY <2>2, <1>1, <1>4, <1>8, PartIs
  <2>4. walk' # walk
    BY <2>3, <1>2, <1>7, <1>13
  <2> QED BY <2>4, <1>13
<1>14. AllCopied'
  <2>1. ASSUME NEW i \in 1..(arg' - 1), i \in 1..Operands
        PROVE  /\ OperandCopied(i) \/ OperandCopied(i)'
               /\ DirMade(i) \/ DirMade(i)'
               /\ \A n \in Name : utility.recursive /\ DoneWith(i, n)' => PartCopied(i, n) \/ PartCopied(i, n)'
    <3>1. CASE i \in 1..(arg - 1)
      <4>1. \A n \in Name : DoneWith(i, n)
        BY <1>2 DEF DoneWith
      <4> QED BY <4>1, <3>1, <1>3 DEF AllCopied
    <3>2. CASE i = arg
      <4>1. Copy(i)' = c /\ Copy(i) = c
        BY <3>2, <1>10
      <4>2. OperandCopied(i)'
        BY <4>1, <1>2, <1>11 DEF OperandCopied, Copied, WasThrough, WasIs, Was, Lasting, New
      <4>3. DirMade(i)'
        BY <4>1, <1>2, <1>12 DEF DirMade, New, Is, WasThrough, WasIs, Was, Lasting
      <4>4. ASSUME NEW n \in Name, utility.recursive, DoneWith(i, n)' PROVE PartCopied(i, n)'
        <5>1. walk' = walk
          <6>1. SUFFICES ASSUME walk' # walk PROVE FALSE
            OBVIOUS
          <6>2. walk' = <<Opened(c[1], c[2])>>
            BY <6>1, <1>2, <1>7
          <6>3. Top'.seen = {}
            BY <6>2 DEF Top, Opened
          <6> QED BY <6>2, <6>3, <4>4, <3>2, <1>2 DEF DoneWith
        <5>2. Copied(c, Part(c, n))'
          BY <5>1, <4>4, <1>13
        <5> QED BY <5>2, <4>1, <1>2, SMTT(30) DEF PartCopied, Part, Copied, WasThrough, WasIs, Was, Lasting, New
      <4> QED BY <4>2, <4>3, <4>4
    <3> QED BY <3>1, <3>2, <1>2
  <2> QED BY <2>1, <1>1, <1>8, AllStay
<1>15. CpWalk'
  <2>1. CASE walk' = walk
    BY <2>1, <1>2 DEF CpWalk
  <2>2. CASE walk' = Append(walk, Opened(c[1], c[2])) /\ utility.recursive
    <3>1. walk' = <<Opened(c[1], c[2])>>
      BY <2>2, <1>2
    <3>2. Len(walk') = 1 /\ Top' = Opened(c[1], c[2])
      BY <3>1 DEF Top
    <3>3. arg' - 1 = arg
      BY <1>2
    <3>5. Into(utility.args[arg - 1])' = c[2]
      BY <1>2, <1>4, <3>3 DEF Into, WasIs, WasThrough, Was, Dest
    <3>6. /\ Top'.path = c[1] /\ Top'.at = Through(c[1]) /\ Top'.to = c[2] /\ Top'.buf = {} /\ Top'.seen = {}
      BY <3>2 DEF Opened
    <3>7. Top'.at = WasThrough(Top.path)'
      BY <3>6, <1>2, <1>6 DEF WasThrough, WasIs, Was
    <3> QED BY <2>2, <3>2, <3>3, <3>5, <3>6, <3>7, <1>2, <1>4 DEF CpWalk
  <2> QED BY <2>1, <2>2, <1>7
<1>16. WasIs("dir", WasThrough(Dest))' <=> WasIs("dir", WasThrough(Dest))
  BY <1>2 DEF WasIs, WasThrough, Was, Dest
<1>17. pc' = "run" /\ (intoDir' <=> WasIs("dir", WasThrough(Dest))')
  BY <1>2, <1>3, <1>16, Zenon
<1> QED BY <1>9, <1>14, <1>15, <1>17 DEF CpInv

-------------------------------------------------------------------------------
(* Where cp is when a directory is open.                                   *)
LEMMA WhereCpIs ==
  ASSUME TreeTypeOK, CpInv, walk # << >>, pc # "start"
  PROVE  /\ arg - 1 \in 1..Operands /\ arg - 1 \in 1..(arg - 1) /\ Copy(arg - 1) \in Copies
         /\ Top.path = Copy(arg - 1)[1] /\ Top.to = Copy(arg - 1)[2] /\ Top.path \in Path
         /\ Top.at = WasThrough(Top.path)
         /\ Len(walk) = 1 /\ walk \in Seq(Frame) /\ utility.recursive /\ Top.buf \subseteq Top.seen /\ Top.seen \subseteq Name
         /\ \A n \in Top.seen : Append(WasThrough(Top.path), n) \in DOMAIN tree \cup {Guest}
         /\ \A i \in 1..(arg - 1), n \in Name : i # arg - 1 => DoneWith(i, n)
<1>1. arg - 1 \in 1..Operands /\ walk \in Seq(Frame) /\ Top.path \in Path /\ Top.seen \subseteq Name
  BY Tops
<1>2. Copy(arg - 1) \in Copies /\ Copy(arg - 1)[1] = utility.args[arg - 1] /\ Copy(arg - 1)[2] = Into(utility.args[arg - 1])
  BY <1>1, JobsAre
<1>3. CpWalk
  BY DEF CpInv
<1>4. arg - 1 \in 1..(arg - 1)
  BY <1>1
<1> QED BY <1>1, <1>2, <1>3, <1>4 DEF CpWalk, DoneWith

(* The frame of the open directory changes to one that goes with it.       *)
LEMMA WalkOn ==
  ASSUME TreeTypeOK, CpInv, walk # << >>, pc # "start", UNCHANGED <<utility, before, arg>>,
         \A r \in DOMAIN tree \ {Guest} : r \in DOMAIN tree',
         NEW S, NEW T, S \subseteq T, T \subseteq Name,
         \A n \in T : Append(WasThrough(Top.path), n) \in DOMAIN tree \cup {Guest},
         walk' = [walk EXCEPT ![Len(walk)].buf = S, ![Len(walk)].seen = T]
  PROVE  CpWalk' /\ walk' # << >> /\ Top'.buf = S /\ Top'.seen = T
<1>1. Len(walk) = 1 /\ walk \in Seq(Frame) /\ utility.recursive
  BY WhereCpIs
<1>2. Top \in Frame
  BY Tops
<1>3. walk' = <<[Top EXCEPT !.buf = S, !.seen = T]>>
  <2>1. walk = <<Top>>
    BY <1>1 DEF Top
  <2> PICK f : f = Top
    OBVIOUS
  <2>2. walk = <<f>> /\ walk' = [walk EXCEPT ![1].buf = S, ![1].seen = T]
    BY <2>1, <1>1
  <2>3. walk' = <<[f EXCEPT !.buf = S, !.seen = T]>>
    BY <2>2, <1>2 DEF Frame
  <2> QED BY <2>3
<1>4. walk' # << >> /\ Len(walk') = 1 /\ Top' = [Top EXCEPT !.buf = S, !.seen = T]
  BY <1>3 DEF Top
<1>5. Top'.buf = S /\ Top'.seen = T /\ Top'.path = Top.path /\ Top'.to = Top.to /\ Top'.at = Top.at
  BY <1>2, <1>4 DEF Frame
<1>6. Top.path = utility.args[arg - 1] /\ Top.to = Into(utility.args[arg - 1]) /\ Top.at = WasThrough(Top.path)
  BY DEF CpInv, CpWalk
<1>7. Into(utility.args[arg - 1])' = Into(utility.args[arg - 1])
  BY DEF Into, WasIs, WasThrough, Was, Dest
<1>8. \A n \in T : Append(WasThrough(Top.path)', n) \in DOMAIN tree' \cup {Guest}
  BY <1>5 DEF WasThrough, WasIs, Was
<1>9. Top'.at = WasThrough(Top.path)'
  BY <1>5, <1>6 DEF WasThrough, WasIs, Was
<1> QED BY <1>1, <1>4, <1>5, <1>6, <1>7, <1>8, <1>9 DEF CpWalk

LEMMA CpFill ==
  ASSUME CpStepHyp, Tool({"cp"}), Fill
  PROVE  CpInv'
<1>1. CpBase /\ CpTree /\ CpWalk /\ (CpChange => CpHyp) /\ TreeTypeOK /\ TreeTypeOK' /\ CpInv
  BY CpStart DEF CpStepHyp
<1>2. /\ arg' = arg /\ tree' = tree /\ UNCHANGED <<utility, before, pc, intoDir>>
      /\ pc = "run" /\ walk # << >> /\ Top.buf = {}
  BY DEF Fill, files
<1> PICK S \in SUBSET Unseen : walk' = [walk EXCEPT ![Len(walk)].buf = S, ![Len(walk)].seen = @ \cup S]
  BY DEF Fill
<1>3. (intoDir <=> WasIs("dir", WasThrough(Dest))) /\ AllCopied
  BY <1>1, <1>2 DEF CpInv
<1>4. CpHyp
  BY <1>1, <1>2, SameChange
<1>5. CpTree'
  BY <1>1, <1>4, CpTreeStays
<1> DEFINE T == Top.seen \cup S
<1>6. walk' = [walk EXCEPT ![Len(walk)].buf = S, ![Len(walk)].seen = T]
  BY <1>1, <1>2, WhereCpIs DEF Top
<1>7. S \subseteq Name /\ S \cap Top.seen = {} /\ S \subseteq Children(Top.at)
  <2>1. Children(Top.at) \subseteq Name
    BY ChildrenAreNames DEF CpStepHyp, TreeTypeOK
  <2> QED BY <2>1 DEF Unseen
<1>8. Top.at = WasThrough(Top.path)
  BY <1>1, <1>2, WhereCpIs
<1>9. \A n \in T : Append(WasThrough(Top.path), n) \in DOMAIN tree \cup {Guest}
  <2>1. TAKE n \in T
  <2>2. CASE n \in Top.seen
    BY <2>2, <1>1, <1>2, WhereCpIs
  <2>3. CASE n \in S
    <3>1. n \in Children(WasThrough(Top.path))
      BY <2>3, <1>7, <1>8
    <3> PICK r \in DOMAIN tree : r # << >> /\ Front(r) = WasThrough(Top.path) /\ n = Last(r)
      BY <3>1 DEF Children
    <3>2. r \in Path
      BY DEF CpStepHyp, TreeTypeOK, Typed, Path
    <3> QED BY <3>2, FrontLast
  <2> QED BY <2>2, <2>3
<1>10. T \subseteq Name /\ S \subseteq T
  BY <1>1, <1>2, <1>7, WhereCpIs
<1> HIDE DEF T
<1>11. CpWalk' /\ walk' # << >> /\ Top'.buf = S /\ Top'.seen = T
  <2>1. \A r \in DOMAIN tree \ {Guest} : r \in DOMAIN tree'
    BY <1>2
  <2>2. UNCHANGED <<utility, before, arg>> /\ pc # "start"
    BY <1>2
  <2> QED BY <2>1, <2>2, <1>1, <1>2, <1>6, <1>9, <1>10, WalkOn
<1>12. Top'.seen \ Top'.buf = Top.seen \ Top.buf
  BY <1>2, <1>7, <1>11 DEF T
<1>13. \A i, n : DoneWith(i, n)' <=> DoneWith(i, n)
  BY <1>2, <1>11, <1>12 DEF DoneWith
<1>14. AllCopied'
  BY <1>1, <1>2, <1>3, <1>4, <1>13, AllStay DEF AllCopied
<1>15. WasIs("dir", WasThrough(Dest))' <=> WasIs("dir", WasThrough(Dest))
  BY <1>2 DEF WasIs, WasThrough, Was, Dest
<1>16. pc' = "run" /\ (intoDir' <=> WasIs("dir", WasThrough(Dest))')
  BY <1>2, <1>3, <1>15, Zenon
<1> QED BY <1>5, <1>11, <1>14, <1>16 DEF CpInv

LEMMA CpNextEntry ==
  ASSUME CpStepHyp, Tool({"cp"}), NextEntry
  PROVE  CpInv'
<1>1. CpBase /\ CpTree /\ CpWalk /\ (CpChange => CpHyp) /\ TreeTypeOK /\ TreeTypeOK' /\ CpInv
  BY CpStart DEF CpStepHyp
<1>2. arg' = arg /\ UNCHANGED <<utility, before, pc, intoDir>> /\ pc = "run" /\ walk # << >>
  BY DEF NextEntry
<1> PICK n \in Top.buf : CpEntry(Append(Top.path, n), Append(Top.to, n), [walk EXCEPT ![Len(walk)].buf = @ \ {n}])
  BY DEF NextEntry, Tool
<1>3. (intoDir <=> WasIs("dir", WasThrough(Dest))) /\ AllCopied
  BY <1>1, <1>2 DEF CpInv
<1> PICK k : k = arg - 1
  OBVIOUS
<1> PICK c : c = Copy(k)
  OBVIOUS
<1>4. /\ k \in 1..Operands /\ k \in 1..(arg - 1) /\ c \in Copies /\ Top.path = c[1] /\ Top.to = c[2]
      /\ Top.path \in Path /\ n \in Name /\ utility.recursive
      /\ Append(WasThrough(c[1]), n) \in DOMAIN tree \cup {Guest}
      /\ Top.buf \subseteq Top.seen /\ Top.seen \subseteq Name
      /\ Len(walk) = 1 /\ walk \in Seq(Frame)
      /\ \A i \in 1..(arg - 1), m \in Name : i # k => DoneWith(i, m)
  BY <1>1, <1>2, WhereCpIs
<1> PICK j : j = Part(c, n)
  OBVIOUS
<1>5. j \in Parts(c) /\ j \in Jobs /\ j \notin Copies /\ j[1] = Append(Top.path, n) /\ j[2] = Append(Top.to, n)
  <2>1. j \in Parts(c)
    BY <1>4 DEF Parts
  <2> QED BY <2>1, <1>1, <1>4, PartIsNoCopy, JobsAre DEF Jobs
<1>6. /\ walk' = [walk EXCEPT ![Len(walk)].buf = @ \ {n}]
      /\ IF Is("dir", At(j[1])) THEN MakeDir(j[2]) ELSE CopyFile(j[1], j[2])
  BY <1>5 DEF CpEntry, Stay
<1>7. Is("dir", At(j[1])) => Is("dir", WasThrough(j[1]))
  <2>1. Is("dir", At(j[1])) => Through(j[1]) = At(j[1])
    BY DEF Through, Is
  <2>2. Through(j[1]) = WasThrough(j[1])
    BY <1>1, <1>5, JobsAre, NowIs DEF CpBase, CpTree
  <2> QED BY <2>1, <2>2
<1>8. CpHyp
  <2>1. CpChange
    BY <1>1, <1>5, <1>6, <1>7, DirChange, FileChange
  <2> QED BY <2>1, <1>1
<1>9. CpTree'
  BY <1>1, <1>8, CpTreeStays
<1>10. Copied(c, j)'
  <2>1. CASE Is("dir", At(j[1]))
    BY <2>1, <1>1, <1>4, <1>7, <1>8, NoFile
  <2>2. CASE ~Is("dir", At(j[1]))
    <3> SUFFICES ASSUME Ready(c, j)' PROVE Copied(c, j)'
      BY CopiedIs DEF Copied, Ready, HasCopy
    <3>1. ASSUME New(c) PROVE Is("dir", Was(c[2]))
      <4>1. Ready(c, j)
        BY <1>1, <1>4, <1>8, ReadyIs
      <4>2. Lasting(WasThrough(c[1]))
        BY <4>1, <1>1, <1>4, <1>8, PartIs
      <4> QED BY <3>1, <4>2, <1>3, <1>4 DEF AllCopied, DirMade
    <3> QED BY <3>1, <2>2, <1>1, <1>4, <1>5, <1>6, <1>8, CopyDone
  <2> QED BY <2>1, <2>2
<1> DEFINE S == Top.buf \ {n}
<1>11. walk' = [walk EXCEPT ![Len(walk)].buf = S, ![Len(walk)].seen = Top.seen]
  <2>1. Top \in Frame /\ walk = <<Top>>
    BY <1>1, <1>2, <1>4, Tops DEF Top
  <2> PICK f : f = Top
    OBVIOUS
  <2>2. f \in Frame /\ walk = <<f>> /\ walk' = [walk EXCEPT ![1].buf = f.buf \ {n}]
    BY <2>1, <1>4, <1>6
  <2>3. walk' = <<[f EXCEPT !.buf = f.buf \ {n}]>>
    <3> PICK R : R = f.buf \ {n}
      OBVIOUS
    <3> PICK g : g = [f EXCEPT !.buf = R]
      OBVIOUS
    <3>1. g \in Frame
      <4>1. R \in SUBSET Name
        BY <2>2 DEF Frame
      <4> QED BY <2>2, <4>1 DEF Frame
    <3>2. walk' = [<<f>> EXCEPT ![1] = g]
      BY <2>2
    <3>3. f \in Frame /\ [<<f>> EXCEPT ![1] = g] = <<g>>
      BY <2>2, <3>1
    <3> QED BY <3>2, <3>3
  <2>4. [walk EXCEPT ![Len(walk)].buf = S, ![Len(walk)].seen = Top.seen] = <<[f EXCEPT !.buf = S, !.seen = f.seen]>>
    BY <2>2, <1>4 DEF Frame
  <2>5. [f EXCEPT !.buf = S, !.seen = f.seen] = [f EXCEPT !.buf = f.buf \ {n}]
    BY <2>2 DEF Frame
  <2> QED BY <2>3, <2>4, <2>5
<1> HIDE DEF S
<1>12. CpWalk' /\ walk' # << >> /\ Top'.buf = S /\ Top'.seen = Top.seen
  <2>1. \A r \in DOMAIN tree \ {Guest} : r \in DOMAIN tree'
    BY <1>8 DEF CpHyp, CpChange
  <2>2. \A m \in Top.seen : Append(WasThrough(Top.path), m) \in DOMAIN tree \cup {Guest}
    BY <1>1, <1>2, WhereCpIs
  <2>3. S \subseteq Top.seen
    BY <1>4 DEF S
  <2> QED BY <2>1, <2>2, <2>3, <1>1, <1>2, <1>4, <1>11, WalkOn
<1>13. AllCopied'
  <2>1. ASSUME NEW i \in 1..(arg' - 1), i \in 1..Operands
        PROVE  /\ OperandCopied(i) \/ OperandCopied(i)'
               /\ DirMade(i) \/ DirMade(i)'
               /\ \A m \in Name : utility.recursive /\ DoneWith(i, m)' => PartCopied(i, m) \/ PartCopied(i, m)'
    <3>1. i \in 1..(arg - 1) /\ OperandCopied(i) /\ DirMade(i)
      BY <1>2, <1>3 DEF AllCopied
    <3>2. ASSUME NEW m \in Name, DoneWith(i, m)' PROVE PartCopied(i, m) \/ PartCopied(i, m)'
      <4>1. CASE i = k /\ m = n
        <5>1. Copy(i)' = c
          BY <4>1, <1>2, SamePlaces
        <5> QED BY <5>1, <4>1, <1>2, <1>10, SMTT(30) DEF PartCopied, Part, Copied, WasThrough, WasIs, Was, Lasting, New
      <4>2. CASE i = k /\ m # n
        <5>1. m \in Top'.seen \ Top'.buf
          BY <3>2, <4>2, <1>2, <1>12 DEF DoneWith
        <5>2. DoneWith(i, m)
          BY <5>1, <4>2, <1>12 DEF DoneWith, S
        <5> QED BY <5>2, <3>1, <1>3, <1>4 DEF AllCopied
      <4>3. CASE i # k
        <5>1. DoneWith(i, m)
          BY <4>3, <3>1, <1>4
        <5> QED BY <5>1, <3>1, <1>3, <1>4 DEF AllCopied
      <4> QED BY <4>1, <4>2, <4>3
    <3> QED BY <3>1, <3>2
  <2> QED BY <2>1, <1>1, <1>8, AllStay
<1>14. WasIs("dir", WasThrough(Dest))' <=> WasIs("dir", WasThrough(Dest))
  BY <1>2 DEF WasIs, WasThrough, Was, Dest
<1>15. pc' = "run" /\ (intoDir' <=> WasIs("dir", WasThrough(Dest))')
  BY <1>2, <1>3, <1>14, Zenon
<1> QED BY <1>9, <1>12, <1>13, <1>15 DEF CpInv

LEMMA CpEndDirectory ==
  ASSUME CpStepHyp, Tool({"cp"}), EndDirectory
  PROVE  CpInv'
<1>1. CpBase /\ CpTree /\ CpWalk /\ (CpChange => CpHyp) /\ TreeTypeOK /\ TreeTypeOK' /\ CpInv
  BY CpStart DEF CpStepHyp
<1>2. /\ arg' = arg /\ UNCHANGED <<utility, before, pc, intoDir>> /\ pc = "run" /\ walk # << >> /\ Top.buf = {}
      /\ \A n \in Unseen : Append(Top.at, n) = Guest
      /\ walk' = Front(walk) /\ tree' = tree
  BY DEF EndDirectory, Tool, Stay, files
<1>3. (intoDir <=> WasIs("dir", WasThrough(Dest))) /\ AllCopied
  BY <1>1, <1>2 DEF CpInv
<1> PICK k : k = arg - 1
  OBVIOUS
<1> PICK c : c = Copy(k)
  OBVIOUS
<1>4. /\ k \in 1..Operands /\ k \in 1..(arg - 1) /\ c \in Copies /\ Top.path = c[1] /\ Top.path \in Path
      /\ Top.at = WasThrough(c[1]) /\ utility.recursive /\ Len(walk) = 1
      /\ \A i \in 1..(arg - 1), m \in Name : i # k => DoneWith(i, m)
  BY <1>1, <1>2, WhereCpIs
<1>5. walk' = << >>
  <2>1. Front(walk) \in Seq(Frame) /\ Len(Front(walk)) = Len(walk) - 1
    BY <1>1, <1>2, Tops
  <2> QED BY <2>1, <1>2, <1>4
<1>6. CpHyp
  BY <1>1, <1>2, SameChange
<1>7. CpTree'
  BY <1>1, <1>6, CpTreeStays
<1>8. ASSUME NEW n \in Name PROVE DoneWith(k, n) \/ Copied(c, Part(c, n))'
  <2> PICK j : j = Part(c, n)
    OBVIOUS
  <2>1. SUFFICES ASSUME ~DoneWith(k, n), Ready(c, j)' PROVE FALSE
    BY CopiedIs DEF Copied, Ready, HasCopy, Part
  <2>2. Ready(c, j)
    BY <2>1, <1>1, <1>4, <1>6, ReadyIs
  <2>3. n \in Children(WasThrough(c[1])) /\ Append(WasThrough(c[1]), n) # Guest
    BY <2>2, <1>1, <1>4, <1>6, PartIs
  <2>5. n \notin Top.seen
    BY <2>1, <1>2 DEF DoneWith
  <2> QED BY <2>3, <2>5, <1>2, <1>4 DEF Unseen
<1>9. AllCopied'
  <2>1. ASSUME NEW i \in 1..(arg' - 1), i \in 1..Operands
        PROVE  /\ OperandCopied(i) \/ OperandCopied(i)'
               /\ DirMade(i) \/ DirMade(i)'
               /\ \A m \in Name : utility.recursive /\ DoneWith(i, m)' => PartCopied(i, m) \/ PartCopied(i, m)'
    <3>1. i \in 1..(arg - 1) /\ OperandCopied(i) /\ DirMade(i)
      BY <1>2, <1>3 DEF AllCopied
    <3>2. ASSUME NEW m \in Name PROVE PartCopied(i, m) \/ PartCopied(i, m)'
      <4>1. CASE DoneWith(i, m)
        BY <4>1, <3>1, <1>3, <1>4 DEF AllCopied
      <4>2. CASE ~DoneWith(i, m)
        <5>1. i = k
          BY <4>2, <3>1, <1>4
        <5>2. Copied(c, Part(c, m))' /\ Copy(i)' = c
          BY <5>1, <4>2, <1>2, <1>8, SamePlaces
        <5> QED BY <5>2, <1>2, SMTT(30) DEF PartCopied, Part, Copied, WasThrough, WasIs, Was, Lasting, New
      <4> QED BY <4>1, <4>2
    <3> QED BY <3>1, <3>2
  <2> QED BY <2>1, <1>1, <1>6, AllStay
<1>10. CpWalk'
  BY <1>5 DEF CpWalk
<1>11. WasIs("dir", WasThrough(Dest))' <=> WasIs("dir", WasThrough(Dest))
  BY <1>2 DEF WasIs, WasThrough, Was, Dest
<1>12. pc' = "run" /\ (intoDir' <=> WasIs("dir", WasThrough(Dest))')
  BY <1>2, <1>3, <1>11, Zenon
<1> QED BY <1>7, <1>9, <1>10, <1>12 DEF CpInv

LEMMA CpStep ==
  ASSUME CpStepHyp, Tool({"cp"}), [TreeNext]_treeVars
  PROVE  CpInv'
<1>1. ~OneCall /\ ~RmCall
  BY DEF OneCall, Mv, Rmdir, Mkdir, LnRemoves, Ln, RmCall, Tool
<1> QED BY <1>1, CpQuiet, CpMeddle, CpNextOperand, CpFill, CpNextEntry, CpEndDirectory DEF TreeNext

LEMMA CpBegins ==
  ASSUME TreeInit
  PROVE  CpInv
<1>1. before \in Forest /\ tree = before /\ pc = "start" /\ arg = 1 /\ walk = << >>
  BY DEF TreeInit
<1>2. SameLinks /\ OthersKept
  BY <1>1 DEF SameLinks, OthersKept, Kept
<1>3. NewDirs /\ NewFiles
  BY <1>1 DEF NewDirs, NewFiles, Is, WasIs
<1> QED BY <1>1, <1>2, <1>3 DEF CpInv, CpTree, CpWalk

LEMMA InvCopies ==
  ASSUME TreeTypeOK, Tool({"cp"}) => CpInv, pc = "done" /\ Tool({"cp"}) => arg > Operands /\ walk = << >>
  PROVE  CopyFaithful
<1> SUFFICES ASSUME Tool({"cp"}) 
             PROVE  /\ \A q \in DOMAIN before \ {Guest} : WrittenTo(q) = {} \/ WasIs("dir", q) => Kept(q)
                    /\ pc = "done" => \A c \in Copies : \A j \in {c} \cup Parts(c) : Copied(c, j)
  BY DEF CopyFaithful
<1>1. \A q \in DOMAIN before \ {Guest} : WrittenTo(q) = {} \/ WasIs("dir", q) => Kept(q)
  BY DEF CpInv, CpTree, OthersKept
<1>2. ASSUME pc = "done", NEW c \in Copies, NEW j \in {c} \cup Parts(c) PROVE Copied(c, j)
  <2>1. AllCopied /\ arg > Operands /\ walk = << >> /\ arg <= Operands + 1 /\ Operands \in Nat /\ arg \in Nat
    BY <1>2, Commands DEF CpInv, TreeTypeOK
  <2> PICK i \in 1..Operands : c = Copy(i)
    BY DEF Copies, Args, Copy
  <2>2. i \in 1..(arg - 1)
    BY <2>1
  <2>3. CASE j = c
    BY <2>1, <2>2, <2>3 DEF AllCopied, OperandCopied
  <2>4. CASE j \in Parts(c)
    <3> PICK n \in Name : j = Part(c, n) /\ utility.recursive
      BY <2>4 DEF Parts
    <3>1. DoneWith(i, n)
      BY <2>1 DEF DoneWith
    <3> QED BY <3>1, <2>1, <2>2 DEF AllCopied, PartCopied
  <2> QED BY <2>3, <2>4
<1> QED BY <1>1, <1>2

-------------------------------------------------------------------------------
(* All the tools.                                                          *)
LEMMA Initially == TreeInit => TreeInv
<1> SUFFICES ASSUME TreeInit PROVE TreeInv
  OBVIOUS
<1>1. /\ utility \in TreeCommands /\ tree \in Forest /\ before = tree /\ before \in Forest
      /\ pc = "start" /\ arg = 1 /\ part = 0 /\ intoDir = FALSE /\ walk = << >>
      /\ ret = 0 /\ moved = << >> /\ meddled = 0
      /\ due = NothingDue /\ strayed = FALSE /\ missed = {}
  BY DEF TreeInit
<1>2. Typed(before) /\ Rooted(before) /\ ~LinkIn(before, Guest) /\ Guest \in Path
  BY <1>1, BeforeIs
<1>3. Operands \in Nat
  <2>1. utility.args \in Seq(Path) \ {<< >>}
    BY <1>1, CommandAssumption
  <2>2. Len(utility.args) \in Nat /\ Len(utility.args) > 0
    BY <2>1
  <2> QED BY <2>2 DEF Operands
<1>4. TreeTypeOK
  <2>1. << >> \in Seq(Frame) /\ << >> \in Seq(Path \X Path)
    OBVIOUS
  <2>2. Typed(tree) /\ arg <= Operands + 1
    BY <1>1, <1>2, <1>3
  <2>3. intoDir \in BOOLEAN
    BY <1>1, Zenon
  <2>4. /\ pc \in {"start", "run", "done"} /\ arg \in Nat \ {0} /\ part \in Nat
        /\ walk \in Seq(Frame) /\ ret \in {0, 1} /\ moved \in Seq(Path \X Path) /\ meddled \in Nat
    BY <1>1, <2>1
  <2>5. RemovalOK
    <3>1. NothingDue \in [call : {"none", "open", "unlink"}, path : Seq(Name)]
      BY DEF NothingDue, Due
    <3> QED BY <3>1, <1>1 DEF RemovalOK
  <2> QED BY <1>1, <2>2, <2>3, <2>4, <2>5, Zenon DEF TreeTypeOK
<1>5. Rooted(tree) /\ Completed
  BY <1>1, <1>2 DEF Completed
<1>6. \A q \in DOMAIN before : Kept(q)
  BY <1>1 DEF Kept
<1>7. OnlyRemoved /\ GoneWasNamed /\ OnlyMade /\ LosesNothing
  BY <1>1, <1>2, <1>6 DEF OnlyRemoved, GoneWasNamed, OnlyMade, LosesNothing, LinkIn
<1>8. OperandsGone /\ WalksOperand /\ OperandsMade /\ LinkMade
  BY <1>1 DEF OperandsGone, WalksOperand, DueReached, OperandsMade, LinkMade
<1>9. CpInv
  BY CpBegins
<1> QED BY <1>1, <1>4, <1>5, <1>7, <1>8, <1>9 DEF TreeInv

LEMMA CompletedStays ==
  ASSUME TreeTypeOK, UNCHANGED <<utility, before>>, Completed, [TreeNext]_treeVars
  PROVE  Completed'
<1>1. Operands' = Operands /\ (Tool({"cp"})' <=> Tool({"cp"})) /\ NothingDue' = NothingDue
  BY SameCommand DEF NothingDue, Due
<1>2. pc \in {"start", "run", "done"} /\ ret \in {0, 1} /\ arg \in Nat /\ Operands \in Nat
  BY Commands DEF TreeTypeOK
<1>3. CASE UNCHANGED treeVars
  BY <1>1, <1>3 DEF treeVars, Completed, Idle
<1>4. CASE Start
  <2>1. ~(Tool({"cp"}) /\ Tool({"mv"}))
    BY DEF Tool
  <2> QED BY <1>1, <1>4, <2>1 DEF Start, Completed
<1>5. CASE Finish
  BY <1>1, <1>2, <1>5 DEF Finish, Completed, Idle, removal
<1>6. CASE Operand \/ Fill \/ NextEntry \/ RmCall \/ EndDirectory \/ OneCall \/ Meddle
  BY <1>6 DEF Operand, Fill, NextEntry, RmCall, EndDirectory, OneCall, Meddle, Completed
<1> QED BY <1>3, <1>4, <1>5, <1>6 DEF TreeNext

LEMMA TreeStep == TreeInv /\ [TreeNext]_treeVars => TreeInv'
<1> SUFFICES ASSUME TreeInv, [TreeNext]_treeVars PROVE TreeInv'
  OBVIOUS
<1>1. TreeTypeOK /\ Rooted(tree) /\ Completed
  BY DEF TreeInv
<1>2. /\ TreeTypeOK' /\ Rooted(tree') /\ UNCHANGED <<utility, before>>
      /\ missed \subseteq missed' /\ (strayed => strayed')
  BY <1>1, TypeStep
<1>3. Completed'
  BY <1>1, <1>2, CompletedStays
<1>4. \A names : Tool(names)' <=> Tool(names)
  BY <1>2, SameCommand
<1>5. ASSUME Tool({"rmdir", "mkdir", "ln", "mv"}) PROVE walk = << >> /\ walk' = << >>
  <2>1. walk = << >>
    BY <1>5 DEF TreeInv
  <2>2. ~Operand /\ ~Fill /\ ~NextEntry /\ ~RmCall /\ ~EndDirectory
    BY <1>5, <2>1 DEF Operand, Fill, NextEntry, RmCall, EndDirectory, Tool
  <2> QED BY <2>1, <2>2 DEF TreeNext, Start, OneCall, Finish, Meddle, treeVars
<1>6. ASSUME Tool({"rm", "rmdir"}) PROVE RmInv' /\ (Tool({"rm"}) => WalksOperand')
  <2>1. OnlyRemoved /\ GoneWasNamed /\ OperandsGone
    BY <1>6 DEF TreeInv, Removing
  <2>2. RmHyp
    BY <2>1, <1>1, <1>2 DEF RmHyp, RmInv
  <2>3. Tool({"rm"}) \/ (Tool({"rmdir"}) /\ Tool({"rmdir", "mkdir", "ln", "mv"}))
    BY <1>6 DEF Tool
  <2>4. \/ Tool({"rm"}) /\ WalksOperand
        \/ Tool({"rmdir"}) /\ walk = << >>
    BY <2>3, <1>5 DEF TreeInv
  <2> QED BY <2>2, <2>4, RmStep
<1>7. ASSUME Tool({"mkdir"}) PROVE OnlyMade' /\ OperandsMade'
  <2>1. walk = << >> /\ MkHyp
    BY <1>1, <1>2, <1>7 DEF TreeInv, MkHyp, Tool
  <2> QED BY <2>1, <1>7, MkStep
<1>8. ASSUME Tool({"ln"}) PROVE (arg' = 1 => OnlyRemoved') /\ LinkMade'
  <2>1. walk = << >> /\ LnHyp
    BY <1>1, <1>2, <1>8 DEF TreeInv, LnHyp, Tool, Removing
  <2> QED BY <2>1, LnStep
<1>9. ASSUME Tool({"mv"}) PROVE LosesNothing'
  <2>1. walk = << >> /\ LosesNothing
    BY <1>9 DEF TreeInv, Tool
  <2> QED BY <2>1, <1>1, <1>2, <1>9, MvStep
<1>10. /\ Removing' => OnlyRemoved'
       /\ Tool({"rm", "rmdir"})' => GoneWasNamed' /\ OperandsGone'
  BY <1>4, <1>6, <1>8 DEF Removing, RmInv
<1>11. /\ Tool({"rm"})' => WalksOperand'
       /\ Tool({"rmdir", "mkdir", "ln", "mv"})' => walk' = << >>
       /\ Tool({"mkdir"})' => OnlyMade' /\ OperandsMade'
       /\ Tool({"ln"})' => LinkMade'
       /\ Tool({"mv"})' => LosesNothing'
  <2>1. Tool({"rm"}) => Tool({"rm", "rmdir"})
    BY DEF Tool
  <2> QED BY <2>1, <1>4, <1>5, <1>6, <1>7, <1>8, <1>9
<1>12. Tool({"cp"})' => CpInv'
  <2>1. SUFFICES ASSUME Tool({"cp"}) PROVE CpInv'
    BY <1>4
  <2>2. CpStepHyp
    BY <1>1, <1>2, <2>1 DEF TreeInv, CpStepHyp
  <2> QED BY <2>1, <2>2, CpStep
<1> QED BY <1>2, <1>3, <1>10, <1>11, <1>12 DEF TreeInv

LEMMA InvLoses == TreeInv => LosesNothing
<1> SUFFICES ASSUME TreeInv PROVE LosesNothing
  OBVIOUS
<1>1. CASE Tool({"mv"})
  BY <1>1 DEF TreeInv
<1>2. CASE Tool({"rm", "rmdir"})
  <2>1. OnlyRemoved /\ GoneWasNamed
    BY <1>2 DEF TreeInv, Removing
  <2>2. ~strayed => \A q \in DOMAIN before \ {Guest} : Kept(q) \/ \E p \in Args : Within(q, Was(p))
    BY <2>1 DEF OnlyRemoved, GoneWasNamed, Kept
  <2>3. ~Tool({"mv"})
    BY <1>2 DEF Tool
  <2> QED BY <2>2, <2>3 DEF LosesNothing
<1>3. CASE ~Tool({"mv"}) /\ ~Tool({"rm", "rmdir"})
  BY <1>3 DEF LosesNothing
<1> QED BY <1>1, <1>2, <1>3

LEMMA InvTells == TreeInv => StatusTells
<1> SUFFICES ASSUME TreeInv PROVE StatusTells
  OBVIOUS
<1>1. TreeTypeOK /\ Completed
  BY DEF TreeInv
<1>2. SUFFICES ASSUME pc = "done", ret = 0, NEW p \in Args, Was(p) # Guest
      PROVE  /\ Tool({"rmdir"}) \/ (Tool({"rm"}) /\ ~Inside(p, Guest) /\ p \notin missed) => At(p) \notin DOMAIN tree
             /\ Tool({"mkdir"}) => Was(p) \in DOMAIN tree
             /\ Tool({"ln"}) /\ Was(Dest) # Guest =>
                  /\ Was(Dest) \in DOMAIN tree
                  /\ tree[Was(Dest)] = IF utility.symbolic THEN Link(p) ELSE before[Was(p)]
  BY DEF StatusTells
<1>3. arg = Operands + 1 /\ Idle /\ Operands \in Nat
  BY <1>1, <1>2, Commands DEF Completed, TreeTypeOK
<1> PICK i \in 1..Operands : p = utility.args[i]
  BY DEF Args
<1>4. i \in 1..(arg - 1)
  BY <1>3
<1>5. ASSUME Tool({"rmdir"}) \/ (Tool({"rm"}) /\ ~Inside(p, Guest) /\ p \notin missed)
      PROVE  At(p) \notin DOMAIN tree
  <2>1. OperandsGone
    BY <1>5 DEF TreeInv, Tool
  <2>2. ~Excused(p)
    BY <1>2, <1>5 DEF Excused, Tool
  <2> QED BY <2>1, <2>2, <1>2, <1>3, <1>4 DEF OperandsGone
<1>6. ASSUME Tool({"mkdir"}) PROVE Was(p) \in DOMAIN tree
  <2>1. OperandsMade
    BY <1>6 DEF TreeInv
  <2> QED BY <2>1, <1>2, <1>4 DEF OperandsMade
<1>7. ASSUME Tool({"ln"}), Was(Dest) # Guest
      PROVE  /\ Was(Dest) \in DOMAIN tree
             /\ tree[Was(Dest)] = IF utility.symbolic THEN Link(p) ELSE before[Was(p)]
  <2>1. LinkMade
    BY <1>7 DEF TreeInv
  <2>2. Operands = 1 /\ Args = {utility.args[1]}
    BY <1>1, <1>7, Commands
  <2>3. arg = 2 /\ p = utility.args[1]
    BY <2>2, <1>3
  <2> QED BY <2>1, <2>3, <1>2, <1>7 DEF LinkMade
<1> QED BY <1>5, <1>6, <1>7

LEMMA InvFaithful == TreeInv => CopyFaithful
<1> SUFFICES ASSUME TreeInv PROVE CopyFaithful
  OBVIOUS
<1>1. TreeTypeOK /\ Completed /\ (Tool({"cp"}) => CpInv)
  BY DEF TreeInv
<1> QED BY <1>1, InvCopies DEF Completed, Idle

(* The invariant behind what follows: while rm and rmdir remove, the tree  *)
(* is what it was but for what was named, and rm goes through no link that *)
(* was there below an operand (rm.c:15), and only where another process    *)
(* puts one in the place of a directory through that one (rm.c:36 opens    *)
(* what lstat saw before, without O_NOFOLLOW: strayed); mkdir only adds;   *)
(* mv keeps account of what it moved; cp makes no links and changes only   *)
(* where its copies go.                                                    *)
THEOREM TreeInvariance == TreeSpec => []TreeInv
<1>1. TreeInit => TreeInv
  BY Initially
<1>2. TreeInv /\ [TreeNext]_treeVars => TreeInv'
  BY TreeStep
<1> QED BY <1>1, <1>2, PTL DEF TreeSpec

(* The variables of every tool keep their types, and the tree stays one:   *)
(* whatever is there lies in directories that are there (the calls of      *)
(* src/tools/rm.c, cp.c, mv.c, mkdir.c, rmdir.c and ln.c leave no entry    *)
(* without its directory).                                                 *)
THEOREM TreeTypes == TreeSpec => [](TreeTypeOK /\ Rooted(tree))
<1>1. TreeInv => TreeTypeOK /\ Rooted(tree)
  BY DEF TreeInv
<1> QED BY <1>1, TreeInvariance, PTL

(* rm and rmdir remove nothing that was not named or inside what was       *)
(* named, whatever links there are at the start and whatever files,        *)
(* directories and links another process makes and removes at one place,   *)
(* also between rm's lstat and the call behind it (rm.c:15, 28, 36), until *)
(* rm goes through a link of that process; and what mv moves is where it   *)
(* moved it, whichever of its renames fail (mv.c:49) and whatever file or  *)
(* directory that process makes.                                           *)
THEOREM NothingLost == TreeSpec => []LosesNothing
<1> QED BY InvLoses, TreeInvariance, PTL

(* A status of 0 from rm, rmdir, mkdir and ln is true at the end, although *)
(* another process makes and removes an entry meanwhile; but for an        *)
(* operand that is its entry or, with rm, lies inside it, and one rm -f    *)
(* calls lstat for in vain, which it takes for not there (rm.c:15-17).     *)
THEOREM StatusIsTrue == TreeSpec => []StatusTells
<1> QED BY InvTells, TreeInvariance, PTL

(* cp changes nothing but the places its copies go to, and what it copied  *)
(* is there at the end with its contents, unless a second copy got in the  *)
(* way, for every list of operands, with and without -r, through links and *)
(* while another process makes and removes a file or a directory at one    *)
(* place (copy_file and cp_main, cp.c:11, 56).                             *)
THEOREM CopiesFaithfully == TreeSpec => []CopyFaithful
<1> QED BY InvFaithful, TreeInvariance, PTL

===============================================================================
