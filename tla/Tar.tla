---------------------------------- MODULE Tar ----------------------------------
(***************************************************************************)
(* tools/tar.c: "tar c" walks a tree of files and writes headers and padded *)
(* blocks, and "tar x" or "tar t" reads what reaches it of them.  While the *)
(* archive is made another process may change the files; on its way the    *)
(* archive may be cut off anywhere; a read that fails gives the same.      *)
(*                                                                         *)
(* A block is a header or data.  Names fit into their fields; modes,       *)
(* owners and times are left out; a block of data never looks like a       *)
(* header with a valid checksum.  Operands are those after the letters of  *)
(* the options, and the archive itself can be opened.                      *)
(***************************************************************************)
EXTENDS Integers, Sequences, FiniteSets, SequencesExt

CONSTANTS Paths,      \* the names in the tree
          Above,      \* name -> the directories above it
          Sources,    \* trees to archive
          Targets,    \* trees to extract into
          Arguments,  \* lists of names given to tar c
          Nowhere,    \* no member's name
          Dirs, Here, \* directories -C may name; the one tar x is started in
          Zero, Junk, \* the padding byte; a byte of a header, read as data
          Byte,
          BlockSize,  \* 512
          NewData,    \* what a file may be changed to
          MaxChanges, \* how many files are: bounds the behaviour
          Faulty      \* whether open and write may fail

Nothing == [kind |-> "absent", data |-> << >>]
Directory == [kind |-> "dir", data |-> << >>]
NodesOver(bytes) == {Nothing, Directory} \cup [kind : {"link", "file"}, data : Seq(bytes)]

(* The directories above everything that is there. *)
WellFormed(tree) ==
  \A p \in Paths : tree[p].kind # "absent" => \A a \in Above[p] : tree[a].kind = "dir"
Trees == {tree \in [Paths -> NodesOver(Byte)] : WellFormed(tree)}

(* Above is what the names say: behind the directories above a directory   *)
(* on the way to a name, and that directory, comes the next one.           *)
ASSUME NamesBelowNames ==
  /\ IsFiniteSet(Paths) /\ Above \in [Paths -> SUBSET Paths] /\ Nowhere \notin Paths
  /\ \A p \in Paths : p \notin Above[p] /\ \A q \in Above[p] : Above[q] \subseteq Above[p]
  /\ \A p \in Paths : \A q \in Above[p] :
       \E next \in Above[p] \cup {p} : Above[next] = Above[q] \cup {q}
ASSUME TreesAndArguments ==
  /\ Sources \subseteq Trees /\ Targets \subseteq Trees
  /\ Arguments \subseteq Seq(Paths) /\ Here \in Dirs
ASSUME BytesAndBlocks ==
  /\ Zero \in Byte /\ Junk \notin Byte /\ NewData \subseteq Seq(Byte)
  /\ BlockSize \in Nat \ {0}
ASSUME ChangesAndFaults == MaxChanges \in Nat /\ Faulty \in BOOLEAN

VARIABLES
  doing,    \* "walk", "open", "copy", "sent": tar c; "head", "body", "done": tar x
  src,      \* the tree that is archived
  todo,     \* names still to be added, those below the last directory first
  path,     \* the member in hand
  left,     \* remaining: bytes of it still to be copied
  offset,   \* bytes of it that were read
  archive,  \* the blocks written
  partial,  \* whether an incomplete block follows them
  op, dir,  \* "extract" or "list"; the operand of -C
  at,       \* blocks read
  zeros,    \* zero_count
  dst,      \* what is in the directories that -C may name
  listed,   \* the names printed by tar t
  ret,      \* exit status of the reader
  astray,   \* history: members written through a link
  changed, short, failed, cut  \* history: files changed, a read that gave less than the
                               \* header says, a failed call, an archive cut off

makerVars == <<src, todo, offset, changed, short>>
readerVars == <<at, zeros, dst, listed, ret, astray>>
wayVars == <<partial, op, dir, cut>>
tarVars == <<doing, makerVars, path, left, archive, readerVars, wayVars, failed>>

TarInit ==
  /\ src \in Sources /\ todo \in Arguments /\ archive = << >>
  /\ doing = "walk" /\ path = Nowhere /\ left = 0 /\ offset = 0
  /\ partial = FALSE /\ at = 0 /\ zeros = 0 /\ listed = << >> /\ ret = 0
  /\ op \in {"extract", "list"} /\ dir \in Dirs
  /\ \E tree \in Targets : dst = [d \in Dirs |-> tree]
  /\ changed = {} /\ short = FALSE /\ failed = FALSE /\ cut = FALSE /\ astray = {}
-------------------------------------------------------------------------------
(* tar c *)

Size(node) == IF node.kind = "file" THEN Len(node.data) ELSE 0

(* A header holds the target of a link, and the size of a file as lstat    *)
(* gave it.                                                                *)
Header(p) == [kind |-> "header", name |-> p, type |-> src[p].kind, size |-> Size(src[p]),
              link |-> IF src[p].kind = "link" THEN src[p].data ELSE << >>]
Data(bytes) == [kind |-> "data", bytes |-> bytes]
Zeros(n) == [i \in 1..n |-> Zero]

(* write_all, whose result nobody looks at.  What gets through of blocks   *)
(* that were not written whole is not represented.                         *)
Write(blocks) ==
  \/ archive' = archive \o blocks /\ failed' = failed
  \/ Faulty /\ archive' = archive /\ failed' = TRUE

(* What getdents64 gives. *)
Entries(p) == {q \in Paths : src[q].kind # "absent" /\ Above[q] = Above[p] \cup {p}}

(* A name that is gone by now is passed over. *)
MemberGone ==
  /\ doing = "walk" /\ todo # << >> /\ src[Head(todo)].kind = "absent"
  /\ todo' = Tail(todo)
  /\ UNCHANGED <<doing, src, offset, changed, short, path, left, archive, readerVars, wayVars,
                 failed>>

(* tar_create_recursive up to where a file is opened.  A directory is gone *)
(* through, in any order, before what comes behind it.                     *)
AddMember ==
  /\ doing = "walk" /\ todo # << >>
  /\ LET p == Head(todo) IN
       /\ src[p].kind # "absent"
       /\ \/ Write(<<Header(p)>>) /\ src[p].kind # "dir" /\ todo' = Tail(todo)
          \/ /\ Write(<<Header(p)>>) /\ src[p].kind = "dir"
             /\ \E names \in SetToSeqs(Entries(p)) : todo' = names \o Tail(todo)
          \/ /\ Faulty /\ src[p].kind = "dir"  \* which cannot be opened
             /\ archive' \in {archive, Append(archive, Header(p))}
             /\ failed' = TRUE /\ todo' = Tail(todo)
       /\ path' = p /\ left' = Size(src[p]) /\ offset' = 0
       /\ doing' = IF Size(src[p]) > 0 THEN "open" ELSE "walk"
  /\ UNCHANGED <<src, changed, short, readerVars, wayVars>>

(* The file may be gone again: its header stays without data. *)
OpenMember ==
  /\ doing = "open"
  /\ \/ src[path].kind = "file" /\ doing' = "copy" /\ UNCHANGED <<short, failed>>
     \/ src[path].kind = "absent" /\ doing' = "walk" /\ short' = TRUE /\ failed' = failed
     \/ Faulty /\ doing' = "walk" /\ short' = TRUE /\ failed' = TRUE
  /\ UNCHANGED <<src, todo, offset, changed, path, left, archive, readerVars, wayVars>>

Least(a, b) == IF a <= b THEN a ELSE b

(* What read gives of the file as it is now: nothing behind its end. *)
Chunk == LET data == src[path].data IN
  SubSeq(data, offset + 1, Least(offset + Least(left, BlockSize), Len(data)))
Padded(bytes) == bytes \o Zeros(BlockSize - Len(bytes))

(* One block of data, filled up with zeros, also where a file that has     *)
(* shrunk gives less than its header promised and may give more later.     *)
CopyBlock ==
  /\ doing = "copy" /\ left > 0 /\ Chunk # << >>
  /\ Write(<<Data(Padded(Chunk))>>)
  /\ left' = left - Len(Chunk) /\ offset' = offset + Len(Chunk)
  /\ short' = (short \/ Len(Chunk) < Least(left, BlockSize))
  /\ UNCHANGED <<doing, src, todo, changed, path, readerVars, wayVars>>

(* All of the size lstat gave, or the end of a file that has shrunk. *)
MemberCopied ==
  /\ doing = "copy" /\ (left = 0 \/ Chunk = << >>)
  /\ doing' = "walk" /\ short' = (short \/ left > 0)
  /\ UNCHANGED <<src, todo, offset, changed, path, left, archive, readerVars, wayVars, failed>>

(* Two blocks of zeros behind the last member. *)
EndArchive ==
  /\ doing = "walk" /\ todo = << >>
  /\ Write(<<Data(Zeros(BlockSize)), Data(Zeros(BlockSize))>>)
  /\ doing' = "sent"
  /\ UNCHANGED <<makerVars, path, left, readerVars, wayVars>>

(* Another process writes to a file, or truncates or removes it.  A file   *)
(* removed while it is open is still there for who reads it: its removal   *)
(* counts from when it is closed.                                          *)
Change(p) ==
  /\ doing \in {"walk", "open", "copy"} /\ Cardinality(changed \cup {p}) <= MaxChanges
  /\ src[p].kind = "file"
  /\ \E node \in {Nothing} \cup [kind : {"file"}, data : NewData] :
       /\ node # src[p] /\ (doing = "copy" /\ p = path => node # Nothing)
       /\ src' = [src EXCEPT ![p] = node]
  /\ changed' = changed \cup {p}
  /\ UNCHANGED <<doing, todo, offset, short, path, left, archive, readerVars, wayVars, failed>>

(* What reaches the reader: all of it, or its beginning, the last block    *)
(* incomplete or not.                                                      *)
Deliver ==
  /\ doing = "sent" /\ doing' = "head"
  /\ \E k \in 0..Len(archive) :
       /\ archive' = SubSeq(archive, 1, k)
       /\ partial' \in IF k < Len(archive) THEN BOOLEAN ELSE {FALSE}
       /\ cut' = (k < Len(archive))
  /\ UNCHANGED <<makerVars, path, left, readerVars, op, dir, failed>>
-------------------------------------------------------------------------------
(* tar x and tar t *)

Block == archive[at + 1]
Return(code) == doing' = "done" /\ ret' = code
IsZero(block) == block.kind = "data" /\ block.bytes = Zeros(BlockSize)
Blocks(size) == (size + BlockSize - 1) \div BlockSize

(* Read n more blocks without looking at what read returns. *)
SkipBlocks(n) ==
  /\ at' = Least(at + n, Len(archive))
  /\ partial' = (partial /\ at + n <= Len(archive))

(* The input ends where a header should be. *)
NoMoreBlocks ==
  /\ doing = "head" /\ at = Len(archive)
  /\ Return(IF op = "extract" /\ partial THEN 1 ELSE 0)
  /\ UNCHANGED <<makerVars, path, left, archive, at, zeros, dst, listed, astray, wayVars, failed>>

SkipZeroBlock ==
  /\ doing = "head" /\ at < Len(archive) /\ IsZero(Block)
  /\ at' = at + 1 /\ zeros' = zeros + 1
  /\ IF zeros' >= 2 THEN Return(0) ELSE UNCHANGED <<doing, ret>>
  /\ UNCHANGED <<makerVars, path, left, archive, dst, listed, astray, wayVars, failed>>

AtMember == doing = "head" /\ at < Len(archive) /\ ~IsZero(Block)

(* Data in the place of a header: the checksum does not fit. *)
BadHeader ==
  /\ AtMember /\ op = "extract" /\ Block.kind = "data"
  /\ at' = at + 1 /\ zeros' = 0 /\ Return(1)
  /\ UNCHANGED <<makerVars, path, left, archive, dst, listed, astray, wayVars, failed>>

(* tar t does not look at the checksum, and takes any size from the data.  *)
ListMember ==
  /\ AtMember /\ op = "list"
  /\ zeros' = 0
  /\ IF Block.kind = "header"
     THEN listed' = Append(listed, Block.name) /\ SkipBlocks(1 + Blocks(Block.size))
     ELSE /\ listed' = Append(listed, Nowhere)
          /\ \E n \in 0..Len(archive) : SkipBlocks(1 + n)
  /\ UNCHANGED <<doing, makerVars, path, left, archive, dst, ret, astray, op, dir,
                 cut, failed>>

Tree == dst[Here]

(* tar_mkdirs: the directories above a name, as far as none of them is     *)
(* something else.                                                         *)
WithDirs(tree, p) ==
  [q \in Paths |->
     IF q \in Above[p] /\ tree[q] = Nothing
          /\ \A a \in Above[q] : tree[a].kind \in {"absent", "dir"}
     THEN Directory ELSE tree[q]]
Reachable(tree, p) == \A a \in Above[p] : tree[a].kind = "dir"

(* mkdir, unlink and symlink: what they find there, and whether it works. *)
Made(tree, header) ==
  LET name == header.name IN
    IF ~Reachable(tree, name) THEN tree
    ELSE IF header.type = "dir" /\ tree[name] = Nothing
    THEN [tree EXCEPT ![name] = Directory]
    ELSE IF header.type = "link" /\ tree[name].kind # "dir"
    THEN [tree EXCEPT ![name] = [kind |-> "link", data |-> header.link]]
    ELSE tree

(* The path walk comes through a link, or ends at one.  Where it leads is  *)
(* not in the tree.                                                        *)
BehindLink(tree, p) == \E a \in Above[p] : tree[a].kind = "link"
Astray(tree, p) == BehindLink(tree, p) \/ tree[p].kind = "link"

(* A directory or a link.  That it could not be made goes unnoticed, and   *)
(* so does that it was made behind a link.                                 *)
ExtractOther ==
  /\ AtMember /\ op = "extract" /\ Block.kind = "header" /\ Block.type # "file"
  /\ at' = at + 1 /\ zeros' = 0
  /\ LET tree == Made(WithDirs(Tree, Block.name), Block) IN
       /\ dst' = [dst EXCEPT ![Here] = tree]
       /\ IF BehindLink(tree, Block.name)
          THEN astray' = astray \cup {Block.name} /\ failed' \in {failed, TRUE}
          ELSE astray' = astray /\ failed' = (failed \/ tree[Block.name].kind # Block.type)
  /\ UNCHANGED <<doing, makerVars, path, left, archive, listed, ret, wayVars>>

Creatable(tree, p) == Reachable(tree, p) /\ tree[p].kind \in {"absent", "file"}

(* A file: made, or emptied; or the one a link on the way leads to, which  *)
(* is written just the same.                                               *)
CreateFile ==
  /\ AtMember /\ op = "extract" /\ Block.kind = "header" /\ Block.type = "file"
  /\ at' = at + 1 /\ zeros' = 0
  /\ LET tree == WithDirs(Tree, Block.name) IN
       \/ /\ Creatable(tree, Block.name) /\ astray' = astray
          /\ dst' = [dst EXCEPT ![Here] = [tree EXCEPT ![Block.name] =
                                              [kind |-> "file", data |-> << >>]]]
       \/ /\ Astray(tree, Block.name) /\ astray' = astray \cup {Block.name}
          /\ dst' = [dst EXCEPT ![Here] = tree]
  /\ path' = Block.name /\ left' = Block.size
  /\ doing' = IF left' = 0 THEN "head" ELSE "body"
  /\ UNCHANGED <<makerVars, archive, listed, ret, wayVars, failed>>

(* A file that cannot be created: a message, and its blocks are skipped. *)
CannotCreate ==
  /\ AtMember /\ op = "extract" /\ Block.kind = "header" /\ Block.type = "file"
  /\ zeros' = 0 /\ failed' = TRUE
  /\ LET tree == WithDirs(Tree, Block.name) IN
       /\ ~Creatable(tree, Block.name) \/ Faulty
       /\ dst' = [dst EXCEPT ![Here] = tree]
  /\ SkipBlocks(1 + Blocks(Block.size))
  /\ UNCHANGED <<doing, makerVars, path, left, archive, listed, ret, astray, op, dir, cut>>

(* The bytes of a block, also those of a header that is taken for data. *)
Bytes(block) == IF block.kind = "data" THEN block.bytes ELSE [i \in 1..BlockSize |-> Junk]

ExtractBlockWhole ==
  /\ doing = "body" /\ at < Len(archive)
  /\ at' = at + 1
  /\ dst' = IF Tree[path].kind = "file"
             THEN [dst EXCEPT ![Here][path].data = @ \o Bytes(Block)] ELSE dst
  /\ left' = left - Least(left, BlockSize)
  /\ doing' = IF left' = 0 THEN "head" ELSE "body"
  /\ UNCHANGED <<makerVars, path, archive, zeros, listed, ret, astray, wayVars, failed>>

(* One block of the member, the padding left out.  A file behind a link is *)
(* not in the tree.                                                        *)
ExtractBlock ==
  /\ doing = "body" /\ at < Len(archive)
  /\ at' = at + 1
  /\ \/ /\ dst' = IF Tree[path].kind = "file"
                   THEN [dst EXCEPT ![Here][path].data =
                           @ \o SubSeq(Bytes(Block), 1, Least(left, BlockSize))]
                   ELSE dst
        /\ failed' = failed
     \/ Faulty /\ dst' = dst /\ failed' = TRUE
  /\ left' = left - Least(left, BlockSize)
  /\ doing' = IF left' = 0 THEN "head" ELSE "body"
  /\ UNCHANGED <<makerVars, path, archive, zeros, listed, ret, astray, wayVars>>

MemberCutOffUnnoticed ==
  /\ doing = "body" /\ at = Len(archive)
  /\ doing' = "head"
  /\ UNCHANGED <<makerVars, path, left, archive, at, zeros, dst, listed, ret, astray, wayVars,
                 failed>>

(* The input ends in the middle of a member. *)
MemberCutOff ==
  /\ doing = "body" /\ at = Len(archive)
  /\ Return(1)
  /\ UNCHANGED <<makerVars, path, left, archive, at, zeros, dst, listed, astray, wayVars, failed>>

TarNext ==
  \/ MemberGone \/ AddMember \/ OpenMember \/ CopyBlock \/ MemberCopied \/ EndArchive
  \/ (\E p \in Paths : Change(p)) \/ Deliver
  \/ NoMoreBlocks \/ SkipZeroBlock \/ BadHeader \/ ListMember
  \/ ExtractOther \/ CreateFile \/ CannotCreate \/ ExtractBlock \/ MemberCutOff

TarSpec == TarInit /\ [][TarNext]_tarVars
-------------------------------------------------------------------------------
(* Nothing failed, and no file lost what its header had already promised.  *)
(* Files may have been rewritten and may have grown.                       *)
Undisturbed == ~failed /\ ~short
Members == {i \in 1..Len(archive) : archive[i].kind = "header"}
Rank(i) == Cardinality({j \in Members : j <= i})

Faithful(d) == \A i \in Members :
  archive[i].name \notin changed \cup astray => dst[d][archive[i].name] = src[archive[i].name]

(* What is added is what is extracted: every name of the archived tree,    *)
(* whatever its size in relation to a block, in whatever order directories *)
(* are read, and whether or not a file of that name was there before.  A   *)
(* file rewritten or grown meanwhile does no harm to another member, and   *)
(* neither does one that went astray, although tar reports success: only a *)
(* link at its name or above it, which stays, can have led there.          *)
(* tar t prints the members whose headers arrived, in order, although it   *)
(* checks neither a header nor what it skips.                              *)
RoundTrip ==
  doing = "done" /\ Undisturbed =>
    /\ op = "extract" /\ ~cut =>
         /\ ret = 0 /\ Faithful(Here)
         /\ \A p \in astray : Astray(dst[Here], p)
         /\ \A p \in Paths \ (changed \cup astray) : \A i \in Members :
              src[p].kind # "absent" /\ archive[i].name \in Above[p] => dst[Here][p] = src[p]
    /\ op = "list" =>
         /\ Len(listed) = Cardinality(Members)
         /\ \A i \in Members : listed[Rank(i)] = archive[i].name

(* An archive that was cut off is not extracted with success while a       *)
(* member it has the header of is incomplete.                              *)
NoSilentCut ==
  doing = "done" /\ op = "extract" /\ Undisturbed /\ ret = 0 => Faithful(Here)

(* README.md:41, "tar xf data.tar -C /   # install files to root": members *)
(* are extracted below the directory that -C names.                        *)
ExtractsIntoDir ==
  doing = "done" /\ op = "extract" /\ Undisturbed /\ ~cut => Faithful(dir)
===============================================================================
