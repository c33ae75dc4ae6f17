------------------------------ MODULE Tar_proofs ------------------------------
(***************************************************************************)
(* What holds of tar (module Tar) for every tree, every size of a block and *)
(* every place where an archive is cut off: RoundTrip and NoSilentCut,     *)
(* from an inductive invariant that says how an archive is laid out while  *)
(* it is written, and how much of it has been restored while it is read.   *)
(***************************************************************************)
EXTENDS Tar, Lemmas, SequenceTheorems

(* What an archive consists of. *)
Headers == [kind : {"header"}, name : Paths, type : {"dir", "link", "file"}, size : Nat,
            link : Seq(Byte)]
DataBlocks == [kind : {"data"}, bytes : {b \in Seq(Byte) : Len(b) = BlockSize}]

FlagsOK == partial \in BOOLEAN /\ short \in BOOLEAN /\ failed \in BOOLEAN /\ cut \in BOOLEAN
MakerTypeOK ==
  /\ doing \in {"walk", "open", "copy", "sent", "head", "body", "done"}
  /\ doing \in {"open", "copy", "body"} => path \in Paths
  /\ src \in [Paths -> NodesOver(Byte)] /\ todo \in Seq(Paths) /\ path \in Paths \cup {Nowhere}
  /\ left \in Nat /\ offset \in Nat /\ changed \subseteq Paths
  /\ archive \in Seq(Headers \cup DataBlocks)
ReaderTypeOK ==
  /\ op \in {"extract", "list"} /\ dir \in Dirs
  /\ at \in 0..Len(archive) /\ zeros \in Nat
  /\ dst \in [Dirs -> [Paths -> NodesOver(Byte \cup {Junk})]]
  /\ listed \in Seq(Paths \cup {Nowhere}) /\ ret \in {0, 1}
  /\ doing \in {"walk", "open", "copy", "sent"} => at = 0
  /\ doing = "body" /\ path \notin astray => dst[Here][path].kind = "file"
TarTypeOK == FlagsOK /\ MakerTypeOK /\ ReaderTypeOK

TreesOK == WellFormed(src) /\ WellFormed(dst[Here])
(* Links that led astray stay. *)
StraysOK == astray \subseteq Paths /\ \A p \in astray : Astray(dst[Here], p)

Sent == {"sent", "head", "body", "done"}
Length(i) == Blocks(archive[i].size)
Name(i) == archive[i].name
(* The k-th block of the data of a file. *)
Piece(p, k) ==
  Padded(SubSeq(src[p].data, (k - 1) * BlockSize + 1, Least(k * BlockSize, Len(src[p].data))))

(* Members follow each other without overlapping. *)
Apart == \A i, j \in Members : i < j => i + Length(i) < j
(* The header of a file that was not changed is right, *)
HeadersRight ==
  \A i \in Members :
    /\ archive[i].type # "file" => archive[i].size = 0
    /\ Name(i) \notin changed => src[Name(i)].kind # "absent" /\ archive[i] = Header(Name(i))
(* and so are its blocks. *)
BlocksRight ==
  \A i \in Members : \A k \in 1..Length(i) :
    Name(i) \notin changed /\ i + k <= Len(archive) => archive[i + k] = Data(Piece(Name(i), k))
(* Blocks that belong to no member are zeros at the end. *)
Owned ==
  \A j \in 1..Len(archive) : archive[j].kind = "data" =>
    \/ \E i \in Members : i < j /\ j <= i + Length(i)
    \/ doing \in Sent /\ IsZero(archive[j]) /\ \A i \in Members : i < j
Whole ==
  doing = "walk" \/ (doing \in Sent /\ ~cut) =>
    \A i \in Members : i + Length(i) <= Len(archive)

(* The member being copied. *)
Copying(h) ==
  LET c == Len(archive) - h
      size == archive[h].size
  IN /\ h \in Members /\ Name(h) = path /\ c <= Length(h) /\ \A i \in Members : i <= h
     /\ left = IF c * BlockSize < size THEN size - c * BlockSize ELSE 0
     /\ left > 0 => offset = c * BlockSize
InHand == doing \in {"open", "copy"} => \E h \in Members : Copying(h)

(* What is below a directory in the archive is there, or will be. *)
Reached ==
  ~cut => \A i \in Members : \A p \in Paths \ changed :
    src[p].kind # "absent" /\ Name(i) \in Above[p] =>
      \/ \E j \in Members : Name(j) = p
      \/ \E m \in 1..Len(todo) : todo[m] = p \/ todo[m] \in Above[p]

Underway ==
  /\ doing \in Sent => todo = << >>
  /\ doing \in {"walk", "open", "copy", "sent"} => listed = << >> /\ ~cut
  /\ ~cut => ~partial

Laid == Apart /\ HeadersRight /\ BlocksRight /\ Owned /\ Whole

(* The reader is behind the last block of a member. *)
Boundary == \A i \in Members : i <= at => i + Length(i) <= at
Restored(i) == Name(i) \notin changed \cup astray => dst[Here][Name(i)] = src[Name(i)]

AtHead ==
  doing = "head" => /\ at < Len(archive) => Boundary
                    /\ op = "extract" => \A i \in Members : i <= at => Restored(i)
(* The member being extracted. *)
Extracting(h) ==
  LET c == at - h IN
    /\ h \in Members /\ Name(h) = path /\ archive[h].type = "file"
    /\ c >= 0 /\ c * BlockSize < archive[h].size /\ left = archive[h].size - c * BlockSize
    /\ \A i \in Members : i <= at => i <= h /\ (Name(i) # path => Restored(i))
    /\ path \notin changed \cup astray =>
         dst[Here][path].data = SubSeq(src[path].data, 1, c * BlockSize)
InBody == doing = "body" => op = "extract" /\ \E h \in Members : Extracting(h)
AtEnd ==
  doing = "done" =>
    /\ op = "extract" => (ret = 0 => Faithful(Here)) /\ (~cut => ret = 0)
    /\ op = "list" => \A i \in Members : i <= at
Listed ==
  op = "list" => /\ Len(listed) = Rank(at)
                 /\ \A i \in Members : i <= at => listed[Rank(i)] = Name(i)

Written == Underway /\ Laid /\ InHand /\ Reached
Read == AtHead /\ InBody /\ AtEnd /\ Listed
TarInv == TarTypeOK /\ TreesOK /\ StraysOK /\ (Undisturbed => Written /\ Read)

-------------------------------------------------------------------------------
(* Multiples of the size of a block. *)
LEMMA Multiples ==
  ASSUME NEW c \in Nat, NEW d \in Nat
  PROVE  /\ c * BlockSize \in Nat /\ (c + 1) * BlockSize = c * BlockSize + BlockSize
         /\ c <= d => c * BlockSize <= d * BlockSize
<1> BlockSize \in Nat \ {0}
  BY BytesAndBlocks
<1>1. c * BlockSize \in Nat /\ d * BlockSize \in Nat
  OBVIOUS
<1>2. (c + 1) * BlockSize = c * BlockSize + BlockSize
  OBVIOUS
<1>3. ASSUME c <= d PROVE c * BlockSize <= d * BlockSize
  <2>1. d - c \in Nat /\ (d - c) * BlockSize \in Nat
    BY <1>3
  <2>2. (d - c) * BlockSize = d * BlockSize - c * BlockSize
    OBVIOUS
  <2> QED BY <1>1, <2>1, <2>2
<1> QED BY <1>1, <1>2, <1>3

(* A member has another block as long as less than its size was copied. *)
LEMMA BlocksLess ==
  ASSUME NEW size \in Nat, NEW c \in Nat
  PROVE  Blocks(size) \in Nat /\ (c < Blocks(size) <=> c * BlockSize < size)
<1> BlockSize \in Nat \ {0}
  BY BytesAndBlocks
<1> DEFINE x == size + BlockSize - 1
           q == x \div BlockSize
           m == x % BlockSize
<1>1. x \in Int /\ q \in Int /\ m \in 0..(BlockSize - 1) /\ x = BlockSize * q + m
  BY ModRange
<1> HIDE DEF q, m
<1>2. q \in Nat
  <2> SUFFICES ASSUME q <= -1 PROVE FALSE
    BY <1>1
  <2>1. BlockSize * q <= BlockSize * (-1)
    BY <1>1
  <2>2. BlockSize * (-1) = -BlockSize /\ BlockSize * q \in Int
    BY <1>1
  <2> QED BY <1>1, <2>1, <2>2
<1>3. q * BlockSize = BlockSize * q /\ q * BlockSize \in Nat /\ c * BlockSize \in Nat
  BY <1>2, Multiples
<1>4. ASSUME c < q PROVE c * BlockSize < size
  <2>1. (c + 1) * BlockSize = c * BlockSize + BlockSize /\ (c + 1) * BlockSize <= q * BlockSize
    <3>1. c + 1 \in Nat /\ c + 1 <= q
      BY <1>2, <1>4
    <3> QED BY <1>2, <3>1, Multiples
  <2> QED BY <1>1, <1>3, <2>1
<1>5. ASSUME q <= c PROVE ~ (c * BlockSize < size)
  <2>1. q * BlockSize <= c * BlockSize
    BY <1>2, <1>5, Multiples
  <2> QED BY <1>1, <1>3, <2>1
<1> QED BY <1>2, <1>4, <1>5 DEF Blocks, q

(* What a name stands for. *)
LEMMA NodeTypes ==
  ASSUME NEW B, NEW node \in NodesOver(B)
  PROVE  /\ node.kind \in {"absent", "dir", "link", "file"} /\ node.data \in Seq(B)
         /\ node.kind = "dir" => node = Directory
         /\ node.kind = "absent" => node = Nothing
         /\ node.kind = "file" => node = [kind |-> "file", data |-> node.data]
         /\ node.kind = "link" => node = [kind |-> "link", data |-> node.data]
         /\ Size(node) \in Nat
<1>1. << >> \in Seq(B)
  BY EmptySeq
<1>2. CASE node \in {Nothing, Directory}
  <2>1. node.kind \in {"absent", "dir"} /\ node.data = << >>
    BY <1>2 DEF Directory, Nothing
  <2>2. node.kind = "dir" => node = Directory
    BY <1>2 DEF Directory, Nothing
  <2>3. node.kind = "absent" => node = Nothing
    BY <1>2 DEF Directory, Nothing
  <2> QED BY <1>1, <2>1, <2>2, <2>3 DEF Size
<1>3. CASE node \in [kind : {"link", "file"}, data : Seq(B)]
  <2>1. Len(node.data) \in Nat
    BY <1>3, LenProperties
  <2> QED BY <1>3, <2>1 DEF Size
<1> QED BY <1>2, <1>3 DEF NodesOver

LEMMA NodesMade ==
  ASSUME NEW B
  PROVE  /\ Nothing \in NodesOver(B) /\ Directory \in NodesOver(B)
         /\ \A data \in Seq(B) : /\ [kind |-> "file", data |-> data] \in NodesOver(B)
                                 /\ [kind |-> "link", data |-> data] \in NodesOver(B)
BY DEF NodesOver

LEMMA HeaderType ==
  ASSUME src \in [Paths -> NodesOver(Byte)], NEW p \in Paths, src[p].kind # "absent"
  PROVE  /\ Header(p) \in Headers /\ Header(p).kind = "header" /\ Header(p).name = p
         /\ Header(p).size = Size(src[p]) /\ Header(p).type = src[p].kind
         /\ src[p].kind # "file" => Header(p).size = 0
<1>1. src[p] \in NodesOver(Byte)
  OBVIOUS
<1>2. src[p].kind \in {"dir", "link", "file"} /\ src[p].data \in Seq(Byte) /\ Size(src[p]) \in Nat
  BY <1>1, NodeTypes
<1>3. << >> \in Seq(Byte)
  BY EmptySeq
<1> QED BY <1>2, <1>3 DEF Header, Headers, Size

(* A block filled up. *)
LEMMA PaddedType ==
  ASSUME NEW b \in Seq(Byte), Len(b) <= BlockSize
  PROVE  /\ Padded(b) \in Seq(Byte) /\ Len(Padded(b)) = BlockSize
         /\ Data(Padded(b)) \in DataBlocks
         /\ \A i \in 1..Len(b) : Padded(b)[i] = b[i]
<1> Len(b) \in Nat /\ BlockSize \in Nat \ {0} /\ Zero \in Byte
  BY BytesAndBlocks, LenProperties
<1> DEFINE n == BlockSize - Len(b)
<1>1. n \in Nat
  OBVIOUS
<1>2. Zeros(n) \in Seq(Byte) /\ Len(Zeros(n)) = n
  BY <1>1, IsASeq DEF Zeros
<1>3. Padded(b) \in Seq(Byte) /\ Len(Padded(b)) = Len(b) + n
      /\ \A i \in 1..(Len(b) + n) : Padded(b)[i] = IF i <= Len(b) THEN b[i] ELSE Zeros(n)[i - Len(b)]
  BY <1>2, ConcatProperties DEF Padded
<1>4. \A i \in 1..Len(b) : Padded(b)[i] = b[i]
  BY <1>1, <1>3
<1>5. Len(Padded(b)) = BlockSize
  BY <1>1, <1>3
<1> QED BY <1>3, <1>4, <1>5 DEF DataBlocks, Data

LEMMA ZerosType ==
  /\ Data(Zeros(BlockSize)) \in DataBlocks /\ IsZero(Data(Zeros(BlockSize)))
  /\ Data(Zeros(BlockSize)).kind = "data"
<1> BlockSize \in Nat \ {0} /\ Zero \in Byte
  BY BytesAndBlocks
<1>1. Zeros(BlockSize) \in Seq(Byte) /\ Len(Zeros(BlockSize)) = BlockSize
  BY IsASeq DEF Zeros
<1> QED BY <1>1 DEF Data, DataBlocks, IsZero

(* What read gives is part of the file, at most a block and what is left. *)
LEMMA ChunkType ==
  ASSUME TarTypeOK, path \in Paths
  PROVE  /\ Chunk \in Seq(Byte) /\ Len(Chunk) \in Nat
         /\ Len(Chunk) <= BlockSize /\ Len(Chunk) <= left
         /\ Data(Padded(Chunk)) \in DataBlocks
<1> DEFINE data == src[path].data
           m == offset + 1
           n == Least(offset + Least(left, BlockSize), Len(data))
<1>1. data \in Seq(Byte) /\ Len(data) \in Nat
  <2>1. src[path] \in NodesOver(Byte)
    BY DEF TarTypeOK, MakerTypeOK
  <2>2. data \in Seq(Byte)
    BY <2>1, NodeTypes
  <2> QED BY <2>2, LenProperties
<1>2. BlockSize \in Nat \ {0} /\ left \in Nat /\ offset \in Nat
  BY BytesAndBlocks DEF TarTypeOK, MakerTypeOK
<1>3. m \in Int /\ n \in Int /\ m >= 1 /\ n <= Len(data)
      /\ n - m + 1 <= BlockSize /\ n - m + 1 <= left
  BY <1>1, <1>2 DEF Least
<1>4. Chunk = SubSeq(data, m, n)
  BY DEF Chunk
<1> HIDE DEF m, n
<1>5. \A i \in m..n : data[i] \in Byte
  <2> SUFFICES ASSUME NEW i \in m..n PROVE data[i] \in Byte
    OBVIOUS
  <2>1. i \in 1..Len(data)
    BY <1>1, <1>3
  <2> QED BY <1>1, <2>1, ElementOfSeq
<1> HIDE DEF data
<1>6. SubSeq(data, m, n) \in Seq(Byte)
      /\ Len(SubSeq(data, m, n)) = IF m <= n THEN n - m + 1 ELSE 0
  BY <1>3, <1>5, SubSeqProperties
<1>7. Chunk \in Seq(Byte) /\ Len(Chunk) \in Nat /\ Len(Chunk) <= BlockSize /\ Len(Chunk) <= left
  BY <1>2, <1>3, <1>4, <1>6
<1> QED BY <1>7, PaddedType

-------------------------------------------------------------------------------
(* Trees that something is extracted into. *)
LEMMA WithDirsEffect ==
  ASSUME NEW B, NEW tree \in [Paths -> NodesOver(B)], WellFormed(tree), NEW p \in Paths
  PROVE  /\ WithDirs(tree, p) \in [Paths -> NodesOver(B)] /\ WellFormed(WithDirs(tree, p))
         /\ \A q \in Paths : tree[q].kind # "absent" => WithDirs(tree, p)[q] = tree[q]
         /\ WithDirs(tree, p)[p] = tree[p]
<1> DEFINE made(q) == /\ q \in Above[p] /\ tree[q] = Nothing
                      /\ \A a \in Above[q] : tree[a].kind \in {"absent", "dir"}
           new == WithDirs(tree, p)
<1>1. \A q \in Paths : new[q] = IF made(q) THEN Directory ELSE tree[q]
  BY DEF WithDirs
<1>2. new \in [Paths -> NodesOver(B)]
  <2>1. \A q \in Paths : (IF made(q) THEN Directory ELSE tree[q]) \in NodesOver(B)
    BY NodesMade
  <2>2. new = [q \in Paths |-> IF made(q) THEN Directory ELSE tree[q]]
    BY DEF WithDirs
  <2> HIDE DEF new, made
  <2> QED BY <2>1, <2>2
<1>3. Nothing.kind = "absent" /\ Directory.kind = "dir"
  BY DEF Nothing, Directory
<1>4. \A q \in Paths : tree[q].kind # "absent" => new[q] = tree[q]
  BY <1>1, <1>3
<1>5. new[p] = tree[p]
  BY <1>1, NamesBelowNames
<1>6. ASSUME NEW q \in Paths, new[q].kind # "absent", NEW a \in Above[q]
      PROVE  new[a].kind = "dir"
  <2>1. a \in Paths
    BY NamesBelowNames
  <2>2. CASE tree[q].kind # "absent"
    <3>1. tree[a].kind = "dir"
      BY <2>2 DEF WellFormed
    <3> QED BY <1>4, <2>1, <3>1
  <2>3. CASE tree[q].kind = "absent"
    <3>1. made(q)
      BY <1>1, <1>6, <2>3
    <3>2. a \in Above[p] /\ Above[a] \subseteq Above[q]
      BY <1>6, <3>1, NamesBelowNames
    <3>3. tree[a].kind \in {"absent", "dir"}
      BY <1>6, <3>1
    <3>4. CASE tree[a].kind = "dir"
      BY <1>4, <2>1, <3>4
    <3>5. CASE tree[a].kind = "absent"
      <4>1. tree[a] = Nothing
        BY <2>1, <3>5, NodeTypes
      <4>2. made(a)
        BY <3>1, <3>2, <4>1
      <4> HIDE DEF made
      <4> QED BY <1>1, <1>3, <2>1, <4>2
    <3> QED BY <3>3, <3>4, <3>5
  <2> QED BY <2>2, <2>3
<1>7. WellFormed(new)
  BY <1>6 DEF WellFormed
<1> HIDE DEF new, made
<1> QED BY <1>2, <1>4, <1>5, <1>7 DEF new

(* Something put where there is no directory leaves a tree well-formed. *)
LEMMA PutWellFormed ==
  ASSUME NEW B, NEW tree \in [Paths -> NodesOver(B)], WellFormed(tree), NEW p \in Paths,
         Reachable(tree, p), tree[p].kind # "dir", NEW node
  PROVE  WellFormed([tree EXCEPT ![p] = node])
<1> DEFINE new == [tree EXCEPT ![p] = node]
<1> SUFFICES ASSUME NEW q \in Paths, new[q].kind # "absent", NEW a \in Above[q]
             PROVE  new[a].kind = "dir"
  BY DEF WellFormed
<1>1. a \in Paths /\ (q = p => a # p)
  BY NamesBelowNames
<1>2. tree[a].kind = "dir"
  <2>1. CASE q = p
    BY <2>1 DEF Reachable
  <2>2. CASE q # p
    <3>1. new[q] = tree[q]
      BY <2>2
    <3> QED BY <3>1 DEF WellFormed
  <2> QED BY <2>1, <2>2
<1>3. a # p
  BY <1>2
<1>4. new[a] = tree[a]
  BY <1>1, <1>3
<1> QED BY <1>2, <1>4

LEMMA MadeEffect ==
  ASSUME NEW B, NEW tree \in [Paths -> NodesOver(B)], WellFormed(tree),
         NEW header, header.name \in Paths, header.link \in Seq(B)
  PROVE  /\ Made(tree, header) \in [Paths -> NodesOver(B)] /\ WellFormed(Made(tree, header))
         /\ \A q \in Paths : q # header.name => Made(tree, header)[q] = tree[q]
         /\ header.type = "dir" /\ Made(tree, header)[header.name].kind = "dir" =>
              Made(tree, header)[header.name] = Directory
         /\ header.type = "link" /\ Made(tree, header)[header.name].kind = "link" =>
              Made(tree, header)[header.name] = [kind |-> "link", data |-> header.link]
<1> DEFINE name == header.name
           new == Made(tree, header)
           link == [kind |-> "link", data |-> header.link]
<1>1. name \in Paths /\ link \in NodesOver(B) /\ Directory \in NodesOver(B)
      /\ link.kind = "link" /\ Directory.kind = "dir"
  BY NodesMade DEF Directory
<1>2. tree[name] \in NodesOver(B)
  BY <1>1
<1>3. tree[name].kind = "dir" => tree[name] = Directory
  BY <1>2, NodeTypes
<1>4. CASE ~ Reachable(tree, name)
  <2>1. new = tree
    BY <1>4 DEF Made
  <2>2. tree[name].kind = "absent"
    BY <1>1, <1>4 DEF WellFormed, Reachable
  <2> HIDE DEF new
  <2> QED BY <2>1, <2>2 DEF new
<1>5. CASE Reachable(tree, name) /\ header.type = "dir" /\ tree[name] = Nothing
  <2>1. new = [tree EXCEPT ![name] = Directory]
    BY <1>5 DEF Made
  <2>2. tree[name].kind # "dir"
    BY <1>5 DEF Nothing
  <2>3. WellFormed(new)
    <3>1. WellFormed([tree EXCEPT ![name] = Directory])
      BY <1>1, <1>2, <1>5, <2>2, PutWellFormed
    <3> HIDE DEF new
    <3> QED BY <2>1, <3>1
  <2>4. new[name] = Directory /\ new \in [Paths -> NodesOver(B)]
        /\ \A q \in Paths : q # name => new[q] = tree[q]
    BY <1>1, <2>1
  <2> HIDE DEF new
  <2> QED BY <1>5, <2>3, <2>4 DEF new
<1>6. CASE Reachable(tree, name) /\ header.type = "link" /\ tree[name].kind # "dir"
  <2>1. new = [tree EXCEPT ![name] = link]
    BY <1>6 DEF Made
  <2>3. WellFormed(new)
    <3>1. WellFormed([tree EXCEPT ![name] = link])
      BY <1>1, <1>6, PutWellFormed
    <3> HIDE DEF new
    <3> QED BY <2>1, <3>1
  <2>4. new[name] = link /\ new \in [Paths -> NodesOver(B)]
        /\ \A q \in Paths : q # name => new[q] = tree[q]
    BY <1>1, <2>1
  <2> HIDE DEF new
  <2> QED BY <1>6, <2>3, <2>4 DEF new
<1>7. CASE /\ Reachable(tree, name)
           /\ ~ (header.type = "dir" /\ tree[name] = Nothing)
           /\ ~ (header.type = "link" /\ tree[name].kind # "dir")
  <2>1. new = tree
    BY <1>7 DEF Made
  <2>2. header.type = "link" => tree[name].kind = "dir"
    BY <1>7
  <2> HIDE DEF new
  <2> QED BY <1>3, <2>1, <2>2 DEF new
<1> QED BY <1>4, <1>5, <1>6, <1>7

-------------------------------------------------------------------------------
(* Types, and that trees are trees; this needs nothing to go well. *)

LEMMA WriteType ==
  ASSUME archive \in Seq(Headers \cup DataBlocks), failed \in BOOLEAN,
         NEW blocks \in Seq(Headers \cup DataBlocks), Write(blocks)
  PROVE  /\ archive' \in Seq(Headers \cup DataBlocks) /\ failed' \in BOOLEAN
         /\ Len(archive) <= Len(archive')
         /\ ~failed' => archive' = archive \o blocks /\ ~failed
<1>1. archive \o blocks \in Seq(Headers \cup DataBlocks)
      /\ Len(archive \o blocks) = Len(archive) + Len(blocks)
      /\ Len(archive) \in Nat /\ Len(blocks) \in Nat
  BY ConcatProperties, LenProperties
<1> HIDE DEF Headers, DataBlocks
<1>2. CASE archive' = archive \o blocks /\ failed' = failed
  BY <1>1, <1>2
<1>3. CASE Faulty /\ archive' = archive /\ failed' = TRUE
  BY <1>1, <1>3
<1> QED BY <1>2, <1>3 DEF Write

LEMMA TodoType ==
  ASSUME todo \in Seq(Paths), todo # << >>
  PROVE  /\ Head(todo) \in Paths /\ Tail(todo) \in Seq(Paths) /\ Len(todo) \in Nat \ {0}
         /\ Len(Tail(todo)) = Len(todo) - 1 /\ Head(todo) = todo[1]
         /\ \A i \in 1..Len(Tail(todo)) : Tail(todo)[i] = todo[i + 1]
BY HeadTailProperties, EmptySeq

LEMMA EntriesListed ==
  ASSUME NEW p \in Paths, NEW names \in SetToSeqs(Entries(p))
  PROVE  names \in Seq(Paths) /\ \A q \in Entries(p) : \E i \in 1..Len(names) : names[i] = q
<1> DEFINE S == Entries(p)
           n == Cardinality(S)
<1>1. S \subseteq Paths
  BY DEF Entries
<1>2. IsFiniteSet(S) /\ n \in Nat
  BY <1>1, NamesBelowNames, FS_Subset, FS_CardinalityType
<1>3. names \in [1..n -> S] /\ \A i, j \in 1..n : i # j => names[i] # names[j]
  BY DEF SetToSeqs
<1> HIDE DEF S
<1>4. names \in Seq(S) /\ Len(names) = n
  <2>1. names \in UNION {[1..m -> S] : m \in Nat}
    BY <1>2, <1>3
  <2>2. names \in Seq(S)
    BY <2>1, SeqDef
  <2>3. DOMAIN names = 1..n /\ DOMAIN names = 1..Len(names) /\ Len(names) \in Nat
    BY <1>3, <2>2, LenProperties
  <2> QED BY <1>2, <2>2, <2>3
<1>5. names \in Seq(Paths)
  BY <1>1, <1>4, SeqMonotonic
<1>6. ASSUME NEW q \in S PROVE \E i \in 1..n : names[i] = q
  <2> DEFINE I == 1..n
  <2>1. IsFiniteSet(I) /\ Cardinality(I) = n
    BY <1>2, FS_Interval
  <2> HIDE DEF I
  <2>2. \A i, j \in I : names[i] = names[j] => i = j
    BY <1>3 DEF I
  <2>3. names \in [I -> S]
    BY <1>3 DEF I
  <2>4. names \in Injection(I, S)
    BY <2>2, <2>3 DEF Injection, IsInjective
  <2>5. names \in Surjection(I, S)
    BY <1>2, <2>1, <2>4, FS_Injection
  <2>6. \E i \in I : names[i] = q
    BY <2>5 DEF Surjection
  <2> QED BY <2>6 DEF I
<1> QED BY <1>4, <1>5, <1>6 DEF S

LEMMA InitType == TarInit => TarTypeOK /\ TreesOK
<1> SUFFICES ASSUME TarInit PROVE TarTypeOK /\ TreesOK
  OBVIOUS
<1>1. src \in Trees /\ todo \in Seq(Paths)
  BY TreesAndArguments DEF TarInit
<1>2. PICK tree \in Targets : dst = [d \in Dirs |-> tree]
  BY DEF TarInit
<1>3. tree \in Trees
  BY TreesAndArguments
<1>4. NodesOver(Byte) \subseteq NodesOver(Byte \cup {Junk})
  <2>1. Seq(Byte) \subseteq Seq(Byte \cup {Junk})
    BY SeqMonotonic
  <2> QED BY <2>1 DEF NodesOver
<1>5. dst \in [Dirs -> [Paths -> NodesOver(Byte \cup {Junk})]] /\ WellFormed(dst[Here])
  <2>1. tree \in [Paths -> NodesOver(Byte \cup {Junk})] /\ WellFormed(tree)
    BY <1>3, <1>4 DEF Trees
  <2>2. dst[Here] = tree
    BY <1>2, TreesAndArguments
  <2> QED BY <1>2, <2>1, <2>2
<1>6. << >> \in Seq(Headers \cup DataBlocks) /\ << >> \in Seq(Paths \cup {Nowhere}) /\ Len(<< >>) = 0
  BY EmptySeq
<1>7. /\ doing = "walk" /\ path = Nowhere /\ left = 0 /\ offset = 0 /\ archive = << >>
      /\ at = 0 /\ zeros = 0 /\ listed = << >> /\ ret = 0 /\ changed = {} /\ dir \in Dirs
      /\ op \in {"extract", "list"}
  BY DEF TarInit
<1>8. FlagsOK
  BY Zenon DEF TarInit, FlagsOK
<1> HIDE DEF Headers, DataBlocks
<1>9. MakerTypeOK
  BY <1>1, <1>6, <1>7 DEF MakerTypeOK, Trees
<1>10. ReaderTypeOK
  <2>1. at \in 0..Len(archive) /\ listed \in Seq(Paths \cup {Nowhere})
    BY <1>6, <1>7
  <2> QED BY <1>5, <1>7, <2>1 DEF ReaderTypeOK
<1> QED BY <1>1, <1>5, <1>8, <1>9, <1>10 DEF TarTypeOK, TreesOK, Trees

(* Steps that change nothing the reader looks at keep its types. *)
LEMMA ReaderRests ==
  ASSUME TarTypeOK, UNCHANGED <<at, zeros, dst, listed, ret, op, dir>>,
         Len(archive') \in Nat, Len(archive) <= Len(archive') \/ at = 0,
         doing' \in {"walk", "open", "copy", "sent"} => at = 0, doing' # "body"
  PROVE  ReaderTypeOK'
<1>1. at \in 0..Len(archive) /\ Len(archive) \in Nat
  BY LenProperties DEF TarTypeOK, MakerTypeOK, ReaderTypeOK
<1>2. at' \in 0..Len(archive')
  BY <1>1
<1> QED BY <1>2 DEF TarTypeOK, ReaderTypeOK

(* Steps that keep the trees. *)
LEMMA TreesRest ==
  ASSUME TreesOK, UNCHANGED <<src, dst>>
  PROVE  TreesOK'
BY DEF TreesOK, WellFormed

LEMMA MakerType ==
  ASSUME TarTypeOK,
         MemberGone \/ AddMember \/ OpenMember \/ CopyBlock \/ MemberCopied \/ EndArchive \/ Deliver
  PROVE  MakerTypeOK' /\ FlagsOK' /\ ReaderTypeOK'
<1> USE DEF makerVars, readerVars, wayVars
<1>0. Len(archive) \in Nat /\ archive \in Seq(Headers \cup DataBlocks)
      /\ (doing \in {"walk", "open", "copy", "sent"} => at = 0)
  BY LenProperties DEF TarTypeOK, MakerTypeOK, ReaderTypeOK
<1>1. CASE MemberGone
  <2>1. todo' \in Seq(Paths)
    BY <1>1, TodoType DEF MemberGone, TarTypeOK, MakerTypeOK
  <2>2. FlagsOK'
    BY <1>1, Zenon DEF MemberGone, TarTypeOK, FlagsOK
  <2>3. ReaderTypeOK'
    BY <1>0, <1>1, ReaderRests DEF MemberGone
  <2> QED BY <1>1, <2>1, <2>2, <2>3 DEF MemberGone, TarTypeOK, MakerTypeOK
<1>2. CASE AddMember
  <2> DEFINE p == Head(todo)
             B == Headers \cup DataBlocks
  <2>1. p \in Paths /\ Tail(todo) \in Seq(Paths) /\ src[p].kind # "absent"
    BY <1>2, TodoType DEF AddMember, TarTypeOK, MakerTypeOK
  <2>2. Header(p) \in B
    BY <2>1, HeaderType DEF TarTypeOK, MakerTypeOK
  <2>3. Size(src[p]) \in Nat
    BY <2>1, NodeTypes DEF TarTypeOK, MakerTypeOK
  <2>4. /\ path' = p /\ left' = Size(src[p]) /\ offset' = 0 /\ doing' \in {"open", "walk"}
        /\ UNCHANGED <<src, changed, at, zeros, dst, listed, ret, op, dir>> /\ at = 0
    BY <1>0, <1>2 DEF AddMember
  <2>5. UNCHANGED <<short, partial, cut>>
    BY <1>2, Zenon DEF AddMember
  <2>6. /\ archive' \in Seq(B) /\ failed' \in BOOLEAN /\ todo' \in Seq(Paths)
    <3>1. <<Header(p)>> \in Seq(B) /\ Append(archive, Header(p)) \in Seq(B)
      <4> HIDE DEF B
      <4> QED BY <1>0, <2>2 DEF B
    <3>2. CASE Write(<<Header(p)>>) /\ todo' = Tail(todo)
      BY <1>0, <2>1, <3>1, <3>2, WriteType DEF TarTypeOK, FlagsOK
    <3>3. CASE Write(<<Header(p)>>) /\ \E names \in SetToSeqs(Entries(p)) : todo' = names \o Tail(todo)
      <4>1. todo' \in Seq(Paths)
        BY <2>1, <3>3, EntriesListed, ConcatProperties
      <4> QED BY <1>0, <3>1, <3>3, <4>1, WriteType DEF TarTypeOK, FlagsOK
    <3>4. CASE archive' \in {archive, Append(archive, Header(p))} /\ failed' = TRUE /\ todo' = Tail(todo)
      <4>1. archive' \in Seq(B)
        BY <1>0, <3>1, <3>4
      <4> QED BY <2>1, <3>4, <4>1
    <3>5. \/ Write(<<Header(p)>>) /\ todo' = Tail(todo)
          \/ Write(<<Header(p)>>) /\ \E names \in SetToSeqs(Entries(p)) : todo' = names \o Tail(todo)
          \/ archive' \in {archive, Append(archive, Header(p))} /\ failed' = TRUE /\ todo' = Tail(todo)
      BY <1>2, Zenon DEF AddMember
    <3> HIDE DEF p, B
    <3> QED BY <3>2, <3>3, <3>4, <3>5
  <2> HIDE DEF p
  <2>7. MakerTypeOK'
    BY <2>1, <2>3, <2>4, <2>6 DEF TarTypeOK, MakerTypeOK
  <2>8. FlagsOK'
    BY <2>5, <2>6, Zenon DEF TarTypeOK, FlagsOK
  <2>9. ReaderTypeOK'
    <3>1. Len(archive') \in Nat
      BY <2>6, LenProperties
    <3> QED BY <2>4, <3>1, ReaderRests
  <2> QED BY <2>7, <2>8, <2>9
<1>3. CASE OpenMember
  <2>1. /\ doing' \in {"copy", "walk"} /\ path \in Paths
    BY <1>3, Zenon DEF OpenMember, TarTypeOK, MakerTypeOK
  <2>2. UNCHANGED <<src, todo, offset, changed, path, left, archive, at, zeros, dst, listed, ret,
                     op, dir>> /\ at = 0
    BY <1>0, <1>3 DEF OpenMember
  <2>3. FlagsOK'
    BY <1>3, Zenon DEF OpenMember, TarTypeOK, FlagsOK
  <2>4. ReaderTypeOK'
    BY <1>0, <2>1, <2>2, ReaderRests
  <2> QED BY <2>1, <2>2, <2>3, <2>4 DEF TarTypeOK, MakerTypeOK
<1>4. CASE CopyBlock
  <2>1. path \in Paths /\ Chunk \in Seq(Byte) /\ Len(Chunk) \in Nat /\ Len(Chunk) <= left
        /\ Data(Padded(Chunk)) \in DataBlocks
    BY <1>4, ChunkType DEF CopyBlock, TarTypeOK, MakerTypeOK
  <2>2. <<Data(Padded(Chunk))>> \in Seq(Headers \cup DataBlocks)
    BY <2>1
  <2>3. archive' \in Seq(Headers \cup DataBlocks) /\ failed' \in BOOLEAN
    BY <1>0, <1>4, <2>2, WriteType DEF CopyBlock, TarTypeOK, FlagsOK
  <2>4. left' \in Nat /\ offset' \in Nat
    BY <1>4, <2>1 DEF CopyBlock, TarTypeOK, MakerTypeOK
  <2>5. UNCHANGED <<doing, src, todo, changed, path, at, zeros, dst, listed, ret, op, dir>> /\ at = 0
        /\ doing = "copy"
    BY <1>0, <1>4 DEF CopyBlock
  <2>6. FlagsOK'
    <3>1. short' \in BOOLEAN
      BY <1>4, Zenon DEF CopyBlock, TarTypeOK, FlagsOK
    <3>2. UNCHANGED <<partial, cut>>
      BY <1>4, Zenon DEF CopyBlock
    <3> QED BY <2>3, <3>1, <3>2, Zenon DEF TarTypeOK, FlagsOK
  <2>7. ReaderTypeOK'
    <3>1. Len(archive') \in Nat
      BY <2>3, LenProperties
    <3> QED BY <2>5, <3>1, ReaderRests
  <2>8. MakerTypeOK'
    BY <2>1, <2>3, <2>4, <2>5 DEF TarTypeOK, MakerTypeOK
  <2> QED BY <2>6, <2>7, <2>8
<1>5. CASE MemberCopied
  <2>1. UNCHANGED <<src, todo, offset, changed, path, left, archive, at, zeros, dst, listed, ret,
                     op, dir>> /\ at = 0 /\ doing' = "walk"
    BY <1>0, <1>5 DEF MemberCopied
  <2>2. FlagsOK'
    BY <1>5, Zenon DEF MemberCopied, TarTypeOK, FlagsOK
  <2>3. ReaderTypeOK'
    BY <1>0, <2>1, ReaderRests
  <2> QED BY <2>1, <2>2, <2>3 DEF TarTypeOK, MakerTypeOK
<1>6. CASE EndArchive
  <2>1. <<Data(Zeros(BlockSize)), Data(Zeros(BlockSize))>> \in Seq(Headers \cup DataBlocks)
    BY ZerosType
  <2>2. archive' \in Seq(Headers \cup DataBlocks) /\ failed' \in BOOLEAN
    BY <1>0, <1>6, <2>1, WriteType DEF EndArchive, TarTypeOK, FlagsOK
  <2>3. UNCHANGED <<src, todo, offset, changed, path, left, at, zeros, dst, listed, ret,
                     op, dir>> /\ at = 0 /\ doing' = "sent"
    BY <1>0, <1>6 DEF EndArchive
  <2>4. FlagsOK'
    <3>1. UNCHANGED <<short, partial, cut>>
      BY <1>6, Zenon DEF EndArchive
    <3> QED BY <2>2, <3>1, Zenon DEF TarTypeOK, FlagsOK
  <2>5. ReaderTypeOK'
    <3>1. Len(archive') \in Nat
      BY <2>2, LenProperties
    <3> QED BY <2>3, <3>1, ReaderRests
  <2>6. MakerTypeOK'
    BY <2>2, <2>3 DEF TarTypeOK, MakerTypeOK
  <2> QED BY <2>4, <2>5, <2>6
<1>7. CASE Deliver
  <2> DEFINE B == Headers \cup DataBlocks
  <2>1. PICK k \in 0..Len(archive) : /\ archive' = SubSeq(archive, 1, k)
                                     /\ partial' \in IF k < Len(archive) THEN BOOLEAN ELSE {FALSE}
                                     /\ cut' = (k < Len(archive))
    BY <1>7 DEF Deliver
  <2>2. archive' \in Seq(B) /\ Len(archive') \in Nat
    <3>1. \A i \in 1..k : archive[i] \in B
      BY <1>0, ElementOfSeq
    <3> HIDE DEF B
    <3> QED BY <1>0, <2>1, <3>1, SubSeqProperties
  <2>3. FlagsOK'
    <3>1. partial' \in BOOLEAN
      <4>1. (IF k < Len(archive) THEN BOOLEAN ELSE {FALSE}) \subseteq BOOLEAN
        OBVIOUS
      <4> QED BY <2>1, <4>1, Zenon
    <3>2. cut' \in BOOLEAN
      BY <2>1
    <3>3. UNCHANGED <<short, failed>>
      BY <1>7, Zenon DEF Deliver
    <3> QED BY <3>1, <3>2, <3>3, Zenon DEF TarTypeOK, FlagsOK
  <2>4. UNCHANGED <<src, todo, offset, changed, path, left, at, zeros, dst, listed, ret,
                     op, dir>> /\ doing' = "head" /\ at = 0
    BY <1>0, <1>7 DEF Deliver
  <2>5. ReaderTypeOK'
    BY <2>2, <2>4, ReaderRests
  <2>6. MakerTypeOK'
    BY <2>2, <2>4 DEF TarTypeOK, MakerTypeOK
  <2> QED BY <2>3, <2>5, <2>6
<1> QED BY <1>1, <1>2, <1>3, <1>4, <1>5, <1>6, <1>7

LEMMA BlockType ==
  ASSUME TarTypeOK, at < Len(archive)
  PROVE  /\ Block \in Headers \cup DataBlocks
         /\ Block.kind = "header" => /\ Block \in Headers /\ Block.name \in Paths
                                     /\ Block.size \in Nat /\ Block.link \in Seq(Byte \cup {Junk})
                                     /\ Blocks(Block.size) \in Nat
         /\ Block.kind # "header" => Block.kind = "data" /\ Block \in DataBlocks
         /\ at + 1 \in 1..Len(archive) /\ Len(archive) \in Nat
<1>1. archive \in Seq(Headers \cup DataBlocks) /\ at \in 0..Len(archive) /\ Len(archive) \in Nat
  BY LenProperties DEF TarTypeOK, MakerTypeOK, ReaderTypeOK
<1>2. at + 1 \in 1..Len(archive)
  BY <1>1
<1>3. Block \in Headers \cup DataBlocks
  BY <1>1, <1>2, ElementOfSeq DEF Block
<1>4. ASSUME Block \in Headers PROVE Block.link \in Seq(Byte \cup {Junk}) /\ Blocks(Block.size) \in Nat
  <2>1. Block.link \in Seq(Byte) /\ Block.size \in Nat
    BY <1>4 DEF Headers
  <2>2. 0 \in Nat
    OBVIOUS
  <2>3. Blocks(Block.size) \in Nat
    BY <2>1, <2>2, BlocksLess
  <2> QED BY <2>1, <2>3, SeqMonotonic
<1> QED BY <1>1, <1>2, <1>3, <1>4 DEF Headers, DataBlocks

LEMMA SkipType ==
  ASSUME Len(archive) \in Nat, at \in 0..Len(archive), partial \in BOOLEAN, NEW n \in Nat, SkipBlocks(n)
  PROVE  at' \in 0..Len(archive) /\ partial' \in BOOLEAN
<1>1. at' \in 0..Len(archive)
  BY DEF SkipBlocks, Least
<1>2. partial' \in BOOLEAN
  BY Zenon DEF SkipBlocks
<1> QED BY <1>1, <1>2

(* Only the kinds of what is there make a tree a tree. *)
LEMMA KindsWellFormed ==
  ASSUME NEW tree, NEW new, WellFormed(tree), \A p \in Paths : new[p].kind = tree[p].kind
  PROVE  WellFormed(new)
BY NamesBelowNames DEF WellFormed

(* What the reader's steps do to the directory that it is started in. *)
LEMMA ReaderTrees ==
  ASSUME TarTypeOK, TreesOK, ExtractOther \/ CreateFile \/ CannotCreate \/ ExtractBlock
  PROVE  /\ dst' \in [Dirs -> [Paths -> NodesOver(Byte \cup {Junk})]]
         /\ WellFormed(dst'[Here]) /\ src' = src
         /\ doing' = "body" => path' \in Paths
         /\ doing' = "body" /\ path' \notin astray' => dst'[Here][path'].kind = "file"
<1> USE DEF makerVars, readerVars, wayVars
<1> DEFINE B == Byte \cup {Junk}
<1>1. /\ dst \in [Dirs -> [Paths -> NodesOver(B)]] /\ Here \in Dirs
      /\ dst[Here] \in [Paths -> NodesOver(B)] /\ WellFormed(dst[Here]) /\ Tree = dst[Here]
  BY TreesAndArguments DEF TarTypeOK, ReaderTypeOK, TreesOK, Tree
<1> DEFINE tree(p) == WithDirs(dst[Here], p)
<1>2. ASSUME NEW p \in Paths
      PROVE  tree(p) \in [Paths -> NodesOver(B)] /\ WellFormed(tree(p))
  BY <1>1, WithDirsEffect
<1>3. ASSUME NEW t \in [Paths -> NodesOver(B)], WellFormed(t), dst' = [dst EXCEPT ![Here] = t]
      PROVE  /\ dst' \in [Dirs -> [Paths -> NodesOver(B)]] /\ dst'[Here] = t
             /\ WellFormed(dst'[Here])
  <2> HIDE DEF B
  <2>1. dst' \in [Dirs -> [Paths -> NodesOver(B)]] /\ dst'[Here] = t
    BY <1>1, <1>3
  <2> QED BY <1>3, <2>1
<1> HIDE DEF B
<1>4. CASE ExtractOther
  <2>1. at < Len(archive) /\ Block.kind = "header"
    BY <1>4 DEF ExtractOther, AtMember
  <2>2. Block.name \in Paths /\ Block.link \in Seq(B)
    BY <2>1, BlockType DEF B
  <2> DEFINE t == Made(tree(Block.name), Block)
  <2>3. t \in [Paths -> NodesOver(B)] /\ WellFormed(t)
    <3> HIDE DEF tree
    <3> QED BY <1>2, <2>2, MadeEffect
  <2>4. dst' = [dst EXCEPT ![Here] = t] /\ doing' = "head" /\ src' = src
    BY <1>1, <1>4 DEF ExtractOther, AtMember
  <2> HIDE DEF t
  <2> QED BY <1>3, <2>3, <2>4 DEF B
<1>5. CASE CreateFile
  <2>1. at < Len(archive) /\ Block.kind = "header"
    BY <1>5 DEF CreateFile, AtMember
  <2>2. Block.name \in Paths
    BY <2>1, BlockType
  <2> DEFINE p == Block.name
             node == [kind |-> "file", data |-> << >>]
             t == [tree(p) EXCEPT ![p] = node]
  <2>a. src' = src /\ path' = p
    BY <1>5 DEF CreateFile
  <2>b. CASE dst' = [dst EXCEPT ![Here] = tree(p)] /\ p \in astray'
    <3> HIDE DEF tree
    <3>1. tree(p) \in [Paths -> NodesOver(B)] /\ WellFormed(tree(p))
      BY <1>2, <2>2
    <3> HIDE DEF p
    <3> QED BY <1>3, <2>a, <2>b, <2>2, <3>1 DEF p, B
  <2>c. \/ dst' = [dst EXCEPT ![Here] = tree(p)] /\ p \in astray'
        \/ Creatable(tree(p), p) /\ dst' = [dst EXCEPT ![Here] = t]
    BY <1>1, <1>5 DEF CreateFile
  <2>d. SUFFICES ASSUME Creatable(tree(p), p), dst' = [dst EXCEPT ![Here] = t]
                 PROVE  /\ dst' \in [Dirs -> [Paths -> NodesOver(Byte \cup {Junk})]]
                        /\ WellFormed(dst'[Here]) /\ src' = src
                        /\ doing' = "body" => path' \in Paths
                        /\ doing' = "body" /\ path' \notin astray' => dst'[Here][path'].kind = "file"
    BY <2>b, <2>c, Zenon
  <2>3. Creatable(tree(p), p) /\ dst' = [dst EXCEPT ![Here] = t] /\ src' = src /\ path' = p
    BY <2>a, <2>d
  <2>4. node \in NodesOver(B) /\ node.kind = "file"
    BY EmptySeq, NodesMade
  <2>5. t \in [Paths -> NodesOver(B)] /\ t[p] = node
    BY <1>2, <2>2, <2>4
  <2>6. WellFormed(t)
    <3>1. Reachable(tree(p), p) /\ tree(p)[p].kind # "dir"
      BY <2>3 DEF Creatable
    <3> HIDE DEF tree
    <3> QED BY <1>2, <2>2, <3>1, PutWellFormed
  <2>7. t[p].kind = "file"
    BY <2>4, <2>5
  <2> HIDE DEF t, p
  <2>8. dst' \in [Dirs -> [Paths -> NodesOver(B)]] /\ dst'[Here] = t /\ WellFormed(dst'[Here])
    BY <1>3, <2>3, <2>5, <2>6
  <2> QED BY <2>2, <2>3, <2>7, <2>8 DEF p, B
<1>6. CASE CannotCreate
  <2>1. at < Len(archive) /\ Block.kind = "header"
    BY <1>6 DEF CannotCreate, AtMember
  <2>2. Block.name \in Paths
    BY <2>1, BlockType
  <2>3. dst' = [dst EXCEPT ![Here] = tree(Block.name)] /\ src' = src /\ doing' = "head"
    BY <1>1, <1>6 DEF CannotCreate, AtMember
  <2> HIDE DEF tree
  <2> QED BY <1>2, <1>3, <2>2, <2>3 DEF B
<1>7. CASE ExtractBlock
  <2> DEFINE bytes == SubSeq(Bytes(Block), 1, Least(left, BlockSize))
             node == dst[Here][path]
             new == [kind |-> "file", data |-> node.data \o bytes]
             t == [dst[Here] EXCEPT ![path] = new]
  <2>1. /\ path \in Paths /\ node \in NodesOver(B)
        /\ node.kind = "file" => /\ node = [kind |-> "file", data |-> node.data]
                                /\ node.data \in Seq(B)
        /\ path \notin astray => node.kind = "file"
    <3>1. path \in Paths /\ (path \notin astray => node.kind = "file")
      BY <1>7 DEF ExtractBlock, TarTypeOK, MakerTypeOK, ReaderTypeOK
    <3>2. node \in NodesOver(B)
      BY <1>1, <3>1
    <3> QED BY <3>1, <3>2, NodeTypes
  <2>2. bytes \in Seq(B)
    <3>1. Bytes(Block) \in Seq(B) /\ Len(Bytes(Block)) = BlockSize
      <4>1. CASE Block.kind = "data"
        <5>1. Block.bytes \in Seq(Byte) /\ Len(Block.bytes) = BlockSize
          BY <1>7, <4>1, BlockType DEF ExtractBlock, DataBlocks
        <5> QED BY <4>1, <5>1, SeqMonotonic DEF Bytes, B
      <4>2. CASE Block.kind # "data"
        <5>1. Bytes(Block) = [i \in 1..BlockSize |-> Junk]
          BY <4>2 DEF Bytes
        <5> QED BY <5>1, IsASeq, BytesAndBlocks DEF B
      <4> QED BY <4>1, <4>2
    <3>2. Least(left, BlockSize) \in 0..BlockSize
      BY BytesAndBlocks DEF Least, TarTypeOK, MakerTypeOK
    <3>3. \A i \in 1..Least(left, BlockSize) : Bytes(Block)[i] \in B
      BY <3>1, <3>2, ElementOfSeq, BytesAndBlocks
    <3> QED BY <3>2, <3>3, SubSeqProperties
  <2>3. src' = src /\ path' = path /\ astray' = astray
    BY <1>7 DEF ExtractBlock
  <2>4. CASE dst' = dst
    BY <1>1, <2>1, <2>3, <2>4 DEF B
  <2>5. CASE node.kind = "file" /\ dst' = [dst EXCEPT ![Here][path].data = @ \o bytes]
    <3>0. node = [kind |-> "file", data |-> node.data] /\ node.data \in Seq(B)
      BY <2>1, <2>5
    <3>1. node.data \o bytes \in Seq(B)
      BY <3>0, <2>2, ConcatProperties
    <3>2. new \in NodesOver(B) /\ new.kind = "file"
      BY <3>1, NodesMade
    <3>3. dst' = [dst EXCEPT ![Here] = t]
      <4> HIDE DEF bytes
      <4>1. \A d, e : [[kind |-> "file", data |-> d] EXCEPT !.data = e] = [kind |-> "file", data |-> e]
        OBVIOUS
      <4>2. dst' = [dst EXCEPT ![Here] = [dst[Here] EXCEPT ![path] =
                                            [node EXCEPT !.data = node.data \o bytes]]]
        BY <2>5, Zenon
      <4>3. [node EXCEPT !.data = node.data \o bytes] = new
        BY <3>0, <4>1, Zenon
      <4> QED BY <4>2, <4>3, Zenon
    <3>4. t \in [Paths -> NodesOver(B)] /\ t[path] = new /\ \A p \in Paths : t[p].kind = dst[Here][p].kind
      <4> HIDE DEF bytes
      <4> QED BY <1>1, <2>1, <2>5, <3>2
    <3>5. WellFormed(t)
      <4> HIDE DEF t
      <4> QED BY <1>1, <3>4, KindsWellFormed
    <3> HIDE DEF t, new
    <3> QED BY <1>3, <2>1, <2>3, <3>2, <3>3, <3>4, <3>5 DEF B
  <2>6. dst' = dst \/ (node.kind = "file" /\ dst' = [dst EXCEPT ![Here][path].data = @ \o bytes])
    BY <1>1, <1>7, Zenon DEF ExtractBlock
  <2> QED BY <2>4, <2>5, <2>6
<1> QED BY <1>4, <1>5, <1>6, <1>7 DEF B

LEMMA ReaderType ==
  ASSUME TarTypeOK, TreesOK,
         \/ NoMoreBlocks \/ SkipZeroBlock \/ BadHeader \/ ListMember
         \/ ExtractOther \/ CreateFile \/ CannotCreate \/ ExtractBlock \/ MemberCutOff
  PROVE  TarTypeOK' /\ TreesOK'
<1> USE DEF makerVars, readerVars, wayVars
<1>1. /\ at \in 0..Len(archive) /\ Len(archive) \in Nat /\ zeros \in Nat
      /\ BlockSize \in Nat \ {0} /\ left \in Nat /\ listed \in Seq(Paths \cup {Nowhere})
  BY BytesAndBlocks, LenProperties DEF TarTypeOK, MakerTypeOK, ReaderTypeOK
<1>2. UNCHANGED <<src, todo, offset, changed, archive, op, dir>>
  BY Zenon DEF NoMoreBlocks, SkipZeroBlock, BadHeader, ListMember, ExtractOther, CreateFile,
               CannotCreate, ExtractBlock, MemberCutOff, SkipBlocks
<1>3. ASSUME FlagsOK', doing' \in {"head", "body", "done"}, path' \in Paths \cup {Nowhere}, left' \in Nat,
             doing' = "body" => path' \in Paths,
             doing' = "body" /\ path' \notin astray' => dst'[Here][path'].kind = "file",
             at' \in 0..Len(archive), zeros' \in Nat, ret' \in {0, 1},
             dst' \in [Dirs -> [Paths -> NodesOver(Byte \cup {Junk})]],
             listed' \in Seq(Paths \cup {Nowhere})
      PROVE  TarTypeOK'
  <2>1. MakerTypeOK'
    BY <1>2, <1>3 DEF TarTypeOK, MakerTypeOK
  <2>2. ReaderTypeOK'
    BY <1>2, <1>3 DEF TarTypeOK, ReaderTypeOK
  <2> QED BY <1>3, <2>1, <2>2 DEF TarTypeOK
<1>4. ASSUME dst' = dst PROVE TreesOK'
  BY <1>2, <1>4 DEF TreesOK, WellFormed
<1>5. CASE NoMoreBlocks
  <2>1. FlagsOK'
    BY <1>5, Zenon DEF NoMoreBlocks, TarTypeOK, FlagsOK
  <2>2. /\ doing' = "done" /\ ret' \in {0, 1} /\ path' = path /\ left' = left /\ at' = at
        /\ zeros' = zeros /\ dst' = dst /\ listed' = listed
    BY <1>5 DEF NoMoreBlocks, Return
  <2> QED BY <1>1, <1>3, <1>4, <2>1, <2>2 DEF TarTypeOK, MakerTypeOK, ReaderTypeOK
<1>6. CASE SkipZeroBlock
  <2>1. FlagsOK'
    BY <1>6, Zenon DEF SkipZeroBlock, TarTypeOK, FlagsOK
  <2>2. /\ doing' \in {"head", "done"} /\ ret' \in {0, ret} /\ path' = path /\ left' = left
        /\ at' = at + 1 /\ zeros' = zeros + 1 /\ dst' = dst /\ listed' = listed /\ at < Len(archive)
    BY <1>6 DEF SkipZeroBlock, Return
  <2>3. at' \in 0..Len(archive) /\ zeros' \in Nat
    BY <1>1, <2>2
  <2> QED BY <1>1, <1>3, <1>4, <2>1, <2>2, <2>3 DEF TarTypeOK, MakerTypeOK, ReaderTypeOK
<1>7. CASE BadHeader
  <2>1. FlagsOK'
    BY <1>7, Zenon DEF BadHeader, TarTypeOK, FlagsOK
  <2>2. /\ doing' = "done" /\ ret' = 1 /\ path' = path /\ left' = left /\ at' = at + 1
        /\ zeros' = 0 /\ dst' = dst /\ listed' = listed /\ at < Len(archive)
    BY <1>7 DEF BadHeader, AtMember, Return
  <2>3. at' \in 0..Len(archive)
    BY <1>1, <2>2
  <2> QED BY <1>1, <1>3, <1>4, <2>1, <2>2, <2>3 DEF TarTypeOK, MakerTypeOK, ReaderTypeOK
<1>8. CASE ListMember
  <2>1. /\ doing' = "head" /\ ret' = ret /\ path' = path /\ left' = left
        /\ zeros' = 0 /\ dst' = dst /\ at < Len(archive)
    BY <1>8 DEF ListMember, AtMember
  <2>2. /\ listed' \in Seq(Paths \cup {Nowhere})
        /\ \E n \in Nat : SkipBlocks(n)
    <3>1. CASE Block.kind = "header"
      <4>1. /\ Block.name \in Paths /\ Blocks(Block.size) \in Nat
        BY <2>1, <3>1, BlockType
      <4>2. listed' = Append(listed, Block.name) /\ SkipBlocks(1 + Blocks(Block.size))
        BY <1>8, <3>1 DEF ListMember
      <4>3. 1 + Blocks(Block.size) \in Nat
        BY <4>1
      <4>4. Append(listed, Block.name) \in Seq(Paths \cup {Nowhere})
        BY <1>1, <4>1
      <4> QED BY <4>2, <4>3, <4>4
    <3>2. CASE Block.kind # "header"
      <4>1. PICK n \in 0..Len(archive) : SkipBlocks(1 + n)
        BY <1>8, <3>2 DEF ListMember
      <4>2. listed' = Append(listed, Nowhere)
        BY <1>8, <3>2 DEF ListMember
      <4>3. Append(listed, Nowhere) \in Seq(Paths \cup {Nowhere})
        BY <1>1
      <4>4. 1 + n \in Nat
        OBVIOUS
      <4> QED BY <4>1, <4>2, <4>3, <4>4
    <3> QED BY <3>1, <3>2
  <2>3. at' \in 0..Len(archive) /\ partial' \in BOOLEAN
    BY <1>1, <2>2, SkipType DEF TarTypeOK, FlagsOK
  <2>4. FlagsOK'
    BY <1>8, <2>3, Zenon DEF ListMember, TarTypeOK, FlagsOK
  <2> QED BY <1>1, <1>3, <1>4, <2>1, <2>2, <2>3, <2>4 DEF TarTypeOK, MakerTypeOK, ReaderTypeOK
<1>9. CASE ExtractOther \/ CreateFile \/ CannotCreate \/ ExtractBlock
  <2>1. /\ dst' \in [Dirs -> [Paths -> NodesOver(Byte \cup {Junk})]] /\ TreesOK'
        /\ doing' = "body" => path' \in Paths
        /\ doing' = "body" /\ path' \notin astray' => dst'[Here][path'].kind = "file"
    <3>1. /\ dst' \in [Dirs -> [Paths -> NodesOver(Byte \cup {Junk})]]
          /\ WellFormed(dst'[Here]) /\ src' = src
          /\ doing' = "body" => path' \in Paths
          /\ doing' = "body" /\ path' \notin astray' => dst'[Here][path'].kind = "file"
      BY <1>9, ReaderTrees
    <3> QED BY <3>1 DEF TreesOK, WellFormed
  <2>2. ret' = ret /\ listed' = listed
    BY <1>9 DEF ExtractOther, CreateFile, CannotCreate, ExtractBlock
  <2>3. CASE ExtractOther
    <3>1. FlagsOK'
      <4>1. UNCHANGED <<partial, short, cut>>
        BY <2>3, Zenon DEF ExtractOther
      <4>2. failed' \in BOOLEAN
        BY <2>3, Zenon DEF ExtractOther, TarTypeOK, FlagsOK
      <4> QED BY <4>1, <4>2, Zenon DEF TarTypeOK, FlagsOK
    <3>2. doing' = "head" /\ path' = path /\ left' = left /\ at' = at + 1 /\ zeros' = 0 /\ at < Len(archive)
      BY <2>3 DEF ExtractOther, AtMember
    <3>3. at' \in 0..Len(archive)
      BY <1>1, <3>2
    <3> QED BY <1>1, <1>3, <2>1, <2>2, <3>1, <3>2, <3>3 DEF TarTypeOK, MakerTypeOK, ReaderTypeOK
  <2>4. CASE CreateFile
    <3>1. FlagsOK'
      BY <2>4, Zenon DEF CreateFile, TarTypeOK, FlagsOK
    <3>2. /\ doing' \in {"head", "body"} /\ path' = Block.name /\ left' = Block.size
          /\ at' = at + 1 /\ zeros' = 0 /\ at < Len(archive) /\ Block.kind = "header"
      BY <2>4 DEF CreateFile, AtMember
    <3>3. at' \in 0..Len(archive)
      BY <1>1, <3>2
    <3>4. Block.name \in Paths /\ Block.size \in Nat
      BY <3>2, BlockType
    <3> QED BY <1>1, <1>3, <2>1, <2>2, <3>1, <3>2, <3>3, <3>4 DEF TarTypeOK, MakerTypeOK, ReaderTypeOK
  <2>5. CASE CannotCreate
    <3>1. doing' = "head" /\ path' = path /\ left' = left /\ zeros' = 0 /\ at < Len(archive)
          /\ Block.kind = "header" /\ SkipBlocks(1 + Blocks(Block.size))
      BY <2>5 DEF CannotCreate, AtMember
    <3>2. 1 + Blocks(Block.size) \in Nat
      BY <3>1, BlockType
    <3>3. at' \in 0..Len(archive) /\ partial' \in BOOLEAN
      BY <1>1, <3>1, <3>2, SkipType DEF TarTypeOK, FlagsOK
    <3>4. FlagsOK'
      BY <2>5, <3>3, Zenon DEF CannotCreate, TarTypeOK, FlagsOK
    <3> QED BY <1>1, <1>3, <2>1, <2>2, <3>1, <3>3, <3>4 DEF TarTypeOK, MakerTypeOK, ReaderTypeOK
  <2>6. CASE ExtractBlock
    <3>1. FlagsOK'
      BY <2>6, Zenon DEF ExtractBlock, TarTypeOK, FlagsOK
    <3>2. /\ doing' \in {"head", "body"} /\ path' = path /\ left' = left - Least(left, BlockSize)
          /\ at' = at + 1 /\ zeros' = zeros /\ at < Len(archive)
      BY <2>6 DEF ExtractBlock
    <3>3. at' \in 0..Len(archive) /\ left' \in Nat
      BY <1>1, <3>2 DEF Least
    <3> QED BY <1>1, <1>3, <2>1, <2>2, <3>1, <3>2, <3>3 DEF TarTypeOK, MakerTypeOK, ReaderTypeOK
  <2> QED BY <1>9, <2>1, <2>3, <2>4, <2>5, <2>6
<1>10. CASE MemberCutOff
  <2>1. FlagsOK'
    BY <1>10, Zenon DEF MemberCutOff, TarTypeOK, FlagsOK
  <2>2. /\ doing' = "done" /\ ret' = 1 /\ path' = path /\ left' = left /\ at' = at
        /\ zeros' = zeros /\ dst' = dst /\ listed' = listed
    BY <1>10 DEF MemberCutOff, Return
  <2> QED BY <1>1, <1>3, <1>4, <2>1, <2>2 DEF TarTypeOK, MakerTypeOK, ReaderTypeOK
<1> QED BY <1>5, <1>6, <1>7, <1>8, <1>9, <1>10

(* Another process changes what is in a file, or takes it away. *)
LEMMA ChangeType ==
  ASSUME TarTypeOK, TreesOK, NEW p \in Paths, Change(p)
  PROVE  /\ TarTypeOK' /\ TreesOK'
         /\ changed' = changed \cup {p} /\ \A q \in Paths : q # p => src'[q] = src[q]
         /\ src[p].kind = "file" /\ src'[p].kind \in {"file", "absent"}
         /\ doing = "copy" /\ p = path => src'[p].kind = "file"
<1> USE DEF makerVars, readerVars, wayVars
<1>1. PICK node \in {Nothing} \cup [kind : {"file"}, data : NewData] :
        /\ doing = "copy" /\ p = path => node # Nothing
        /\ src' = [src EXCEPT ![p] = node]
  BY DEF Change
<1>2. node \in NodesOver(Byte) /\ node.kind \in {"file", "absent"} /\ (node # Nothing => node.kind = "file")
  <2>1. CASE node = Nothing
    BY <2>1, NodesMade DEF Nothing
  <2>2. CASE node \in [kind : {"file"}, data : NewData]
    <3>1. node.kind = "file" /\ node.data \in Seq(Byte) /\ node \in [kind : {"link", "file"}, data : Seq(Byte)]
      BY <2>2, BytesAndBlocks
    <3> QED BY <3>1 DEF NodesOver
  <2> QED BY <2>1, <2>2
<1>3. src \in [Paths -> NodesOver(Byte)] /\ src[p].kind = "file"
  BY DEF TarTypeOK, MakerTypeOK, Change
<1>4. src' \in [Paths -> NodesOver(Byte)] /\ src'[p] = node /\ \A q \in Paths : q # p => src'[q] = src[q]
  BY <1>1, <1>2, <1>3
<1>5. UNCHANGED <<doing, todo, offset, path, left, archive, at, zeros, dst, listed, ret, op, dir,
                   astray>>
      /\ changed' = changed \cup {p}
  BY DEF Change
<1>6. FlagsOK'
  BY Zenon DEF Change, TarTypeOK, FlagsOK
<1>7. MakerTypeOK'
  BY <1>4, <1>5 DEF TarTypeOK, MakerTypeOK
<1>8. ReaderTypeOK'
  BY <1>5 DEF TarTypeOK, ReaderTypeOK
<1>9. WellFormed(src')
  <2> SUFFICES ASSUME NEW q \in Paths, src'[q].kind # "absent", NEW a \in Above[q]
               PROVE  src'[a].kind = "dir"
    BY DEF WellFormed
  <2>1. a \in Paths
    BY NamesBelowNames
  <2>2. src[q].kind # "absent"
    BY <1>3, <1>4
  <2>3. src[a].kind = "dir"
    BY <2>2 DEF TreesOK, WellFormed
  <2> QED BY <1>3, <1>4, <2>1, <2>3
<1>10. TreesOK'
  BY <1>5, <1>9 DEF TreesOK, WellFormed
<1> QED BY <1>1, <1>2, <1>3, <1>4, <1>5, <1>6, <1>7, <1>8, <1>10 DEF TarTypeOK

LEMMA TypeStep == TarTypeOK /\ TreesOK /\ [TarNext]_tarVars => TarTypeOK' /\ TreesOK'
<1> SUFFICES ASSUME TarTypeOK, TreesOK, [TarNext]_tarVars PROVE TarTypeOK' /\ TreesOK'
  OBVIOUS
<1>1. CASE MemberGone \/ AddMember \/ OpenMember \/ CopyBlock \/ MemberCopied \/ EndArchive \/ Deliver
  <2>1. UNCHANGED <<src, dst>>
    BY <1>1 DEF MemberGone, AddMember, OpenMember, CopyBlock, MemberCopied, EndArchive, Deliver,
                makerVars, readerVars
  <2> QED BY <1>1, <2>1, MakerType, TreesRest DEF TarTypeOK
<1>2. CASE \E p \in Paths : Change(p)
  BY <1>2, ChangeType
<1>3. CASE \/ NoMoreBlocks \/ SkipZeroBlock \/ BadHeader \/ ListMember
           \/ ExtractOther \/ CreateFile \/ CannotCreate \/ ExtractBlock \/ MemberCutOff
  BY <1>3, ReaderType
<1>4. CASE UNCHANGED tarVars
  <2>1. UNCHANGED <<doing, src, todo, offset, changed, path, left, archive, at, zeros, dst,
                     listed, ret, op, dir, astray>>
    BY <1>4 DEF tarVars, makerVars, readerVars, wayVars
  <2>2. FlagsOK'
    BY <1>4, Zenon DEF tarVars, makerVars, readerVars, wayVars, TarTypeOK, FlagsOK
  <2>3. MakerTypeOK' /\ ReaderTypeOK'
    BY <2>1 DEF TarTypeOK, MakerTypeOK, ReaderTypeOK
  <2> QED BY <2>1, <2>2, <2>3, TreesRest DEF TarTypeOK
<1> QED BY <1>1, <1>2, <1>3, <1>4, Zenon DEF TarNext

(* Where tar x went astray, the link that led it there stays. *)
LEMMA AstrayStays ==
  ASSUME NEW tree, NEW new, NEW p \in Paths, Astray(tree, p),
         \A q \in Paths : tree[q].kind = "link" => new[q].kind = "link"
  PROVE  Astray(new, p)
<1>1. Above[p] \subseteq Paths
  BY NamesBelowNames
<1> QED BY <1>1 DEF Astray, BehindLink

LEMMA LinksStay ==
  ASSUME TarTypeOK, TreesOK, ExtractOther \/ CreateFile \/ CannotCreate
  PROVE  /\ Block.name \in Paths
         /\ LET with == WithDirs(dst[Here], Block.name) IN
              /\ \A q \in Paths : dst[Here][q].kind = "link" => with[q].kind = "link"
              /\ \A q \in Paths : with[q].kind = "link" => dst'[Here][q].kind = "link"
<1> DEFINE B == Byte \cup {Junk}
           with == WithDirs(dst[Here], Block.name)
<1>1. /\ dst \in [Dirs -> [Paths -> NodesOver(B)]] /\ Here \in Dirs
      /\ dst[Here] \in [Paths -> NodesOver(B)] /\ WellFormed(dst[Here]) /\ Tree = dst[Here]
  BY TreesAndArguments DEF TarTypeOK, ReaderTypeOK, TreesOK, Tree
<1>2. at < Len(archive) /\ Block.kind = "header"
  BY DEF ExtractOther, CreateFile, CannotCreate, AtMember
<1>3. Block.name \in Paths
  BY <1>2, BlockType
<1> HIDE DEF B
<1>4. with \in [Paths -> NodesOver(B)] /\ \A q \in Paths : dst[Here][q].kind # "absent" => with[q] = dst[Here][q]
  BY <1>1, <1>3, WithDirsEffect
<1> HIDE DEF with
<1>5. \A q \in Paths : dst[Here][q].kind = "link" => with[q].kind = "link"
  BY <1>4
<1>6. ASSUME NEW t \in [Paths -> NodesOver(B)], dst' = [dst EXCEPT ![Here] = t],
             NEW q \in Paths, with[q].kind = "link", t[q].kind = "link"
      PROVE  dst'[Here][q].kind = "link"
  BY <1>1, <1>6
<1>7. CASE ExtractOther
  <2> DEFINE t == Made(with, Block)
  <2>1. dst' = [dst EXCEPT ![Here] = t]
    BY <1>1, <1>7 DEF ExtractOther, with
  <2>2. \A q \in Paths : with[q].kind = "link" => t[q].kind = "link"
    <3>1. Nothing.kind = "absent"
      BY DEF Nothing
    <3> QED BY <1>3, <1>4, <3>1 DEF Made
  <2> HIDE DEF t
  <2>3. dst'[Here] = t
    BY <1>1, <2>1
  <2> QED BY <1>3, <1>5, <2>2, <2>3 DEF with
<1>8. CASE CreateFile
  <2> DEFINE t == [with EXCEPT ![Block.name] = [kind |-> "file", data |-> << >>]]
  <2>1. \/ Creatable(with, Block.name) /\ dst' = [dst EXCEPT ![Here] = t]
        \/ dst' = [dst EXCEPT ![Here] = with]
    BY <1>1, <1>8 DEF CreateFile, with
  <2>2. CASE dst' = [dst EXCEPT ![Here] = with]
    <3>1. dst'[Here] = with
      BY <1>1, <2>2
    <3> QED BY <1>3, <1>5, <3>1 DEF with
  <2>3. CASE Creatable(with, Block.name) /\ dst' = [dst EXCEPT ![Here] = t]
    <3>1. with[Block.name].kind # "link"
      BY <2>3 DEF Creatable
    <3>2. \A q \in Paths : with[q].kind = "link" => t[q].kind = "link"
      BY <1>4, <3>1
    <3> HIDE DEF t
    <3>3. dst'[Here] = t
      BY <1>1, <2>3
    <3> QED BY <1>3, <1>5, <3>2, <3>3 DEF with
  <2> QED BY <2>1, <2>2, <2>3
<1>9. CASE CannotCreate
  <2>1. dst' = [dst EXCEPT ![Here] = with]
    BY <1>1, <1>9 DEF CannotCreate, with
  <2>2. dst'[Here] = with
    BY <1>1, <2>1
  <2> QED BY <1>3, <1>5, <2>2 DEF with
<1> QED BY <1>7, <1>8, <1>9

LEMMA StraysStep ==
  ASSUME TarTypeOK, TreesOK, StraysOK, [TarNext]_tarVars
  PROVE  StraysOK'
<1> USE DEF makerVars, readerVars, wayVars
<1>1. ASSUME astray' = astray, \A q \in Paths : dst[Here][q].kind = "link" => dst'[Here][q].kind = "link"
      PROVE  StraysOK'
  BY <1>1, AstrayStays DEF StraysOK
<1>2. CASE UNCHANGED <<astray, dst>>
  BY <1>1, <1>2
<1>3. CASE ExtractOther \/ CreateFile \/ CannotCreate
  <2> DEFINE p == Block.name
             with == WithDirs(dst[Here], p)
  <2>1. /\ p \in Paths
        /\ \A q \in Paths : dst[Here][q].kind = "link" => with[q].kind = "link"
        /\ \A q \in Paths : with[q].kind = "link" => dst'[Here][q].kind = "link"
    BY <1>3, LinksStay
  <2> HIDE DEF p, with
  <2>2. \A q \in Paths : dst[Here][q].kind = "link" => dst'[Here][q].kind = "link"
    BY <2>1
  <2>3. CASE astray' = astray
    BY <1>1, <2>2, <2>3
  <2>4. ASSUME astray' = astray \cup {p}, Astray(dst'[Here], p) PROVE StraysOK'
    <3>1. \A q \in astray : Astray(dst'[Here], q)
      BY <2>2, AstrayStays DEF StraysOK
    <3> QED BY <2>1, <2>4, <3>1 DEF StraysOK
  <2>5. Tree = dst[Here] /\ dst \in [Dirs -> [Paths -> NodesOver(Byte \cup {Junk})]] /\ Here \in Dirs
    BY TreesAndArguments DEF Tree, TarTypeOK, ReaderTypeOK
  <2>6. CASE ExtractOther /\ astray' # astray
    <3> DEFINE t == Made(with, Block)
    <3>1. dst' = [dst EXCEPT ![Here] = t] /\ astray' = astray \cup {p} /\ BehindLink(t, p)
      BY <2>5, <2>6, Zenon DEF ExtractOther, with, p
    <3> HIDE DEF t
    <3>2. dst'[Here] = t
      BY <2>5, <3>1
    <3> QED BY <2>4, <3>1, <3>2 DEF Astray
  <2>7. CASE CreateFile /\ astray' # astray
    <3>1. astray' = astray \cup {p} /\ Astray(with, p)
      BY <2>5, <2>7, Zenon DEF CreateFile, with, p
    <3>2. Astray(dst'[Here], p)
      BY <2>1, <3>1, AstrayStays
    <3> QED BY <2>4, <3>1, <3>2
  <2>8. CannotCreate => astray' = astray
    BY DEF CannotCreate
  <2> QED BY <1>3, <2>3, <2>6, <2>7, <2>8
<1>4. CASE ExtractBlock
  <2> DEFINE data == dst[Here][path].data \o SubSeq(Bytes(Block), 1, Least(left, BlockSize))
  <2>1. astray' = astray /\ (dst' = dst \/ (dst[Here][path].kind = "file" /\
          dst' = [dst EXCEPT ![Here] = [dst[Here] EXCEPT ![path] = [dst[Here][path] EXCEPT !.data = data]]]))
    BY <1>4, Zenon DEF ExtractBlock, Tree
  <2>2. /\ dst \in [Dirs -> [Paths -> NodesOver(Byte \cup {Junk})]] /\ Here \in Dirs
        /\ dst[Here] \in [Paths -> NodesOver(Byte \cup {Junk})]
    BY TreesAndArguments DEF TarTypeOK, ReaderTypeOK
  <2> HIDE DEF data
  <2>3. CASE dst' = dst
    BY <1>2, <2>1, <2>3
  <2>4. CASE /\ dst[Here][path].kind = "file"
             /\ dst' = [dst EXCEPT ![Here] = [dst[Here] EXCEPT ![path] = [dst[Here][path] EXCEPT !.data = data]]]
    <3> DEFINE node == [dst[Here][path] EXCEPT !.data = data]
    <3>1. dst'[Here] = [dst[Here] EXCEPT ![path] = node]
      BY <2>2, <2>4
    <3> HIDE DEF node
    <3>2. \A q \in Paths : q # path => dst'[Here][q] = dst[Here][q]
      BY <2>2, <3>1
    <3> QED BY <1>1, <2>1, <2>4, <3>2
  <2> QED BY <2>1, <2>3, <2>4
<1>5. CASE \/ MemberGone \/ AddMember \/ OpenMember \/ CopyBlock \/ MemberCopied \/ EndArchive
           \/ Deliver \/ NoMoreBlocks \/ SkipZeroBlock \/ BadHeader \/ ListMember \/ MemberCutOff
  <2>1. UNCHANGED <<astray, dst>>
    BY <1>5 DEF MemberGone, AddMember, OpenMember, CopyBlock, MemberCopied, EndArchive, Deliver,
                NoMoreBlocks, SkipZeroBlock, BadHeader, ListMember, MemberCutOff
  <2> QED BY <1>2, <2>1
<1>6. CASE \E p \in Paths : Change(p)
  <2>1. UNCHANGED <<astray, dst>>
    BY <1>6 DEF Change
  <2> QED BY <1>2, <2>1
<1>7. CASE UNCHANGED tarVars
  <2>1. UNCHANGED <<astray, dst>>
    BY <1>7 DEF tarVars
  <2> QED BY <1>2, <2>1
<1> QED BY <1>3, <1>4, <1>5, <1>6, <1>7, Zenon DEF TarNext

-------------------------------------------------------------------------------
(* While the archive is made. *)
LEMMA MemberType ==
  ASSUME TarTypeOK, NEW i \in Members
  PROVE  /\ i \in 1..Len(archive) /\ Len(archive) \in Nat /\ archive[i] \in Headers
         /\ Name(i) \in Paths /\ archive[i].size \in Nat /\ Length(i) \in Nat
         /\ i + Length(i) \in Nat
<1>1. archive \in Seq(Headers \cup DataBlocks) /\ i \in 1..Len(archive) /\ Len(archive) \in Nat
  BY LenProperties DEF Members, TarTypeOK, MakerTypeOK
<1>2. archive[i] \in Headers \cup DataBlocks /\ archive[i].kind = "header"
  BY <1>1, ElementOfSeq DEF Members
<1>3. archive[i] \in Headers
  BY <1>2 DEF DataBlocks
<1>4. Name(i) \in Paths /\ archive[i].size \in Nat
  BY <1>3 DEF Headers, Name
<1>5. Length(i) \in Nat
  <2>1. 0 \in Nat
    OBVIOUS
  <2> QED BY <1>4, <2>1, BlocksLess DEF Length
<1> QED BY <1>1, <1>3, <1>4, <1>5

(* The archive is added to. *)
LEMMA Grown ==
  ASSUME TarTypeOK, NEW blocks \in Seq(Headers \cup DataBlocks), archive' = archive \o blocks
  PROVE  /\ Len(archive') = Len(archive) + Len(blocks) /\ Len(archive) \in Nat /\ Len(blocks) \in Nat
         /\ \A i \in 1..Len(archive) : archive'[i] = archive[i]
         /\ \A k \in 1..Len(blocks) : archive'[Len(archive) + k] = blocks[k]
         /\ \A i \in Members : i \in Members' /\ Length(i)' = Length(i) /\ Name(i)' = Name(i)
                               /\ archive'[i] = archive[i]
         /\ \A i \in Members' : \/ i \in Members
                                \/ \E k \in 1..Len(blocks) : /\ i = Len(archive) + k
                                                             /\ blocks[k].kind = "header"
         /\ \A k \in 1..Len(blocks) : blocks[k].kind = "header" => Len(archive) + k \in Members'
<1> DEFINE B == Headers \cup DataBlocks
<1>1. archive \in Seq(B) /\ Len(archive) \in Nat /\ Len(blocks) \in Nat
  BY LenProperties DEF TarTypeOK, MakerTypeOK
<1> HIDE DEF B
<1>2. /\ Len(archive') = Len(archive) + Len(blocks)
      /\ \A i \in 1..Len(archive) + Len(blocks) :
           archive'[i] = IF i <= Len(archive) THEN archive[i] ELSE blocks[i - Len(archive)]
  BY <1>1, ConcatProperties DEF B
<1>3. \A i \in 1..Len(archive) : archive'[i] = archive[i]
  BY <1>1, <1>2
<1>4. ASSUME NEW k \in 1..Len(blocks)
      PROVE  archive'[Len(archive) + k] = blocks[k] /\ Len(archive) + k \in 1..Len(archive')
  <2>1. Len(archive) + k \in 1..Len(archive) + Len(blocks) /\ ~ (Len(archive) + k <= Len(archive))
        /\ (Len(archive) + k) - Len(archive) = k
    BY <1>1
  <2> QED BY <1>2, <2>1
<1>5. \A i \in Members : i \in Members' /\ Length(i)' = Length(i) /\ Name(i)' = Name(i)
                         /\ archive'[i] = archive[i]
  BY <1>1, <1>2, <1>3 DEF Members, Length, Name
<1>6. ASSUME NEW i \in Members', i \notin Members
      PROVE  \E k \in 1..Len(blocks) : i = Len(archive) + k /\ blocks[k].kind = "header"
  <2>1. i \in 1..Len(archive) + Len(blocks) /\ archive'[i].kind = "header"
    BY <1>2 DEF Members
  <2>2. ~ (i <= Len(archive))
    BY <1>1, <1>3, <1>6, <2>1 DEF Members
  <2>3. i - Len(archive) \in 1..Len(blocks) /\ i = Len(archive) + (i - Len(archive))
    BY <1>1, <2>1, <2>2
  <2> QED BY <1>4, <2>1, <2>3
<1>7. \A k \in 1..Len(blocks) : blocks[k].kind = "header" => Len(archive) + k \in Members'
  BY <1>4 DEF Members
<1> QED BY <1>1, <1>2, <1>3, <1>4, <1>5, <1>6, <1>7

(* What does not touch archive and files keeps the layout. *)
LEMMA LaidRests ==
  ASSUME Apart, HeadersRight, BlocksRight, UNCHANGED <<archive, src, changed>>
  PROVE  Apart' /\ HeadersRight' /\ BlocksRight'
<1>1. Members' = Members /\ \A i : Length(i)' = Length(i) /\ Name(i)' = Name(i)
  BY DEF Members, Length, Name
<1>2. Apart'
  BY <1>1 DEF Apart
<1>3. HeadersRight'
  BY <1>1 DEF HeadersRight, Header, Size
<1>4. BlocksRight'
  <2>1. \A p, k : Piece(p, k)' = Piece(p, k)
    BY DEF Piece, Padded, Least
  <2> QED BY <1>1, <2>1 DEF BlocksRight, Data
<1> QED BY <1>2, <1>3, <1>4

LEMMA OwnedRests ==
  ASSUME Owned, Whole, UNCHANGED archive, doing \in Sent => doing' \in Sent,
         doing' = "walk" \/ (doing' \in Sent /\ ~cut') => doing = "walk" \/ (doing \in Sent /\ ~cut)
  PROVE  Owned' /\ Whole'
BY DEF Owned, Whole, Members, Length, IsZero

(* No step undoes a failure or a loss. *)
LEMMA StaysDisturbed ==
  ASSUME TarTypeOK, TarNext, Undisturbed' PROVE Undisturbed
<1> SUFFICES failed # TRUE /\ short # TRUE
  BY Zenon DEF Undisturbed, TarTypeOK, FlagsOK
<1>1. failed' # TRUE /\ short' # TRUE
  BY DEF Undisturbed
<1> SUFFICES (failed = TRUE => failed' = TRUE) /\ (short = TRUE => short' = TRUE)
  BY <1>1
<1> USE DEF makerVars, readerVars, wayVars
<1>2. ASSUME MemberGone PROVE (failed = TRUE => failed' = TRUE) /\ (short = TRUE => short' = TRUE)
  BY <1>2, Zenon DEF MemberGone, Write
<1>3. ASSUME AddMember PROVE (failed = TRUE => failed' = TRUE) /\ (short = TRUE => short' = TRUE)
  BY <1>3, Zenon DEF AddMember, Write
<1>4. ASSUME OpenMember PROVE (failed = TRUE => failed' = TRUE) /\ (short = TRUE => short' = TRUE)
  BY <1>4, Zenon DEF OpenMember, Write
<1>5. ASSUME CopyBlock PROVE (failed = TRUE => failed' = TRUE) /\ (short = TRUE => short' = TRUE)
  BY <1>5, Zenon DEF CopyBlock, Write
<1>6. ASSUME MemberCopied PROVE (failed = TRUE => failed' = TRUE) /\ (short = TRUE => short' = TRUE)
  BY <1>6, Zenon DEF MemberCopied, Write
<1>7. ASSUME EndArchive PROVE (failed = TRUE => failed' = TRUE) /\ (short = TRUE => short' = TRUE)
  BY <1>7, Zenon DEF EndArchive, Write
<1>8. ASSUME Deliver PROVE (failed = TRUE => failed' = TRUE) /\ (short = TRUE => short' = TRUE)
  BY <1>8, Zenon DEF Deliver, Write
<1>9. ASSUME NoMoreBlocks PROVE (failed = TRUE => failed' = TRUE) /\ (short = TRUE => short' = TRUE)
  BY <1>9, Zenon DEF NoMoreBlocks, Write
<1>10. ASSUME SkipZeroBlock PROVE (failed = TRUE => failed' = TRUE) /\ (short = TRUE => short' = TRUE)
  BY <1>10, Zenon DEF SkipZeroBlock, Write
<1>11. ASSUME BadHeader PROVE (failed = TRUE => failed' = TRUE) /\ (short = TRUE => short' = TRUE)
  BY <1>11, Zenon DEF BadHeader, Write
<1>12. ASSUME ListMember PROVE (failed = TRUE => failed' = TRUE) /\ (short = TRUE => short' = TRUE)
  BY <1>12, Zenon DEF ListMember, Write
<1>13. ASSUME ExtractOther PROVE (failed = TRUE => failed' = TRUE) /\ (short = TRUE => short' = TRUE)
  BY <1>13, Zenon DEF ExtractOther, Write
<1>14. ASSUME CreateFile PROVE (failed = TRUE => failed' = TRUE) /\ (short = TRUE => short' = TRUE)
  BY <1>14, Zenon DEF CreateFile, Write
<1>15. ASSUME CannotCreate PROVE (failed = TRUE => failed' = TRUE) /\ (short = TRUE => short' = TRUE)
  BY <1>15, Zenon DEF CannotCreate, Write
<1>16. ASSUME ExtractBlock PROVE (failed = TRUE => failed' = TRUE) /\ (short = TRUE => short' = TRUE)
  BY <1>16, Zenon DEF ExtractBlock, Write
<1>17. ASSUME MemberCutOff PROVE (failed = TRUE => failed' = TRUE) /\ (short = TRUE => short' = TRUE)
  BY <1>17, Zenon DEF MemberCutOff, Write
<1>18. ASSUME NEW p \in Paths, Change(p)
       PROVE  (failed = TRUE => failed' = TRUE) /\ (short = TRUE => short' = TRUE)
  BY <1>18, Zenon DEF Change
<1> QED BY <1>2, <1>3, <1>4, <1>5, <1>6, <1>7, <1>8, <1>9, <1>10, <1>11, <1>12, <1>13, <1>14,
           <1>15, <1>16, <1>17, <1>18, Zenon DEF TarNext

LEMMA MemberGoneWritten ==
  ASSUME TarTypeOK, TreesOK, Written, MemberGone PROVE Written'
<1> USE DEF makerVars, readerVars, wayVars
<1>1. UNCHANGED <<doing, archive, src, changed, path, left, offset, listed>> /\ doing = "walk"
      /\ todo # << >> /\ todo' = Tail(todo) /\ src[Head(todo)].kind = "absent"
  BY DEF MemberGone
<1>2. UNCHANGED <<cut, partial>>
  BY Zenon DEF MemberGone
<1>3. Laid'
  BY <1>1, <1>2, LaidRests, OwnedRests DEF Written, Laid
<1>4. Underway'
  <2>1. doing' \in {"walk", "open", "copy", "sent"} => listed' = << >> /\ ~cut'
    BY <1>1, <1>2 DEF Written, Underway
  <2>2. ~cut' => ~partial'
    BY <1>2 DEF Written, Underway
  <2>3. ~ (doing' \in Sent)
    BY <1>1 DEF Sent
  <2> QED BY <2>1, <2>2, <2>3, Zenon DEF Underway
<1>5. InHand'
  BY <1>1 DEF InHand
<1>6. Reached'
  <2> SUFFICES ASSUME ~cut', NEW i \in Members', NEW p \in Paths \ changed',
                      src'[p].kind # "absent", Name(i)' \in Above[p]
               PROVE  \/ \E j \in Members' : Name(j)' = p
                      \/ \E m \in 1..Len(todo') : todo'[m] = p \/ todo'[m] \in Above[p]
    BY DEF Reached
  <2>1. Members' = Members /\ \A j \in Members : Name(j)' = Name(j)
    BY <1>1 DEF Members, Name
  <2>2. \/ \E j \in Members : Name(j) = p
        \/ \E m \in 1..Len(todo) : todo[m] = p \/ todo[m] \in Above[p]
    BY <1>1, <1>2, <2>1 DEF Written, Reached
  <2>3. ASSUME NEW m \in 1..Len(todo), todo[m] = p \/ todo[m] \in Above[p]
        PROVE  \E n \in 1..Len(todo') : todo'[n] = p \/ todo'[n] \in Above[p]
    <3>1. src[todo[m]].kind # "absent"
      <4>1. todo[m] \in Above[p] => src[todo[m]].kind = "dir"
        BY <1>1 DEF TreesOK, WellFormed
      <4> QED BY <1>1, <2>3, <4>1
    <3>2. /\ Len(todo) \in Nat \ {0} /\ Len(todo') = Len(todo) - 1 /\ Head(todo) = todo[1]
          /\ \A n \in 1..Len(todo') : todo'[n] = todo[n + 1]
      BY <1>1, TodoType DEF TarTypeOK, MakerTypeOK
    <3>3. m # 1
      BY <1>1, <3>1, <3>2
    <3>4. m - 1 \in 1..Len(todo') /\ todo'[m - 1] = todo[m]
      <4>1. m - 1 \in 1..Len(todo') /\ (m - 1) + 1 = m
        BY <3>2, <3>3
      <4> QED BY <3>2, <4>1
    <3> QED BY <2>3, <3>4
  <2> QED BY <2>1, <2>2, <2>3
<1> QED BY <1>3, <1>4, <1>5, <1>6 DEF Written

LEMMA AddMemberWritten ==
  ASSUME TarTypeOK, TreesOK, Undisturbed', Written, AddMember PROVE Written'
<1> USE DEF makerVars, readerVars, wayVars
<1> DEFINE p == Head(todo)
<1>0. PICK h \in Nat : h = Len(archive) + 1
  BY LenProperties DEF TarTypeOK, MakerTypeOK
<1>1. /\ UNCHANGED <<src, changed, listed>> /\ doing = "walk" /\ todo # << >> /\ src[p].kind # "absent"
      /\ path' = p /\ left' = Size(src[p]) /\ offset' = 0
      /\ doing' = IF Size(src[p]) > 0 THEN "open" ELSE "walk"
  BY DEF AddMember
<1>2. UNCHANGED <<cut, partial>>
  BY Zenon DEF AddMember
<1>3. /\ archive' = archive \o <<Header(p)>>
      /\ \/ src[p].kind # "dir" /\ todo' = Tail(todo)
         \/ \E names \in SetToSeqs(Entries(p)) : todo' = names \o Tail(todo)
  <2>1. failed' # TRUE
    BY DEF Undisturbed
  <2> QED BY <2>1, Zenon DEF AddMember, Write
<1>4. /\ p \in Paths /\ Tail(todo) \in Seq(Paths) /\ Len(todo) \in Nat \ {0}
      /\ Len(Tail(todo)) = Len(todo) - 1 /\ p = todo[1]
      /\ \A i \in 1..Len(Tail(todo)) : Tail(todo)[i] = todo[i + 1]
  BY <1>1, TodoType DEF TarTypeOK, MakerTypeOK
<1>5. /\ Header(p) \in Headers /\ Header(p).kind = "header" /\ Header(p).name = p
      /\ Header(p).size = Size(src[p]) /\ Size(src[p]) \in Nat /\ Header(p).type = src[p].kind
      /\ src[p].kind # "file" => Header(p).size = 0
  <2>1. src \in [Paths -> NodesOver(Byte)]
    BY DEF TarTypeOK, MakerTypeOK
  <2>2. Size(src[p]) \in Nat
    BY <1>4, <2>1, NodeTypes
  <2> HIDE DEF p
  <2> QED BY <1>1, <1>4, <2>1, <2>2, HeaderType
<1> HIDE DEF p
<1>6. /\ Len(archive') = h /\ Len(archive) \in Nat
      /\ \A i \in 1..Len(archive) : archive'[i] = archive[i]
      /\ archive'[h] = Header(p) /\ h \in Members'
      /\ \A i \in Members : /\ i \in Members' /\ Length(i)' = Length(i) /\ Name(i)' = Name(i)
                            /\ archive'[i] = archive[i]
      /\ \A i \in Members' : i \in Members \/ i = h
  <2> DEFINE blocks == <<Header(p)>>
  <2>1. blocks \in Seq(Headers \cup DataBlocks) /\ Len(blocks) = 1 /\ blocks[1] = Header(p) /\ 1 \in 1..Len(blocks)
    BY <1>5
  <2> HIDE DEF blocks
  <2>2. archive' = archive \o blocks
    BY <1>3 DEF blocks
  <2>3. /\ Len(archive') = Len(archive) + Len(blocks) /\ Len(archive) \in Nat
        /\ \A i \in 1..Len(archive) : archive'[i] = archive[i]
        /\ \A k \in 1..Len(blocks) : archive'[Len(archive) + k] = blocks[k]
        /\ \A i \in Members : i \in Members' /\ Length(i)' = Length(i) /\ Name(i)' = Name(i)
                              /\ archive'[i] = archive[i]
        /\ \A i \in Members' : \/ i \in Members
                               \/ \E k \in 1..Len(blocks) : /\ i = Len(archive) + k
                                                            /\ blocks[k].kind = "header"
        /\ \A k \in 1..Len(blocks) : blocks[k].kind = "header" => Len(archive) + k \in Members'
    BY <2>1, <2>2, Grown
  <2> QED BY <1>0, <1>5, <2>1, <2>3
<1>7. Name(h)' = p /\ Length(h)' = Blocks(Size(src[p])) /\ Length(h)' \in Nat
  <2>1. Name(h)' = p /\ Length(h)' = Blocks(Size(src[p]))
    BY <1>5, <1>6 DEF Name, Length
  <2>2. 0 \in Nat
    OBVIOUS
  <2>3. Blocks(Size(src[p])) \in Nat
    BY <1>5, <2>2, BlocksLess
  <2> QED BY <2>1, <2>3
<1>8. \A i \in Members : /\ i \in 1..Len(archive) /\ i < h /\ i + Length(i) < h
                         /\ Length(i) \in Nat /\ Name(i) \in Paths
  <2> SUFFICES ASSUME NEW i \in Members
               PROVE  /\ i \in 1..Len(archive) /\ i < h /\ i + Length(i) < h
                      /\ Length(i) \in Nat /\ Name(i) \in Paths
    OBVIOUS
  <2>1. i + Length(i) <= Len(archive)
    BY <1>1 DEF Written, Laid, Whole
  <2>2. /\ i \in 1..Len(archive) /\ Length(i) \in Nat /\ Name(i) \in Paths /\ i + Length(i) \in Nat
    BY MemberType
  <2> QED BY <1>0, <1>6, <2>1, <2>2
<1>9. Apart'
  <2> SUFFICES ASSUME NEW i \in Members', NEW j \in Members', i < j PROVE i + Length(i)' < j
    BY DEF Apart
  <2>1. CASE j \in Members
    <3>1. i \in Members
      BY <1>6, <1>8, <2>1
    <3> QED BY <1>6, <2>1, <3>1 DEF Written, Laid, Apart
  <2>2. CASE j = h
    <3>1. i \in Members
      BY <1>6, <2>2
    <3> QED BY <1>6, <1>8, <2>2, <3>1
  <2> QED BY <1>6, <2>1, <2>2
<1>10. HeadersRight'
  <2> SUFFICES ASSUME NEW i \in Members'
               PROVE  /\ archive'[i].type # "file" => archive'[i].size = 0
                      /\ Name(i)' \notin changed =>
                           src[Name(i)'].kind # "absent" /\ archive'[i] = Header(Name(i)')
    <3>1. \A q : Header(q)' = Header(q)
      BY <1>1 DEF Header, Size
    <3> QED BY <1>1, <3>1 DEF HeadersRight
  <2>1. CASE i \in Members
    BY <1>6, <2>1 DEF Written, Laid, HeadersRight
  <2>2. CASE i = h
    BY <1>1, <1>5, <1>6, <1>7, <2>2
  <2> QED BY <1>6, <2>1, <2>2
<1>11. BlocksRight'
  <2> SUFFICES ASSUME NEW i \in Members', NEW k \in 1..Length(i)', Name(i)' \notin changed,
                      i + k <= Len(archive')
               PROVE  archive'[i + k] = Data(Piece(Name(i)', k))
    <3>1. \A q, k : Data(Piece(q, k))' = Data(Piece(q, k))
      BY <1>1 DEF Data, Piece, Padded
    <3> QED BY <1>1, <3>1 DEF BlocksRight
  <2>1. i # h
    <3>1. k \in Nat \ {0} => ~ (h + k <= h)
      BY <1>0
    <3>2. i = h => k \in Nat \ {0}
      BY <1>7
    <3> QED BY <1>6, <3>1, <3>2
  <2>2. i \in Members
    BY <1>6, <2>1
  <2>3. k \in 1..Length(i) /\ i + k \in 1..Len(archive)
    <3>1. i \in 1..Len(archive) /\ Length(i) \in Nat /\ i + Length(i) < h /\ Length(i)' = Length(i)
      BY <1>6, <1>8, <2>2
    <3>2. Len(archive) \in Nat /\ h = Len(archive) + 1
      BY <1>0, <1>6
    <3>3. k \in 1..Length(i)
      BY <3>1
    <3> QED BY <3>1, <3>2, <3>3
  <2>4. Name(i)' = Name(i) /\ archive'[i + k] = archive[i + k] /\ i + k <= Len(archive)
    BY <1>6, <2>2, <2>3
  <2>5. archive[i + k] = Data(Piece(Name(i), k))
    BY <2>2, <2>3, <2>4 DEF Written, Laid, BlocksRight
  <2> QED BY <2>4, <2>5
<1>12. Owned'
  <2> SUFFICES ASSUME NEW j \in 1..Len(archive'), archive'[j].kind = "data"
               PROVE  \E i \in Members' : i < j /\ j <= i + Length(i)'
    BY DEF Owned
  <2>1. j \in 1..Len(archive)
    BY <1>0, <1>5, <1>6
  <2>2. PICK i \in Members : i < j /\ j <= i + Length(i)
    BY <1>1, <1>6, <2>1 DEF Written, Laid, Owned, Sent
  <2> QED BY <1>6, <2>2
<1>13. Whole'
  <2> SUFFICES ASSUME doing' = "walk", NEW i \in Members' PROVE i + Length(i)' <= Len(archive')
    BY <1>1 DEF Whole, Sent
  <2>1. CASE i \in Members
    BY <1>0, <1>6, <1>8, <2>1
  <2>2. CASE i = h
    <3>1. Size(src[p]) = 0
      BY <1>1, <1>5
    <3>2. ~ (0 < Blocks(0)) /\ Blocks(0) \in Nat
      <4>1. 0 \in Nat /\ ~ (0 * BlockSize < 0)
        BY BytesAndBlocks
      <4> QED BY <4>1, BlocksLess
    <3> QED BY <1>6, <1>7, <2>2, <3>1, <3>2
  <2> QED BY <1>6, <2>1, <2>2
<1>14. Underway'
  <2>1. ~ (doing' \in Sent)
    BY <1>1 DEF Sent
  <2>2. listed' = << >> /\ ~cut'
    BY <1>1, <1>2 DEF Written, Underway
  <2>3. ~partial'
    BY <1>1, <1>2, <2>2 DEF Written, Underway
  <2> QED BY <2>1, <2>2, <2>3, Zenon DEF Underway
<1>15. InHand'
  <2>1. ASSUME doing' \in {"open", "copy"} PROVE Copying(h)'
    <3>1. Len(archive') - h = 0 /\ 0 * BlockSize = 0
      BY <1>6, BytesAndBlocks
    <3>2. archive'[h].size = Size(src[p])
      BY <1>5, <1>6
    <3>3. \A i \in Members' : i <= h
      BY <1>6, <1>8
    <3>4. left' = IF 0 * BlockSize < archive'[h].size THEN archive'[h].size - 0 * BlockSize ELSE 0
      BY <1>1, <1>5, <3>1, <3>2
    <3>5. offset' = 0 * BlockSize
      BY <1>1, <3>1
    <3> QED BY <1>1, <1>6, <1>7, <3>1, <3>3, <3>4, <3>5 DEF Copying
  <2> QED BY <1>6, <2>1 DEF InHand
<1>16. Reached'
  <2> SUFFICES ASSUME NEW i \in Members', NEW q \in Paths \ changed,
                      src[q].kind # "absent", Name(i)' \in Above[q]
               PROVE  \/ \E j \in Members' : Name(j)' = q
                      \/ \E m \in 1..Len(todo') : todo'[m] = q \/ todo'[m] \in Above[q]
    BY <1>1 DEF Reached
  <2>1. ASSUME p \in Above[q]
        PROVE  \E m \in 1..Len(todo') : todo'[m] = q \/ todo'[m] \in Above[q]
    <3>1. src[p].kind = "dir"
      BY <2>1 DEF TreesOK, WellFormed
    <3>2. PICK names \in SetToSeqs(Entries(p)) : todo' = names \o Tail(todo)
      BY <1>3, <3>1
    <3>3. PICK next \in Above[q] \cup {q} : Above[next] = Above[p] \cup {p}
      BY <2>1, NamesBelowNames
    <3>4. next \in Paths /\ src[next].kind # "absent"
      <4>1. next \in Above[q] => next \in Paths /\ src[next].kind = "dir"
        BY NamesBelowNames DEF TreesOK, WellFormed
      <4> QED BY <3>3, <4>1
    <3>5. next \in Entries(p)
      BY <3>3, <3>4 DEF Entries
    <3>6. names \in Seq(Paths) /\ \E m \in 1..Len(names) : names[m] = next
      BY <1>4, <3>5, EntriesListed
    <3>7. PICK m \in 1..Len(names) : names[m] = next
      BY <3>6
    <3>8. m \in 1..Len(todo') /\ todo'[m] = next
      <4>1. Len(names) \in Nat /\ Len(Tail(todo)) \in Nat
        BY <1>4, <3>6, LenProperties
      <4>2. /\ Len(names \o Tail(todo)) = Len(names) + Len(Tail(todo))
            /\ \A n \in 1..Len(names) + Len(Tail(todo)) : (names \o Tail(todo))[n] =
                 IF n <= Len(names) THEN names[n] ELSE Tail(todo)[n - Len(names)]
        BY <1>4, <3>6, ConcatProperties
      <4>3. m \in 1..Len(names) + Len(Tail(todo)) /\ m <= Len(names)
        BY <4>1
      <4> QED BY <3>2, <3>7, <4>2, <4>3
    <3> QED BY <3>3, <3>8
  <2>2. CASE p = q
    BY <1>6, <1>7, <2>2
  <2>3. CASE p \in Above[q]
    BY <2>1, <2>3
  <2>4. CASE p # q /\ p \notin Above[q]
    <3>1. i \in Members /\ Name(i) \in Above[q]
      BY <1>6, <1>7, <2>4
    <3>2. \/ \E j \in Members : Name(j) = q
          \/ \E m \in 1..Len(todo) : todo[m] = q \/ todo[m] \in Above[q]
      BY <1>1, <3>1 DEF Written, Reached, Underway
    <3>3. CASE \E j \in Members : Name(j) = q
      BY <1>6, <3>3
    <3>4. ASSUME NEW m \in 1..Len(todo), todo[m] = q \/ todo[m] \in Above[q]
          PROVE  \E n \in 1..Len(todo') : todo'[n] = todo[m]
      <4>1. m - 1 \in 1..Len(Tail(todo)) /\ Tail(todo)[m - 1] = todo[m] /\ Len(Tail(todo)) \in Nat
        <5>1. m # 1
          BY <1>4, <2>4, <3>4
        <5>2. m - 1 \in 1..Len(Tail(todo)) /\ (m - 1) + 1 = m /\ Len(Tail(todo)) \in Nat
          BY <1>4, <5>1
        <5> QED BY <1>4, <5>2
      <4>2. CASE todo' = Tail(todo)
        BY <4>1, <4>2
      <4>3. ASSUME NEW names \in SetToSeqs(Entries(p)), todo' = names \o Tail(todo)
            PROVE  \E n \in 1..Len(todo') : todo'[n] = todo[m]
        <5>1. names \in Seq(Paths) /\ Len(names) \in Nat
          BY <1>4, EntriesListed, LenProperties
        <5>2. /\ Len(names \o Tail(todo)) = Len(names) + Len(Tail(todo))
              /\ \A n \in 1..Len(names) + Len(Tail(todo)) : (names \o Tail(todo))[n] =
                   IF n <= Len(names) THEN names[n] ELSE Tail(todo)[n - Len(names)]
          BY <1>4, <5>1, ConcatProperties
        <5> DEFINE n == Len(names) + (m - 1)
        <5>3. n \in 1..Len(names) + Len(Tail(todo)) /\ ~ (n <= Len(names)) /\ n - Len(names) = m - 1
          BY <4>1, <5>1
        <5>4. todo'[n] = todo[m] /\ n \in 1..Len(todo')
          BY <4>1, <4>3, <5>2, <5>3
        <5> QED BY <5>4
      <4> QED BY <1>3, <4>2, <4>3
    <3> QED BY <3>2, <3>3, <3>4
  <2> QED BY <2>2, <2>3, <2>4
<1> QED BY <1>9, <1>10, <1>11, <1>12, <1>13, <1>14, <1>15, <1>16 DEF Written, Laid

LEMMA OpenMemberWritten ==
  ASSUME TarTypeOK, Undisturbed', Written, OpenMember PROVE Written'
<1> USE DEF makerVars, readerVars, wayVars
<1>1. UNCHANGED <<archive, src, changed, path, left, offset, listed, todo>> /\ doing = "open"
  BY DEF OpenMember
<1>2. UNCHANGED <<cut, partial>>
  BY Zenon DEF OpenMember
<1>3. doing' = "copy"
  <2>1. short' # TRUE
    BY DEF Undisturbed
  <2> QED BY <2>1, Zenon DEF OpenMember
<1>4. Laid'
  <2>1. Apart' /\ HeadersRight' /\ BlocksRight'
    BY <1>1, LaidRests DEF Written, Laid
  <2>2. Owned' /\ Whole'
    BY <1>1, <1>3, OwnedRests DEF Written, Laid, Sent
  <2> QED BY <2>1, <2>2 DEF Laid
<1>5. Underway'
  <2>1. listed' = << >> /\ ~cut'
    BY <1>1, <1>2 DEF Written, Underway
  <2>2. ~partial'
    BY <1>1, <1>2, <2>1 DEF Written, Underway
  <2> QED BY <1>3, <2>1, <2>2 DEF Underway, Sent
<1>6. InHand'
  <2>1. PICK h \in Members : Copying(h)
    BY <1>1 DEF Written, InHand
  <2>2. h \in Members' /\ Copying(h)'
    BY <1>1, <2>1 DEF Copying, Members, Name, Length
  <2> QED BY <2>2 DEF InHand
<1>7. Reached'
  BY <1>1, <1>2 DEF Written, Reached, Members, Name
<1> QED BY <1>4, <1>5, <1>6, <1>7 DEF Written

(* The header of a file that was not changed has the size of the file. *)
LEMMA HeaderOfFile ==
  ASSUME TarTypeOK, HeadersRight, NEW h \in Members, Name(h) \notin changed
  PROVE  /\ src[Name(h)].kind # "absent" /\ src[Name(h)] \in NodesOver(Byte)
         /\ archive[h] = Header(Name(h)) /\ archive[h].type = src[Name(h)].kind
         /\ archive[h].type = "file" \/ archive[h].size > 0 =>
              /\ src[Name(h)].kind = "file" /\ src[Name(h)].data \in Seq(Byte)
              /\ archive[h].size = Len(src[Name(h)].data) /\ archive[h].size \in Nat
         /\ archive[h].type = "link" => archive[h].link = src[Name(h)].data
<1> DEFINE p == Name(h)
<1>1. p \in Paths /\ archive[h].size \in Nat
  BY MemberType
<1>2. src[p] \in NodesOver(Byte) /\ src \in [Paths -> NodesOver(Byte)]
  BY <1>1 DEF TarTypeOK, MakerTypeOK
<1>3. src[p].kind # "absent" /\ archive[h] = Header(p)
  BY DEF HeadersRight
<1>4. Header(p).type = src[p].kind /\ Header(p).size = Size(src[p])
      /\ (src[p].kind # "file" => Header(p).size = 0)
  <2> HIDE DEF p
  <2> QED BY <1>1, <1>2, <1>3, HeaderType
<1>5. src[p].kind = "file" => Size(src[p]) = Len(src[p].data)
  BY DEF Size
<1>6. src[p].data \in Seq(Byte)
  BY <1>2, NodeTypes
<1>7. src[p].kind = "link" => Header(p).link = src[p].data
  BY DEF Header
<1> HIDE DEF p
<1> QED BY <1>1, <1>2, <1>3, <1>4, <1>5, <1>6, <1>7 DEF p

LEMMA CopyBlockWritten ==
  ASSUME TarTypeOK, Undisturbed', Written, CopyBlock PROVE Written'
<1> USE DEF makerVars, readerVars, wayVars
<1>1. /\ UNCHANGED <<src, changed, path, listed, todo, doing>> /\ doing = "copy"
      /\ left > 0 /\ left' = left - Len(Chunk) /\ offset' = offset + Len(Chunk)
  BY DEF CopyBlock
<1>2. UNCHANGED <<cut, partial>>
  BY Zenon DEF CopyBlock
<1>3. archive' = archive \o <<Data(Padded(Chunk))>>
  <2>1. failed' # TRUE
    BY DEF Undisturbed
  <2> QED BY <2>1, Zenon DEF CopyBlock, Write
<1>4. BlockSize \in Nat \ {0} /\ left \in Nat /\ offset \in Nat /\ path \in Paths
      /\ Len(archive) \in Nat
  BY <1>1, BytesAndBlocks, LenProperties DEF TarTypeOK, MakerTypeOK
<1>5. /\ Chunk \in Seq(Byte) /\ Data(Padded(Chunk)) \in DataBlocks
      /\ Len(Chunk) = Least(left, BlockSize)
  <2>1. /\ Chunk \in Seq(Byte) /\ Data(Padded(Chunk)) \in DataBlocks
        /\ Len(Chunk) \in Nat /\ Len(Chunk) <= BlockSize /\ Len(Chunk) <= left
    BY <1>4, ChunkType
  <2>2. ~ (Len(Chunk) < Least(left, BlockSize))
    <3>1. short' # TRUE
      BY DEF Undisturbed
    <3> QED BY <3>1, Zenon DEF CopyBlock
  <2> QED BY <1>4, <2>1, <2>2 DEF Least
<1>6. PICK h \in Members : Copying(h)
  BY <1>1 DEF Written, InHand
<1>7. PICK c \in Nat : c = Len(archive) - h
  BY <1>4, MemberType
<1> DEFINE size == archive[h].size
           j == Len(archive) + 1
<1>8. /\ h \in 1..Len(archive) /\ Name(h) = path /\ size \in Nat /\ Length(h) \in Nat
      /\ c <= Length(h) /\ \A i \in Members : i <= h
      /\ left = (IF c * BlockSize < size THEN size - c * BlockSize ELSE 0)
      /\ left > 0 => offset = c * BlockSize
  BY <1>6, <1>7, MemberType DEF Copying
<1>9. /\ c * BlockSize \in Nat /\ (c + 1) * BlockSize = c * BlockSize + BlockSize
  BY <1>7, Multiples
<1>10. /\ c * BlockSize < size /\ left = size - c * BlockSize /\ offset = c * BlockSize
       /\ c + 1 <= Length(h)
  <2>1. c * BlockSize < size
    BY <1>1, <1>8
  <2>2. c < Length(h)
    BY <1>7, <1>8, <2>1, BlocksLess DEF Length
  <2> QED BY <1>1, <1>7, <1>8, <2>1, <2>2
<1>11. /\ Len(archive') = Len(archive) + 1
       /\ \A i \in 1..Len(archive) : archive'[i] = archive[i]
       /\ archive'[Len(archive) + 1] = Data(Padded(Chunk))
       /\ Members' = Members
       /\ \A i \in Members : /\ Length(i)' = Length(i) /\ Name(i)' = Name(i)
                             /\ archive'[i] = archive[i]
  <2> DEFINE blocks == <<Data(Padded(Chunk))>>
  <2>1. /\ blocks \in Seq(Headers \cup DataBlocks) /\ Len(blocks) = 1
        /\ blocks[1] = Data(Padded(Chunk)) /\ 1 \in 1..Len(blocks) /\ blocks[1].kind = "data"
    BY <1>5 DEF DataBlocks
  <2> HIDE DEF blocks
  <2>2. archive' = archive \o blocks
    BY <1>3 DEF blocks
  <2>3. /\ Len(archive') = Len(archive) + Len(blocks)
        /\ \A i \in 1..Len(archive) : archive'[i] = archive[i]
        /\ \A k \in 1..Len(blocks) : archive'[Len(archive) + k] = blocks[k]
        /\ \A i \in Members : i \in Members' /\ Length(i)' = Length(i) /\ Name(i)' = Name(i)
                              /\ archive'[i] = archive[i]
        /\ \A i \in Members' : \/ i \in Members
                               \/ \E k \in 1..Len(blocks) : /\ i = Len(archive) + k
                                                            /\ blocks[k].kind = "header"
    BY <2>1, <2>2, Grown
  <2>4. \A k \in 1..Len(blocks) : blocks[k].kind # "header"
    BY <2>1
  <2>5. Members' = Members
    BY <2>3, <2>4
  <2> QED BY <2>1, <2>3, <2>5
<1>12. Apart'
  BY <1>11 DEF Written, Laid, Apart
<1>13. HeadersRight'
  <2>1. \A q : Header(q)' = Header(q)
    BY <1>1 DEF Header, Size
  <2> QED BY <1>1, <1>11, <2>1 DEF Written, Laid, HeadersRight
<1>14. path \notin changed => Data(Padded(Chunk)) = Data(Piece(path, c + 1))
  <2> SUFFICES ASSUME path \notin changed PROVE Data(Padded(Chunk)) = Data(Piece(path, c + 1))
    OBVIOUS
  <2> DEFINE data == src[path].data
  <2>1. size = Len(data)
    BY <1>8, <1>9, <1>10, HeaderOfFile DEF Written, Laid
  <2>2. Chunk = SubSeq(data, offset + 1, Least(offset + Least(left, BlockSize), Len(data)))
    BY DEF Chunk
  <2>3. Least(offset + Least(left, BlockSize), Len(data)) = Least((c + 1) * BlockSize, Len(data))
    <3> DEFINE x == c * BlockSize
               n == Len(data)
    <3>1. x \in Nat /\ n \in Nat /\ offset = x /\ left = n - x /\ (c + 1) * BlockSize = x + BlockSize
      BY <1>8, <1>9, <1>10, <2>1
    <3> HIDE DEF x, n
    <3>2. Least(x + Least(n - x, BlockSize), n) = Least(x + BlockSize, n)
      BY <1>4, <3>1 DEF Least
    <3> QED BY <3>1, <3>2 DEF n
  <2>4. offset + 1 = ((c + 1) - 1) * BlockSize + 1
    <3>1. (c + 1) - 1 = c
      BY <1>7
    <3> QED BY <1>10, <3>1
  <2>5. Chunk = SubSeq(data, ((c + 1) - 1) * BlockSize + 1, Least((c + 1) * BlockSize, Len(data)))
    BY <2>2, <2>3, <2>4, Zenon
  <2> QED BY <2>5, Zenon DEF Piece
<1>15. BlocksRight'
  <2> SUFFICES ASSUME NEW i \in Members, NEW k \in 1..Length(i), Name(i) \notin changed,
                      i + k <= Len(archive')
               PROVE  archive'[i + k] = Data(Piece(Name(i), k))
    <3>1. \A q, k : Data(Piece(q, k))' = Data(Piece(q, k))
      BY <1>1 DEF Data, Piece, Padded
    <3> QED BY <1>1, <1>11, <3>1 DEF BlocksRight
  <2>1. i \in 1..Len(archive) /\ Length(i) \in Nat
    BY MemberType
  <2>2. CASE i + k <= Len(archive)
    <3>1. i + k \in 1..Len(archive)
      BY <1>4, <2>1, <2>2
    <3>2. archive[i + k] = Data(Piece(Name(i), k))
      BY <2>2 DEF Written, Laid, BlocksRight
    <3> QED BY <1>11, <3>1, <3>2
  <2>3. CASE ~ (i + k <= Len(archive))
    <3>1. i + k = Len(archive) + 1
      BY <1>4, <1>11, <2>1, <2>3
    <3>2. i = h
      <4> SUFFICES ASSUME i # h PROVE FALSE
        OBVIOUS
      <4>1. i < h
        BY <1>8, <2>1
      <4>2. i + Length(i) < h
        BY <4>1 DEF Written, Laid, Apart
      <4> QED BY <1>4, <1>8, <2>1, <3>1, <4>2
    <3>3. k = c + 1
      BY <1>4, <1>7, <1>8, <3>1, <3>2
    <3> QED BY <1>8, <1>11, <1>14, <3>1, <3>2, <3>3
  <2> QED BY <2>2, <2>3
<1>16. Owned'
  <2> SUFFICES ASSUME NEW n \in 1..Len(archive'), archive'[n].kind = "data"
               PROVE  \E i \in Members : i < n /\ n <= i + Length(i)
    BY <1>11 DEF Owned
  <2>1. CASE n \in 1..Len(archive)
    BY <1>1, <1>11, <2>1 DEF Written, Laid, Owned, Sent
  <2>2. CASE n = Len(archive) + 1
    <3>1. h < n /\ n <= h + Length(h)
      BY <1>4, <1>7, <1>8, <1>10, <2>2
    <3> QED BY <3>1
  <2>3. n \in 1..Len(archive) \/ n = Len(archive) + 1
    BY <1>4, <1>11
  <2> QED BY <2>1, <2>2, <2>3
<1>17. Whole'
  BY <1>1 DEF Whole, Sent
<1>18. Underway'
  <2>1. listed' = << >> /\ ~cut'
    BY <1>1, <1>2 DEF Written, Underway
  <2>2. ~partial'
    BY <1>1, <1>2, <2>1 DEF Written, Underway
  <2> QED BY <1>1, <2>1, <2>2 DEF Underway, Sent
<1>19. InHand'
  <2>1. Len(archive') - h = c + 1 /\ archive'[h].size = size
    BY <1>4, <1>7, <1>8, <1>11
  <2>2. left' = IF (c + 1) * BlockSize < size THEN size - (c + 1) * BlockSize ELSE 0
    BY <1>1, <1>4, <1>5, <1>8, <1>9, <1>10, SMTT(30) DEF Least
  <2>3. left' > 0 => offset' = (c + 1) * BlockSize
    BY <1>1, <1>4, <1>5, <1>8, <1>9, <1>10 DEF Least
  <2>4. Copying(h)'
    <3> HIDE DEF size
    <3> QED BY <1>1, <1>8, <1>10, <1>11, <2>1, <2>2, <2>3 DEF Copying
  <2> QED BY <1>11, <2>4 DEF InHand
<1>20. Reached'
  BY <1>1, <1>2, <1>11 DEF Written, Reached
<1> QED BY <1>12, <1>13, <1>15, <1>16, <1>17, <1>18, <1>19, <1>20 DEF Written, Laid

LEMMA MemberCopiedWritten ==
  ASSUME TarTypeOK, Undisturbed', Written, MemberCopied PROVE Written'
<1> USE DEF makerVars, readerVars, wayVars
<1>1. UNCHANGED <<archive, src, changed, path, left, offset, listed, todo>> /\ doing = "copy"
      /\ doing' = "walk"
  BY DEF MemberCopied
<1>2. UNCHANGED <<cut, partial>>
  BY Zenon DEF MemberCopied
<1>3. left = 0
  <2>1. short' # TRUE
    BY DEF Undisturbed
  <2>2. ~ (left > 0)
    BY <2>1, Zenon DEF MemberCopied
  <2> QED BY <2>2 DEF TarTypeOK, MakerTypeOK
<1>4. PICK h \in Members : Copying(h)
  BY <1>1 DEF Written, InHand
<1>5. h + Length(h) = Len(archive) /\ \A i \in Members : i <= h
  <2>1. /\ h \in 1..Len(archive) /\ Len(archive) \in Nat /\ archive[h].size \in Nat /\ Length(h) \in Nat
    BY MemberType
  <2>2. PICK c \in Nat : c = Len(archive) - h
    BY <2>1
  <2>3. /\ c <= Length(h) /\ \A i \in Members : i <= h
        /\ left = IF c * BlockSize < archive[h].size THEN archive[h].size - c * BlockSize ELSE 0
    BY <1>4, <2>2 DEF Copying
  <2>4. c * BlockSize \in Nat
    BY <2>2, Multiples
  <2>5. ~ (c * BlockSize < archive[h].size)
    BY <1>3, <2>1, <2>3, <2>4
  <2>6. ~ (c < Length(h))
    BY <2>1, <2>5, BlocksLess DEF Length
  <2> QED BY <2>1, <2>2, <2>3, <2>6
<1>6. Apart' /\ HeadersRight' /\ BlocksRight'
  BY <1>1, LaidRests DEF Written, Laid
<1>7. Owned'
  BY <1>1 DEF Written, Laid, Owned, Members, Length, Sent
<1>8. Whole'
  <2> SUFFICES ASSUME NEW i \in Members PROVE i + Length(i) <= Len(archive)
    BY <1>1 DEF Whole, Members, Length
  <2>1. CASE i = h
    BY <1>5, <2>1, MemberType
  <2>2. CASE i # h
    <3>1. i \in Nat /\ h \in 1..Len(archive) /\ Len(archive) \in Nat /\ i + Length(i) \in Nat
      BY MemberType
    <3>2. i < h
      BY <1>5, <2>2, <3>1
    <3>3. i + Length(i) < h
      BY <3>2 DEF Written, Laid, Apart
    <3> QED BY <3>1, <3>3
  <2> QED BY <2>1, <2>2
<1>9. Underway'
  <2>1. listed' = << >> /\ ~cut'
    BY <1>1, <1>2 DEF Written, Underway
  <2>2. ~partial'
    BY <1>1, <1>2, <2>1 DEF Written, Underway
  <2> QED BY <1>1, <2>1, <2>2 DEF Underway, Sent
<1>10. InHand'
  BY <1>1 DEF InHand
<1>11. Reached'
  BY <1>1, <1>2 DEF Written, Reached, Members, Name
<1> QED BY <1>6, <1>7, <1>8, <1>9, <1>10, <1>11 DEF Written, Laid

LEMMA EndArchiveWritten ==
  ASSUME TarTypeOK, Undisturbed', Written, EndArchive PROVE Written'
<1> USE DEF makerVars, readerVars, wayVars
<1> DEFINE zero == Data(Zeros(BlockSize))
<1>1. UNCHANGED <<src, changed, path, left, offset, listed, todo>> /\ doing = "walk"
      /\ doing' = "sent" /\ todo = << >>
  BY DEF EndArchive
<1>2. UNCHANGED <<cut, partial>>
  BY Zenon DEF EndArchive
<1>3. archive' = archive \o <<zero, zero>>
  <2>1. failed' # TRUE
    BY DEF Undisturbed
  <2> QED BY <2>1, Zenon DEF EndArchive, Write
<1>4. zero \in DataBlocks /\ IsZero(zero) /\ zero.kind = "data"
  BY ZerosType
<1> HIDE DEF zero
<1>5. /\ Len(archive') = Len(archive) + 2 /\ Len(archive) \in Nat
      /\ \A i \in 1..Len(archive) : archive'[i] = archive[i]
      /\ archive'[Len(archive) + 1] = zero /\ archive'[Len(archive) + 2] = zero
      /\ Members' = Members
      /\ \A i \in Members : /\ Length(i)' = Length(i) /\ Name(i)' = Name(i)
                            /\ archive'[i] = archive[i]
  <2> DEFINE blocks == <<zero, zero>>
  <2>1. /\ blocks \in Seq(Headers \cup DataBlocks) /\ Len(blocks) = 2
        /\ \A k \in 1..Len(blocks) : blocks[k] = zero
        /\ 1 \in 1..Len(blocks) /\ 2 \in 1..Len(blocks)
    BY <1>4
  <2> HIDE DEF blocks
  <2>2. archive' = archive \o blocks
    BY <1>3 DEF blocks
  <2>3. /\ Len(archive') = Len(archive) + Len(blocks) /\ Len(archive) \in Nat
        /\ \A i \in 1..Len(archive) : archive'[i] = archive[i]
        /\ \A k \in 1..Len(blocks) : archive'[Len(archive) + k] = blocks[k]
        /\ \A i \in Members : i \in Members' /\ Length(i)' = Length(i) /\ Name(i)' = Name(i)
                              /\ archive'[i] = archive[i]
        /\ \A i \in Members' : \/ i \in Members
                               \/ \E k \in 1..Len(blocks) : /\ i = Len(archive) + k
                                                            /\ blocks[k].kind = "header"
    BY <2>1, <2>2, Grown
  <2>4. \A k \in 1..Len(blocks) : blocks[k].kind # "header"
    BY <1>4, <2>1
  <2>5. Members' = Members
    BY <2>3, <2>4
  <2> QED BY <2>1, <2>3, <2>5
<1>6. \A i \in Members : /\ i \in 1..Len(archive) /\ Length(i) \in Nat
                         /\ i + Length(i) <= Len(archive)
  BY <1>1, MemberType DEF Written, Laid, Whole
<1>7. Apart'
  BY <1>5 DEF Written, Laid, Apart
<1>8. HeadersRight'
  <2>1. \A q : Header(q)' = Header(q)
    BY <1>1 DEF Header, Size
  <2> QED BY <1>1, <1>5, <2>1 DEF Written, Laid, HeadersRight
<1>9. BlocksRight'
  <2> SUFFICES ASSUME NEW i \in Members, NEW k \in 1..Length(i), Name(i) \notin changed
               PROVE  archive'[i + k] = Data(Piece(Name(i), k))
    <3>1. \A q, k : Data(Piece(q, k))' = Data(Piece(q, k))
      BY <1>1 DEF Data, Piece, Padded
    <3> QED BY <1>1, <1>5, <3>1 DEF BlocksRight
  <2>1. i + k \in 1..Len(archive)
    BY <1>5, <1>6
  <2>2. archive[i + k] = Data(Piece(Name(i), k))
    BY <2>1 DEF Written, Laid, BlocksRight
  <2> QED BY <1>5, <2>1, <2>2
<1>10. Owned'
  <2> SUFFICES ASSUME NEW n \in 1..Len(archive'), archive'[n].kind = "data"
               PROVE  \/ \E i \in Members : i < n /\ n <= i + Length(i)
                      \/ IsZero(archive'[n]) /\ \A i \in Members : i < n
    BY <1>1, <1>5 DEF Owned, Sent, IsZero
  <2>1. CASE n \in 1..Len(archive)
    BY <1>1, <1>5, <2>1 DEF Written, Laid, Owned, Sent
  <2>2. CASE n = Len(archive) + 1 \/ n = Len(archive) + 2
    <3>1. archive'[n] = zero
      BY <1>5, <2>2
    <3>2. \A i \in Members : i < n
      BY <1>5, <1>6, <2>2
    <3> QED BY <1>4, <3>1, <3>2
  <2>3. n \in 1..Len(archive) \/ n = Len(archive) + 1 \/ n = Len(archive) + 2
    BY <1>5
  <2> QED BY <2>1, <2>2, <2>3
<1>11. Whole'
  <2> SUFFICES ASSUME NEW i \in Members PROVE i + Length(i) <= Len(archive')
    BY <1>5 DEF Whole
  <2> QED BY <1>5, <1>6
<1>12. Underway'
  <2>1. listed' = << >> /\ ~cut'
    BY <1>1, <1>2 DEF Written, Underway
  <2>2. ~partial'
    BY <1>1, <1>2, <2>1 DEF Written, Underway
  <2> QED BY <1>1, <2>1, <2>2 DEF Underway
<1>13. InHand'
  BY <1>1 DEF InHand
<1>14. Reached'
  BY <1>1, <1>2, <1>5 DEF Written, Reached
<1> QED BY <1>7, <1>8, <1>9, <1>10, <1>11, <1>12, <1>13, <1>14 DEF Written, Laid

LEMMA ChangeWritten ==
  ASSUME TarTypeOK, TreesOK, Written, NEW p \in Paths, Change(p) PROVE Written'
<1> USE DEF makerVars, readerVars, wayVars
<1>1. UNCHANGED <<archive, doing, path, left, offset, listed, todo>>
  BY DEF Change
<1>2. UNCHANGED <<cut, partial>>
  BY Zenon DEF Change
<1>3. changed' = changed \cup {p} /\ \A q \in Paths : q # p => src'[q] = src[q]
  BY ChangeType
<1>4. Members' = Members /\ \A i : Length(i)' = Length(i) /\ Name(i)' = Name(i)
  BY <1>1 DEF Members, Length, Name
<1>5. \A q \in Paths : q # p => Header(q)' = Header(q)
  BY <1>3 DEF Header, Size
<1>6. \A i \in Members : Name(i) \in Paths
  BY MemberType
<1>7. Apart'
  BY <1>4 DEF Written, Laid, Apart
<1>8. HeadersRight'
  <2>1. ASSUME NEW i \in Members, Name(i) \notin changed'
        PROVE  /\ src'[Name(i)].kind # "absent" /\ Header(Name(i))' = Header(Name(i))
               /\ archive[i] = Header(Name(i))
    <3>1. Name(i) # p /\ Name(i) \notin changed /\ Name(i) \in Paths
      BY <1>3, <1>6, <2>1
    <3>2. src'[Name(i)] = src[Name(i)] /\ Name(i)' = Name(i)
      BY <1>3, <1>4, <3>1
    <3>3. Header(Name(i))' = Header(Name(i))
      BY <3>2 DEF Header, Size
    <3>4. src[Name(i)].kind # "absent" /\ archive[i] = Header(Name(i))
      BY <3>1 DEF Written, Laid, HeadersRight
    <3> QED BY <3>2, <3>3, <3>4
  <2>2. \A i \in Members : archive[i].type # "file" => archive[i].size = 0
    BY DEF Written, Laid, HeadersRight
  <2>3. ASSUME NEW i \in Members
        PROVE  /\ archive'[i].type # "file" => archive'[i].size = 0
               /\ Name(i)' \notin changed' => /\ src'[Name(i)'].kind # "absent"
                                              /\ archive'[i] = Header(Name(i))'
    BY <1>1, <1>4, <2>1, <2>2
  <2> QED BY <1>4, <2>3 DEF HeadersRight
<1>9. BlocksRight'
  <2> SUFFICES ASSUME NEW i \in Members, NEW k \in 1..Length(i), Name(i) \notin changed',
                      i + k <= Len(archive)
               PROVE  archive[i + k] = Data(Piece(Name(i), k))'
    BY <1>1, <1>4 DEF BlocksRight
  <2>1. Name(i) # p /\ Name(i) \notin changed /\ Name(i) \in Paths
    BY <1>3, <1>6
  <2>2. src'[Name(i)] = src[Name(i)] /\ Name(i)' = Name(i)
    BY <1>3, <1>4, <2>1
  <2>3. Data(Piece(Name(i), k))' = Data(Piece(Name(i), k))
    BY <2>2 DEF Data, Piece, Padded
  <2>4. archive[i + k] = Data(Piece(Name(i), k))
    BY <2>1 DEF Written, Laid, BlocksRight
  <2> QED BY <2>3, <2>4
<1>10. Owned' /\ Whole'
  BY <1>1, <1>2, OwnedRests DEF Written, Laid
<1>11. Underway'
  <2>1. doing' \in {"walk", "open", "copy", "sent"} => listed' = << >> /\ ~cut'
    BY <1>1, <1>2 DEF Written, Underway
  <2>2. ~cut' => ~partial'
    BY <1>2 DEF Written, Underway
  <2>3. doing' \in Sent => todo' = << >>
    BY <1>1 DEF Written, Underway
  <2> QED BY <2>1, <2>2, <2>3, Zenon DEF Underway
<1>12. InHand'
  BY <1>1, <1>4 DEF Written, InHand, Copying
<1>13. Reached'
  <2> SUFFICES ASSUME ~cut, NEW i \in Members, NEW q \in Paths, q \notin changed',
                      src'[q].kind # "absent", Name(i) \in Above[q]
               PROVE  \/ \E j \in Members : Name(j) = q
                      \/ \E m \in 1..Len(todo) : todo[m] = q \/ todo[m] \in Above[q]
    BY <1>1, <1>2, <1>4 DEF Reached
  <2>1. q # p /\ q \notin changed /\ src'[q] = src[q]
    BY <1>3
  <2> QED BY <2>1 DEF Written, Reached
<1> QED BY <1>7, <1>8, <1>9, <1>10, <1>11, <1>12, <1>13 DEF Written, Laid

(* What arrives is the beginning of what was sent. *)
LEMMA DeliverWritten ==
  ASSUME TarTypeOK, Written, Deliver PROVE Written'
<1> USE DEF makerVars, readerVars, wayVars
<1>1. UNCHANGED <<src, changed, path, left, offset, listed, todo>> /\ doing = "sent" /\ doing' = "head"
  BY DEF Deliver
<1>2. PICK k \in 0..Len(archive) : /\ archive' = SubSeq(archive, 1, k)
                                   /\ partial' \in IF k < Len(archive) THEN BOOLEAN ELSE {FALSE}
                                   /\ cut' = (k < Len(archive))
  BY DEF Deliver
<1>3. archive \in Seq(Headers \cup DataBlocks) /\ Len(archive) \in Nat
  BY LenProperties DEF TarTypeOK, MakerTypeOK
<1>4. Len(archive') = k /\ \A i \in 1..k : archive'[i] = archive[i]
  <2> DEFINE B == Headers \cup DataBlocks
  <2>1. \A i \in 1..k : archive[i] \in B
    BY <1>3, ElementOfSeq
  <2> HIDE DEF B
  <2>2. /\ Len(SubSeq(archive, 1, k)) = IF 1 <= k THEN k - 1 + 1 ELSE 0
        /\ \A i \in 1..(k - 1 + 1) : SubSeq(archive, 1, k)[i] = archive[1 + i - 1]
    BY <1>3, <2>1, SubSeqProperties
  <2>3. k - 1 + 1 = k /\ \A i \in 1..k : 1 + i - 1 = i
    BY <1>3
  <2> QED BY <1>2, <1>3, <2>2, <2>3
<1>5. /\ \A i \in Members' : /\ i \in Members /\ i <= k /\ Length(i)' = Length(i) /\ Name(i)' = Name(i)
                             /\ archive'[i] = archive[i]
      /\ \A i \in Members : i <= k => i \in Members'
  <2>1. \A i \in 1..k : i \in 1..Len(archive)
    BY <1>3
  <2> QED BY <1>3, <1>4, <2>1 DEF Members, Length, Name
<1>6. Apart'
  BY <1>5 DEF Written, Laid, Apart
<1>7. HeadersRight'
  <2>1. \A q : Header(q)' = Header(q)
    BY <1>1 DEF Header, Size
  <2> QED BY <1>1, <1>5, <2>1 DEF Written, Laid, HeadersRight
<1>8. BlocksRight'
  <2> SUFFICES ASSUME NEW i \in Members, NEW n \in 1..Length(i), Name(i) \notin changed, i + n <= k
               PROVE  archive'[i + n] = Data(Piece(Name(i), n))
    <3>1. \A q, m : Data(Piece(q, m))' = Data(Piece(q, m))
      BY <1>1 DEF Data, Piece, Padded
    <3> QED BY <1>1, <1>4, <1>5, <3>1 DEF BlocksRight
  <2>1. i \in 1..Len(archive) /\ Length(i) \in Nat
    BY MemberType
  <2>2. i + n \in 1..k /\ i + n <= Len(archive)
    BY <1>3, <2>1
  <2>3. archive[i + n] = Data(Piece(Name(i), n))
    BY <2>2 DEF Written, Laid, BlocksRight
  <2> QED BY <1>4, <2>2, <2>3
<1>9. Owned'
  <2> SUFFICES ASSUME NEW n \in 1..k, archive'[n].kind = "data"
               PROVE  \/ \E i \in Members' : i < n /\ n <= i + Length(i)'
                      \/ IsZero(archive'[n]) /\ \A i \in Members' : i < n
    BY <1>1, <1>4 DEF Owned, Sent, IsZero
  <2>1. archive'[n] = archive[n] /\ n \in 1..Len(archive)
    BY <1>3, <1>4
  <2>2. \/ \E i \in Members : i < n /\ n <= i + Length(i)
        \/ IsZero(archive[n]) /\ \A i \in Members : i < n
    BY <2>1 DEF Written, Laid, Owned
  <2>3. ASSUME NEW i \in Members, i < n, n <= i + Length(i)
        PROVE  i \in Members' /\ Length(i)' = Length(i)
    <3>1. i \in Nat
      BY MemberType
    <3>2. i <= k
      BY <2>3, <3>1
    <3> QED BY <1>5, <3>2
  <2>4. CASE \E i \in Members : i < n /\ n <= i + Length(i)
    <3>1. PICK i \in Members : i < n /\ n <= i + Length(i)
      BY <2>4
    <3>2. i \in Members' /\ Length(i)' = Length(i)
      BY <2>3, <3>1
    <3> QED BY <3>1, <3>2
  <2>5. CASE IsZero(archive[n]) /\ \A i \in Members : i < n
    BY <1>5, <2>1, <2>5
  <2> QED BY <2>2, <2>4, <2>5
<1>10. ~cut
  BY <1>1 DEF Written, Underway
<1>11. ~cut' => k = Len(archive)
  <2>1. k = Len(archive) \/ k < Len(archive)
    BY <1>3
  <2>2. k < Len(archive) => cut'
    BY <1>2, Zenon
  <2> QED BY <2>1, <2>2
<1>12. Whole'
  <2> SUFFICES ASSUME ~cut', NEW i \in Members' PROVE i + Length(i)' <= Len(archive')
    BY <1>1 DEF Whole
  <2>1. i + Length(i) <= Len(archive)
    BY <1>1, <1>5, <1>10 DEF Written, Laid, Whole, Sent
  <2> QED BY <1>4, <1>5, <1>11, <2>1
<1>13. Underway'
  <2>1. ~cut' => ~partial'
    BY <1>2, <1>3, <1>11
  <2>2. todo' = << >>
    BY <1>1 DEF Written, Underway, Sent
  <2> QED BY <1>1, <2>1, <2>2 DEF Underway
<1>14. InHand'
  BY <1>1 DEF InHand
<1>15. Reached'
  <2> SUFFICES ASSUME ~cut', NEW i \in Members', NEW q \in Paths \ changed,
                      src[q].kind # "absent", Name(i)' \in Above[q]
               PROVE  \/ \E j \in Members' : Name(j)' = q
                      \/ \E m \in 1..Len(todo) : todo[m] = q \/ todo[m] \in Above[q]
    BY <1>1 DEF Reached
  <2>1. \/ \E j \in Members : Name(j) = q
        \/ \E m \in 1..Len(todo) : todo[m] = q \/ todo[m] \in Above[q]
    BY <1>5, <1>10 DEF Written, Reached
  <2>2. ASSUME NEW j \in Members, Name(j) = q PROVE j \in Members' /\ Name(j)' = q
    <3>1. j <= k
      BY <1>11, MemberType
    <3> QED BY <1>5, <2>2, <3>1
  <2> QED BY <2>1, <2>2
<1> QED BY <1>6, <1>7, <1>8, <1>9, <1>12, <1>13, <1>14, <1>15 DEF Written, Laid

-------------------------------------------------------------------------------
(* While the archive is read. *)

(* How many members there are up to a block. *)
LEMMA RankSteps ==
  ASSUME TarTypeOK, NEW n \in Nat
  PROVE  /\ Rank(n) \in Nat /\ Rank(n + 1) = Rank(n) + (IF n + 1 \in Members THEN 1 ELSE 0)
         /\ \A i \in Members : i <= n => Rank(i) \in 1..Rank(n)
<1>1. IsFiniteSet(Members) /\ \A i \in Members : i \in Nat \ {0}
  <2>1. Len(archive) \in Nat
    BY LenProperties DEF TarTypeOK, MakerTypeOK
  <2>2. IsFiniteSet(1..Len(archive))
    BY <2>1, FS_Interval
  <2>3. Members \subseteq 1..Len(archive)
    BY DEF Members
  <2>4. IsFiniteSet(Members)
    BY <2>2, <2>3, FS_Subset
  <2> QED BY <2>1, <2>3, <2>4
<1>2. \A k \in Nat : Rank(k) = Below(Members, k + 1)
  <2> SUFFICES ASSUME NEW k \in Nat PROVE Rank(k) = Below(Members, k + 1)
    OBVIOUS
  <2>1. {j \in Members : j <= k} = {j \in Members : j < k + 1}
    BY <1>1
  <2> QED BY <2>1 DEF Rank, Below
<1>3. \A k \in Nat : k + 1 \in Nat
  OBVIOUS
<1>4. /\ Below(Members, n + 1) \in Nat
      /\ Below(Members, (n + 1) + 1) = Below(Members, n + 1) + (IF n + 1 \in Members THEN 1 ELSE 0)
  <2>1. \A s \in Members : s \in Nat
    BY <1>1
  <2> QED BY <1>1, <1>3, <2>1, BelowStep
<1>5. ASSUME NEW i \in Members, i <= n PROVE Rank(i) \in 1..Rank(n)
  <2>1. i \in Nat /\ i < i + 1 /\ i + 1 \in Nat /\ \A s \in Members : s \in Nat
    BY <1>1
  <2>2. Below(Members, i) \in Nat /\ Below(Members, i + 1) \in Nat /\ Below(Members, i) < Below(Members, i + 1)
    BY <1>1, <2>1, RankBelow
  <2>3. Below(Members, i + 1) <= Below(Members, n + 1)
    <3> DEFINE A == {s \in Members : s < i + 1}
               B == {s \in Members : s < n + 1}
    <3>1. A \subseteq B /\ IsFiniteSet(B)
      <4>1. B \subseteq Members
        OBVIOUS
      <4>2. \A s \in Members : s < i + 1 => s < n + 1
        BY <1>1, <1>5, <2>1
      <4> QED BY <1>1, <4>1, <4>2, FS_Subset
    <3>2. Cardinality(A) <= Cardinality(B)
      BY <3>1, FS_Subset
    <3> QED BY <3>2 DEF Below
  <2>4. Rank(i) = Below(Members, i + 1) /\ Rank(n) = Below(Members, n + 1)
    BY <1>2, <2>1
  <2> QED BY <1>4, <2>2, <2>3, <2>4
<1> QED BY <1>2, <1>3, <1>4, <1>5

(* Nothing is read before the archive has been sent. *)
LEMMA MakerRead ==
  ASSUME at' = 0, listed' = << >>, doing' \notin {"body", "done"}
  PROVE  Read'
<1>1. \A i \in Members' : ~ (i <= at')
  BY DEF Members
<1>2. AtHead' /\ InBody' /\ AtEnd'
  BY <1>1 DEF AtHead, InBody, AtEnd, Boundary
<1>3. Listed'
  <2>1. {j \in Members' : j <= at'} = {}
    BY <1>1
  <2>2. Rank(at)' = 0
    BY <2>1, FS_EmptySet DEF Rank
  <2> QED BY <1>1, <2>2, EmptySeq DEF Listed
<1> QED BY <1>2, <1>3 DEF Read

(* The archive itself stays as it is. *)
LEMMA ReaderWritten ==
  ASSUME Written, doing \in {"head", "body"}, doing' \in {"head", "body", "done"},
         UNCHANGED <<archive, src, changed, todo>>, cut' = cut, partial' => partial
  PROVE  Written'
<1>1. Laid'
  BY LaidRests, OwnedRests DEF Written, Laid, Sent
<1>2. Underway'
  <2>1. todo' = << >>
    BY DEF Written, Underway, Sent
  <2>2. ~cut' => ~partial'
    BY DEF Written, Underway
  <2>3. doing' \notin {"walk", "open", "copy", "sent"}
    OBVIOUS
  <2> QED BY <2>1, <2>2, <2>3, Zenon DEF Underway
<1>3. InHand'
  BY DEF InHand
<1>4. Reached'
  BY DEF Written, Reached, Members, Name
<1> QED BY <1>1, <1>2, <1>3, <1>4 DEF Written

(* What is where a header should be belongs to no member, so that it is a  *)
(* header, or a block of zeros behind all members.                         *)
LEMMA HeadBlock ==
  ASSUME TarTypeOK, Written, Read, doing = "head", at < Len(archive)
  PROVE  /\ at \in Nat /\ Len(archive) \in Nat /\ at + 1 \in 1..Len(archive)
         /\ Block.kind = "header" => at + 1 \in Members
         /\ Block.kind # "header" => /\ IsZero(Block) /\ at + 1 \notin Members
                                     /\ \A i \in Members : i <= at
<1>1. /\ at + 1 \in 1..Len(archive) /\ Len(archive) \in Nat /\ at \in Nat
      /\ Block.kind # "header" => Block.kind = "data"
  <2>1. at \in 0..Len(archive)
    BY DEF TarTypeOK, ReaderTypeOK
  <2>2. at + 1 \in 1..Len(archive) /\ Len(archive) \in Nat /\ (Block.kind # "header" => Block.kind = "data")
    BY BlockType
  <2> QED BY <2>1, <2>2
<1>2. Block.kind = "header" => at + 1 \in Members
  BY <1>1 DEF Members, Block
<1>3. ASSUME Block.kind # "header"
      PROVE  IsZero(Block) /\ at + 1 \notin Members /\ \A i \in Members : i <= at
  <2>1. \/ \E i \in Members : i < at + 1 /\ at + 1 <= i + Length(i)
        \/ IsZero(Block) /\ \A i \in Members : i < at + 1
    BY <1>1, <1>3 DEF Written, Laid, Owned, Block
  <2>2. ASSUME NEW i \in Members, i < at + 1, at + 1 <= i + Length(i) PROVE FALSE
    <3>1. i \in 1..Len(archive) /\ Length(i) \in Nat
      BY MemberType
    <3>2. i <= at
      BY <1>1, <2>2, <3>1
    <3>3. i + Length(i) <= at
      BY <3>2 DEF Read, AtHead, Boundary
    <3> QED BY <1>1, <2>2, <3>1, <3>3
  <2>3. \A i \in Members : i < at + 1 => i <= at
    BY <1>1, MemberType
  <2> QED BY <1>3, <2>1, <2>2, <2>3 DEF Members, Block
<1> QED BY <1>1, <1>2, <1>3

(* Members up to a boundary when another one begins there. *)
LEMMA NextMember ==
  ASSUME TarTypeOK, Written, Read, doing = "head", at < Len(archive), at + 1 \in Members
  PROVE  /\ Name(at + 1) \in Paths /\ archive[at + 1].size \in Nat /\ Length(at + 1) \in Nat
         /\ \A i \in Members : i <= at => i + Length(i) <= at
         /\ \A i \in Members : i <= at + 1 + Length(at + 1) => i <= at \/ i = at + 1
<1> DEFINE h == at + 1
<1>1. Name(h) \in Paths /\ archive[h].size \in Nat /\ Length(h) \in Nat /\ at \in Nat
  <2>1. at \in Nat
    BY LenProperties DEF TarTypeOK, MakerTypeOK, ReaderTypeOK
  <2> HIDE DEF h
  <2>2. h \in Members
    BY DEF h
  <2> QED BY <2>1, <2>2, MemberType
<1>2. \A i \in Members : i <= at => i + Length(i) <= at
  BY DEF Read, AtHead, Boundary
<1>3. ASSUME NEW i \in Members, i <= h + Length(h) PROVE i <= at \/ i = h
  <2>1. i \in Nat
    BY MemberType
  <2>2. h < i => h + Length(h) < i
    BY DEF Written, Laid, Apart
  <2>3. ~ (h < i)
    BY <1>1, <1>3, <2>1, <2>2
  <2> QED BY <1>1, <2>1, <2>3
<1> QED BY <1>1, <1>2, <1>3

LEMMA NoMoreBlocksRead ==
  ASSUME TarTypeOK, Written, Read, NoMoreBlocks PROVE Written' /\ Read'
<1> USE DEF makerVars, readerVars, wayVars
<1>1. /\ UNCHANGED <<src, todo, changed, archive, at, dst, listed, op, astray>> /\ doing = "head"
      /\ doing' = "done" /\ at = Len(archive) /\ ret' = IF op = "extract" /\ partial THEN 1 ELSE 0
  BY DEF NoMoreBlocks, Return
<1>2. UNCHANGED <<cut, partial>>
  BY Zenon DEF NoMoreBlocks
<1>3. Written'
  BY <1>1, <1>2, ReaderWritten
<1>4. \A i \in Members : i <= at
  BY <1>1, MemberType
<1>5. Members' = Members /\ \A i : Name(i)' = Name(i)
  BY <1>1 DEF Members, Name
<1>6. op = "extract" => Faithful(Here)'
  BY <1>1, <1>4, <1>5 DEF Read, AtHead, Restored, Faithful, Name
<1>7. ~cut' => ret' = 0
  BY <1>1, <1>2 DEF Written, Underway
<1>8. AtEnd'
  <2>1. \A i \in Members' : i <= at'
    BY <1>1, <1>4, <1>5
  <2>2. op' = "extract" => Faithful(Here)'
    BY <1>1, <1>6
  <2> QED BY <1>7, <2>1, <2>2, Zenon DEF AtEnd
<1>9. AtHead' /\ InBody'
  BY <1>1 DEF AtHead, InBody
<1>10. Listed'
  BY <1>1, <1>5 DEF Read, Listed, Rank
<1> QED BY <1>3, <1>8, <1>9, <1>10 DEF Read

LEMMA SkipZeroBlockRead ==
  ASSUME TarTypeOK, Written, Read, SkipZeroBlock PROVE Written' /\ Read'
<1> USE DEF makerVars, readerVars, wayVars
<1>1. /\ UNCHANGED <<src, todo, changed, archive, dst, listed, op, astray>> /\ doing = "head"
      /\ at < Len(archive) /\ at' = at + 1 /\ doing' \in {"head", "done"}
      /\ doing' = "done" => ret' = 0
  BY DEF SkipZeroBlock, Return
<1>2. UNCHANGED <<cut, partial>>
  BY Zenon DEF SkipZeroBlock
<1>3. Written'
  BY <1>1, <1>2, ReaderWritten
<1>4. at \in Nat /\ Len(archive) \in Nat /\ at + 1 \notin Members /\ \A i \in Members : i <= at
  <2>1. Block.kind # "header"
    BY DEF SkipZeroBlock, IsZero
  <2> QED BY <1>1, <2>1, HeadBlock
<1>5. Members' = Members /\ \A i : Name(i)' = Name(i) /\ Length(i)' = Length(i)
  BY <1>1 DEF Members, Name, Length
<1>6. \A i \in Members : i <= at + 1
  BY <1>4, MemberType
<1>7. AtHead'
  <2>1. Boundary'
    <3>1. \A i \in Members : i + Length(i) <= at
      BY <1>1, <1>4 DEF Read, AtHead, Boundary
    <3>2. \A i \in Members : i + Length(i) \in Nat
      BY MemberType
    <3> QED BY <1>1, <1>4, <1>5, <3>1, <3>2 DEF Boundary
  <2>2. op = "extract" => \A i \in Members : Restored(i)'
    BY <1>1, <1>4, <1>5 DEF Read, AtHead, Restored
  <2> QED BY <1>1, <1>5, <2>1, <2>2 DEF AtHead
<1>8. AtEnd'
  <2>1. op = "extract" => Faithful(Here)'
    BY <1>1, <1>4, <1>5 DEF Read, AtHead, Restored, Faithful, Name
  <2>2. \A i \in Members' : i <= at'
    BY <1>1, <1>5, <1>6
  <2> QED BY <1>1, <2>1, <2>2 DEF AtEnd
<1>9. InBody'
  BY <1>1 DEF InBody
<1>10. Listed'
  <2>1. Rank(at + 1) = Rank(at)
    <3>1. Rank(at) \in Nat /\ Rank(at + 1) = Rank(at) + (IF at + 1 \in Members THEN 1 ELSE 0)
      BY <1>4, RankSteps
    <3> QED BY <1>4, <3>1
  <2>3. Rank(at)' = Rank(at)
    BY <1>1, <1>5, <2>1 DEF Rank
  <2> QED BY <1>1, <1>4, <1>5, <2>3 DEF Read, Listed, Rank
<1> QED BY <1>3, <1>7, <1>8, <1>9, <1>10 DEF Read

LEMMA BadHeaderRead ==
  ASSUME TarTypeOK, Written, Read, BadHeader PROVE FALSE
<1>1. doing = "head" /\ at < Len(archive) /\ ~IsZero(Block) /\ Block.kind # "header"
  BY DEF BadHeader, AtMember
<1> QED BY <1>1, HeadBlock

LEMMA ListMemberRead ==
  ASSUME TarTypeOK, Written, Read, ListMember PROVE Written' /\ Read'
<1> USE DEF makerVars, readerVars, wayVars
<1>1. /\ UNCHANGED <<src, todo, changed, archive, dst, op, doing>> /\ doing = "head"
      /\ at < Len(archive) /\ ~IsZero(Block) /\ op = "list"
  BY DEF ListMember, AtMember
<1>2. PICK h \in Nat : h = at + 1
  BY DEF TarTypeOK, ReaderTypeOK
<1>3. Block.kind = "header" /\ h \in Members /\ at \in Nat /\ Len(archive) \in Nat
  BY <1>1, <1>2, HeadBlock
<1>4. listed' = Append(listed, Name(h)) /\ SkipBlocks(1 + Length(h))
  BY <1>2, <1>3 DEF ListMember, Name, Length, Block
<1>5. /\ Name(h) \in Paths /\ Length(h) \in Nat
      /\ \A i \in Members : i <= at => i + Length(i) <= at
      /\ \A i \in Members : i <= h + Length(h) => i <= at \/ i = h
  BY <1>1, <1>2, <1>3, NextMember
<1>6. at' = Least(at + (1 + Length(h)), Len(archive))
  BY <1>4 DEF SkipBlocks
<1>7. at' \in Nat /\ h <= at' /\ at' <= h + Length(h) /\ (at' < Len(archive) => at' = h + Length(h))
  BY <1>1, <1>2, <1>3, <1>5, <1>6 DEF Least
<1>8. Members' = Members /\ \A i : Name(i)' = Name(i) /\ Length(i)' = Length(i)
  BY <1>1 DEF Members, Name, Length
<1>9. \A i \in Members : i <= at' <=> i <= at \/ i = h
  <2> SUFFICES ASSUME NEW i \in Members PROVE i <= at' <=> i <= at \/ i = h
    OBVIOUS
  <2>1. i \in Nat
    BY MemberType
  <2>2. i <= at' => i <= h + Length(h)
    BY <1>5, <1>7, <2>1
  <2>3. i <= at \/ i = h => i <= at'
    BY <1>2, <1>3, <1>7, <2>1
  <2> QED BY <1>5, <2>2, <2>3
<1>10. Written'
  <2>1. cut' = cut
    BY Zenon DEF ListMember
  <2>2. partial' => partial
    BY <1>4, Zenon DEF SkipBlocks
  <2> QED BY <1>1, <2>1, <2>2, ReaderWritten
<1>11. AtHead'
  <2>1. ASSUME at' < Len(archive') PROVE Boundary'
    <3> SUFFICES ASSUME NEW i \in Members, i <= at' PROVE i + Length(i) <= at'
      BY <1>8 DEF Boundary
    <3>1. at' = h + Length(h) /\ (i <= at \/ i = h)
      BY <1>1, <1>7, <1>9, <2>1
    <3>2. i + Length(i) \in Nat
      BY MemberType
    <3> QED BY <1>2, <1>3, <1>5, <3>1, <3>2
  <2> QED BY <1>1, <2>1 DEF AtHead
<1>12. InBody' /\ AtEnd'
  BY <1>1 DEF InBody, AtEnd
<1>13. Listed'
  <2>1. \A i : Cardinality({j \in Members' : j <= i}) = Cardinality({j \in Members : j <= i})
    BY <1>8
  <2>2. Rank(at') = Rank(h)
    <3>1. {j \in Members : j <= at'} = {j \in Members : j <= h}
      <4>1. \A j \in Members : j <= h <=> j <= at \/ j = h
        BY <1>2, <1>3, MemberType
      <4> QED BY <1>9, <4>1
    <3> QED BY <3>1 DEF Rank
  <2>3. Rank(at) \in Nat /\ Rank(h) = Rank(at) + 1
    <3>1. Rank(at) \in Nat /\ Rank(at + 1) = Rank(at) + (IF at + 1 \in Members THEN 1 ELSE 0)
      BY <1>3, RankSteps
    <3> QED BY <1>2, <1>3, <3>1
  <2>4. listed \in Seq(Paths \cup {Nowhere}) /\ Len(listed) = Rank(at)
    BY <1>1 DEF Read, Listed, TarTypeOK, ReaderTypeOK
  <2>5. /\ Len(listed') = Rank(h) /\ listed'[Rank(h)] = Name(h)
        /\ \A n \in 1..Rank(at) : listed'[n] = listed[n]
    <3> DEFINE S == Paths \cup {Nowhere}
    <3>1. Name(h) \in S
      BY <1>5
    <3> HIDE DEF S
    <3>2. /\ Len(Append(listed, Name(h))) = Len(listed) + 1
          /\ \A n \in 1..Len(listed) + 1 :
               Append(listed, Name(h))[n] = IF n <= Len(listed) THEN listed[n] ELSE Name(h)
      BY <2>4, <3>1, AppendProperties DEF S
    <3> QED BY <1>4, <2>3, <2>4, <3>2
  <2>6. ASSUME NEW i \in Members, i <= at' PROVE listed'[Rank(i)] = Name(i)
    <3>1. CASE i = h
      BY <2>5, <3>1
    <3>2. CASE i <= at
      <4>1. Rank(i) \in 1..Rank(at)
        BY <1>3, <3>2, RankSteps
      <4>2. listed[Rank(i)] = Name(i)
        BY <1>1, <3>2 DEF Read, Listed
      <4> QED BY <2>5, <4>1, <4>2
    <3> QED BY <1>9, <2>6, <3>1, <3>2
  <2>7. Rank(at)' = Rank(at') /\ \A i \in Members : Rank(i)' = Rank(i)
    BY <2>1 DEF Rank
  <2>8. Len(listed') = Rank(at)'
    BY <2>2, <2>5, <2>7
  <2>9. \A i \in Members' : i <= at' => listed'[Rank(i)'] = Name(i)'
    BY <1>8, <2>6, <2>7
  <2> QED BY <2>8, <2>9 DEF Listed
<1> QED BY <1>10, <1>11, <1>12, <1>13 DEF Read

(* What a header promises of a file that was not changed. *)
LEMMA HeaderPromises ==
  ASSUME TarTypeOK, Written, NEW h \in Members, Name(h) \notin changed
  PROVE  /\ Name(h) \in Paths /\ src[Name(h)] \in NodesOver(Byte) /\ src[Name(h)].kind # "absent"
         /\ archive[h].name = Name(h) /\ archive[h].type = src[Name(h)].kind
         /\ archive[h].size = Size(src[Name(h)])
         /\ src[Name(h)].kind = "link" => archive[h].link = src[Name(h)].data
<1>1. Name(h) \in Paths
  BY MemberType
<1>2. src[Name(h)].kind # "absent" /\ archive[h] = Header(Name(h))
  BY DEF Written, Laid, HeadersRight
<1>3. src[Name(h)] \in NodesOver(Byte)
  BY <1>1 DEF TarTypeOK, MakerTypeOK
<1> QED BY <1>1, <1>2, <1>3 DEF Header

(* Behind a member without blocks of its own, or with all of them read,    *)
(* everything up to there is restored.                                     *)
LEMMA BackAtHead ==
  ASSUME TarTypeOK, Written, NEW h \in Members, NEW n \in Nat, at' = n, h + Length(h) = n,
         UNCHANGED <<archive, src, changed>>, \A i \in Members : i <= n => i <= h,
         \A i \in Members : i <= n => Restored(i)'
  PROVE  AtHead'
<1>1. Members' = Members /\ \A i : Name(i)' = Name(i) /\ Length(i)' = Length(i)
  BY DEF Members, Name, Length
<1>2. Boundary'
  <2> SUFFICES ASSUME NEW i \in Members, i <= n PROVE i + Length(i) <= n
    BY <1>1 DEF Boundary
  <2>1. i \in Nat /\ h \in Nat /\ Length(h) \in Nat /\ i + Length(i) \in Nat
    BY MemberType
  <2>2. CASE i = h
    BY <2>1, <2>2
  <2>3. CASE i # h
    <3>1. i < h
      BY <2>1, <2>3
    <3>2. i + Length(i) < h
      BY <3>1 DEF Written, Laid, Apart
    <3> QED BY <2>1, <3>2
  <2> QED BY <2>2, <2>3
<1> QED BY <1>1, <1>2 DEF AtHead

(* What was restored stays so while another name is extracted. *)
LEMMA ExtractOtherRead ==
  ASSUME TarTypeOK, TreesOK, Undisturbed', Written, Read, ExtractOther PROVE Written' /\ Read'
<1> USE DEF makerVars, readerVars, wayVars
<1> DEFINE B == Byte \cup {Junk}
           tree == Made(WithDirs(Tree, Block.name), Block)
<1>1. /\ UNCHANGED <<src, todo, changed, archive, listed, op, doing>> /\ doing = "head"
      /\ at < Len(archive) /\ op = "extract" /\ Block.kind = "header" /\ Block.type # "file"
      /\ at' = at + 1 /\ dst' = [dst EXCEPT ![Here] = tree] /\ astray \subseteq astray'
  BY DEF ExtractOther, AtMember
<1>2. Block.name \notin astray' => tree[Block.name].kind = Block.type
  <2>1. failed' # TRUE
    BY DEF Undisturbed
  <2>2. failed' = (failed \/ tree[Block.name].kind # Block.type) \/ Block.name \in astray'
    BY DEF ExtractOther
  <2> HIDE DEF tree
  <2> QED BY <2>1, <2>2
<1>3. PICK h \in Nat : h = at + 1
  BY DEF TarTypeOK, ReaderTypeOK
<1>4. h \in Members /\ at \in Nat /\ Len(archive) \in Nat /\ Block = archive[h] /\ Block.name = Name(h)
  BY <1>1, <1>3, HeadBlock DEF Block, Name
<1>5. /\ Name(h) \in Paths /\ Length(h) = 0
      /\ \A i \in Members : i <= h => i <= at \/ i = h
  <2>1. /\ Name(h) \in Paths /\ Length(h) \in Nat
        /\ \A i \in Members : i <= h + Length(h) => i <= at \/ i = h
    BY <1>1, <1>3, <1>4, NextMember
  <2>2. archive[h].size = 0
    BY <1>1, <1>4 DEF Written, Laid, HeadersRight
  <2>3. Length(h) = 0
    <3>1. 0 \in Nat /\ ~ (0 * BlockSize < 0)
      BY BytesAndBlocks
    <3>2. ~ (0 < Blocks(0))
      BY <3>1, BlocksLess
    <3> QED BY <2>1, <2>2, <3>2 DEF Length
  <2> QED BY <1>3, <2>1, <2>3
<1>6. /\ Tree = dst[Here] /\ Tree \in [Paths -> NodesOver(B)] /\ WellFormed(Tree)
      /\ dst'[Here] = tree
  <2>1. Here \in Dirs /\ dst \in [Dirs -> [Paths -> NodesOver(B)]]
    BY TreesAndArguments DEF TarTypeOK, ReaderTypeOK
  <2> HIDE DEF tree, B
  <2> QED BY <1>1, <2>1 DEF Tree, TreesOK
<1>7. /\ \A q \in Paths : q # Name(h) /\ dst[Here][q].kind # "absent" => dst'[Here][q] = dst[Here][q]
      /\ Block.type = "dir" /\ Name(h) \notin astray' => dst'[Here][Name(h)] = Directory
      /\ Block.type = "link" /\ Name(h) \notin astray' =>
           dst'[Here][Name(h)] = [kind |-> "link", data |-> Block.link]
  <2> DEFINE with == WithDirs(Tree, Block.name)
  <2>1. /\ with \in [Paths -> NodesOver(B)] /\ WellFormed(with)
        /\ \A q \in Paths : Tree[q].kind # "absent" => with[q] = Tree[q]
    <3>1. Block.name \in Paths
      BY <1>4, <1>5
    <3> HIDE DEF B
    <3> QED BY <1>6, <3>1, WithDirsEffect
  <2>2. Block.name \in Paths /\ Block.link \in Seq(B)
    BY <1>1, BlockType
  <2> HIDE DEF with, B
  <2>3. /\ \A q \in Paths : q # Block.name => Made(with, Block)[q] = with[q]
        /\ Block.type = "dir" /\ Made(with, Block)[Block.name].kind = "dir" =>
             Made(with, Block)[Block.name] = Directory
        /\ Block.type = "link" /\ Made(with, Block)[Block.name].kind = "link" =>
             Made(with, Block)[Block.name] = [kind |-> "link", data |-> Block.link]
    BY <2>1, <2>2, MadeEffect
  <2>4. tree = Made(with, Block)
    BY DEF with
  <2> HIDE DEF tree
  <2> QED BY <1>2, <1>4, <1>6, <2>1, <2>3, <2>4
<1> HIDE DEF tree
<1>8. Members' = Members /\ \A i : Name(i)' = Name(i) /\ Length(i)' = Length(i)
  BY <1>1 DEF Members, Name, Length
<1>9. Written'
  <2>1. cut' = cut /\ partial' = partial
    BY Zenon DEF ExtractOther
  <2> QED BY <1>1, <2>1, ReaderWritten
<1>10. ASSUME Name(h) \notin changed \cup astray' PROVE dst'[Here][Name(h)] = src[Name(h)]
  <2>1. /\ src[Name(h)] \in NodesOver(Byte) /\ Block.type = src[Name(h)].kind
        /\ src[Name(h)].kind # "absent"
        /\ src[Name(h)].kind = "link" => Block.link = src[Name(h)].data
    BY <1>4, <1>10, HeaderPromises
  <2>2. /\ src[Name(h)].kind \in {"absent", "dir", "link", "file"}
        /\ src[Name(h)].kind = "dir" => src[Name(h)] = Directory
        /\ src[Name(h)].kind = "link" => src[Name(h)] = [kind |-> "link", data |-> src[Name(h)].data]
    BY <2>1, NodeTypes
  <2> QED BY <1>1, <1>7, <1>10, <2>1, <2>2
<1>11. ASSUME NEW i \in Members, i <= h PROVE Restored(i)'
  <2> SUFFICES ASSUME Name(i) \notin changed \cup astray' PROVE dst'[Here][Name(i)] = src[Name(i)]
    BY <1>1, <1>8 DEF Restored
  <2>1. CASE Name(i) = Name(h)
    BY <1>10, <2>1
  <2>2. CASE Name(i) # Name(h)
    <3>1. i <= at
      BY <1>5, <1>11, <2>2
    <3>2. dst[Here][Name(i)] = src[Name(i)]
      BY <1>1, <3>1 DEF Read, AtHead, Restored
    <3>3. Name(i) \in Paths /\ src[Name(i)].kind # "absent"
      BY HeaderPromises
    <3> QED BY <1>7, <2>2, <3>2, <3>3
  <2> QED BY <2>1, <2>2
<1>12. AtHead'
  <2>1. h + Length(h) = h /\ \A i \in Members : i <= h => i <= h
    BY <1>5
  <2> QED BY <1>1, <1>3, <1>4, <1>11, <2>1, BackAtHead
<1>13. InBody' /\ AtEnd' /\ Listed'
  BY <1>1 DEF InBody, AtEnd, Listed
<1> QED BY <1>9, <1>12, <1>13 DEF Read

LEMMA CreateFileRead ==
  ASSUME TarTypeOK, TreesOK, Undisturbed', Written, Read, CreateFile PROVE Written' /\ Read'
<1> USE DEF makerVars, readerVars, wayVars
<1> DEFINE B == Byte \cup {Junk}
           with == WithDirs(Tree, Block.name)
           empty == [kind |-> "file", data |-> << >>]
<1>1. /\ UNCHANGED <<src, todo, changed, archive, listed, op>> /\ doing = "head"
      /\ at < Len(archive) /\ op = "extract" /\ Block.kind = "header" /\ Block.type = "file"
      /\ at' = at + 1 /\ astray \subseteq astray'
      /\ \/ dst' = [dst EXCEPT ![Here] = [with EXCEPT ![Block.name] = empty]]
         \/ dst' = [dst EXCEPT ![Here] = with] /\ Block.name \in astray'
      /\ path' = Block.name /\ left' = Block.size
      /\ doing' = IF Block.size = 0 THEN "head" ELSE "body"
  BY DEF CreateFile, AtMember
<1>2. PICK h \in Nat : h = at + 1
  BY DEF TarTypeOK, ReaderTypeOK
<1>3. /\ h \in Members /\ at \in Nat /\ Len(archive) \in Nat /\ Block = archive[h]
      /\ Block.name = Name(h) /\ Block.size \in Nat
  BY <1>1, <1>2, HeadBlock, BlockType DEF Block, Name
<1>4. /\ Name(h) \in Paths /\ Length(h) \in Nat
      /\ \A i \in Members : i <= h => i <= at \/ i = h
  <2>1. /\ Name(h) \in Paths /\ Length(h) \in Nat
        /\ \A i \in Members : i <= h + Length(h) => i <= at \/ i = h
    BY <1>1, <1>2, <1>3, NextMember
  <2>2. \A i \in Members : i <= h => i <= h + Length(h)
    BY <1>2, <2>1, MemberType
  <2> QED BY <2>1, <2>2
<1>5. /\ Tree = dst[Here] /\ Tree \in [Paths -> NodesOver(B)] /\ WellFormed(Tree)
      /\ Here \in Dirs /\ dst \in [Dirs -> [Paths -> NodesOver(B)]]
  <2>1. Here \in Dirs /\ dst \in [Dirs -> [Paths -> NodesOver(B)]]
    BY TreesAndArguments DEF TarTypeOK, ReaderTypeOK
  <2> HIDE DEF B
  <2> QED BY <2>1 DEF Tree, TreesOK
<1>6. /\ \A q \in Paths : q # Name(h) /\ dst[Here][q].kind # "absent" => dst'[Here][q] = dst[Here][q]
      /\ Name(h) \notin astray' => dst'[Here][Name(h)] = empty
  <2>1. /\ with \in [Paths -> NodesOver(B)]
        /\ \A q \in Paths : Tree[q].kind # "absent" => with[q] = Tree[q]
    <3>1. Block.name \in Paths
      BY <1>3, <1>4
    <3> HIDE DEF B
    <3> QED BY <1>5, <3>1, WithDirsEffect
  <2> HIDE DEF with, B, empty
  <2>2. \/ dst'[Here] = [with EXCEPT ![Block.name] = empty]
        \/ dst'[Here] = with /\ Block.name \in astray'
    BY <1>1, <1>5
  <2> QED BY <1>3, <1>4, <1>5, <2>1, <2>2
<1> HIDE DEF with, B
<1>7. Members' = Members /\ \A i : Name(i)' = Name(i) /\ Length(i)' = Length(i)
  BY <1>1 DEF Members, Name, Length
<1>8. Written'
  <2>1. cut' = cut /\ partial' = partial
    BY Zenon DEF CreateFile
  <2> QED BY <1>1, <2>1, ReaderWritten
<1>9. ASSUME NEW i \in Members, i <= h, Name(i) # Name(h) PROVE Restored(i)'
  <2> SUFFICES ASSUME Name(i) \notin changed \cup astray' PROVE dst'[Here][Name(i)] = src[Name(i)]
    BY <1>1, <1>7 DEF Restored
  <2>1. i <= at
    BY <1>4, <1>9
  <2>2. dst[Here][Name(i)] = src[Name(i)]
    BY <1>1, <2>1 DEF Read, AtHead, Restored
  <2>3. Name(i) \in Paths /\ src[Name(i)].kind # "absent"
    BY HeaderPromises
  <2> QED BY <1>6, <1>9, <2>2, <2>3
<1>10. ASSUME Name(h) \notin changed
       PROVE  /\ src[Name(h)] = [kind |-> "file", data |-> src[Name(h)].data]
              /\ src[Name(h)].data \in Seq(Byte) /\ Len(src[Name(h)].data) = Block.size
  <2>1. /\ src[Name(h)] \in NodesOver(Byte) /\ Block.type = src[Name(h)].kind
        /\ Block.size = Size(src[Name(h)])
    BY <1>3, <1>10, HeaderPromises
  <2> QED BY <1>1, <2>1, NodeTypes DEF Size
<1>11. CASE Block.size = 0
  <2>1. doing' = "head" /\ Length(h) = 0
    <3>1. 0 \in Nat /\ ~ (0 * BlockSize < 0)
      BY BytesAndBlocks
    <3>2. ~ (0 < Blocks(0))
      BY <3>1, BlocksLess
    <3> QED BY <1>1, <1>3, <1>4, <1>11, <3>2 DEF Length
  <2>2. ASSUME NEW i \in Members, i <= h PROVE Restored(i)'
    <3>1. CASE Name(i) # Name(h)
      BY <1>9, <2>2, <3>1
    <3>2. CASE Name(i) = Name(h)
      <4> SUFFICES ASSUME Name(h) \notin changed \cup astray' PROVE dst'[Here][Name(h)] = src[Name(h)]
        BY <1>1, <1>7, <3>2 DEF Restored
      <4>1. src[Name(h)].data = << >>
        BY <1>10, <1>11, EmptySeq
      <4> QED BY <1>6, <1>10, <4>1
    <3> QED BY <3>1, <3>2
  <2>3. AtHead'
    <3>1. h + Length(h) = h /\ \A i \in Members : i <= h => i <= h
      BY <2>1
    <3> QED BY <1>1, <1>2, <1>3, <2>2, <3>1, BackAtHead
  <2>4. InBody' /\ AtEnd' /\ Listed'
    BY <1>1, <2>1 DEF InBody, AtEnd, Listed
  <2> QED BY <1>8, <2>3, <2>4 DEF Read
<1>12. CASE Block.size # 0
  <2>1. doing' = "body"
    BY <1>1, <1>12
  <2>2. at' - h = 0 /\ 0 * BlockSize = 0 /\ Block.size - 0 = Block.size /\ 0 < Block.size
    BY <1>1, <1>2, <1>3, <1>12, BytesAndBlocks
  <2>3. \A i \in Members : i <= at' => i <= h /\ (Name(i) # Name(h) => Restored(i)')
    BY <1>1, <1>2, <1>9
  <2>4. Name(h) \notin changed \cup astray' =>
          dst'[Here][Name(h)].data = SubSeq(src[Name(h)].data, 1, 0 * BlockSize)
    <3>1. ASSUME Name(h) \notin changed PROVE SubSeq(src[Name(h)].data, 1, 0) = << >>
      OBVIOUS
    <3>2. Name(h) \notin astray' => dst'[Here][Name(h)].data = << >>
      BY <1>6
    <3> QED BY <2>2, <3>1, <3>2
  <2>5. Extracting(h)'
    <3>1. h \in Members' /\ Name(h)' = path' /\ archive'[h].type = "file"
      BY <1>1, <1>3, <1>7
    <3>2. /\ at' - h >= 0 /\ (at' - h) * BlockSize < archive'[h].size
          /\ left' = archive'[h].size - (at' - h) * BlockSize
      BY <1>1, <1>3, <2>2
    <3>3. \A i \in Members' : i <= at' => i <= h /\ (Name(i)' # path' => Restored(i)')
      BY <1>1, <1>3, <1>7, <2>3
    <3>4. path' \notin (changed \cup astray)' =>
            dst'[Here][path'].data = SubSeq(src'[path'].data, 1, (at' - h) * BlockSize)
      BY <1>1, <1>3, <2>2, <2>4
    <3> QED BY <3>1, <3>2, <3>3, <3>4 DEF Extracting
  <2>6. InBody'
    BY <1>1, <1>3, <1>7, <2>5 DEF InBody
  <2>7. AtHead' /\ AtEnd' /\ Listed'
    BY <1>1, <2>1 DEF AtHead, AtEnd, Listed
  <2> QED BY <1>8, <2>6, <2>7 DEF Read
<1> QED BY <1>11, <1>12

(* A file that cannot be created disturbs. *)
LEMMA CannotCreateRead ==
  ASSUME Undisturbed', CannotCreate PROVE FALSE
BY DEF CannotCreate, Undisturbed

(* The first bytes of a block are the next ones of the file. *)
LEMMA PieceAdds ==
  ASSUME NEW d \in Seq(Byte), NEW m \in Nat, NEW n \in Nat,
         m < Len(d), n = Least(Len(d) - m, BlockSize)
  PROVE  SubSeq(d, 1, m) \o SubSeq(Padded(SubSeq(d, m + 1, m + n)), 1, n) = SubSeq(d, 1, m + n)
<1> DEFINE seg == SubSeq(d, m + 1, m + n)
<1>1. BlockSize \in Nat \ {0} /\ Len(d) \in Nat
  BY BytesAndBlocks, LenProperties
<1>4. m + n <= Len(d) /\ n <= BlockSize /\ m + 1 \in 1..Len(d)
  BY <1>1 DEF Least
<1>5. seg \in Seq(Byte) /\ Len(seg) = n
  <2>1. \A i \in (m + 1)..(m + n) : d[i] \in Byte
    <3> SUFFICES ASSUME NEW i \in (m + 1)..(m + n) PROVE d[i] \in Byte
      OBVIOUS
    <3>1. i \in 1..Len(d)
      BY <1>1, <1>4
    <3> QED BY <1>1, <3>1, ElementOfSeq
  <2>2. SubSeq(d, m + 1, m + n) \in Seq(Byte)
        /\ Len(SubSeq(d, m + 1, m + n)) = IF m + 1 <= m + n THEN (m + n) - (m + 1) + 1 ELSE 0
    BY <1>1, <2>1, SubSeqProperties
  <2> QED BY <1>1, <2>2
<1> HIDE DEF seg
<1>6. SubSeq(Padded(seg), 1, n) = seg
  <2>1. /\ Padded(seg) \in Seq(Byte) /\ Len(Padded(seg)) = BlockSize
        /\ \A i \in 1..n : Padded(seg)[i] = seg[i]
    BY <1>4, <1>5, PaddedType
  <2>2. \A i \in 1..n : Padded(seg)[i] \in Byte
    BY <1>5, <2>1, ElementOfSeq
  <2>3. /\ SubSeq(Padded(seg), 1, n) \in Seq(Byte)
        /\ Len(SubSeq(Padded(seg), 1, n)) = IF 1 <= n THEN n - 1 + 1 ELSE 0
        /\ \A i \in 1..(n - 1 + 1) : SubSeq(Padded(seg), 1, n)[i] = Padded(seg)[1 + i - 1]
    BY <2>2, SubSeqProperties
  <2>4. Len(SubSeq(Padded(seg), 1, n)) = n /\ \A i \in 1..n : SubSeq(Padded(seg), 1, n)[i] = seg[i]
    <3>1. n - 1 + 1 = n /\ \A i \in 1..n : 1 + i - 1 = i
      OBVIOUS
    <3> QED BY <2>1, <2>3, <3>1
  <2> QED BY <1>5, <2>3, <2>4, SeqEqual
<1>7. SubSeq(d, 1, m) \o SubSeq(d, m + 1, m + n) = SubSeq(d, 1, m + n)
  <2>1. 1 \in 1..(Len(d) + 1) /\ m \in (1 - 1)..Len(d) /\ m + n \in m..Len(d)
    BY <1>1, <1>4
  <2> QED BY <1>1, <2>1, ConcatAdjacentSubSeq
<1> QED BY <1>6, <1>7 DEF seg

LEMMA ExtractBlockRead ==
  ASSUME TarTypeOK, TreesOK, Undisturbed', Written, Read, ExtractBlock PROVE Written' /\ Read'
<1> USE DEF makerVars, readerVars, wayVars
<1>1. /\ UNCHANGED <<src, todo, changed, archive, listed, op, path, astray>> /\ doing = "body"
      /\ at < Len(archive) /\ at' = at + 1 /\ left' = left - Least(left, BlockSize)
      /\ doing' = IF left' = 0 THEN "head" ELSE "body"
  BY DEF ExtractBlock
<1>2. dst' = IF dst[Here][path].kind = "file"
             THEN [dst EXCEPT ![Here][path].data = @ \o SubSeq(Bytes(Block), 1, Least(left, BlockSize))]
             ELSE dst
  BY Zenon DEF ExtractBlock, Undisturbed, Tree
<1>3. op = "extract" /\ \E h \in Members : Extracting(h)
  BY <1>1 DEF Read, InBody
<1>4. PICK h \in Members : Extracting(h)
  BY <1>3
<1>5. PICK c \in Int : c = at - h
  <2>1. at \in Int
    BY DEF TarTypeOK, ReaderTypeOK
  <2>2. h \in Int
    BY MemberType
  <2> QED BY <2>1, <2>2
<1>6. /\ Name(h) = path /\ archive[h].type = "file" /\ c \in Nat
      /\ c * BlockSize < archive[h].size /\ left = archive[h].size - c * BlockSize
      /\ \A i \in Members : i <= at => i <= h /\ (Name(i) # path => Restored(i))
      /\ path \notin changed \cup astray =>
           dst[Here][path].data = SubSeq(src[path].data, 1, c * BlockSize)
  BY <1>4, <1>5 DEF Extracting
<1>a. PICK m \in Nat : m = c * BlockSize
  BY <1>6, Multiples
<1>b. PICK next \in Nat : next = (c + 1) * BlockSize
  BY <1>6, Multiples, BytesAndBlocks
<1> DEFINE n == Least(left, BlockSize)
<1>7. /\ h \in Nat \ {0} /\ Length(h) \in Nat /\ path \in Paths /\ archive[h].size \in Nat
      /\ at = h + c /\ at \in Nat /\ Len(archive) \in Nat /\ BlockSize \in Nat \ {0}
      /\ next = m + BlockSize /\ m < archive[h].size /\ left = archive[h].size - m
  <2>1. h \in 1..Len(archive) /\ Length(h) \in Nat /\ path \in Paths /\ archive[h].size \in Nat
        /\ Len(archive) \in Nat
    BY <1>6, MemberType
  <2>2. at \in Nat
    BY <2>1 DEF TarTypeOK, ReaderTypeOK
  <2>3. next = m + BlockSize /\ m < archive[h].size /\ left = archive[h].size - m
    BY <1>6, <1>a, <1>b, Multiples
  <2>4. BlockSize \in Nat \ {0}
    BY BytesAndBlocks
  <2>5. at = h + c
    BY <1>5, <2>1, <2>2
  <2> QED BY <2>1, <2>2, <2>3, <2>4, <2>5
<1>8. /\ n \in Nat \ {0} /\ n <= left /\ left' = left - n /\ left \in Nat /\ left' \in Nat
      /\ left' # 0 => next < archive[h].size /\ n = BlockSize /\ left' = archive[h].size - next
      /\ left' = 0 => archive[h].size <= next /\ archive[h].size = m + n
  <2>1. n \in Nat \ {0} /\ n <= left /\ left \in Nat
    BY <1>7, SMTT(30) DEF Least
  <2>2. n = IF left <= BlockSize THEN left ELSE BlockSize
    BY DEF Least
  <2>3. left' = left - n
    BY <1>1
  <2>4. /\ archive[h].size \in Nat /\ next = m + BlockSize /\ BlockSize \in Nat
        /\ left = archive[h].size - m
    BY <1>7
  <2> HIDE DEF n
  <2>5. left' \in Nat
    BY <2>1, <2>3
  <2>6. left' # 0 => n = BlockSize /\ BlockSize < left
    BY <2>1, <2>2, <2>3, <2>4
  <2>7. left' # 0 => next < archive[h].size /\ left' = archive[h].size - next
    BY <2>3, <2>4, <2>6
  <2>8. left' = 0 => archive[h].size <= next /\ archive[h].size = m + n
    BY <2>1, <2>2, <2>3, <2>4
  <2> QED BY <2>1, <2>3, <2>5, <2>6, <2>7, <2>8
<1> HIDE DEF n
<1>9. c < Length(h)
  <2>1. c < Blocks(archive[h].size)
    BY <1>6, <1>7, BlocksLess
  <2> QED BY <2>1 DEF Length
<1>10. ASSUME NEW i \in Members, i <= at + 1 PROVE i <= h
  <2>1. i \in Nat
    BY MemberType
  <2>2. h < i => h + Length(h) < i
    BY DEF Written, Laid, Apart
  <2> QED BY <1>7, <1>9, <1>10, <2>1, <2>2
<1>11. /\ Here \in Dirs /\ dst \in [Dirs -> [Paths -> NodesOver(Byte \cup {Junk})]]
       /\ dst[Here][path] \in NodesOver(Byte \cup {Junk})
       /\ path \notin astray => dst[Here][path].kind = "file"
       /\ dst[Here][path].kind = "file" =>
            dst[Here][path] = [kind |-> "file", data |-> dst[Here][path].data]
  <2>1. /\ Here \in Dirs /\ dst \in [Dirs -> [Paths -> NodesOver(Byte \cup {Junk})]]
        /\ path \notin astray => dst[Here][path].kind = "file"
    BY <1>1, TreesAndArguments DEF TarTypeOK, ReaderTypeOK
  <2>2. dst[Here][path] \in NodesOver(Byte \cup {Junk})
    BY <1>7, <2>1
  <2> QED BY <2>1, <2>2, NodeTypes
<1>12. /\ \A q \in Paths : q # path => dst'[Here][q] = dst[Here][q]
       /\ path \notin astray =>
          /\ dst'[Here][path] =
               [kind |-> "file", data |-> dst[Here][path].data \o SubSeq(Bytes(Block), 1, n)]
          /\ dst'[Here][path].data = dst[Here][path].data \o SubSeq(Bytes(Block), 1, n)
  <2>a. CASE dst[Here][path].kind # "file"
    BY <1>2, <1>11, <2>a
  <2>b. SUFFICES ASSUME dst[Here][path].kind = "file"
                 PROVE  /\ \A q \in Paths : q # path => dst'[Here][q] = dst[Here][q]
                        /\ dst'[Here][path] = [kind |-> "file",
                             data |-> dst[Here][path].data \o SubSeq(Bytes(Block), 1, n)]
                        /\ dst'[Here][path].data = dst[Here][path].data \o SubSeq(Bytes(Block), 1, n)
    BY <2>a
  <2> DEFINE all == dst[Here][path].data \o SubSeq(Bytes(Block), 1, n)
             new == [dst[Here][path] EXCEPT !.data = all]
  <2>1. dst' = [dst EXCEPT ![Here] = [dst[Here] EXCEPT ![path] = new]]
    BY <1>2, <2>b, Zenon DEF n
  <2>2. \A d, e : [[kind |-> "file", data |-> d] EXCEPT !.data = e] = [kind |-> "file", data |-> e]
    OBVIOUS
  <2>3. new = [kind |-> "file", data |-> all]
    BY <1>11, <2>2, <2>b, Zenon
  <2> HIDE DEF new, all
  <2>4. dst'[Here] = [dst[Here] EXCEPT ![path] = new]
    BY <1>11, <2>1
  <2>5. dst[Here] \in [Paths -> NodesOver(Byte \cup {Junk})]
    BY <1>11
  <2>6. dst'[Here][path] = new /\ \A q \in Paths : q # path => dst'[Here][q] = dst[Here][q]
    BY <1>7, <2>4, <2>5
  <2>7. dst'[Here][path].data = all
    BY <2>3, <2>6
  <2> QED BY <2>3, <2>6, <2>7 DEF all
<1>13. ASSUME path \notin changed \cup astray
       PROVE  /\ src[path] = [kind |-> "file", data |-> src[path].data]
              /\ src[path].data \in Seq(Byte) /\ Len(src[path].data) = archive[h].size
              /\ dst'[Here][path].data = SubSeq(src[path].data, 1, m + n)
  <2>1. /\ src[path] \in NodesOver(Byte) /\ archive[h].type = src[path].kind
        /\ archive[h].size = Size(src[path])
    BY <1>6, <1>13, HeaderPromises
  <2>2. /\ src[path] = [kind |-> "file", data |-> src[path].data] /\ src[path].data \in Seq(Byte)
        /\ Len(src[path].data) = archive[h].size
    BY <1>6, <2>1, NodeTypes DEF Size
  <2>3. Bytes(Block) = Piece(path, c + 1)
    <3>1. c + 1 \in 1..Length(h) /\ h + (c + 1) = at + 1 /\ at + 1 <= Len(archive)
      <4>1. c \in Nat /\ Length(h) \in Nat /\ c < Length(h)
        BY <1>6, <1>7, <1>9
      <4>2. at \in Nat /\ Len(archive) \in Nat /\ h \in Nat /\ at = h + c /\ at < Len(archive)
        BY <1>1, <1>7
      <4> QED BY <4>1, <4>2
    <3>2. archive[h + (c + 1)] = Data(Piece(path, c + 1))
      BY <1>6, <1>13, <3>1 DEF Written, Laid, BlocksRight
    <3>3. Block = Data(Piece(path, c + 1))
      BY <3>1, <3>2 DEF Block
    <3> QED BY <3>3 DEF Bytes, Data
  <2>4. SubSeq(src[path].data, 1, m) \o SubSeq(Piece(path, c + 1), 1, n)
          = SubSeq(src[path].data, 1, m + n)
    <3>1. PICK d \in Seq(Byte) : d = src[path].data
      BY <2>2
    <3>2. /\ m < Len(d) /\ n = Least(Len(d) - m, BlockSize) /\ n \in Nat
          /\ Least(next, Len(d)) = m + n
      <4>1. Len(d) = archive[h].size /\ n = Least(Len(d) - m, BlockSize)
        BY <1>7, <2>2, <3>1 DEF n
      <4>2. n = IF Len(d) - m <= BlockSize THEN Len(d) - m ELSE BlockSize
        BY <4>1 DEF Least
      <4> QED BY <1>7, <1>8, <4>1, <4>2, SMTT(30) DEF Least
    <3>3. Piece(path, c + 1) = Padded(SubSeq(d, m + 1, m + n))
      <4>1. (c + 1) - 1 = c
        BY <1>6
      <4>2. Piece(path, c + 1) = Padded(SubSeq(d, c * BlockSize + 1, Least(next, Len(d))))
        BY <1>b, <3>1, <4>1 DEF Piece
      <4> QED BY <1>a, <3>2, <4>2
    <3>4. SubSeq(d, 1, m) \o SubSeq(Padded(SubSeq(d, m + 1, m + n)), 1, n) = SubSeq(d, 1, m + n)
      BY <3>2, PieceAdds
    <3> QED BY <3>1, <3>3, <3>4, Zenon
  <2>5. dst[Here][path].data = SubSeq(src[path].data, 1, c * BlockSize)
    BY <1>6, <1>13
  <2>6. dst'[Here][path].data = dst[Here][path].data \o SubSeq(Bytes(Block), 1, n)
    BY <1>12, <1>13
  <2>7. dst'[Here][path].data = SubSeq(src[path].data, 1, m + n)
    BY <1>a, <2>3, <2>4, <2>5, <2>6
  <2> QED BY <2>2, <2>7
<1>14. Members' = Members /\ \A i : Name(i)' = Name(i) /\ Length(i)' = Length(i)
  BY <1>1 DEF Members, Name, Length
<1>15. Written'
  <2>1. cut' = cut /\ partial' = partial
    BY Zenon DEF ExtractBlock
  <2> QED BY <1>1, <2>1, ReaderWritten
<1>16. ASSUME NEW i \in Members, i <= at + 1, Name(i) # path PROVE Restored(i)'
  <2> SUFFICES ASSUME Name(i) \notin changed \cup astray PROVE dst'[Here][Name(i)] = src[Name(i)]
    BY <1>1, <1>14 DEF Restored
  <2>1. i <= at
    <3>1. i \in Nat /\ i # h
      BY <1>6, <1>16, MemberType
    <3> QED BY <1>6, <1>7, <1>10, <1>16, <3>1
  <2>2. dst[Here][Name(i)] = src[Name(i)]
    BY <1>6, <1>16, <2>1 DEF Restored
  <2>3. Name(i) \in Paths
    BY MemberType
  <2> QED BY <1>12, <1>16, <2>2, <2>3
<1>17. CASE left' = 0
  <2>1. doing' = "head" /\ h + Length(h) = at + 1
    <3>1. ~ (c + 1 < Blocks(archive[h].size))
      <4>1. c + 1 \in Nat
        BY <1>6
      <4>2. ~ (next < archive[h].size)
        BY <1>7, <1>8, <1>17
      <4> QED BY <1>7, <1>b, <4>1, <4>2, BlocksLess
    <3>2. Length(h) = c + 1
      BY <1>6, <1>7, <1>9, <3>1 DEF Length
    <3> QED BY <1>1, <1>7, <1>17, <3>2
  <2>2. ASSUME NEW i \in Members, i <= at + 1 PROVE Restored(i)'
    <3>1. CASE Name(i) # path
      BY <1>16, <2>2, <3>1
    <3>2. CASE Name(i) = path
      <4> SUFFICES ASSUME path \notin changed \cup astray PROVE dst'[Here][path] = src[path]
        BY <1>1, <1>14, <3>2 DEF Restored
      <4>1. dst'[Here][path].data = SubSeq(src[path].data, 1, Len(src[path].data))
        BY <1>8, <1>13, <1>17
      <4>2. dst'[Here][path].data = src[path].data
        BY <1>13, <4>1, SubSeqFull
      <4>3. dst'[Here][path] = [kind |-> "file", data |-> dst'[Here][path].data]
        BY <1>12
      <4> QED BY <1>13, <4>2, <4>3
    <3> QED BY <3>1, <3>2
  <2>3. AtHead'
    <3>1. at + 1 \in Nat /\ \A i \in Members : i <= at + 1 => i <= h
      BY <1>7, <1>10
    <3> QED BY <1>1, <1>4, <2>1, <2>2, <3>1, BackAtHead
  <2>4. InBody' /\ AtEnd'
    BY <1>1, <2>1 DEF InBody, AtEnd
  <2>5. Listed'
    BY <1>1, <1>3 DEF Listed
  <2> QED BY <1>15, <2>3, <2>4, <2>5 DEF Read
<1>18. CASE left' # 0
  <2>1. doing' = "body" /\ left' > 0
    BY <1>1, <1>8, <1>18
  <2>2. Extracting(h)'
    <3>1. h \in Members' /\ Name(h)' = path' /\ archive'[h].type = "file"
      BY <1>1, <1>6, <1>14
    <3>2. at' - h = c + 1 /\ c + 1 >= 0
      BY <1>1, <1>6, <1>7
    <3>3. /\ (c + 1) * BlockSize < archive'[h].size /\ left' = archive'[h].size - (c + 1) * BlockSize
          /\ m + n = (c + 1) * BlockSize
      <4>1. next < archive'[h].size /\ left' = archive'[h].size - next /\ m + n = next
        BY <1>1, <1>7, <1>8, <1>18
      <4> QED BY <1>b, <4>1
    <3>4. \A i \in Members' : i <= at' => i <= h /\ (Name(i)' # path' => Restored(i)')
      BY <1>1, <1>10, <1>14, <1>16
    <3>5. path' \notin (changed \cup astray)' =>
            dst'[Here][path'].data = SubSeq(src'[path'].data, 1, (c + 1) * BlockSize)
      BY <1>1, <1>13, <3>3
    <3> QED BY <3>1, <3>2, <3>3, <3>4, <3>5 DEF Extracting
  <2>3. InBody'
    BY <1>1, <1>3, <1>14, <2>2 DEF InBody
  <2>4. AtHead' /\ AtEnd'
    BY <1>1, <2>1 DEF AtHead, AtEnd
  <2>5. Listed'
    BY <1>1, <1>3 DEF Listed
  <2> QED BY <1>15, <2>3, <2>4, <2>5 DEF Read
<1> QED BY <1>17, <1>18

(* Only an archive that was cut off ends within a member. *)
LEMMA MemberCutOffRead ==
  ASSUME TarTypeOK, Written, Read, MemberCutOff PROVE Written' /\ Read'
<1> USE DEF makerVars, readerVars, wayVars
<1>1. /\ UNCHANGED <<src, todo, changed, archive, at, dst, listed, op, astray>> /\ doing = "body"
      /\ doing' = "done" /\ at = Len(archive) /\ ret' = 1
  BY DEF MemberCutOff, Return
<1>2. UNCHANGED <<cut, partial>>
  BY Zenon DEF MemberCutOff
<1>3. Written'
  BY <1>1, <1>2, ReaderWritten
<1>4. op = "extract" /\ \E h \in Members : Extracting(h)
  BY <1>1 DEF Read, InBody
<1>5. cut
  <2> SUFFICES ASSUME ~cut PROVE FALSE
    OBVIOUS
  <2>1. PICK h \in Members : Extracting(h)
    BY <1>4
  <2>2. PICK c \in Int : c = at - h
    <3>1. at \in Int
      BY DEF TarTypeOK, ReaderTypeOK
    <3>2. h \in Int
      BY MemberType
    <3> QED BY <3>1, <3>2
  <2>3. c \in Nat /\ c * BlockSize < archive[h].size
    BY <2>1, <2>2 DEF Extracting
  <2>4. /\ h \in Nat /\ Length(h) \in Nat /\ archive[h].size \in Nat /\ Len(archive) \in Nat
    BY MemberType
  <2>5. h + Length(h) <= Len(archive)
    BY <1>1 DEF Written, Laid, Whole, Sent
  <2>6. c < Length(h)
    BY <2>3, <2>4, BlocksLess DEF Length
  <2> QED BY <1>1, <2>2, <2>3, <2>4, <2>5, <2>6
<1>6. AtEnd'
  <2>1. cut'
    BY <1>2, <1>5
  <2>2. ret' # 0 /\ op' # "list"
    BY <1>1, <1>4
  <2> QED BY <2>1, <2>2, Zenon DEF AtEnd
<1>7. AtHead' /\ InBody'
  BY <1>1 DEF AtHead, InBody
<1>8. Listed'
  BY <1>1, <1>4 DEF Listed
<1> QED BY <1>3, <1>6, <1>7, <1>8 DEF Read

-------------------------------------------------------------------------------
(* The invariant. *)

LEMMA TarInvInit == TarInit => TarInv
<1> SUFFICES ASSUME TarInit PROVE Written /\ Read
  BY InitType DEF TarInv, TarInit, StraysOK
<1>1. /\ doing = "walk" /\ archive = << >> /\ at = 0 /\ listed = << >>
  BY DEF TarInit
<1>2. ~partial /\ ~cut
  BY Zenon DEF TarInit
<1>3. Members = {} /\ Len(archive) = 0
  BY <1>1, EmptySeq DEF Members
<1>4. Laid /\ InHand /\ Reached
  BY <1>1, <1>3 DEF Laid, Apart, HeadersRight, BlocksRight, Owned, Whole, InHand, Reached
<1>5. Underway
  BY <1>1, <1>2, Zenon DEF Underway, Sent
<1>6. Listed
  <2>1. {j \in Members : j <= at} = {}
    BY <1>3
  <2>2. Rank(at) = 0
    BY <2>1, FS_EmptySet DEF Rank
  <2> QED BY <1>1, <1>3, <2>2, EmptySeq DEF Listed
<1>7. AtHead /\ InBody /\ AtEnd
  BY <1>1 DEF AtHead, InBody, AtEnd
<1> QED BY <1>4, <1>5, <1>6, <1>7 DEF Written, Read

(* A step that changes nothing. *)
LEMMA Stutters ==
  ASSUME Undisturbed => Written /\ Read, UNCHANGED tarVars
  PROVE  Undisturbed' => Written' /\ Read'
<1>1. UNCHANGED <<doing, src, todo, offset, changed, path, left, archive, at, zeros, dst, listed,
                   ret, op, dir, astray>>
  BY DEF tarVars, makerVars, readerVars, wayVars
<1>2. UNCHANGED <<partial, cut, failed, short>>
  BY Zenon DEF tarVars, makerVars, readerVars, wayVars
<1>3. Undisturbed' => Undisturbed
  BY <1>2 DEF Undisturbed
<1>4. /\ Members' = Members
      /\ \A i : Name(i)' = Name(i) /\ Length(i)' = Length(i) /\ Restored(i)' = Restored(i)
  BY <1>1 DEF Members, Name, Length, Restored
<1>5. ASSUME Written PROVE Written'
  <2>1. Laid'
    BY <1>1, <1>2, <1>5, LaidRests, OwnedRests DEF Written, Laid
  <2>2. InHand'
    BY <1>1, <1>4, <1>5 DEF Written, InHand, Copying
  <2>3. Reached'
    BY <1>1, <1>2, <1>4, <1>5 DEF Written, Reached
  <2>4. Underway'
    BY <1>1, <1>2, <1>5 DEF Written, Underway
  <2> QED BY <2>1, <2>2, <2>3, <2>4 DEF Written
<1>6. ASSUME Read PROVE Read'
  <2>1. AtHead'
    BY <1>1, <1>4, <1>6 DEF Read, AtHead, Boundary
  <2>2. InBody'
    BY <1>1, <1>4, <1>6 DEF Read, InBody, Extracting
  <2>3. AtEnd'
    BY <1>1, <1>2, <1>4, <1>6 DEF Read, AtEnd, Faithful
  <2>4. Listed'
    BY <1>1, <1>4, <1>6 DEF Read, Listed, Rank
  <2> QED BY <2>1, <2>2, <2>3, <2>4 DEF Read
<1> QED BY <1>3, <1>5, <1>6

(* One step per action: what it does to the layout and to what is restored. *)
LEMMA TarInvStep == TarInv /\ [TarNext]_tarVars => TarInv'
<1> SUFFICES ASSUME TarInv, [TarNext]_tarVars PROVE TarInv'
  OBVIOUS
<1>1. TarTypeOK' /\ TreesOK' /\ StraysOK' /\ TarTypeOK /\ TreesOK
  BY TypeStep, StraysStep DEF TarInv
<1>2. CASE UNCHANGED tarVars
  BY <1>1, <1>2, Stutters DEF TarInv
<1>3. CASE TarNext
  <2> SUFFICES ASSUME Undisturbed' PROVE Written' /\ Read'
    BY <1>1 DEF TarInv
  <2>1. Written /\ Read
    BY <1>1, <1>3, StaysDisturbed DEF TarInv
  <2>2. doing \in {"walk", "open", "copy", "sent"} => at = 0 /\ listed = << >>
    BY <1>1, <2>1 DEF TarTypeOK, ReaderTypeOK, Written, Underway
  <2>3. ASSUME Written', doing \in {"walk", "open", "copy", "sent"}, at' = at, listed' = listed,
               doing' \notin {"body", "done"}
        PROVE  Written' /\ Read'
    BY <2>2, <2>3, MakerRead
  <2> USE DEF makerVars, readerVars, wayVars
  <2>4. CASE MemberGone
    <3>1. doing = "walk" /\ UNCHANGED <<at, listed, doing>>
      BY <2>4 DEF MemberGone
    <3> QED BY <1>1, <2>1, <2>3, <2>4, <3>1, MemberGoneWritten
  <2>5. CASE AddMember
    <3>1. doing = "walk" /\ UNCHANGED <<at, listed>> /\ doing' \in {"open", "walk"}
      BY <2>5 DEF AddMember
    <3> QED BY <1>1, <2>1, <2>3, <2>5, <3>1, AddMemberWritten
  <2>6. CASE OpenMember
    <3>1. doing = "open" /\ UNCHANGED <<at, listed>> /\ doing' \in {"copy", "walk"}
      BY <2>6 DEF OpenMember
    <3> QED BY <1>1, <2>1, <2>3, <2>6, <3>1, OpenMemberWritten
  <2>7. CASE CopyBlock
    <3>1. doing = "copy" /\ UNCHANGED <<at, listed, doing>>
      BY <2>7 DEF CopyBlock
    <3> QED BY <1>1, <2>1, <2>3, <2>7, <3>1, CopyBlockWritten
  <2>8. CASE MemberCopied
    <3>1. doing = "copy" /\ UNCHANGED <<at, listed>> /\ doing' = "walk"
      BY <2>8 DEF MemberCopied
    <3> QED BY <1>1, <2>1, <2>3, <2>8, <3>1, MemberCopiedWritten
  <2>9. CASE EndArchive
    <3>1. doing = "walk" /\ UNCHANGED <<at, listed>> /\ doing' = "sent"
      BY <2>9 DEF EndArchive
    <3> QED BY <1>1, <2>1, <2>3, <2>9, <3>1, EndArchiveWritten
  <2>10. CASE \E p \in Paths : Change(p)
    <3>1. PICK p \in Paths : Change(p)
      BY <2>10
    <3>2. doing \in {"walk", "open", "copy"} /\ UNCHANGED <<at, listed, doing>>
      BY <3>1 DEF Change
    <3> QED BY <1>1, <2>1, <2>3, <3>1, <3>2, ChangeWritten
  <2>11. CASE Deliver
    <3>1. doing = "sent" /\ UNCHANGED <<at, listed>> /\ doing' = "head"
      BY <2>11 DEF Deliver
    <3> QED BY <1>1, <2>1, <2>3, <2>11, <3>1, DeliverWritten
  <2>12. CASE NoMoreBlocks
    BY <1>1, <2>1, <2>12, NoMoreBlocksRead
  <2>13. CASE SkipZeroBlock
    BY <1>1, <2>1, <2>13, SkipZeroBlockRead
  <2>14. CASE BadHeader
    BY <1>1, <2>1, <2>14, BadHeaderRead
  <2>15. CASE ListMember
    BY <1>1, <2>1, <2>15, ListMemberRead
  <2>16. CASE ExtractOther
    BY <1>1, <2>1, <2>16, ExtractOtherRead
  <2>17. CASE CreateFile
    BY <1>1, <2>1, <2>17, CreateFileRead
  <2>18. CASE CannotCreate
    BY <2>18, CannotCreateRead
  <2>19. CASE ExtractBlock
    BY <1>1, <2>1, <2>19, ExtractBlockRead
  <2>20. CASE MemberCutOff
    BY <1>1, <2>1, <2>20, MemberCutOffRead
  <2> QED BY <1>3, <2>4, <2>5, <2>6, <2>7, <2>8, <2>9, <2>10, <2>11, <2>12, <2>13, <2>14, <2>15,
             <2>16, <2>17, <2>18, <2>19, <2>20, Zenon DEF TarNext
<1> QED BY <1>2, <1>3

(* Types, the layout of what is written, and what of it is restored, hold  *)
(* in every state.                                                         *)
THEOREM TarInvariance == TarSpec => []TarInv
<1>1. TarInit => TarInv
  BY TarInvInit
<1>2. TarInv /\ [TarNext]_tarVars => TarInv'
  BY TarInvStep
<1> QED BY <1>1, <1>2, PTL DEF TarSpec

(* Every value in its range, and trees stay trees, whatever fails and      *)
(* whoever changes a file while it is archived.                            *)
THEOREM TarTypes == TarSpec => [](TarTypeOK /\ TreesOK)
<1>1. TarInv => TarTypeOK /\ TreesOK
  BY DEF TarInv
<1> QED BY <1>1, TarInvariance, PTL

(* What tar adds is what it extracts and lists, for every tree, every size *)
(* of a block and every file, with files rewritten or grown meanwhile.     *)
THEOREM RoundTripHolds == TarSpec => []RoundTrip
<1>1. TarInv => RoundTrip
  <2> SUFFICES ASSUME TarInv, doing = "done", Undisturbed PROVE RoundTrip
    BY DEF RoundTrip
  <2>1. TarTypeOK /\ TreesOK /\ Written /\ Read /\ \A p \in astray : Astray(dst[Here], p)
    BY DEF TarInv, StraysOK
  <2>2. ASSUME op = "extract", ~cut PROVE ret = 0 /\ Faithful(Here)
    BY <2>1, <2>2 DEF Read, AtEnd
  <2>3. ASSUME op = "extract", ~cut, NEW p \in Paths \ (changed \cup astray), NEW i \in Members,
               src[p].kind # "absent", archive[i].name \in Above[p]
        PROVE  dst[Here][p] = src[p]
    <3>1. \/ \E j \in Members : Name(j) = p
          \/ \E m \in 1..Len(todo) : todo[m] = p \/ todo[m] \in Above[p]
      BY <2>1, <2>3 DEF Written, Reached, Name
    <3>2. Len(todo) = 0
      BY <2>1, EmptySeq DEF Written, Underway, Sent
    <3>3. PICK j \in Members : Name(j) = p
      BY <3>1, <3>2
    <3> QED BY <2>2, <2>3, <3>3 DEF Faithful, Name
  <2>4. ASSUME op = "list"
        PROVE  Len(listed) = Cardinality(Members) /\ \A i \in Members : listed[Rank(i)] = archive[i].name
    <3>1. \A i \in Members : i <= at
      BY <2>1, <2>4 DEF Read, AtEnd
    <3>2. {j \in Members : j <= at} = Members
      BY <3>1
    <3> QED BY <2>1, <2>4, <3>1, <3>2 DEF Read, Listed, Rank, Name
  <2> QED BY <2>1, <2>2, <2>3, <2>4 DEF RoundTrip
<1> QED BY <1>1, TarInvariance, PTL

(* An archive cut off anywhere is not extracted with success while a       *)
(* member whose header arrived is incomplete.                              *)
THEOREM NoSilentCutHolds == TarSpec => []NoSilentCut
<1>1. TarInv => NoSilentCut
  BY DEF TarInv, NoSilentCut, Read, AtEnd
<1> QED BY <1>1, TarInvariance, PTL

===============================================================================
